----------------------------- MODULE HostMapping -----------------------------
(***************************************************************************)
(* The host side of one confined component: RuntimeState, build_linker and *)
(* the WIT host functions of src/src/host.rs, with Wasmtime's resource     *)
(* table, the guest's own handle table and the owning services modelled    *)
(* from how host.rs uses them.                                             *)
(*                                                                         *)
(* A host call is three steps: BeginCall (lookup and argument checks, up   *)
(* to the point the request is forwarded), Serve (the service's decision   *)
(* and its effect) and Reply (the translation of the result).  In-process  *)
(* backends cannot be interleaved with; with an IPC backend the service    *)
(* may be asked to revoke between any two of the steps.                    *)
(***************************************************************************)
EXTENDS HostInterface

CONSTANTS
  Configurations,  \* the set-ups explored; see ConfigurationType
  Channel,         \* [Services -> Badges]: the badge the kernel delivers on the one
                   \* (endpoint, Frame) relationship of an IPC backend
  Withdrawable,    \* badges and objects that may be withdrawn (bounds a run)
  HostKeepsStale   \* whether the embedder may use a copy of a handle it has dropped

VARIABLES
  \* the embedder's choices, fixed once made
  conf,     \* the manifests RuntimeState::new (slots, clock) and build_linker
            \* (linker) were given, the attached backends, the component's imports
  phase,    \* "setup", "running", "refused" (instantiate failed), or how it ended:
            \* "stub_trap", "drop_trap" or "panicked"
  \* host side
  table,    \* the ResourceTable: Reps -> entry or None
  call,     \* the host call in progress, or NoCall
  answer,   \* the last result a host function returned to the guest
  \* guest side
  guest,    \* handles the guest owns: Handles -> the slot each was opened at, or None
  stale,    \* handles dropped so far (copies an embedder may have kept)
  \* the owning services
  gone,     \* revoked badges and destroyed objects
  content   \* what each file holds

vars == <<conf, phase, table, call, answer, guest, stale, gone, content>>

------------------------------------------------------------------------------
(* Types *)

Backends == {"none", "inproc", "ipc"}

SlotLists == [keystore : Seq(CapsOf("keystore") \cup {None}),
              filesystem : Seq(CapsOf("filesystem") \cup {None})]

\* Two GrantManifest objects: the state consumes one, the linker reads another, and
\* nothing makes the embedder build them alike.
ConfigurationType ==
  [slots : SlotLists, clock : BOOLEAN, linker : [slots : SlotLists, clock : BOOLEAN],
   backend : [Services -> Backends], imports : SUBSET Interfaces, stubs : BOOLEAN]

Entries == [service : Services, badge : Badges, object : Objects]

Denials == {"OpNotGranted", "BadgeRevoked", "WrongObject", "Destroyed"}
Verdicts == Denials \cup {"ok", "FileEmpty", "failed", "RemoteDenied(ACCESS)",
                          "RemoteDenied(other)", "Channel", "pending"}
Codes == {"some", "none", "ok", "access", "invalid"}
Values == Contents \cup {None}

NoCall == [handle |-> None]
Calls == [handle : Handles, op : Operations, arg : AllArgs, owned : BOOLEAN,
          cap : Caps, since : SUBSET (Badges \cup Objects), verdict : Verdicts, value : Values]

NoAnswer == [handle |-> None, op |-> "none", owned |-> TRUE, code |-> "none", value |-> None]
Answers == [handle : Handles \cup {None}, op : Operations \cup {"none", "now", "open"},
            owned : BOOLEAN, code : Codes, value : Values]

ASSUME ConfigurationsAssumption == Configurations \subseteq ConfigurationType
ASSUME ChannelAssumption ==
  /\ Channel \in [Services -> Badges]
  /\ \A s \in Services : Minted[Channel[s]].object \in ObjectsOf(s)
ASSUME WithdrawableAssumption == Withdrawable \subseteq Badges \cup Objects
ASSUME NoneAssumption == None \notin Entries \cup Handles
ASSUME StaleAssumption == HostKeepsStale \in BOOLEAN

(* One relationship per IPC backend ("v0 scope" of IpcKeystore): at most one
   slot of the manifest is backed when the backend is a Channel. *)
ASSUME SingleRelationship ==
  \A c \in Configurations, s \in Services :
    c.backend[s] = "ipc" =>
      Cardinality({i \in DOMAIN c.slots[s] : c.slots[s][i] # None}) <= 1

------------------------------------------------------------------------------
(* Helpers *)

\* Mutant: slots counted over the granted roles only, holes skipped.
GrantSkippingHoles(s, slot) ==
  LET granted == SelectSeq(conf.slots[s], LAMBDA c : c # None)
  IN IF slot < Len(granted) THEN granted[slot + 1] ELSE None

\* keys.get(slot).copied().flatten(): None out of range and for a hole.
Grant(s, slot) == IF slot < Len(conf.slots[s]) THEN conf.slots[s][slot + 1] ELSE None

\* Mutant: the clock is linked whether granted or not.
LinkedWithClock == {s \in Services : Len(conf.linker.slots[s]) > 0} \cup {"monotonic-clock"}

\* build_linker: an interface its manifest declares is linked even if every
\* role was declined; the clock is linked when granted.
Linked == {s \in Services : Len(conf.linker.slots[s]) > 0}
            \cup (IF conf.linker.clock THEN {"monotonic-clock"} ELSE {})

\* keystore_cap / file_cap: a typed lookup, None for a free or a foreign entry.
Lookup(h) ==
  IF table[h.rep] # None /\ table[h.rep].service = h.service
  THEN [badge |-> table[h.rep].badge, object |-> table[h.rep].object]
  ELSE None

\* Who the service sees: the record's badge and object in-process; over a
\* Channel only the kernel-delivered badge, whatever the record says.
Forward(s, cap) ==
  IF conf.backend[s] = "ipc"
  THEN [badge |-> Channel[s], object |-> Minted[Channel[s]].object]
  ELSE cap

\* The service's own checks, in the vocabulary of its error type.
Refusal(cap, op) ==
  IF cap.badge \in gone                         THEN "BadgeRevoked"
  ELSE IF op \notin Minted[cap.badge].ops       THEN "OpNotGranted"
  ELSE IF cap.object # Minted[cap.badge].object THEN "WrongObject"
  ELSE IF cap.object \in gone                   THEN "Destroyed"
  ELSE "none"

\* A read of a file never written finds it empty.
ReadStatus(x) == IF x = Empty THEN "FileEmpty" ELSE "ok"

\* What the backend hands back once the service answered: an in-process
\* service's error itself, a remote one's collapsed status.
Received(s, verdict) ==
  IF conf.backend[s] # "ipc" \/ verdict = "ok" THEN verdict
  ELSE IF verdict = "FileEmpty" THEN "ok"
  ELSE IF verdict \in Denials THEN "RemoteDenied(ACCESS)"
  ELSE "RemoteDenied(other)"

\* Mutant: a remote denial falls into the "everything else" arm.
ToCodeLocalOnly(verdict) ==
  IF verdict \in {"ok", "FileEmpty"} THEN "ok"
  ELSE IF verdict \in Denials THEN "access" ELSE "invalid"

\* to_error_code, to_fs_error_code and read's own FileEmpty arm.
ToCode(verdict) ==
  IF verdict \in {"ok", "FileEmpty"} THEN "ok"
  ELSE IF verdict \in Denials \cup {"RemoteDenied(ACCESS)"} THEN "access"
  ELSE "invalid"

Answered(h, op, owned, code, value) ==
  answer' = [handle |-> h, op |-> op, owned |-> owned, code |-> code, value |-> value]

Idle == phase = "running" /\ call = NoCall

------------------------------------------------------------------------------
Init ==
  /\ conf \in Configurations
  /\ phase = "setup"
  /\ table = [r \in Reps |-> None]
  /\ call = NoCall
  /\ answer = NoAnswer
  /\ guest = [h \in Handles |-> None]
  /\ stale = {}
  /\ gone = {}
  /\ content = [f \in Files |-> Empty]

\* Linker::instantiate: every import must be linked, unless the embedder
\* stubbed the unknown ones with traps (define_unknown_imports_as_traps).
Instantiate ==
  /\ phase = "setup"
  /\ phase' = IF conf.imports \subseteq Linked \/ conf.stubs THEN "running" ELSE "refused"
  /\ UNCHANGED <<conf, table, call, answer, guest, stale, gone, content>>

\* The guest calls an import that only a trap stub backs.
CallStub ==
  /\ Idle
  /\ conf.imports \ Linked # {}
  /\ phase' = "stub_trap"
  /\ UNCHANGED <<conf, table, call, answer, guest, stale, gone, content>>

\* now() and resolution(): the state's own clock, whatever the linker was given; the
\* expect panics without one.
Now ==
  /\ Idle
  /\ "monotonic-clock" \in conf.imports \cap Linked
  /\ \/ conf.clock /\ Answered(None, "now", TRUE, "ok", None) /\ UNCHANGED phase
     \/ ~conf.clock /\ phase' = "panicked" /\ UNCHANGED answer
  /\ UNCHANGED <<conf, table, call, guest, stale, gone, content>>

Free == {r \in Reps : table[r] = None}

\* open(slot): None for an ungranted slot and when the table is full, else a
\* fresh entry (any free index: Wasmtime reuses the freed ones).
Open(s, slot) ==
  /\ Idle
  /\ s \in conf.imports \cap Linked
  /\ \/ /\ Grant(s, slot) = None \/ Free = {}
        /\ Answered(None, "open", TRUE, "none", None)
        /\ UNCHANGED <<table, guest>>
     \/ /\ Grant(s, slot) # None
        /\ \E r \in Free :
             LET h == [service |-> s, rep |-> r] IN
             /\ table' = [table EXCEPT ![r] = [service |-> s, badge |-> Grant(s, slot).badge,
                                               object |-> Grant(s, slot).object]]
             /\ guest' = [guest EXCEPT ![h] = slot]
             /\ Answered(h, "open", TRUE, "some", None)
  /\ UNCHANGED <<conf, phase, call, stale, gone, content>>

\* Mutant: the destructor leaves the host's entry behind.
DropLeaking(h) ==
  /\ Idle
  /\ guest[h] # None
  /\ guest' = [guest EXCEPT ![h] = None]
  /\ stale' = IF HostKeepsStale THEN stale \cup {h} ELSE stale
  /\ UNCHANGED <<conf, phase, table, call, answer, gone, content>>

\* The resource destructor: table.delete(handle)?, which traps the guest if
\* there is nothing to delete.  The guest's own handle is consumed either way.
Drop(h) ==
  /\ Idle
  /\ guest[h] # None
  /\ guest' = [guest EXCEPT ![h] = None]
  /\ stale' = IF HostKeepsStale THEN stale \cup {h} ELSE stale
  /\ IF Lookup(h) # None
     THEN table' = [table EXCEPT ![h.rep] = None] /\ UNCHANGED phase
     ELSE phase' = "drop_trap" /\ UNCHANGED table
  /\ UNCHANGED <<conf, call, answer, gone, content>>

\* The front half of encrypt, decrypt, sign, read and write: resolve the
\* handle, check the argument, require an attached backend, then forward.
BeginCall(h, op, arg, owned) ==
  LET cap == Lookup(h)
      refused(code) == Answered(h, op, owned, code, None) /\ UNCHANGED call
  IN
  /\ Idle
  /\ op \in Ops(h.service) /\ arg \in Args(op)
  /\ IF owned THEN guest[h] # None ELSE h \in stale
  /\ \/ cap = None /\ refused("access")
     \/ cap # None /\ ~WellFormed(arg) /\ refused("invalid")
     \/ /\ cap # None /\ WellFormed(arg)
        /\ conf.backend[h.service] = "none"
        /\ refused("access")
     \/ /\ cap # None /\ WellFormed(arg)
        /\ conf.backend[h.service] # "none"
        /\ call' = [handle |-> h, op |-> op, arg |-> arg, owned |-> owned,
                    cap |-> Forward(h.service, cap), since |-> gone,
                    verdict |-> "pending", value |-> None]
        /\ UNCHANGED answer
  /\ UNCHANGED <<conf, phase, table, guest, stale, gone, content>>

Pending == call # NoCall /\ call.verdict = "pending"

\* The service decides, on its state now, and carries the operation out.
Serve ==
  /\ Pending
  /\ LET refusal == Refusal(call.cap, call.op)
         finish(v, x) == call' = [call EXCEPT !.verdict = Received(call.handle.service, v),
                                              !.value = x]
     IN
     \/ refusal # "none" /\ finish(refusal, None) /\ UNCHANGED content
     \/ refusal = "none" /\ finish("failed", None) /\ UNCHANGED content
     \/ /\ refusal = "none" /\ call.arg # "forged"
        /\ CASE call.op = "write" ->
                  finish("ok", None) /\ content' = [content EXCEPT ![call.cap.object] = call.arg]
             [] call.op = "read" ->
                  /\ finish(ReadStatus(content[call.cap.object]), content[call.cap.object])
                  /\ UNCHANGED content
             [] OTHER -> finish("ok", None) /\ UNCHANGED content
  /\ UNCHANGED <<conf, phase, table, answer, guest, stale, gone>>

\* An IPC backend's transport fails, before or after the service acted
\* (Channel::call's error, or a reply of the wrong length): reads as invalid.
TransportFails ==
  /\ call # NoCall
  /\ conf.backend[call.handle.service] = "ipc"
  /\ call.verdict # "Channel"
  /\ call' = [call EXCEPT !.verdict = "Channel", !.value = None]
  /\ UNCHANGED <<conf, phase, table, answer, guest, stale, gone, content>>

\* Mutant: an operation allowed a moment ago on the same handle still is.
ReplyCached ==
  /\ call # NoCall /\ ~Pending
  /\ Answered(call.handle, call.op, call.owned,
              IF answer.handle = call.handle /\ answer.op = call.op /\ answer.code = "ok"
              THEN "ok" ELSE ToCode(call.verdict), call.value)
  /\ call' = NoCall
  /\ UNCHANGED <<conf, phase, table, guest, stale, gone, content>>

\* Mutant: a transport error is retried instead of returned.
ReplyRetrying ==
  /\ call # NoCall /\ ~Pending
  /\ IF call.verdict = "Channel"
     THEN call' = [call EXCEPT !.verdict = "pending"] /\ UNCHANGED answer
     ELSE /\ Answered(call.handle, call.op, call.owned, ToCode(call.verdict), call.value)
          /\ call' = NoCall
  /\ UNCHANGED <<conf, phase, table, guest, stale, gone, content>>

\* The back half: map_err and the return to the guest.
Reply ==
  /\ call # NoCall /\ ~Pending
  /\ Answered(call.handle, call.op, call.owned, ToCode(call.verdict), call.value)
  /\ call' = NoCall
  /\ UNCHANGED <<conf, phase, table, guest, stale, gone, content>>

\* A broker revokes a badge, or a service destroys an object.  A service moved
\* into the state (in-process) is out of reach once the guest runs.
Withdraw(x) ==
  /\ x \notin gone
  /\ LET object == IF x \in Badges THEN Minted[x].object ELSE x
         s == CHOOSE s \in Services : object \in ObjectsOf(s)
     IN conf.backend[s] = "ipc" \/ (conf.backend[s] = "inproc" /\ phase = "setup")
  /\ gone' = gone \cup {x}
  /\ UNCHANGED <<conf, phase, table, call, answer, guest, stale, content>>

\* The guest computes, or has returned, been refused or trapped.
Rest ==
  /\ phase # "setup" /\ call = NoCall
  /\ UNCHANGED vars

Next ==
  \/ Instantiate \/ CallStub \/ Now \/ Serve \/ TransportFails \/ Reply \/ Rest
  \/ \E s \in Services, slot \in Slots : Open(s, slot)
  \/ \E h \in Handles : Drop(h)
  \/ \E h \in Handles, op \in Operations, owned \in BOOLEAN :
       \E arg \in Args(op) : BeginCall(h, op, arg, owned)
  \/ \E x \in Withdrawable : Withdraw(x)

Spec == Init /\ [][Next]_vars

\* The services answer and the host returns: nothing else may hold a call up.
FairSpec == Spec /\ WF_vars(Serve) /\ WF_vars(Reply)

------------------------------------------------------------------------------
(* Properties *)

\* Every variable has its type; in particular no content longer than
\* MAX_BLOCK_LEN ever reaches the store (host.rs:657-661).
TypeOK ==
  /\ conf \in Configurations
  /\ phase \in {"setup", "running", "refused", "stub_trap", "drop_trap", "panicked"}
  /\ table \in [Reps -> Entries \cup {None}]
  /\ call \in Calls \cup {NoCall}
  /\ answer \in Answers
  /\ guest \in [Handles -> Slots \cup {None}]
  /\ stale \in SUBSET Handles
  /\ gone \in SUBSET (Badges \cup Objects)
  /\ content \in [Files -> Contents]

\* A handle the guest holds resolves, whatever was opened and dropped since, to
\* the record the manifest put in the slot it was opened at, in the interface
\* it was opened through; holes keep the later slots where they are
\* (host.rs:619-624, 677-682, 478-484).
HandleNamesItsGrant ==
  \A h \in Handles : guest[h] # None =>
    /\ guest[h] + 1 \in DOMAIN conf.slots[h.service]
    /\ Lookup(h) # None
    /\ Lookup(h) = conf.slots[h.service][guest[h] + 1]

\* The resource table holds exactly the entries of the handles the guest owns:
\* none is shared by two handles and none outlives its handle (host.rs:613-616,
\* 671-674).
EntriesAreOwned ==
  \A r \in Reps : table[r] # None <=>
    /\ \E h \in Handles : h.rep = r /\ guest[h] # None
    /\ \A g, h \in Handles : g.rep = r /\ h.rep = r /\ guest[g] # None /\ guest[h] # None
                              => g = h

\* What ends a guest that was let run: never a destructor; a stub only where the
\* embedder filled the linker with stubs, else the import would have been refused; and
\* the clock's expect only where the linker was given a clock and the state was not
\* (host.rs:613-616, 671-674, 684-694, 706-725).
NoHostTrap ==
  /\ phase # "drop_trap"
  /\ phase = "stub_trap" => conf.stubs /\ conf.imports \ Linked # {}
  /\ phase = "panicked" => conf.linker.clock /\ ~conf.clock

\* An operation begun after the badge of its slot's grant was revoked, or the
\* object destroyed, never answers ok: no decision is cached between calls
\* (host.rs:134-137).
RevocationIsFinal ==
  [][\A h \in Handles :
       (call # NoCall /\ call.handle = h /\ call.owned /\ call' = NoCall /\ answer'.code = "ok") =>
         LET cap == Forward(h.service, conf.slots[h.service][guest[h] + 1])
         IN {cap.badge, cap.object} \cap call.since = {}]_vars

\* open answers none for a granted slot only if the guest itself holds an open
\* handle at every index of the table: nothing leaks (host.rs:623, 681).
OpenFailsOnlyWhenFull ==
  [][\A s \in Services, slot \in Slots :
       Open(s, slot) /\ answer'.code = "none" /\ Grant(s, slot) # None =>
         \A r \in Reps : \E h \in Handles : h.rep = r /\ guest[h] # None]_vars

\* Every forwarded call is answered (host.rs:558-611, 627-669): errors of the
\* service and of the transport are returned, never retried or swallowed.
CallAnswered == call # NoCall ~> call = NoCall

\* "a stale handle after `drop` reads as `access`" (host.rs:543-545).
DroppedReadsAsAccess == ~answer.owned => answer.code = "access"

------------------------------------------------------------------------------
(* Refinement: the mapping implements CapabilityAccess. *)

\* The authority each slot stands for, and the services anything can be asked of.
Offered ==
  [s \in Services |-> [slot \in Slots |->
     IF Grant(s, slot) = None THEN None ELSE Forward(s, Grant(s, slot))]]

Attached == {s \in Services : conf.backend[s] # "none"}

\* What a verdict means for the operation; a service that refused for want of
\* authority may be local or remote.
Status(verdict) ==
  IF verdict = "pending" THEN "open"
  ELSE IF verdict \in {"ok", "FileEmpty"} THEN "done"
  ELSE IF verdict \in Denials \cup {"RemoteDenied(ACCESS)"} THEN "denied" ELSE "void"

Requested ==
  IF call = NoCall THEN NoCall
  ELSE [handle |-> call.handle, op |-> call.op, arg |-> call.arg,
        status |-> Status(call.verdict), value |-> call.value]

LastTold ==
  [handle |-> answer.handle, op |-> answer.op, code |-> answer.code, value |-> answer.value]

Access == INSTANCE CapabilityAccess WITH
  offer <- Offered, attached <- Attached, held <- guest, request <- Requested, result <- LastTold

\* The table, the link step, the precheck order, the transport and its status
\* codes together keep the promise of CapabilityAccess (host.rs:557-694).
ImplementsAccess == Access!Spec
==============================================================================
