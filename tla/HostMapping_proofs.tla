-------------------------- MODULE HostMapping_proofs --------------------------
(***************************************************************************)
(* Safety of HostMapping for every manifest, table size and set of badges. *)
(***************************************************************************)
EXTENDS HostMapping, TLAPS

\* A guest handle's table entry is the record of the slot it was opened at.
HandleInv ==
  \A h \in Handles : guest[h] # None =>
    /\ Grant(h.service, guest[h]) # None
    /\ table[h.rep] = [service |-> h.service, badge |-> Grant(h.service, guest[h]).badge,
                       object |-> Grant(h.service, guest[h]).object]

\* Every entry belongs to some handle of the guest.
OwnerInv == \A r \in Reps : table[r] # None => \E h \in Handles : h.rep = r /\ guest[h] # None

\* A forwarded call has a well-formed argument of its own operation.
CallInv ==
  call # NoCall => /\ call.op \in Ops(call.handle.service)
                   /\ call.arg \in Args(call.op) /\ WellFormed(call.arg)

\* A component let run has every import linked, or stubbed.
TrapInv ==
  /\ NoHostTrap
  /\ phase \notin {"setup", "refused"} => conf.imports \subseteq Linked \/ conf.stubs

IInv == TypeOK /\ HandleInv /\ OwnerInv /\ CallInv /\ TrapInv

------------------------------------------------------------------------------
(* The operators *)

\* A slot of the manifest holds a record or is a hole.
LEMMA GrantType ==
  ASSUME conf \in Configurations, NEW s \in Services, NEW slot \in Nat
  PROVE  /\ Grant(s, slot) \in Caps \cup {None}
         /\ Grant(s, slot) # None => /\ slot + 1 \in DOMAIN conf.slots[s]
                                     /\ Grant(s, slot) = conf.slots[s][slot + 1]
<1>1. conf \in ConfigurationType
  BY ConfigurationsAssumption
<1>2. conf.slots[s] \in Seq(Caps \cup {None})
  <2>1. /\ conf.slots.keystore \in Seq(CapsOf("keystore") \cup {None})
        /\ conf.slots.filesystem \in Seq(CapsOf("filesystem") \cup {None})
    BY <1>1 DEF ConfigurationType, SlotLists
  <2>2. \A t \in Services : CapsOf(t) \subseteq Caps
    BY DEF Services, CapsOf, Caps, ObjectsOf, Objects
  <2>3. \A t \in Services : Seq(CapsOf(t) \cup {None}) \subseteq Seq(Caps \cup {None})
    BY <2>2
  <2>4. CASE s = "keystore"
    BY <2>1, <2>3, <2>4 DEF Services
  <2>5. CASE s = "filesystem"
    BY <2>1, <2>3, <2>5 DEF Services
  <2> QED
    BY <2>4, <2>5 DEF Services
<1> QED
  BY <1>2 DEF Grant

\* A lookup finds a capability or nothing.
LEMMA LookupType ==
  ASSUME TypeOK, NEW h \in Handles
  PROVE  Lookup(h) \in Caps \cup {None}
  BY DEF TypeOK, Lookup, Caps, Entries, Handles

\* What is forwarded names a badge and an object, in-process and over IPC.
LEMMA ForwardType ==
  ASSUME NEW s \in Services, NEW cap \in Caps
  PROVE  Forward(s, cap) \in Caps
  BY ChannelAssumption, MintedAssumption DEF Forward, Caps

\* An object that a badge covers for a file operation is a file.
LEMMA FileBadge ==
  ASSUME NEW cap \in Caps, NEW op \in {"read", "write"}, Refusal(cap, op) = "none"
  PROVE  cap.object \in Files
<1>1. cap.badge \in Badges /\ cap.object \in Objects
  BY DEF Caps
<1>2. op \in Minted[cap.badge].ops /\ cap.object = Minted[cap.badge].object
  BY DEF Refusal
<1>3. cap.object \notin Keys
  <2> SUFFICES ASSUME cap.object \in Keys PROVE FALSE
    OBVIOUS
  <2>1. Minted[cap.badge].ops \subseteq Ops("keystore")
    BY <1>1, <1>2, MintedAssumption DEF Services, ObjectsOf
  <2> QED
    BY <2>1, <1>2 DEF Ops
<1> QED
  BY <1>1, <1>3 DEF Objects

\* The refusals are the services' denials.
LEMMA RefusalType ==
  ASSUME NEW cap, NEW op
  PROVE  Refusal(cap, op) \in Denials \cup {"none"}
  BY DEF Refusal, Denials

\* Whatever a service returns, the host receives a verdict it can translate.
LEMMA ReceivedType ==
  ASSUME NEW s, NEW v \in Denials \cup {"ok", "FileEmpty", "failed"}
  PROVE  /\ Received(s, v) \in Verdicts /\ Received(s, v) # "pending"
         /\ ToCode(Received(s, v)) \in {"ok", "access", "invalid"}
  BY DEF Received, Verdicts, Denials, ToCode

------------------------------------------------------------------------------
(* The inductive invariant *)

\* A handle that is held resolves, and to the record of its slot.
LEMMA HeldResolves ==
  ASSUME TypeOK, HandleInv, NEW h \in Handles, guest[h] # None
  PROVE  /\ table[h.rep] # None
         /\ Lookup(h) # None
         /\ Lookup(h) = Grant(h.service, guest[h])
<1>1. guest[h] \in Nat /\ conf \in Configurations
  BY SlotsAssumption DEF TypeOK
<1>2. h.service \in Services /\ h.rep \in Reps
  BY DEF Handles
<1> DEFINE g == Grant(h.service, guest[h])
<1>3. g \in Caps
  BY <1>1, <1>2, GrantType DEF HandleInv
<1>4. table[h.rep] = [service |-> h.service, badge |-> g.badge, object |-> g.object]
  BY DEF HandleInv
<1>5. table[h.rep] # None
  BY <1>2, <1>3, <1>4, NoneAssumption DEF Entries, Caps
<1>6. Lookup(h) = [badge |-> g.badge, object |-> g.object]
  BY <1>4, <1>5 DEF Lookup
<1>7. Lookup(h) = g
  BY <1>3, <1>6 DEF Caps
<1> QED
  BY <1>3, <1>5, <1>7, DistinctAssumption

\* The invariant holds in the embedder's initial state (host.rs:505-540): an
\* empty table, no call, no handle.
THEOREM InitInv == Init => IInv
  BY NoneAssumption
     DEF Init, IInv, TypeOK, HandleInv, OwnerInv, CallInv, TrapInv, NoHostTrap, Handles, NoAnswer, NoCall,
         Answers, Codes, Values, Contents

\* Steps that change neither the table nor the guest's handles nor the manifest
\* leave the correspondence between them alone.
LEMMA TableKept ==
  ASSUME HandleInv, OwnerInv, UNCHANGED <<conf, table, guest>>
  PROVE  HandleInv' /\ OwnerInv'
  BY DEF HandleInv, OwnerInv, Grant

\* open: only a free index is used, and no handle leads to a free index.
LEMMA OpenInv ==
  ASSUME IInv, NEW s \in Services, NEW slot \in Slots, Open(s, slot)
  PROVE  IInv'
<1> USE DEF IInv
<1>1. slot \in Nat /\ conf \in Configurations
  BY SlotsAssumption DEF TypeOK
<1>2. UNCHANGED <<conf, phase, call, stale, gone, content>>
  BY DEF Open
<1>3. CallInv' /\ TrapInv'
  BY <1>2 DEF CallInv, TrapInv, NoHostTrap, Linked
<1>4. CASE /\ answer' = [handle |-> None, op |-> "open", owned |-> TRUE, code |-> "none", value |-> None]
           /\ UNCHANGED <<table, guest>>
  <2>1. TypeOK'
    BY <1>2, <1>4 DEF TypeOK, Answers, Codes, Values
  <2> QED
    BY <1>2, <1>3, <1>4, <2>1, TableKept
<1>5. ASSUME Grant(s, slot) # None, NEW r \in Free,
             table' = [table EXCEPT ![r] = [service |-> s, badge |-> Grant(s, slot).badge,
                                            object |-> Grant(s, slot).object]],
             guest' = [guest EXCEPT ![[service |-> s, rep |-> r]] = slot],
             answer' = [handle |-> [service |-> s, rep |-> r], op |-> "open", owned |-> TRUE,
                        code |-> "some", value |-> None]
      PROVE  IInv'
  <2> DEFINE new == [service |-> s, rep |-> r]
             g == Grant(s, slot)
             e == [service |-> s, badge |-> g.badge, object |-> g.object]
  <2>1. r \in Reps /\ table[r] = None /\ new \in Handles
    BY DEF Free, Handles
  <2>2. g \in Caps /\ e \in Entries
    BY <1>1, <1>5, GrantType DEF Caps, Entries
  <2>3. TypeOK'
    <3>1. table' \in [Reps -> Entries \cup {None}]
      BY <1>5, <2>1, <2>2 DEF TypeOK
    <3>2. guest' \in [Handles -> Slots \cup {None}]
      BY <1>5, <2>1 DEF TypeOK
    <3>3. answer' \in Answers
      BY <1>5, <2>1 DEF Answers, Codes, Values
    <3> QED
      BY <1>2, <3>1, <3>2, <3>3 DEF TypeOK
  <2>4. \A h \in Handles : h # new /\ guest[h] # None => h.rep # r
    BY <2>1, HeldResolves
  <2>5. HandleInv'
    <3> SUFFICES ASSUME NEW h \in Handles, guest'[h] # None
                 PROVE  /\ Grant(h.service, guest'[h]) # None
                        /\ table'[h.rep] = [service |-> h.service,
                                            badge |-> Grant(h.service, guest'[h]).badge,
                                            object |-> Grant(h.service, guest'[h]).object]
      BY <1>2 DEF HandleInv, Grant
    <3>1. CASE h = new
      <4>1. guest'[h] = slot /\ table'[r] = e /\ h.service = s /\ h.rep = r
        BY <1>5, <2>1, <3>1 DEF TypeOK
      <4> QED
        BY <1>5, <4>1
    <3>2. CASE h # new
      <4>1. guest'[h] = guest[h] /\ h.rep \in Reps
        BY <1>5, <3>2 DEF TypeOK, Handles
      <4>2. table'[h.rep] = table[h.rep]
        BY <1>5, <2>4, <3>2, <4>1 DEF TypeOK
      <4> QED
        BY <4>1, <4>2 DEF HandleInv
    <3> QED
      BY <3>1, <3>2
  <2>6. OwnerInv'
    <3> SUFFICES ASSUME NEW q \in Reps, table'[q] # None
                 PROVE  \E h \in Handles : h.rep = q /\ guest'[h] # None
      BY DEF OwnerInv
    <3>1. CASE q = r
      <4>1. guest'[new] = slot /\ new.rep = r
        BY <1>5, <2>1 DEF TypeOK
      <4> QED
        BY <2>1, <3>1, <4>1, DistinctAssumption
    <3>2. CASE q # r
      <4>1. table[q] # None
        BY <1>5, <3>2 DEF TypeOK
      <4>2. PICK h \in Handles : h.rep = q /\ guest[h] # None
        BY <4>1 DEF OwnerInv
      <4>3. guest'[h] = guest[h]
        BY <1>5, <3>2, <4>2 DEF TypeOK
      <4> QED
        BY <4>2, <4>3
    <3> QED
      BY <3>1, <3>2
  <2> QED
    BY <1>3, <2>3, <2>5, <2>6
<1> QED
  BY <1>4, <1>5 DEF Open, Answered

\* drop: the handle resolves, so its entry and only its entry is freed.
LEMMA DropInv ==
  ASSUME IInv, NEW h \in Handles, Drop(h)
  PROVE  IInv'
<1> USE DEF IInv
<1>1. guest[h] # None /\ Lookup(h) # None /\ h.rep \in Reps
  BY HeldResolves DEF Drop, Handles
<1>2. /\ table' = [table EXCEPT ![h.rep] = None]
      /\ guest' = [guest EXCEPT ![h] = None]
      /\ stale' = IF HostKeepsStale THEN stale \cup {h} ELSE stale
      /\ UNCHANGED <<conf, phase, call, answer, gone, content>>
  BY <1>1 DEF Drop
<1>3. TypeOK'
  BY <1>1, <1>2 DEF TypeOK
<1>4. CallInv' /\ TrapInv'
  BY <1>2 DEF CallInv, TrapInv, NoHostTrap, Linked
<1>5. ASSUME NEW g \in Handles, guest'[g] # None
      PROVE  guest[g] # None /\ guest'[g] = guest[g] /\ g.rep # h.rep
  <2>1. g # h /\ guest'[g] = guest[g]
    BY <1>2, <1>5 DEF TypeOK
  <2>2. \A f \in Handles : guest[f] # None => table[f.rep].service = f.service
    <3> SUFFICES ASSUME NEW f \in Handles, guest[f] # None
                 PROVE  table[f.rep].service = f.service
      OBVIOUS
    <3>1. table[f.rep] = [service |-> f.service, badge |-> Grant(f.service, guest[f]).badge,
                          object |-> Grant(f.service, guest[f]).object]
      BY DEF HandleInv
    <3> QED
      BY ONLY <3>1
  <2>3. table[g.rep].service = g.service /\ table[h.rep].service = h.service /\ guest[g] # None
    BY <1>1, <1>5, <2>1, <2>2
  <2> QED
    BY <2>1, <2>3 DEF Handles
<1>6. HandleInv'
  <2> SUFFICES ASSUME NEW g \in Handles, guest'[g] # None
               PROVE  /\ Grant(g.service, guest[g]) # None
                      /\ table'[g.rep] = [service |-> g.service,
                                          badge |-> Grant(g.service, guest[g]).badge,
                                          object |-> Grant(g.service, guest[g]).object]
    BY <1>2, <1>5 DEF HandleInv, Grant
  <2>1. table'[g.rep] = table[g.rep]
    BY <1>2, <1>5 DEF TypeOK, Handles
  <2> QED
    BY <1>5, <2>1 DEF HandleInv
<1>7. OwnerInv'
  <2> SUFFICES ASSUME NEW r \in Reps, table'[r] # None
               PROVE  \E g \in Handles : g.rep = r /\ guest'[g] # None
    BY DEF OwnerInv
  <2>1. r # h.rep /\ table[r] # None
    BY <1>1, <1>2 DEF TypeOK
  <2>2. PICK g \in Handles : g.rep = r /\ guest[g] # None
    BY <2>1 DEF OwnerInv
  <2>3. guest'[g] = guest[g]
    BY <1>2, <2>1, <2>2 DEF TypeOK
  <2> QED
    BY <2>2, <2>3
<1> QED
  BY <1>3, <1>4, <1>6, <1>7

\* The front half of a call forwards only what passed its argument checks.
LEMMA BeginCallInv ==
  ASSUME IInv, NEW h \in Handles, NEW op \in Operations, NEW owned \in BOOLEAN,
         NEW arg \in Args(op), BeginCall(h, op, arg, owned)
  PROVE  IInv'
<1> USE DEF IInv
<1>1. UNCHANGED <<conf, phase, table, guest, stale, gone, content>>
  BY DEF BeginCall
<1>2. HandleInv' /\ OwnerInv' /\ TrapInv'
  BY <1>1, TableKept DEF TrapInv, NoHostTrap, Linked
<1>3. op \in Ops(h.service) /\ arg \in Args(op) /\ h.service \in Services
  BY DEF BeginCall, Handles
<1>4. ASSUME NEW code \in {"access", "invalid"},
             answer' = [handle |-> h, op |-> op, owned |-> owned, code |-> code, value |-> None],
             UNCHANGED call
      PROVE  IInv'
  <2>1. TypeOK'
    BY <1>1, <1>4 DEF TypeOK, Answers, Codes, Values
  <2>2. CallInv'
    BY <1>4 DEF CallInv
  <2> QED
    BY <1>2, <2>1, <2>2
<1>5. ASSUME Lookup(h) # None, WellFormed(arg), UNCHANGED answer,
             call' = [handle |-> h, op |-> op, arg |-> arg, owned |-> owned,
                      cap |-> Forward(h.service, Lookup(h)), since |-> gone,
                      verdict |-> "pending", value |-> None]
      PROVE  IInv'
  <2>1. Forward(h.service, Lookup(h)) \in Caps
    BY <1>3, <1>5, LookupType, ForwardType
  <2>2. arg \in AllArgs
    BY DEF Args, AllArgs
  <2>3. call' \in Calls
    BY <1>5, <2>1, <2>2 DEF Calls, TypeOK, Verdicts, Values
  <2>4. TypeOK'
    BY <1>1, <1>5, <2>3 DEF TypeOK
  <2>5. CallInv'
    BY <1>3, <1>5 DEF CallInv
  <2> QED
    BY <1>2, <2>4, <2>5
<1> QED
  BY <1>4, <1>5 DEF BeginCall, Answered

\* Serving a call changes no handle; what a write stores passed the size check.
LEMMA ServeInv ==
  ASSUME IInv, Serve
  PROVE  IInv'
<1> USE DEF IInv
<1>1. UNCHANGED <<conf, phase, table, answer, guest, stale, gone>>
  BY DEF Serve
<1>2. HandleInv' /\ OwnerInv' /\ TrapInv'
  BY <1>1, TableKept DEF TrapInv, NoHostTrap, Linked
<1>3. call # NoCall /\ call \in Calls
  BY DEF Serve, Pending, TypeOK
<1> DEFINE s == call.handle.service
           cap == call.cap
           refusal == Refusal(cap, call.op)
<1>4. cap \in Caps
  BY <1>3 DEF Calls
<1>5. ASSUME NEW v \in Denials \cup {"ok", "FileEmpty", "failed"}, NEW x \in Values,
             call' = [call EXCEPT !.verdict = Received(s, v), !.value = x],
             content' \in [Files -> Contents]
      PROVE  IInv'
  <2>1. Received(s, v) \in Verdicts
    BY <1>5, ReceivedType
  <2>2. call' \in Calls
    BY <1>3, <1>5, <2>1 DEF Calls
  <2>3. TypeOK'
    BY <1>1, <1>5, <2>2 DEF TypeOK
  <2>4. CallInv'
    BY <1>3, <1>5 DEF CallInv, Calls
  <2> QED
    BY <1>2, <2>3, <2>4
<1>6. CASE /\ refusal # "none" /\ UNCHANGED content
           /\ call' = [call EXCEPT !.verdict = Received(s, refusal), !.value = None]
  <2>1. refusal \in Denials
    BY <1>6, RefusalType
  <2>2. content' \in [Files -> Contents]
    BY <1>6 DEF TypeOK
  <2> QED
    BY <1>6, <2>1, <2>2, <1>5 DEF Values
<1>7. CASE call' = [call EXCEPT !.verdict = Received(s, "failed"), !.value = None] /\ UNCHANGED content
  BY <1>7, <1>5 DEF Values, TypeOK
<1>8. CASE /\ refusal = "none" /\ call.op = "write"
           /\ call' = [call EXCEPT !.verdict = Received(s, "ok"), !.value = None]
           /\ content' = [content EXCEPT ![cap.object] = call.arg]
  <2>1. call.arg \in Data
    BY <1>3, <1>8 DEF CallInv, Args, WellFormed
  <2>2. content' \in [Files -> Contents]
    BY <1>8, <2>1 DEF TypeOK, Contents
  <2> QED
    BY <1>8, <2>2, <1>5 DEF Values
<1>9. CASE /\ refusal = "none" /\ call.op = "read" /\ UNCHANGED content
           /\ call' = [call EXCEPT !.verdict = Received(s, ReadStatus(content[cap.object])),
                                   !.value = content[cap.object]]
  <2>1. cap.object \in Files
    BY <1>4, <1>9, FileBadge
  <2>2. content[cap.object] \in Values
    BY <2>1 DEF TypeOK, Values
  <2>3. content' \in [Files -> Contents]
    BY <1>9 DEF TypeOK
  <2>4. ReadStatus(content[cap.object]) \in {"ok", "FileEmpty"}
    BY DEF ReadStatus
  <2> QED
    BY <1>9, <2>2, <2>3, <2>4, <1>5
<1>10. CASE call' = [call EXCEPT !.verdict = Received(s, "ok"), !.value = None] /\ UNCHANGED content
  BY <1>10, <1>5 DEF Values, TypeOK
<1> QED
  BY <1>6, <1>7, <1>8, <1>9, <1>10 DEF Serve

\* A failed transport only changes what the host makes of the call.
LEMMA TransportFailsInv ==
  ASSUME IInv, TransportFails
  PROVE  IInv'
<1> USE DEF IInv
<1>1. /\ call # NoCall /\ call \in Calls
      /\ call' = [call EXCEPT !.verdict = "Channel", !.value = None]
      /\ UNCHANGED <<conf, phase, table, answer, guest, stale, gone, content>>
  BY DEF TransportFails, TypeOK
<1>2. HandleInv' /\ OwnerInv' /\ TrapInv'
  BY <1>1, TableKept DEF TrapInv, NoHostTrap, Linked
<1>3. call' \in Calls
  BY <1>1 DEF Calls, Verdicts, Values
<1>4. TypeOK'
  BY <1>1, <1>3 DEF TypeOK
<1>5. CallInv'
  BY <1>1 DEF CallInv, Calls
<1> QED
  BY <1>2, <1>4, <1>5

\* The back half only turns the verdict into an answer.
LEMMA ReplyInv ==
  ASSUME IInv, Reply
  PROVE  IInv'
<1> USE DEF IInv
<1>1. /\ call # NoCall /\ call \in Calls
      /\ answer' = [handle |-> call.handle, op |-> call.op, owned |-> call.owned,
                    code |-> ToCode(call.verdict), value |-> call.value]
      /\ call' = NoCall
      /\ UNCHANGED <<conf, phase, table, guest, stale, gone, content>>
  BY DEF Reply, Answered, TypeOK
<1>2. HandleInv' /\ OwnerInv' /\ TrapInv'
  BY <1>1, TableKept DEF TrapInv, NoHostTrap, Linked
<1>3. ToCode(call.verdict) \in Codes
  BY DEF ToCode, Codes
<1>4. answer' \in Answers
  BY <1>1, <1>3 DEF Calls, Answers
<1>5. TypeOK'
  BY <1>1, <1>4 DEF TypeOK
<1>6. CallInv'
  BY <1>1 DEF CallInv
<1> QED
  BY <1>2, <1>5, <1>6

\* A linked clock the state has is read; one it has not can only come from a linker
\* that was given another manifest.
LEMMA NowInv ==
  ASSUME IInv, Now
  PROVE  IInv'
<1> USE DEF IInv
<1>1. UNCHANGED <<conf, table, call, guest, stale, gone, content>>
  BY DEF Now
<1>2. conf.linker.clock /\ phase = "running"
  BY DEF Now, Idle, Linked, Services
<1>3. HandleInv' /\ OwnerInv' /\ CallInv'
  BY <1>1, <1>2, TableKept DEF CallInv, Now
<1>4. CASE conf.clock
  <2>1. /\ answer' = [handle |-> None, op |-> "now", owned |-> TRUE, code |-> "ok", value |-> None]
        /\ UNCHANGED phase
    BY <1>4 DEF Now, Answered
  <2>2. TypeOK'
    BY <1>1, <2>1 DEF TypeOK, Answers, Codes, Values
  <2>3. TrapInv'
    BY <1>1, <2>1 DEF TrapInv, NoHostTrap, Linked
  <2> QED
    BY <1>3, <2>2, <2>3
<1>5. CASE ~conf.clock
  <2>1. phase' = "panicked" /\ UNCHANGED answer
    BY <1>5 DEF Now
  <2>2. TypeOK'
    BY <1>1, <2>1 DEF TypeOK
  <2>3. TrapInv'
    BY <1>1, <1>2, <1>5, <2>1 DEF TrapInv, NoHostTrap, Linked
  <2> QED
    BY <1>3, <2>2, <2>3
<1> QED
  BY <1>4, <1>5

\* Instantiation, a stub's trap and a withdrawal leave handles and table alone.
LEMMA OutsideInv ==
  ASSUME IInv, Instantiate \/ CallStub \/ \E x \in Withdrawable : Withdraw(x)
  PROVE  IInv'
<1> USE DEF IInv
<1>1. UNCHANGED <<conf, table, call, answer, guest, stale, content>>
  BY DEF Instantiate, CallStub, Withdraw
<1>2. HandleInv' /\ OwnerInv' /\ CallInv'
  BY <1>1, TableKept DEF CallInv
<1>3. CASE Instantiate
  BY <1>2, <1>3 DEF Instantiate, TypeOK, TrapInv, NoHostTrap, Linked
<1>4. CASE CallStub
  BY <1>2, <1>4 DEF CallStub, Idle, TypeOK, TrapInv, NoHostTrap, Linked
<1>5. ASSUME NEW x \in Withdrawable, Withdraw(x)
      PROVE  IInv'
  <2>1. gone' \in SUBSET (Badges \cup Objects) /\ UNCHANGED phase
    BY <1>5, WithdrawableAssumption DEF Withdraw, TypeOK
  <2> QED
    BY <1>1, <1>2, <2>1 DEF TypeOK, TrapInv, NoHostTrap, Linked
<1> QED
  BY <1>3, <1>4, <1>5

\* Every step of the mapping preserves the invariant (host.rs:558-694).
THEOREM StepInv == IInv /\ [Next]_vars => IInv'
<1> SUFFICES ASSUME IInv, [Next]_vars
             PROVE  IInv'
  OBVIOUS
<1>1. CASE Instantiate \/ CallStub \/ \E x \in Withdrawable : Withdraw(x)
  BY <1>1, OutsideInv
<1>2. CASE Now
  BY <1>2, NowInv
<1>3. CASE Serve
  BY <1>3, ServeInv
<1>4. CASE TransportFails
  BY <1>4, TransportFailsInv
<1>5. CASE Reply
  BY <1>5, ReplyInv
<1>6. CASE \E s \in Services, slot \in Slots : Open(s, slot)
  BY <1>6, OpenInv
<1>7. CASE \E h \in Handles : Drop(h)
  BY <1>7, DropInv
<1>8. CASE \E h \in Handles, op \in Operations, owned \in BOOLEAN :
             \E arg \in Args(op) : BeginCall(h, op, arg, owned)
  BY <1>8, BeginCallInv
<1>9. CASE Rest \/ UNCHANGED vars
  BY <1>9, TableKept DEF IInv, vars, Rest, TypeOK, CallInv, TrapInv, NoHostTrap, Linked
<1> QED
  BY <1>1, <1>2, <1>3, <1>4, <1>5, <1>6, <1>7, <1>8, <1>9 DEF Next

\* The strengthened invariant holds in every reachable state.
THEOREM Invariance == Spec => []IInv
  BY InitInv, StepInv, PTL DEF Spec

------------------------------------------------------------------------------
(* The invariants the runs check *)

\* Every variable keeps its type; in particular nothing longer than
\* MAX_BLOCK_LEN is ever stored (host.rs:657-661).
THEOREM TypeCorrect == Spec => []TypeOK
<1>1. IInv => TypeOK
  BY DEF IInv
<1> QED
  BY <1>1, Invariance, PTL

\* Whatever was opened and dropped, a held handle names the record of its slot
\* (host.rs:619-624, 677-682).
THEOREM HandlesNameTheirGrants == Spec => []HandleNamesItsGrant
<1>1. IInv => HandleNamesItsGrant
  <2> SUFFICES ASSUME IInv, NEW h \in Handles, guest[h] # None
               PROVE  /\ guest[h] + 1 \in DOMAIN conf.slots[h.service]
                      /\ Lookup(h) # None
                      /\ Lookup(h) = conf.slots[h.service][guest[h] + 1]
    BY DEF HandleNamesItsGrant
  <2>1. Lookup(h) # None /\ Lookup(h) = Grant(h.service, guest[h])
    BY HeldResolves DEF IInv
  <2>2. guest[h] \in Nat /\ conf \in Configurations /\ h.service \in Services
    BY SlotsAssumption DEF IInv, TypeOK, Handles
  <2> QED
    BY <2>1, <2>2, GrantType
<1> QED
  BY <1>1, Invariance, PTL

\* The table holds exactly one entry per handle the guest holds (host.rs:613-616,
\* 671-674).
THEOREM TableHoldsHandles == Spec => []EntriesAreOwned
<1>1. IInv => EntriesAreOwned
  <2> SUFFICES ASSUME IInv, NEW r \in Reps
               PROVE  table[r] # None <=>
                        /\ \E h \in Handles : h.rep = r /\ guest[h] # None
                        /\ \A g, h \in Handles :
                             g.rep = r /\ h.rep = r /\ guest[g] # None /\ guest[h] # None => g = h
    BY DEF EntriesAreOwned
  <2>1. table[r] # None <=> \E h \in Handles : h.rep = r /\ guest[h] # None
    BY HeldResolves DEF IInv, OwnerInv
  <2>2. ASSUME NEW f \in Handles, guest[f] # None
        PROVE  table[f.rep].service = f.service
    <3>1. table[f.rep] = [service |-> f.service, badge |-> Grant(f.service, guest[f]).badge,
                          object |-> Grant(f.service, guest[f]).object]
      BY <2>2 DEF IInv, HandleInv
    <3> QED
      BY ONLY <3>1
  <2>3. ASSUME NEW g \in Handles, NEW h \in Handles, g.rep = r, h.rep = r,
               guest[g] # None, guest[h] # None
        PROVE  g = h
    <3>1. g.service = h.service
      BY <2>2, <2>3
    <3> QED
      BY <2>3, <3>1 DEF Handles
  <2> QED
    BY <2>1, <2>3
<1> QED
  BY <1>1, Invariance, PTL

\* No destructor ever fails, a stub is met only where the embedder put stubs, and a
\* linked clock lacks its source only where linker and state were given different
\* manifests (host.rs:613-616, 671-674, 684-694, 706-725).
THEOREM HostNeverTraps == Spec => []NoHostTrap
<1>1. IInv => NoHostTrap
  BY DEF IInv, TrapInv
<1> QED
  BY <1>1, Invariance, PTL

------------------------------------------------------------------------------
(* Revocation *)

\* A call on a held handle carries the authority of that handle's slot, and a
\* service that let it through saw nothing of it withdrawn before it began.
AuthorityInv ==
  call # NoCall =>
    /\ call.owned => /\ guest[call.handle] # None
                     /\ call.cap = Forward(call.handle.service,
                                           Grant(call.handle.service, guest[call.handle]))
    /\ call.since \subseteq gone
    /\ ToCode(call.verdict) = "ok" => {call.cap.badge, call.cap.object} \cap call.since = {}

\* A service that refuses nothing finds neither badge nor object gone.
LEMMA NotRefused ==
  ASSUME NEW cap, NEW op, Refusal(cap, op) = "none"
  PROVE  {cap.badge, cap.object} \cap gone = {}
  BY DEF Refusal

\* Only a verdict of the service's own success reads as ok.
LEMMA OkMeansServed ==
  ASSUME NEW s, NEW v \in Denials \cup {"failed"}
  PROVE  ToCode(Received(s, v)) # "ok"
  BY DEF ToCode, Received, Denials

\* The host asks the service anew for every call (host.rs:134-137): each step
\* keeps AuthorityInv.
LEMMA AuthorityStep ==
  ASSUME IInv, AuthorityInv, [Next]_vars
  PROVE  AuthorityInv'
<1> USE DEF IInv
<1>1. CASE Idle /\ UNCHANGED call
  BY <1>1 DEF AuthorityInv, Idle
<1>2. CASE UNCHANGED <<conf, call, guest, gone>>
  BY <1>2 DEF AuthorityInv, Forward, Grant
<1>3. ASSUME NEW h \in Handles, NEW op, NEW arg, NEW owned \in BOOLEAN, BeginCall(h, op, arg, owned)
      PROVE  AuthorityInv'
  <2>1. CASE UNCHANGED call
    BY <1>1, <1>3, <2>1 DEF BeginCall
  <2>2. CASE call' = [handle |-> h, op |-> op, arg |-> arg, owned |-> owned,
                      cap |-> Forward(h.service, Lookup(h)), since |-> gone,
                      verdict |-> "pending", value |-> None]
    <3>1. UNCHANGED <<conf, guest, gone>> /\ (owned => guest[h] # None)
      BY <1>3 DEF BeginCall
    <3>2. owned => Lookup(h) = Grant(h.service, guest[h])
      BY <3>1, HeldResolves
    <3>3. ToCode("pending") # "ok"
      BY DEF ToCode, Denials
    <3> QED
      BY <2>2, <3>1, <3>2, <3>3 DEF AuthorityInv, Forward, Grant
  <2> QED
    BY <1>3, <2>1, <2>2 DEF BeginCall
<1>4. ASSUME call # NoCall, UNCHANGED <<conf, guest>>, gone \subseteq gone',
             NEW v, NEW x, call' = [call EXCEPT !.verdict = v, !.value = x],
             ToCode(v) = "ok" => {call.cap.badge, call.cap.object} \cap gone = {}
      PROVE  AuthorityInv'
  <2>1. call \in Calls
    BY <1>4 DEF TypeOK
  <2>2. /\ call'.handle = call.handle /\ call'.owned = call.owned /\ call'.cap = call.cap
        /\ call'.since = call.since /\ call'.verdict = v
    BY <1>4, <2>1 DEF Calls
  <2> QED
    BY <1>4, <2>2 DEF AuthorityInv, Forward, Grant
<1>5. CASE Serve
  <2> DEFINE s == call.handle.service
             refusal == Refusal(call.cap, call.op)
  <2>1. call # NoCall /\ UNCHANGED <<conf, guest, gone>>
    BY <1>5 DEF Serve, Pending
  <2>2. ASSUME NEW v \in Denials \cup {"failed"}, NEW x,
               call' = [call EXCEPT !.verdict = Received(s, v), !.value = x]
        PROVE  AuthorityInv'
    BY <1>4, <2>1, <2>2, OkMeansServed
  <2>3. ASSUME refusal = "none", NEW v, NEW x, call' = [call EXCEPT !.verdict = v, !.value = x]
        PROVE  AuthorityInv'
    BY <1>4, <2>1, <2>3, NotRefused
  <2>4. refusal \in Denials \cup {"none"}
    BY RefusalType
  <2> QED
    BY <1>5, <2>2, <2>3, <2>4 DEF Serve
<1>6. CASE TransportFails
  <2>1. ToCode("Channel") # "ok"
    BY DEF ToCode, Denials
  <2> QED
    BY <1>4, <1>6, <2>1 DEF TransportFails
<1>7. CASE Reply
  BY <1>7 DEF Reply, AuthorityInv
<1>8. ASSUME NEW x \in Withdrawable, Withdraw(x)
      PROVE  AuthorityInv'
  <2>1. gone \subseteq gone' /\ UNCHANGED <<conf, call, guest>>
    BY <1>8 DEF Withdraw
  <2> QED
    BY <2>1 DEF AuthorityInv, Forward, Grant
<1>9. CASE Instantiate
  BY <1>2, <1>9 DEF Instantiate
<1>10. CASE CallStub \/ Now
  BY <1>1, <1>10 DEF CallStub, Now
<1>11. CASE \E s \in Services, slot \in Slots : Open(s, slot)
  BY <1>1, <1>11 DEF Open
<1>12. CASE \E h \in Handles : Drop(h)
  BY <1>1, <1>12 DEF Drop
<1>13. CASE Rest \/ UNCHANGED vars
  BY <1>2, <1>13 DEF Rest, vars
<1> QED
  BY <1>3, <1>5, <1>6, <1>7, <1>8, <1>9, <1>10, <1>11, <1>12, <1>13 DEF Next

\* Once the badge of a slot's grant is revoked, or its object destroyed, no
\* operation begun afterwards on a handle opened there succeeds (host.rs:134-137).
THEOREM RevocationHolds == Spec => RevocationIsFinal
<1> DEFINE Answer(h) ==
      (call # NoCall /\ call.handle = h /\ call.owned /\ call' = NoCall /\ answer'.code = "ok") =>
        LET cap == Forward(h.service, conf.slots[h.service][guest[h] + 1])
        IN {cap.badge, cap.object} \cap call.since = {}
<1>1. Init => AuthorityInv
  BY DEF Init, AuthorityInv
<1>2. IInv /\ AuthorityInv /\ [Next]_vars => AuthorityInv'
  BY AuthorityStep
<1>3. IInv /\ AuthorityInv /\ [Next]_vars => [\A h \in Handles : Answer(h)]_vars
  <2> SUFFICES ASSUME IInv, AuthorityInv, [Next]_vars, vars' # vars, NEW h \in Handles,
                      call # NoCall, call.handle = h, call.owned, call' = NoCall,
                      answer'.code = "ok"
               PROVE  LET cap == Forward(h.service, conf.slots[h.service][guest[h] + 1])
                      IN {cap.badge, cap.object} \cap call.since = {}
    OBVIOUS
  <2>1. call \in Calls
    BY DEF IInv, TypeOK
  <2>2. Reply
    <3>1. ASSUME NEW v, NEW x, call' = [call EXCEPT !.verdict = v, !.value = x] PROVE FALSE
      BY <3>1, <2>1 DEF Calls, NoCall
    <3>2. ~TransportFails
      BY <3>1 DEF TransportFails
    <3>3. ~Serve
      <4> SUFFICES ASSUME Serve PROVE FALSE
        OBVIOUS
      <4> DEFINE s == call.handle.service
      <4>1. \A v : call' # [call EXCEPT !.verdict = Received(s, v), !.value = None]
        BY <3>1
      <4>2. /\ call' # [call EXCEPT !.verdict = Received(s, Refusal(call.cap, call.op)), !.value = None]
            /\ call' # [call EXCEPT !.verdict = Received(s, "failed"), !.value = None]
            /\ call' # [call EXCEPT !.verdict = Received(s, "ok"), !.value = None]
        BY <4>1
      <4>3. call' # [call EXCEPT !.verdict = Received(s, ReadStatus(content[call.cap.object])),
                                 !.value = content[call.cap.object]]
        BY <3>1
      <4> QED
        BY <4>2, <4>3 DEF Serve
    <3>4. ~Instantiate /\ ~CallStub
      BY DEF Instantiate, CallStub
    <3>5. ~Now
      BY DEF Now, Idle
    <3>6. \A s \in Services, slot \in Slots : ~Open(s, slot)
      BY DEF Open, Idle
    <3>7. \A g \in Handles : ~Drop(g)
      BY DEF Drop, Idle
    <3>8. \A g \in Handles, op \in Operations, owned \in BOOLEAN :
            \A arg \in Args(op) : ~BeginCall(g, op, arg, owned)
      BY DEF BeginCall, Idle
    <3>9. \A x \in Withdrawable : ~Withdraw(x)
      BY DEF Withdraw
    <3>10. ~Rest
      BY DEF Rest, vars
    <3> QED
      BY <3>2, <3>3, <3>4, <3>5, <3>6, <3>7, <3>8, <3>9, <3>10 DEF Next
  <2>3. ToCode(call.verdict) = "ok"
    BY <2>2 DEF Reply, Answered
  <2>4. guest[h] # None /\ call.cap = Forward(h.service, Grant(h.service, guest[h]))
    BY DEF AuthorityInv
  <2>5. Grant(h.service, guest[h]) = conf.slots[h.service][guest[h] + 1]
    <3>1. conf \in Configurations /\ h.service \in Services /\ guest[h] \in Nat
      BY <2>4, SlotsAssumption DEF IInv, TypeOK, Handles
    <3> QED
      BY <2>4, <3>1, GrantType DEF IInv, HandleInv
  <2> QED
    BY <2>3, <2>4, <2>5 DEF AuthorityInv
<1> QED
  BY <1>1, <1>2, <1>3, Invariance, PTL DEF Spec, RevocationIsFinal
====
