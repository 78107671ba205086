--------------------------- MODULE ConfinedRuntime ---------------------------
(***************************************************************************)
(* The confined runtime program (src/confined-runtime) among the programs  *)
(* it talks to: the launch binder, one owning service (keystore-service or *)
(* store-service), grant-control, and the guest it hosts (confined-probe-  *)
(* guest or confined-fs-guest).  It verifies the guest's package, asks for *)
(* one grant, checks that binder and service still refuse what they must,  *)
(* runs the guest's probe, has the grant revoked while a request is open   *)
(* at the service, runs the probe again and signals SUCCESS or FAILURE.    *)
(*                                                                         *)
(* The programs around it are external: each is modelled from what the     *)
(* runtime expects of it, plus the faults the runtime's self-checks are    *)
(* there to notice.                                                        *)
(***************************************************************************)
EXTENDS Naturals, Sequences, FiniteSets

CONSTANTS
  Worlds,   \* the launches explored; see WorldType
  Fuels     \* initial fuel, in units of one host call of the guest

Interfaces == {"keystore", "filesystem"}
Packages == {"good", "empty", "zero", "long", "malformed", "unsigned"}
Manifests == Interfaces \cup {"invalid", "clock", "neither", "both"}
Images == {"fits", "no_code", "no_interface", "no_stub", "no_fuel", "no_memory", "no_probe"}
Faults == {"small_heap", "accepts_all", "call_fails", "rebinds", "delegates", "lists",
           "self_revokes", "revokes_silently", "overgrants", "garbles", "loses_writes",
           "no_notification", "no_wait", "control_fails", "ignores_revoke", "holds_revoke"}

WorldType == [package : Packages, manifest : Manifests, declared : 1 .. 2,
              grants : BOOLEAN, image : Images, faults : SUBSET Faults]

ASSUME WorldsAssumption == Worlds \subseteq WorldType
ASSUME FuelsAssumption == Fuels \subseteq Nat

VARIABLES
  world,      \* the launch: package, manifest, the binder's decision, faults
  \* the runtime
  pc,         \* the stage it is in
  granted,    \* request_grant's answer
  fuel,       \* what is left of the one set_fuel for both probes
  round,      \* which call of the guest's probe runs: 1 or 2
  step,       \* the guest's next host call, an index into Script
  signals,    \* <<notification, stage, detail>> signalled so far
  \* the Channel between the runtime and the service
  req,        \* the runtime's request chunk, or None
  reply,      \* the service's answer, "LOST" if the call failed, or None
  \* the service
  live,       \* the grant's badge has not been revoked
  waiting,    \* a chunked request is open: the service waits for its next chunk
  stored,     \* what the file holds: "empty", "data" or "oversized"
  \* grant-control
  control,    \* "idle", "revoking", "done" or "failed"
  revokeReq,  \* REVOKE_REQUEST has been signalled
  revokeDone, \* REVOKE_DONE has been signalled
  \* history
  breaches    \* what the runtime obtained although it should have been refused

rvars == <<pc, granted, fuel, round, step>>
channel == <<req, reply>>
svars == <<live, waiting, stored>>
cvars == <<control, revokeReq, revokeDone>>
vars == <<world, rvars, signals, channel, svars, cvars, breaches>>

None == "none"
NoRequest == [op |-> None, more |-> FALSE]

Fault(f) == f \in world.faults
Keystore == world.manifest = "keystore"

\* The guest's probe, as the host calls it makes in order.
Script == IF Keystore THEN <<"open0", "sign", "open1">>
          ELSE <<"open0", "read", "write", "read", "oversized", "read", "open1">>

Init ==
  /\ world \in Worlds
  /\ pc = "verify" /\ granted = FALSE /\ fuel \in Fuels /\ round = 1 /\ step = 1
  /\ signals = {}
  /\ req = NoRequest /\ reply = None
  /\ live = FALSE /\ waiting = FALSE /\ stored = "empty"
  /\ control = "idle" /\ revokeReq = FALSE /\ revokeDone = FALSE
  /\ breaches = {}

------------------------------------------------------------------------------
(* run_and_report: an error anywhere signals FAILURE, then the program parks. *)

Fail(stage, detail) ==
  /\ signals' = signals \cup {<<"FAILURE", stage, detail>>}
  /\ pc' = "parked"

Succeed ==
  /\ signals' = signals \cup {<<"SUCCESS", "Done", 0>>}
  /\ pc' = "parked"

Goto(l) == pc' = l /\ UNCHANGED signals

Breach(b) == breaches' = breaches \cup {b}

\* The bump heap never frees: an allocation anywhere may exhaust it, and the panic
\* is reported.  A runtime that waits for an answer or a notification allocates nothing.
HeapExhausted ==
  /\ Fault("small_heap")
  /\ pc \notin {"await", "parked"} /\ req = NoRequest
  /\ Fail("Panic", 0)
  /\ UNCHANGED <<world, granted, fuel, round, step, channel, svars, cvars, breaches>>

------------------------------------------------------------------------------
(* main.rs's run, one action per stage *)

\* Package::verify under some trusted publisher.
Verifies(authentic) == authentic \/ Fault("accepts_all")

\* Mutant: a package whose tampered copy is refused is taken for verified.
VerifySelfCheckOnly ==
  LET decodes == world.package \in {"good", "empty", "unsigned"}
      forged == Verifies(world.package = "empty")
  IN
  /\ pc = "verify"
  /\ \/ world.package \in {"zero", "long"} /\ Fail("Package", 1)
     \/ world.package = "malformed"        /\ Fail("Package", 2)
     \/ decodes /\ forged                  /\ Fail("Package", 3)
     \/ decodes /\ ~forged                 /\ Goto("plan")
  /\ UNCHANGED <<world, granted, fuel, round, step, channel, svars, cvars, breaches>>

\* verify_package.  The tampered copy differs in the last byte of the .cwasm,
\* so an empty .cwasm leaves it as authentic as the package itself.
Verify ==
  LET decodes == world.package \in {"good", "empty", "unsigned"}
      forged == Verifies(world.package = "empty")
      genuine == Verifies(world.package \in {"good", "empty"})
  IN
  /\ pc = "verify"
  /\ \/ world.package \in {"zero", "long"}      /\ Fail("Package", 1)
     \/ world.package = "malformed"             /\ Fail("Package", 2)
     \/ decodes /\ forged                       /\ Fail("Package", 3)
     \/ decodes /\ ~forged /\ ~genuine          /\ Fail("Package", 4)
     \/ decodes /\ ~forged /\ genuine           /\ Goto("plan")
  /\ UNCHANGED <<world, granted, fuel, round, step, channel, svars, cvars, breaches>>

\* VerifiedPackage::plan and host_the_guest's choice of one wiring.
Plan ==
  /\ pc = "plan"
  /\ CASE world.manifest = "invalid" -> Fail("Manifest", 1)
       [] world.manifest = "clock"   -> Fail("Manifest", 4)
       [] world.manifest = "neither" -> Fail("Manifest", 2)
       [] world.manifest = "both"    -> Fail("Manifest", 3)
       [] OTHER                      -> Goto("bind")
  /\ UNCHANGED <<world, granted, fuel, round, step, channel, svars, cvars, breaches>>

\* Mutant: the attenuation check also runs on a declined grant.
BindThenAttenuate ==
  /\ pc = "bind"
  /\ granted' = world.grants /\ live' = world.grants
  /\ Goto(IF world.grants THEN "check" ELSE "attenuate")
  /\ UNCHANGED <<world, fuel, round, step, channel, waiting, stored, cvars, breaches>>

\* request_grant: the binder grants slot 0, handing over a live badge, or declines,
\* or the kernel fails the call.
Bind ==
  /\ pc = "bind"
  /\ \/ Fault("call_fails") /\ Fail("Grant", 1) /\ UNCHANGED <<granted, live>>
     \/ /\ granted' = world.grants /\ live' = world.grants
        /\ Goto(IF world.grants THEN "check" ELSE "link")
  /\ UNCHANGED <<world, fuel, round, step, channel, waiting, stored, cvars, breaches>>

\* request_grant's self-checks under the granted badge, in order (step counts
\* them): a second bind, GRANT, LIST and REVOKE must each be refused.
CheckFaults == <<"rebinds", "delegates", "lists", "self_revokes">>

CheckPassed ==
  /\ step' = IF step = 4 THEN 1 ELSE step + 1
  /\ Goto(CASE step < 4 -> "check" [] step = 4 /\ Keystore -> "attenuate" [] OTHER -> "link")

\* Where the kernel fails the call the check fails as well, except for REVOKE,
\* of which only an OK is an error.
CheckCallFails ==
  /\ Fault("call_fails")
  /\ IF step = 4 THEN CheckPassed
     ELSE Fail("Grant", IF step = 1 THEN 1 ELSE step + 1) /\ UNCHANGED step
  /\ UNCHANGED <<live, breaches>>

CheckAnswered ==
  /\ IF Fault(CheckFaults[step])
     THEN Fail("Grant", step + 1) /\ Breach(CheckFaults[step]) /\ UNCHANGED step
     ELSE /\ IF step = 4 /\ Fault("revokes_silently")
             THEN Breach("revokes_silently") ELSE UNCHANGED breaches
          /\ CheckPassed
  /\ live' = (live /\ ~(step = 4 /\ (Fault("self_revokes") \/ Fault("revokes_silently"))))

SelfCheck ==
  /\ pc = "check"
  /\ CheckCallFails \/ CheckAnswered
  /\ UNCHANGED <<world, granted, fuel, round, channel, waiting, stored, cvars>>

\* A blocking call on the badged endpoint: send one chunk, then take the answer.
Ask(op, more) ==
  /\ req = NoRequest /\ reply = None
  /\ req' = [op |-> op, more |-> more]
  /\ UNCHANGED reply

Got(status) ==
  /\ reply = status
  /\ reply' = None
  /\ UNCHANGED req

\* Mutant: any answer to the ENCRYPT will do.
AttenuateAny ==
  /\ pc = "attenuate"
  /\ \/ Ask("encrypt", FALSE) /\ UNCHANGED <<pc, signals>>
     \/ \E s \in {"OK", "ACCESS", "INVALID", "LOST"} : Got(s) /\ Goto("link")
  /\ UNCHANGED <<world, granted, fuel, round, step, svars, cvars, breaches>>

\* host_keystore's ENCRYPT on a grant that must not cover it.
Attenuate ==
  /\ pc = "attenuate"
  /\ \/ Ask("encrypt", FALSE) /\ UNCHANGED <<pc, signals>>
     \/ Got("ACCESS")  /\ Goto("link")
     \/ Got("INVALID") /\ Fail("Attenuation", 1)
     \/ Got("LOST")    /\ Fail("Attenuation", 256)
     \/ Got("OK")      /\ Fail("Attenuation", 512)
  /\ UNCHANGED <<world, granted, fuel, round, step, svars, cvars, breaches>>

\* run_probe up to the first call: deserialize, link, set_fuel, instantiate, look up.
Link ==
  /\ pc = "link"
  /\ CASE world.image = "no_code"      -> Fail("Deserialize", 0)
       [] world.image = "no_interface" -> Fail("Link", 0)
       [] world.image = "no_stub"      -> Fail("Link", 1)
       [] world.image = "no_fuel"      -> Fail("Instantiate", 0)
       [] world.image = "no_memory"    -> Fail("Instantiate", 1)
       [] world.image = "no_probe"     -> Fail("Lookup", 0)
       [] OTHER                        -> Goto("guest")
  /\ UNCHANGED <<world, granted, fuel, round, step, channel, svars, cvars, breaches>>

------------------------------------------------------------------------------
(* The guest's probe and run_probe's judgement of its report *)

Call == Script[step]

\* Slot 0 is backed by what was granted; every later declared role is a hole
\* (slots), and a slot past the declared ones is out of range.
Backed(slot) == slot < world.declared /\ granted /\ slot = 0

\* check_report after the first probe, the refusal after the second.
Judge(report) ==
  CASE round = 1 /\ report = "ok"      -> Goto("open_request")
    [] round = 1 /\ report = "leaked"  -> Fail("Verdict", IF Keystore THEN 1 ELSE 3)
    [] round = 1 /\ report \notin {"ok", "leaked"} -> Fail("Verdict", 0)
    [] round = 2 /\ report = "refused" -> Succeed
    [] OTHER                           -> Fail("Revocation", 3)

Advance == step' = step + 1 /\ UNCHANGED <<pc, signals>>
Report(r) == Judge(r) /\ UNCHANGED step

AtCall == pc = "guest" /\ req = NoRequest /\ reply = None

\* Mutant: fuel is counted but never runs out.
BurnUnmetered == fuel' = fuel - 1

\* Every host call uses fuel, of which there is one budget for both probes.
Burn == fuel > 0 /\ fuel' = fuel - 1

GuestOpen ==
  /\ AtCall /\ Burn
  /\ \/ Call = "open0" /\ IF Backed(0) THEN Advance ELSE Report("error")
     \/ Call = "open1" /\ Report(IF Backed(1) THEN "leaked" ELSE "ok")
  /\ UNCHANGED <<world, granted, round, channel, svars, cvars, breaches>>

\* What the guest makes of an answer to Call: it goes on if the answer is the one it
\* expects.  Its first read must find the file empty, the later ones what it wrote,
\* and an oversized write must be invalid; a lost call reads as invalid too.
Takes(answer) ==
  CASE answer = "OK" ->
         IF Call = "oversized" \/ (Call = "read" /\ stored # (IF step > 2 THEN "data" ELSE "empty"))
         THEN Report("error") ELSE Advance
    [] answer = "ACCESS" -> Report(IF Call = "oversized" THEN "error" ELSE "refused")
    [] OTHER -> IF Call = "oversized" THEN Advance ELSE Report("error")

\* Mutant: write's size check is gone.
HostForwards(call) == FALSE

\* RuntimeState::write answers a block past MAX_BLOCK_LEN itself: invalid.
HostRefuses(call) == call = "oversized"

GuestOversized ==
  /\ AtCall /\ Burn /\ HostRefuses(Call)
  /\ Takes("INVALID")
  /\ UNCHANGED <<world, granted, round, channel, svars, cvars, breaches>>

GuestCalls ==
  /\ AtCall /\ Burn /\ Call \in {"sign", "read", "write", "oversized"} /\ ~HostRefuses(Call)
  /\ Ask(Call, FALSE)
  /\ UNCHANGED <<world, pc, granted, round, step, signals, svars, cvars, breaches>>

GuestReturns ==
  /\ pc = "guest" /\ reply # None
  /\ Got(reply) /\ Takes(reply)
  /\ UNCHANGED <<world, granted, fuel, round, svars, cvars, breaches>>

OutOfFuel ==
  /\ AtCall /\ fuel = 0
  /\ Fail("Call", round - 1)
  /\ UNCHANGED <<world, granted, fuel, round, step, channel, svars, cvars, breaches>>

------------------------------------------------------------------------------
(* revoke_during_open_request *)

OpenOp == IF Keystore THEN "sign" ELSE "read"

OpenRequest ==
  /\ pc = "open_request"
  /\ \/ Ask(OpenOp, TRUE) /\ UNCHANGED <<pc, signals>>
     \/ Got("OK") /\ Goto("signal")
     \/ \E s \in {"ACCESS", "INVALID", "LOST"} : Got(s) /\ Fail("Revocation", 1)
  /\ UNCHANGED <<world, granted, fuel, round, step, svars, cvars, breaches>>

\* Mutant: the runtime waits without having signalled.
SignalForgotten ==
  /\ pc = "signal"
  /\ Goto("await")
  /\ UNCHANGED <<world, granted, fuel, round, step, channel, svars, cvars, breaches>>

SignalControl ==
  /\ pc = "signal"
  /\ IF Fault("no_notification")
     THEN Fail("Revocation", 2) /\ UNCHANGED revokeReq
     ELSE revokeReq' = TRUE /\ Goto("await")
  /\ UNCHANGED <<world, granted, fuel, round, step, channel, svars, control, revokeDone, breaches>>

\* Mutant: the open request is forgotten, the next probe starts at once.
AwaitThenProbe ==
  /\ pc = "await"
  /\ \/ Fault("no_wait") /\ Fail("Revocation", 2) /\ UNCHANGED <<round, step>>
     \/ ~Fault("no_wait") /\ revokeDone /\ Goto("guest") /\ round' = 2 /\ step' = 1
  /\ UNCHANGED <<world, granted, fuel, channel, svars, cvars, breaches>>

AwaitControl ==
  /\ pc = "await"
  /\ \/ Fault("no_wait") /\ Fail("Revocation", 2)
     \/ ~Fault("no_wait") /\ revokeDone /\ Goto("close_request")
  /\ UNCHANGED <<world, granted, fuel, round, step, channel, svars, cvars, breaches>>

CloseRequest ==
  /\ pc = "close_request"
  /\ \/ Ask(OpenOp, FALSE) /\ UNCHANGED <<pc, signals, round, step>>
     \/ Got("ACCESS") /\ Goto("guest") /\ round' = 2 /\ step' = 1
     \/ \E s \in {"OK", "INVALID"} : Got(s) /\ Fail("Revocation", 256) /\ UNCHANGED <<round, step>>
     \/ Got("LOST") /\ Fail("Revocation", 1) /\ UNCHANGED <<round, step>>
  /\ UNCHANGED <<world, granted, fuel, svars, cvars, breaches>>

------------------------------------------------------------------------------
(* External: the owning service and grant-control *)

\* To the service an oversized write is a write.
GrantedOps == IF Keystore THEN {"sign"} ELSE {"read", "write", "oversized"}

\* The service checks the badge on every chunk.  The first chunk of a chunked
\* request leaves it waiting for the next one.
ServeRequest ==
  /\ req # NoRequest
  /\ LET allowed == /\ live \/ Fault("ignores_revoke")
                    /\ req.op \in GrantedOps \/ Fault("overgrants")
     IN
     /\ reply' = IF req.op = "encrypt" /\ Fault("garbles") THEN "INVALID"
                 ELSE IF allowed THEN "OK" ELSE "ACCESS"
     /\ waiting' = (allowed /\ req.more)
     /\ stored' = IF ~allowed \/ Fault("loses_writes") THEN stored
                  ELSE CASE req.op = "write"     -> "data"
                         [] req.op = "oversized" -> "oversized"
                         [] OTHER                -> stored
     /\ breaches' = breaches \cup
          (IF allowed /\ (~live \/ req.op \notin GrantedOps) THEN {req.op} ELSE {})
  /\ req' = NoRequest
  /\ UNCHANGED <<world, rvars, signals, live, cvars>>

\* The kernel fails the call, or the channel finds the answer malformed.
CallFails ==
  /\ req # NoRequest /\ Fault("call_fails")
  /\ req' = NoRequest /\ reply' = "LOST"
  /\ UNCHANGED <<world, rvars, signals, svars, cvars, breaches>>

\* REVOKE is served at once, also while a chunk is awaited, unless the service lets
\* the open request hold it off.
ServeRevoke ==
  /\ control = "revoking" /\ ~(waiting /\ Fault("holds_revoke"))
  /\ live' = FALSE
  /\ control' = "answered"
  /\ UNCHANGED <<world, rvars, signals, channel, waiting, stored, revokeReq, revokeDone, breaches>>

\* Mutant: grant-control reports a failure and carries on.
ControlGoesOn ==
  /\ control = "idle" /\ revokeReq
  /\ control' = "revoking"
  /\ signals' = IF Fault("control_fails")
                THEN signals \cup {<<"FAILURE", "Control", 1>>} ELSE signals
  /\ UNCHANGED <<world, rvars, channel, svars, revokeReq, revokeDone, breaches>>

ControlWakes ==
  /\ control = "idle" /\ revokeReq
  /\ IF Fault("control_fails")
     THEN control' = "failed" /\ signals' = signals \cup {<<"FAILURE", "Control", 1>>}
     ELSE control' = "revoking" /\ UNCHANGED signals
  /\ UNCHANGED <<world, rvars, channel, svars, revokeReq, revokeDone, breaches>>

ControlDone ==
  /\ control = "answered"
  /\ control' = "done" /\ revokeDone' = TRUE
  /\ UNCHANGED <<world, rvars, signals, channel, svars, revokeReq, breaches>>

\* The runtime, grant-control and the service wait for one another.
HeldOff == pc = "await" /\ control = "revoking" /\ waiting /\ Fault("holds_revoke")

\* The runtime parks for good once it has signalled; a failed grant-control
\* leaves it waiting, with FAILURE already signalled.
Parked == (pc = "parked" \/ control = "failed" \/ HeldOff) /\ UNCHANGED vars

Runtime ==
  \/ Verify \/ Plan \/ Bind \/ SelfCheck \/ Attenuate \/ Link
  \/ GuestOpen \/ GuestOversized \/ GuestCalls \/ GuestReturns \/ OutOfFuel
  \/ OpenRequest \/ SignalControl \/ AwaitControl \/ CloseRequest \/ HeapExhausted

Next == Runtime \/ ServeRequest \/ CallFails \/ ServeRevoke \/ ControlWakes \/ ControlDone \/ Parked

Spec == Init /\ [][Next]_vars

\* The kernel schedules every program that can run.
FairSpec ==
  /\ Spec
  /\ WF_vars(Runtime) /\ WF_vars(ServeRequest) /\ WF_vars(ServeRevoke)
  /\ WF_vars(ControlWakes) /\ WF_vars(ControlDone)

------------------------------------------------------------------------------
(* Properties *)

\* Every variable has its type; no oversized write reaches the service (host.rs:657-661).
TypeOK ==
  /\ world \in Worlds
  /\ pc \in {"verify", "plan", "bind", "check", "attenuate", "link", "guest", "open_request",
             "signal", "await", "close_request", "parked"}
  /\ granted \in BOOLEAN /\ fuel \in Nat /\ round \in 1 .. 2 /\ step \in 1 .. 7
  /\ \A s \in signals : s[1] \in {"SUCCESS", "FAILURE"} /\ s[3] \in Nat
  /\ req.op \in {None, "encrypt", "sign", "read", "write"} /\ req.more \in BOOLEAN
  /\ reply \in {None, "OK", "ACCESS", "INVALID", "LOST"}
  /\ live \in BOOLEAN /\ waiting \in BOOLEAN /\ stored \in {"empty", "data"}
  /\ control \in {"idle", "revoking", "answered", "done", "failed"}
  /\ revokeReq \in BOOLEAN /\ revokeDone \in BOOLEAN

Outcomes == {s[1] : s \in signals}

\* "a binder or service that had stopped refusing can't pass" (lib.rs:178-181):
\* SUCCESS is signalled only if nothing that had to be refused was obtained, of
\* an authentic package, with the grant ended, and, for the filesystem guest, with
\* what it wrote still in the file.
SuccessIsEarned ==
  "SUCCESS" \in Outcomes =>
    /\ breaches = {} /\ world.package = "good" /\ granted /\ ~live /\ revokeDone
    /\ ~Keystore => stored = "data"

\* Nothing of a package is parsed, bound or run before its signature verified, even
\* by a verifier that accepts everything (lib.rs:204-244).
VerifiedFirst ==
  (pc \notin {"verify", "parked"} \/ \E s \in signals : s[2] \notin {"Package", "Panic"})
    => world.package = "good"

\* The launch has one outcome, and the runtime reports it once: grant-control's own
\* FAILURE, a panic and a failed stage never meet a SUCCESS (lib.rs:155-171).
OneOutcome ==
  /\ Cardinality(Outcomes) <= 1
  /\ Cardinality({s \in signals : s[2] # "Control"}) <= 1

\* With a declined grant, the service never hears from the runtime
\* (main.rs:69-84): nothing but a backed slot leads to the endpoint.
DeclinedIsSilent == ~granted => req = NoRequest /\ reply = None

\* The launch in terms of its grant: a launch is spoiled once it has failed or
\* obtained what it should not have.
Spoiled == breaches # {} \/ "FAILURE" \in Outcomes
Badge == IF ~granted THEN None ELSE IF live THEN "live" ELSE "ended"
Seen ==
  CASE Spoiled -> "spoiled"
    [] ~Spoiled /\ round = 2 -> "refused"
    [] ~Spoiled /\ round = 1 ->
         IF pc \in {"open_request", "signal", "await", "close_request"} \/ (pc = "guest" /\ step > 2)
         THEN "granted" ELSE "nothing"
Said == IF Spoiled THEN None ELSE reply
Verdict == IF "SUCCESS" \in Outcomes THEN "SUCCESS" ELSE IF Outcomes # {} THEN "FAILURE" ELSE None

Life == INSTANCE GrantLife
  WITH badge <- Badge, answer <- Said, seen <- Seen, outcome <- Verdict

\* A SUCCESS went the whole way, in this order: a guest's call answered under the
\* live badge, the badge revoked, the open request refused, and the guest's next
\* call refused as well; any answer to a dead badge leaves only FAILURE
\* (lib.rs:265-294), whatever binder, service and grant-control do meanwhile.
ImplementsGrantLife == Life!Spec

\* Every launch ends in a SUCCESS or a FAILURE (lib.rs:155-171): no stage waits for
\* ever on binder, service or grant-control.  The one exception is the service that
\* lib.rs:282-283 warns of, which finishes the open request before it serves REVOKE.
Signalled == <>(signals # {} \/ HeldOff)

\* A launch in which nobody is at fault, with fuel for both probes.
Honest ==
  /\ world.package = "good" /\ world.manifest \in Interfaces /\ world.grants
  /\ world.image = "fits" /\ world.faults = {}
  /\ fuel >= Len(Script) + 2

\* An honest launch succeeds: no self-check takes a correct binder or service for a
\* broken one, the host answers the guest's oversized write without asking the
\* service, and the revocation comes through with the request open (lib.rs:182-295,
\* host.rs:657-661).
HonestLaunchSucceeds == Honest => <>("SUCCESS" \in Outcomes)
==============================================================================
