------------------------ MODULE ConfinedRuntime_proofs ------------------------
(***************************************************************************)
(* Safety of the confined runtime for every set of launches: any package,  *)
(* manifest, grant decision, image, amount of fuel, and any combination of *)
(* faults of the programs around it.                                       *)
(***************************************************************************)
EXTENDS ConfinedRuntime, FiniteSetTheorems, TLAPS

ControlFailure == <<"FAILURE", "Control", 1>>

\* Where the runtime is in a stage, in the guest's script or in the self-checks.
StepInv ==
  /\ pc \in {"verify", "plan", "bind", "attenuate", "link"} => step = 1
  /\ pc = "check" => step <= 4
  /\ pc = "guest" /\ Keystore => step <= 3
  /\ pc \notin {"guest", "parked"} => round = 1

\* What is past the binder's answer, or past the guest's open(0), holds the grant.
GrantInv ==
  \/ granted
  \/ /\ pc \in {"verify", "plan", "bind", "link", "guest", "parked"}
     /\ round = 1
     /\ pc = "guest" => step = 1
     /\ req = NoRequest /\ reply = None

\* At most one message is in the channel; a request is the current stage's.
ChannelInv ==
  /\ req = NoRequest \/ reply = None
  /\ req # NoRequest =>
       \/ pc = "attenuate" /\ req.op = "encrypt"
       \/ pc = "guest" /\ req.op = Call
       \/ pc \in {"open_request", "close_request"} /\ req.op = OpenOp
  /\ reply # None => pc \in {"attenuate", "guest", "open_request", "close_request", "parked"}
  /\ pc = "guest" /\ (req # NoRequest \/ reply # None) => Call \in {"sign", "read", "write"}

\* The revocation starts when the runtime has signalled, and is over when it goes on.
ControlInv ==
  /\ control # "idle" => revokeReq
  /\ revokeReq => pc \in {"await", "close_request", "guest", "parked"}
  /\ revokeReq /\ pc = "guest" => round = 2
  /\ control \in {"answered", "done"} => ~live
  /\ revokeDone <=> control = "done"
  /\ pc = "close_request" \/ round = 2 => revokeDone

\* All the runtime has signalled, or will have, is x, and x is earned.
Outcome(x) ==
  /\ signals \subseteq {x, ControlFailure}
  /\ x[1] \in {"SUCCESS", "FAILURE"} /\ x[3] \in Nat
  /\ x[2] \notin {"Package", "Panic"} => world.package = "good"
  /\ x[1] = "SUCCESS" => breaches = {} /\ granted /\ ~live /\ revokeDone /\ world.package = "good"

\* The runtime signals once, when it parks; grant-control signals only if it fails.
SignalInv ==
  /\ pc # "parked" => signals \subseteq {ControlFailure}
  /\ ControlFailure \in signals => control = "failed"
  /\ \E x : Outcome(x)
  /\ "SUCCESS" \in Outcomes => control = "done" /\ req = NoRequest

\* What has been obtained against the rules leaves no way to the second probe.
BreachInv ==
  /\ pc \in {"verify", "plan", "bind"} => breaches = {}
  /\ pc = "check" => breaches = {}
  /\ pc = "attenuate" =>
       /\ breaches \subseteq {"revokes_silently", "encrypt"}
       /\ "encrypt" \in breaches => reply \in {"OK", "INVALID"}
  /\ pc = "link" => breaches \subseteq {"revokes_silently"}
  /\ pc \in {"attenuate", "link"} /\ "revokes_silently" \in breaches => ~live
  /\ pc = "guest" /\ round = 1 /\ ~Fault("ignores_revoke") /\ breaches # {} =>
       ~live /\ step <= 2 /\ reply # "OK" /\ breaches = {"revokes_silently"}
  /\ pc \in {"open_request", "signal", "await", "close_request"} /\ ~Fault("ignores_revoke") =>
       breaches = {}
  /\ pc = "close_request" /\ reply = "ACCESS" => ~Fault("ignores_revoke")
  /\ pc = "guest" /\ round = 2 => breaches = {} /\ ~Fault("ignores_revoke")

\* Only an authentic package is past verification or has signalled grant-control.
Verified == pc \notin {"verify", "parked"} \/ revokeReq => world.package = "good"

IInv == TypeOK /\ Verified /\ StepInv /\ GrantInv /\ ChannelInv /\ ControlInv /\ SignalInv /\ BreachInv

------------------------------------------------------------------------------

\* Which call the guest makes at which step of its script.
LEMMA CallAtStep ==
  ASSUME step \in 1 .. 7, Keystore => step <= 3
  PROVE  /\ Call = "open0" <=> step = 1
         /\ Call = "open1" <=> step = IF Keystore THEN 3 ELSE 7
         /\ Call \in {"sign", "read", "write"} => step \in {2, 3, 4, 6} /\ (Keystore => step = 2)
         /\ Call = "oversized" => step = 5 /\ ~Keystore
         /\ Call \in {"sign", "read", "write"} => Call \in GrantedOps
         /\ step = 4 => Call = "read"
         /\ Call \in {"open0", "open1", "oversized", "sign", "read", "write"}
  BY DEF Call, Script, GrantedOps

\* What a launch fixes stays fixed.
LEMMA SameLaunch ==
  ASSUME UNCHANGED world
  PROVE  /\ Keystore' = Keystore /\ OpenOp' = OpenOp
         /\ Fault("ignores_revoke")' = Fault("ignores_revoke")
         /\ UNCHANGED step => Call' = Call
  BY DEF Keystore, OpenOp, Fault, Call, Script

\* A failing stage signals something well formed.
LEMMA FailTyped ==
  ASSUME TypeOK, NEW stage, NEW detail \in Nat, Fail(stage, detail)
  PROVE  \A s \in signals' : s[1] \in {"SUCCESS", "FAILURE"} /\ s[3] \in Nat
<1> DEFINE x == <<"FAILURE", stage, detail>>
<1>1. x[1] = "FAILURE" /\ x[3] \in Nat
  OBVIOUS
<1>2. signals' = signals \cup {x}
  BY DEF Fail
<1> QED
  BY <1>1, <1>2 DEF TypeOK

\* A runtime that fails signals once, and signals no success.
LEMMA FailSignals ==
  ASSUME IInv, pc # "parked", NEW stage, NEW detail \in Nat, Fail(stage, detail),
         stage \notin {"Package", "Panic"} => world.package = "good",
         stage # "Control", UNCHANGED <<world, control>>
  PROVE  SignalInv'
<1> DEFINE x == <<"FAILURE", stage, detail>>
<1>1. signals' \subseteq {x, ControlFailure} /\ pc' = "parked"
  BY DEF IInv, SignalInv, Fail
<1>2. Outcome(x)'
  BY <1>1 DEF Outcome
<1>3. ControlFailure \in signals' => control' = "failed"
  BY DEF IInv, SignalInv, Fail, ControlFailure
<1>4. "SUCCESS" \notin Outcomes'
  BY <1>1 DEF Outcomes, ControlFailure
<1> QED
  BY <1>1, <1>2, <1>3, <1>4 DEF SignalInv

\* A step of a running launch that signals nothing leaves it able to report.
LEMMA QuietSignals ==
  ASSUME IInv, pc # "parked", UNCHANGED <<world, signals, control>>
  PROVE  SignalInv'
<1>1. signals \subseteq {ControlFailure}
  BY DEF IInv, SignalInv
<1> DEFINE x == <<"FAILURE", "Panic", 0>>
<1>2. Outcome(x)'
  BY <1>1 DEF Outcome
<1>3. "SUCCESS" \notin Outcomes'
  BY <1>1 DEF Outcomes, ControlFailure
<1> QED
  BY <1>1, <1>2, <1>3 DEF IInv, SignalInv

\* A set within a singleton has at most one element.
LEMMA AtMostOne ==
  ASSUME NEW S, NEW e, S \subseteq {e}
  PROVE  Cardinality(S) <= 1
<1>1. IsFiniteSet({e}) /\ Cardinality({e}) = 1
  BY FS_Singleton
<1> QED
  BY <1>1, FS_Subset

\* The invariant holds initially.
LEMMA InitIInv == Init => IInv
<1> SUFFICES ASSUME Init PROVE IInv
  OBVIOUS
<1>1. TypeOK
  <2>1. fuel \in Nat /\ world \in Worlds
    BY FuelsAssumption DEF Init
  <2>2. req.op = None /\ req.more = FALSE
    BY DEF Init, NoRequest
  <2>3. \A s \in signals : s[1] \in {"SUCCESS", "FAILURE"} /\ s[3] \in Nat
    BY DEF Init
  <2>4. /\ granted \in BOOLEAN /\ live \in BOOLEAN /\ waiting \in BOOLEAN
        /\ revokeReq \in BOOLEAN /\ revokeDone \in BOOLEAN /\ req.more \in BOOLEAN
    BY <2>2, Zenon DEF Init
  <2> QED
    BY <2>1, <2>2, <2>3, <2>4 DEF Init, TypeOK
<1>2. Verified /\ StepInv /\ GrantInv /\ ChannelInv /\ ControlInv /\ BreachInv
  BY DEF Init, Verified, StepInv, GrantInv, ChannelInv, ControlInv, BreachInv
<1>3. SignalInv
  <2>1. Outcome(<<"FAILURE", "Panic", 0>>)
    BY DEF Init, Outcome
  <2> QED
    BY <2>1 DEF Init, SignalInv, Outcomes
<1> QED
  BY <1>1, <1>2, <1>3 DEF IInv

\* Every step keeps the invariant.
LEMMA NextIInv == IInv /\ [Next]_vars => IInv'
<1> SUFFICES ASSUME IInv, [Next]_vars
             PROVE  IInv'
  OBVIOUS
<1> USE DEF IInv
<1>1. CASE Verify
  <2>1. TypeOK'
    BY <1>1 DEF TypeOK, Verify, Goto, Fail, channel, svars, cvars
  <2>2. Verified'
    BY <1>1 DEF Verified, Verify, Fail, cvars
  <2>3. StepInv'
    BY <1>1 DEF StepInv, Verify
  <2>4. GrantInv'
    BY <1>1 DEF GrantInv, Verify, Goto, Fail, channel
  <2>5. ChannelInv'
    BY <1>1 DEF ChannelInv, Verify, channel
  <2>6. ControlInv'
    BY <1>1 DEF ControlInv, Verify, Goto, Fail, cvars
  <2>7. SignalInv'
    BY <1>1 DEF SignalInv, Outcome, Outcomes, ControlFailure, ControlInv, Verify, Goto, Fail
  <2>8. BreachInv'
    BY <1>1 DEF BreachInv, Verify, Goto, Fail
  <2> QED
    BY <2>1, <2>2, <2>3, <2>4, <2>5, <2>6, <2>7, <2>8
<1>2. CASE Plan
  <2>1. TypeOK'
    BY <1>2 DEF TypeOK, Plan, Goto, Fail, channel, svars, cvars
  <2>2. Verified'
    BY <1>2 DEF Verified, Plan
  <2>3. StepInv'
    BY <1>2 DEF StepInv, Plan
  <2>4. GrantInv'
    BY <1>2 DEF GrantInv, Plan, Goto, Fail, channel
  <2>5. ChannelInv'
    BY <1>2 DEF ChannelInv, Plan, channel
  <2>6. ControlInv'
    BY <1>2 DEF ControlInv, Plan, Goto, Fail, cvars
  <2>7. SignalInv'
    BY <1>2 DEF SignalInv, Outcome, Outcomes, ControlFailure, Verified, ControlInv, Plan, Goto, Fail
  <2>8. BreachInv'
    BY <1>2 DEF BreachInv, Plan, Goto, Fail
  <2> QED
    BY <2>1, <2>2, <2>3, <2>4, <2>5, <2>6, <2>7, <2>8
<1>3. CASE Bind
  <2>1. TypeOK'
    <3>1. \A s \in signals' : s[1] \in {"SUCCESS", "FAILURE"} /\ s[3] \in Nat
      BY <1>3, FailTyped DEF Bind, Goto, TypeOK
    <3> QED
      BY <1>3, <3>1, WorldsAssumption DEF TypeOK, Bind, Goto, Fail, WorldType, channel, cvars
  <2>2. Verified'
    BY <1>3 DEF Verified, Bind
  <2>3. StepInv'
    BY <1>3 DEF StepInv, Bind
  <2>4. GrantInv'
    BY <1>3 DEF GrantInv, StepInv, ChannelInv, Bind, Goto, Fail, channel
  <2>5. ChannelInv'
    BY <1>3 DEF ChannelInv, Bind, channel
  <2>6. ControlInv'
    BY <1>3 DEF ControlInv, Bind, Goto, Fail, cvars
  <2>7. SignalInv'
    BY <1>3 DEF SignalInv, Outcome, Outcomes, ControlFailure, Verified, ControlInv, Bind, Goto, Fail
  <2>8. BreachInv'
    BY <1>3 DEF BreachInv, Bind, Goto, Fail
  <2> QED
    BY <2>1, <2>2, <2>3, <2>4, <2>5, <2>6, <2>7, <2>8
<1>4. CASE SelfCheck
  <2>1. TypeOK'
    <3>1. \A s \in signals' : s[1] \in {"SUCCESS", "FAILURE"} /\ s[3] \in Nat
      <4>1. CASE \E d \in Nat : Fail("Grant", d)
        BY <4>1, FailTyped
      <4>2. CASE UNCHANGED signals
        BY <4>2 DEF TypeOK
      <4> QED
        BY <1>4, <4>1, <4>2 DEF TypeOK, SelfCheck, CheckCallFails, CheckAnswered, CheckPassed, Goto
    <3>2. step' \in 1 .. 7 /\ pc' \in {"check", "attenuate", "link", "parked"}
      BY <1>4 DEF TypeOK, StepInv, SelfCheck, CheckCallFails, CheckAnswered, CheckPassed, Goto, Fail
    <3>3. live' = live \/ live' \in BOOLEAN
      BY <1>4, Zenon DEF SelfCheck, CheckCallFails, CheckAnswered, CheckPassed
    <3> QED
      BY <1>4, <3>1, <3>2, <3>3 DEF TypeOK, SelfCheck, channel, cvars
  <2>2. Verified'
    BY <1>4 DEF Verified, SelfCheck
  <2>3. StepInv'
    BY <1>4 DEF TypeOK, StepInv, SelfCheck, CheckCallFails, CheckAnswered, CheckPassed, Goto, Fail
  <2>4. GrantInv'
    BY <1>4 DEF GrantInv, SelfCheck
  <2>5. ChannelInv'
    BY <1>4 DEF ChannelInv, SelfCheck, channel
  <2>6. ControlInv'
    BY <1>4 DEF ControlInv, SelfCheck, CheckCallFails, CheckAnswered, CheckPassed, Goto, Fail, cvars
  <2>7. SignalInv'
    <3>1. CASE UNCHANGED signals
      BY <1>4, <3>1, QuietSignals DEF SelfCheck, CheckCallFails, CheckAnswered, CheckPassed, cvars
    <3>2. CASE signals' # signals
      <4>1. \E d \in Nat : Fail("Grant", d)
        BY <1>4, <3>2 DEF TypeOK, SelfCheck, CheckCallFails, CheckAnswered, CheckPassed, Goto
      <4> QED
        BY <1>4, <4>1, FailSignals DEF SelfCheck, CheckCallFails, CheckAnswered, CheckPassed, Verified, cvars
    <3> QED
      BY <3>1, <3>2
  <2>8. BreachInv'
    BY <1>4 DEF TypeOK, BreachInv, ControlInv, SelfCheck, CheckCallFails, CheckAnswered, CheckPassed, Goto, Fail, Breach
  <2> QED
    BY <2>1, <2>2, <2>3, <2>4, <2>5, <2>6, <2>7, <2>8
<1>5. CASE Attenuate
  <2>1. TypeOK'
    <3>1. \A s \in signals' : s[1] \in {"SUCCESS", "FAILURE"} /\ s[3] \in Nat
      <4>1. TypeOK /\ 1 \in Nat /\ 256 \in Nat /\ 512 \in Nat
        BY DEF IInv
      <4>2. CASE Fail("Attenuation", 1)
        BY <4>1, <4>2, FailTyped
      <4>3. CASE Fail("Attenuation", 512)
        BY <4>1, <4>3, FailTyped
      <4>4. CASE UNCHANGED signals
        BY <4>1, <4>4 DEF TypeOK
      <4>5. CASE Fail("Attenuation", 256)
        BY <4>1, <4>5, FailTyped
      <4> QED
        BY <1>5, <4>2, <4>3, <4>4, <4>5 DEF Attenuate, Goto
    <3>2. req'.op \in {None, "encrypt", "sign", "read", "write"} /\ req'.more \in BOOLEAN
      <4>1. UNCHANGED req \/ req' = [op |-> "encrypt", more |-> FALSE]
        BY <1>5 DEF Attenuate, Ask, Got
      <4>2. req'.op \in {req.op, "encrypt"} /\ (req'.more = FALSE \/ UNCHANGED req)
        BY <4>1
      <4>3. req'.op \in {None, "encrypt", "sign", "read", "write"}
        BY <4>2 DEF TypeOK
      <4> QED
        BY <4>2, <4>3, Zenon DEF TypeOK
    <3> QED
      BY <1>5, <3>1, <3>2 DEF TypeOK, Attenuate, Ask, Got, Goto, Fail, svars, cvars
  <2>2. Verified'
    BY <1>5 DEF Verified, Attenuate
  <2>3. StepInv'
    BY <1>5 DEF StepInv, Attenuate
  <2>4. GrantInv'
    BY <1>5 DEF GrantInv, Attenuate
  <2>5. ChannelInv'
    BY <1>5 DEF ChannelInv, None, Attenuate, Ask, Got
  <2>6. ControlInv'
    BY <1>5 DEF ControlInv, Attenuate, Goto, Fail, cvars
  <2>7. SignalInv'
    BY <1>5
       DEF SignalInv, Outcome, Outcomes, ControlFailure, Verified, ControlInv, Attenuate, Ask, Goto,
           Fail
  <2>8. BreachInv'
    BY <1>5 DEF BreachInv, Attenuate, Ask, Got, Goto, Fail, svars
  <2> QED
    BY <2>1, <2>2, <2>3, <2>4, <2>5, <2>6, <2>7, <2>8
<1>6. CASE Link
  <2>1. TypeOK'
    BY <1>6 DEF TypeOK, Link, Goto, Fail, channel, svars, cvars
  <2>2. Verified'
    BY <1>6 DEF Verified, Link
  <2>3. StepInv'
    BY <1>6 DEF StepInv, Link
  <2>4. GrantInv'
    BY <1>6 DEF GrantInv, StepInv, Link, Goto, Fail, channel
  <2>5. ChannelInv'
    BY <1>6 DEF ChannelInv, Link, channel
  <2>6. ControlInv'
    BY <1>6 DEF ControlInv, Link, Goto, Fail, cvars
  <2>7. SignalInv'
    BY <1>6 DEF SignalInv, Outcome, Outcomes, ControlFailure, Verified, ControlInv, Link, Goto, Fail
  <2>8. BreachInv'
    <3>1. round = 1 /\ step = 1 /\ reply = None
      BY <1>6 DEF Link, StepInv, ChannelInv
    <3> QED
      BY <1>6, <3>1 DEF Link, Goto, Fail, BreachInv, None, channel, svars
  <2> QED
    BY <2>1, <2>2, <2>3, <2>4, <2>5, <2>6, <2>7, <2>8
<1>7. CASE GuestOpen
  <2>1. TypeOK'
    BY <1>7, CallAtStep
       DEF TypeOK, StepInv, GuestOpen, AtCall, Burn, Report, Judge, Advance, Goto, Fail, channel,
           svars, cvars
  <2>2. Verified'
    BY <1>7 DEF Verified, GuestOpen, AtCall
  <2>3. StepInv'
    BY <1>7, CallAtStep DEF TypeOK, StepInv, GuestOpen, AtCall, Report, Judge, Advance, Goto, Fail
  <2>4. GrantInv'
    BY <1>7, CallAtStep DEF GrantInv, GuestOpen, AtCall, Backed, Report, Judge, Fail, channel
  <2>5. ChannelInv'
    BY <1>7 DEF ChannelInv, GuestOpen, AtCall, channel
  <2>6. ControlInv'
    BY <1>7 DEF ControlInv, GuestOpen, AtCall, Report, Judge, Advance, Goto, Fail, svars, cvars
  <2>7. SignalInv'
    BY <1>7
       DEF SignalInv, Outcome, Outcomes, ControlFailure, Verified, ControlInv, GuestOpen, AtCall,
           Report, Judge, Advance, Goto, Fail
  <2>8. BreachInv'
    BY <1>7, CallAtStep, SameLaunch
       DEF TypeOK, BreachInv, GuestOpen, AtCall, Report, Judge, Advance, Goto, Fail, channel, svars
  <2> QED
    BY <2>1, <2>2, <2>3, <2>4, <2>5, <2>6, <2>7, <2>8
<1>8. CASE GuestOversized
  <2>1. TypeOK'
    BY <1>8, CallAtStep
       DEF TypeOK, StepInv, GuestOversized, HostRefuses, Takes, AtCall, Burn, Advance, channel, svars, cvars
  <2>2. Verified'
    BY <1>8 DEF Verified, GuestOversized, HostRefuses, Takes, AtCall
  <2>3. StepInv'
    BY <1>8, CallAtStep, SameLaunch DEF TypeOK, StepInv, GuestOversized, HostRefuses, Takes, AtCall, Advance
  <2>4. GrantInv'
    BY <1>8, CallAtStep DEF GrantInv, GuestOversized, HostRefuses, Takes, AtCall
  <2>5. ChannelInv'
    BY <1>8 DEF ChannelInv, GuestOversized, HostRefuses, Takes, AtCall, channel
  <2>6. ControlInv'
    BY <1>8 DEF ControlInv, GuestOversized, HostRefuses, Takes, Advance, svars, cvars
  <2>7. SignalInv'
    BY <1>8
       DEF SignalInv, Outcome, Outcomes, ControlFailure, ControlInv, GuestOversized, HostRefuses, Takes, AtCall, Advance
  <2>8. BreachInv'
    BY <1>8, CallAtStep, SameLaunch DEF TypeOK, BreachInv, GuestOversized, HostRefuses, Takes, AtCall, Advance
  <2> QED
    BY <2>1, <2>2, <2>3, <2>4, <2>5, <2>6, <2>7, <2>8
<1>9. CASE GuestCalls
  <2>1. TypeOK'
    BY <1>9 DEF TypeOK, GuestCalls, HostRefuses, Burn, Ask, svars, cvars
  <2>2. Verified'
    BY <1>9 DEF Verified, GuestCalls, AtCall
  <2>3. StepInv'
    BY <1>9, SameLaunch DEF StepInv, GuestCalls
  <2>4. GrantInv'
    BY <1>9, CallAtStep DEF GrantInv, GuestCalls, AtCall
  <2>5. ChannelInv'
    BY <1>9, CallAtStep, SameLaunch DEF ChannelInv, StepInv, TypeOK, GuestCalls, HostRefuses, AtCall, Ask
  <2>6. ControlInv'
    BY <1>9 DEF ControlInv, GuestCalls, svars, cvars
  <2>7. SignalInv'
    BY <1>9 DEF SignalInv, Outcome, Outcomes, ControlFailure, ControlInv, GuestCalls, AtCall
  <2>8. BreachInv'
    BY <1>9, SameLaunch DEF BreachInv, GuestCalls, Ask, svars
  <2> QED
    BY <2>1, <2>2, <2>3, <2>4, <2>5, <2>6, <2>7, <2>8
<1>10. CASE GuestReturns
  <2>1. TypeOK'
    <3>1. CASE UNCHANGED signals
      BY <1>10, <3>1, CallAtStep
         DEF TypeOK, StepInv, ChannelInv, GuestReturns, Got, Takes, Report, Judge, Advance, Fail, Succeed,
             svars, cvars
    <3>2. CASE signals' # signals
      <4>1. \A s \in signals' : s[1] \in {"SUCCESS", "FAILURE"} /\ s[3] \in Nat
        BY <1>10, <3>2, FailTyped DEF TypeOK, GuestReturns, Takes, Report, Judge, Advance, Succeed
      <4> QED
        BY <1>10, <3>2, <4>1
           DEF TypeOK, GuestReturns, Got, Takes, Report, Judge, Advance, Fail, Succeed, svars, cvars
    <3> QED
      BY <3>1, <3>2
  <2>2. Verified'
    BY <1>10 DEF Verified, GuestReturns
  <2>3. StepInv'
    <3>1. CASE Advance
      BY <1>10, <3>1, CallAtStep, SameLaunch DEF TypeOK, StepInv, ChannelInv, GuestReturns, Takes, Advance
    <3>2. CASE UNCHANGED step /\ pc' \in {"open_request", "parked"}
      BY <1>10, <3>2 DEF StepInv, GuestReturns, Takes, Advance, Report, Judge, Fail, Succeed
    <3> QED
      BY <1>10, <3>1, <3>2 DEF GuestReturns, Takes, Report, Judge, Fail, Succeed
  <2>4. GrantInv'
    BY <1>10 DEF GrantInv, GuestReturns
  <2>5. ChannelInv'
    BY <1>10 DEF ChannelInv, GuestReturns, Got
  <2>6. ControlInv'
    BY <1>10 DEF ControlInv, GuestReturns, Takes, Report, Judge, Advance, Succeed, Fail, svars, cvars
  <2>7. SignalInv'
    <3>1. CASE UNCHANGED signals
      BY <1>10, <3>1, QuietSignals DEF GuestReturns, cvars
    <3>2. CASE Succeed
      <4> DEFINE x == <<"SUCCESS", "Done", 0>>
      <4>1. breaches = {} /\ granted /\ ~live /\ revokeDone /\ control = "done"
        <5>1. reply = "ACCESS" /\ round = 2
          <6>1. <<"SUCCESS", "Done", 0>> \in signals' /\ <<"SUCCESS", "Done", 0>> \notin signals
            BY <1>10, <3>2 DEF Succeed, SignalInv, ControlFailure, GuestReturns
          <6>2. ~UNCHANGED signals /\ \A s, d : s # "Done" => ~Fail(s, d)
            BY <6>1 DEF Fail
          <6> QED
            BY <1>10, <3>2, <6>2 DEF GuestReturns, Got, Takes, Report, Judge, Advance
        <5> QED
          BY <1>10, <5>1 DEF GuestReturns, GrantInv, ControlInv, BreachInv
      <4>2. signals' = {x} /\ pc' = "parked"
        BY <1>10, <3>2, <4>1 DEF GuestReturns, Succeed, SignalInv
      <4>3. Outcome(x)'
        BY <1>10, <4>1, <4>2 DEF GuestReturns, Outcome, Verified, svars, cvars
      <4> QED
        BY <1>10, <4>1, <4>2, <4>3
           DEF GuestReturns, Got, SignalInv, ChannelInv, ControlFailure, cvars
    <3>3. CASE signals' # signals /\ ~Succeed
      <4>1. \E s \in {"Verdict", "Revocation"}, d \in 0 .. 3 : Fail(s, d)
        BY <1>10, <3>3 DEF GuestReturns, Takes, Report, Judge, Advance
      <4> QED
        BY <1>10, <4>1, FailSignals DEF GuestReturns, Verified, cvars
    <3> QED
      BY <3>1, <3>2, <3>3
  <2>8. BreachInv'
    <3>1. Call # "oversized"
      BY <1>10 DEF GuestReturns, ChannelInv
    <3> QED
      BY <1>10, <3>1, SameLaunch
         DEF BreachInv, GuestReturns, Got, Takes, Report, Judge, Advance, Fail
  <2> QED
    BY <2>1, <2>2, <2>3, <2>4, <2>5, <2>6, <2>7, <2>8
<1>11. CASE OutOfFuel
  <2>1. TypeOK'
    BY <1>11 DEF TypeOK, OutOfFuel, Fail, channel, svars, cvars
  <2>2. Verified'
    BY <1>11 DEF Verified, OutOfFuel, AtCall
  <2>3. StepInv'
    BY <1>11 DEF StepInv, OutOfFuel, Fail
  <2>4. GrantInv'
    BY <1>11 DEF GrantInv, OutOfFuel, Fail, channel
  <2>5. ChannelInv'
    BY <1>11 DEF ChannelInv, OutOfFuel, AtCall, channel
  <2>6. ControlInv'
    BY <1>11 DEF ControlInv, OutOfFuel, Fail, svars, cvars
  <2>7. SignalInv'
    <3>1. round - 1 \in Nat
      BY DEF TypeOK
    <3> QED
      BY <1>11, <3>1, FailSignals DEF OutOfFuel, AtCall, Verified, cvars
  <2>8. BreachInv'
    BY <1>11 DEF BreachInv, OutOfFuel, Fail
  <2> QED
    BY <2>1, <2>2, <2>3, <2>4, <2>5, <2>6, <2>7, <2>8
<1>12. CASE OpenRequest
  <2>1. TypeOK'
    <3>1. \A s \in signals' : s[1] \in {"SUCCESS", "FAILURE"} /\ s[3] \in Nat
      BY <1>12, FailTyped DEF OpenRequest, Goto, TypeOK
    <3>2. req'.op \in {None, "encrypt", "sign", "read", "write"} /\ req'.more \in BOOLEAN
      <4>1. UNCHANGED req \/ req' = [op |-> OpenOp, more |-> TRUE]
        BY <1>12 DEF OpenRequest, Ask, Got
      <4>2. req'.op \in {req.op, OpenOp} /\ (req'.more = TRUE \/ UNCHANGED req)
        BY <4>1
      <4>3. req'.op \in {None, "encrypt", "sign", "read", "write"}
        BY <4>2 DEF TypeOK, OpenOp
      <4> QED
        BY <4>2, <4>3, Zenon DEF TypeOK
    <3> QED
      BY <1>12, <3>1, <3>2 DEF TypeOK, OpenRequest, Ask, Got, Goto, Fail, svars, cvars
  <2>2. Verified'
    BY <1>12 DEF Verified, OpenRequest
  <2>3. StepInv'
    BY <1>12 DEF StepInv, OpenRequest, Goto, Fail
  <2>4. GrantInv'
    BY <1>12 DEF GrantInv, OpenRequest
  <2>5. ChannelInv'
    BY <1>12, SameLaunch DEF ChannelInv, None, OpenRequest, Ask, Got
  <2>6. ControlInv'
    BY <1>12 DEF ControlInv, OpenRequest, Goto, Fail, cvars
  <2>7. SignalInv'
    BY <1>12
       DEF SignalInv, Outcome, Outcomes, ControlFailure, Verified, ControlInv, OpenRequest, Ask,
           Goto, Fail
  <2>8. BreachInv'
    BY <1>12, SameLaunch DEF BreachInv, OpenRequest, Goto, Fail
  <2> QED
    BY <2>1, <2>2, <2>3, <2>4, <2>5, <2>6, <2>7, <2>8
<1>13. CASE SignalControl
  <2>1. TypeOK'
    <3>1. \A s \in signals' : s[1] \in {"SUCCESS", "FAILURE"} /\ s[3] \in Nat
      BY <1>13, FailTyped DEF SignalControl, Goto, TypeOK
    <3>2. revokeReq' \in BOOLEAN /\ revokeDone' \in BOOLEAN
      BY <1>13, Zenon DEF TypeOK, SignalControl
    <3> QED
      BY <1>13, <3>1, <3>2 DEF TypeOK, SignalControl, Goto, Fail, channel, svars
  <2>2. Verified'
    BY <1>13 DEF Verified, SignalControl
  <2>3. StepInv'
    BY <1>13 DEF StepInv, SignalControl, Goto, Fail
  <2>4. GrantInv'
    BY <1>13 DEF GrantInv, SignalControl
  <2>5. ChannelInv'
    BY <1>13 DEF ChannelInv, SignalControl, channel
  <2>6. ControlInv'
    BY <1>13 DEF ControlInv, SignalControl, Goto, Fail
  <2>7. SignalInv'
    BY <1>13 DEF SignalInv, Outcome, Outcomes, ControlFailure, Verified, SignalControl, Goto, Fail
  <2>8. BreachInv'
    BY <1>13, SameLaunch DEF BreachInv, SignalControl, Goto, Fail
  <2> QED
    BY <2>1, <2>2, <2>3, <2>4, <2>5, <2>6, <2>7, <2>8
<1>14. CASE AwaitControl
  <2>1. TypeOK'
    BY <1>14 DEF TypeOK, AwaitControl, Goto, Fail, channel, svars, cvars
  <2>2. Verified'
    BY <1>14 DEF Verified, AwaitControl
  <2>3. StepInv'
    BY <1>14 DEF StepInv, AwaitControl, Goto, Fail
  <2>4. GrantInv'
    BY <1>14 DEF GrantInv, AwaitControl
  <2>5. ChannelInv'
    BY <1>14 DEF ChannelInv, AwaitControl, channel
  <2>6. ControlInv'
    BY <1>14 DEF ControlInv, AwaitControl, Goto, Fail, svars, cvars
  <2>7. SignalInv'
    BY <1>14
       DEF SignalInv, Outcome, Outcomes, ControlFailure, Verified, AwaitControl, Goto, Fail, cvars
  <2>8. BreachInv'
    <3>1. reply = None
      BY <1>14 DEF AwaitControl, ChannelInv
    <3> QED
      BY <1>14, <3>1 DEF AwaitControl, Goto, Fail, Fault, BreachInv, None, channel
  <2> QED
    BY <2>1, <2>2, <2>3, <2>4, <2>5, <2>6, <2>7, <2>8
<1>15. CASE CloseRequest
  <2>1. TypeOK'
    <3>1. \A s \in signals' : s[1] \in {"SUCCESS", "FAILURE"} /\ s[3] \in Nat
      <4>1. 256 \in Nat
        OBVIOUS
      <4> QED
        BY <1>15, <4>1, FailTyped, Zenon DEF CloseRequest, Goto, TypeOK
    <3>2. req'.op \in {None, "encrypt", "sign", "read", "write"} /\ req'.more \in BOOLEAN
      <4>1. UNCHANGED req \/ req' = [op |-> OpenOp, more |-> FALSE]
        BY <1>15 DEF CloseRequest, Ask, Got
      <4>2. req'.op \in {req.op, OpenOp} /\ (req'.more = FALSE \/ UNCHANGED req)
        BY <4>1
      <4>3. req'.op \in {None, "encrypt", "sign", "read", "write"}
        BY <4>2 DEF TypeOK, OpenOp
      <4> QED
        BY <4>2, <4>3, Zenon DEF TypeOK
    <3> QED
      BY <1>15, <3>1, <3>2 DEF TypeOK, CloseRequest, Ask, Got, Goto, Fail, svars, cvars
  <2>2. Verified'
    BY <1>15 DEF Verified, CloseRequest
  <2>3. StepInv'
    BY <1>15 DEF StepInv, CloseRequest, Ask, Goto, Fail
  <2>4. GrantInv'
    BY <1>15 DEF GrantInv, CloseRequest
  <2>5. ChannelInv'
    BY <1>15, SameLaunch DEF ChannelInv, None, CloseRequest, Ask, Got
  <2>6. ControlInv'
    BY <1>15 DEF ControlInv, CloseRequest, Goto, Fail, svars, cvars
  <2>7. SignalInv'
    BY <1>15
       DEF SignalInv, Outcome, Outcomes, ControlFailure, Verified, ControlInv, CloseRequest, Ask,
           Goto, Fail
  <2>8. BreachInv'
    BY <1>15, SameLaunch DEF BreachInv, CloseRequest, Ask, Got, Fail
  <2> QED
    BY <2>1, <2>2, <2>3, <2>4, <2>5, <2>6, <2>7, <2>8
<1>16. CASE HeapExhausted
  <2>1. TypeOK'
    BY <1>16 DEF TypeOK, HeapExhausted, Fail, channel, svars, cvars
  <2>2. Verified'
    BY <1>16 DEF Verified, HeapExhausted, Fail, cvars
  <2>3. StepInv'
    BY <1>16 DEF StepInv, HeapExhausted, Fail
  <2>4. GrantInv'
    BY <1>16 DEF GrantInv, HeapExhausted, Fail, channel
  <2>5. ChannelInv'
    BY <1>16 DEF ChannelInv, HeapExhausted, Fail, channel
  <2>6. ControlInv'
    BY <1>16 DEF ControlInv, HeapExhausted, Fail, svars, cvars
  <2>7. SignalInv'
    BY <1>16 DEF SignalInv, Outcome, Outcomes, ControlFailure, ControlInv, HeapExhausted, Fail
  <2>8. BreachInv'
    BY <1>16 DEF BreachInv, HeapExhausted, Fail
  <2> QED
    BY <2>1, <2>2, <2>3, <2>4, <2>5, <2>6, <2>7, <2>8
<1>17. CASE ServeRequest
  <2>1. TypeOK'
    <3>1. waiting' \in BOOLEAN
      BY <1>17, Zenon DEF ServeRequest
    <3>2. stored' \in {"empty", "data"} /\ reply' \in {"OK", "ACCESS", "INVALID"}
      <4>1. req.op # "oversized" /\ stored \in {"empty", "data"}
        BY DEF TypeOK, None
      <4> QED
        BY <1>17, <4>1 DEF ServeRequest
    <3> QED
      BY <1>17, <3>1, <3>2 DEF TypeOK, NoRequest, ServeRequest, rvars, cvars
  <2>2. Verified'
    BY <1>17 DEF Verified, ServeRequest, rvars, cvars
  <2>3. StepInv'
    BY <1>17, SameLaunch DEF StepInv, ServeRequest, rvars
  <2>4. GrantInv'
    BY <1>17 DEF GrantInv, ServeRequest, rvars
  <2>5. ChannelInv'
    BY <1>17, SameLaunch DEF ChannelInv, ServeRequest, rvars
  <2>6. ControlInv'
    BY <1>17 DEF ControlInv, ServeRequest, rvars, cvars
  <2>7. SignalInv'
    BY <1>17 DEF SignalInv, Outcome, Outcomes, ControlFailure, ServeRequest, rvars, cvars
  <2>8. BreachInv'
    <3> DEFINE allowed == /\ live \/ Fault("ignores_revoke")
                          /\ req.op \in GrantedOps \/ Fault("overgrants")
    <3>1. CASE pc = "attenuate"
      <4>1. req.op = "encrypt" /\ req.op \notin GrantedOps
        BY <1>17, <3>1 DEF ServeRequest, ChannelInv, GrantedOps
      <4>2. CASE breaches' = breaches
        <5>1. "encrypt" \notin breaches
          BY <1>17, <3>1 DEF ServeRequest, BreachInv, ChannelInv, None
        <5> QED
          BY <1>17, <3>1, <4>2, <5>1 DEF ServeRequest, BreachInv, rvars
      <4>3. CASE breaches' # breaches
        BY <1>17, <3>1, <4>1, <4>3 DEF ServeRequest, BreachInv, rvars
      <4> QED
        BY <4>2, <4>3
    <3>2. CASE pc = "guest"
      <4>1. req.op \in GrantedOps
        BY <1>17, <3>2, CallAtStep DEF ServeRequest, ChannelInv, TypeOK, StepInv
      <4>2. ~Fault("ignores_revoke") => breaches' = breaches /\ (~live => reply' # "OK")
        BY <1>17, <4>1 DEF ServeRequest
      <4>3. round = 2 => breaches' = breaches
        BY <3>2, <4>2 DEF BreachInv
      <4> QED
        BY <1>17, <3>2, <4>2, <4>3, SameLaunch DEF ServeRequest, BreachInv, rvars
    <3>3. CASE pc \in {"open_request", "close_request"}
      <4>1. req.op \in GrantedOps
        BY <1>17, <3>3 DEF ServeRequest, ChannelInv, OpenOp, GrantedOps
      <4>2. ~Fault("ignores_revoke") => breaches' = breaches
        BY <1>17, <4>1 DEF ServeRequest
      <4>3. pc = "close_request" /\ reply' = "ACCESS" => ~Fault("ignores_revoke")
        BY <1>17, <4>1, <3>3 DEF ServeRequest
      <4> QED
        BY <1>17, <3>3, <4>2, <4>3, SameLaunch DEF ServeRequest, BreachInv, rvars
    <3> QED
      BY <1>17, <3>1, <3>2, <3>3 DEF ServeRequest, ChannelInv
  <2> QED
    BY <2>1, <2>2, <2>3, <2>4, <2>5, <2>6, <2>7, <2>8
<1>18. CASE ServeRevoke
  <2>1. TypeOK'
    <3>1. live' \in BOOLEAN /\ waiting' \in BOOLEAN
      BY <1>18, Zenon DEF TypeOK, ServeRevoke
    <3> QED
      BY <1>18, <3>1 DEF TypeOK, ServeRevoke, rvars, channel
  <2>2. Verified'
    BY <1>18 DEF Verified, ControlInv, ServeRevoke
  <2>3. StepInv'
    BY <1>18, SameLaunch DEF StepInv, ServeRevoke, rvars
  <2>4. GrantInv'
    BY <1>18 DEF GrantInv, ServeRevoke, rvars, channel
  <2>5. ChannelInv'
    BY <1>18, SameLaunch DEF ChannelInv, ServeRevoke, rvars, channel
  <2>6. ControlInv'
    BY <1>18 DEF ControlInv, ServeRevoke, rvars
  <2>7. SignalInv'
    BY <1>18 DEF SignalInv, Outcome, Outcomes, ServeRevoke, rvars
  <2>8. BreachInv'
    BY <1>18, SameLaunch DEF BreachInv, ControlInv, ServeRevoke, rvars
  <2> QED
    BY <2>1, <2>2, <2>3, <2>4, <2>5, <2>6, <2>7, <2>8
<1>19. CASE ControlWakes
  <2>1. TypeOK'
    BY <1>19 DEF TypeOK, ControlWakes, rvars, channel, svars
  <2>2. Verified'
    BY <1>19 DEF Verified, ControlWakes
  <2>3. StepInv'
    BY <1>19, SameLaunch DEF StepInv, ControlWakes, rvars
  <2>4. GrantInv'
    BY <1>19 DEF GrantInv, ControlWakes, rvars, channel
  <2>5. ChannelInv'
    BY <1>19, SameLaunch DEF ChannelInv, ControlWakes, rvars, channel
  <2>6. ControlInv'
    BY <1>19 DEF ControlInv, ControlWakes, rvars
  <2>7. SignalInv'
    BY <1>19 DEF SignalInv, Outcome, Outcomes, ControlFailure, ControlWakes, rvars
  <2>8. BreachInv'
    BY <1>19, SameLaunch DEF BreachInv, ControlInv, ControlWakes, rvars
  <2> QED
    BY <2>1, <2>2, <2>3, <2>4, <2>5, <2>6, <2>7, <2>8
<1>20. CASE ControlDone
  <2>1. TypeOK'
    BY <1>20 DEF TypeOK, ControlDone, rvars, channel, svars
  <2>2. Verified'
    BY <1>20 DEF Verified, ControlInv, ControlDone
  <2>3. StepInv'
    BY <1>20, SameLaunch DEF StepInv, ControlDone, rvars
  <2>4. GrantInv'
    BY <1>20 DEF GrantInv, ControlDone, rvars, channel
  <2>5. ChannelInv'
    BY <1>20, SameLaunch DEF ChannelInv, ControlDone, rvars, channel
  <2>6. ControlInv'
    BY <1>20 DEF ControlInv, ControlDone, rvars, svars
  <2>7. SignalInv'
    BY <1>20 DEF SignalInv, Outcome, Outcomes, ControlFailure, ControlDone, rvars
  <2>8. BreachInv'
    BY <1>20, SameLaunch DEF BreachInv, ControlInv, ControlDone, rvars
  <2> QED
    BY <2>1, <2>2, <2>3, <2>4, <2>5, <2>6, <2>7, <2>8
<1>21. CASE CallFails
  <2>1. TypeOK'
    BY <1>21 DEF TypeOK, NoRequest, CallFails, rvars, svars, cvars
  <2>2. Verified'
    BY <1>21 DEF Verified, CallFails, rvars, cvars
  <2>3. StepInv'
    BY <1>21, SameLaunch DEF StepInv, CallFails, rvars
  <2>4. GrantInv'
    BY <1>21 DEF GrantInv, CallFails, rvars
  <2>5. ChannelInv'
    BY <1>21, SameLaunch DEF ChannelInv, CallFails, rvars
  <2>6. ControlInv'
    BY <1>21 DEF ControlInv, CallFails, rvars, svars, cvars
  <2>7. SignalInv'
    BY <1>21 DEF SignalInv, Outcome, Outcomes, ControlFailure, CallFails, rvars, svars, cvars
  <2>8. BreachInv'
    <3>1. reply = None /\ reply' = "LOST"
      BY <1>21 DEF CallFails, ChannelInv
    <3> QED
      BY <1>21, <3>1, SameLaunch DEF BreachInv, CallFails, None, rvars, svars
  <2> QED
    BY <2>1, <2>2, <2>3, <2>4, <2>5, <2>6, <2>7, <2>8
<1>22. CASE Parked \/ UNCHANGED vars
  <2>1. UNCHANGED vars
    BY <1>22 DEF Parked
  <2> QED
    BY <2>1
       DEF TypeOK, Verified, StepInv, GrantInv, ChannelInv, ControlInv, SignalInv, Outcome,
           Outcomes, BreachInv, Call, Script, OpenOp, Fault, Keystore, vars, rvars, channel, svars,
           cvars
<1> QED
  BY <1>1, <1>2, <1>3, <1>4, <1>5, <1>6, <1>7, <1>8, <1>9, <1>10, <1>11, <1>12, <1>13, <1>14,
     <1>15, <1>16, <1>17, <1>18, <1>19, <1>20, <1>21, <1>22
     DEF Next, Runtime


\* The invariant holds in every reachable state.
THEOREM Invariance == Spec => []IInv
<1>1. Init => IInv
  BY InitIInv
<1>2. IInv /\ [Next]_vars => IInv'
  BY NextIInv
<1> QED
  BY <1>1, <1>2, PTL DEF Spec

\* Every variable has its type in every launch.
THEOREM TypeCorrect == Spec => []TypeOK
<1>1. IInv => TypeOK
  BY DEF IInv
<1> QED
  BY <1>1, Invariance, PTL

\* The filesystem guest is past its read-back only with its data in the file.
StoredInv ==
  /\ "SUCCESS" \in Outcomes => round = 2
  /\ \/ round = 2
     \/ pc = "guest" /\ step > 4
     \/ pc \in {"open_request", "signal", "await", "close_request"}
     => Keystore \/ stored = "data"

\* What reports nothing but a failure reports no success.
LEMMA NoSuccess ==
  ASSUME UNCHANGED signals \/ (\E stage, detail : Fail(stage, detail))
  PROVE  "SUCCESS" \in Outcomes' => "SUCCESS" \in Outcomes
<1>1. CASE UNCHANGED signals
  BY <1>1 DEF Outcomes
<1>2. ASSUME NEW stage, NEW detail, Fail(stage, detail)
      PROVE  "SUCCESS" \in Outcomes' => "SUCCESS" \in Outcomes
  <2> DEFINE x == <<"FAILURE", stage, detail>>
  <2>1. signals' = signals \cup {x} /\ x[1] = "FAILURE"
    BY <1>2 DEF Fail
  <2> HIDE DEF x
  <2> QED
    BY <2>1 DEF Outcomes
<1> QED
  BY <1>1, <1>2

LEMMA StoredStep ==
  ASSUME IInv, StoredInv, [Next]_vars
  PROVE  StoredInv'
<1>1. Keystore' = Keystore
  BY SameLaunch
     DEF Next, Runtime, vars, Parked, Verify, Plan, Bind, SelfCheck, Attenuate, Link, GuestOpen,
         GuestOversized, GuestCalls, GuestReturns, OutOfFuel, OpenRequest, SignalControl,
         AwaitControl, CloseRequest, HeapExhausted, ServeRequest, CallFails, ServeRevoke,
         ControlWakes, ControlDone
<1>2. CASE Verify \/ Plan \/ Bind \/ SelfCheck \/ Attenuate \/ Link
  <2>1. /\ round = 1 /\ round' = 1
        /\ pc' \in {"verify", "plan", "bind", "check", "attenuate", "link", "parked"}
           \/ (pc' = "guest" /\ step' = 1)
        /\ UNCHANGED signals \/ (\E stage, detail : Fail(stage, detail))
    <3>1. round = 1 /\ round' = 1 /\ (pc = "link" => step = 1)
      BY <1>2 DEF IInv, StepInv, Verify, Plan, Bind, SelfCheck, Attenuate, Link
    <3>2. UNCHANGED signals \/ (\E stage, detail : Fail(stage, detail))
      BY <1>2
         DEF Verify, Plan, Bind, SelfCheck, CheckCallFails, CheckAnswered, CheckPassed, Attenuate, Link, Goto
    <3>3. CASE Link
      BY <3>1, <3>2, <3>3 DEF Link, Goto, Fail
    <3>4. CASE Verify \/ Plan \/ Bind \/ SelfCheck \/ Attenuate
      BY <3>1, <3>2, <3>4
         DEF Verify, Plan, Bind, SelfCheck, CheckCallFails, CheckAnswered, CheckPassed, Attenuate, Goto, Fail
    <3> QED
      BY <1>2, <3>3, <3>4
  <2> QED
    BY <2>1, NoSuccess DEF StoredInv
<1>3. CASE OpenRequest \/ SignalControl \/ AwaitControl \/ CloseRequest
  <2>1. /\ UNCHANGED stored
        /\ pc \in {"open_request", "signal", "await", "close_request"} /\ round = 1
        /\ round' \in {1, 2}
        /\ UNCHANGED signals \/ (\E stage, detail : Fail(stage, detail))
    BY <1>3
       DEF IInv, StepInv, OpenRequest, SignalControl, AwaitControl, CloseRequest, Goto, svars
  <2> QED
    BY <1>1, <2>1, NoSuccess DEF StoredInv
<1>4. CASE OutOfFuel \/ HeapExhausted
  <2>1. UNCHANGED <<stored, round>> /\ pc' = "parked" /\ \E stage, detail : Fail(stage, detail)
    BY <1>4 DEF OutOfFuel, HeapExhausted, Fail, svars
  <2> QED
    BY <1>1, <2>1, NoSuccess DEF StoredInv
<1>5. CASE GuestOpen \/ GuestOversized \/ GuestCalls \/ GuestReturns
  <2>1. /\ UNCHANGED <<stored, round>> /\ pc = "guest" /\ step \in 1 .. 7 /\ round \in 1 .. 2
        /\ Keystore => step <= 3
    BY <1>5 DEF GuestOpen, GuestOversized, GuestCalls, GuestReturns, AtCall, IInv, StepInv, TypeOK, svars
  <2>2. CASE GuestCalls
    BY <1>1, <2>1, <2>2, NoSuccess DEF GuestCalls, StoredInv
  <2>3. CASE Advance
    <3>1. step = 4 /\ ~Keystore /\ round = 1 => stored = "data"
      <4> SUFFICES ASSUME step = 4 PROVE GuestReturns /\ Call = "read" /\ (stored = "data" \/ ~Advance)
        BY <2>3
      <4>1. Call = "read"
        BY <2>1, CallAtStep
      <4>2. GuestReturns
        BY <1>5, <4>1, <2>3 DEF GuestOpen, GuestOversized, HostRefuses, GuestCalls, Advance
      <4>3. ~Advance \/ stored = "data"
        BY <2>1, <4>1, <4>2 DEF GuestReturns, Takes, Report, Advance
      <4> QED
        BY <4>1, <4>2, <4>3
    <3> QED
      BY <1>1, <2>1, <2>3, <3>1, NoSuccess DEF Advance, StoredInv
  <2>4. CASE Report("ok") \/ Report("error") \/ Report("refused") \/ Report("leaked")
    <3>1. CASE round = 2
      BY <1>1, <2>1, <3>1 DEF StoredInv
    <3>2. CASE round = 1 /\ \E stage, detail : Fail(stage, detail)
      BY <1>1, <2>1, <3>2, NoSuccess DEF StoredInv, Fail
    <3>3. CASE round = 1 /\ Goto("open_request") /\ Report("ok")
      <4>1. Call = "open1"
        BY <1>5, <2>1, <3>3 DEF GuestOpen, GuestOversized, GuestCalls, GuestReturns, Takes, Report, Judge, Advance, Goto, Fail
      <4>2. Keystore \/ step = 7
        BY <2>1, <4>1, CallAtStep
      <4> QED
        BY <1>1, <2>1, <3>3, <4>2, NoSuccess DEF StoredInv, Goto
    <3> QED
      BY <2>1, <2>4, <3>1, <3>2, <3>3 DEF Report, Judge
  <2> QED
    BY <1>5, <2>2, <2>3, <2>4 DEF GuestOpen, GuestOversized, GuestReturns, Takes
<1>6. CASE ServeRequest
  <2>1. stored' = "data" \/ stored' = stored
    <3>1. req.op # "oversized"
      BY DEF IInv, TypeOK, None
    <3> QED
      BY <1>6, <3>1 DEF ServeRequest
  <2>2. UNCHANGED <<signals, pc, round, step>>
    BY <1>6 DEF ServeRequest, rvars
  <2> QED
    BY <1>1, <2>1, <2>2, NoSuccess DEF StoredInv
<1>7. CASE ControlWakes
  <2>1. UNCHANGED <<stored, pc, round, step>>
    BY <1>7 DEF ControlWakes, rvars, svars
  <2>2. UNCHANGED signals \/ signals' = signals \cup {ControlFailure}
    BY <1>7 DEF ControlWakes, ControlFailure
  <2>3. "SUCCESS" \in Outcomes' => "SUCCESS" \in Outcomes
    BY <2>2 DEF Outcomes, ControlFailure
  <2> QED
    BY <1>1, <2>1, <2>3 DEF StoredInv
<1>8. CASE CallFails \/ ServeRevoke \/ ControlDone \/ Parked \/ UNCHANGED vars
  <2>1. UNCHANGED <<stored, pc, round, step, signals>>
    BY <1>8 DEF CallFails, ServeRevoke, ControlDone, Parked, vars, rvars, svars
  <2> QED
    BY <1>1, <2>1, NoSuccess DEF StoredInv
<1> QED
  BY <1>2, <1>3, <1>4, <1>5, <1>6, <1>7, <1>8 DEF Next, Runtime

\* SUCCESS is signalled only of an authentic package, with the grant given and
\* ended, with nothing obtained that had to be refused, and with the filesystem
\* guest's data in the file (lib.rs:178-181), whatever combination of faults binder,
\* service and grant-control have.
THEOREM SuccessEarned == Spec => []SuccessIsEarned
<1>1. IInv /\ StoredInv => SuccessIsEarned
  <2> SUFFICES ASSUME IInv, StoredInv, "SUCCESS" \in Outcomes
               PROVE  /\ breaches = {} /\ world.package = "good" /\ granted /\ ~live /\ revokeDone
                      /\ ~Keystore => stored = "data"
    BY DEF SuccessIsEarned
  <2>1. PICK x : Outcome(x)
    BY DEF IInv, SignalInv
  <2>2. x[1] = "SUCCESS"
    BY <2>1 DEF Outcome, Outcomes, ControlFailure
  <2>3. ~Keystore => stored = "data"
    BY DEF StoredInv
  <2> QED
    BY <2>1, <2>2, <2>3 DEF Outcome
<1>2. Init => StoredInv
  BY DEF Init, StoredInv, Outcomes
<1> QED
  BY <1>1, <1>2, StoredStep, Invariance, PTL DEF Spec

\* Past verification, and in any report of a later stage, the package is authentic
\* (lib.rs:204-244), whatever the verifier accepts.
THEOREM AlwaysVerifiedFirst == Spec => []VerifiedFirst
<1>1. IInv => VerifiedFirst
  <2> SUFFICES ASSUME IInv, NEW s \in signals, s[2] \notin {"Package", "Panic"}
               PROVE  world.package = "good"
    BY DEF IInv, Verified, VerifiedFirst
  <2>1. PICK x : Outcome(x)
    BY DEF IInv, SignalInv
  <2>2. CASE s = x
    BY <2>1, <2>2 DEF Outcome
  <2>3. CASE s = ControlFailure
    BY <2>3 DEF IInv, SignalInv, ControlInv, Verified
  <2> QED
    BY <2>1, <2>2, <2>3 DEF Outcome
<1> QED
  BY <1>1, Invariance, PTL

\* The launch has one outcome, and the runtime reports once (lib.rs:155-171).
THEOREM OneOutcomeHolds == Spec => []OneOutcome
<1>1. IInv => OneOutcome
  <2> SUFFICES ASSUME IInv PROVE OneOutcome
    OBVIOUS
  <2>1. PICK x : Outcome(x)
    BY DEF IInv, SignalInv
  <2>2. Outcomes \subseteq {x[1]} \/ Outcomes \subseteq {"FAILURE"}
    BY <2>1 DEF IInv, SignalInv, Outcome, Outcomes, ControlFailure
  <2>3. {s \in signals : s[2] # "Control"} \subseteq {x}
    BY <2>1 DEF Outcome, ControlFailure
  <2> QED
    BY <2>2, <2>3, AtMostOne DEF OneOutcome
<1> QED
  BY <1>1, Invariance, PTL

\* With a declined grant the service never hears from the runtime (main.rs:69-84).
THEOREM DeclinedSilent == Spec => []DeclinedIsSilent
<1>1. IInv => DeclinedIsSilent
  BY DEF IInv, GrantInv, DeclinedIsSilent
<1> QED
  BY <1>1, Invariance, PTL

------------------------------------------------------------------------------
(* The launch implements GrantLife *)

\* Nothing is signalled before grant-control has failed or the runtime parks.
LEMMA Unreported ==
  ASSUME IInv, pc # "parked"
  PROVE  /\ "SUCCESS" \notin Outcomes
         /\ pc # "await" => Outcomes = {}
<1>1. signals \subseteq {ControlFailure}
  BY DEF IInv, SignalInv
<1>2. "SUCCESS" \notin Outcomes
  BY <1>1 DEF Outcomes, ControlFailure
<1>3. ASSUME pc # "await" PROVE Outcomes = {}
  <2>1. control # "failed"
    BY <1>3 DEF IInv, ControlInv
  <2>2. signals = {}
    BY <1>1, <2>1 DEF IInv, SignalInv
  <2> QED
    BY <2>2 DEF Outcomes
<1> QED
  BY <1>2, <1>3

LEMMA FailOutcomes ==
  ASSUME NEW stage, NEW detail, Fail(stage, detail)
  PROVE  Outcomes' = Outcomes \cup {"FAILURE"} /\ pc' = "parked"
<1> DEFINE x == <<"FAILURE", stage, detail>>
<1>1. signals' = signals \cup {x} /\ x[1] = "FAILURE" /\ pc' = "parked"
  BY DEF Fail
<1> HIDE DEF x
<1> QED
  BY <1>1 DEF Outcomes

LEMMA SucceedOutcomes ==
  ASSUME Succeed
  PROVE  Outcomes' = Outcomes \cup {"SUCCESS"} /\ pc' = "parked"
<1> DEFINE x == <<"SUCCESS", "Done", 0>>
<1>1. signals' = signals \cup {x} /\ x[1] = "SUCCESS" /\ pc' = "parked"
  BY DEF Succeed
<1> HIDE DEF x
<1> QED
  BY <1>1 DEF Outcomes

LEMMA GotoOutcomes ==
  ASSUME UNCHANGED signals
  PROVE  Outcomes' = Outcomes
  BY DEF Outcomes

\* What fails or breaks the rules spoils the launch, and may end the grant.
LEMMA LifeSpoils ==
  ASSUME IInv, Spoiled', "SUCCESS" \notin Outcomes', Outcomes \subseteq Outcomes',
         granted' = granted, live' => live
  PROVE  Life!Next
<1>1. Seen' = "spoiled" /\ Said' = None
  BY DEF Seen, Said
<1>2. Verdict # "SUCCESS" /\ Verdict' \in {Verdict, "FAILURE"}
  BY DEF Verdict, None
<1>3. Badge' = Badge \/ (Badge = "live" /\ Badge' = "ended")
  BY DEF Badge
<1> QED
  BY <1>1, <1>2, <1>3 DEF Life!Spoil, Life!Next, None

LEMMA LifeFails ==
  ASSUME IInv, pc # "parked", Outcomes' = Outcomes \cup {"FAILURE"}, granted' = granted, live' => live
  PROVE  Life!Next
<1>1. "SUCCESS" \notin Outcomes
  BY Unreported
<1>2. Spoiled'
  BY DEF Spoiled
<1> QED
  BY <1>1, <1>2, LifeSpoils

\* A spoiled launch stays as it is until something more is signalled.
LEMMA LifeSpoiled ==
  ASSUME Spoiled, Spoiled', Outcomes' = Outcomes, UNCHANGED <<granted, live>>
  PROVE  UNCHANGED Life!vars
  BY DEF Life!vars, Badge, Said, Seen, Verdict

\* A step that gets no answer and goes on to a stage that shows no more is none of the grant's.
LEMMA LifeKept ==
  ASSUME Outcomes' = Outcomes, Seen' = Seen, UNCHANGED <<granted, live, reply, breaches>>
  PROVE  UNCHANGED Life!vars
<1>1. Spoiled' = Spoiled
  BY DEF Spoiled
<1> QED
  BY <1>1 DEF Life!vars, Badge, Said, Verdict

\* The runtime takes an answer of a launch that is not spoiled.
LEMMA LifeLooks ==
  ASSUME ~Spoiled, Outcomes' = Outcomes, reply # None, reply' = None,
         UNCHANGED <<granted, live, breaches>>,
         Seen' = CASE Seen = "nothing" /\ reply = "OK" -> "granted"
                   [] Seen = "granted" /\ reply = "ACCESS" /\ Badge = "ended" -> "refused"
                   [] OTHER -> Seen
  PROVE  Life!Next
<1>1. ~Spoiled'
  BY DEF Spoiled
<1>2. Said = reply /\ Said' = None
  BY <1>1 DEF Said
<1>3. UNCHANGED <<Badge, Verdict>>
  BY DEF Badge, Verdict
<1>4. Life!Look
  BY <1>2, <1>3 DEF Life!Look, None
<1> QED
  BY <1>4 DEF Life!Next

LEMMA LifeAttenuate ==
  ASSUME IInv, Attenuate
  PROVE  [Life!Next]_Life!vars
<1>1. pc = "attenuate" /\ Outcomes = {} /\ round = 1 /\ UNCHANGED <<granted, live, breaches, round, step>>
  BY Unreported DEF Attenuate, svars, IInv, StepInv
<1>2. CASE Ask("encrypt", FALSE) /\ UNCHANGED <<pc, signals>>
  <2>1. Outcomes' = Outcomes /\ reply' = reply
    BY <1>2, GotoOutcomes DEF Ask
  <2>2. Seen' = Seen
    BY <1>1, <1>2, <2>1 DEF Seen, Spoiled
  <2> QED
    BY <1>1, <2>1, <2>2, LifeKept
<1>3. CASE Got("ACCESS") /\ Goto("link")
  <2>1. Outcomes' = Outcomes /\ reply = "ACCESS" /\ reply' = None /\ pc' = "link"
    BY <1>3, GotoOutcomes DEF Goto, Got
  <2>2. CASE Spoiled
    BY <1>1, <2>1, <2>2, LifeSpoiled DEF Spoiled
  <2>3. CASE ~Spoiled
    <3>1. Seen = "nothing" /\ Seen' = "nothing"
      BY <1>1, <2>1, <2>3 DEF Seen, Spoiled
    <3> QED
      BY <1>1, <2>1, <2>3, <3>1, LifeLooks DEF None
  <2> QED
    BY <2>2, <2>3
<1>4. CASE \E s, d : Got(s) /\ Fail("Attenuation", d)
  BY <1>1, <1>4, FailOutcomes, LifeFails
<1> QED
  BY <1>2, <1>3, <1>4 DEF Attenuate

LEMMA LifeGuestReturns ==
  ASSUME IInv, GuestReturns
  PROVE  [Life!Next]_Life!vars
<1>1. /\ pc = "guest" /\ Outcomes = {} /\ reply # None /\ reply' = None
      /\ round \in 1 .. 2 /\ step \in 1 .. 7
      /\ UNCHANGED <<granted, live, breaches, round>>
  BY Unreported DEF GuestReturns, Got, svars, IInv, TypeOK
<1>2. Call \in {"sign", "read", "write"} /\ step \in {2, 3, 4, 6}
  BY <1>1, CallAtStep DEF IInv, ChannelInv, StepInv
<1>3. granted
  BY <1>1 DEF IInv, GrantInv
<1>4. CASE Got("OK") /\ Advance
  <2>1. Outcomes' = Outcomes /\ pc' = "guest" /\ step' = step + 1 /\ reply = "OK"
    BY <1>1, <1>4, GotoOutcomes DEF Advance, Got
  <2>2. CASE Spoiled
    BY <1>1, <2>1, <2>2, LifeSpoiled DEF Spoiled
  <2>3. CASE ~Spoiled /\ round = 2
    <3>1. Seen = "refused" /\ Seen' = "refused"
      BY <1>1, <2>1, <2>3 DEF Seen, Spoiled
    <3> QED
      BY <1>1, <2>1, <2>3, <3>1, LifeLooks
  <2>4. CASE ~Spoiled /\ round = 1
    <3>1. Seen = (IF step > 2 THEN "granted" ELSE "nothing") /\ Seen' = "granted"
      BY <1>1, <1>2, <2>1, <2>4 DEF Seen, Spoiled
    <3> QED
      BY <1>1, <2>1, <2>4, <3>1, LifeLooks
  <2> QED
    BY <1>1, <2>2, <2>3, <2>4
<1>5. CASE round = 2 /\ Got("ACCESS") /\ Succeed
  <2>1. round = 2 /\ reply = "ACCESS"
    BY <1>5 DEF Got
  <2>2. breaches = {} /\ ~Spoiled /\ Outcomes' = {"SUCCESS"} /\ ~Spoiled'
    BY <1>1, <1>5, <2>1, SucceedOutcomes DEF IInv, BreachInv, Spoiled
  <2>3. ~live
    BY <2>1 DEF IInv, ControlInv
  <2>4. Seen = "refused" /\ Seen' = "refused" /\ Badge = "ended" /\ Badge' = "ended"
    BY <1>1, <1>3, <2>1, <2>2, <2>3 DEF Seen, Badge
  <2>5. Said = "ACCESS" /\ Said' = None /\ Verdict = None /\ Verdict' = "SUCCESS"
    BY <1>1, <2>1, <2>2 DEF Said, Verdict
  <2> QED
    BY <2>4, <2>5 DEF Life!Succeed, Life!Next, None
<1>6. CASE \E stage, detail : Fail(stage, detail)
  BY <1>1, <1>6, FailOutcomes, LifeFails
<1>7. \/ Got("OK") /\ Advance
      \/ round = 2 /\ Got("ACCESS") /\ Succeed
      \/ \E stage, detail : Fail(stage, detail)
  <2>1. ASSUME Report("refused")
        PROVE  (round = 2 /\ Succeed) \/ \E stage, detail : Fail(stage, detail)
    BY <1>1, <2>1 DEF Report, Judge
  <2>2. ASSUME Report("error")
        PROVE  \E stage, detail : Fail(stage, detail)
    BY <1>1, <2>2 DEF Report, Judge
  <2> QED
    BY <1>2, <2>1, <2>2 DEF GuestReturns, Takes
<1> QED
  BY <1>4, <1>5, <1>6, <1>7

LEMMA LifeCloseRequest ==
  ASSUME IInv, CloseRequest
  PROVE  [Life!Next]_Life!vars
<1>1. pc = "close_request" /\ Outcomes = {} /\ UNCHANGED <<granted, live, breaches>>
  BY Unreported DEF CloseRequest, svars
<1>2. granted /\ ~live /\ round = 1
  BY <1>1 DEF IInv, GrantInv, ControlInv, StepInv
<1>3. CASE Ask(OpenOp, FALSE) /\ UNCHANGED <<pc, signals, round, step>>
  <2>1. Outcomes' = Outcomes /\ reply' = reply
    BY <1>3, GotoOutcomes DEF Ask
  <2>2. Seen' = Seen
    BY <1>1, <1>3, <2>1 DEF Seen, Spoiled
  <2> QED
    BY <1>1, <2>1, <2>2, LifeKept
<1>4. CASE Got("ACCESS") /\ Goto("guest") /\ round' = 2 /\ step' = 1
  <2>1. Outcomes' = Outcomes /\ reply = "ACCESS" /\ reply' = None
    BY <1>4, GotoOutcomes DEF Goto, Got
  <2>2. CASE Spoiled
    BY <1>1, <2>1, <2>2, LifeSpoiled DEF Spoiled
  <2>3. CASE ~Spoiled
    <3>1. Seen = "granted" /\ Seen' = "refused" /\ Badge = "ended"
      BY <1>1, <1>2, <1>4, <2>1, <2>3 DEF Seen, Spoiled, Badge
    <3> QED
      BY <1>1, <2>1, <2>3, <3>1, LifeLooks DEF None
  <2> QED
    BY <2>2, <2>3
<1>5. CASE \E s, d : Got(s) /\ Fail("Revocation", d)
  BY <1>1, <1>5, FailOutcomes, LifeFails
<1> QED
  BY <1>3, <1>4, <1>5 DEF CloseRequest

LEMMA LifeOpenRequest ==
  ASSUME IInv, OpenRequest
  PROVE  [Life!Next]_Life!vars
<1>1. /\ pc = "open_request" /\ Outcomes = {} /\ round = 1
      /\ UNCHANGED <<granted, live, breaches, round, step>>
  BY Unreported DEF OpenRequest, svars, IInv, StepInv
<1>2. CASE Ask(OpenOp, TRUE) /\ UNCHANGED <<pc, signals>>
  <2>1. Outcomes' = Outcomes /\ reply' = reply
    BY <1>2, GotoOutcomes DEF Ask
  <2>2. Seen' = Seen
    BY <1>1, <1>2, <2>1 DEF Seen, Spoiled
  <2> QED
    BY <1>1, <2>1, <2>2, LifeKept
<1>3. CASE Got("OK") /\ Goto("signal")
  <2>1. Outcomes' = Outcomes /\ reply = "OK" /\ reply' = None /\ pc' = "signal"
    BY <1>3, GotoOutcomes DEF Goto, Got
  <2>2. CASE Spoiled
    BY <1>1, <2>1, <2>2, LifeSpoiled DEF Spoiled
  <2>3. CASE ~Spoiled
    <3>1. Seen = "granted" /\ Seen' = "granted"
      BY <1>1, <2>1, <2>3 DEF Seen, Spoiled
    <3> QED
      BY <1>1, <2>1, <2>3, <3>1, LifeLooks DEF None
  <2> QED
    BY <2>2, <2>3
<1>4. CASE \E s : Got(s) /\ Fail("Revocation", 1)
  BY <1>1, <1>4, FailOutcomes, LifeFails
<1> QED
  BY <1>2, <1>3, <1>4 DEF OpenRequest

\* The owner's decision is one for a live badge, or the launch is spoiled.
LEMMA LifeServeRequest ==
  ASSUME IInv, ServeRequest
  PROVE  [Life!Next]_Life!vars
<1>1. /\ req # NoRequest /\ reply = None /\ pc # "parked" /\ granted
      /\ reply' \in {"OK", "ACCESS", "INVALID"} /\ Outcomes' = Outcomes
      /\ UNCHANGED <<granted, live, pc, round, step>>
  BY GotoOutcomes DEF ServeRequest, IInv, ChannelInv, GrantInv, rvars
<1>2. breaches \subseteq breaches' /\ (breaches' = {} /\ reply' = "OK" => live)
  BY DEF ServeRequest
<1>3. "SUCCESS" \notin Outcomes
  BY <1>1, Unreported
<1>4. CASE Spoiled'
  BY <1>1, <1>3, <1>4, LifeSpoils
<1>5. CASE ~Spoiled'
  <2>1. ~Spoiled /\ breaches' = breaches
    BY <1>1, <1>2, <1>5 DEF Spoiled
  <2>2. Said = None /\ Said' = reply' /\ UNCHANGED <<Badge, Verdict>>
    BY <1>1, <1>5, <2>1 DEF Said, Badge, Verdict
  <2>3. Seen' = Seen /\ Seen # "spoiled"
    BY <1>1, <1>5, <2>1 DEF Seen, IInv, TypeOK
  <2>4. Badge # None /\ (reply' = "OK" => Badge = "live")
    BY <1>1, <1>2, <1>5 DEF Badge, None, Spoiled
  <2> QED
    BY <1>1, <2>2, <2>3, <2>4 DEF Life!Serve, Life!Next, None
<1> QED
  BY <1>4, <1>5

\* A lost call tells the holder nothing.
LEMMA LifeCallFails ==
  ASSUME IInv, CallFails
  PROVE  [Life!Next]_Life!vars
<1>1. /\ req # NoRequest /\ reply = None /\ reply' = "LOST" /\ pc # "parked" /\ granted
      /\ Outcomes' = Outcomes /\ UNCHANGED <<granted, live, pc, round, step, breaches>>
  BY GotoOutcomes DEF CallFails, IInv, ChannelInv, GrantInv, rvars, svars
<1>2. UNCHANGED <<Spoiled, Badge, Seen, Verdict>>
  BY <1>1 DEF Spoiled, Badge, Seen, Verdict
<1>3. CASE Spoiled
  BY <1>2, <1>3 DEF Life!vars, Said
<1>4. CASE ~Spoiled
  <2>1. Said = None /\ Said' = "LOST" /\ Badge # None
    BY <1>1, <1>2, <1>4 DEF Said, Badge, None
  <2>2. Seen # "spoiled"
    BY <1>4 DEF Seen, IInv, TypeOK
  <2> QED
    BY <1>2, <2>1, <2>2 DEF Life!Serve, Life!Next, None
<1> QED
  BY <1>3, <1>4

LEMMA LifeServeRevoke ==
  ASSUME IInv, ServeRevoke
  PROVE  [Life!Next]_Life!vars
<1>1. Outcomes' = Outcomes /\ ~live' /\ UNCHANGED <<pc, granted, round, step, reply, breaches>>
  BY GotoOutcomes DEF ServeRevoke, rvars, channel
<1>2. UNCHANGED <<Said, Seen, Verdict>>
  BY <1>1 DEF Said, Seen, Verdict, Spoiled
<1>3. Badge' = Badge \/ (Badge = "live" /\ Badge' = "ended")
  BY <1>1 DEF Badge
<1> QED
  BY <1>2, <1>3 DEF Life!Revoke, Life!Next, Life!vars

LEMMA LifeControlWakes ==
  ASSUME IInv, ControlWakes
  PROVE  [Life!Next]_Life!vars
<1>1. /\ UNCHANGED <<pc, granted, round, step, reply, breaches, live>>
      /\ signals' = signals \/ signals' = signals \cup {ControlFailure}
      /\ "SUCCESS" \notin Outcomes
  BY DEF ControlWakes, rvars, channel, svars, ControlFailure, IInv, SignalInv
<1>2. CASE signals' = signals
  <2>1. Outcomes' = Outcomes /\ Seen' = Seen
    BY <1>1, <1>2, GotoOutcomes DEF Seen, Spoiled
  <2> QED
    BY <1>1, <2>1, LifeKept
<1>3. CASE signals' = signals \cup {ControlFailure}
  <2>1. Outcomes' = Outcomes \cup {"FAILURE"}
    <3> DEFINE x == ControlFailure
    <3>1. x[1] = "FAILURE" /\ signals' = signals \cup {x}
      BY <1>3 DEF ControlFailure
    <3> HIDE DEF x
    <3> QED
      BY <3>1 DEF Outcomes
  <2>2. Spoiled'
    BY <2>1 DEF Spoiled
  <2> QED
    BY <1>1, <2>1, <2>2, LifeSpoils
<1> QED
  BY <1>1, <1>2, <1>3

\* Stages of the runtime that take no answer: they fail, or go on and show nothing.
LEMMA LifeStage ==
  ASSUME IInv, pc # "parked", granted' = granted, live' = live, UNCHANGED <<reply, round, breaches>>,
         \/ \E stage, detail : Fail(stage, detail)
         \/ UNCHANGED signals /\ Seen' = Seen
  PROVE  [Life!Next]_Life!vars
<1>1. CASE \E stage, detail : Fail(stage, detail)
  BY <1>1, FailOutcomes, LifeFails
<1>2. CASE UNCHANGED signals /\ Seen' = Seen
  BY <1>2, GotoOutcomes, LifeKept
<1> QED
  BY <1>1, <1>2

\* What the runtime is in the middle of shows in none of these stages.
EarlyStages == {"verify", "plan", "bind", "check", "attenuate", "link"}

LateStages == {"open_request", "signal", "await", "close_request"}

LEMMA SeenKept ==
  ASSUME UNCHANGED <<signals, round, breaches>>, round \in 1 .. 2,
         \/ pc \in EarlyStages /\ pc' \in EarlyStages
         \/ pc \in LateStages /\ pc' \in LateStages
         \/ pc \in EarlyStages /\ pc' = "guest" /\ step' <= 2 /\ step' \in Nat
         \/ pc = "guest" /\ pc' = "guest" /\ (step' > 2 <=> step > 2)
         \/ pc = "guest" /\ step > 2 /\ pc' \in LateStages
  PROVE  Seen' = Seen
<1>1. Spoiled' = Spoiled
  BY GotoOutcomes DEF Spoiled
<1>2. /\ "guest" \notin EarlyStages \cup LateStages
      /\ EarlyStages \cap LateStages = {}
  BY DEF EarlyStages, LateStages
<1> QED
  BY <1>1, <1>2 DEF Seen, LateStages

\* No grant is held before the binder was asked.
FreshInv == pc \in {"verify", "plan", "bind"} => ~granted

LEMMA LifeBind ==
  ASSUME IInv, FreshInv, Bind
  PROVE  [Life!Next]_Life!vars
<1>1. pc = "bind" /\ ~granted /\ UNCHANGED <<reply, round, step, breaches>>
  BY DEF Bind, FreshInv, channel
<1>2. CASE Fail("Grant", 1) /\ UNCHANGED <<granted, live>>
  BY <1>1, <1>2, LifeStage
<1>3. CASE /\ granted' = world.grants /\ live' = world.grants /\ UNCHANGED signals
           /\ pc' \in {"check", "link"}
  <2>1. Seen' = Seen
    BY <1>1, <1>3, SeenKept DEF IInv, TypeOK, EarlyStages
  <2>2. Outcomes' = Outcomes /\ Spoiled' = Spoiled
    BY <1>1, <1>3, GotoOutcomes DEF Spoiled
  <2>3. UNCHANGED <<Said, Seen, Verdict>>
    BY <1>1, <2>1, <2>2 DEF Said, Verdict
  <2>4. Badge = None /\ Badge' \in {None, "live"}
    BY <1>1, <1>3 DEF Badge
  <2> QED
    BY <2>3, <2>4 DEF Life!Grant, Life!Next, Life!vars, None
<1> QED
  BY <1>2, <1>3 DEF Bind, Goto

LEMMA LifeSelfCheck ==
  ASSUME IInv, SelfCheck
  PROVE  [Life!Next]_Life!vars
<1>1. /\ pc = "check" /\ Outcomes = {} /\ round = 1 /\ step \in 1 .. 4
      /\ (live' => live) /\ live \in BOOLEAN /\ UNCHANGED <<granted, reply, round>>
  BY Unreported DEF SelfCheck, CheckCallFails, CheckAnswered, CheckPassed, IInv, StepInv, TypeOK, channel
<1>2. CASE \E stage, detail : Fail(stage, detail)
  BY <1>1, <1>2, FailOutcomes, LifeFails
<1>3. CASE ~ \E stage, detail : Fail(stage, detail)
  <2>1. /\ UNCHANGED signals /\ pc' \in {"check", "attenuate", "link"}
        /\ \/ breaches' # {}
           \/ breaches' = breaches /\ live' = live
    <3>1. CASE CheckCallFails
      BY <1>1, <1>3, <3>1 DEF CheckCallFails, CheckPassed, Goto
    <3>2. CASE CheckAnswered
      <4>1. ~Fault(CheckFaults[step])
        BY <1>3, <3>2 DEF CheckAnswered
      <4>2. step = 4 => CheckFaults[step] = "self_revokes"
        BY DEF CheckFaults
      <4> QED
        BY <1>1, <3>2, <4>1, <4>2 DEF CheckAnswered, CheckPassed, Goto, Breach
    <3> QED
      BY <3>1, <3>2 DEF SelfCheck
  <2>2. CASE breaches' # {}
    <3>1. Outcomes' = {}
      BY <1>1, <2>1, GotoOutcomes
    <3> QED
      BY <1>1, <2>2, <3>1, LifeSpoils DEF Spoiled
  <2>3. CASE breaches' = breaches /\ live' = live
    <3>1. Seen' = Seen
      BY <1>1, <2>1, <2>3, SeenKept DEF EarlyStages
    <3> QED
      BY <1>1, <2>1, <2>3, <3>1, GotoOutcomes, LifeKept
  <2> QED
    BY <2>1, <2>2, <2>3
<1> QED
  BY <1>2, <1>3

\* The guest opens a handle, or its report is judged.
LEMMA LifeGuestOpen ==
  ASSUME IInv, GuestOpen
  PROVE  [Life!Next]_Life!vars
<1>1. /\ pc = "guest" /\ round \in 1 .. 2 /\ step \in 1 .. 7
      /\ UNCHANGED <<granted, live, reply, round, breaches>>
  BY DEF GuestOpen, AtCall, IInv, TypeOK, channel, svars
<1>2. step \in {1, 3, 7}
  BY <1>1, CallAtStep DEF GuestOpen, IInv, StepInv
<1>3. CASE Advance /\ step = 1
  <2>1. Seen' = Seen
    BY <1>1, <1>3, SeenKept DEF Advance
  <2> QED
    BY <1>1, <1>3, <2>1, LifeStage DEF Advance
<1>4. CASE \E stage, detail : Fail(stage, detail)
  BY <1>1, <1>4, LifeStage
<1>5. CASE Goto("open_request") /\ step > 2
  <2>1. Seen' = Seen
    BY <1>1, <1>5, SeenKept DEF Goto, LateStages
  <2> QED
    BY <1>1, <1>5, <2>1, LifeStage DEF Goto
<1>6. \/ Advance /\ step = 1
      \/ \E stage, detail : Fail(stage, detail)
      \/ Goto("open_request") /\ step > 2
  <2>1. Call = "open0" <=> step = 1
    BY <1>1, CallAtStep DEF IInv, StepInv
  <2>2. ASSUME Report("error") \/ Report("leaked")
        PROVE  \E stage, detail : Fail(stage, detail)
    BY <1>1, <2>2 DEF Report, Judge
  <2>3. ASSUME Report("ok")
        PROVE  Goto("open_request") \/ \E stage, detail : Fail(stage, detail)
    BY <1>1, <2>3 DEF Report, Judge
  <2>4. Call = "open0" \/ (Call = "open1" /\ step > 2)
    BY <1>2, <2>1 DEF GuestOpen
  <2> QED
    BY <2>1, <2>2, <2>3, <2>4 DEF GuestOpen
<1> QED
  BY <1>3, <1>4, <1>5, <1>6

LEMMA FreshStep == FreshInv /\ [Next]_vars => FreshInv'
  BY DEF FreshInv, Next, Runtime, vars, rvars, channel, svars, cvars, Parked, Verify, Plan, Bind,
         SelfCheck, CheckCallFails, CheckAnswered, CheckPassed, Takes, CallFails, Attenuate, Link, GuestOpen, GuestOversized, GuestCalls, GuestReturns, OutOfFuel,
         OpenRequest, SignalControl, AwaitControl, CloseRequest, HeapExhausted, ServeRequest,
         ServeRevoke, ControlWakes, ControlDone, Goto, Fail, Report, Judge, Advance, Succeed, AtCall

LEMMA LifeGuestCalls ==
  ASSUME IInv, GuestOversized \/ GuestCalls
  PROVE  [Life!Next]_Life!vars
<1>1. /\ pc = "guest" /\ pc' = "guest" /\ round \in 1 .. 2 /\ step \in 1 .. 7
      /\ UNCHANGED <<granted, live, reply, round, breaches, signals>>
  BY DEF GuestOversized, HostRefuses, Takes, GuestCalls, Advance, Ask, AtCall, IInv, TypeOK, channel, svars
<1>2. step' > 2 <=> step > 2
  <2>1. CASE GuestOversized
    <3>1. step = 5 /\ step' = 6
      BY <1>1, <2>1, CallAtStep DEF GuestOversized, HostRefuses, Takes, Advance, IInv, StepInv
    <3> QED
      BY <3>1
  <2> QED
    BY <2>1 DEF GuestCalls
<1>3. Seen' = Seen
  BY <1>1, <1>2, SeenKept
<1> QED
  BY <1>1, <1>3, LifeStage

\* The other stages of the runtime.
LEMMA LifeOther ==
  ASSUME IInv, Verify \/ Plan \/ Link \/ OutOfFuel \/ SignalControl \/ AwaitControl \/ HeapExhausted
  PROVE  [Life!Next]_Life!vars
<1>1. /\ pc # "parked" /\ round \in 1 .. 2
      /\ UNCHANGED <<granted, live, reply, round, step, breaches>>
  BY DEF Verify, Plan, Link, OutOfFuel, AtCall, SignalControl, AwaitControl, HeapExhausted, channel,
         svars, IInv, TypeOK
<1>2. \/ \E stage, detail : Fail(stage, detail)
      \/ /\ UNCHANGED signals
         /\ \/ pc \in EarlyStages /\ pc' \in EarlyStages
            \/ pc \in LateStages /\ pc' \in LateStages
            \/ pc = "link" /\ pc' = "guest"
  <2>1. CASE Verify
    BY <2>1 DEF Verify, Goto, EarlyStages
  <2>2. CASE Plan
    BY <2>2 DEF Plan, Goto, EarlyStages
  <2>3. CASE Link
    BY <2>3 DEF Link, Goto
  <2>4. CASE OutOfFuel \/ HeapExhausted
    BY <2>4 DEF OutOfFuel, HeapExhausted
  <2>5. CASE SignalControl \/ AwaitControl
    BY <2>5 DEF SignalControl, AwaitControl, Goto, LateStages
  <2> QED
    BY <2>1, <2>2, <2>3, <2>4, <2>5
<1>3. CASE \E stage, detail : Fail(stage, detail)
  BY <1>1, <1>3, LifeStage
<1>4. CASE ~ \E stage, detail : Fail(stage, detail)
  <2>1. pc = "link" => step' = 1
    BY <1>1 DEF IInv, StepInv
  <2>2. Seen' = Seen
    BY <1>1, <1>2, <1>4, <2>1, SeenKept DEF EarlyStages
  <2> QED
    BY <1>1, <1>2, <1>4, <2>2, LifeStage
<1> QED
  BY <1>3, <1>4

\* Every step of the launch is one of its grant's life, or shows nothing of it.
LEMMA LifeStep ==
  ASSUME IInv, FreshInv, [Next]_vars
  PROVE  [Life!Next]_Life!vars
<1>1. CASE ControlDone \/ Parked \/ UNCHANGED vars
  <2>1. UNCHANGED <<pc, granted, live, reply, round, step, breaches, signals>>
    BY <1>1 DEF ControlDone, Parked, vars, rvars, channel, svars
  <2>2. Outcomes' = Outcomes /\ Seen' = Seen
    BY <2>1, GotoOutcomes DEF Seen, Spoiled
  <2> QED
    BY <2>1, <2>2, LifeKept
<1> QED
  BY <1>1, LifeOther, LifeBind, LifeSelfCheck, LifeAttenuate, LifeGuestOpen, LifeGuestCalls,
     LifeGuestReturns, LifeOpenRequest, LifeCloseRequest, LifeServeRequest, LifeCallFails,
     LifeServeRevoke, LifeControlWakes
     DEF Next, Runtime

\* The launch implements the life of its grant: SUCCESS only after the guest saw the
\* grant work, the open request refused and a fresh call refused, in that order and
\* with every answer given by an owner that had not broken the rules (lib.rs:265-294).
THEOREM Refinement == Spec => ImplementsGrantLife
<1>1. Init => Life!Init
  <2> SUFFICES ASSUME Init PROVE Life!Init
    OBVIOUS
  <2>1. Outcomes = {} /\ ~Spoiled
    BY DEF Init, Outcomes, Spoiled
  <2> QED
    BY <2>1 DEF Init, Life!Init, Badge, Said, Seen, Verdict, None
<1>2. Init => FreshInv
  BY DEF Init, FreshInv
<1> QED
  BY <1>1, <1>2, FreshStep, LifeStep, Invariance, PTL DEF Spec, ImplementsGrantLife, Life!Spec
===============================================================================
