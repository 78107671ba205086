------------------------------- MODULE GrantLife -------------------------------
(* What a launch may conclude about its one grant.  The owner decides every request *)
(* under the grant as it is then; the holder looks at the answer later.  SUCCESS    *)
(* says the holder saw the grant work, saw a request refused because it had ended,  *)
(* and was refused once more when it asked anew.                                    *)
VARIABLES
  badge,   \* "none", "live" or "ended"
  answer,  \* the owner's, until the holder looks: "OK", "ACCESS", "INVALID", "LOST" or "none"
  seen,    \* by the holder: "nothing", "granted", "refused", or "spoiled"
  outcome  \* "none", "SUCCESS" or "FAILURE"

vars == <<badge, answer, seen, outcome>>

Init == badge = "none" /\ answer = "none" /\ seen = "nothing" /\ outcome = "none"

Grant  == badge = "none" /\ badge' = "live" /\ UNCHANGED <<answer, seen, outcome>>
Revoke == badge = "live" /\ badge' = "ended" /\ UNCHANGED <<answer, seen, outcome>>

\* The owner may find a request malformed or beyond the grant, or its answer may be
\* lost, but what it does it does for a live badge.
Serve ==
  /\ badge # "none" /\ answer = "none" /\ seen # "spoiled"
  /\ answer' \in {"OK", "ACCESS", "INVALID", "LOST"} /\ (answer' = "OK" => badge = "live")
  /\ UNCHANGED <<badge, seen, outcome>>

\* A refusal under a live badge says nothing about its end.
Look ==
  /\ answer # "none" /\ answer' = "none"
  /\ seen' = CASE seen = "nothing" /\ answer = "OK" -> "granted"
               [] seen = "granted" /\ answer = "ACCESS" /\ badge = "ended" -> "refused"
               [] OTHER -> seen
  /\ UNCHANGED <<badge, outcome>>

Succeed ==
  /\ seen = "refused" /\ badge = "ended" /\ answer = "ACCESS" /\ outcome = "none"
  /\ answer' = "none" /\ outcome' = "SUCCESS"
  /\ UNCHANGED <<badge, seen>>

\* Whatever went wrong, in the launch or at the owner, only FAILURE can follow.
Spoil ==
  /\ outcome # "SUCCESS"
  /\ seen' = "spoiled" /\ answer' = "none" /\ outcome' \in {outcome, "FAILURE"}
  /\ badge' = badge \/ (badge = "live" /\ badge' = "ended")

Next == Grant \/ Revoke \/ Serve \/ Look \/ Succeed \/ Spoil

Spec == Init /\ [][Next]_vars
==============================================================================
