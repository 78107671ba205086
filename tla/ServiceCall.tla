----------------------------- MODULE ServiceCall -----------------------------
(***************************************************************************)
(* What the host mapping relies on from a backend: an operation takes      *)
(* effect at one instant, while the grant is live, or not at all; it is    *)
(* answered ok only if it did, access only if the grant had ended; a       *)
(* failure says nothing.  HostMapping's Serve, TransportFails and Reply    *)
(* take a backend call to be exactly this.                                 *)
(***************************************************************************)
CONSTANTS Operations, Contents, None

VARIABLES
  request,  \* the operation called and what it would write, or None
  outcome,  \* "open", "done", "denied" or "void"
  answer,   \* the error code last returned, "ok" for none
  live,     \* the grant has not been revoked
  content   \* what the file holds

svars == <<request, outcome, answer, live, content>>

Init ==
  /\ request = None /\ outcome = "open" /\ answer = "none"
  /\ live = TRUE /\ content \in Contents

Call(op, data) ==
  /\ request = None
  /\ request' = [op |-> op, data |-> data] /\ outcome' = "open"
  /\ UNCHANGED <<answer, live, content>>

Perform ==
  /\ request # None /\ outcome = "open" /\ live
  /\ outcome' = "done"
  /\ content' = IF request.op = "write" THEN request.data ELSE content
  /\ UNCHANGED <<request, answer, live>>

Deny ==
  /\ request # None /\ outcome = "open" /\ ~live
  /\ outcome' = "denied"
  /\ UNCHANGED <<request, answer, live, content>>

Fail ==
  /\ request # None /\ outcome # "void"
  /\ outcome' = "void"
  /\ UNCHANGED <<request, answer, live, content>>

Return ==
  /\ request # None /\ outcome # "open"
  /\ answer' = CASE outcome = "done"   -> "ok"
                 [] outcome = "denied" -> "access"
                 [] outcome = "void"   -> "invalid"
  /\ request' = None /\ outcome' = "open"
  /\ UNCHANGED <<live, content>>

Revoke == live' = FALSE /\ UNCHANGED <<request, outcome, answer, content>>

Next ==
  \/ \E op \in Operations, data \in Contents : Call(op, data)
  \/ Perform \/ Deny \/ Fail \/ Return \/ Revoke

Spec == Init /\ [][Next]_svars
==============================================================================
