-------------------------- MODULE CapabilityAccess --------------------------
(***************************************************************************)
(* What the host mapping promises a guest and the owning services, with no *)
(* resource table, no link step and no transport: a handle is the slot it  *)
(* was opened at for as long as it is held; an operation takes effect at   *)
(* most once, at one instant at which the badge of that slot's grant still *)
(* allows it; "ok" is answered only if it took effect and "access" only if *)
(* it did not and is not allowed.                                          *)
(***************************************************************************)
EXTENDS HostInterface

VARIABLES
  offer,     \* [Services -> [Slots -> what the slot was granted, or None]]
  attached,  \* the services that have a backend
  held,      \* [Handles -> the slot the handle was opened at, or None]
  request,   \* the operation in progress, or NoRequest
  result,    \* what the guest was last told
  gone,      \* revoked badges and destroyed objects
  content    \* what each file holds

avars == <<offer, attached, held, request, result, gone, content>>

NoRequest == [handle |-> None]
NoResult == [handle |-> None, op |-> "none", code |-> "none", value |-> None]

Told(h, op, code, value) ==
  result' = [handle |-> h, op |-> op, code |-> code, value |-> value]

Right(r) == offer[r.handle.service][held[r.handle]]

Init ==
  /\ offer \in [Services -> [Slots -> Caps \cup {None}]]
  /\ attached \in SUBSET Services
  /\ held = [h \in Handles |-> None]
  /\ request = NoRequest
  /\ result = NoResult
  /\ gone = {}
  /\ content = [f \in Files |-> Empty]

Acquire(h, slot) ==
  /\ request = NoRequest /\ held[h] = None
  /\ offer[h.service][slot] # None
  /\ held' = [held EXCEPT ![h] = slot]
  /\ Told(h, "open", "some", None)
  /\ UNCHANGED <<offer, attached, request, gone, content>>

\* open answers none for a slot without a grant, or because no index is left.
Decline(s, slot) ==
  /\ request = NoRequest
  /\ \/ offer[s][slot] = None
     \/ \A r \in Reps : \E h \in Handles : h.rep = r /\ held[h] # None
  /\ Told(None, "open", "none", None)
  /\ UNCHANGED <<offer, attached, held, request, gone, content>>

ReadClock ==
  /\ request = NoRequest
  /\ Told(None, "now", "ok", None)
  /\ UNCHANGED <<offer, attached, held, request, gone, content>>

Release(h) ==
  /\ request = NoRequest /\ held[h] # None
  /\ held' = [held EXCEPT ![h] = None]
  /\ UNCHANGED <<offer, attached, request, result, gone, content>>

\* Refused before any service is consulted.
Reject(h, op, arg) ==
  /\ request = NoRequest /\ held[h] # None
  /\ \/ ~WellFormed(arg) /\ Told(h, op, "invalid", None)
     \/ WellFormed(arg) /\ h.service \notin attached /\ Told(h, op, "access", None)
  /\ UNCHANGED <<offer, attached, held, request, gone, content>>

Request(h, op, arg) ==
  /\ request = NoRequest /\ held[h] # None
  /\ WellFormed(arg) /\ h.service \in attached
  /\ request' = [handle |-> h, op |-> op, arg |-> arg, status |-> "open", value |-> None]
  /\ UNCHANGED <<offer, attached, held, result, gone, content>>

Decide(status, value) ==
  /\ request' = [request EXCEPT !.status = status, !.value = value]
  /\ UNCHANGED <<offer, attached, held, result, gone>>

\* The instant the operation takes effect.
Perform ==
  /\ request # NoRequest /\ request.status = "open"
  /\ Allowed(Right(request), request.op, gone)
  /\ request.arg # "forged"
  /\ Decide("done", IF request.op = "read" THEN content[Right(request).object] ELSE None)
  /\ content' = IF request.op = "write"
                THEN [content EXCEPT ![Right(request).object] = request.arg] ELSE content

Deny ==
  /\ request # NoRequest /\ request.status = "open"
  /\ ~Allowed(Right(request), request.op, gone)
  /\ Decide("denied", None) /\ UNCHANGED content

\* The service or the way to it failed; the guest will not learn which.
Fail ==
  /\ request # NoRequest /\ request.status # "void"
  /\ Decide("void", None) /\ UNCHANGED content

Respond ==
  /\ request # NoRequest /\ request.status # "open"
  /\ Told(request.handle, request.op,
          CASE request.status = "done" -> "ok"
            [] request.status = "denied" -> "access"
            [] OTHER -> "invalid", request.value)
  /\ request' = NoRequest
  /\ UNCHANGED <<offer, attached, held, gone, content>>

Withdraw(x) ==
  /\ gone' = gone \cup {x}
  /\ UNCHANGED <<offer, attached, held, request, result, content>>

Next ==
  \/ ReadClock \/ Perform \/ Deny \/ Fail \/ Respond
  \/ \E h \in Handles, slot \in Slots : Acquire(h, slot)
  \/ \E s \in Services, slot \in Slots : Decline(s, slot)
  \/ \E h \in Handles : Release(h)
  \/ \E h \in Handles : \E op \in Ops(h.service) : \E arg \in Args(op) :
       Reject(h, op, arg) \/ Request(h, op, arg)
  \/ \E x \in Badges \cup Objects : Withdraw(x)

Spec == Init /\ [][Next]_avars
==============================================================================
