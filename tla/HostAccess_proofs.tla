-------------------------- MODULE HostAccess_proofs --------------------------
(***************************************************************************)
(* HostMapping implements CapabilityAccess, for every manifest, table size *)
(* and set of badges, as long as a dropped handle is really gone: the      *)
(* embedder's bindings consume it (HostKeepsStale is FALSE).               *)
(***************************************************************************)
EXTENDS HostMapping_proofs

\* Without copies of dropped handles every call is made through a held one.
OwnedInv == stale = {} /\ (call # NoCall => call.owned)

\* An operation that is open or void has nothing to return.
EmptyInv == call # NoCall /\ Status(call.verdict) \in {"open", "void"} => call.value = None

AccessInv == IInv /\ AuthorityInv /\ OwnedInv /\ EmptyInv

------------------------------------------------------------------------------
(* The mapping of a state *)

\* A call in progress is a request of the abstract host, and only that is one.
LEMMA RequestedCall ==
  ASSUME TypeOK
  PROVE  /\ call = NoCall <=> Requested = Access!NoRequest
         /\ call = NoCall => Requested = NoCall
         /\ call # NoCall =>
              /\ call \in Calls /\ call.handle \in Handles
              /\ Requested = [handle |-> call.handle, op |-> call.op, arg |-> call.arg,
                              status |-> Status(call.verdict), value |-> call.value]
<1>1. call # NoCall => call \in Calls /\ call.handle \in Handles
  BY DEF TypeOK, Calls
<1>2. call # NoCall =>
        Requested = [handle |-> call.handle, op |-> call.op, arg |-> call.arg,
                     status |-> Status(call.verdict), value |-> call.value]
  BY DEF Requested
<1>3. call # NoCall => Requested # Access!NoRequest
  BY <1>1, <1>2, NoneAssumption DEF Access!NoRequest
<1> QED
  BY <1>1, <1>2, <1>3 DEF Requested, NoCall, Access!NoRequest

\* Deciding a call decides its request.
LEMMA RequestedDecided ==
  ASSUME TypeOK, call # NoCall, NEW v, NEW x,
         call' = [call EXCEPT !.verdict = v, !.value = x]
  PROVE  Requested' = [Requested EXCEPT !.status = Status(v), !.value = x]
<1>1. call \in Calls /\ call.handle \in Handles
  BY RequestedCall
<1>2. /\ call'.handle = call.handle /\ call'.op = call.op /\ call'.arg = call.arg
      /\ call'.verdict = v /\ call'.value = x
  BY <1>1 DEF Calls
<1>3. call' # NoCall
  BY <1>1, <1>2, NoneAssumption DEF NoCall
<1>4. Requested' = [handle |-> call.handle, op |-> call.op, arg |-> call.arg,
                    status |-> Status(v), value |-> x]
  BY <1>2, <1>3 DEF Requested
<1>5. Requested = [handle |-> call.handle, op |-> call.op, arg |-> call.arg,
                   status |-> Status(call.verdict), value |-> call.value]
  BY RequestedCall
<1> DEFINE Requests == [handle : {call.handle}, op : {call.op}, arg : {call.arg},
                        status : {Status(call.verdict), Status(v)}, value : {call.value, x}]
<1>6. Requested \in Requests /\ Requested' \in Requests
  BY <1>4, <1>5
<1> QED
  BY <1>4, <1>5, <1>6

\* A slot offers what its grant is forwarded as, a hole nothing.
LEMMA OfferedSlot ==
  ASSUME TypeOK, NEW s \in Services, NEW slot \in Slots
  PROVE  /\ Offered[s][slot] = IF Grant(s, slot) = None THEN None ELSE Forward(s, Grant(s, slot))
         /\ Offered[s][slot] = None <=> Grant(s, slot) = None
         /\ Offered[s][slot] \in Caps \cup {None}
<1>1. Offered[s][slot] = IF Grant(s, slot) = None THEN None ELSE Forward(s, Grant(s, slot))
  BY DEF Offered
<1>2. slot \in Nat /\ conf \in Configurations
  BY SlotsAssumption DEF TypeOK
<1>3. Grant(s, slot) # None => Forward(s, Grant(s, slot)) \in Caps
  BY <1>2, GrantType, ForwardType
<1> QED
  BY <1>1, <1>3, DistinctAssumption

\* The authority of a request is the one its call carries.
LEMMA RightIsForwarded ==
  ASSUME AccessInv, call # NoCall
  PROVE  Access!Right(Requested) = call.cap /\ call.cap \in Caps
<1> USE DEF AccessInv, IInv
<1>1. call \in Calls /\ call.handle \in Handles /\ Requested.handle = call.handle
  BY RequestedCall
<1> DEFINE h == call.handle
<1>2. guest[h] # None /\ call.cap = Forward(h.service, Grant(h.service, guest[h]))
  BY DEF AuthorityInv, OwnedInv
<1>3. h.service \in Services /\ guest[h] \in Slots
  BY <1>1, <1>2 DEF Handles, TypeOK
<1>4. Grant(h.service, guest[h]) # None
  BY <1>1, <1>2 DEF HandleInv
<1>5. Offered[h.service][guest[h]] = call.cap
  BY <1>2, <1>3, <1>4, OfferedSlot
<1>6. call.cap \in Caps
  BY <1>1 DEF Calls
<1> QED
  BY <1>1, <1>5, <1>6 DEF Access!Right

\* The services refuse exactly what is not allowed.
LEMMA RefusedIsDisallowed ==
  ASSUME NEW cap, NEW op
  PROVE  Refusal(cap, op) = "none" <=> Access!Allowed(cap, op, gone)
  BY DEF Refusal, Access!Allowed

\* What the host receives means what the service said.
LEMMA ReceivedStatus ==
  ASSUME NEW s
  PROVE  /\ \A v \in Denials : Status(Received(s, v)) = "denied"
         /\ Status(Received(s, "failed")) = "void"
         /\ Status(Received(s, "ok")) = "done"
         /\ \A x : Status(Received(s, ReadStatus(x))) = "done"
<1>1. \A v \in {"ok", "FileEmpty"} : Received(s, v) \in {"ok", "FileEmpty"}
  BY DEF Received, Denials
<1>2. \A x : ReadStatus(x) \in {"ok", "FileEmpty"}
  BY DEF ReadStatus
<1>3. \A v \in {"ok", "FileEmpty"} : Status(v) = "done"
  BY DEF Status
<1>4. \A v \in Denials : Status(Received(s, v)) = "denied"
  BY DEF Status, Received, Denials
<1>5. Status(Received(s, "failed")) = "void"
  BY DEF Status, Received, Denials
<1> QED
  BY <1>1, <1>2, <1>3, <1>4, <1>5

\* The embedder's set-up is never changed.
LEMMA ConfigurationKept ==
  ASSUME UNCHANGED conf
  PROVE  UNCHANGED <<Offered, Attached>>
  BY DEF Offered, Attached, Grant, Forward

------------------------------------------------------------------------------
(* The initial state and the steps *)

\* The embedder's initial state maps to an initial state of the promise.
LEMMA AccessInit ==
  ASSUME Init
  PROVE  Access!Init
<1>1. TypeOK
  BY InitInv DEF IInv
<1>2. Offered \in [Access!Services -> [Slots -> Access!Caps \cup {None}]]
  <2>1. \A s \in Services : \A slot \in Slots : Offered[s][slot] \in Caps \cup {None}
    BY <1>1, OfferedSlot
  <2>2. Offered = [s \in Services |-> [slot \in Slots |-> Offered[s][slot]]]
    BY DEF Offered
  <2>3. Access!Services = Services /\ Access!Caps = Caps
    BY DEF Access!Services, Services, Access!Caps, Caps, Access!Objects, Objects
  <2> QED
    BY <2>1, <2>2, <2>3
<1>3. Attached \in SUBSET Access!Services
  BY DEF Attached, Access!Services, Services
<1>4. Requested = Access!NoRequest /\ LastTold = Access!NoResult
  BY DEF Init, Requested, NoCall, LastTold, NoAnswer, Access!NoRequest, Access!NoResult
<1>5. guest = [h \in Access!Handles |-> None]
  BY DEF Init, Access!Handles, Handles, Access!Services, Services
<1> QED
  BY <1>2, <1>3, <1>4, <1>5 DEF Init, Access!Init

\* What changes neither handles, call, answer nor services is no step of the promise.
LEMMA AccessStutter ==
  ASSUME UNCHANGED <<conf, call, answer, guest, gone, content>>
  PROVE  UNCHANGED Access!avars
  BY ConfigurationKept DEF Access!avars, Requested, LastTold

LEMMA AccessNow ==
  ASSUME AccessInv, Now, conf.clock
  PROVE  Access!ReadClock
<1>1. UNCHANGED <<Offered, Attached>>
  BY ConfigurationKept DEF Now
<1>2. call = NoCall /\ UNCHANGED <<call, guest, gone, content>>
  BY DEF Now, Idle
<1>3. Requested = Access!NoRequest /\ UNCHANGED Requested
  BY <1>2, RequestedCall DEF AccessInv, IInv, Requested
<1>4. LastTold' = [handle |-> None, op |-> "now", code |-> "ok", value |-> None]
  BY DEF Now, Answered, LastTold
<1> QED
  BY <1>1, <1>2, <1>3, <1>4 DEF Access!ReadClock, Access!Told

\* open hands out a slot's authority at an index no handle leads to, or declines
\* a hole, or has no index left (host.rs:619-624, 677-682).
LEMMA AccessOpen ==
  ASSUME AccessInv, NEW s \in Services, NEW slot \in Slots, Open(s, slot)
  PROVE  Access!Decline(s, slot) \/ \E h \in Handles : Access!Acquire(h, slot)
<1> USE DEF AccessInv, IInv
<1>1. UNCHANGED <<Offered, Attached>>
  BY ConfigurationKept DEF Open
<1>2. call = NoCall /\ UNCHANGED <<call, gone, content>>
  BY DEF Open, Idle
<1>3. Requested = Access!NoRequest /\ UNCHANGED Requested
  BY <1>2, RequestedCall DEF Requested
<1>4. CASE /\ Grant(s, slot) = None \/ Free = {}
           /\ answer' = [handle |-> None, op |-> "open", owned |-> TRUE, code |-> "none", value |-> None]
           /\ UNCHANGED <<table, guest>>
  <2>1. LastTold' = [handle |-> None, op |-> "open", code |-> "none", value |-> None]
    BY <1>4 DEF LastTold
  <2>2. \/ Offered[s][slot] = None
        \/ \A r \in Reps : \E h \in Handles : h.rep = r /\ guest[h] # None
    BY <1>4, OfferedSlot DEF Free, OwnerInv
  <2>3. \/ Offered[s][slot] = None
        \/ \A r \in Reps : \E h \in Access!Handles : h.rep = r /\ guest[h] # None
    BY <2>2 DEF Access!Handles, Handles, Access!Services, Services
  <2>4. Access!Decline(s, slot)
    BY <1>1, <1>2, <1>3, <1>4, <2>1, <2>3 DEF Access!Decline, Access!Told
  <2> QED
    BY <2>4
<1>5. ASSUME Grant(s, slot) # None, NEW r \in Free,
             guest' = [guest EXCEPT ![[service |-> s, rep |-> r]] = slot],
             answer' = [handle |-> [service |-> s, rep |-> r], op |-> "open", owned |-> TRUE,
                        code |-> "some", value |-> None]
      PROVE  \E h \in Handles : Access!Acquire(h, slot)
  <2> DEFINE h == [service |-> s, rep |-> r]
  <2>1. h \in Handles /\ h.service = s /\ h.rep = r /\ table[h.rep] = None
    BY DEF Handles, Free
  <2>2. guest[h] = None
    BY <2>1, HeldResolves
  <2>3. Offered[h.service][slot] # None
    BY <1>5, <2>1, OfferedSlot
  <2>4. LastTold' = [handle |-> h, op |-> "open", code |-> "some", value |-> None]
    BY <1>5 DEF LastTold
  <2>5. Access!Acquire(h, slot)
    BY <1>1, <1>2, <1>3, <1>5, <2>2, <2>3, <2>4 DEF Access!Acquire, Access!Told
  <2> QED
    BY <2>1, <2>5
<1> QED
  BY <1>4, <1>5 DEF Open, Answered

LEMMA AccessDrop ==
  ASSUME AccessInv, NEW h \in Handles, Drop(h)
  PROVE  Access!Release(h)
<1>1. UNCHANGED <<Offered, Attached>>
  BY ConfigurationKept DEF Drop
<1>2. call = NoCall /\ UNCHANGED <<call, answer, gone, content>>
  BY DEF Drop, Idle
<1>3. Requested = Access!NoRequest /\ UNCHANGED <<Requested, LastTold>>
  BY <1>2, RequestedCall DEF AccessInv, IInv, Requested, LastTold
<1> QED
  BY <1>1, <1>2, <1>3 DEF Drop, Access!Release

\* A held handle always resolves, so a call is refused only for its argument or
\* for want of a backend, and else becomes a request (host.rs:558-611, 627-669).
LEMMA AccessBeginCall ==
  ASSUME AccessInv, NEW h \in Handles, NEW op \in Operations, NEW owned \in BOOLEAN,
         NEW arg \in Args(op), BeginCall(h, op, arg, owned)
  PROVE  op \in Ops(h.service) /\ (Access!Reject(h, op, arg) \/ Access!Request(h, op, arg))
<1> USE DEF AccessInv, IInv
<1>1. UNCHANGED <<Offered, Attached>>
  BY ConfigurationKept DEF BeginCall
<1>2. call = NoCall /\ op \in Ops(h.service) /\ UNCHANGED <<guest, gone, content>>
  BY DEF BeginCall, Idle
<1>3. Requested = Access!NoRequest
  BY <1>2, RequestedCall
<1>4. owned /\ guest[h] # None
  BY DEF BeginCall, OwnedInv
<1>5. Lookup(h) # None
  BY <1>4, HeldResolves
<1>6. Access!WellFormed(arg) <=> WellFormed(arg)
  BY DEF Access!WellFormed, WellFormed
<1>7. h.service \in Attached <=> conf.backend[h.service] # "none"
  BY DEF Attached, Handles
<1>8. ASSUME NEW code, UNCHANGED call,
             answer' = [handle |-> h, op |-> op, owned |-> owned, code |-> code, value |-> None],
             \/ ~WellFormed(arg) /\ code = "invalid"
             \/ WellFormed(arg) /\ conf.backend[h.service] = "none" /\ code = "access"
      PROVE  Access!Reject(h, op, arg)
  <2>1. UNCHANGED Requested
    BY <1>8 DEF Requested
  <2>2. LastTold' = [handle |-> h, op |-> op, code |-> code, value |-> None]
    BY <1>8 DEF LastTold
  <2> QED
    BY <1>1, <1>2, <1>3, <1>4, <1>6, <1>7, <1>8, <2>1, <2>2 DEF Access!Reject, Access!Told
<1>9. ASSUME WellFormed(arg), conf.backend[h.service] # "none", UNCHANGED answer,
             call' = [handle |-> h, op |-> op, arg |-> arg, owned |-> owned,
                      cap |-> Forward(h.service, Lookup(h)), since |-> gone,
                      verdict |-> "pending", value |-> None]
      PROVE  Access!Request(h, op, arg)
  <2>1. call' # NoCall
    BY <1>9, NoneAssumption DEF NoCall
  <2>2. Requested' = [handle |-> h, op |-> op, arg |-> arg, status |-> "open", value |-> None]
    BY <1>9, <2>1 DEF Requested, Status
  <2>3. UNCHANGED LastTold
    BY <1>9 DEF LastTold
  <2> QED
    BY <1>1, <1>2, <1>3, <1>4, <1>6, <1>7, <1>9, <2>2, <2>3 DEF Access!Request
<1> QED
  BY <1>2, <1>5, <1>8, <1>9 DEF BeginCall, Answered

\* The service's decision is the instant of the operation: it is done, denied or
\* void from then on (host.rs:134-137).
LEMMA AccessServe ==
  ASSUME AccessInv, Serve
  PROVE  Access!Perform \/ Access!Deny \/ Access!Fail
<1> USE DEF AccessInv, IInv
<1>1. UNCHANGED <<Offered, Attached>>
  BY ConfigurationKept DEF Serve
<1>2. call # NoCall /\ call.verdict = "pending" /\ UNCHANGED <<answer, guest, gone>>
  BY DEF Serve, Pending
<1>3. UNCHANGED LastTold
  BY <1>2 DEF LastTold
<1>4. /\ Requested # Access!NoRequest /\ Requested.status = "open"
      /\ Requested.op = call.op /\ Requested.arg = call.arg
  BY <1>2, RequestedCall DEF Status
<1> DEFINE s == call.handle.service
           refusal == Refusal(call.cap, call.op)
<1>5. Access!Right(Requested) = call.cap
  BY <1>2, RightIsForwarded
<1>6. refusal = "none" <=> Access!Allowed(Access!Right(Requested), Requested.op, gone)
  BY <1>4, <1>5, RefusedIsDisallowed
<1>7. ASSUME NEW v, NEW x, call' = [call EXCEPT !.verdict = Received(s, v), !.value = x]
      PROVE  Access!Decide(Status(Received(s, v)), x)
  <2>1. Requested' = [Requested EXCEPT !.status = Status(Received(s, v)), !.value = x]
    BY <1>2, <1>7, RequestedDecided
  <2> QED
    BY <1>1, <1>2, <1>3, <2>1 DEF Access!Decide
<1>8. CASE /\ refusal # "none" /\ UNCHANGED content
           /\ call' = [call EXCEPT !.verdict = Received(s, refusal), !.value = None]
  <2>1. Access!Decide("denied", None)
    <3>1. Status(Received(s, refusal)) = "denied"
      BY <1>8, RefusalType, ReceivedStatus
    <3>2. Access!Decide(Status(Received(s, refusal)), None)
      BY <1>7, <1>8
    <3> QED
      BY <3>1, <3>2
  <2> QED
    BY <1>4, <1>6, <1>8, <2>1 DEF Access!Deny
<1>9. CASE /\ UNCHANGED content
           /\ call' = [call EXCEPT !.verdict = Received(s, "failed"), !.value = None]
  <2>1. Access!Decide("void", None)
    <3>1. Status(Received(s, "failed")) = "void"
      BY ReceivedStatus
    <3>2. Access!Decide(Status(Received(s, "failed")), None)
      BY <1>7, <1>9
    <3> QED
      BY <3>1, <3>2
  <2> QED
    BY <1>4, <1>9, <2>1 DEF Access!Fail
<1>10. CASE /\ refusal = "none" /\ call.arg # "forged" /\ call.op = "read" /\ UNCHANGED content
            /\ call' = [call EXCEPT !.verdict = Received(s, ReadStatus(content[call.cap.object])),
                                    !.value = content[call.cap.object]]
  <2> DEFINE x == content[call.cap.object]
  <2>1. Access!Decide("done", x)
    <3>1. Status(Received(s, ReadStatus(x))) = "done"
      BY ReceivedStatus
    <3>2. Access!Decide(Status(Received(s, ReadStatus(x))), x)
      BY <1>7, <1>10
    <3> QED
      BY <3>1, <3>2
  <2> QED
    BY <1>4, <1>5, <1>6, <1>10, <2>1 DEF Access!Perform
<1>11. CASE /\ refusal = "none" /\ call.arg # "forged" /\ call.op # "read"
            /\ content' = IF call.op = "write"
                          THEN [content EXCEPT ![call.cap.object] = call.arg] ELSE content
            /\ call' = [call EXCEPT !.verdict = Received(s, "ok"), !.value = None]
  <2>1. Access!Decide("done", None)
    <3>1. Status(Received(s, "ok")) = "done"
      BY ReceivedStatus
    <3>2. Access!Decide(Status(Received(s, "ok")), None)
      BY <1>7, <1>11
    <3> QED
      BY <3>1, <3>2
  <2> QED
    BY <1>4, <1>5, <1>6, <1>11, <2>1 DEF Access!Perform
<1>12. \/ /\ refusal # "none" /\ UNCHANGED content
          /\ call' = [call EXCEPT !.verdict = Received(s, refusal), !.value = None]
       \/ /\ UNCHANGED content
          /\ call' = [call EXCEPT !.verdict = Received(s, "failed"), !.value = None]
       \/ /\ refusal = "none" /\ call.arg # "forged" /\ call.op = "read" /\ UNCHANGED content
          /\ call' = [call EXCEPT !.verdict = Received(s, ReadStatus(content[call.cap.object])),
                                  !.value = content[call.cap.object]]
       \/ /\ refusal = "none" /\ call.arg # "forged" /\ call.op # "read"
          /\ content' = IF call.op = "write"
                        THEN [content EXCEPT ![call.cap.object] = call.arg] ELSE content
          /\ call' = [call EXCEPT !.verdict = Received(s, "ok"), !.value = None]
  BY DEF Serve
<1> QED
  BY <1>8, <1>9, <1>10, <1>11, <1>12

\* A transport that fails after the service answered takes the answer away.
LEMMA AccessTransportFails ==
  ASSUME AccessInv, TransportFails
  PROVE  Access!Fail \/ UNCHANGED Access!avars
<1> USE DEF AccessInv, IInv
<1>1. UNCHANGED <<Offered, Attached>>
  BY ConfigurationKept DEF TransportFails
<1>2. /\ call # NoCall /\ UNCHANGED <<answer, guest, gone, content>>
      /\ call' = [call EXCEPT !.verdict = "Channel", !.value = None]
  BY DEF TransportFails
<1>3. UNCHANGED LastTold
  BY <1>2 DEF LastTold
<1>4. Requested' = [Requested EXCEPT !.status = "void", !.value = None]
  <2>1. Status("Channel") = "void"
    BY DEF Status, Denials
  <2> QED
    BY <1>2, <2>1, RequestedDecided
<1>5. /\ Requested # Access!NoRequest
      /\ Requested.status = Status(call.verdict) /\ Requested.value = call.value
      /\ Requested = [handle |-> call.handle, op |-> call.op, arg |-> call.arg,
                      status |-> Status(call.verdict), value |-> call.value]
  BY <1>2, RequestedCall
<1>6. CASE Requested.status # "void"
  BY <1>1, <1>2, <1>3, <1>4, <1>5, <1>6 DEF Access!Fail, Access!Decide
<1>7. CASE Requested.status = "void"
  <2>1. Status(call.verdict) = "void" /\ call.value = None
    BY <1>2, <1>5, <1>7 DEF EmptyInv
  <2>2. UNCHANGED Requested
    BY <1>4, <1>5, <2>1
  <2> QED
    BY <1>1, <1>2, <1>3, <2>2 DEF Access!avars
<1> QED
  BY <1>6, <1>7

\* The code a guest is told says what became of its request (host.rs:558-611).
LEMMA AccessReply ==
  ASSUME AccessInv, Reply
  PROVE  Access!Respond
<1> USE DEF AccessInv, IInv
<1>1. UNCHANGED <<Offered, Attached>>
  BY ConfigurationKept DEF Reply
<1>2. /\ call # NoCall /\ call.verdict # "pending" /\ call' = NoCall
      /\ UNCHANGED <<guest, gone, content>>
  BY DEF Reply, Pending
<1>3. /\ Requested # Access!NoRequest /\ Requested.status = Status(call.verdict)
      /\ Requested.handle = call.handle /\ Requested.op = call.op /\ Requested.value = call.value
  BY <1>2, RequestedCall
<1>4. Requested' = Access!NoRequest
  BY <1>2 DEF Requested, NoCall, Access!NoRequest
<1>5. Status(call.verdict) # "open"
  BY <1>2 DEF Status
<1>6. LastTold' = [handle |-> call.handle, op |-> call.op, code |-> ToCode(call.verdict),
                   value |-> call.value]
  BY DEF Reply, Answered, LastTold
<1>7. /\ Status(call.verdict) \in {"done", "denied", "void"}
      /\ Status(call.verdict) = "done" => ToCode(call.verdict) = "ok"
      /\ Status(call.verdict) = "denied" => ToCode(call.verdict) = "access"
      /\ Status(call.verdict) = "void" => ToCode(call.verdict) = "invalid"
  BY <1>2 DEF Status, ToCode, Denials
<1> DEFINE told == CASE Requested.status = "done" -> "ok"
                     [] Requested.status = "denied" -> "access"
                     [] OTHER -> "invalid"
<1>8. told = ToCode(call.verdict)
  BY <1>3, <1>7
<1>9. Access!Told(Requested.handle, Requested.op, told, Requested.value)
  BY <1>3, <1>6, <1>8 DEF Access!Told
<1> QED
  BY <1>1, <1>2, <1>3, <1>4, <1>5, <1>9 DEF Access!Respond

LEMMA AccessWithdraw ==
  ASSUME NEW x \in Withdrawable, Withdraw(x)
  PROVE  Access!Withdraw(x) /\ x \in Badges \cup Access!Objects
<1>1. UNCHANGED <<Offered, Attached>>
  BY ConfigurationKept DEF Withdraw
<1>2. UNCHANGED <<Requested, LastTold>>
  BY DEF Withdraw, Requested, LastTold
<1> QED
  BY <1>1, <1>2, WithdrawableAssumption DEF Withdraw, Access!Withdraw, Access!Objects, Objects

------------------------------------------------------------------------------
(* The theorems *)

\* Each step keeps what the mapping rests on.
LEMMA AccessInvStep ==
  ASSUME HostKeepsStale = FALSE, AccessInv, [Next]_vars
  PROVE  AccessInv'
<1> USE DEF AccessInv
<1>1. IInv' /\ AuthorityInv'
  BY StepInv, AuthorityStep
<1>2. CASE UNCHANGED <<call, stale>>
  BY <1>1, <1>2 DEF OwnedInv, EmptyInv
<1>3. ASSUME call # NoCall, UNCHANGED stale, NEW v, NEW x,
             call' = [call EXCEPT !.verdict = v, !.value = x],
             Status(v) \in {"open", "void"} => x = None
      PROVE  AccessInv'
  <2>1. call \in Calls
    BY <1>3 DEF IInv, TypeOK
  <2>2. call'.owned = call.owned /\ call'.verdict = v /\ call'.value = x
    BY <1>3, <2>1 DEF Calls
  <2> QED
    BY <1>1, <1>3, <2>2 DEF OwnedInv, EmptyInv
<1>4. CASE Serve
  <2> DEFINE s == call.handle.service
  <2>1. call # NoCall /\ UNCHANGED stale
    BY <1>4 DEF Serve, Pending
  <2>2. ASSUME NEW v, call' = [call EXCEPT !.verdict = Received(s, v), !.value = None]
        PROVE  AccessInv'
    BY <1>3, <2>1, <2>2
  <2>3. CASE call' = [call EXCEPT !.verdict = Received(s, ReadStatus(content[call.cap.object])),
                                  !.value = content[call.cap.object]]
    BY <1>3, <2>1, <2>3, ReceivedStatus
  <2> QED
    BY <1>4, <2>2, <2>3 DEF Serve
<1>5. CASE TransportFails
  BY <1>3, <1>5 DEF TransportFails
<1>6. CASE Reply
  BY <1>1, <1>6 DEF Reply, OwnedInv, EmptyInv
<1>7. ASSUME NEW h \in Handles, NEW op, NEW arg, NEW owned \in BOOLEAN, BeginCall(h, op, arg, owned)
      PROVE  AccessInv'
  <2>1. CASE UNCHANGED call
    BY <1>2, <1>7, <2>1 DEF BeginCall
  <2>2. CASE call' = [handle |-> h, op |-> op, arg |-> arg, owned |-> owned,
                      cap |-> Forward(h.service, Lookup(h)), since |-> gone,
                      verdict |-> "pending", value |-> None]
    <3>1. owned /\ UNCHANGED stale
      BY <1>7 DEF BeginCall, OwnedInv
    <3> QED
      BY <1>1, <2>2, <3>1 DEF OwnedInv, EmptyInv
  <2> QED
    BY <1>7, <2>1, <2>2 DEF BeginCall
<1>8. CASE Instantiate \/ CallStub \/ Now \/ Rest \/ UNCHANGED vars
  BY <1>2, <1>8 DEF Instantiate, CallStub, Now, Rest, vars
<1>9. CASE \E s \in Services, slot \in Slots : Open(s, slot)
  BY <1>2, <1>9 DEF Open
<1>10. CASE \E h \in Handles : Drop(h)
  <2>1. UNCHANGED stale
    BY <1>10 DEF Drop
  <2>2. UNCHANGED call
    BY <1>10 DEF Drop
  <2> QED
    BY <1>2, <2>1, <2>2
<1>11. CASE \E x \in Withdrawable : Withdraw(x)
  BY <1>2, <1>11 DEF Withdraw
<1> QED
  BY <1>4, <1>5, <1>6, <1>7, <1>8, <1>9, <1>10, <1>11 DEF Next

\* Every step of the mapping is a step of the promise or changes nothing of it.
LEMMA AccessStep ==
  ASSUME AccessInv, [Next]_vars
  PROVE  [Access!Next]_(Access!avars)
<1>1. Access!Handles = Handles /\ Access!Services = Services
  BY DEF Access!Handles, Handles, Access!Services, Services
<1>2. CASE Instantiate \/ CallStub \/ Rest \/ UNCHANGED vars
  BY <1>2, AccessStutter DEF Instantiate, CallStub, Rest, vars
<1>3. CASE Now /\ conf.clock
  BY <1>3, AccessNow DEF Access!Next
<1>11. CASE Now /\ ~conf.clock
  BY <1>11, AccessStutter DEF Now
<1>4. CASE Serve
  BY <1>4, AccessServe DEF Access!Next
<1>5. CASE TransportFails
  BY <1>5, AccessTransportFails DEF Access!Next
<1>6. CASE Reply
  BY <1>6, AccessReply DEF Access!Next
<1>7. ASSUME NEW s \in Services, NEW slot \in Slots, Open(s, slot)
      PROVE  Access!Next
  BY <1>1, <1>7, AccessOpen DEF Access!Next
<1>8. ASSUME NEW h \in Handles, Drop(h)
      PROVE  Access!Next
  BY <1>1, <1>8, AccessDrop DEF Access!Next
<1>9. ASSUME NEW h \in Handles, NEW op \in Operations, NEW owned \in BOOLEAN,
             NEW arg \in Args(op), BeginCall(h, op, arg, owned)
      PROVE  Access!Next
  <2>1. Access!Args(op) = Args(op) /\ Access!Ops(h.service) = Ops(h.service)
    BY DEF Access!Args, Args, Access!Ops, Ops
  <2> QED
    BY <1>1, <1>9, <2>1, AccessBeginCall DEF Access!Next
<1>10. ASSUME NEW x \in Withdrawable, Withdraw(x)
       PROVE  Access!Next
  BY <1>10, AccessWithdraw DEF Access!Next
<1> QED
  BY <1>2, <1>3, <1>4, <1>5, <1>6, <1>7, <1>8, <1>9, <1>10, <1>11 DEF Next

\* Where the embedder keeps no copy of a dropped handle, the table, the link step,
\* the order of the checks, the transport and its status codes together implement
\* the promise: a handle is its slot, an operation takes effect at one instant at
\* which the grant allows it, and the answer says what happened (host.rs:557-694).
THEOREM Refinement ==
  ASSUME HostKeepsStale = FALSE
  PROVE  Spec => ImplementsAccess
<1>1. Init => AccessInv
  <2>1. Init => IInv
    BY InitInv
  <2>2. Init => AuthorityInv /\ OwnedInv /\ EmptyInv
    BY DEF Init, AuthorityInv, OwnedInv, EmptyInv
  <2> QED
    BY <2>1, <2>2 DEF AccessInv
<1>2. AccessInv /\ [Next]_vars => AccessInv'
  BY AccessInvStep
<1>3. Init => Access!Init
  BY AccessInit
<1>4. AccessInv /\ [Next]_vars => [Access!Next]_(Access!avars)
  BY AccessStep
<1> QED
  BY <1>1, <1>2, <1>3, <1>4, PTL DEF Spec, ImplementsAccess, Access!Spec

\* open answers none for a granted slot only when the guest's own handles fill the
\* table: nothing in it is anybody else's (host.rs:623, 681).
THEOREM OpenFailsHonestly == Spec => OpenFailsOnlyWhenFull
<1> DEFINE Honest ==
      \A s \in Services, slot \in Slots :
        Open(s, slot) /\ answer'.code = "none" /\ Grant(s, slot) # None =>
          \A r \in Reps : \E h \in Handles : h.rep = r /\ guest[h] # None
<1>1. IInv => Honest
  <2> SUFFICES ASSUME IInv, NEW s \in Services, NEW slot \in Slots,
                      Open(s, slot), answer'.code = "none", Grant(s, slot) # None
               PROVE  \A r \in Reps : \E h \in Handles : h.rep = r /\ guest[h] # None
    OBVIOUS
  <2>1. Free = {}
    <3>1. \A h : Answered(h, "open", TRUE, "some", None) => answer'.code = "some"
      BY DEF Answered
    <3> QED
      BY <3>1 DEF Open
  <2> QED
    BY <2>1 DEF Free, IInv, OwnerInv
<1>2. IInv /\ [Next]_vars => [Honest]_vars
  BY <1>1
<1> QED
  BY <1>2, Invariance, PTL DEF Spec, OpenFailsOnlyWhenFull

==============================================================================
