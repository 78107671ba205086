-------------------------- MODULE IpcBackends_proofs --------------------------
(***************************************************************************)
(* The chunked backends for every payload size: what a caller gets is      *)
(* whole, and a call is the one atomic operation the mapping takes it for. *)
(***************************************************************************)
EXTENDS IpcBackends, SequenceTheorems, TLAPS

Calls == [op : Operations, data : Contents, chunks : 1 .. Frames]

\* What payloads are made of.
Chunks == Versions \cup {"in", "out"}

Types ==
  /\ sound \in BOOLEAN /\ live \in BOOLEAN /\ content \in Contents
  /\ wire \in {"idle", "request", "reply", "failed"}
  /\ status \in {"OK", "ACCESS", "other"}
  /\ code \in {"none", "ok", "access", "invalid"}

\* Where the exchange is: never past the last chunk of the reply.
CallInv ==
  IF wire = "idle"
  THEN call = None /\ exchange = 0 /\ coming = <<>> /\ reply = <<>>
  ELSE /\ call \in Calls /\ exchange \in Nat \ {0}
       /\ exchange <= call.chunks \/ exchange < call.chunks + Len(coming)

\* The service has answered the last chunk of the request.
Answered == exchange > call.chunks \/ (exchange = call.chunks /\ wire = "reply" /\ status = "OK")

\* What is coming is a reply the service may make, and arrives chunk by chunk, in
\* order, after the request.
ReplyInv ==
  wire # "idle" =>
    /\ coming \in Replies \/ (coming = <<>> /\ (wire = "failed" \/ ~Answered))
    /\ exchange < call.chunks => coming = <<>>
    /\ reply \in Seq(Chunks)
    /\ Len(reply) = IF exchange <= call.chunks THEN 0 ELSE exchange - call.chunks
    /\ \A i \in 1 .. Len(reply) : reply[i] = coming[i]

IInv == Types /\ CallInv /\ ReplyInv

------------------------------------------------------------------------------

\* A uniform sequence is one of n equal chunks.
LEMMA UniformSeq ==
  ASSUME NEW x \in Chunks, NEW n \in Nat
  PROVE  Uniform(x, n) \in Seq(Chunks) /\ Len(Uniform(x, n)) = n
  BY DEF Uniform

\* Contents are sequences of at most Frames chunks.
LEMMA ContentsSeq == \A s \in Contents : s \in Seq(Chunks) /\ Len(s) \in 0 .. Frames
  BY UniformSeq, FramesAssumption DEF Contents, Chunks

\* No call in progress is taken for none.
LEMMA CallIsSome ==
  ASSUME call \in Calls
  PROVE  /\ call # None /\ None # [op |-> call.op, data |-> call.data]
         /\ call.op \in Operations /\ call.data \in Contents /\ call.chunks \in 1 .. Frames
<1>1. call.op \in Operations /\ call.data \in Contents /\ call.chunks \in 1 .. Frames
  BY DEF Calls
<1>2. call = [op |-> call.op, data |-> call.data, chunks |-> call.chunks]
  BY DEF Calls
<1> QED
  BY <1>1, <1>2, NoneAssumption

\* What the service may answer: the reply it should make, or for the keystore
\* another of at most that length.
LEMMA ReplyShape ==
  ASSUME call \in Calls, content \in Contents, NEW r \in Replies
  PROVE  /\ r \in Seq(Chunks) /\ Len(r) \in 0 .. Frames
         /\ call.op = "write" => r = <<>>
         /\ call.op \in {"encrypt", "decrypt"} /\ Len(r) = call.chunks => r = SoundReply
         /\ call.op \in {"read", "write"} \/ sound => r = SoundReply
<1>1. call.op \in Operations /\ call.chunks \in 1 .. Frames
  BY DEF Calls
<1>2. SoundReply \in Seq(Chunks) /\ Len(SoundReply) \in 0 .. Frames
  <2>1. CASE call.op \in {"encrypt", "decrypt"}
    <3>1. SoundReply = Uniform("out", call.chunks)
      BY <2>1 DEF SoundReply
    <3>2. "out" \in Chunks /\ call.chunks \in Nat /\ call.chunks \in 0 .. Frames
      BY <1>1, FramesAssumption DEF Chunks
    <3> QED
      BY <3>1, <3>2, UniformSeq
  <2>2. CASE call.op = "sign"
    <3>1. SoundReply = <<"out">>
      BY <2>2 DEF SoundReply
    <3> QED
      BY <3>1, FramesAssumption DEF Chunks
  <2>3. CASE call.op = "read"
    BY <2>3, ContentsSeq DEF SoundReply
  <2>4. CASE call.op = "write"
    <3>1. SoundReply = <<>>
      BY <2>4 DEF SoundReply
    <3> QED
      BY <3>1, FramesAssumption
  <2> QED
    BY <1>1, <2>1, <2>2, <2>3, <2>4 DEF Operations, Keystore
<1>3. CASE r = SoundReply
  BY <1>2, <1>3 DEF SoundReply
<1>4. CASE r # SoundReply
  <2>1. ~sound /\ call.op \in Keystore /\ \E n \in 0 .. Len(SoundReply) : r = Uniform("out", n)
    BY <1>4 DEF Replies
  <2>2. PICK n \in 0 .. Len(SoundReply) : r = Uniform("out", n)
    BY <2>1
  <2>3. n \in 0 .. Frames /\ r \in Seq(Chunks) /\ Len(r) = n
    <3>1. "out" \in Chunks /\ n \in Nat /\ n \in 0 .. Frames
      BY <1>2, FramesAssumption DEF Chunks
    <3> QED
      BY <2>2, <3>1, UniformSeq
  <2>4. call.op \in {"encrypt", "decrypt"} => SoundReply = Uniform("out", call.chunks)
    BY DEF SoundReply
  <2> QED
    BY <1>4, <2>1, <2>2, <2>3, <2>4 DEF Keystore
<1> QED
  BY <1>3, <1>4

\* At the last exchange, what has been received is all that was coming.
LEMMA ReceivedAll ==
  ASSUME IInv, wire = "reply", status = "OK", LastExchange
  PROVE  Received = coming /\ coming \in Replies /\ call \in Calls
<1>1. call \in Calls /\ exchange \in Nat /\ call.chunks \in Nat
  BY DEF IInv, CallInv, Calls
<1>2. Answered /\ coming \in Replies
  BY <1>1 DEF IInv, ReplyInv, Answered, LastExchange, RequestDone
<1>3. coming \in Seq(Chunks) /\ Len(coming) \in Nat
  BY <1>1, <1>2, ReplyShape DEF IInv, Types
<1>4. CASE coming = <<>>
  <2>1. Len(reply) = 0 /\ reply \in Seq(Chunks)
    BY <1>1, <1>4 DEF IInv, CallInv, ReplyInv
  <2> QED
    BY <1>1, <1>2, <1>4, <2>1 DEF Received
<1>5. CASE coming # <<>>
  <2>1. Len(coming) > 0
    BY <1>3, <1>5
  <2>2. Len(reply) = Len(coming) - 1 /\ reply \in Seq(Chunks) /\ \A i \in 1 .. Len(reply) : reply[i] = coming[i]
    BY <1>1, <1>3, <2>1 DEF IInv, CallInv, ReplyInv, LastExchange, RequestDone
  <2>3. coming[Len(coming)] \in Chunks
    BY <1>3, <2>1
  <2>4. Received \in Seq(Chunks) /\ Len(Received) = Len(coming)
    BY <1>5, <1>3, <2>2, <2>3 DEF Received
  <2>5. \A i \in 1 .. Len(coming) : Received[i] = coming[i]
    BY <1>5, <1>3, <2>2, <2>3 DEF Received
  <2> QED
    BY <1>1, <1>2, <1>3, <2>4, <2>5, SeqEqual
<1> QED
  BY <1>4, <1>5

------------------------------------------------------------------------------

\* Before the first call.
LEMMA InitIInv == Init => IInv
  BY DEF Init, IInv, Types, CallInv, ReplyInv

\* A call that returns leaves an idle channel.
LEMMA ReturnKeeps ==
  ASSUME IInv, NEW c \in {"ok", "access", "invalid"}, NEW d, Return(c, d)
  PROVE  IInv'
  BY DEF Return, service, IInv, Types, CallInv, ReplyInv

\* Every step keeps the invariant.
LEMMA NextIInv == IInv /\ [Next]_vars => IInv'
<1> SUFFICES ASSUME IInv, [Next]_vars PROVE IInv'
  OBVIOUS
<1>1. ASSUME NEW op \in Operations, NEW data \in Contents, NEW n \in 1 .. Frames, Begin(op, data, n)
      PROVE  IInv'
  <2>1. call' = [op |-> op, data |-> data, chunks |-> n] /\ call' \in Calls /\ call'.chunks = n
    BY <1>1 DEF Begin, Calls
  <2>2. Types'
    BY <1>1 DEF Begin, service, IInv, Types
  <2>3. CallInv'
    BY <1>1, <2>1 DEF Begin, CallInv
  <2>4. ReplyInv'
    BY <1>1, <2>1 DEF Begin, ReplyInv, Answered
  <2> QED
    BY <2>2, <2>3, <2>4 DEF IInv
<1>2. CASE ServeChunk
  <2>1. call \in Calls /\ call.data \in Contents /\ call.chunks \in Nat /\ exchange \in Nat
    BY <1>2, CallIsSome DEF ServeChunk, IInv, CallInv
  <2>2. Types'
    BY <1>2, <2>1 DEF ServeChunk, IInv, Types
  <2>3. coming' = coming \/ (exchange = call.chunks /\ status' = "OK" /\ coming' \in Replies)
    BY <1>2 DEF ServeChunk
  <2>4. exchange < call.chunks \/ exchange = call.chunks => exchange <= call.chunks
    BY <2>1
  <2>5. CallInv'
    BY <1>2, <2>1, <2>3 DEF ServeChunk, IInv, CallInv
  <2>6. Replies' = Replies
    BY <1>2 DEF ServeChunk, Replies, SoundReply
  <2>7. exchange = call.chunks => coming = <<>> \/ coming \in Replies
    BY <1>2 DEF IInv, ReplyInv, ServeChunk
  <2>8. ReplyInv'
    BY <1>2, <2>1, <2>3, <2>6 DEF ServeChunk, IInv, CallInv, ReplyInv, Answered
  <2> QED
    BY <2>2, <2>5, <2>8 DEF IInv
<1>3. CASE NextChunk
  <2>1. call \in Calls /\ call.chunks \in Nat /\ exchange \in Nat \ {0}
    BY <1>3, CallIsSome DEF NextChunk, IInv, CallInv
  <2>2. Types'
    BY <1>3 DEF NextChunk, service, IInv, Types
  <2>3. Replies' = Replies
    BY <1>3 DEF NextChunk, service, Replies, SoundReply
  <2>4. CASE exchange < call.chunks
    <3>1. ~RequestDone /\ ~Answered /\ UNCHANGED <<reply, coming, call>> /\ exchange' = exchange + 1 /\ wire' = "request"
      BY <1>3, <2>1, <2>4 DEF NextChunk, RequestDone, Answered
    <3>2. CallInv'
      BY <2>1, <2>4, <3>1 DEF CallInv
    <3>3. ReplyInv'
      BY <1>3, <2>1, <2>3, <2>4, <3>1 DEF NextChunk, IInv, ReplyInv, Answered
    <3> QED
      BY <2>2, <3>2, <3>3 DEF IInv
  <2>5. CASE exchange >= call.chunks
    <3>1. RequestDone /\ Answered /\ coming \in Replies
      BY <1>3, <2>1, <2>5 DEF NextChunk, RequestDone, Answered, IInv, ReplyInv
    <3>2. coming \in Seq(Chunks) /\ Len(coming) \in Nat
      BY <2>1, <3>1, ReplyShape DEF IInv, Types
    <3>3. /\ reply' = Append(reply, coming[Len(reply) + 1]) /\ exchange' = exchange + 1 /\ wire' = "request"
          /\ UNCHANGED <<coming, call>> /\ exchange + 1 < call.chunks + Len(coming)
      BY <1>3, <2>1, <3>1, <3>2 DEF NextChunk, LastExchange
    <3>4. CallInv'
      BY <2>1, <3>2, <3>3 DEF CallInv
    <3>5. reply \in Seq(Chunks) /\ Len(reply) = exchange - call.chunks /\ \A i \in 1 .. Len(reply) : reply[i] = coming[i]
      BY <1>3, <2>1, <2>5 DEF NextChunk, IInv, ReplyInv
    <3>6. Len(reply) + 1 \in 1 .. Len(coming) /\ coming[Len(reply) + 1] \in Chunks
      BY <2>1, <2>5, <3>2, <3>3, <3>5
    <3>7. /\ reply' \in Seq(Chunks) /\ Len(reply') = Len(reply) + 1
          /\ \A i \in 1 .. Len(reply') : reply'[i] = coming[i]
      BY <3>3, <3>5, <3>6
    <3>8. /\ coming' \in Replies' /\ exchange' > call'.chunks
          /\ Len(reply') = exchange' - call'.chunks
      BY <2>1, <2>3, <2>5, <3>1, <3>3, <3>5, <3>7
    <3>9. ReplyInv'
      BY <2>1, <3>3, <3>7, <3>8 DEF ReplyInv
    <3> QED
      BY <2>2, <3>4, <3>9 DEF IInv
  <2> QED
    BY <2>1, <2>4, <2>5
<1>4. CASE Revoke
  <2>1. Replies' = Replies
    BY <1>4 DEF Revoke, Replies, SoundReply
  <2> QED
    BY <1>4, <2>1 DEF Revoke, IInv, Types, CallInv, ReplyInv, Answered
<1>5. CASE ChannelFails
  <2>1. Replies' = Replies
    BY <1>5 DEF ChannelFails, service, Replies, SoundReply
  <2> QED
    BY <1>5, <2>1 DEF ChannelFails, service, IInv, Types, CallInv, ReplyInv, Answered
<1>6. CASE Failed
  BY <1>6, ReturnKeeps DEF Failed
<1>7. CASE Denied
  BY <1>7, ReturnKeeps DEF Denied
<1>8. CASE Complete
  <2>1. CASE Return("ok", Received)
    BY <2>1, ReturnKeeps
  <2>2. CASE ~Return("ok", Received)
    <3>1. wire = "reply" /\ wire' = "failed"
          /\ UNCHANGED <<sound, call, exchange, status, coming, reply, given, code, live, content>>
      BY <1>8, <2>2 DEF Complete, service
    <3>2. Replies' = Replies
      BY <3>1 DEF Replies, SoundReply
    <3> QED
      BY <3>1, <3>2 DEF IInv, Types, CallInv, ReplyInv
  <2> QED
    BY <2>1, <2>2
<1>9. CASE UNCHANGED vars
  <2>1. Replies' = Replies
    BY <1>9 DEF vars, service, Replies, SoundReply
  <2> QED
    BY <1>9, <2>1 DEF vars, service, IInv, Types, CallInv, ReplyInv, Answered
<1> QED
  BY <1>1, <1>2, <1>3, <1>4, <1>5, <1>6, <1>7, <1>8, <1>9 DEF Next

\* The invariant holds in every reachable state.
THEOREM Invariance == Spec => []IInv
  BY InitIInv, NextIInv, PTL DEF Spec

\* Every variable has its type, and no exchange, request or reply outgrows the
\* largest payload (host.rs:250-435).
THEOREM TypeCorrect == Spec => []TypeOK
<1>1. IInv => TypeOK
  <2> SUFFICES ASSUME IInv PROVE TypeOK
    OBVIOUS
  <2>1. CASE wire = "idle"
    BY <2>1, FramesAssumption DEF IInv, Types, CallInv, TypeOK
  <2>2. CASE wire # "idle"
    <3>1. /\ call.op \in Operations /\ call.data \in Contents /\ call.chunks \in 1 .. Frames
          /\ call \in Calls /\ exchange \in Nat \ {0}
      BY <2>2, CallIsSome DEF IInv, CallInv
    <3>2. Len(coming) \in 0 .. Frames
      BY <2>2, <3>1, ReplyShape, FramesAssumption DEF IInv, ReplyInv, Types
    <3>3. exchange \in 0 .. 2 * Frames /\ Len(reply) <= Frames
      BY <2>2, <3>1, <3>2, FramesAssumption DEF IInv, CallInv, ReplyInv
    <3> QED
      BY <3>1, <3>2, <3>3 DEF IInv, Types, TypeOK
  <2> QED
    BY <2>1, <2>2
<1> QED
  BY <1>1, Invariance, PTL

\* What a caller gets with an ok came from the service, whole (host.rs:264-275,
\* 292-302, 418-425).
THEOREM RepliesWhole == Spec => ReplyIsWhole
<1>1. IInv /\ [Next]_vars =>
        [code' = "ok" /\ call # None /\ call' = None =>
           (call.op = "sign" /\ ~sound) \/ given' = SoundReply]_vars
  <2> SUFFICES ASSUME IInv, Next, code' = "ok", call # None, call' = None
               PROVE  (call.op = "sign" /\ ~sound) \/ given' = SoundReply
    OBVIOUS
  <2>1. Complete /\ given' = Received
    <3>1. ASSUME NEW op \in Operations, NEW data \in Contents, NEW n \in 1 .. Frames, Begin(op, data, n)
          PROVE  FALSE
      BY <3>1 DEF Begin
    <3> QED
      BY <3>1 DEF Next, ServeChunk, NextChunk, Revoke, ChannelFails, Failed, Denied, Complete, Return
  <2>2. wire = "reply" /\ status = "OK" /\ LastExchange
    BY <2>1 DEF Complete
  <2>3. call \in Calls /\ Received = coming /\ coming \in Replies
    BY <2>2, ReceivedAll
  <2>4. call.op \in {"encrypt", "decrypt"} => Len(coming) = call.chunks
    BY <2>1, <2>3 DEF Complete
  <2> QED
    BY <2>1, <2>3, <2>4, ReplyShape, CallIsSome DEF IInv, Types, Operations, Keystore
<1> QED
  BY <1>1, Invariance, PTL DEF Spec, ReplyIsWhole

------------------------------------------------------------------------------

\* A call is performed at one instant with the grant live, denied, or void: the
\* atomic operation HostMapping's Serve and Reply take it for (host.rs:250-435).
THEOREM Refinement == Spec => ImplementsServiceCall
<1> DEFINE request == IF call = None THEN None ELSE [op |-> call.op, data |-> call.data]
<1>1. Init => Contract!Init
  BY DEF Init, Outcome, Contract!Init
<1>2. IInv /\ [Next]_vars => [Contract!Next]_(Contract!svars)
  <2> SUFFICES ASSUME IInv, [Next]_vars PROVE [Contract!Next]_(Contract!svars)
    OBVIOUS
  <2>1. ASSUME NEW op \in Operations, NEW data \in Contents, NEW n \in 1 .. Frames, Begin(op, data, n)
        PROVE  Contract!Call(op, data)
    <3>1. call' # None /\ call'.op = op /\ call'.data = data
      BY <2>1, NoneAssumption DEF Begin
    <3>2. request = None /\ request' = [op |-> op, data |-> data]
      BY <2>1, <3>1 DEF Begin
    <3>3. Outcome' = "open" /\ UNCHANGED <<code, live, content>>
      BY <2>1 DEF Begin, service, Outcome
    <3> QED
      BY <3>2, <3>3 DEF Contract!Call
  <2>2. wire # "idle" => /\ call # None /\ request # None /\ request.op = call.op /\ request.data = call.data
                         /\ call \in Calls /\ call.chunks \in Nat /\ exchange \in Nat
    BY CallIsSome DEF IInv, CallInv
  <2>3. CASE ServeChunk
    <3>1. call' = call /\ wire = "request" /\ code' = code /\ live' = live
      BY <2>3 DEF ServeChunk
    <3>2. Outcome = "open"
      BY <3>1 DEF Outcome
    <3>3. UNCHANGED request /\ request # None /\ Outcome = "open"
      BY <2>2, <3>1, <3>2
    <3>4. CASE status' = "ACCESS"
      <4>1. Contract!Deny
        BY <2>3, <3>3, <3>4 DEF ServeChunk, Outcome, Contract!Deny
      <4> QED
        BY <4>1 DEF Contract!Next
    <3>5. CASE status' = "other"
      <4>1. Contract!Fail
        BY <2>3, <3>3, <3>5 DEF ServeChunk, Outcome, Contract!Fail
      <4> QED
        BY <4>1 DEF Contract!Next
    <3>6. CASE status' = "OK" /\ LastExchange'
      <4>1. live /\ Outcome' = "done"
        BY <2>3, <3>6 DEF ServeChunk, Outcome
      <4>2. content' = IF call.op = "write" THEN call.data ELSE content
        <5>1. CASE exchange = call.chunks
          BY <2>3, <3>6, <5>1 DEF ServeChunk
        <5>2. CASE exchange # call.chunks
          <6>1. exchange > call.chunks
            BY <2>2, <2>3, <3>6, <5>2 DEF ServeChunk, LastExchange, RequestDone
          <6>2. coming \in Replies /\ Len(coming) > 0
            BY <2>2, <2>3, <6>1 DEF ServeChunk, IInv, CallInv, ReplyInv, Answered
          <6>3. call.op # "write"
            BY <2>2, <2>3, <6>2, ReplyShape DEF ServeChunk, IInv, Types
          <6> QED
            BY <2>3, <3>6, <5>2, <6>3 DEF ServeChunk
        <5> QED
          BY <5>1, <5>2
      <4>3. Contract!Perform
        BY <2>2, <2>3, <3>3, <4>1, <4>2 DEF ServeChunk, Contract!Perform
      <4> QED
        BY <4>3 DEF Contract!Next
    <3>7. CASE status' = "OK" /\ ~LastExchange'
      <4>1. Outcome' = "open"
        BY <2>3, <3>7 DEF ServeChunk, Outcome
      <4>2. content' = content
        <5>1. CASE call.op # "write"
          BY <2>3, <3>7, <5>1 DEF ServeChunk
        <5>2. CASE call.op = "write" /\ exchange = call.chunks
          <6>1. coming' = <<>>
            BY <2>2, <2>3, <3>7, <5>2, ReplyShape DEF ServeChunk, IInv, Types
          <6>2. LastExchange'
            BY <2>2, <2>3, <5>2, <6>1 DEF ServeChunk, LastExchange, RequestDone
          <6> QED
            BY <3>7, <6>2
        <5>3. CASE exchange # call.chunks
          BY <2>3, <3>7, <5>3 DEF ServeChunk
        <5> QED
          BY <5>1, <5>2, <5>3
      <4> QED
        BY <2>3, <3>3, <4>1, <4>2 DEF ServeChunk, Contract!svars
    <3> QED
      BY <2>3, <3>4, <3>5, <3>6, <3>7 DEF ServeChunk
  <2>4. CASE NextChunk
    BY <2>4 DEF NextChunk, service, Outcome, Contract!svars
  <2>5. CASE Revoke
    <3>1. UNCHANGED <<request, Outcome, code, content>> /\ live' = FALSE
      BY <2>5 DEF Revoke, Outcome, LastExchange, RequestDone
    <3> QED
      BY <3>1 DEF Contract!Revoke, Contract!Next
  <2>6. CASE ChannelFails
    <3>1. wire \in {"request", "reply"} /\ wire' = "failed" /\ UNCHANGED <<call, code, live, content>>
      BY <2>6 DEF ChannelFails, service
    <3>2. UNCHANGED request /\ request # None /\ Outcome' = "void"
      BY <2>2, <3>1 DEF Outcome
    <3>3. CASE Outcome = "void"
      BY <3>1, <3>2, <3>3 DEF Contract!svars
    <3>4. CASE Outcome # "void"
      BY <3>1, <3>2, <3>4 DEF Contract!Fail, Contract!Next
    <3> QED
      BY <3>3, <3>4
  <2>7. CASE Failed
    <3>1. Outcome = "void" /\ Outcome' = "open" /\ call' = None /\ code' = "invalid"
      BY <2>7 DEF Failed, Return, Outcome
    <3>2. request # None /\ request' = None /\ UNCHANGED <<live, content>>
      BY <2>2, <2>7, <3>1 DEF Failed, Return, service
    <3> QED
      BY <3>1, <3>2 DEF Contract!Return, Contract!Next
  <2>8. CASE Denied
    <3>1. Outcome = IF status = "ACCESS" THEN "denied" ELSE "void"
      BY <2>8 DEF Denied, Outcome, IInv, Types
    <3> QED
      BY <2>2, <2>8, <3>1 DEF Denied, Return, service, Outcome, Contract!Return, Contract!Next
  <2>9. CASE Complete
    <3>1. Outcome = "done"
      BY <2>9 DEF Complete, Outcome
    <3>2. CASE Return("ok", Received)
      BY <2>2, <2>9, <3>1, <3>2 DEF Complete, Return, service, Outcome, Contract!Return, Contract!Next
    <3>3. CASE ~Return("ok", Received)
      <4>1. wire = "reply" /\ wire' = "failed" /\ UNCHANGED <<call, code, live, content>>
        BY <2>9, <3>3 DEF Complete, service
      <4>2. UNCHANGED request /\ request # None /\ Outcome' = "void"
        BY <2>2, <4>1 DEF Outcome
      <4>3. Contract!Fail
        BY <3>1, <4>1, <4>2 DEF Contract!Fail
      <4> QED
        BY <4>3 DEF Contract!Next
    <3> QED
      BY <3>2, <3>3
  <2>10. CASE UNCHANGED vars
    BY <2>10 DEF vars, service, Outcome, LastExchange, RequestDone, Contract!svars
  <2> QED
    BY <2>1, <2>3, <2>4, <2>5, <2>6, <2>7, <2>8, <2>9, <2>10 DEF Next, Contract!Next
<1> QED
  BY <1>1, <1>2, Invariance, PTL DEF Spec, ImplementsServiceCall, Contract!Spec
===============================================================================
