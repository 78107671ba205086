----------------------------- MODULE IpcBackends -----------------------------
(***************************************************************************)
(* The IPC backends of the host mapping (IpcKeystore and IpcFilesystem in  *)
(* src/src/host.rs): one call at a time over one Channel to a confined     *)
(* service.  A payload larger than the shared Frame goes out, and comes    *)
(* back, in chunks; each chunk is one blocking exchange, and between two   *)
(* of them the grant may be revoked or the transport may fail.  Payloads   *)
(* are sequences of chunk contents: what is told apart is where a chunk    *)
(* came from.                                                              *)
(***************************************************************************)
EXTENDS Naturals, Sequences

CONSTANTS
  Frames,    \* chunks of the largest payload (MAX_BLOCK_LEN for files)
  Versions,  \* what a chunk of the file may hold
  None

ASSUME FramesAssumption == Frames \in Nat \ {0}
ASSUME VersionsAssumption == None \notin Versions /\ Versions \cap {"in", "out"} = {}

Keystore == {"encrypt", "decrypt", "sign"}
Operations == Keystore \cup {"read", "write"}

Uniform(x, n) == [i \in 1 .. n |-> x]

\* A file holds one version throughout, in zero or more chunks.
Contents == {Uniform(v, n) : v \in Versions, n \in 0 .. Frames}

ASSUME NoneAssumption ==
  \A op \in Operations, data \in Contents, n \in 1 .. Frames :
    None # [op |-> op, data |-> data] /\ None # [op |-> op, data |-> data, chunks |-> n]

VARIABLES
  sound,     \* the service's replies have the lengths its interface states
  call,      \* operation, data, chunks of the request; or None
  exchange,  \* the chunk exchange in progress
  wire,      \* "request" sent, "reply" waiting, "failed", or "idle"
  status,    \* the status word of the reply
  coming,    \* the service's whole reply payload
  reply,     \* the reply chunks received so far
  given,     \* what the caller got with its last ok, or None
  code,      \* the error-code the guest was last told, "ok" for none
  live,      \* the grant has not been revoked
  content    \* the file

service == <<live, content>>
vars == <<sound, call, exchange, wire, status, coming, reply, given, code, service>>

Init ==
  /\ sound \in BOOLEAN
  /\ call = None /\ exchange = 0 /\ wire = "idle" /\ status = "OK"
  /\ coming = <<>> /\ reply = <<>> /\ given = None /\ code = "none"
  /\ live = TRUE /\ content \in Contents

------------------------------------------------------------------------------
(* The start of a backend method: the request is encoded whole, READ's is     *)
(* empty (one chunk), WRITE's is the data itself (at least one chunk).        *)

Begin(op, data, n) ==
  /\ call = None
  /\ op # "write" => data = <<>>
  /\ CASE op = "read"  -> n = 1
       [] op = "write" -> n = IF data = <<>> THEN 1 ELSE Len(data)
       [] OTHER        -> TRUE
  /\ call' = [op |-> op, data |-> data, chunks |-> n]
  /\ exchange' = 1 /\ wire' = "request"
  /\ coming' = <<>> /\ reply' = <<>> /\ given' = None
  /\ UNCHANGED <<sound, status, code, service>>

\* The reply a sound service makes: as long as the input of encrypt and decrypt,
\* one chunk for a signature, the file for a read, a bare header for a write.
SoundReply ==
  CASE call.op \in {"encrypt", "decrypt"} -> Uniform("out", call.chunks)
    [] call.op = "sign"  -> <<"out">>
    [] call.op = "read"  -> content
    [] call.op = "write" -> <<>>

\* Any other reply that still fits the buffer passed to Channel::call.
Replies ==
  IF sound \/ call.op \notin Keystore THEN {SoundReply}
  ELSE {Uniform("out", n) : n \in 0 .. Len(SoundReply)}

RequestDone == exchange >= call.chunks
LastExchange == RequestDone /\ exchange + 1 >= call.chunks + Len(coming)

------------------------------------------------------------------------------
(* External: the owning service and lantern_abi's Channel *)

\* The service checks the badge on every chunk; it acts on the request's last
\* one, where it may also fail (an AEAD tag that does not verify, a full store).
ServeChunk ==
  /\ wire = "request" /\ wire' = "reply"
  /\ \/ ~live /\ status' = "ACCESS" /\ UNCHANGED <<coming, content>>
     \/ live /\ exchange = call.chunks /\ status' = "other" /\ UNCHANGED <<coming, content>>
     \/ /\ live /\ status' = "OK"
        /\ IF exchange = call.chunks
           THEN /\ coming' \in Replies
                /\ content' = IF call.op = "write" THEN call.data ELSE content
           ELSE UNCHANGED <<coming, content>>
  /\ UNCHANGED <<sound, call, exchange, reply, given, code, live>>

\* Channel::call goes on to the next chunk of the request or of the reply.
NextChunk ==
  /\ wire = "reply" /\ status = "OK" /\ ~LastExchange
  /\ exchange' = exchange + 1 /\ wire' = "request"
  /\ reply' = IF RequestDone THEN Append(reply, coming[Len(reply) + 1]) ELSE reply
  /\ UNCHANGED <<sound, call, status, coming, given, code, service>>

Revoke == live' = FALSE /\ UNCHANGED <<sound, call, exchange, wire, status, coming, reply, given, code, content>>

------------------------------------------------------------------------------
(* The end of a backend method, and the code the mapping makes of it *)

Return(c, data) ==
  /\ code' = c /\ given' = data
  /\ call' = None /\ exchange' = 0 /\ wire' = "idle"
  /\ status' = "OK" /\ coming' = <<>> /\ reply' = <<>>
  /\ UNCHANGED <<sound, service>>

\* Mutant: a transport error starts the request again.
ChannelFailsRetrying ==
  /\ wire \in {"request", "reply"}
  /\ exchange' = 1 /\ wire' = "request" /\ coming' = <<>> /\ reply' = <<>>
  /\ UNCHANGED <<sound, call, status, given, code, service>>

\* Channel::call's own error, before or after the service served the chunk.
ChannelFails ==
  /\ wire \in {"request", "reply"} /\ wire' = "failed"
  /\ UNCHANGED <<sound, call, exchange, status, coming, reply, given, code, service>>

\* KeystoreError::Channel and StoreError::Channel fall into the "everything else" arm.
Failed == wire = "failed" /\ Return("invalid", None)

\* Mutant: the write's status is not looked at.
DeniedExceptWrites ==
  /\ wire = "reply" /\ status # "OK"
  /\ Return(IF call.op = "write" THEN "ok" ELSE IF status = "ACCESS" THEN "access" ELSE "invalid", None)

\* RemoteDenied(status), through to_error_code or to_fs_error_code.
Denied ==
  /\ wire = "reply" /\ status # "OK"
  /\ Return(IF status = "ACCESS" THEN "access" ELSE "invalid", None)

Received == IF coming = <<>> THEN reply ELSE Append(reply, coming[Len(coming)])

\* Mutant: copy_from_slice with no check of the length before it.
CompleteUnchecked ==
  /\ wire = "reply" /\ status = "OK" /\ LastExchange
  /\ IF call.op \in {"encrypt", "decrypt"} /\ Len(Received) # call.chunks
     THEN Return("panic", None)
     ELSE Return("ok", Received)

\* Mutant: only the part of the buffer the reply covers is overwritten.
CompleteInPart ==
  /\ wire = "reply" /\ status = "OK" /\ LastExchange
  /\ Return("ok", IF call.op \in {"encrypt", "decrypt"}
                  THEN [i \in 1 .. call.chunks |-> IF i <= Len(Received) THEN Received[i] ELSE "in"]
                  ELSE Received)

\* The whole reply is there.  encrypt and decrypt replace the caller's buffer
\* only if it has the buffer's length; sign and read return what came.
Complete ==
  /\ wire = "reply" /\ status = "OK" /\ LastExchange
  /\ IF call.op \in {"encrypt", "decrypt"} /\ Len(Received) # call.chunks
     THEN /\ wire' = "failed"
          /\ UNCHANGED <<sound, call, exchange, status, coming, reply, given, code, service>>
     ELSE Return("ok", Received)

Next ==
  \/ \E op \in Operations, data \in Contents, n \in 1 .. Frames : Begin(op, data, n)
  \/ ServeChunk \/ NextChunk \/ Revoke
  \/ ChannelFails \/ Failed \/ Denied \/ Complete

Spec == Init /\ [][Next]_vars

\* The service is scheduled, and so is the caller once an answer is there.
FairSpec == Spec /\ WF_vars(ServeChunk) /\ WF_vars(NextChunk \/ Failed \/ Denied \/ Complete)

------------------------------------------------------------------------------
(* Properties *)

\* Every variable has its type; the guest is never told anything but an error-code.
TypeOK ==
  /\ sound \in BOOLEAN /\ live \in BOOLEAN /\ content \in Contents
  /\ call = None \/ (call.op \in Operations /\ call.data \in Contents /\ call.chunks \in 1 .. Frames)
  /\ exchange \in 0 .. 2 * Frames /\ wire \in {"idle", "request", "reply", "failed"}
  /\ status \in {"OK", "ACCESS", "other"}
  /\ code \in {"none", "ok", "access", "invalid"}
  /\ Len(reply) <= Frames /\ Len(coming) <= Frames

\* What a caller gets with an ok came from the service, whole: no chunk of its own
\* input and none missing, although the transport and the grant may end between any
\* two chunks (host.rs:264-275, 292-302, 418-425).  For sign the length is the
\* service's word (host.rs:314).
ReplyIsWhole ==
  [][code' = "ok" /\ call # None /\ call' = None =>
       \/ call.op = "sign" /\ ~sound
       \/ given' = SoundReply]_vars

\* The call is over at the last exchange the service answered OK.
Outcome ==
  IF wire = "failed" \/ (wire = "reply" /\ status = "other") THEN "void"
  ELSE IF wire = "reply" /\ status = "ACCESS" THEN "denied"
  ELSE IF wire = "reply" /\ LastExchange THEN "done"
  ELSE "open"

Contract == INSTANCE ServiceCall WITH
  request <- IF call = None THEN None ELSE [op |-> call.op, data |-> call.data],
  outcome <- Outcome,
  answer <- code

\* A chunked call is one atomic operation to the host mapping: no effect by halves,
\* none without authority, no ok without it (host.rs:250-316, 417-435).
ImplementsServiceCall == Contract!Spec

\* Every backend call returns (host.rs:250-435): no retry, no wait without an answer.
CallReturns == call # None ~> call = None
==============================================================================
