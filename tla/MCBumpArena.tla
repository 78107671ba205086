----------------------------- MODULE MCBumpArena -----------------------------
(***************************************************************************)
(* The probe's three host tests as threads: the arena test, the TLS test   *)
(* and the Pulley run, whose shim calls are Wasmtime's (a code mapping, an *)
(* activation published in TLS, a linear memory).                          *)
(***************************************************************************)
EXTENDS BumpArena

CONSTANTS arena, roundtrip, pulley

LOCAL mmap(size) == [op |-> "mmap_new", arg |-> size]
LOCAL set(p) == [op |-> "tls_set", arg |-> p]
LOCAL get == [op |-> "tls_get", arg |-> Null]

MCProgram == [t \in Threads |->
  CASE t = arena     -> <<mmap(PAGE), mmap(1), mmap(2 * PAGES * PAGE)>>
    [] t = roundtrip -> <<set("0xdead_beef"), get, set(Null)>>
    [] t = pulley    -> <<mmap(2 * PAGE), set("activation"), get, set(Null), mmap(PAGE + 1)>>]

\* Three allocating threads on an arena too small for all of them.
MCContended == [t \in Threads |-> <<mmap(PAGE), set(t), mmap(PAGE + 1), get>>]
==============================================================================
