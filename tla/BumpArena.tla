------------------------------ MODULE BumpArena ------------------------------
(***************************************************************************)
(* The host fallback of the probe's platform shim                          *)
(* (src/riscv64-probe/src/platform.rs): a static arena bump-allocated with *)
(* a compare-and-swap loop, and one static TLS pointer.  On a host,        *)
(* cargo test runs this crate's tests as threads of one process, so the    *)
(* shim's statics are shared by all of them; each thread here makes the    *)
(* shim calls of one test, in order.                                       *)
(***************************************************************************)
EXTENDS Naturals, Sequences, FiniteSets

CONSTANTS
  PAGES,    \* ARENA_BYTES in pages
  Threads,  \* the test threads
  Program,  \* [Threads -> sequence of calls]
  Null      \* the null pointer, and the result of a failed wasmtime_mmap_new

PAGE == 4096

\* A call: wasmtime_mmap_new(arg), wasmtime_tls_set(arg) or wasmtime_tls_get().
CallOps == {"mmap_new", "tls_set", "tls_get"}

ASSUME PagesAssumption == PAGES \in Nat
ASSUME ProgramAssumption ==
  \A t \in Threads :
    /\ Len(Program[t]) \in Nat /\ DOMAIN Program[t] = 1 .. Len(Program[t])
    /\ \A i \in DOMAIN Program[t] :
         /\ Program[t][i].op \in CallOps
         /\ Program[t][i].op = "mmap_new" => Program[t][i].arg \in Nat
ASSUME NullAssumption == Null \notin Nat

VARIABLES
  arenaNext,  \* ARENA_NEXT, in pages
  tls,        \* TLS
  ip,         \* [Threads -> index of the call the thread is in]
  off,        \* [Threads -> the offset read from ARENA_NEXT, Null before the load]
  got         \* [Threads -> sequence of the results of its calls so far]

vars == <<arenaNext, tls, ip, off, got>>

\* (size + 4095) & !4095, in pages; sizes near usize::MAX are out of scope.
Rounded(size) == (size + PAGE - 1) \div PAGE

Init ==
  /\ arenaNext = 0
  /\ tls = Null
  /\ ip = [t \in Threads |-> 1]
  /\ off = [t \in Threads |-> Null]
  /\ got = [t \in Threads |-> <<>>]

Running(t, op) == ip[t] <= Len(Program[t]) /\ Program[t][ip[t]].op = op
Arg(t) == Program[t][ip[t]].arg
New(t) == off[t] + Rounded(Arg(t))

Return(t, x) ==
  /\ got' = [got EXCEPT ![t] = Append(@, x)]
  /\ ip' = [ip EXCEPT ![t] = @ + 1]

\* let mut off = ARENA_NEXT.load()
Load(t) ==
  /\ Running(t, "mmap_new") /\ off[t] = Null
  /\ off' = [off EXCEPT ![t] = arenaNext]
  /\ UNCHANGED <<arenaNext, tls, ip, got>>

\* Mutant: < for <= in the bound.
ExhaustedEarly(t) ==
  /\ Running(t, "mmap_new") /\ off[t] # Null
  /\ New(t) >= PAGES
  /\ Return(t, Null)
  /\ off' = [off EXCEPT ![t] = Null]
  /\ UNCHANGED <<arenaNext, tls>>

\* off.checked_add(size).filter(|v| v <= ARENA_BYTES)? leaves the loop.
Exhausted(t) ==
  /\ Running(t, "mmap_new") /\ off[t] # Null
  /\ New(t) > PAGES
  /\ Return(t, Null)
  /\ off' = [off EXCEPT ![t] = Null]
  /\ UNCHANGED <<arenaNext, tls>>

\* Mutant: a store in place of the compare-and-swap.
StoreBlindly(t) ==
  /\ Running(t, "mmap_new") /\ off[t] # Null
  /\ New(t) <= PAGES
  /\ arenaNext' = New(t)
  /\ Return(t, off[t])
  /\ off' = [off EXCEPT ![t] = Null]
  /\ UNCHANGED tls

\* Mutant: no bound at all.
SwapUnbounded(t) ==
  /\ Running(t, "mmap_new") /\ off[t] # Null
  /\ arenaNext = off[t]
  /\ arenaNext' = New(t)
  /\ Return(t, off[t])
  /\ off' = [off EXCEPT ![t] = Null]
  /\ UNCHANGED tls

\* compare_exchange_weak succeeds.
Swap(t) ==
  /\ Running(t, "mmap_new") /\ off[t] # Null
  /\ New(t) <= PAGES /\ arenaNext = off[t]
  /\ arenaNext' = New(t)
  /\ Return(t, off[t])
  /\ off' = [off EXCEPT ![t] = Null]
  /\ UNCHANGED tls

\* Mutant: a lost race tries again with the offset it had.
RetryStale(t) ==
  /\ Running(t, "mmap_new") /\ off[t] # Null
  /\ New(t) <= PAGES
  /\ UNCHANGED vars

\* compare_exchange_weak fails, spuriously or on a changed ARENA_NEXT.
Retry(t) ==
  /\ Running(t, "mmap_new") /\ off[t] # Null
  /\ New(t) <= PAGES
  /\ off' = [off EXCEPT ![t] = arenaNext]
  /\ UNCHANGED <<arenaNext, tls, ip, got>>

TlsSet(t) ==
  /\ Running(t, "tls_set")
  /\ tls' = Arg(t)
  /\ Return(t, Null)
  /\ UNCHANGED <<arenaNext, off>>

TlsGet(t) ==
  /\ Running(t, "tls_get")
  /\ Return(t, tls)
  /\ UNCHANGED <<arenaNext, tls, off>>

Finished == (\A t \in Threads : ip[t] > Len(Program[t])) /\ UNCHANGED vars

Next ==
  \/ Finished
  \/ \E t \in Threads :
       Load(t) \/ Exhausted(t) \/ Swap(t) \/ Retry(t) \/ TlsSet(t) \/ TlsGet(t)

Spec == Init /\ [][Next]_vars

\* Every thread is scheduled, and a compare-and-swap that keeps matching does
\* not fail spuriously for ever.
FairSpec ==
  Spec /\ \A t \in Threads :
    /\ WF_vars(Load(t)) /\ WF_vars(Exhausted(t)) /\ WF_vars(Swap(t))
    /\ WF_vars(Retry(t) /\ off' # off) /\ WF_vars(TlsSet(t)) /\ WF_vars(TlsGet(t))

------------------------------------------------------------------------------
(* Properties *)

\* Every variable has its type; ARENA_NEXT never passes the arena's end.
TypeOK ==
  /\ arenaNext \in 0 .. PAGES
  /\ ip \in [Threads -> Nat \ {0}]
  /\ off \in [Threads -> (0 .. PAGES) \cup {Null}]
  /\ \A t \in Threads : Len(got[t]) = ip[t] - 1

\* The calls of thread t that were handed a block, and the block's pages.
Served(t) == {i \in DOMAIN got[t] : Program[t][i].op = "mmap_new" /\ got[t][i] # Null}
Block(t, i) == got[t][i] .. got[t][i] + Rounded(Program[t][i].arg) - 1
Blocks == UNION {{<<t, i>> : i \in Served(t)} : t \in Threads}

\* No page is handed to two callers, and every page the bump index has passed was
\* handed to one: racing threads neither share nor lose pages (platform.rs:185-195).
PagesAccountedFor ==
  /\ \A b, c \in Blocks : b # c => Block(b[1], b[2]) \cap Block(c[1], c[2]) = {}
  /\ UNION {Block(b[1], b[2]) : b \in Blocks} = 0 .. arenaNext - 1

\* A request fails only if it did not fit what was left at that moment, however
\* old the offset it was checked against (platform.rs:189).
FailsOnlyWhenFull ==
  [][\A t \in Threads : Exhausted(t) => arenaNext + Rounded(Arg(t)) > PAGES]_vars

\* Every test's calls return (platform.rs:188-194): the loop ends for every thread.
AllReturn == <>(\A t \in Threads : ip[t] > Len(Program[t]))

Pool == INSTANCE RegionPool WITH
  Regions <- 0 .. PAGES - 1,
  lent <- {Block(b[1], b[2]) : b \in Blocks} \ {{}},
  spent <- 0 .. arenaNext - 1,
  dirty <- {}

\* The racing bump index promises what the Frame arena it stands in for does
\* (platform.rs:159-200): a block is lent whole, to one caller, and never again.
ImplementsPool == Pool!Spec

\* "assert_eq!(b as usize, a as usize + 4096)" (platform.rs:312): the two blocks
\* a thread asks for one after the other are adjacent.
TestBlocksAdjacent ==
  \A t \in Threads : {1, 2} \subseteq Served(t) => got[t][2] = got[t][1] + 1

\* "assert_eq!(wasmtime_tls_get(0), p)" (platform.rs:323): a thread reads back
\* the pointer it has just set.
TlsRoundTrips ==
  \A t \in Threads : \A i \in DOMAIN got[t] :
    i > 1 /\ Program[t][i].op = "tls_get" /\ Program[t][i - 1].op = "tls_set"
      => got[t][i] = Program[t][i - 1].arg
==============================================================================
