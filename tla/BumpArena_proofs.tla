--------------------------- MODULE BumpArena_proofs ---------------------------
(***************************************************************************)
(* The lock-free bump index for every number of threads, every program of  *)
(* theirs and every arena size.                                            *)
(***************************************************************************)
EXTENDS BumpArena, TLAPS

\* What calls return: an offset, what a thread put into TLS, or nothing.
Values == (0 .. PAGES) \cup {Null} \cup UNION {{Program[t][i].arg : i \in DOMAIN Program[t]} : t \in Threads}

\* Types, and one result per call that has returned.
Types ==
  /\ arenaNext \in 0 .. PAGES /\ tls \in Values
  /\ ip \in [Threads -> Nat \ {0}]
  /\ off \in [Threads -> (0 .. PAGES) \cup {Null}]
  /\ got \in [Threads -> Seq(Values)]
  /\ \A t \in Threads : Len(got[t]) = ip[t] - 1 /\ Len(got[t]) <= Len(Program[t])

\* ARENA_NEXT only grows, so an offset read from it is never ahead of it.
OffInv == \A t \in Threads : off[t] # Null => off[t] <= arenaNext

\* A call that was served was handed an offset.
ServedInv == \A t \in Threads : \A i \in Served(t) : got[t][i] \in 0 .. PAGES

\* PagesAccountedFor is inductive with these.
IInv == Types /\ OffInv /\ ServedInv /\ PagesAccountedFor

------------------------------------------------------------------------------

\* A block is a thread and the call of it that was served.
LEMMA BlocksAre ==
  \A b : b \in Blocks <=> \E t \in Threads : \E i \in Served(t) : b = <<t, i>>
  BY DEF Blocks

\* Sizes in pages.
LEMMA RoundedNat == \A size \in Nat : Rounded(size) \in Nat
  BY DEF Rounded, PAGE

\* Pages below an index that moves from a to b, and the pages it moves over.
LEMMA Extended ==
  ASSUME NEW a \in Nat, NEW b \in a .. PAGES
  PROVE  /\ (a .. b - 1) \cap (0 .. a - 1) = {}
         /\ (0 .. a - 1) \cup (a .. b - 1) = 0 .. b - 1
         /\ (a .. b - 1) \in SUBSET (0 .. PAGES - 1)
  BY PagesAssumption

\* The call a thread is in has an argument that makes pages.
LEMMA ArgNat ==
  ASSUME Types, NEW t \in Threads, Running(t, "mmap_new")
  PROVE  ip[t] \in DOMAIN Program[t] /\ Arg(t) \in Nat /\ Rounded(Arg(t)) \in Nat
<1>1. /\ ip[t] \in Nat \ {0} /\ ip[t] <= Len(Program[t]) /\ Program[t][ip[t]].op = "mmap_new"
      /\ Len(Program[t]) \in Nat /\ DOMAIN Program[t] = 1 .. Len(Program[t])
  BY ProgramAssumption DEF Types, Running
<1>2. ip[t] \in DOMAIN Program[t]
  BY <1>1
<1>3. Arg(t) \in Nat
  BY <1>1, <1>2, ProgramAssumption DEF Arg
<1> QED
  BY <1>2, <1>3, RoundedNat

\* A call that returns x is one more result of its thread, and nobody else's.
LEMMA ReturnAdds ==
  ASSUME Types, NEW t \in Threads, NEW x \in Values, Return(t, x), ip[t] <= Len(Program[t])
  PROVE  /\ ip' \in [Threads -> Nat \ {0}] /\ got' \in [Threads -> Seq(Values)]
         /\ \A u \in Threads : Len(got'[u]) = ip'[u] - 1 /\ Len(got'[u]) <= Len(Program[u])
         /\ \A u \in Threads : \A i \in DOMAIN got[u] : got'[u][i] = got[u][i]
         /\ \A u \in Threads : u # t => DOMAIN got'[u] = DOMAIN got[u]
         /\ DOMAIN got'[t] = DOMAIN got[t] \cup {ip[t]} /\ ip[t] \notin DOMAIN got[t]
         /\ got'[t][ip[t]] = x
<1>1. got[t] \in Seq(Values) /\ Len(got[t]) = ip[t] - 1 /\ ip[t] \in Nat \ {0}
  BY DEF Types
<1>2. /\ Append(got[t], x) \in Seq(Values) /\ Len(Append(got[t], x)) = ip[t]
      /\ \A i \in 1 .. ip[t] - 1 : Append(got[t], x)[i] = got[t][i]
      /\ Append(got[t], x)[ip[t]] = x
  BY <1>1
<1>3. /\ got'[t] = Append(got[t], x) /\ ip'[t] = ip[t] + 1
      /\ \A u \in Threads : u # t => got'[u] = got[u] /\ ip'[u] = ip[u]
  BY DEF Return, Types
<1>4. ip' \in [Threads -> Nat \ {0}] /\ got' \in [Threads -> Seq(Values)]
  BY <1>1, <1>2 DEF Return, Types
<1>5. Len(got'[t]) = ip'[t] - 1 /\ Len(got'[t]) <= Len(Program[t])
  BY <1>1, <1>2, <1>3
<1>6. DOMAIN got[t] = 1 .. ip[t] - 1 /\ DOMAIN got'[t] = 1 .. ip[t]
  BY <1>1, <1>2, <1>3
<1>7. DOMAIN got'[t] = DOMAIN got[t] \cup {ip[t]} /\ ip[t] \notin DOMAIN got[t]
  BY <1>1, <1>6
<1>8. \A u \in Threads : \A i \in DOMAIN got[u] : got'[u][i] = got[u][i]
  BY <1>2, <1>3, <1>6
<1> QED
  BY <1>2, <1>3, <1>4, <1>5, <1>7, <1>8 DEF Types

\* A call that hands out nothing leaves the blocks alone.
LEMMA NoNewBlock ==
  ASSUME IInv, NEW t \in Threads, NEW x \in Values, Return(t, x), ip[t] <= Len(Program[t]),
         x = Null \/ Program[t][ip[t]].op # "mmap_new"
  PROVE  /\ Blocks' = Blocks
         /\ \A u \in Threads : Served(u)' = Served(u) /\ \A i \in Served(u) : got'[u][i] = got[u][i]
<1>1. \A u \in Threads : \A i \in Served(u) : got'[u][i] = got[u][i]
  BY ReturnAdds DEF IInv, Served
<1>2. ASSUME NEW u \in Threads PROVE Served(u)' = Served(u)
  <2>1. ASSUME NEW i PROVE i \in Served(u)' <=> i \in Served(u)
    <3>1. CASE u = t /\ i = ip[t]
      <4>1. got'[t][i] = x /\ i \notin DOMAIN got[t]
        BY <3>1, ReturnAdds DEF IInv
      <4> QED
        BY <3>1, <4>1 DEF Served
    <3>2. CASE ~(u = t /\ i = ip[t])
      <4>1. i \in DOMAIN got'[u] <=> i \in DOMAIN got[u]
        BY <3>2, ReturnAdds DEF IInv
      <4>2. i \in DOMAIN got[u] => got'[u][i] = got[u][i]
        BY ReturnAdds DEF IInv
      <4> QED
        BY <4>1, <4>2 DEF Served
    <3> QED
      BY <3>1, <3>2
  <2> QED
    BY <2>1
<1>3. Blocks' = Blocks
  BY <1>2 DEF Blocks
<1> QED
  BY <1>1, <1>2, <1>3

\* The winner of the compare-and-swap is handed what it moved the index over.
LEMMA OneNewBlock ==
  ASSUME IInv, NEW t \in Threads, NEW n, n = ip[t], Swap(t)
  PROVE  /\ arenaNext \in Nat /\ arenaNext' \in arenaNext .. PAGES
         /\ Types'
         /\ Blocks' = Blocks \cup {<<t, n>>}
         /\ Block(t, n)' = arenaNext .. arenaNext' - 1
         /\ \A u \in Threads : \A i \in Served(u) : Block(u, i)' = Block(u, i)
         /\ \A u \in Threads : \A i \in Served(u)' : got'[u][i] \in 0 .. PAGES
<1> DEFINE x == off[t]
<1>1. Return(t, x) /\ off' = [off EXCEPT ![t] = Null] /\ UNCHANGED tls
  BY DEF Swap
<1>2. /\ x = arenaNext /\ x \in 0 .. PAGES /\ x \in Values /\ x # Null
  BY NullAssumption, PagesAssumption DEF IInv, Types, Swap, Values
<1>3. n \in DOMAIN Program[t] /\ Program[t][n].op = "mmap_new" /\ ip[t] <= Len(Program[t])
  BY ArgNat DEF IInv, Swap, Running
<1>4. Rounded(Program[t][n].arg) \in Nat /\ arenaNext' = arenaNext + Rounded(Program[t][n].arg)
  BY ArgNat, <1>2 DEF IInv, Swap, New, Arg
<1>5. arenaNext \in Nat /\ arenaNext' \in arenaNext .. PAGES
  <2>1. arenaNext' <= PAGES
    BY DEF Swap, New
  <2> QED
    BY <1>2, <1>4, <2>1, PagesAssumption
<1>6. Types'
  <2>1. arenaNext' \in 0 .. PAGES /\ tls' \in Values
    BY <1>1, <1>5, PagesAssumption DEF IInv, Types
  <2>2. off' \in [Threads -> (0 .. PAGES) \cup {Null}]
    BY <1>1 DEF IInv, Types
  <2> QED
    BY <1>1, <1>2, <1>3, <2>1, <2>2, ReturnAdds DEF IInv, Types
<1>7. \A u \in Threads : \A i \in Served(u) : got'[u][i] = got[u][i]
  BY <1>1, <1>2, <1>3, ReturnAdds DEF IInv, Served
<1>8. got'[t][n] = arenaNext
  BY <1>1, <1>2, <1>3, ReturnAdds DEF IInv
<1>9. ASSUME NEW u \in Threads, NEW i
      PROVE  i \in Served(u)' <=> i \in Served(u) \/ (u = t /\ i = n)
  BY <1>1, <1>2, <1>3, <1>8, ReturnAdds DEF IInv, Served
<1>10. Blocks' = Blocks \cup {<<t, n>>}
  <2>1. ASSUME NEW b
        PROVE  b \in Blocks' <=> \E u \in Threads : \E i \in Served(u)' : b = <<u, i>>
    BY DEF Blocks
  <2>2. ASSUME NEW b PROVE b \in Blocks' <=> b \in Blocks \/ b = <<t, n>>
    BY <1>9, <2>1, BlocksAre
  <2> QED
    BY <2>2
<1>11. Block(t, n)' = arenaNext .. arenaNext' - 1
  BY <1>4, <1>5, <1>8 DEF Block
<1>12. \A u \in Threads : \A i \in Served(u) : Block(u, i)' = Block(u, i)
  BY <1>7 DEF Block
<1>13. \A u \in Threads : \A i \in Served(u)' : got'[u][i] \in 0 .. PAGES
  BY <1>2, <1>7, <1>8, <1>9 DEF IInv, ServedInv
<1> QED
  BY <1>5, <1>6, <1>10, <1>11, <1>12, <1>13

------------------------------------------------------------------------------

\* Nothing is handed out initially.
LEMMA InitIInv == Init => IInv
<1> SUFFICES ASSUME Init PROVE IInv
  OBVIOUS
<1>1. Types
  BY PagesAssumption, ProgramAssumption DEF Init, Types, Values
<1>2. \A t \in Threads : Served(t) = {}
  BY DEF Init, Served
<1>3. Blocks = {}
  BY <1>2 DEF Blocks
<1> QED
  BY <1>1, <1>2, <1>3 DEF IInv, OffInv, ServedInv, PagesAccountedFor, Init

\* A step that hands out nothing and leaves ARENA_NEXT keeps the accounts.
LEMMA QuietStep ==
  ASSUME IInv, UNCHANGED arenaNext, Blocks' = Blocks,
         \A u \in Threads : Served(u)' = Served(u) /\ \A i \in Served(u) : got'[u][i] = got[u][i]
  PROVE  ServedInv' /\ PagesAccountedFor' /\ \A b \in Blocks : Block(b[1], b[2])' = Block(b[1], b[2])
<1>1. ServedInv'
  BY DEF IInv, ServedInv
<1>2. \A b \in Blocks : Block(b[1], b[2])' = Block(b[1], b[2])
  BY BlocksAre DEF Block
<1>3. PagesAccountedFor'
  BY <1>2 DEF IInv, PagesAccountedFor
<1> QED
  BY <1>1, <1>2, <1>3

\* The calls that end without a block.
LEMMA EmptyReturn ==
  ASSUME IInv, NEW t \in Threads, NEW x \in Values, Return(t, x), ip[t] <= Len(Program[t]),
         x = Null \/ Program[t][ip[t]].op # "mmap_new",
         UNCHANGED arenaNext, tls' \in Values, off' = off \/ off' = [off EXCEPT ![t] = Null]
  PROVE  IInv' /\ Blocks' = Blocks /\ \A b \in Blocks : Block(b[1], b[2])' = Block(b[1], b[2])
<1>1. Types'
  BY ReturnAdds DEF IInv, Types
<1>2. OffInv'
  BY DEF IInv, OffInv, Types
<1>3. /\ Blocks' = Blocks /\ ServedInv' /\ PagesAccountedFor'
      /\ \A b \in Blocks : Block(b[1], b[2])' = Block(b[1], b[2])
  BY NoNewBlock, QuietStep
<1> QED
  BY <1>1, <1>2, <1>3 DEF IInv

\* What a step does to the blocks: nothing, or one more, made of the pages the
\* index was moved over.
StepKeeps(t) ==
  \/ /\ Blocks' = Blocks /\ UNCHANGED arenaNext
     /\ \A b \in Blocks : Block(b[1], b[2])' = Block(b[1], b[2])
  \/ Swap(t)

\* Every step of a thread keeps the invariant.
LEMMA StepIInv ==
  ASSUME IInv, NEW t \in Threads,
         Load(t) \/ Exhausted(t) \/ Swap(t) \/ Retry(t) \/ TlsSet(t) \/ TlsGet(t)
  PROVE  IInv' /\ StepKeeps(t)
<1>1. CASE Load(t) \/ Retry(t)
  <2>1. UNCHANGED <<arenaNext, tls, ip, got>> /\ off' = [off EXCEPT ![t] = arenaNext]
    BY <1>1 DEF Load, Retry
  <2>2. Types' /\ OffInv'
    BY <2>1 DEF IInv, Types, OffInv
  <2>3. Blocks' = Blocks /\ \A u \in Threads : Served(u)' = Served(u)
    BY <2>1 DEF Blocks, Served
  <2> QED
    BY <2>1, <2>2, <2>3, QuietStep DEF IInv, StepKeeps
<1>2. CASE Exhausted(t)
  <2>1. Null \in Values /\ ip[t] <= Len(Program[t]) /\ tls' \in Values
    BY <1>2 DEF Exhausted, Running, Values, IInv, Types
  <2> QED
    BY <1>2, <2>1, EmptyReturn DEF Exhausted, StepKeeps
<1>3. CASE Swap(t)
  <2> PICK n : n = ip[t]
    OBVIOUS
  <2>1. /\ arenaNext \in Nat /\ arenaNext' \in arenaNext .. PAGES /\ Types'
        /\ Blocks' = Blocks \cup {<<t, n>>} /\ Block(t, n)' = arenaNext .. arenaNext' - 1
    BY <1>3, OneNewBlock
  <2>2. OffInv'
    <3> SUFFICES ASSUME NEW u \in Threads, off'[u] # Null PROVE off'[u] <= arenaNext'
      BY DEF OffInv
    <3>1. off'[u] = off[u] /\ off[u] \in 0 .. PAGES /\ off[u] <= arenaNext
      BY <1>3 DEF Swap, IInv, Types, OffInv
    <3> QED
      BY <2>1, <3>1, PagesAssumption
  <2>3. ServedInv'
    BY <1>3, OneNewBlock DEF ServedInv
  <2>4. UNION {Block(b[1], b[2]) : b \in Blocks} = 0 .. arenaNext - 1
    BY DEF IInv, PagesAccountedFor
  <2>5. ASSUME NEW b \in Blocks
        PROVE  Block(b[1], b[2])' = Block(b[1], b[2]) /\ Block(b[1], b[2]) \subseteq 0 .. arenaNext - 1
    BY <1>3, <2>4, OneNewBlock, BlocksAre
  <2>6. PagesAccountedFor'
    <3> DEFINE B(b) == Block(b[1], b[2])'
    <3>1. B(<<t, n>>) = arenaNext .. arenaNext' - 1
      BY <2>1
    <3>2. (arenaNext .. arenaNext' - 1) \cap (0 .. arenaNext - 1) = {}
      BY <2>1, Extended
    <3>3. (0 .. arenaNext - 1) \cup (arenaNext .. arenaNext' - 1) = 0 .. arenaNext' - 1
      BY <2>1, Extended
    <3>4. \A b, c \in Blocks' : b # c => B(b) \cap B(c) = {}
      <4>1. \A b \in Blocks : B(b) = Block(b[1], b[2]) /\ B(b) \subseteq 0 .. arenaNext - 1
        BY <2>5
      <4>2. \A b, c \in Blocks : b # c => Block(b[1], b[2]) \cap Block(c[1], c[2]) = {}
        BY DEF IInv, PagesAccountedFor
      <4> HIDE DEF B
      <4> QED
        BY <2>1, <3>1, <3>2, <4>1, <4>2
    <3>5. UNION {B(b) : b \in Blocks'} = 0 .. arenaNext' - 1
      <4>1. \A b \in Blocks : B(b) = Block(b[1], b[2])
        BY <2>5
      <4>2. UNION {B(b) : b \in Blocks} = 0 .. arenaNext - 1
        BY <2>4, <4>1
      <4> HIDE DEF B
      <4>3. UNION {B(b) : b \in Blocks'} = B(<<t, n>>) \cup UNION {B(b) : b \in Blocks}
        BY <2>1
      <4> QED
        BY <3>1, <3>3, <4>2, <4>3
    <3> QED
      BY <3>4, <3>5 DEF PagesAccountedFor
  <2> QED
    BY <1>3, <2>1, <2>2, <2>3, <2>6 DEF IInv, StepKeeps
<1>4. CASE TlsSet(t)
  <2>1. Null \in Values /\ ip[t] <= Len(Program[t]) /\ tls' \in Values /\ Program[t][ip[t]].op = "tls_set"
    BY <1>4, ProgramAssumption DEF TlsSet, Running, Arg, Values, IInv, Types
  <2> QED
    BY <1>4, <2>1, EmptyReturn DEF TlsSet, StepKeeps
<1>5. CASE TlsGet(t)
  <2>1. tls \in Values /\ ip[t] <= Len(Program[t]) /\ Program[t][ip[t]].op = "tls_get"
    BY <1>5 DEF TlsGet, Running, IInv, Types
  <2> QED
    BY <1>5, <2>1, EmptyReturn DEF TlsGet, StepKeeps
<1> QED
  BY <1>1, <1>2, <1>3, <1>4, <1>5

\* Every step keeps the invariant.
LEMMA NextIInv == IInv /\ [Next]_vars => IInv'
<1> SUFFICES ASSUME IInv, [Next]_vars PROVE IInv'
  OBVIOUS
<1>1. CASE UNCHANGED vars
  BY <1>1 DEF vars, IInv, Types, OffInv, ServedInv, PagesAccountedFor, Blocks, Block, Served
<1>2. CASE ~UNCHANGED vars
  BY <1>2, StepIInv DEF Next, Finished
<1> QED
  BY <1>1, <1>2

\* The invariant holds in every reachable state.
THEOREM Invariance == Spec => []IInv
  BY InitIInv, NextIInv, PTL DEF Spec

\* Every variable has its type, and ARENA_NEXT stays within the arena.
THEOREM TypeCorrect == Spec => []TypeOK
<1>1. IInv => TypeOK
  BY DEF IInv, Types, TypeOK
<1> QED
  BY <1>1, Invariance, PTL

\* Racing threads neither share nor lose pages (platform.rs:185-195).
THEOREM PagesAccounted == Spec => []PagesAccountedFor
<1>1. IInv => PagesAccountedFor
  BY DEF IInv
<1> QED
  BY <1>1, Invariance, PTL

\* A request fails only if it does not fit what is left at that moment, however old
\* the offset it was checked against (platform.rs:189).
THEOREM FailuresHonest == Spec => FailsOnlyWhenFull
<1>1. IInv /\ [Next]_vars => [\A t \in Threads : Exhausted(t) => arenaNext + Rounded(Arg(t)) > PAGES]_vars
  <2> SUFFICES ASSUME IInv, NEW t \in Threads, Exhausted(t)
               PROVE  arenaNext + Rounded(Arg(t)) > PAGES
    OBVIOUS
  <2>1. Rounded(Arg(t)) \in Nat
    BY ArgNat DEF Exhausted, IInv
  <2> QED
    BY <2>1, PagesAssumption DEF Exhausted, New, IInv, Types, OffInv
<1> QED
  BY <1>1, Invariance, PTL DEF Spec, FailsOnlyWhenFull

------------------------------------------------------------------------------

\* The racing bump index lends blocks as RegionPool does (platform.rs:159-200).
THEOREM Refinement == Spec => ImplementsPool
<1> DEFINE lent == {Block(b[1], b[2]) : b \in Blocks} \ {{}}
           spent == 0 .. arenaNext - 1
<1>1. Init => Pool!Init
  <2> SUFFICES ASSUME Init PROVE Pool!Init
    OBVIOUS
  <2>1. \A t \in Threads : Served(t) = {}
    BY DEF Init, Served
  <2>2. Blocks = {}
    BY <2>1 DEF Blocks
  <2> QED
    BY <2>2 DEF Init, Pool!Init
<1>2. IInv /\ [Next]_vars => [Pool!Next]_(Pool!pvars)
  <2> SUFFICES ASSUME IInv, [Next]_vars PROVE [Pool!Next]_(Pool!pvars)
    OBVIOUS
  <2>1. CASE UNCHANGED vars
    BY <2>1 DEF vars, Blocks, Block, Served, Pool!pvars
  <2>2. ASSUME NEW t \in Threads,
               Load(t) \/ Exhausted(t) \/ Swap(t) \/ Retry(t) \/ TlsSet(t) \/ TlsGet(t)
        PROVE  [Pool!Next]_(Pool!pvars)
    <3>1. CASE Blocks' = Blocks /\ UNCHANGED arenaNext
               /\ \A b \in Blocks : Block(b[1], b[2])' = Block(b[1], b[2])
      <4>1. lent' = lent /\ spent' = spent
        BY <3>1
      <4> QED
        BY <4>1 DEF Pool!pvars
    <3>2. CASE Swap(t)
      <4> PICK n : n = ip[t]
        OBVIOUS
      <4> DEFINE B == arenaNext .. arenaNext' - 1
      <4>1. /\ Blocks' = Blocks \cup {<<t, n>>} /\ Block(t, n)' = B
            /\ \A b \in Blocks : Block(b[1], b[2])' = Block(b[1], b[2])
        BY <3>2, OneNewBlock, BlocksAre
      <4>2. arenaNext \in Nat /\ arenaNext' \in arenaNext .. PAGES
        BY <3>2, OneNewBlock
      <4>3. spent' = spent \cup B /\ B \cap spent = {} /\ B \in SUBSET (0 .. PAGES - 1)
        BY <4>2, Extended
      <4>4. lent' = (lent \cup {B}) \ {{}}
        <5> DEFINE After(b) == Block(b[1], b[2])'
        <5>1. After(<<t, n>>) = B /\ {After(b) : b \in Blocks} = {Block(b[1], b[2]) : b \in Blocks}
          BY <4>1
        <5> HIDE DEF After
        <5>2. {After(b) : b \in Blocks'} = {After(b) : b \in Blocks} \cup {After(<<t, n>>)}
          BY <4>1
        <5> QED
          BY <5>1, <5>2 DEF After
      <4>5. CASE B = {}
        BY <4>3, <4>4, <4>5 DEF Pool!pvars
      <4>6. CASE B # {}
        <5>1. Pool!Lend(B)
          BY <4>3, <4>4, <4>6 DEF Pool!Lend
        <5> QED
          BY <4>3, <5>1 DEF Pool!Next
      <4> QED
        BY <4>5, <4>6
    <3> QED
      BY <2>2, <3>1, <3>2, StepIInv DEF StepKeeps
  <2> QED
    BY <2>1, <2>2 DEF Next, Finished
<1> QED
  BY <1>1, <1>2, Invariance, PTL DEF Spec, ImplementsPool, Pool!Spec
===============================================================================
