----------------------------- MODULE Arena_proofs -----------------------------
(***************************************************************************)
(* Safety of the confined arena for every number of regions, every set of  *)
(* granted Frames and every set of sizes.                                  *)
(***************************************************************************)
EXTENDS Arena, FiniteSetTheorems, TLAPS

\* An occupied slot records a block Wasmtime holds, below the bump index.
SlotInv ==
  \A i \in Regions : counts[i] # 0 =>
    /\ vaddrs[i] \in Regions
    /\ held[vaddrs[i]] = counts[i]
    /\ vaddrs[i] + counts[i] <= next

\* No two slots record one block.
SlotsDistinct ==
  \A i, j \in Regions : i # j /\ counts[i] # 0 /\ counts[j] # 0 => vaddrs[i] # vaddrs[j]

\* Every block Wasmtime holds is recorded in some slot.
HolderInv ==
  \A b \in Regions : held[b] # 0 => \E i \in Regions : counts[i] # 0 /\ vaddrs[i] = b

\* Nothing was stored in a region not yet claimed.
DirtyInv == dirty \subseteq 0 .. next - 1

IInv == TypeOK /\ SlotInv /\ SlotsDistinct /\ HolderInv /\ DirtyInv /\ BlocksDisjoint /\ MappedIsHeld

------------------------------------------------------------------------------
(* Sizes and slots *)

\* Every request claims at least one region.
LEMMA CountType ==
  ASSUME NEW size \in Nat
  PROVE  Count(size) \in Nat /\ Count(size) >= 1
  BY DEF Count, MEGAPAGE_BYTES

\* A held block lies below the bump index.
LEMMA HeldBelow ==
  ASSUME TypeOK, SlotInv, HolderInv, NEW b \in Regions, held[b] # 0
  PROVE  b + held[b] <= next /\ held[b] \in 1 .. REGIONS
<1>1. PICK i \in Regions : counts[i] # 0 /\ vaddrs[i] = b
  BY DEF HolderInv
<1>2. held[b] = counts[i] /\ b + counts[i] <= next
  BY <1>1 DEF SlotInv
<1> QED
  BY <1>1, <1>2, RegionsAssumption DEF TypeOK

\* While a region is unclaimed, a slot is free: as many slots as regions, and
\* every occupied slot records a base of its own (platform.rs:99-100, 139).
LEMMA FreeSlot ==
  ASSUME TypeOK, SlotInv, SlotsDistinct, next < REGIONS
  PROVE  \E i \in Regions : counts[i] = 0
<1> SUFFICES ASSUME \A i \in Regions : counts[i] # 0
             PROVE  FALSE
  OBVIOUS
<1>1. next \in Nat /\ REGIONS \in Nat
  BY RegionsAssumption DEF TypeOK
<1> DEFINE T == 0 .. next - 1
           f == [i \in Regions |-> vaddrs[i]]
<1>2. f \in [Regions -> T]
  <2> SUFFICES ASSUME NEW i \in Regions PROVE vaddrs[i] \in T
    OBVIOUS
  <2>1. vaddrs[i] \in Nat /\ counts[i] \in Nat \ {0} /\ vaddrs[i] + counts[i] <= next
    BY <1>1 DEF TypeOK, SlotInv, Regions
  <2> QED
    BY <1>1, <2>1
<1>3. IsFiniteSet(Regions) /\ Cardinality(Regions) = REGIONS
  <2>1. /\ IsFiniteSet(0 .. REGIONS - 1)
        /\ Cardinality(0 .. REGIONS - 1) = IF 0 > REGIONS - 1 THEN 0 ELSE REGIONS - 1 - 0 + 1
    BY <1>1, FS_Interval
  <2> QED
    BY <2>1, RegionsAssumption DEF Regions
<1>4. IsFiniteSet(T) /\ Cardinality(T) = next
  <2>1. /\ IsFiniteSet(0 .. next - 1)
        /\ Cardinality(0 .. next - 1) = IF 0 > next - 1 THEN 0 ELSE next - 1 - 0 + 1
    BY <1>1, FS_Interval
  <2> QED
    BY <1>1, <2>1
<1>5. \E i, j \in Regions : i # j /\ f[i] = f[j]
  <2> HIDE DEF f, T
  <2> QED
    BY <1>2, <1>3, <1>4, FS_PigeonHole
<1> QED
  BY <1>5 DEF SlotsDistinct

------------------------------------------------------------------------------
(* The inductive invariant *)

\* The arena starts empty (platform.rs:99-105).
THEOREM InitInv == Init => IInv
<1> SUFFICES ASSUME Init PROVE IInv
  OBVIOUS
<1>1. TypeOK
  <2>1. 0 \in 0 .. REGIONS
    BY RegionsAssumption
  <2> QED
    BY <2>1 DEF Init, TypeOK
<1>2. SlotInv /\ SlotsDistinct /\ HolderInv /\ BlocksDisjoint
  BY DEF Init, SlotInv, SlotsDistinct, HolderInv, BlocksDisjoint
<1>3. DirtyInv
  BY DEF Init, DirtyInv
<1>4. MappedIsHeld
  BY DEF Init, MappedIsHeld, HeldBlocks
<1> QED
  BY <1>1, <1>2, <1>3, <1>4 DEF IInv

\* A request the pool cannot satisfy, or a request whose mapping panics, lends
\* nothing (platform.rs:121-137).
LEMMA FailureInv ==
  ASSUME IInv, ~panicked, NEW n \in Nat, n >= 1, Exhausted(n) \/ MapPanics(n)
  PROVE  IInv'
<1>1. CASE Exhausted(n)
  <2>1. TypeOK'
    BY <1>1 DEF IInv, TypeOK, Exhausted
  <2>2. SlotInv' /\ SlotsDistinct' /\ HolderInv' /\ DirtyInv' /\ BlocksDisjoint'
    BY <1>1 DEF IInv, SlotInv, SlotsDistinct, HolderInv, DirtyInv, BlocksDisjoint, Block, Exhausted
  <2>3. MappedIsHeld'
    BY <1>1 DEF IInv, MappedIsHeld, HeldBlocks, Block, Exhausted
  <2> QED
    BY <2>1, <2>2, <2>3 DEF IInv
<1>2. CASE MapPanics(n)
  <2>1. next \in Nat /\ REGIONS \in Nat /\ next' = next + n /\ next' \in 0 .. REGIONS
    BY <1>2, RegionsAssumption DEF IInv, TypeOK, MapPanics
  <2>2. mapped' \in SUBSET Granted
    BY <1>2 DEF IInv, TypeOK, MapPanics
  <2>3. TypeOK'
    BY <1>2, <2>1, <2>2 DEF IInv, TypeOK, MapPanics
  <2>4. SlotInv'
    <3> SUFFICES ASSUME NEW i \in Regions, counts[i] # 0
                 PROVE  /\ vaddrs[i] \in Regions
                        /\ held[vaddrs[i]] = counts[i]
                        /\ vaddrs[i] + counts[i] <= next'
      BY <1>2 DEF SlotInv, MapPanics
    <3>1. vaddrs[i] \in Nat /\ counts[i] \in Nat
      BY RegionsAssumption DEF IInv, SlotInv, TypeOK, Regions
    <3> QED
      BY <3>1, <2>1 DEF IInv, SlotInv
  <2>5. SlotsDistinct' /\ HolderInv' /\ BlocksDisjoint'
    BY <1>2 DEF IInv, SlotsDistinct, HolderInv, BlocksDisjoint, Block, MapPanics
  <2>6. DirtyInv'
    BY <1>2, <2>1 DEF IInv, DirtyInv, MapPanics
  <2>7. MappedIsHeld'
    BY <1>2 DEF MappedIsHeld, MapPanics
  <2> QED
    BY <2>3, <2>4, <2>5, <2>6, <2>7 DEF IInv
<1> QED
  BY <1>1, <1>2

\* A block is claimed past every block held, and some slot is free to record it
\* (platform.rs:121-145).
LEMMA AllocatedStep ==
  ASSUME IInv, NEW n \in Nat, n >= 1, Allocated(n)
  PROVE  /\ next \in Regions /\ next \in Nat /\ n \in 1 .. REGIONS
         /\ next + n \in 0 .. REGIONS /\ Block(next, n) \subseteq Granted
         /\ held[next] = 0 /\ held' = [held EXCEPT ![next] = n]
         /\ ret' = next
         /\ \E slot \in Regions : /\ counts[slot] = 0
                                  /\ vaddrs' = [vaddrs EXCEPT ![slot] = next]
                                  /\ counts' = [counts EXCEPT ![slot] = n]
         /\ next' = next + n /\ mapped' = mapped \cup Block(next, n)
         /\ dirty' = dirty /\ panicked' = panicked
<1>1. next \in Nat /\ REGIONS \in Nat /\ next + n <= REGIONS
  BY RegionsAssumption DEF IInv, TypeOK, Allocated
<1>2. next < REGIONS /\ next \in Regions /\ n \in 1 .. REGIONS /\ next + n \in 0 .. REGIONS
  BY <1>1 DEF Regions
<1>3. \E slot \in Regions : counts[slot] = 0
  BY <1>2, FreeSlot DEF IInv
<1>4. held[next] = 0
  <2> SUFFICES ASSUME held[next] # 0 PROVE FALSE
    OBVIOUS
  <2>1. next + held[next] <= next /\ held[next] \in 1 .. REGIONS
    BY <1>2, HeldBelow DEF IInv
  <2> QED
    BY <2>1, <1>1
<1> QED
  BY <1>1, <1>2, <1>3, <1>4 DEF Allocated, FirstFree

\* The claim adds one block to those held.
LEMMA AllocatedBlocks ==
  ASSUME IInv, NEW n \in Nat, n >= 1, Allocated(n)
  PROVE  HeldBlocks' = HeldBlocks \cup {Block(next, n)}
<1>1. held[next] = 0 /\ held' = [held EXCEPT ![next] = n] /\ next \in Regions
  BY AllocatedStep
<1>2. {r \in Regions : held'[r] # 0} = {r \in Regions : held[r] # 0} \cup {next}
  BY <1>1 DEF IInv, TypeOK
<1>3. \A r \in Regions : held[r] # 0 => Block(r, held'[r]) = Block(r, held[r])
  BY <1>1 DEF IInv, TypeOK
<1>4. Block(next, held'[next]) = Block(next, n)
  BY <1>1 DEF IInv, TypeOK
<1>5. HeldBlocks' = {Block(b, held'[b]) : b \in {r \in Regions : held'[r] # 0}}
  BY DEF HeldBlocks, Block
<1> QED
  BY <1>2, <1>3, <1>4, <1>5 DEF HeldBlocks

\* A block just claimed joins the blocks held without touching another
\* (platform.rs:121-145).
LEMMA AllocatedInv ==
  ASSUME IInv, ~panicked, NEW n \in Nat, n >= 1, Allocated(n)
  PROVE  IInv'
<1>1. PICK slot \in Regions : /\ counts[slot] = 0
                              /\ vaddrs' = [vaddrs EXCEPT ![slot] = next]
                              /\ counts' = [counts EXCEPT ![slot] = n]
  BY AllocatedStep
<1>2. /\ next \in Regions /\ next \in Nat /\ n \in 1 .. REGIONS
      /\ next + n \in 0 .. REGIONS /\ Block(next, n) \subseteq Granted
      /\ held[next] = 0 /\ held' = [held EXCEPT ![next] = n] /\ ret' = next
      /\ next' = next + n /\ mapped' = mapped \cup Block(next, n)
      /\ dirty' = dirty /\ panicked' = panicked
  BY AllocatedStep
<1>3. REGIONS \in Nat
  BY RegionsAssumption
<1>4. TypeOK'
  <2>1. vaddrs' \in [Regions -> Regions \cup {Null}] /\ counts' \in [Regions -> 0 .. REGIONS]
    BY <1>1, <1>2, <1>3 DEF IInv, TypeOK
  <2>2. held' \in [Regions -> 0 .. REGIONS] /\ mapped' \in SUBSET Granted
    BY <1>2, <1>3 DEF IInv, TypeOK
  <2> QED
    BY <2>1, <2>2, <1>2 DEF IInv, TypeOK
<1>5. \A i \in Regions : counts[i] # 0 => /\ vaddrs[i] \in Nat /\ counts[i] \in Nat
                                          /\ vaddrs[i] # next /\ vaddrs[i] + counts[i] <= next
  BY <1>2, <1>3 DEF IInv, SlotInv, TypeOK, Regions
<1>6. SlotInv'
  <2> SUFFICES ASSUME NEW i \in Regions, counts'[i] # 0
               PROVE  /\ vaddrs'[i] \in Regions
                      /\ held'[vaddrs'[i]] = counts'[i]
                      /\ vaddrs'[i] + counts'[i] <= next'
    BY DEF SlotInv
  <2>1. CASE i = slot
    BY <2>1, <1>1, <1>2 DEF IInv, TypeOK
  <2>2. CASE i # slot
    <3>1. vaddrs'[i] = vaddrs[i] /\ counts'[i] = counts[i]
      BY <2>2, <1>1 DEF IInv, TypeOK
    <3>2. vaddrs[i] \in Regions /\ held[vaddrs[i]] = counts[i]
      BY <3>1 DEF IInv, SlotInv
    <3>3. held'[vaddrs[i]] = counts[i]
      BY <3>1, <3>2, <1>2, <1>5 DEF IInv, TypeOK
    <3>4. vaddrs[i] + counts[i] <= next + n
      BY <3>1, <1>2, <1>5
    <3> QED
      BY <3>1, <3>2, <3>3, <3>4, <1>2
  <2> QED
    BY <2>1, <2>2
<1>7. SlotsDistinct'
  BY <1>1, <1>5 DEF IInv, SlotsDistinct, TypeOK
<1>8. HolderInv'
  <2> SUFFICES ASSUME NEW b \in Regions, held'[b] # 0
               PROVE  \E i \in Regions : counts'[i] # 0 /\ vaddrs'[i] = b
    BY DEF HolderInv
  <2>1. CASE b = next
    BY <2>1, <1>1, <1>2 DEF IInv, TypeOK
  <2>2. CASE b # next
    <3>1. held[b] # 0
      BY <2>2, <1>2 DEF IInv, TypeOK
    <3>2. PICK i \in Regions : counts[i] # 0 /\ vaddrs[i] = b
      BY <3>1 DEF IInv, HolderInv
    <3> QED
      BY <3>2, <1>1 DEF IInv, TypeOK
  <2> QED
    BY <2>1, <2>2
<1>9. DirtyInv'
  BY <1>2 DEF IInv, DirtyInv
<1>10. BlocksDisjoint'
  <2> SUFFICES ASSUME NEW b \in Regions, NEW c \in Regions, b # c, held'[b] # 0, held'[c] # 0
               PROVE  Block(b, held'[b]) \cap Block(c, held'[c]) = {}
    BY DEF BlocksDisjoint, Block
  <2>1. \A r \in Regions : r # next => held'[r] = held[r]
    BY <1>2 DEF IInv, TypeOK
  <2>2. held'[next] = n
    BY <1>2 DEF IInv, TypeOK
  <2>3. \A r \in Regions : r # next /\ held'[r] # 0 => Block(r, held'[r]) \cap Block(next, n) = {}
    <3> SUFFICES ASSUME NEW r \in Regions, r # next, held[r] # 0
                 PROVE  Block(r, held[r]) \cap Block(next, n) = {}
      BY <2>1
    <3>1. r + held[r] <= next /\ held[r] \in 1 .. REGIONS /\ r \in Nat
      BY HeldBelow DEF IInv, Regions
    <3> QED
      BY <3>1, <1>2, <1>3 DEF Block
  <2>4. CASE b # next /\ c # next
    BY <2>1, <2>4 DEF IInv, BlocksDisjoint
  <2>5. CASE b = next \/ c = next
    BY <2>2, <2>3, <2>5
  <2> QED
    BY <2>4, <2>5
<1>11. MappedIsHeld'
  <2>1. ~panicked => /\ UNION HeldBlocks \subseteq mapped
                     /\ mapped \ UNION HeldBlocks \subseteq Stuck
    BY DEF IInv, MappedIsHeld
  <2>2. HeldBlocks' = HeldBlocks \cup {Block(next, n)}
    BY AllocatedBlocks
  <2>3. panicked' = panicked /\ mapped' = mapped \cup Block(next, n)
    BY <1>2
  <2>4. ~panicked => /\ UNION HeldBlocks' \subseteq mapped'
                     /\ mapped' \ UNION HeldBlocks' \subseteq Stuck
    BY <2>1, <2>2, <2>3
  <2> QED
    BY <2>3, <2>4 DEF MappedIsHeld
<1> QED
  BY <1>4, <1>6, <1>7, <1>8, <1>9, <1>10, <1>11 DEF IInv

\* Giving back a block no slot records changes nothing (platform.rs:147-162).
LEMMA MunmapMiss ==
  ASSUME IInv, NEW ptr \in Regions, munmap(ptr),
         \A slot \in Regions : counts[slot] = 0 \/ vaddrs[slot] # ptr
  PROVE  held[ptr] = 0 /\ UNCHANGED vars
<1>1. held[ptr] = 0
  BY DEF IInv, HolderInv
<1>2. held' = held
  BY <1>1 DEF munmap, IInv, TypeOK
<1> QED
  BY <1>1, <1>2 DEF munmap, vars

\* Giving back a block held unmaps exactly that block (platform.rs:147-162).
LEMMA MunmapHit ==
  ASSUME IInv, NEW ptr \in Regions, munmap(ptr), NEW i \in Regions,
         counts[i] # 0, vaddrs[i] = ptr
  PROVE  /\ held[ptr] = counts[i]
         /\ mapped' \in UnmapEach(Block(ptr, held[ptr]))
         /\ vaddrs' = [vaddrs EXCEPT ![i] = Null]
         /\ counts' = [counts EXCEPT ![i] = 0]
         /\ held' = [held EXCEPT ![ptr] = 0]
         /\ next' = next /\ dirty' = dirty /\ ret' = ret /\ panicked' = panicked
<1>1. held[ptr] = counts[i]
  BY DEF IInv, SlotInv
<1>2. \A slot \in Regions : counts[slot] # 0 /\ vaddrs[slot] = ptr => slot = i
  BY DEF IInv, SlotsDistinct
<1> QED
  BY <1>1, <1>2 DEF munmap

\* The regions of a set of blocks, one of which is apart from the others.
LEMMA WithoutBlock ==
  ASSUME NEW X, NEW Y, NEW B, X = Y \cup {B}, \A C \in Y : C \cap B = {}
  PROVE  UNION X = (UNION Y) \cup B /\ (UNION Y) \cap B = {}
<1>1. \A x : (\E C \in X : x \in C) <=> (\E C \in Y : x \in C) \/ x \in B
  OBVIOUS
<1> QED
  BY <1>1

\* Giving a block back removes it, and no other, from those held.
LEMMA MunmapBlocks ==
  ASSUME IInv, NEW ptr \in Regions, munmap(ptr), NEW i \in Regions,
         counts[i] # 0, vaddrs[i] = ptr
  PROVE  /\ HeldBlocks = HeldBlocks' \cup {Block(ptr, held[ptr])}
         /\ \A B \in HeldBlocks' : B \cap Block(ptr, held[ptr]) = {}
<1>1. held[ptr] = counts[i] /\ held' = [held EXCEPT ![ptr] = 0]
  BY MunmapHit
<1>2. \A b \in Regions : b # ptr => held'[b] = held[b]
  BY <1>1 DEF IInv, TypeOK
<1>3. held'[ptr] = 0
  BY <1>1 DEF IInv, TypeOK
<1>4. HeldBlocks' = {Block(b, held[b]) : b \in {r \in Regions : held[r] # 0 /\ r # ptr}}
  <2>1. {r \in Regions : held'[r] # 0} = {r \in Regions : held[r] # 0 /\ r # ptr}
    BY <1>2, <1>3
  <2>2. HeldBlocks' = {Block(b, held'[b]) : b \in {r \in Regions : held'[r] # 0}}
    BY DEF HeldBlocks, Block
  <2> QED
    BY <1>2, <2>1, <2>2
<1>5. HeldBlocks = HeldBlocks' \cup {Block(ptr, held[ptr])}
  BY <1>1, <1>4 DEF HeldBlocks
<1>6. \A B \in HeldBlocks' : B \cap Block(ptr, held[ptr]) = {}
  BY <1>1, <1>4 DEF IInv, BlocksDisjoint
<1> QED
  BY <1>5, <1>6

\* Giving back keeps the invariant, whatever is given back.
LEMMA MunmapInv ==
  ASSUME IInv, NEW ptr \in Regions, munmap(ptr)
  PROVE  IInv'
<1>1. CASE \A slot \in Regions : counts[slot] = 0 \/ vaddrs[slot] # ptr
  <2>1. UNCHANGED vars
    BY <1>1, MunmapMiss
  <2> QED
    BY <2>1 DEF IInv, TypeOK, SlotInv, SlotsDistinct, HolderInv, DirtyInv, BlocksDisjoint,
                MappedIsHeld, HeldBlocks, Block, vars
<1>2. ASSUME NEW i \in Regions, counts[i] # 0, vaddrs[i] = ptr
      PROVE  IInv'
  <2>1. /\ held[ptr] = counts[i]
        /\ mapped' \in UnmapEach(Block(ptr, held[ptr]))
        /\ vaddrs' = [vaddrs EXCEPT ![i] = Null]
        /\ counts' = [counts EXCEPT ![i] = 0]
        /\ held' = [held EXCEPT ![ptr] = 0]
        /\ next' = next /\ dirty' = dirty /\ ret' = ret /\ panicked' = panicked
    BY <1>2, MunmapHit
  <2>2. REGIONS \in Nat
    BY RegionsAssumption
  <2>3. TypeOK'
    <3>1. vaddrs' \in [Regions -> Regions \cup {Null}] /\ counts' \in [Regions -> 0 .. REGIONS]
      BY <2>1, <2>2 DEF IInv, TypeOK
    <3>2. held' \in [Regions -> 0 .. REGIONS] /\ mapped' \in SUBSET Granted
      BY <2>1, <2>2 DEF IInv, TypeOK, UnmapEach
    <3> QED
      BY <3>1, <3>2, <2>1 DEF IInv, TypeOK
  <2>4. \A j \in Regions : counts'[j] # 0 => /\ j # i /\ counts[j] # 0 /\ vaddrs[j] # ptr
                                             /\ counts'[j] = counts[j] /\ vaddrs'[j] = vaddrs[j]
    BY <1>2, <2>1 DEF IInv, TypeOK, SlotsDistinct
  <2>5. \A b \in Regions : b # ptr => held'[b] = held[b]
    BY <2>1 DEF IInv, TypeOK
  <2>6. held'[ptr] = 0
    BY <2>1 DEF IInv, TypeOK
  <2>7. SlotInv'
    BY <2>1, <2>4, <2>5 DEF IInv, SlotInv
  <2>8. SlotsDistinct'
    BY <2>4 DEF IInv, SlotsDistinct
  <2>9. HolderInv'
    <3> SUFFICES ASSUME NEW b \in Regions, held'[b] # 0
                 PROVE  \E j \in Regions : counts'[j] # 0 /\ vaddrs'[j] = b
      BY DEF HolderInv
    <3>1. b # ptr /\ held[b] # 0
      BY <2>5, <2>6
    <3>2. PICK j \in Regions : counts[j] # 0 /\ vaddrs[j] = b
      BY <3>1 DEF IInv, HolderInv
    <3> QED
      BY <1>2, <2>1, <3>1, <3>2 DEF IInv, TypeOK
  <2>10. DirtyInv'
    BY <2>1 DEF IInv, DirtyInv
  <2>11. BlocksDisjoint'
    <3> SUFFICES ASSUME NEW b \in Regions, NEW c \in Regions, b # c, held'[b] # 0, held'[c] # 0
                 PROVE  Block(b, held'[b]) \cap Block(c, held'[c]) = {}
      BY DEF BlocksDisjoint, Block
    <3> QED
      BY <2>5, <2>6 DEF IInv, BlocksDisjoint
  <2>12. MappedIsHeld'
    <3> DEFINE B == Block(ptr, held[ptr])
    <3>1. ~panicked /\ UNION HeldBlocks \subseteq mapped /\ mapped \ UNION HeldBlocks \subseteq Stuck
      BY DEF IInv, MappedIsHeld, munmap
    <3>2. HeldBlocks = HeldBlocks' \cup {B} /\ \A C \in HeldBlocks' : C \cap B = {}
      BY <1>2, MunmapBlocks
    <3>3. PICK kept \in SUBSET (B \cap Stuck) : mapped' = mapped \ (B \ kept)
      BY <2>1 DEF UnmapEach
    <3>4. UNION HeldBlocks = (UNION HeldBlocks') \cup B /\ (UNION HeldBlocks') \cap B = {}
      <4> HIDE DEF B
      <4> QED
        BY <3>2, WithoutBlock
    <3> HIDE DEF B
    <3>5. UNION HeldBlocks' \subseteq mapped' /\ mapped' \ UNION HeldBlocks' \subseteq Stuck
      BY <3>1, <3>3, <3>4
    <3> QED
      BY <3>5 DEF MappedIsHeld
  <2> QED
    BY <2>3, <2>7, <2>8, <2>9, <2>10, <2>11, <2>12 DEF IInv
<1> QED
  BY <1>1, <1>2

\* Stores stay in claimed regions; remapping only blanks (platform.rs:181-188).
LEMMA StoreInv ==
  ASSUME IInv, NEW base \in Regions, Store(base) \/ mmap_remap(base)
  PROVE  IInv'
<1>1. /\ held[base] # 0 /\ UNCHANGED <<next, vaddrs, counts, mapped, held, ret, panicked>>
      /\ dirty' \subseteq dirty \cup Block(base, held[base])
  BY DEF Store, mmap_remap
<1>2. Block(base, held[base]) \subseteq 0 .. next - 1
  <2>1. base + held[base] <= next /\ held[base] \in 1 .. REGIONS /\ base \in Nat
    BY <1>1, HeldBelow DEF IInv, Regions
  <2>2. next \in Nat /\ REGIONS \in Nat
    BY RegionsAssumption DEF IInv, TypeOK
  <2> QED
    BY <2>1, <2>2 DEF Block
<1>3. DirtyInv'
  BY <1>1, <1>2 DEF IInv, DirtyInv
<1>4. dirty' \in SUBSET Regions
  BY <1>1, <1>3, RegionsAssumption DEF IInv, TypeOK, DirtyInv, Regions
<1>5. TypeOK'
  BY <1>1, <1>4 DEF IInv, TypeOK
<1>6. SlotInv' /\ SlotsDistinct' /\ HolderInv' /\ BlocksDisjoint' /\ MappedIsHeld'
  BY <1>1 DEF IInv, SlotInv, SlotsDistinct, HolderInv, BlocksDisjoint, MappedIsHeld, HeldBlocks, Block
<1> QED
  BY <1>3, <1>5, <1>6 DEF IInv

\* Every step of the arena keeps its invariant.
THEOREM StepInv == IInv /\ [Next]_vars => IInv'
<1> SUFFICES ASSUME IInv, [Next]_vars PROVE IInv'
  OBVIOUS
<1>1. CASE \E size \in Sizes : mmap_new(size)
  <2>1. PICK size \in Sizes : mmap_new(size)
    BY <1>1
  <2>2. Count(size) \in Nat /\ Count(size) >= 1
    BY SizesAssumption, CountType
  <2>3. ~panicked /\ (Exhausted(Count(size)) \/ MapPanics(Count(size)) \/ Allocated(Count(size)))
    BY <2>1 DEF mmap_new
  <2> QED
    BY <2>2, <2>3, FailureInv, AllocatedInv
<1>2. CASE \E base \in Regions : munmap(base) \/ Store(base) \/ mmap_remap(base)
  BY <1>2, MunmapInv, StoreInv
<1>3. CASE UNCHANGED vars
  BY <1>3 DEF IInv, TypeOK, SlotInv, SlotsDistinct, HolderInv, DirtyInv, BlocksDisjoint,
              MappedIsHeld, HeldBlocks, Block, vars
<1> QED
  BY <1>1, <1>2, <1>3 DEF Next, Parked

------------------------------------------------------------------------------
(* The properties *)

\* The invariant holds of every state the arena reaches.
THEOREM Invariance == Spec => []IInv
  BY InitInv, StepInv, PTL DEF Spec

\* Every variable keeps its type: the bump index stays within the pool and only
\* granted Frames are ever mapped.
THEOREM TypeCorrect == Spec => []TypeOK
<1>1. IInv => TypeOK
  BY DEF IInv
<1> QED
  BY <1>1, Invariance, PTL

\* What the kernel has mapped is what Wasmtime holds, and no more than what it
\* refused to unmap (platform.rs:121-162).
THEOREM MappingsHeld == Spec => []MappedIsHeld
<1>1. IInv => MappedIsHeld
  BY DEF IInv
<1> QED
  BY <1>1, Invariance, PTL

\* Blocks held never overlap (platform.rs:182-185).
THEOREM HeldDisjoint == Spec => []BlocksDisjoint
<1>1. IInv => BlocksDisjoint
  BY DEF IInv
<1> QED
  BY <1>1, Invariance, PTL

\* A failed wasmtime_mmap_new claims and maps nothing: the search for a slot
\* always succeeds once the regions are mapped (platform.rs:139).
THEOREM FailuresInert == Spec => FailureChangesNothing
<1> DEFINE A == \A size \in Sizes :
                  mmap_new(size) /\ ret' = Null /\ ~panicked' => UNCHANGED <<next, mapped>>
<1>1. IInv /\ [Next]_vars => [A]_vars
  <2> SUFFICES ASSUME IInv, NEW size \in Sizes, mmap_new(size), ret' = Null, ~panicked'
               PROVE  UNCHANGED <<next, mapped>>
    OBVIOUS
  <2>1. Count(size) \in Nat /\ Count(size) >= 1
    BY SizesAssumption, CountType
  <2>2. ~Allocated(Count(size))
    <3> SUFFICES ASSUME Allocated(Count(size)) PROVE FALSE
      OBVIOUS
    <3>1. ret' = next /\ next \in Nat
      BY <2>1, AllocatedStep
    <3> QED
      BY <3>1, NullAssumption
  <2>3. ~MapPanics(Count(size))
    BY DEF MapPanics
  <2> QED
    BY <2>2, <2>3 DEF mmap_new, Exhausted
<1> QED
  BY <1>1, Invariance, PTL DEF Spec, FailureChangesNothing

\* A block is blank when it is handed out: nothing was ever stored past the bump
\* index (platform.rs:103-105, 181-188).
THEOREM FreshBlank == Spec => FreshBlocksAreBlank
<1> DEFINE A == \A size \in Sizes :
                  mmap_new(size) /\ ret' # Null /\ ~panicked' => Block(ret', Count(size)) \cap dirty = {}
<1>1. IInv /\ [Next]_vars => [A]_vars
  <2> SUFFICES ASSUME IInv, NEW size \in Sizes, mmap_new(size), ret' # Null, ~panicked'
               PROVE  Block(ret', Count(size)) \cap dirty = {}
    OBVIOUS
  <2>1. Count(size) \in Nat /\ Count(size) >= 1
    BY SizesAssumption, CountType
  <2>2. Allocated(Count(size))
    BY DEF mmap_new, Exhausted, MapPanics
  <2>3. ret' = next /\ next \in Nat
    BY <2>1, <2>2, AllocatedStep
  <2> QED
    BY <2>1, <2>3 DEF Block, IInv, DirtyInv
<1> QED
  BY <1>1, Invariance, PTL DEF Spec, FreshBlocksAreBlank

------------------------------------------------------------------------------
(* The arena implements the pool *)

\* Claiming n regions spends exactly that block of them.
LEMMA Claiming ==
  ASSUME NEW a \in Nat, NEW n \in Nat, n >= 1, NEW b, b = a + n
  PROVE  0 .. b - 1 = (0 .. a - 1) \cup Block(a, n) /\ Block(a, n) # {}
<1>1. a \in Block(a, n)
  BY DEF Block
<1> QED
  BY <1>1 DEF Block

\* Every step of the arena is a step of the pool, or none.
LEMMA PoolStep ==
  ASSUME IInv, Next
  PROVE  [Pool!Next]_(Pool!pvars)
<1>1. ASSUME NEW size \in Sizes, mmap_new(size)
      PROVE  [Pool!Next]_(Pool!pvars)
  <2> DEFINE n == Count(size)
             B == Block(next, n)
  <2>1. n \in Nat /\ n >= 1 /\ next \in Nat /\ REGIONS \in Nat
    BY SizesAssumption, CountType, RegionsAssumption DEF IInv, TypeOK
  <2>2. CASE Exhausted(n)
    BY <2>2 DEF Exhausted, Pool!pvars, HeldBlocks, Block
  <2>3. CASE MapPanics(n)
    <3>1. next' = next + n /\ next + n <= REGIONS /\ UNCHANGED <<held, dirty>>
      BY <2>3 DEF MapPanics
    <3>2. B \in SUBSET Regions
      BY <2>1, <3>1 DEF Block, Regions
    <3>3. Pool!Lose(B)
      BY <2>1, <3>1, Claiming DEF Pool!Lose, HeldBlocks, Block
    <3> QED
      BY <3>2, <3>3 DEF Pool!Next
  <2>4. CASE Allocated(n)
    <3>1. next' = next + n /\ next + n <= REGIONS /\ dirty' = dirty
      BY <2>4 DEF Allocated
    <3>2. B \in SUBSET Regions
      BY <2>1, <3>1 DEF Block, Regions
    <3>3. B # {} /\ B \cap ((0 .. next - 1) \cup dirty) = {}
      BY <2>1, Claiming DEF IInv, DirtyInv, Block
    <3>4. HeldBlocks' = HeldBlocks \cup {B}
      BY <2>1, <2>4, AllocatedBlocks
    <3>5. 0 .. next' - 1 = (0 .. next - 1) \cup B
      BY <2>1, <3>1, Claiming
    <3>6. Pool!Lend(B)
      BY <3>1, <3>3, <3>4, <3>5 DEF Pool!Lend
    <3> QED
      BY <3>2, <3>6 DEF Pool!Next
  <2> QED
    BY <1>1, <2>2, <2>3, <2>4 DEF mmap_new
<1>2. ASSUME NEW base \in Regions, held[base] # 0
      PROVE  Block(base, held[base]) \in SUBSET Regions /\ Block(base, held[base]) \in HeldBlocks
             /\ Block(base, held[base]) # {}
  <2>1. base + held[base] <= next /\ held[base] \in 1 .. REGIONS /\ base \in Nat
    BY <1>2, HeldBelow DEF IInv, Regions
  <2>2. next \in Nat /\ next <= REGIONS /\ REGIONS \in Nat
    BY RegionsAssumption DEF IInv, TypeOK
  <2>3. Block(base, held[base]) \in SUBSET Regions
    BY <2>1, <2>2 DEF Block, Regions
  <2>4. base \in Block(base, held[base])
    BY <2>1, <2>2 DEF Block
  <2> QED
    BY <1>2, <2>3, <2>4 DEF HeldBlocks
<1>3. ASSUME NEW base \in Regions, munmap(base)
      PROVE  [Pool!Next]_(Pool!pvars)
  <2>1. CASE \A slot \in Regions : counts[slot] = 0 \/ vaddrs[slot] # base
    <3>1. UNCHANGED vars
      BY <1>3, <2>1, MunmapMiss
    <3> QED
      BY <3>1 DEF vars, Pool!pvars, HeldBlocks, Block
  <2>2. ASSUME NEW i \in Regions, counts[i] # 0, vaddrs[i] = base
        PROVE  [Pool!Next]_(Pool!pvars)
    <3>1. held[base] # 0 /\ next' = next /\ dirty' = dirty
      BY <1>3, <2>2, MunmapHit
    <3>2. /\ HeldBlocks = HeldBlocks' \cup {Block(base, held[base])}
          /\ \A B \in HeldBlocks' : B \cap Block(base, held[base]) = {}
      BY <1>3, <2>2, MunmapBlocks
    <3>3. HeldBlocks' = HeldBlocks \ {Block(base, held[base])}
      BY <1>2, <3>1, <3>2
    <3>4. Pool!Return(Block(base, held[base]))
      BY <1>2, <3>1, <3>3 DEF Pool!Return
    <3> QED
      BY <1>2, <3>1, <3>4 DEF Pool!Next
  <2> QED
    BY <2>1, <2>2
<1>4. ASSUME NEW base \in Regions, Store(base) \/ mmap_remap(base)
      PROVE  [Pool!Next]_(Pool!pvars)
  <2>1. /\ held[base] # 0 /\ UNCHANGED <<next, held>>
        /\ dirty' \in {dirty \cup Block(base, held[base]), dirty \ Block(base, held[base])}
    BY <1>4 DEF Store, mmap_remap
  <2>2. HeldBlocks' = HeldBlocks
    BY <2>1 DEF HeldBlocks, Block
  <2>3. Pool!Touch(Block(base, held[base]))
    BY <1>2, <2>1, <2>2 DEF Pool!Touch
  <2> QED
    BY <1>2, <2>1, <2>3 DEF Pool!Next
<1>5. CASE Parked
  BY <1>5 DEF Parked, vars, Pool!pvars, HeldBlocks, Block
<1> QED
  BY <1>1, <1>3, <1>4, <1>5 DEF Next

\* The slot arrays and the bump index keep the promise of RegionPool
\* (platform.rs:102-162).
THEOREM Refinement == Spec => ImplementsPool
<1>1. Init => Pool!Init
  BY DEF Init, Pool!Init, HeldBlocks
<1>2. IInv /\ [Next]_vars => [Pool!Next]_(Pool!pvars)
  <2>1. ASSUME UNCHANGED vars PROVE UNCHANGED (Pool!pvars)
    BY <2>1 DEF vars, Pool!pvars, HeldBlocks, Block
  <2> QED
    BY <2>1, PoolStep
<1> QED
  BY <1>1, <1>2, Invariance, PTL DEF Spec, ImplementsPool, Pool!Spec
=============================================================================
