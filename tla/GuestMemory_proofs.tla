-------------------------- MODULE GuestMemory_proofs --------------------------
(***************************************************************************)
(* A guest's memory on the arena, for every pool and grant, every size of  *)
(* code and of memory.  The arena's own invariants are proved here again,  *)
(* of the pool of whichever program runs: the instance of Arena has the    *)
(* program as its parameter, and a theorem of such an instance cannot be   *)
(* cited.                                                                  *)
(***************************************************************************)
EXTENDS GuestMemory, FiniteSetTheorems, SequenceTheorems, TLAPS

Regions == 0 .. prog.regions - 1
Block(base, n) == base .. base + n - 1

\* size.div_ceil(MEGAPAGE_BYTES) of a size in MiB.
Count(size) == (size * 1048576 + (2097152 - 1)) \div 2097152

------------------------------------------------------------------------------
(* The arena *)

PoolTypes ==
  /\ next \in 0 .. prog.regions
  /\ vaddrs \in [Regions -> Regions \cup {Null}]
  /\ counts \in [Regions -> 0 .. prog.regions]
  /\ mapped \in SUBSET prog.granted
  /\ held \in [Regions -> 0 .. prog.regions]
  /\ ret \in Regions \cup {Null}
  /\ panicked \in BOOLEAN

\* An occupied slot records a block Wasmtime holds.
SlotInv ==
  \A i \in Regions : counts[i] # 0 => vaddrs[i] \in Regions /\ held[vaddrs[i]] = counts[i]

\* No two slots record one block, and every block held is recorded.
SlotsDistinct ==
  \A i, j \in Regions : i # j /\ counts[i] # 0 /\ counts[j] # 0 => vaddrs[i] # vaddrs[j]

HolderInv ==
  \A b \in Regions : held[b] # 0 => \E i \in Regions : counts[i] # 0 /\ vaddrs[i] = b

\* Blocks held lie below the bump index and apart from each other.
Disjoint ==
  /\ \A b \in Regions : held[b] # 0 => b + held[b] <= next
  /\ \A b, c \in Regions : held[b] # 0 /\ held[c] # 0 /\ b < c => b + held[b] <= c

\* Blocks held are mapped; without a panic nothing else is, but what stuck.
MapInv ==
  /\ \A b \in Regions : held[b] # 0 => Block(b, held[b]) \subseteq mapped
  /\ ~panicked => \A r \in mapped \ prog.stuck :
                    \E b \in Regions : held[b] # 0 /\ r \in Block(b, held[b])

PoolInv == PoolTypes /\ SlotInv /\ SlotsDistinct /\ HolderInv /\ Disjoint /\ MapInv

------------------------------------------------------------------------------
(* The guest *)

LaunchInv == prog \in Programs /\ guest \in Guests[prog]

\* What the guest has is held, at the size it was asked for, and nothing else is.
HoldsInv ==
  /\ code # Null => code \in Regions /\ held[code] = Count(guest.code)
  /\ Owns => /\ memory.base \in Regions /\ held[memory.base] = Count(memory.reserved)
             /\ memory.base # code
  /\ old # Null => old \in Regions /\ held[old] # 0 /\ old \notin {code, memory.base} /\ Owns
  /\ \A b \in Regions : held[b] # 0 => b \in {code, memory.base, old}

MemoryInv ==
  /\ memory \in [base : Regions \cup {Null}, len : 0 .. MaxLen, reserved : Nat]
  /\ memory.len <= memory.reserved
  /\ Owns => memory.len >= 1
  /\ ~Owns => memory = NoMemory

StageInv ==
  /\ stage \in {"start", "loaded", "running", "done", "wrong", "failed", "parked"}
  /\ stage = "start" => code = Null
  /\ stage \in {"start", "loaded"} => ~Owns
  /\ old # Null => stage = "running"
  /\ panicked => stage \in {"failed", "parked"}
  /\ stage = "parked" /\ ~panicked => code = Null /\ ~Owns
  /\ stage # "parked" => signal = Null
  /\ signal \in {"SUCCESS", "FAILURE", Null}

\* Frames never lent are blank, and so is what a memory may yet grow into.
FramesInv ==
  /\ frames \in [0 .. 2 * prog.regions - 1 -> {"zero", "code", "data", "own"}]
  /\ \A c \in 2 * next .. 2 * prog.regions - 1 : frames[c] = "zero"
  /\ Owns => \A i \in memory.len .. 2 * Count(memory.reserved) - 1 :
               frames[2 * memory.base + i] = "zero"

IInv == LaunchInv /\ PoolInv /\ HoldsInv /\ MemoryInv /\ StageInv /\ FramesInv

\* A guest its pool was sized for has claimed what it started with.
SizedInv ==
  SizedFor(guest) =>
    /\ stage # "failed" /\ ~panicked
    /\ stage = "start" => next = 0
    /\ stage = "loaded" => next = 1
    /\ Owns => next >= 3 /\ memory.reserved >= MEMORY_RESERVATION
------------------------------------------------------------------------------
(* Sizes and slots *)

\* A size is covered by its regions, with less than a region to spare.
LEMMA CountCovers ==
  ASSUME NEW size \in Nat, size >= 1
  PROVE  /\ Count(size) \in Nat /\ Count(size) >= 1
         /\ size <= 2 * Count(size) /\ 2 * Count(size) <= size + 1
  BY DEF Count

LEMMA ProgTypes ==
  ASSUME LaunchInv
  PROVE  /\ prog.regions \in Nat \ {0} /\ prog.granted \subseteq Regions
         /\ guest.code \in Nat \ {0} /\ guest.minimum \in 0 .. MaxLen /\ MaxLen \in Nat
  BY ProgramsAssumption, GuestsAssumption DEF LaunchInv, Regions

\* A held block lies below the bump index.
LEMMA HeldBelow ==
  ASSUME LaunchInv, PoolInv, NEW b \in Regions, held[b] # 0
  PROVE  /\ b \in Nat /\ held[b] \in Nat /\ held[b] >= 1
         /\ b + held[b] <= next /\ next \in Nat /\ next <= prog.regions
  BY ProgTypes DEF PoolInv, PoolTypes, Disjoint, Regions

\* As many regions as the pool has.
LEMMA Interval ==
  ASSUME NEW n \in Nat
  PROVE  IsFiniteSet(0 .. n - 1) /\ Cardinality(0 .. n - 1) = n
<1>1. 0 \in Int /\ n - 1 \in Int
  OBVIOUS
<1>2. /\ IsFiniteSet(0 .. n - 1)
      /\ Cardinality(0 .. n - 1) = IF 0 > n - 1 THEN 0 ELSE n - 1 - 0 + 1
  BY <1>1, FS_Interval
<1> QED
  BY <1>2

\* While a region is unclaimed, a slot is free: as many slots as regions, and every
\* occupied slot records a base of its own below the bump index (platform.rs:139).
LEMMA FreeSlot ==
  ASSUME LaunchInv, PoolInv, next < prog.regions
  PROVE  \E i \in Regions : counts[i] = 0
<1> SUFFICES ASSUME \A i \in Regions : counts[i] # 0
             PROVE  FALSE
  OBVIOUS
<1>1. next \in Nat /\ prog.regions \in Nat
  BY ProgTypes DEF PoolInv, PoolTypes
<1> DEFINE T == 0 .. next - 1
           f == [i \in Regions |-> vaddrs[i]]
<1>2. f \in [Regions -> T]
  <2> SUFFICES ASSUME NEW i \in Regions PROVE vaddrs[i] \in T
    OBVIOUS
  <2>1. vaddrs[i] \in Regions /\ held[vaddrs[i]] # 0
    BY DEF PoolInv, SlotInv
  <2> QED
    BY <1>1, <2>1, HeldBelow
<1>3. IsFiniteSet(Regions) /\ Cardinality(Regions) = prog.regions
  BY <1>1, Interval DEF Regions
<1>4. IsFiniteSet(T) /\ Cardinality(T) = next
  BY <1>1, Interval
<1>5. \E i, j \in Regions : i # j /\ f[i] = f[j]
  <2> HIDE DEF f, T
  <2> QED
    BY <1>1, <1>2, <1>3, <1>4, FS_PigeonHole
<1> QED
  BY <1>5 DEF PoolInv, SlotsDistinct

------------------------------------------------------------------------------
(* wasmtime_mmap_new *)

\* A request that lends nothing: the pool is exhausted, or a Frame is missing.
Refused(n) ==
  /\ next + n > prog.regions /\ ret' = Null
  /\ UNCHANGED <<next, vaddrs, counts, mapped, held, panicked>>

Panics(n) ==
  /\ next + n <= prog.regions /\ ~(Block(next, n) \subseteq prog.granted)
  /\ mapped \subseteq mapped' /\ mapped' \subseteq prog.granted
  /\ next' = next + n /\ panicked' = TRUE
  /\ UNCHANGED <<vaddrs, counts, held, ret>>

\* A request that lends the regions at the bump index.
Lends(n) ==
  /\ next \in Regions /\ next + n <= prog.regions /\ Block(next, n) \subseteq prog.granted
  /\ held[next] = 0 /\ held' = [held EXCEPT ![next] = n]
  /\ \E slot \in Regions : /\ counts[slot] = 0
                           /\ vaddrs' = [vaddrs EXCEPT ![slot] = next]
                           /\ counts' = [counts EXCEPT ![slot] = n]
  /\ ret' = next /\ next' = next + n /\ mapped' = mapped \cup Block(next, n)
  /\ panicked' = FALSE

\* What a request does (platform.rs:102-145).
LEMMA AllocCases ==
  ASSUME LaunchInv, PoolInv, NEW size \in Nat, size >= 1, alloc(size)
  PROVE  ~panicked /\ (Refused(Count(size)) \/ Panics(Count(size)) \/ Lends(Count(size)))
<1> DEFINE n == Count(size)
<1>1. PICK p \in Programs : p = prog /\ Pool(p)!mmap_new(size * MiB)
  BY DEF alloc
<1>2. Pool(p)!Count(size * MiB) = n /\ Pool(p)!Regions = Regions
  BY <1>1 DEF Pool!Count, Pool!MEGAPAGE_BYTES, MiB, Count, Pool!Regions, Regions
<1>3. ~panicked /\ (Pool(p)!Exhausted(n) \/ Pool(p)!MapPanics(n) \/ Pool(p)!Allocated(n))
  BY <1>1, <1>2 DEF Pool!mmap_new
<1>4. n \in Nat /\ n >= 1 /\ next \in Nat /\ prog.regions \in Nat
  BY CountCovers, ProgTypes DEF PoolInv, PoolTypes
<1>5. CASE Pool(p)!Exhausted(n)
  BY <1>1, <1>3, <1>5 DEF Pool!Exhausted, Refused
<1>6. CASE Pool(p)!MapPanics(n)
  <2>1. PICK bad \in Block(next, n) \ prog.granted :
          /\ \A r \in Block(next, n) : r < bad => r \in prog.granted
          /\ mapped' = mapped \cup {r \in Block(next, n) : r < bad}
    BY <1>1, <1>6 DEF Pool!MapPanics, Pool!Block, Block
  <2>2. mapped \subseteq mapped' /\ mapped' \subseteq prog.granted
    BY <2>1 DEF PoolInv, PoolTypes
  <2> QED
    BY <1>1, <1>3, <1>6, <2>1, <2>2 DEF Pool!MapPanics, Panics
<1>7. CASE Pool(p)!Allocated(n)
  <2>1. next + n <= prog.regions /\ Block(next, n) \subseteq prog.granted
    BY <1>1, <1>7 DEF Pool!Allocated, Pool!Block, Block
  <2>2. next \in Regions /\ next < prog.regions
    BY <1>4, <2>1 DEF Regions
  <2>3. \E slot \in Regions : counts[slot] = 0
    BY <2>2, FreeSlot
  <2>4. held[next] = 0
    <3> SUFFICES ASSUME held[next] # 0 PROVE FALSE
      OBVIOUS
    <3> QED
      BY <1>4, <2>2, HeldBelow
  <2>5. /\ held' = [held EXCEPT ![next] = n] /\ ret' = next /\ next' = next + n
        /\ mapped' = mapped \cup Block(next, n) /\ panicked' = FALSE
        /\ \E slot \in Regions : /\ counts[slot] = 0
                                 /\ vaddrs' = [vaddrs EXCEPT ![slot] = next]
                                 /\ counts' = [counts EXCEPT ![slot] = n]
    BY <1>2, <1>3, <1>7, <2>3 DEF Pool!Allocated, Pool!FirstFree, Pool!Block, Block, PoolInv, PoolTypes
  <2> QED
    BY <1>3, <2>1, <2>2, <2>4, <2>5 DEF Lends
<1> QED
  BY <1>3, <1>5, <1>6, <1>7

\* A request keeps the arena in order.
LEMMA AllocInv ==
  ASSUME LaunchInv, PoolInv, NEW n \in Nat, n >= 1, UNCHANGED launch, ~panicked,
         Refused(n) \/ Panics(n) \/ Lends(n)
  PROVE  PoolInv'
<1> USE DEF PoolInv
<1>1. /\ prog' = prog /\ Regions' = Regions /\ prog.regions \in Nat /\ next \in Nat
      /\ next <= prog.regions /\ prog.granted \subseteq Regions
  BY ProgTypes DEF launch, Regions, PoolTypes
<1>2. CASE Refused(n)
  <2>1. PoolTypes'
    BY <1>1, <1>2 DEF PoolTypes, Refused
  <2> QED
    BY <1>1, <1>2, <2>1 DEF Refused, SlotInv, SlotsDistinct, HolderInv, Disjoint, MapInv, Block
<1>3. CASE Panics(n)
  <2>1. PoolTypes'
    BY <1>1, <1>3 DEF PoolTypes, Panics
  <2>2. SlotInv' /\ SlotsDistinct' /\ HolderInv'
    BY <1>1, <1>3 DEF Panics, SlotInv, SlotsDistinct, HolderInv
  <2>3. Disjoint'
    <3>1. \A b \in Regions : held[b] # 0 => b + held[b] <= next + n
      BY <1>1, HeldBelow
    <3> QED
      BY <1>1, <1>3, <3>1 DEF Disjoint, Panics
  <2>4. MapInv'
    BY <1>1, <1>3 DEF MapInv, Panics, Block
  <2> QED
    BY <2>1, <2>2, <2>3, <2>4
<1>4. CASE Lends(n)
  <2>1. PICK slot \in Regions : /\ counts[slot] = 0
                                /\ vaddrs' = [vaddrs EXCEPT ![slot] = next]
                                /\ counts' = [counts EXCEPT ![slot] = n]
    BY <1>4 DEF Lends
  <2>2. /\ next \in Regions /\ next + n <= prog.regions /\ Block(next, n) \subseteq prog.granted
        /\ held[next] = 0 /\ held' = [held EXCEPT ![next] = n]
        /\ ret' = next /\ next' = next + n /\ mapped' = mapped \cup Block(next, n)
        /\ panicked' = FALSE
    BY <1>4 DEF Lends
  <2>3. PoolTypes'
    <3>1. vaddrs' \in [Regions -> Regions \cup {Null}] /\ counts' \in [Regions -> 0 .. prog.regions]
      BY <1>1, <2>1, <2>2 DEF PoolTypes
    <3>2. held' \in [Regions -> 0 .. prog.regions] /\ next' \in 0 .. prog.regions
      BY <1>1, <2>2 DEF PoolTypes
    <3> QED
      BY <1>1, <2>2, <3>1, <3>2 DEF PoolTypes
  <2>4. \A b \in Regions : b # next => held'[b] = held[b]
    BY <2>2 DEF PoolTypes
  <2>5. held'[next] = n
    BY <2>2 DEF PoolTypes
  <2>6. \A i \in Regions : i # slot => counts'[i] = counts[i] /\ vaddrs'[i] = vaddrs[i]
    BY <2>1 DEF PoolTypes
  <2>7. counts'[slot] = n /\ vaddrs'[slot] = next
    BY <2>1 DEF PoolTypes
  <2>8. \A i \in Regions : counts[i] # 0 => vaddrs[i] \in Regions /\ vaddrs[i] # next
    BY <2>2 DEF SlotInv
  <2>9. SlotInv'
    BY <1>1, <2>2, <2>4, <2>5, <2>6, <2>7, <2>8 DEF SlotInv
  <2>10. SlotsDistinct'
    BY <1>1, <2>6, <2>7, <2>8 DEF SlotsDistinct, SlotInv
  <2>11. HolderInv'
    <3> SUFFICES ASSUME NEW b \in Regions, held'[b] # 0
                 PROVE  \E i \in Regions : counts'[i] # 0 /\ vaddrs'[i] = b
      BY <1>1 DEF HolderInv
    <3>1. CASE b = next
      BY <2>7, <3>1
    <3>2. CASE b # next
      <4>1. PICK i \in Regions : counts[i] # 0 /\ vaddrs[i] = b
        BY <2>4, <3>2 DEF HolderInv
      <4> QED
        BY <2>1, <2>6, <4>1
    <3> QED
      BY <3>1, <3>2
  <2>12. \A b \in Regions : held[b] # 0 => b + held[b] <= next /\ b \in Nat /\ held[b] \in Nat /\ held[b] >= 1
    BY HeldBelow
  <2>13. Disjoint'
    <3>1. \A b \in Regions : held'[b] # 0 => b + held'[b] <= next + n
      BY <1>1, <2>4, <2>5, <2>12
    <3>2. \A b, c \in Regions : held'[b] # 0 /\ held'[c] # 0 /\ b < c => b + held'[b] <= c
      BY <1>1, <2>4, <2>5, <2>12 DEF Disjoint
    <3> QED
      BY <1>1, <2>2, <3>1, <3>2 DEF Disjoint
  <2>14. MapInv'
    <3>1. \A b \in Regions : held'[b] # 0 => Block(b, held'[b]) \subseteq mapped'
      BY <2>2, <2>4, <2>5 DEF MapInv
    <3>2. \A r \in mapped' \ prog.stuck : \E b \in Regions : held'[b] # 0 /\ r \in Block(b, held'[b])
      <4> TAKE r \in mapped' \ prog.stuck
      <4>1. CASE r \in Block(next, n)
        BY <2>2, <2>5, <4>1
      <4>2. CASE r \in mapped
        <5>1. PICK b \in Regions : held[b] # 0 /\ r \in Block(b, held[b])
          BY <4>2 DEF MapInv
        <5>2. b # next
          BY <2>2, <5>1
        <5> QED
          BY <2>4, <5>1, <5>2
      <4> QED
        BY <2>2, <4>1, <4>2
    <3> QED
      BY <1>1, <3>1, <3>2 DEF MapInv, Block
  <2> QED
    BY <2>3, <2>9, <2>10, <2>11, <2>13, <2>14
<1> QED
  BY <1>2, <1>3, <1>4

------------------------------------------------------------------------------
(* wasmtime_munmap *)

\* No region of another block is unmapped, and what stays of this one was stuck.
Unmaps(block) ==
  mapped \ block \subseteq mapped' /\ mapped' \subseteq mapped /\ mapped' \cap block \subseteq prog.stuck

Frees(b) ==
  /\ held' = [held EXCEPT ![b] = 0] /\ Unmaps(Block(b, held[b]))
  /\ UNCHANGED <<next, ret, panicked>>

\* Giving back a block that is held unmaps exactly that block (platform.rs:147-162).
LEMMA DeallocFrees ==
  ASSUME LaunchInv, PoolInv, NEW b \in Regions, held[b] # 0, dealloc(b)
  PROVE  ~panicked /\ Frees(b) /\ \E i \in Regions : /\ counts[i] # 0 /\ vaddrs[i] = b
                                                     /\ vaddrs' = [vaddrs EXCEPT ![i] = Null]
                                                     /\ counts' = [counts EXCEPT ![i] = 0]
<1>1. PICK p \in Programs : p = prog /\ Pool(p)!munmap(b)
  BY DEF dealloc
<1>2. Pool(p)!Regions = Regions
  BY <1>1 DEF Pool!Regions, Regions
<1>3. PICK i \in Regions : counts[i] # 0 /\ vaddrs[i] = b
  BY DEF PoolInv, HolderInv
<1>4. \A j \in Regions : counts[j] # 0 /\ vaddrs[j] = b => j = i
  BY <1>3 DEF PoolInv, SlotsDistinct
<1>5. held[b] = counts[i]
  BY <1>3 DEF PoolInv, SlotInv
<1>6. /\ mapped' \in Pool(p)!UnmapEach(Block(b, counts[i]))
      /\ vaddrs' = [vaddrs EXCEPT ![i] = Null]
      /\ counts' = [counts EXCEPT ![i] = 0]
  BY <1>1, <1>2, <1>3, <1>4 DEF Pool!munmap, Pool!Block, Block
<1>7. Unmaps(Block(b, counts[i]))
  BY <1>1, <1>6 DEF Pool!UnmapEach, Unmaps
<1> QED
  BY <1>1, <1>3, <1>5, <1>6, <1>7 DEF Pool!munmap, Frees

LEMMA DeallocInv ==
  ASSUME LaunchInv, PoolInv, NEW b \in Regions, held[b] # 0, dealloc(b), UNCHANGED launch
  PROVE  PoolInv'
<1> USE DEF PoolInv
<1>1. /\ prog' = prog /\ Regions' = Regions /\ prog.regions \in Nat /\ next \in Nat
  BY ProgTypes DEF launch, Regions, PoolTypes
<1>2. PICK i \in Regions : /\ counts[i] # 0 /\ vaddrs[i] = b
                           /\ vaddrs' = [vaddrs EXCEPT ![i] = Null]
                           /\ counts' = [counts EXCEPT ![i] = 0]
  BY DeallocFrees
<1>3. ~panicked /\ Frees(b)
  BY DeallocFrees
<1>4. PoolTypes'
  <2>1. vaddrs' \in [Regions -> Regions \cup {Null}] /\ counts' \in [Regions -> 0 .. prog.regions]
    BY <1>1, <1>2 DEF PoolTypes
  <2>2. held' \in [Regions -> 0 .. prog.regions]
    BY <1>1, <1>3 DEF PoolTypes, Frees
  <2> QED
    BY <1>1, <1>3, <2>1, <2>2 DEF PoolTypes, Frees, Unmaps
<1>5. \A c \in Regions : c # b => held'[c] = held[c]
  BY <1>3 DEF PoolTypes, Frees
<1>6. held'[b] = 0
  BY <1>3 DEF PoolTypes, Frees
<1>7. \A j \in Regions : counts'[j] # 0 => /\ j # i /\ counts[j] # 0 /\ vaddrs[j] # b
                                           /\ counts'[j] = counts[j] /\ vaddrs'[j] = vaddrs[j]
  BY <1>2 DEF PoolTypes, SlotsDistinct
<1>8. SlotInv'
  BY <1>1, <1>5, <1>7 DEF SlotInv
<1>9. SlotsDistinct'
  BY <1>1, <1>7 DEF SlotsDistinct
<1>10. HolderInv'
  <2> SUFFICES ASSUME NEW c \in Regions, held'[c] # 0
               PROVE  \E j \in Regions : counts'[j] # 0 /\ vaddrs'[j] = c
    BY <1>1 DEF HolderInv
  <2>1. c # b /\ held[c] # 0
    BY <1>5, <1>6
  <2>2. PICK j \in Regions : counts[j] # 0 /\ vaddrs[j] = c
    BY <2>1 DEF HolderInv
  <2>3. j # i
    BY <1>2, <2>1, <2>2
  <2> QED
    BY <1>2, <2>2, <2>3 DEF PoolTypes
<1>11. Disjoint'
  BY <1>1, <1>3, <1>5, <1>6 DEF Disjoint, Frees
<1>12. MapInv'
  <2>1. \A c \in Regions : c # b /\ held[c] # 0 => Block(c, held[c]) \cap Block(b, held[b]) = {}
    <3> SUFFICES ASSUME NEW c \in Regions, c # b, held[c] # 0
                 PROVE  Block(c, held[c]) \cap Block(b, held[b]) = {}
      OBVIOUS
    <3>1. /\ b \in Nat /\ held[b] \in Nat /\ c \in Nat /\ held[c] \in Nat
          /\ b < c => b + held[b] <= c
          /\ c < b => c + held[c] <= b
      BY HeldBelow DEF Disjoint
    <3> QED
      BY <3>1 DEF Block
  <2>2. \A c \in Regions : held'[c] # 0 => Block(c, held'[c]) \subseteq mapped'
    BY <1>3, <1>5, <1>6, <2>1 DEF MapInv, Frees, Unmaps
  <2>3. \A r \in mapped' \ prog.stuck : \E c \in Regions : held'[c] # 0 /\ r \in Block(c, held'[c])
    <3> TAKE r \in mapped' \ prog.stuck
    <3>1. r \in mapped \ prog.stuck /\ r \notin Block(b, held[b])
      BY <1>3 DEF Frees, Unmaps
    <3>2. PICK c \in Regions : held[c] # 0 /\ r \in Block(c, held[c])
      BY <1>3, <3>1 DEF MapInv
    <3> QED
      BY <1>5, <3>1, <3>2
  <2> QED
    BY <1>1, <2>2, <2>3 DEF MapInv, Block
<1> QED
  BY <1>4, <1>8, <1>9, <1>10, <1>11, <1>12

------------------------------------------------------------------------------
(* The inductive invariant *)

\* A program starts with an empty arena and blank Frames.
LEMMA InitInv ==
  ASSUME Init
  PROVE  IInv
<1>1. LaunchInv
  BY DEF Init, LaunchInv
<1>2. prog.regions \in Nat \ {0}
  BY <1>1, ProgTypes
<1>3. PICK p \in Programs : p = prog /\ Pool(p)!Init
  BY DEF Init
<1>4. /\ next = 0 /\ vaddrs = [i \in Regions |-> Null] /\ counts = [i \in Regions |-> 0]
      /\ mapped = {} /\ held = [r \in Regions |-> 0] /\ ret = Null /\ panicked = FALSE
  BY <1>3 DEF Pool!Init, Pool!Regions, Regions
<1>5. PoolTypes
  <2>1. 0 \in 0 .. prog.regions
    BY <1>2
  <2> QED
    BY <1>4, <2>1 DEF PoolTypes
<1>6. PoolInv
  BY <1>4, <1>5 DEF PoolInv, SlotInv, SlotsDistinct, HolderInv, Disjoint, MapInv
<1>7. ~Owns /\ memory = NoMemory /\ memory.len = 0 /\ memory.reserved = 0
  BY DEF Init, Owns, NoMemory
<1>8. HoldsInv
  BY <1>4, <1>7 DEF Init, HoldsInv
<1>9. MemoryInv
  BY <1>1, <1>7, ProgTypes DEF MemoryInv, NoMemory
<1>10. StageInv
  BY <1>4, <1>7 DEF Init, StageInv
<1>11. FramesInv
  BY <1>2, <1>4, <1>7 DEF Init, FramesInv
<1> QED
  BY <1>1, <1>6, <1>8, <1>9, <1>10, <1>11 DEF IInv

\* A request fails and leaves what is held as it was, or lends a block.
LEMMA AllocOutcome ==
  ASSUME IInv, NEW size \in Nat, size >= 1, alloc(size), UNCHANGED launch
  PROVE  /\ PoolInv' /\ LaunchInv' /\ prog' = prog /\ guest' = guest /\ Regions' = Regions
         /\ \/ /\ ret' = Null \/ panicked'
               /\ held' = held /\ next' >= next /\ mapped \subseteq mapped'
            \/ ret' # Null /\ ~panicked' /\ Lends(Count(size))
<1>1. ~panicked /\ (Refused(Count(size)) \/ Panics(Count(size)) \/ Lends(Count(size)))
  BY AllocCases DEF IInv
<1>2. Count(size) \in Nat /\ Count(size) >= 1
  BY CountCovers
<1>3. PoolInv'
  BY <1>1, <1>2, AllocInv DEF IInv
<1>4. LaunchInv' /\ prog' = prog /\ guest' = guest /\ Regions' = Regions
  BY DEF IInv, LaunchInv, launch, Regions
<1>5. next \in Nat
  BY ProgTypes DEF IInv, PoolInv, PoolTypes
<1>6. CASE Refused(Count(size))
  BY <1>3, <1>4, <1>5, <1>6 DEF Refused
<1>7. CASE Panics(Count(size))
  BY <1>2, <1>3, <1>4, <1>5, <1>7 DEF Panics
<1>8. CASE Lends(Count(size))
  BY <1>3, <1>4, <1>5, <1>8, NullAssumption DEF Lends
<1> QED
  BY <1>1, <1>6, <1>7, <1>8

\* What a failed request leaves of the guest is what there was.
LEMMA AllocFails ==
  ASSUME IInv, NEW size \in Nat, size >= 1, alloc(size), ret' = Null \/ panicked',
         UNCHANGED <<launch, code, memory, old, frames, signal>>,
         old = Null, stage \in {"start", "loaded", "running"},
         stage' = "failed" \/ (stage' = stage /\ ~panicked')
  PROVE  IInv'
<1>1. /\ PoolInv' /\ LaunchInv' /\ prog' = prog /\ guest' = guest /\ Regions' = Regions
      /\ held' = held /\ next' >= next
  BY AllocOutcome
<1>2. HoldsInv' /\ MemoryInv'
  BY <1>1 DEF IInv, HoldsInv, MemoryInv, Owns
<1>3. StageInv'
  BY DEF IInv, StageInv, Owns
<1>4. next \in Nat /\ next' \in Nat /\ prog.regions \in Nat
  BY <1>1, ProgTypes DEF IInv, PoolInv, PoolTypes
<1>5. FramesInv'
  <2>1. \A c \in 2 * next' .. 2 * prog.regions - 1 : c \in 2 * next .. 2 * prog.regions - 1
    <3>1. next' >= next
      BY <1>1
    <3>2. \A a, b, m \in Nat : b >= a => \A c \in 2 * b .. 2 * m - 1 : c \in 2 * a .. 2 * m - 1
      OBVIOUS
    <3> QED
      BY <1>4, <3>1, <3>2
  <2>2. \A c \in 2 * next' .. 2 * prog.regions - 1 : frames[c] = "zero"
    BY <2>1 DEF IInv, FramesInv
  <2> QED
    BY <1>1, <2>2 DEF IInv, FramesInv, Owns
<1> QED
  BY <1>1, <1>2, <1>3, <1>5 DEF IInv

\* The cells of a block just lent are in the Frames, and blank.
LEMMA LentBlank ==
  ASSUME IInv, NEW n \in Nat, n >= 1, Lends(n)
  PROVE  /\ next \in Nat /\ next + n <= prog.regions /\ prog.regions \in Nat
         /\ next' = next + n /\ ret' = next
         /\ \A i \in 0 .. 2 * n - 1 : /\ 2 * next + i \in 0 .. 2 * prog.regions - 1
                                      /\ frames[2 * next + i] = "zero"
  BY ProgTypes DEF IInv, PoolInv, PoolTypes, Lends, FramesInv

LEMMA DeserializeInv ==
  ASSUME IInv, Deserialize
  PROVE  IInv'
<1> DEFINE n == Count(guest.code)
<1>1. guest.code \in Nat /\ guest.code >= 1
  BY ProgTypes DEF IInv
<1>2. n \in Nat /\ n >= 1 /\ guest.code <= 2 * n
  BY <1>1, CountCovers
<1>3. stage = "start" /\ alloc(guest.code) /\ UNCHANGED <<launch, old, signal>>
  BY DEF Deserialize, Loading
<1>4. code = Null /\ ~Owns /\ old = Null
  BY <1>3 DEF IInv, StageInv
<1>5. CASE ret' = Null \/ panicked'
  BY <1>1, <1>3, <1>4, <1>5, AllocFails DEF Deserialize, Loading
<1>6. CASE ~(ret' = Null \/ panicked')
  <2>1. /\ PoolInv' /\ LaunchInv' /\ prog' = prog /\ guest' = guest /\ Regions' = Regions
        /\ Lends(n) /\ ~panicked'
    BY <1>1, <1>3, <1>6, AllocOutcome
  <2>2. /\ stage' = "loaded" /\ code' = ret' /\ memory' = memory
        /\ frames' = [c \in DOMAIN frames |->
             IF c \in {Cell(ret', i) : i \in 0 .. guest.code - 1} THEN "code" ELSE frames[c]]
    BY <1>6 DEF Deserialize, Loading
  <2>3. /\ next \in Regions /\ held[next] = 0 /\ held' = [held EXCEPT ![next] = n]
        /\ ret' = next /\ held \in [Regions -> 0 .. prog.regions]
    BY <2>1 DEF Lends, IInv, PoolInv, PoolTypes
  <2>4. HoldsInv'
    <3>1. \A b \in Regions : held[b] = 0
      BY <1>4, NullAssumption DEF IInv, HoldsInv, Owns, Regions
    <3>2. held'[next] = n /\ \A b \in Regions : held'[b] # 0 => b = next
      BY <2>3, <3>1
    <3>3. ~Owns' /\ old' = Null
      BY <1>3, <1>4, <2>2 DEF Owns
    <3> QED
      BY <2>1, <2>2, <2>3, <3>2, <3>3 DEF HoldsInv
  <2>5. MemoryInv'
    BY <2>1, <2>2 DEF IInv, MemoryInv, Owns
  <2>6. StageInv'
    BY <1>3, <1>4, <2>1, <2>2 DEF IInv, StageInv, Owns
  <2>7. FramesInv'
    <3>1. /\ next \in Nat /\ next + n <= prog.regions /\ prog.regions \in Nat /\ next' = next + n
      BY <1>2, <2>1, LentBlank
    <3>2. frames' \in [0 .. 2 * prog.regions - 1 -> {"zero", "code", "data", "own"}]
      BY <2>2 DEF IInv, FramesInv
    <3>3. ASSUME NEW c \in 2 * next' .. 2 * prog.regions - 1
          PROVE  frames'[c] = "zero"
      <4>1. frames[c] = "zero" /\ c \in 0 .. 2 * prog.regions - 1
        BY <1>2, <3>1 DEF IInv, FramesInv
      <4>2. \A i \in 0 .. guest.code - 1 : c # Cell(ret', i)
        BY <1>1, <1>2, <2>3, <3>1 DEF Cell
      <4> QED
        BY <2>2, <4>1, <4>2 DEF IInv, FramesInv
    <3>4. ~Owns'
      BY <1>4, <2>2 DEF Owns
    <3> QED
      BY <2>1, <3>2, <3>3, <3>4 DEF FramesInv
  <2> QED
    BY <2>1, <2>4, <2>5, <2>6, <2>7 DEF IInv
<1> QED
  BY <1>5, <1>6

LEMMA InstantiateInv ==
  ASSUME IInv, Instantiate
  PROVE  IInv'
<1> DEFINE n == Count(Reserved)
<1>1. /\ guest.minimum \in 1 .. MaxLen /\ MaxLen \in Nat
      /\ Reserved \in Nat /\ Reserved >= 1 /\ guest.minimum <= Reserved
  BY ProgTypes DEF IInv, Instantiate, Reserved, MEMORY_RESERVATION
<1>2. n \in Nat /\ n >= 1 /\ Reserved <= 2 * n
  BY <1>1, CountCovers
<1>3. stage = "loaded" /\ alloc(Reserved) /\ UNCHANGED <<launch, old, signal>>
  BY DEF Instantiate, Loading
<1>4. ~Owns /\ old = Null
  BY <1>3 DEF IInv, StageInv
<1>5. CASE ret' = Null \/ panicked'
  BY <1>1, <1>3, <1>4, <1>5, AllocFails DEF Instantiate, Loading
<1>6. CASE ~(ret' = Null \/ panicked')
  <2>1. /\ PoolInv' /\ LaunchInv' /\ prog' = prog /\ guest' = guest /\ Regions' = Regions
        /\ Lends(n) /\ ~panicked'
    BY <1>1, <1>3, <1>6, AllocOutcome
  <2>2. /\ stage' = "running" /\ code' = code
        /\ memory' = [base |-> ret', len |-> guest.minimum, reserved |-> Reserved]
        /\ frames' = [frames EXCEPT ![Cell(ret', 0)] = "data"]
    BY <1>6 DEF Instantiate, Loading
  <2>3. /\ next \in Regions /\ held[next] = 0 /\ held' = [held EXCEPT ![next] = n]
        /\ ret' = next /\ held \in [Regions -> 0 .. prog.regions]
    BY <2>1 DEF Lends, IInv, PoolInv, PoolTypes
  <2>4. /\ memory'.base = next /\ memory'.len = guest.minimum /\ memory'.reserved = Reserved
        /\ next # Null /\ Owns'
    BY <2>2, <2>3, NullAssumption DEF Owns, Regions
  <2>5. HoldsInv'
    <3>1. \A b \in Regions : held[b] # 0 => b = code
      BY <1>4, NullAssumption DEF IInv, HoldsInv, Owns, Regions
    <3>2. held'[next] = n /\ \A b \in Regions : b # next => held'[b] = held[b]
      BY <2>3
    <3>3. code # Null => code \in Regions /\ held[code] = Count(guest.code) /\ code # next
      <4>1. Count(guest.code) >= 1 /\ Count(guest.code) \in Nat
        BY ProgTypes, CountCovers DEF IInv
      <4> QED
        BY <2>3, <4>1 DEF IInv, HoldsInv
    <3> QED
      BY <1>3, <1>4, <2>1, <2>2, <2>3, <2>4, <3>1, <3>2, <3>3 DEF HoldsInv
  <2>6. MemoryInv'
    BY <1>1, <2>1, <2>2, <2>3, <2>4 DEF MemoryInv
  <2>7. StageInv'
    BY <1>3, <1>4, <2>1, <2>2 DEF IInv, StageInv
  <2>8. FramesInv'
    <3>1. /\ next \in Nat /\ next + n <= prog.regions /\ prog.regions \in Nat /\ next' = next + n
          /\ \A i \in 0 .. 2 * n - 1 : /\ 2 * next + i \in 0 .. 2 * prog.regions - 1
                                       /\ frames[2 * next + i] = "zero"
      BY <1>2, <2>1, LentBlank
    <3>2. frames' \in [0 .. 2 * prog.regions - 1 -> {"zero", "code", "data", "own"}]
      BY <2>2 DEF IInv, FramesInv
    <3>3. \A c \in 0 .. 2 * prog.regions - 1 : c # 2 * next => frames'[c] = frames[c]
      BY <2>2, <2>3, <3>1 DEF IInv, FramesInv, Cell
    <3>4. \A c \in 2 * next' .. 2 * prog.regions - 1 : frames'[c] = "zero"
      BY <1>2, <3>1, <3>3 DEF IInv, FramesInv
    <3>5. \A i \in guest.minimum .. 2 * n - 1 : frames'[2 * next + i] = "zero"
      BY <1>1, <1>2, <3>1, <3>3
    <3> QED
      BY <2>1, <2>4, <3>2, <3>4, <3>5 DEF FramesInv
  <2> QED
    BY <2>1, <2>5, <2>6, <2>7, <2>8 DEF IInv
<1> QED
  BY <1>5, <1>6

\* The cells of the memory are within the Frames, below the bump index.
LEMMA MemoryCells ==
  ASSUME IInv, Owns
  PROVE  /\ memory.base \in Nat /\ memory.len \in Nat /\ memory.reserved \in Nat
         /\ memory.len >= 1 /\ memory.len <= memory.reserved /\ memory.len <= MaxLen
         /\ Count(memory.reserved) \in Nat
         /\ held[memory.base] = Count(memory.reserved) /\ held[memory.base] # 0
         /\ memory.reserved <= 2 * Count(memory.reserved)
         /\ memory.base + Count(memory.reserved) <= next
         /\ next \in Nat /\ next <= prog.regions /\ prog.regions \in Nat /\ memory.base \in Regions
<1>1. /\ memory.len \in Nat /\ memory.reserved \in Nat /\ memory.len <= MaxLen
      /\ memory.len >= 1 /\ memory.len <= memory.reserved /\ memory.reserved >= 1
  BY ProgTypes DEF IInv, MemoryInv
<1>2. /\ Count(memory.reserved) \in Nat /\ Count(memory.reserved) >= 1
      /\ memory.reserved <= 2 * Count(memory.reserved)
  BY <1>1, CountCovers
<1>3. memory.base \in Regions /\ held[memory.base] = Count(memory.reserved)
  BY DEF IInv, HoldsInv
<1>4. prog.regions \in Nat
  BY ProgTypes DEF IInv
<1> QED
  BY <1>1, <1>2, <1>3, <1>4, HeldBelow DEF IInv

\* A step that leaves the arena alone leaves its invariant.
LEMMA ArenaKept ==
  ASSUME IInv, UNCHANGED <<launch, arena>>
  PROVE  /\ LaunchInv' /\ PoolInv' /\ prog' = prog /\ guest' = guest /\ Regions' = Regions
         /\ next' = next /\ held' = held /\ mapped' = mapped /\ panicked' = panicked
  BY DEF IInv, launch, arena, LaunchInv, Regions, PoolInv, PoolTypes, SlotInv, SlotsDistinct,
         HolderInv, Disjoint, MapInv, Block

LEMMA StoreInv ==
  ASSUME IInv, NEW i \in Nat, Store(i)
  PROVE  IInv'
<1>1. /\ Owns /\ i \in {0, memory.len - 1} /\ frames' = [frames EXCEPT ![Cell(memory.base, i)] = "own"]
      /\ UNCHANGED <<launch, stage, code, memory, old, signal, arena>>
  BY DEF Store
<1>2. /\ LaunchInv' /\ PoolInv' /\ prog' = prog /\ guest' = guest /\ Regions' = Regions
      /\ next' = next /\ held' = held /\ panicked' = panicked
  BY <1>1, ArenaKept
<1>3. HoldsInv' /\ MemoryInv' /\ StageInv' /\ Owns' = Owns
  BY <1>1, <1>2 DEF IInv, HoldsInv, MemoryInv, StageInv, Owns
<1>4. FramesInv'
  <2>1. /\ memory.base \in Nat /\ memory.len \in Nat /\ memory.len >= 1
        /\ memory.len <= 2 * Count(memory.reserved) /\ Count(memory.reserved) \in Nat
        /\ memory.base + Count(memory.reserved) <= next /\ next \in Nat
        /\ next <= prog.regions /\ prog.regions \in Nat
    BY <1>1, MemoryCells
  <2>2. frames' \in [0 .. 2 * prog.regions - 1 -> {"zero", "code", "data", "own"}]
    BY <1>1 DEF IInv, FramesInv
  <2>3. \A c \in 0 .. 2 * prog.regions - 1 : c # 2 * memory.base + i => frames'[c] = frames[c]
    BY <1>1 DEF IInv, FramesInv, Cell
  <2>4. i \in 0 .. memory.len - 1
    BY <1>1, <2>1
  <2>5. ASSUME NEW c \in 2 * next .. 2 * prog.regions - 1
        PROVE  frames'[c] = "zero"
    <3>1. c \in 0 .. 2 * prog.regions - 1 /\ c # 2 * memory.base + i
      BY <2>1, <2>4
    <3> QED
      BY <2>3, <3>1 DEF IInv, FramesInv
  <2>6. ASSUME NEW j \in memory.len .. 2 * Count(memory.reserved) - 1
        PROVE  frames'[2 * memory.base + j] = "zero"
    <3>1. 2 * memory.base + j \in 0 .. 2 * prog.regions - 1 /\ 2 * memory.base + j # 2 * memory.base + i
      BY <2>1, <2>4
    <3> QED
      BY <1>1, <2>3, <3>1 DEF IInv, FramesInv
  <2> QED
    BY <1>1, <1>2, <2>2, <2>5, <2>6 DEF FramesInv
<1> QED
  BY <1>2, <1>3, <1>4 DEF IInv

LEMMA GrowInPlaceInv ==
  ASSUME IInv, NEW n \in Nat, GrowInPlace(n)
  PROVE  IInv'
<1>1. /\ Owns /\ memory.len + n <= memory.reserved /\ memory.len + n <= MaxLen
      /\ memory' = [memory EXCEPT !.len = @ + n]
      /\ UNCHANGED <<launch, stage, code, old, frames, signal, arena>>
  BY DEF GrowInPlace
<1>2. /\ LaunchInv' /\ PoolInv' /\ prog' = prog /\ guest' = guest /\ Regions' = Regions
      /\ next' = next /\ held' = held /\ panicked' = panicked
  BY <1>1, ArenaKept
<1>3. /\ memory \in [base : Regions \cup {Null}, len : 0 .. MaxLen, reserved : Nat]
      /\ MaxLen \in Nat
  BY ProgTypes DEF IInv, MemoryInv
<1>4. /\ memory'.base = memory.base /\ memory'.len = memory.len + n
      /\ memory'.reserved = memory.reserved /\ Owns'
  BY <1>1, <1>3 DEF Owns
<1>5. MemoryInv'
  BY <1>1, <1>2, <1>3, <1>4, MemoryCells DEF MemoryInv
<1>6. HoldsInv' /\ StageInv'
  BY <1>1, <1>2, <1>4 DEF IInv, HoldsInv, StageInv
<1>7. FramesInv'
  <2>1. memory.len \in Nat /\ Count(memory.reserved) \in Nat
    BY <1>1, MemoryCells
  <2>2. \A i \in memory.len + n .. 2 * Count(memory.reserved) - 1 :
          i \in memory.len .. 2 * Count(memory.reserved) - 1
    BY <2>1
  <2>3. \A i \in memory.len + n .. 2 * Count(memory.reserved) - 1 :
          frames[2 * memory.base + i] = "zero"
    BY <1>1, <2>2 DEF IInv, FramesInv
  <2> QED
    BY <1>1, <1>2, <1>4, <2>3 DEF IInv, FramesInv
<1> QED
  BY <1>2, <1>5, <1>6, <1>7 DEF IInv

\* A memory that moves takes its contents to a fresh block and leaves the rest of
\* it blank.
LEMMA GrowByMovingInv ==
  ASSUME IInv, NEW n \in Nat, GrowByMoving(n)
  PROVE  IInv'
<1> DEFINE size == memory.len + n + MEMORY_RESERVATION
           k == Count(size)
<1>1. /\ stage = "running" /\ old = Null /\ Owns /\ memory.len + n <= MaxLen /\ alloc(size)
      /\ UNCHANGED <<launch, code, signal>>
  BY DEF GrowByMoving, Running
<1>2. /\ memory.base \in Nat /\ memory.len \in Nat /\ memory.len >= 1
      /\ memory.len <= 2 * Count(memory.reserved) /\ Count(memory.reserved) \in Nat
      /\ memory.base + Count(memory.reserved) <= next /\ next \in Nat
      /\ next <= prog.regions /\ prog.regions \in Nat /\ memory.base \in Regions
      /\ held[memory.base] # 0
  BY <1>1, MemoryCells
<1>3. size \in Nat /\ size >= 1 /\ memory.len + n <= size
  BY <1>2 DEF MEMORY_RESERVATION
<1>4. k \in Nat /\ k >= 1 /\ size <= 2 * k
  BY <1>3, CountCovers
<1>5. CASE ret' = Null \/ panicked'
  BY <1>1, <1>3, <1>5, AllocFails DEF GrowByMoving
<1>6. CASE ~(ret' = Null \/ panicked')
  <2>1. /\ PoolInv' /\ LaunchInv' /\ prog' = prog /\ guest' = guest /\ Regions' = Regions
        /\ Lends(k) /\ ~panicked'
    BY <1>1, <1>3, <1>6, AllocOutcome
  <2>2. /\ memory' = [base |-> ret', len |-> memory.len + n, reserved |-> size]
        /\ old' = memory.base /\ stage' = stage
        /\ frames' = [c \in DOMAIN frames |->
             IF c \in {Cell(ret', i) : i \in 0 .. memory.len - 1}
             THEN frames[Cell(memory.base, c - Cell(ret', 0))] ELSE frames[c]]
    BY <1>6 DEF GrowByMoving
  <2>3. /\ next \in Regions /\ held[next] = 0 /\ held' = [held EXCEPT ![next] = k]
        /\ ret' = next /\ held \in [Regions -> 0 .. prog.regions]
    BY <2>1 DEF Lends, IInv, PoolInv, PoolTypes
  <2>4. /\ memory'.base = next /\ memory'.len = memory.len + n /\ memory'.reserved = size
        /\ next # Null /\ Owns' /\ old' # Null
    BY <1>1, <2>2, <2>3, NullAssumption DEF Owns, Regions
  <2>5. held'[next] = k /\ \A b \in Regions : b # next => held'[b] = held[b]
    BY <2>3
  <2>6. HoldsInv'
    <3>1. \A b \in Regions : held[b] # 0 => b \in {code, memory.base}
      BY <1>1, NullAssumption DEF IInv, HoldsInv, Regions
    <3>2. code # Null => code \in Regions /\ held[code] = Count(guest.code) /\ code # next
      <4>1. Count(guest.code) >= 1 /\ Count(guest.code) \in Nat
        BY ProgTypes, CountCovers DEF IInv
      <4> QED
        BY <2>3, <4>1 DEF IInv, HoldsInv
    <3>3. memory.base # next /\ memory.base # code
      BY <1>1, <1>2, <2>3 DEF IInv, HoldsInv
    <3> QED
      BY <1>1, <1>2, <2>1, <2>2, <2>3, <2>4, <2>5, <3>1, <3>2, <3>3 DEF HoldsInv
  <2>7. MemoryInv'
    <3>1. memory.len + n \in 0 .. MaxLen
      BY <1>1, <1>2, ProgTypes DEF IInv
    <3>2. memory' \in [base : Regions \cup {Null}, len : 0 .. MaxLen, reserved : Nat]
      BY <1>3, <2>2, <2>3, <3>1
    <3> QED
      BY <1>2, <1>3, <2>1, <2>4, <3>2 DEF MemoryInv
  <2>8. StageInv'
    BY <1>1, <2>1, <2>2 DEF IInv, StageInv
  <2>9. FramesInv'
    <3>1. /\ next + k <= prog.regions /\ next' = next + k
          /\ \A i \in 0 .. 2 * k - 1 : /\ 2 * next + i \in 0 .. 2 * prog.regions - 1
                                       /\ frames[2 * next + i] = "zero"
      BY <1>4, <2>1, LentBlank
    <3>2. frames \in [0 .. 2 * prog.regions - 1 -> {"zero", "code", "data", "own"}]
      BY DEF IInv, FramesInv
    <3>3. \A c \in 0 .. 2 * prog.regions - 1 :
            \/ \E i \in 0 .. memory.len - 1 :
                 c = 2 * next + i /\ frames'[c] = frames[2 * memory.base + i]
            \/ (\A i \in 0 .. memory.len - 1 : c # 2 * next + i) /\ frames'[c] = frames[c]
      <4> TAKE c \in 0 .. 2 * prog.regions - 1
      <4>1. CASE \E i \in 0 .. memory.len - 1 : c = Cell(ret', i)
        <5>1. PICK i \in 0 .. memory.len - 1 : c = Cell(ret', i)
          BY <4>1
        <5>2. Cell(memory.base, c - Cell(ret', 0)) = 2 * memory.base + i /\ c = 2 * next + i
          BY <1>2, <2>3, <5>1 DEF Cell
        <5>3. frames'[c] = frames[Cell(memory.base, c - Cell(ret', 0))]
          BY <2>2, <3>2, <5>1
        <5> QED
          BY <5>2, <5>3
      <4>2. CASE ~\E i \in 0 .. memory.len - 1 : c = Cell(ret', i)
        <5>1. frames'[c] = frames[c]
          BY <2>2, <3>2, <4>2
        <5>2. \A i \in 0 .. memory.len - 1 : c # 2 * next + i
          BY <2>3, <4>2 DEF Cell
        <5> QED
          BY <5>1, <5>2
      <4> QED
        BY <4>1, <4>2
    <3>4. frames' \in [0 .. 2 * prog.regions - 1 -> {"zero", "code", "data", "own"}]
      <4>1. \A i \in 0 .. memory.len - 1 : 2 * memory.base + i \in 0 .. 2 * prog.regions - 1
        BY <1>2
      <4>2. \A c \in 0 .. 2 * prog.regions - 1 : frames'[c] \in {"zero", "code", "data", "own"}
        BY <3>2, <3>3, <4>1
      <4>3. frames' = [c \in 0 .. 2 * prog.regions - 1 |-> frames'[c]]
        BY <2>2, <3>2
      <4> QED
        BY <4>2, <4>3
    <3>5. \A c \in 2 * next' .. 2 * prog.regions - 1 : frames'[c] = "zero"
      <4> TAKE c \in 2 * next' .. 2 * prog.regions - 1
      <4>1. frames[c] = "zero" /\ c \in 0 .. 2 * prog.regions - 1
        BY <1>2, <1>4, <3>1 DEF IInv, FramesInv
      <4>2. \A i \in 0 .. memory.len - 1 : c # 2 * next + i
        BY <1>2, <1>3, <1>4, <3>1
      <4> QED
        BY <3>3, <4>1, <4>2
    <3>6. \A i \in memory.len + n .. 2 * k - 1 : frames'[2 * next + i] = "zero"
      <4> TAKE i \in memory.len + n .. 2 * k - 1
      <4>1. i \in 0 .. 2 * k - 1 /\ \A j \in 0 .. memory.len - 1 : 2 * next + i # 2 * next + j
        BY <1>2, <1>4
      <4> QED
        BY <3>1, <3>3, <4>1
    <3> QED
      BY <2>1, <2>4, <3>4, <3>5, <3>6 DEF FramesInv
  <2> QED
    BY <2>1, <2>6, <2>7, <2>8, <2>9 DEF IInv
<1> QED
  BY <1>5, <1>6

\* What is given back was held, and nothing else changes hands.
LEMMA Freed ==
  ASSUME IInv, NEW b \in Regions, held[b] # 0, dealloc(b), UNCHANGED launch
  PROVE  /\ PoolInv' /\ LaunchInv' /\ prog' = prog /\ guest' = guest /\ Regions' = Regions
         /\ held'[b] = 0 /\ \A c \in Regions : c # b => held'[c] = held[c]
         /\ next' = next /\ ~panicked /\ ~panicked'
<1>1. PoolInv'
  BY DeallocInv DEF IInv
<1>2. ~panicked /\ Frees(b)
  BY DeallocFrees DEF IInv
<1> QED
  BY <1>1, <1>2 DEF IInv, Frees, PoolInv, PoolTypes, LaunchInv, launch, Regions

LEMMA DropOldInv ==
  ASSUME IInv, DropOld
  PROVE  IInv'
<1>1. old # Null /\ dealloc(old) /\ old' = Null /\ UNCHANGED <<launch, stage, code, memory, frames, signal>>
  BY DEF DropOld
<1>2. old \in Regions /\ held[old] # 0 /\ old \notin {code, memory.base}
  BY <1>1 DEF IInv, HoldsInv
<1>3. /\ PoolInv' /\ LaunchInv' /\ prog' = prog /\ guest' = guest /\ Regions' = Regions
      /\ held'[old] = 0 /\ (\A c \in Regions : c # old => held'[c] = held[c])
      /\ next' = next /\ ~panicked'
  BY <1>1, <1>2, Freed
<1>4. HoldsInv'
  BY <1>1, <1>2, <1>3 DEF IInv, HoldsInv, Owns
<1>5. MemoryInv' /\ StageInv' /\ FramesInv'
  BY <1>1, <1>3 DEF IInv, MemoryInv, StageInv, FramesInv, Owns
<1> QED
  BY <1>3, <1>4, <1>5 DEF IInv

LEMMA DropMemoryInv ==
  ASSUME IInv, DropMemory
  PROVE  IInv'
<1>1. /\ stage \in {"done", "wrong", "failed"} /\ Owns /\ dealloc(memory.base) /\ memory' = NoMemory
      /\ UNCHANGED <<launch, stage, code, old, frames, signal>>
  BY DEF DropMemory, Ended
<1>2. memory.base \in Regions /\ held[memory.base] # 0 /\ memory.base # code
  BY <1>1, MemoryCells DEF IInv, HoldsInv
<1>3. old = Null
  BY <1>1 DEF IInv, StageInv
<1>4. /\ PoolInv' /\ LaunchInv' /\ prog' = prog /\ guest' = guest /\ Regions' = Regions
      /\ held'[memory.base] = 0 /\ (\A c \in Regions : c # memory.base => held'[c] = held[c])
      /\ next' = next /\ ~panicked'
  BY <1>1, <1>2, Freed
<1>5. ~Owns' /\ memory'.len = 0 /\ memory'.reserved = 0 /\ memory'.base = Null
  BY <1>1 DEF Owns, NoMemory
<1>6. HoldsInv'
  BY <1>1, <1>2, <1>3, <1>4, <1>5, NullAssumption DEF IInv, HoldsInv, Regions
<1>7. MemoryInv'
  BY <1>1, <1>4, <1>5, ProgTypes DEF IInv, MemoryInv, NoMemory
<1>8. StageInv' /\ FramesInv'
  BY <1>1, <1>3, <1>4, <1>5 DEF IInv, StageInv, FramesInv
<1> QED
  BY <1>4, <1>6, <1>7, <1>8 DEF IInv

LEMMA DropCodeInv ==
  ASSUME IInv, DropCode
  PROVE  IInv'
<1>1. /\ stage \in {"done", "wrong", "failed"} /\ ~Owns /\ code # Null /\ dealloc(code) /\ code' = Null
      /\ UNCHANGED <<launch, stage, memory, old, frames, signal>>
  BY DEF DropCode, Ended
<1>2. code \in Regions /\ held[code] # 0
  <2>1. Count(guest.code) >= 1 /\ Count(guest.code) \in Nat
    BY ProgTypes, CountCovers DEF IInv
  <2> QED
    BY <1>1, <2>1 DEF IInv, HoldsInv
<1>3. old = Null
  BY <1>1 DEF IInv, StageInv
<1>4. /\ PoolInv' /\ LaunchInv' /\ prog' = prog /\ guest' = guest /\ Regions' = Regions
      /\ held'[code] = 0 /\ (\A c \in Regions : c # code => held'[c] = held[c])
      /\ next' = next /\ ~panicked'
  BY <1>1, <1>2, Freed
<1>5. ~Owns'
  BY <1>1 DEF Owns
<1>6. HoldsInv'
  BY <1>1, <1>3, <1>4, <1>5, NullAssumption DEF IInv, HoldsInv, Regions
<1>7. MemoryInv' /\ StageInv' /\ FramesInv'
  BY <1>1, <1>3, <1>4, <1>5 DEF IInv, MemoryInv, StageInv, FramesInv, Owns
<1> QED
  BY <1>4, <1>6, <1>7 DEF IInv

\* The steps of the program that touch neither arena nor memory.
LEMMA OtherInv ==
  ASSUME IInv, InstantiateWithoutMemory \/ Return \/ Report \/ UNCHANGED vars
  PROVE  IInv'
<1>1. UNCHANGED <<launch, code, memory, old, frames, arena>>
  BY DEF InstantiateWithoutMemory, Return, Report, vars
<1>2. /\ LaunchInv' /\ PoolInv' /\ prog' = prog /\ guest' = guest /\ Regions' = Regions
      /\ next' = next /\ held' = held /\ panicked' = panicked
  BY <1>1, ArenaKept
<1>3. HoldsInv' /\ MemoryInv' /\ FramesInv'
  BY <1>1, <1>2 DEF IInv, HoldsInv, MemoryInv, FramesInv, Owns
<1>4. Owns' = Owns
  BY <1>1 DEF Owns
<1>5. ASSUME InstantiateWithoutMemory PROVE StageInv'
  BY <1>1, <1>2, <1>4, <1>5 DEF InstantiateWithoutMemory, IInv, StageInv
<1>6. ASSUME Return PROVE StageInv'
  BY <1>1, <1>2, <1>4, <1>6 DEF Return, Running, IInv, StageInv
<1>7. ASSUME Report PROVE StageInv'
  BY <1>1, <1>2, <1>4, <1>7 DEF Report, Ended, IInv, StageInv
<1>8. ASSUME UNCHANGED vars PROVE StageInv'
  BY <1>1, <1>2, <1>4, <1>8 DEF vars, IInv, StageInv
<1> QED
  BY <1>2, <1>3, <1>5, <1>6, <1>7, <1>8 DEF IInv

\* Every step keeps the invariant (platform.rs:102-162, verified.rs:74-90).
THEOREM StepInv == IInv /\ [Next]_vars => IInv'
<1> SUFFICES ASSUME IInv, [Next]_vars PROVE IInv'
  OBVIOUS
<1>1. \A n \in 1 .. MaxLen : n \in Nat /\ n - 1 \in Nat
  BY ProgTypes DEF IInv
<1>2. CASE Deserialize
  BY <1>2, DeserializeInv
<1>3. CASE Instantiate
  BY <1>3, InstantiateInv
<1>4. ASSUME NEW n \in 1 .. MaxLen, Store(n - 1) \/ GrowInPlace(n) \/ GrowByMoving(n)
      PROVE  IInv'
  BY <1>1, <1>4, StoreInv, GrowInPlaceInv, GrowByMovingInv
<1>5. CASE DropOld
  BY <1>5, DropOldInv
<1>6. CASE DropMemory
  BY <1>6, DropMemoryInv
<1>7. CASE DropCode
  BY <1>7, DropCodeInv
<1>8. CASE InstantiateWithoutMemory \/ Return \/ Report \/ Parked \/ UNCHANGED vars
  BY <1>8, OtherInv DEF Parked
<1> QED
  BY <1>2, <1>3, <1>4, <1>5, <1>6, <1>7, <1>8 DEF Next

\* The strengthened invariant holds in every reachable state.
THEOREM Invariance == Spec => []IInv
<1>1. Init => IInv
  BY InitInv
<1> QED
  BY <1>1, StepInv, PTL DEF Spec

------------------------------------------------------------------------------
(* The invariants the runs check *)

\* Every variable keeps its type, the arena's included: a memory is never longer
\* than what is reserved for it, and only granted Frames are mapped.
THEOREM TypeCorrect == Spec => []TypeOK
<1>1. IInv => TypeOK
  <2> SUFFICES ASSUME IInv PROVE TypeOK
    OBVIOUS
  <2>1. \A p \in Programs : p = prog => Pool(p)!TypeOK
    BY DEF IInv, PoolInv, PoolTypes, Regions, Pool!TypeOK, Pool!Regions
  <2>2. memory.len \in 0 .. MaxLen /\ memory.len <= memory.reserved
    BY DEF IInv, MemoryInv
  <2> QED
    BY <2>1, <2>2 DEF IInv, StageInv, FramesInv, TypeOK
<1> QED
  BY <1>1, Invariance, PTL

\* Right, wrong, trapped or never started: without a panic its Frames are given back,
\* stuck ones aside, before the guest's outcome is signalled (platform.rs:148-162).
THEOREM NothingStaysMapped == Spec => []NothingLeaked
<1>1. IInv => NothingLeaked
  <2> SUFFICES ASSUME IInv, signal # Null, ~panicked PROVE mapped \subseteq prog.stuck
    BY DEF NothingLeaked
  <2>1. stage = "parked" /\ code = Null /\ ~Owns /\ old = Null
    BY DEF IInv, StageInv
  <2>2. \A b \in Regions : held[b] = 0
    BY <2>1, NullAssumption DEF IInv, HoldsInv, Owns, Regions
  <2> QED
    BY <2>2 DEF IInv, PoolInv, MapInv
<1> QED
  BY <1>1, Invariance, PTL

\* A guest its pool was sized for is lent what it starts with, and a growth past the
\* reservation is either refused or finds every Frame granted.
LEMMA SizedStep ==
  ASSUME IInv, SizedInv, [Next]_vars
  PROVE  SizedInv'
<1> SUFFICES ASSUME SizedFor(guest)' PROVE SizedInv'
  BY DEF SizedInv
<1>1. prog' = prog /\ guest' = guest
  BY DEF Next, vars, launch, Deserialize, Instantiate, InstantiateWithoutMemory, Loading, Store,
         GrowInPlace, GrowByMoving, DropOld, Return, DropMemory, DropCode, Report, Parked
<1>2. SizedFor(guest) /\ guest.code <= 2 /\ guest.minimum <= 4
  BY <1>1 DEF SizedFor, MEMORY_RESERVATION
<1>3. /\ 0 .. (IF guest.minimum = 0 THEN 0 ELSE 2) \subseteq prog.granted
      /\ prog.granted = Regions \/ prog.regions < 8
  BY <1>2, SizedAssumption DEF IInv, LaunchInv, Regions
<1>4. /\ prog.regions \in Nat \ {0} /\ prog.granted \subseteq Regions /\ next \in Nat
      /\ guest.code \in Nat \ {0} /\ guest.minimum \in Nat
  BY ProgTypes DEF IInv, PoolInv, PoolTypes
<1>5. /\ stage # "failed" /\ ~panicked
      /\ stage = "start" => next = 0
      /\ stage = "loaded" => next = 1
      /\ Owns => next >= 3 /\ memory.reserved >= 4
  BY <1>2 DEF SizedInv, MEMORY_RESERVATION
<1>6. CASE Deserialize
  <2>1. stage = "start" /\ alloc(guest.code) /\ ~Owns
    BY <1>6 DEF Deserialize, Loading, IInv, StageInv
  <2>2. Count(guest.code) = 1
    BY <1>2, <1>4 DEF Count
  <2>3. Refused(1) \/ Panics(1) \/ Lends(1)
    BY <1>4, <2>1, <2>2, AllocCases DEF IInv
  <2>4. ~Refused(1) /\ ~Panics(1)
    BY <1>3, <1>4, <1>5, <2>1 DEF Refused, Panics, Block
  <2>5. next' = 1 /\ ret' # Null /\ panicked' = FALSE
    BY <1>4, <1>5, <2>1, <2>3, <2>4, NullAssumption DEF Lends
  <2>6. stage' = "loaded" /\ memory' = memory
    BY <1>6, <2>5 DEF Deserialize, Loading
  <2> QED
    BY <2>1, <2>5, <2>6 DEF SizedInv, Owns
<1>7. CASE Instantiate
  <2>1. stage = "loaded" /\ alloc(Reserved) /\ guest.minimum > 0
    BY <1>7 DEF Instantiate, Loading
  <2>2. Reserved = 4 /\ Count(4) = 2
    BY <1>2, <1>4 DEF Reserved, MEMORY_RESERVATION, Count
  <2>3. Refused(2) \/ Panics(2) \/ Lends(2)
    BY <2>1, <2>2, AllocCases DEF IInv
  <2>4. 0 .. 2 \subseteq prog.granted /\ prog.regions >= 3
    <3>1. 0 .. 2 \subseteq prog.granted
      BY <1>3, <2>1
    <3>2. 2 \in Regions
      BY <1>4, <3>1
    <3> QED
      BY <1>4, <3>1, <3>2 DEF Regions
  <2>5. ~Refused(2) /\ ~Panics(2)
    BY <1>4, <1>5, <2>1, <2>4 DEF Refused, Panics, Block
  <2>6. next' = 3 /\ ret' # Null /\ panicked' = FALSE
    BY <1>4, <1>5, <2>1, <2>3, <2>5, NullAssumption DEF Lends
  <2>7. stage' = "running" /\ memory' = [base |-> ret', len |-> guest.minimum, reserved |-> 4]
    BY <1>7, <2>2, <2>6 DEF Instantiate, Loading
  <2> QED
    BY <2>6, <2>7 DEF SizedInv, MEMORY_RESERVATION
<1>8. ASSUME NEW n \in 1 .. MaxLen, GrowByMoving(n)
      PROVE  SizedInv'
  <2> DEFINE size == memory.len + n + MEMORY_RESERVATION
             k == Count(size)
  <2>1. Owns /\ stage = "running" /\ alloc(size) /\ memory.len + n > memory.reserved
    BY <1>8 DEF GrowByMoving, Running
  <2>2. memory.len \in Nat /\ memory.reserved \in Nat /\ n \in Nat
    BY <2>1, MemoryCells, ProgTypes DEF IInv
  <2>3. size \in Nat /\ size >= 9
    BY <1>5, <2>1, <2>2 DEF MEMORY_RESERVATION
  <2>4. k \in Nat /\ k >= 5
    BY <2>3, CountCovers
  <2>5. Refused(k) \/ Panics(k) \/ Lends(k)
    BY <2>1, <2>3, AllocCases DEF IInv
  <2>6. ~Panics(k)
    <3> SUFFICES ASSUME Panics(k) PROVE FALSE
      OBVIOUS
    <3>1. next + k <= prog.regions /\ ~(Block(next, k) \subseteq prog.granted)
      BY DEF Panics
    <3>2. prog.granted = Regions
      BY <1>3, <1>4, <1>5, <2>1, <2>4, <3>1
    <3> QED
      BY <1>4, <2>4, <3>1, <3>2 DEF Block, Regions
  <2>7. next' >= next /\ next' \in Nat /\ panicked' = FALSE
    BY <1>4, <1>5, <2>4, <2>5, <2>6 DEF Refused, Lends
  <2>8. stage' = "running" /\ (memory' = memory \/ memory'.reserved = size)
    BY <1>8, <2>1, <2>7 DEF GrowByMoving
  <2> QED
    BY <1>4, <1>5, <2>1, <2>2, <2>3, <2>7, <2>8 DEF SizedInv, MEMORY_RESERVATION, Owns
<1>9. ASSUME NEW b \in Regions, held[b] # 0, dealloc(b), UNCHANGED <<launch, stage>>,
             memory' = memory \/ memory' = NoMemory
      PROVE  SizedInv'
  <2>1. next' = next /\ ~panicked'
    BY <1>9, Freed
  <2> QED
    BY <1>5, <1>9, <2>1 DEF SizedInv, MEMORY_RESERVATION, Owns, NoMemory
<1>10. CASE DropOld
  BY <1>9, <1>10 DEF DropOld, IInv, HoldsInv
<1>11. CASE DropMemory
  BY <1>9, <1>11, MemoryCells DEF DropMemory
<1>12. CASE DropCode
  <2>1. Count(guest.code) >= 1 /\ Count(guest.code) \in Nat
    BY ProgTypes, CountCovers DEF IInv
  <2> QED
    BY <1>9, <1>12, <2>1 DEF DropCode, IInv, HoldsInv
<1>13. ASSUME NEW n \in 1 .. MaxLen, Store(n - 1) \/ GrowInPlace(n)
       PROVE  SizedInv'
  <2>1. UNCHANGED <<stage, next, panicked>> /\ memory'.reserved = memory.reserved /\ Owns
    BY <1>13 DEF Store, GrowInPlace, arena, IInv, MemoryInv
  <2> QED
    BY <1>5, <2>1 DEF SizedInv, MEMORY_RESERVATION
<1>14. CASE InstantiateWithoutMemory \/ Return \/ Report \/ Parked \/ UNCHANGED vars
  <2>1. UNCHANGED <<next, panicked, memory>>
    BY <1>14 DEF InstantiateWithoutMemory, Return, Report, Parked, vars, arena
  <2>2. stage' # "failed" /\ (stage' \in {"start", "loaded"} => stage' = stage)
    BY <1>5, <1>14 DEF InstantiateWithoutMemory, Return, Report, Parked, vars
  <2> QED
    BY <1>5, <2>1, <2>2 DEF SizedInv, MEMORY_RESERVATION, Owns
<1> QED
  BY <1>6, <1>7, <1>8, <1>10, <1>11, <1>12, <1>13, <1>14 DEF Next

\* The guests a pool was sized for never meet its limits, not by growing either: no
\* growth ever reaches a slot the loader left empty (platform.rs:79-85,
\* verified.rs:83-88).
THEOREM SizedGuestsAreSafe == Spec => []SizedGuestsRun
<1>1. Init => SizedInv
  <2> SUFFICES ASSUME Init PROVE SizedInv
    OBVIOUS
  <2>1. PICK p \in Programs : p = prog /\ Pool(p)!Init
    BY DEF Init
  <2>2. next = 0 /\ panicked = FALSE
    BY <2>1 DEF Pool!Init
  <2> QED
    BY <2>2 DEF Init, SizedInv, Owns, NoMemory
<1>2. IInv /\ SizedInv /\ [Next]_vars => SizedInv'
  BY SizedStep
<1>3. SizedInv => SizedGuestsRun
  BY DEF SizedInv, SizedGuestsRun
<1> QED
  BY <1>1, <1>2, <1>3, Invariance, PTL DEF Spec

------------------------------------------------------------------------------
(* The memory implements LinearMemory *)

Bytes == {"zero", "code", "data", "own"}

\* The memory's image in the Frames.
Image == [i \in 1 .. memory.len |-> frames[2 * memory.base + (i - 1)]]

Reads ==
  /\ Owns => Cells = Image /\ Image \in [1 .. memory.len -> Bytes]
  /\ ~Owns => Cells = << >>

\* What the guest reads is that image: all of it is mapped, even after a panic.
LEMMA ReadsItsFrames == IInv => Reads
<1> SUFFICES ASSUME IInv PROVE Reads
  OBVIOUS
<1>1. ASSUME Owns
      PROVE  Cells = Image /\ Image \in [1 .. memory.len -> Bytes]
  <2> DEFINE k == Count(memory.reserved)
  <2>1. /\ memory.base \in Nat /\ memory.len \in Nat /\ k \in Nat /\ memory.len <= 2 * k
        /\ memory.base + k <= next /\ next \in Nat /\ next <= prog.regions /\ prog.regions \in Nat
        /\ memory.base \in Regions /\ held[memory.base] = k /\ held[memory.base] # 0
    BY <1>1, MemoryCells
  <2>2. Block(memory.base, k) \subseteq mapped
    BY <2>1 DEF IInv, PoolInv, MapInv
  <2>3. ASSUME NEW i \in 1 .. memory.len
        PROVE  /\ Read(i - 1) = frames[2 * memory.base + (i - 1)]
               /\ frames[2 * memory.base + (i - 1)] \in Bytes
    <3> DEFINE c == 2 * memory.base + (i - 1)
    <3>1. c \in 0 .. 2 * prog.regions - 1 /\ c \div 2 \in memory.base .. memory.base + k - 1
      BY <2>1
    <3>2. Read(i - 1) = frames[c]
      BY <2>2, <3>1 DEF Read, Cell, Block
    <3>3. frames[c] \in Bytes
      BY <3>1 DEF IInv, FramesInv, Bytes
    <3> QED
      BY <3>2, <3>3
  <2> QED
    BY <2>3 DEF Cells, Image
<1>2. ASSUME ~Owns
      PROVE  Cells = << >>
  BY <1>2 DEF IInv, MemoryInv, NoMemory, Cells
<1> QED
  BY <1>1, <1>2 DEF Reads

\* Zeroes at the end of a sequence.
LEMMA ZeroesFollow ==
  ASSUME NEW m \in Nat, NEW n \in Nat, NEW s \in [1 .. m -> Bytes]
  PROVE  s \o Contents!Zeroes(n) = [i \in 1 .. m + n |-> IF i <= m THEN s[i] ELSE "zero"]
<1> DEFINE z == Contents!Zeroes(n)
<1>1. s \in Seq(Bytes) /\ Len(s) = m
  OBVIOUS
<1>2. z \in Seq(Bytes) /\ Len(z) = n /\ \A i \in 1 .. n : z[i] = "zero"
  BY DEF Contents!Zeroes, Bytes
<1> HIDE DEF z
<1>3. /\ s \o z \in Seq(Bytes) /\ Len(s \o z) = m + n
      /\ \A i \in 1 .. m + n : (s \o z)[i] = IF i <= m THEN s[i] ELSE z[i - m]
  BY <1>1, <1>2, ConcatProperties
<1>4. \A i \in 1 .. m + n : (s \o z)[i] = IF i <= m THEN s[i] ELSE "zero"
  BY <1>2, <1>3
<1> DEFINE w == s \o z
           both == [i \in 1 .. m + n |-> IF i <= m THEN s[i] ELSE "zero"]
<1>5. w \in Seq(Bytes) /\ Len(w) = m + n /\ \A i \in 1 .. m + n : w[i] = both[i]
  BY <1>3, <1>4
<1> HIDE DEF w
<1>6. w = [i \in 1 .. m + n |-> w[i]]
  <2>1. w \in [1 .. Len(w) -> Bytes]
    BY <1>5, LenProperties
  <2> QED
    BY <1>5, <2>1
<1>7. w = both
  BY <1>5, <1>6
<1> QED
  BY <1>7 DEF w, z

\* What leaves the memory and the Frames alone leaves what the guest reads.
LEMMA ReadsKept ==
  ASSUME IInv, IInv', UNCHANGED <<memory, frames>>
  PROVE  Cells' = Cells
<1>1. (IInv => Reads)'
  BY ReadsItsFrames, PTL
<1> QED
  BY <1>1, ReadsItsFrames DEF Owns, Image, Reads

\* A memory is created with its data and zeroes; before, there is none.
LEMMA CreateStep ==
  ASSUME IInv, IInv', Instantiate
  PROVE  [Contents!Next]_Cells
<1>1. (IInv => Reads)'
  BY ReadsItsFrames, PTL
<1> DEFINE n == Count(Reserved)
           m == guest.minimum
<1>2. /\ m \in 1 .. MaxLen /\ MaxLen \in Nat /\ Reserved \in Nat /\ Reserved >= 1 /\ m <= Reserved
  BY ProgTypes DEF IInv, Instantiate, Reserved, MEMORY_RESERVATION
<1>3. n \in Nat /\ n >= 1 /\ Reserved <= 2 * n
  BY <1>2, CountCovers
<1>4. alloc(Reserved) /\ UNCHANGED launch /\ ~Owns
  BY DEF Instantiate, Loading, IInv, StageInv
<1>5. CASE ret' = Null \/ panicked'
  <2>1. UNCHANGED <<memory, frames>>
    BY <1>5 DEF Instantiate, Loading
  <2> QED
    BY <2>1, ReadsKept
<1>6. CASE ~(ret' = Null \/ panicked')
  <2>1. Lends(n)
    BY <1>2, <1>4, <1>6, AllocOutcome
  <2>2. /\ memory' = [base |-> ret', len |-> m, reserved |-> Reserved]
        /\ frames' = [frames EXCEPT ![Cell(ret', 0)] = "data"]
    BY <1>6 DEF Instantiate, Loading
  <2>3. /\ next \in Nat /\ ret' = next
        /\ \A i \in 0 .. 2 * n - 1 : /\ 2 * next + i \in 0 .. 2 * prog.regions - 1
                                     /\ frames[2 * next + i] = "zero"
    BY <1>3, <2>1, LentBlank
  <2>4. memory'.base = next /\ memory'.len = m /\ Owns'
    BY <2>2, <2>3, NullAssumption DEF Owns
  <2>5. \A i \in 1 .. m : frames'[2 * next + (i - 1)] = IF i <= 1 THEN <<"data">>[i] ELSE "zero"
    <3> TAKE i \in 1 .. m
    <3>1. i - 1 \in 0 .. 2 * n - 1 /\ 0 \in 0 .. 2 * n - 1
      BY <1>2, <1>3
    <3>2. frames'[2 * next + (i - 1)] = IF i = 1 THEN "data" ELSE "zero"
      BY <2>2, <2>3, <3>1 DEF Cell, IInv, FramesInv
    <3> QED
      BY <3>2
  <2>6. Cells' = [i \in 1 .. m |-> frames'[2 * next + (i - 1)]]
    BY <1>1, <2>4 DEF Image, Reads
  <2> DEFINE d == <<"data">>
             p == m - 1
  <2>7. d \in [1 .. 1 -> Bytes] /\ p \in Nat /\ 1 + p = m /\ 1 \in Nat
    BY <1>2 DEF Bytes
  <2>8. Cells' = d \o Contents!Zeroes(p)
    <3>1. \A i \in 1 .. m : frames'[2 * next + (i - 1)] = IF i <= 1 THEN d[i] ELSE "zero"
      BY <2>5
    <3> HIDE DEF d, p
    <3>2. d \o Contents!Zeroes(p) = [i \in 1 .. 1 + p |-> IF i <= 1 THEN d[i] ELSE "zero"]
      BY <2>7, ZeroesFollow
    <3>3. Cells' = [i \in 1 .. m |-> IF i <= 1 THEN d[i] ELSE "zero"]
      BY <2>6, <3>1
    <3> QED
      BY <2>7, <3>2, <3>3
  <2>9. Contents!Create(m)
    BY <1>4, <2>8, ReadsItsFrames DEF Contents!Create, Reads
  <2> QED
    BY <1>2, <2>9 DEF Contents!Next
<1> QED
  BY <1>5, <1>6

LEMMA StoreStep ==
  ASSUME IInv, IInv', NEW j \in Nat, Store(j)
  PROVE  Contents!Next
<1>1. (IInv => Reads)'
  BY ReadsItsFrames, PTL
<1>2. /\ Owns /\ j \in {0, memory.len - 1} /\ frames' = [frames EXCEPT ![Cell(memory.base, j)] = "own"]
      /\ memory' = memory /\ Owns'
  BY DEF Store, Owns
<1>3. /\ memory.base \in Nat /\ memory.len \in Nat /\ memory.len >= 1
      /\ memory.len <= 2 * Count(memory.reserved) /\ Count(memory.reserved) \in Nat
      /\ memory.base + Count(memory.reserved) <= next /\ next \in Nat
      /\ next <= prog.regions /\ prog.regions \in Nat
  BY <1>2, MemoryCells
<1>4. j + 1 \in 1 .. memory.len
  BY <1>2, <1>3
<1>5. \A i \in 1 .. memory.len :
        frames'[2 * memory.base + (i - 1)] =
          IF i = j + 1 THEN "own" ELSE frames[2 * memory.base + (i - 1)]
  <2> TAKE i \in 1 .. memory.len
  <2>1. 2 * memory.base + (i - 1) \in 0 .. 2 * prog.regions - 1
    BY <1>3
  <2>2. 2 * memory.base + (i - 1) = Cell(memory.base, j) <=> i = j + 1
    BY <1>3 DEF Cell
  <2> QED
    BY <1>2, <2>1, <2>2 DEF IInv, FramesInv
<1>6. Cells = Image /\ Image \in [1 .. memory.len -> Bytes] /\ Cells' = Image'
  BY <1>1, <1>2, ReadsItsFrames DEF Reads
<1>7. Cells' = [Cells EXCEPT ![j + 1] = "own"]
  BY <1>2, <1>4, <1>5, <1>6 DEF Image
<1>8. Len(Cells) = memory.len
  BY <1>3, <1>6
<1> QED
  BY <1>4, <1>7, <1>8 DEF Contents!Store, Contents!Next

\* A memory that is longer, over an image that begins as before and goes on blank.
LEMMA GrowStep ==
  ASSUME IInv, IInv', NEW n \in 1 .. MaxLen, Owns, Owns', memory'.len = memory.len + n,
         \A i \in 1 .. memory.len + n :
           frames'[2 * memory'.base + (i - 1)] =
             IF i <= memory.len THEN frames[2 * memory.base + (i - 1)] ELSE "zero"
  PROVE  Contents!Next
<1>1. (IInv => Reads)'
  BY ReadsItsFrames, PTL
<1>2. memory.len \in Nat /\ memory.len >= 1 /\ n \in Nat
  BY MemoryCells, ProgTypes DEF IInv
<1>3. Cells = Image /\ Cells \in [1 .. memory.len -> Bytes] /\ Cells' = Image'
  BY <1>1, ReadsItsFrames DEF Reads
<1>4. Cells \o Contents!Zeroes(n) =
        [i \in 1 .. memory.len + n |-> IF i <= memory.len THEN Cells[i] ELSE "zero"]
  BY <1>2, <1>3, ZeroesFollow
<1>5. Cells' = [i \in 1 .. memory.len + n |-> frames'[2 * memory'.base + (i - 1)]]
  BY <1>3 DEF Image
<1>6. \A i \in 1 .. memory.len : Cells[i] = frames[2 * memory.base + (i - 1)]
  BY <1>3 DEF Image
<1>7. Cells' = Cells \o Contents!Zeroes(n)
  BY <1>2, <1>4, <1>5, <1>6
<1>8. Cells # << >>
  BY <1>2, <1>3
<1> QED
  BY <1>7, <1>8 DEF Contents!Grow, Contents!Next

LEMMA GrowInPlaceStep ==
  ASSUME IInv, IInv', NEW n \in 1 .. MaxLen, GrowInPlace(n)
  PROVE  Contents!Next
<1>1. /\ Owns /\ memory.len + n <= memory.reserved /\ frames' = frames
      /\ memory' = [memory EXCEPT !.len = @ + n]
  BY DEF GrowInPlace
<1>2. memory'.base = memory.base /\ memory'.len = memory.len + n /\ Owns'
  BY <1>1 DEF IInv, MemoryInv, Owns
<1>3. /\ memory.base \in Nat /\ memory.len \in Nat /\ memory.len >= 1 /\ n \in Nat
      /\ memory.reserved \in Nat /\ memory.reserved <= 2 * Count(memory.reserved)
      /\ Count(memory.reserved) \in Nat
  BY <1>1, MemoryCells, ProgTypes DEF IInv
<1>4. ASSUME NEW i \in 1 .. memory.len + n
      PROVE  frames'[2 * memory'.base + (i - 1)] =
               IF i <= memory.len THEN frames[2 * memory.base + (i - 1)] ELSE "zero"
  <2>1. CASE i <= memory.len
    BY <1>1, <1>2, <2>1
  <2>2. CASE ~(i <= memory.len)
    <3>1. i - 1 \in memory.len .. 2 * Count(memory.reserved) - 1
      BY <1>1, <1>3, <2>2
    <3> QED
      BY <1>1, <1>2, <2>2, <3>1 DEF IInv, FramesInv
  <2> QED
    BY <2>1, <2>2
<1> QED
  BY <1>1, <1>2, <1>4, GrowStep

LEMMA GrowByMovingStep ==
  ASSUME IInv, IInv', NEW n \in 1 .. MaxLen, GrowByMoving(n)
  PROVE  [Contents!Next]_Cells
<1> DEFINE size == memory.len + n + MEMORY_RESERVATION
           k == Count(size)
<1>1. Owns /\ alloc(size) /\ UNCHANGED launch
  BY DEF GrowByMoving
<1>2. /\ memory.base \in Nat /\ memory.len \in Nat /\ memory.len >= 1 /\ n \in Nat
      /\ memory.len <= 2 * Count(memory.reserved) /\ Count(memory.reserved) \in Nat
      /\ memory.base + Count(memory.reserved) <= next /\ next \in Nat
      /\ next <= prog.regions /\ prog.regions \in Nat
  BY <1>1, MemoryCells, ProgTypes DEF IInv
<1>3. size \in Nat /\ size >= 1 /\ memory.len + n <= size
  BY <1>2 DEF MEMORY_RESERVATION
<1>4. k \in Nat /\ k >= 1 /\ size <= 2 * k
  BY <1>3, CountCovers
<1>5. CASE ret' = Null \/ panicked'
  <2>1. UNCHANGED <<memory, frames>>
    BY <1>5 DEF GrowByMoving
  <2> QED
    BY <2>1, ReadsKept
<1>6. CASE ~(ret' = Null \/ panicked')
  <2>1. Lends(k)
    BY <1>1, <1>3, <1>6, AllocOutcome
  <2>2. /\ memory' = [base |-> ret', len |-> memory.len + n, reserved |-> size]
        /\ frames' = [c \in DOMAIN frames |->
             IF c \in {Cell(ret', i) : i \in 0 .. memory.len - 1}
             THEN frames[Cell(memory.base, c - Cell(ret', 0))] ELSE frames[c]]
    BY <1>6 DEF GrowByMoving
  <2>3. /\ ret' = next
        /\ \A i \in 0 .. 2 * k - 1 : /\ 2 * next + i \in 0 .. 2 * prog.regions - 1
                                     /\ frames[2 * next + i] = "zero"
    BY <1>4, <2>1, LentBlank
  <2>4. memory'.base = next /\ memory'.len = memory.len + n /\ Owns'
    BY <1>2, <2>2, <2>3, NullAssumption DEF Owns
  <2>5. ASSUME NEW i \in 1 .. memory.len + n
        PROVE  frames'[2 * next + (i - 1)] =
                 IF i <= memory.len THEN frames[2 * memory.base + (i - 1)] ELSE "zero"
    <3> DEFINE c == 2 * next + (i - 1)
    <3>1. i - 1 \in 0 .. 2 * k - 1
      BY <1>2, <1>3, <1>4
    <3>2. c \in DOMAIN frames /\ frames[c] = "zero"
      BY <2>3, <3>1 DEF IInv, FramesInv
    <3>3. frames'[c] = IF c \in {Cell(ret', j) : j \in 0 .. memory.len - 1}
                       THEN frames[Cell(memory.base, c - Cell(ret', 0))] ELSE frames[c]
      BY <2>2, <3>2
    <3>4. c \in {Cell(ret', j) : j \in 0 .. memory.len - 1} <=> i <= memory.len
      BY <1>2, <2>3 DEF Cell
    <3>5. Cell(memory.base, c - Cell(ret', 0)) = 2 * memory.base + (i - 1)
      BY <1>2, <2>3 DEF Cell
    <3> QED
      BY <3>2, <3>3, <3>4, <3>5
  <2> QED
    BY <1>1, <2>4, <2>5, GrowStep
<1> QED
  BY <1>5, <1>6

\* In place or moved, whatever the arena lends, keeps or takes back under it, a
\* guest's memory reads as its own data and zeroes (verified.rs:77-79,
\* platform.rs:102-162).
THEOREM Refinement == Spec => ImplementsLinearMemory
<1>1. Init => Contents!Init
  <2> SUFFICES ASSUME Init PROVE Contents!Init
    OBVIOUS
  <2>1. IInv /\ ~Owns
    BY InitInv DEF Init, Owns, NoMemory
  <2> QED
    BY <2>1, ReadsItsFrames DEF Contents!Init, Reads
<1>2. IInv /\ IInv' /\ [Next]_vars => [Contents!Next]_Cells
  <2> SUFFICES ASSUME IInv, IInv', [Next]_vars PROVE [Contents!Next]_Cells
    OBVIOUS
  <2>1. CASE Deserialize
    <3>1. (IInv => Reads)'
      BY ReadsItsFrames, PTL
    <3>2. ~Owns /\ memory' = memory
      BY <2>1 DEF Deserialize, Loading, IInv, StageInv
    <3>3. ~Owns'
      BY <3>2 DEF Owns
    <3> QED
      BY <3>1, <3>2, <3>3, ReadsItsFrames DEF Reads
  <2>2. CASE Instantiate
    BY <2>2, CreateStep
  <2>3. ASSUME NEW n \in 1 .. MaxLen, Store(n - 1) \/ GrowInPlace(n) \/ GrowByMoving(n)
        PROVE  [Contents!Next]_Cells
    <3>1. n - 1 \in Nat
      BY ProgTypes DEF IInv
    <3> QED
      BY <2>3, <3>1, StoreStep, GrowInPlaceStep, GrowByMovingStep
  <2>4. CASE DropMemory
    <3>1. (IInv => Reads)'
      BY ReadsItsFrames, PTL
    <3>2. ~Owns'
      BY <2>4 DEF DropMemory, NoMemory, Owns
    <3>3. Contents!Drop
      BY <3>1, <3>2 DEF Contents!Drop, Reads
    <3> QED
      BY <3>3 DEF Contents!Next
  <2>5. CASE \/ InstantiateWithoutMemory \/ DropOld \/ Return \/ DropCode \/ Report
             \/ Parked \/ UNCHANGED vars
    <3>1. UNCHANGED <<memory, frames>>
      BY <2>5 DEF InstantiateWithoutMemory, DropOld, Return, DropCode, Report, Parked, vars
    <3> QED
      BY <3>1, ReadsKept
  <2> QED
    BY <2>1, <2>2, <2>3, <2>4, <2>5 DEF Next
<1> QED
  BY <1>1, <1>2, Invariance, PTL DEF Spec, ImplementsLinearMemory, Contents!Spec

===============================================================================
