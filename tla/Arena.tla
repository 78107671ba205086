-------------------------------- MODULE Arena --------------------------------
(***************************************************************************)
(* The confined runtime's custom virtual memory (src/src/platform.rs): a   *)
(* fixed pool of megapage Frames granted by the loader, bump-claimed and   *)
(* mapped by wasmtime_mmap_new, unmapped by wasmtime_munmap.  The program  *)
(* is single-hart and non-reentrant, so each call is one step; a panic     *)
(* stops the program.  Addresses are region numbers (vaddr_of is one to    *)
(* one); Null is the zero a free slot's ALLOC_VADDR holds.                 *)
(***************************************************************************)
EXTENDS Naturals

CONSTANTS
  REGIONS,   \* capacity of the pool and of the slot arrays
  Granted,   \* regions whose Frame the loader granted
  Stuck,     \* regions whose Frame the kernel may refuse to unmap
  Sizes,     \* sizes in bytes Wasmtime asks for
  Null

ASSUME RegionsAssumption == REGIONS \in Nat \ {0}
ASSUME GrantedAssumption == Granted \subseteq 0 .. REGIONS - 1
ASSUME StuckAssumption == Stuck \subseteq Granted
ASSUME SizesAssumption == Sizes \subseteq Nat
ASSUME NullAssumption == Null \notin Nat

MEGAPAGE_BYTES == 2097152
Regions == 0 .. REGIONS - 1

VARIABLES
  next,     \* NEXT_REGION
  vaddrs,   \* ALLOC_VADDR
  counts,   \* ALLOC_COUNT, 0 for a free slot
  mapped,   \* regions the kernel has mapped in this program's VSpace
  dirty,    \* regions that hold something else than zeroes
  held,     \* Wasmtime's own record: base -> number of regions, 0 for none
  ret,      \* what the last wasmtime_mmap_new returned: a base, or Null
  panicked

vars == <<next, vaddrs, counts, mapped, dirty, held, ret, panicked>>

\* size.div_ceil(MEGAPAGE_BYTES).max(1)
Count(size) ==
  IF size = 0 THEN 1 ELSE (size + (MEGAPAGE_BYTES - 1)) \div MEGAPAGE_BYTES

Block(base, n) == base .. base + n - 1

FirstFree(slot) == counts[slot] = 0 /\ \A i \in Regions : i < slot => counts[i] # 0

Init ==
  /\ next = 0
  /\ vaddrs = [i \in Regions |-> Null]
  /\ counts = [i \in Regions |-> 0]
  /\ mapped = {}
  /\ dirty = {}
  /\ held = [r \in Regions |-> 0]
  /\ ret = Null
  /\ panicked = FALSE

------------------------------------------------------------------------------
(* wasmtime_mmap_new: backing::alloc, by outcome *)

\* Mutant: the regions are claimed before the bound is checked.
ExhaustedClaiming(n) ==
  /\ next + n > REGIONS
  /\ next' = next + n
  /\ ret' = Null
  /\ UNCHANGED <<vaddrs, counts, mapped, dirty, held, panicked>>

\* end > REGIONS
Exhausted(n) ==
  /\ next + n > REGIONS
  /\ ret' = Null
  /\ UNCHANGED <<next, vaddrs, counts, mapped, dirty, held, panicked>>

\* Some region of the claim has no Frame: the regions before it are mapped,
\* then frame_sys::map(..).expect(..) panics.
MapPanics(n) ==
  /\ next + n <= REGIONS
  /\ \E bad \in Block(next, n) \ Granted :
       /\ \A r \in Block(next, n) : r < bad => r \in Granted
       /\ mapped' = mapped \cup {r \in Block(next, n) : r < bad}
  /\ next' = next + n
  /\ panicked' = TRUE
  /\ UNCHANGED <<vaddrs, counts, dirty, held, ret>>

\* Every region is mapped; the block is recorded in the first free slot.
Allocated(n) ==
  /\ next + n <= REGIONS /\ Block(next, n) \subseteq Granted
  /\ IF \E slot \in Regions : counts[slot] = 0
     THEN /\ \E slot \in Regions :
               /\ FirstFree(slot)
               /\ vaddrs' = [vaddrs EXCEPT ![slot] = next]
               /\ counts' = [counts EXCEPT ![slot] = n]
          /\ held' = [held EXCEPT ![next] = n]
          /\ ret' = next
     ELSE ret' = Null /\ UNCHANGED <<vaddrs, counts, held>>
  /\ next' = next + n
  /\ mapped' = mapped \cup Block(next, n)
  /\ UNCHANGED <<dirty, panicked>>

mmap_new(size) ==
  LET n == Count(size)
  IN ~panicked /\ (Exhausted(n) \/ MapPanics(n) \/ Allocated(n))

\* What is mapped once every region of a block was asked to be unmapped: an error
\* of FrameInvoke::Unmap is dropped, and its region stays.
UnmapEach(block) == {mapped \ (block \ kept) : kept \in SUBSET (block \cap Stuck)}

\* Mutant: the pool is rewound to the freed block.
munmapRewinding(ptr) ==
  /\ ~panicked
  /\ \E slot \in Regions :
       /\ counts[slot] # 0 /\ vaddrs[slot] = ptr
       /\ mapped' \in UnmapEach(Block(ptr, counts[slot]))
       /\ next' = ptr
       /\ vaddrs' = [vaddrs EXCEPT ![slot] = Null]
       /\ counts' = [counts EXCEPT ![slot] = 0]
  /\ held' = [held EXCEPT ![ptr] = 0]
  /\ UNCHANGED <<dirty, ret, panicked>>

\* Mutant: the slot is cleared but only its first region is unmapped.
munmapFirstOnly(ptr) ==
  /\ ~panicked
  /\ \E slot \in Regions :
       /\ counts[slot] # 0 /\ vaddrs[slot] = ptr
       /\ mapped' \in UnmapEach({ptr})
       /\ vaddrs' = [vaddrs EXCEPT ![slot] = Null]
       /\ counts' = [counts EXCEPT ![slot] = 0]
  /\ held' = [held EXCEPT ![ptr] = 0]
  /\ UNCHANGED <<next, dirty, ret, panicked>>

\* wasmtime_munmap: backing::dealloc.  Wasmtime may pass any address: one it
\* holds, one it has already given back, or one it was never given.  The slot is
\* cleared whatever the kernel said.
munmap(ptr) ==
  /\ ~panicked
  /\ \/ /\ \A slot \in Regions : counts[slot] = 0 \/ vaddrs[slot] # ptr
        /\ UNCHANGED <<vaddrs, counts, mapped>>
     \/ \E slot \in Regions :
          /\ counts[slot] # 0 /\ vaddrs[slot] = ptr
          /\ \A i \in Regions : i < slot => counts[i] = 0 \/ vaddrs[i] # ptr
          /\ mapped' \in UnmapEach(Block(ptr, counts[slot]))
          /\ vaddrs' = [vaddrs EXCEPT ![slot] = Null]
          /\ counts' = [counts EXCEPT ![slot] = 0]
  /\ held' = [held EXCEPT ![ptr] = 0]
  /\ UNCHANGED <<next, dirty, ret, panicked>>

\* The guest or the engine stores into a block Wasmtime holds.
Store(base) ==
  /\ ~panicked /\ held[base] # 0
  /\ dirty' = dirty \cup Block(base, held[base])
  /\ UNCHANGED <<next, vaddrs, counts, mapped, held, ret, panicked>>

\* wasmtime_mmap_remap: the block is zeroed in place.
mmap_remap(base) ==
  /\ ~panicked /\ held[base] # 0
  /\ dirty' = dirty \ Block(base, held[base])
  /\ UNCHANGED <<next, vaddrs, counts, mapped, held, ret, panicked>>

\* The panic handler reports and parks: the arena is not used again.
Parked == panicked /\ UNCHANGED vars

Next ==
  \/ \E size \in Sizes : mmap_new(size)
  \/ \E base \in Regions : munmap(base) \/ Store(base) \/ mmap_remap(base)
  \/ Parked

Spec == Init /\ [][Next]_vars

------------------------------------------------------------------------------
(* Properties *)

\* Every variable has its type.
TypeOK ==
  /\ next \in 0 .. REGIONS
  /\ vaddrs \in [Regions -> Regions \cup {Null}]
  /\ counts \in [Regions -> 0 .. REGIONS]
  /\ mapped \in SUBSET Granted
  /\ dirty \in SUBSET Regions
  /\ held \in [Regions -> 0 .. REGIONS]
  /\ ret \in Regions \cup {Null}
  /\ panicked \in BOOLEAN

HeldBlocks == {Block(b, held[b]) : b \in {r \in Regions : held[r] # 0}}

\* The kernel's mappings are the blocks Wasmtime holds: none is held and unmapped,
\* and none is mapped and forgotten but a region the kernel refused to unmap
\* (platform.rs:121-162).
MappedIsHeld ==
  ~panicked => /\ UNION HeldBlocks \subseteq mapped
               /\ mapped \ UNION HeldBlocks \subseteq Stuck

\* Two blocks Wasmtime holds never overlap (platform.rs:182-185, "no address is
\* ever reused while live").
BlocksDisjoint ==
  \A b, c \in Regions : b # c /\ held[b] # 0 /\ held[c] # 0 =>
    Block(b, held[b]) \cap Block(c, held[c]) = {}

\* A failed wasmtime_mmap_new leaves no region claimed or mapped: the slot search
\* after the mapping never comes up empty (platform.rs:139).
FailureChangesNothing ==
  [][\A size \in Sizes :
       mmap_new(size) /\ ret' = Null /\ ~panicked' => UNCHANGED <<next, mapped>>]_vars

\* A block is blank when it is handed out (platform.rs:103-105, 181-188): Wasmtime
\* relies on zeroed linear memory and tables.
FreshBlocksAreBlank ==
  [][\A size \in Sizes :
       mmap_new(size) /\ ret' # Null /\ ~panicked' => Block(ret', Count(size)) \cap dirty = {}]_vars

\* "a slot the loader left empty just fails that `wasmtime_mmap_new`" (platform.rs:76-78).
EmptySlotJustFails == ~panicked

------------------------------------------------------------------------------
Pool == INSTANCE RegionPool WITH
  lent <- HeldBlocks,
  spent <- 0 .. next - 1

\* The slot arrays and the bump index keep the promise of RegionPool: no block is
\* lent twice, even to a caller that gives one back twice (platform.rs:102-162).
ImplementsPool == Pool!Spec
==============================================================================
