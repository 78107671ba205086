----------------------------- MODULE GuestMemory -----------------------------
(***************************************************************************)
(* A guest's code and linear memory on the Frame arena: the two confined   *)
(* programs that have one (the confined runtime, and the riscv64 probe     *)
(* with its own copy of the backing), Wasmtime's use of wasmtime_mmap_new  *)
(* and wasmtime_munmap under the roles' memory settings, and the Frames'   *)
(* contents, which outlive a mapping.  Sizes are in MiB, one cell each.    *)
(***************************************************************************)
EXTENDS Naturals

CONSTANTS
  Programs,  \* a program's pool, grant and Frames the kernel may refuse to unmap:
             \* [regions, granted, stuck]
  Guests,    \* [Programs -> set of [code, minimum]], minimum 0 for no memory
  MaxLen,    \* bound on a memory's length
  Null

ASSUME ProgramsAssumption ==
  \A p \in Programs :
    p.regions \in Nat \ {0} /\ p.granted \subseteq 0 .. p.regions - 1 /\ p.stuck \subseteq p.granted
ASSUME GuestsAssumption ==
  /\ MaxLen \in Nat
  /\ \A p \in Programs : \A g \in Guests[p] : g.code \in Nat \ {0} /\ g.minimum \in 0 .. MaxLen
ASSUME NullAssumption == Null \notin Nat

MiB == 1048576

\* Mutant: the reservation outgrows the pool.
ReservationOfSix == 6

\* MEMORY_RESERVATION, which pulley_config also sets for growth; guard size 0.
MEMORY_RESERVATION == 4

\* The guests a pool is sized for: a megapage of code, a reservation of memory.
SizedFor(g) == g.code <= 2 /\ g.minimum <= MEMORY_RESERVATION

\* The loader grants what the guests a pool is sized for start with; where it leaves
\* slots of the pool empty, the pool is too small for a memory to move in.
ASSUME SizedAssumption ==
  \A p \in Programs : \A g \in Guests[p] : SizedFor(g) =>
    /\ 0 .. (IF g.minimum = 0 THEN 0 ELSE 2) \subseteq p.granted
    /\ p.granted = 0 .. p.regions - 1 \/ p.regions < 8

VARIABLES
  prog, guest,
  stage,    \* "start", "loaded", "running", "done" (the guest's answer is right),
            \* "wrong" (it trapped, or answered otherwise), "failed" or "parked"
  code,     \* base of the deserialized .cwasm, or Null
  memory,   \* [base, len, reserved], base Null for none
  old,      \* the mapping a moved memory leaves behind, or Null
  frames,   \* [cells of the granted Frames -> contents]
  signal,   \* "SUCCESS", "FAILURE", or Null
  \* the arena's
  next, vaddrs, counts, mapped, held, ret, panicked

launch == <<prog, guest>>
arena == <<next, vaddrs, counts, mapped, held, ret, panicked>>
vars == <<launch, stage, code, memory, old, frames, signal, arena>>

Pool(p) == INSTANCE Arena WITH
  REGIONS <- p.regions, Granted <- p.granted, Stuck <- p.stuck, Sizes <- {}, dirty <- {}

alloc(size) == \E p \in Programs : p = prog /\ Pool(p)!mmap_new(size * MiB)

dealloc(base) == \E p \in Programs : p = prog /\ Pool(p)!munmap(base)

NoMemory == [base |-> Null, len |-> 0, reserved |-> 0]

Init ==
  /\ prog \in Programs /\ guest \in Guests[prog]
  /\ stage = "start" /\ code = Null /\ memory = NoMemory /\ old = Null /\ signal = Null
  /\ frames = [c \in 0 .. 2 * prog.regions - 1 |-> "zero"]
  /\ \E p \in Programs : p = prog /\ Pool(p)!Init

\* The cells of a mapping: two to a region.
Cell(base, i) == 2 * base + i

------------------------------------------------------------------------------
(* External: Wasmtime.  A failed mmap_new is an error of the call it serves;  *)
(* a panic ends the program.                                                  *)

\* Mapped(size): what follows an alloc that succeeded, in terms of ret'.
Loading(size, Mapped) ==
  /\ alloc(size)
  /\ IF ret' = Null \/ panicked'
     THEN stage' = "failed" /\ UNCHANGED <<code, memory, frames>>
     ELSE Mapped
  /\ UNCHANGED <<launch, old, signal>>

Deserialize ==
  /\ stage = "start"
  /\ Loading(guest.code,
       /\ stage' = "loaded" /\ code' = ret'
       /\ frames' = [c \in DOMAIN frames |->
            IF c \in {Cell(ret', i) : i \in 0 .. guest.code - 1} THEN "code" ELSE frames[c]]
       /\ UNCHANGED memory)

Reserved == IF guest.minimum > MEMORY_RESERVATION THEN guest.minimum ELSE MEMORY_RESERVATION

Instantiate ==
  /\ stage = "loaded" /\ guest.minimum > 0
  /\ Loading(Reserved,
       /\ stage' = "running"
       /\ memory' = [base |-> ret', len |-> guest.minimum, reserved |-> Reserved]
       /\ frames' = [frames EXCEPT ![Cell(ret', 0)] = "data"]
       /\ UNCHANGED code)

InstantiateWithoutMemory ==
  /\ stage = "loaded" /\ guest.minimum = 0
  /\ stage' = "running"
  /\ UNCHANGED <<launch, code, memory, old, frames, signal, arena>>

Running == stage = "running" /\ old = Null
Owns == memory.base # Null

Store(i) ==
  /\ Running /\ Owns /\ i \in {0, memory.len - 1}
  /\ frames' = [frames EXCEPT ![Cell(memory.base, i)] = "own"]
  /\ UNCHANGED <<launch, stage, code, memory, old, signal, arena>>

\* memory.grow within what is reserved: wasmtime_mprotect, a no-op.
GrowInPlace(n) ==
  /\ Running /\ Owns
  /\ memory.len + n <= memory.reserved /\ memory.len + n <= MaxLen
  /\ memory' = [memory EXCEPT !.len = @ + n]
  /\ UNCHANGED <<launch, stage, code, old, frames, signal, arena>>

\* memory.grow past it: a fresh mapping with room for the next growth, a copy,
\* and then the old mapping goes.  Without a fresh mapping the memory stays.
GrowByMoving(n) ==
  /\ Running /\ Owns
  /\ memory.len + n > memory.reserved /\ memory.len + n <= MaxLen
  /\ alloc(memory.len + n + MEMORY_RESERVATION)
  /\ IF panicked' \/ ret' = Null
     THEN /\ stage' = IF panicked' THEN "failed" ELSE stage
          /\ UNCHANGED <<memory, old, frames>>
     ELSE /\ memory' = [base |-> ret', len |-> memory.len + n,
                        reserved |-> memory.len + n + MEMORY_RESERVATION]
          /\ old' = memory.base
          /\ frames' = [c \in DOMAIN frames |->
               IF c \in {Cell(ret', i) : i \in 0 .. memory.len - 1}
               THEN frames[Cell(memory.base, c - Cell(ret', 0))] ELSE frames[c]]
          /\ UNCHANGED stage
  /\ UNCHANGED <<launch, code, signal>>

DropOld ==
  /\ old # Null /\ dealloc(old)
  /\ old' = Null
  /\ UNCHANGED <<launch, stage, code, memory, frames, signal>>

\* The call comes back: the right answer, another one, or the guest's error.
Return ==
  /\ Running /\ stage' \in {"done", "wrong"}
  /\ UNCHANGED <<launch, code, memory, old, frames, signal, arena>>

Ended == stage \in {"done", "wrong", "failed"}

\* The Store goes before the Component.
DropMemory ==
  /\ Ended /\ Owns /\ dealloc(memory.base)
  /\ memory' = NoMemory
  /\ UNCHANGED <<launch, stage, code, old, frames, signal>>

DropCode ==
  /\ Ended /\ ~Owns /\ code # Null /\ dealloc(code)
  /\ code' = Null
  /\ UNCHANGED <<launch, stage, memory, old, frames, signal>>

------------------------------------------------------------------------------
(* The end of run: the result of run_embedded_answer, or of the hosted probe, *)
(* is signalled when everything it held has been dropped; a panic is reported *)
(* from where it happens.                                                     *)

Report ==
  /\ Ended /\ (panicked \/ (code = Null /\ ~Owns))
  /\ signal' = IF stage = "done" THEN "SUCCESS" ELSE "FAILURE"
  /\ stage' = "parked"
  /\ UNCHANGED <<launch, code, memory, old, frames, arena>>

Parked == stage = "parked" /\ UNCHANGED vars

Next ==
  \/ Deserialize \/ Instantiate \/ InstantiateWithoutMemory
  \/ \E n \in 1 .. MaxLen : Store(n - 1) \/ GrowInPlace(n) \/ GrowByMoving(n)
  \/ DropOld \/ Return \/ DropMemory \/ DropCode \/ Report \/ Parked

Spec == Init /\ [][Next]_vars

------------------------------------------------------------------------------
(* Properties *)

\* Every variable has its type, the arena's included.
TypeOK ==
  /\ stage \in {"start", "loaded", "running", "done", "wrong", "failed", "parked"}
  /\ memory.len \in 0 .. MaxLen /\ memory.len <= memory.reserved
  /\ frames \in [0 .. 2 * prog.regions - 1 -> {"zero", "code", "data", "own"}]
  /\ signal \in {"SUCCESS", "FAILURE", Null}
  /\ \A p \in Programs : p = prog => Pool(p)!TypeOK

\* What the guest reads, through the mappings the kernel has.
Read(i) ==
  LET c == Cell(memory.base, i) IN IF c \div 2 \in mapped THEN frames[c] ELSE "fault"

Cells == [i \in 1 .. memory.len |-> Read(i - 1)]

Contents == INSTANCE LinearMemory WITH Limit <- MaxLen, cells <- Cells

\* The arena under it keeps a guest's linear memory whole: in place or moved, the
\* guest reads back its own data and zeroes, never a region lent before, code, or a
\* hole; growth that fails loses nothing (verified.rs:77-79, platform.rs:102-162).
ImplementsLinearMemory == Contents!Spec

\* The guests the two pools were sized for never meet their limits: one megapage of
\* code, two of memory, three Frames; one for the probe's component
\* (platform.rs:79-85, verified.rs:83-88, riscv64-probe platform.rs:76-79).  Not even
\* by growing: growth beyond the reservation is refused, it never panics.
SizedGuestsRun ==
  SizedFor(guest) => ~panicked /\ stage # "failed"

\* Right, wrong, trapped or never started: unless the program panicked, which parks
\* it where it stands, nothing is left mapped when the outcome is signalled but what
\* the kernel refused to unmap (platform.rs:148-162).
NothingLeaked == signal # Null /\ ~panicked => mapped \subseteq prog.stuck
==============================================================================
