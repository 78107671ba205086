----------------------------- MODULE LinearMemory -----------------------------
(***************************************************************************)
(* What a guest may rely on from its linear memory, whatever it is backed  *)
(* by: it starts with its data segment and zeroes, holds what the guest    *)
(* stored, and grows by zeroes or not at all.  Cells are 1 MiB each.       *)
(***************************************************************************)
EXTENDS Naturals, Sequences

CONSTANT Limit   \* cells of the largest memory

VARIABLE cells   \* what the memory holds; empty before and after the instance

Zeroes(n) == [i \in 1 .. n |-> "zero"]

Init == cells = <<>>

Create(n) == cells = <<>> /\ cells' = <<"data">> \o Zeroes(n - 1)

Store(i) == cells' = [cells EXCEPT ![i] = "own"]

Grow(n) == cells # <<>> /\ cells' = cells \o Zeroes(n)

Drop == cells' = <<>>

Next ==
  \/ \E n \in 1 .. Limit : Create(n) \/ Grow(n)
  \/ \E i \in 1 .. Len(cells) : Store(i)
  \/ Drop

Spec == Init /\ [][Next]_cells
===============================================================================
