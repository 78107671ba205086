------------------------------ MODULE RegionPool ------------------------------
(***************************************************************************)
(* What Wasmtime may rely on from a virtual-memory backend: a block it is  *)
(* lent is blank, is its alone until it returns it, and is never lent      *)
(* again; returning what is not lent changes nothing.                      *)
(***************************************************************************)
EXTENDS Naturals

CONSTANT Regions
VARIABLES
  lent,    \* the blocks (sets of regions) Wasmtime holds
  spent,   \* regions that will never be lent again
  dirty    \* regions that hold something else than zeroes

pvars == <<lent, spent, dirty>>

Init == lent = {} /\ spent = {} /\ dirty = {}

Lend(B) ==
  /\ B # {} /\ B \cap (spent \cup dirty) = {}
  /\ lent' = lent \cup {B}
  /\ spent' = spent \cup B
  /\ UNCHANGED dirty

\* Regions are lost to a claim that did not lead to a block.
Lose(B) == spent' = spent \cup B /\ UNCHANGED <<lent, dirty>>

Return(B) == B \in lent /\ lent' = lent \ {B} /\ UNCHANGED <<spent, dirty>>

Touch(B) ==
  /\ B \in lent
  /\ dirty' \in {dirty \cup B, dirty \ B}
  /\ UNCHANGED <<lent, spent>>

Next == \E B \in SUBSET Regions : Lend(B) \/ Lose(B) \/ Return(B) \/ Touch(B)

Spec == Init /\ [][Next]_pvars
==============================================================================
