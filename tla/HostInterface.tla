---------------------------- MODULE HostInterface ----------------------------
(***************************************************************************)
(* The vocabulary of the lantern:host WIT package as the runtime maps it   *)
(* (src/src/host.rs, src/wit/host.wit): two resource-scoped interfaces     *)
(* whose handles lead to a badge of the owning service's broker, and one   *)
(* link-scoped interface.  Payloads are abstracted to what the mapping and *)
(* the services tell apart.                                                *)
(***************************************************************************)
EXTENDS Naturals, FiniteSets, Sequences

CONSTANTS
  Keys,     \* keys of the crypto service
  Files,    \* files of the store
  Badges,   \* badges minted by the services' brokers
  Minted,   \* [Badges -> [object, ops]]: what each badge was minted for
  Data,     \* contents a guest may write, all within MAX_BLOCK_LEN
  Empty,    \* the content of a file never written
  Reps,     \* indices of the resource table (its capacity is Cardinality(Reps))
  Slots,    \* slot numbers a guest may pass to open, in and out of range
  None      \* a hole, a free table entry, the absence of a handle

Services == {"keystore", "filesystem"}
Interfaces == Services \cup {"monotonic-clock"}

Ops(s) == IF s = "keystore" THEN {"encrypt", "decrypt", "sign"} ELSE {"read", "write"}
Operations == Ops("keystore") \cup Ops("filesystem")

Objects == Keys \cup Files
ObjectsOf(s) == IF s = "keystore" THEN Keys ELSE Files

\* What a HostCapability or a HostFile names: a badge and the object it is used for.
CapsOf(s) == [badge : Badges, object : ObjectsOf(s)]
Caps == [badge : Badges, object : Objects]

\* A guest handle: its resource type (one per service) and its index in the table.
Handles == [service : Services, rep : Reps]

\* The argument of an operation, up to the cases the code separates.
Args(op) == CASE op = "encrypt" -> {"good", "bad_nonce"}
              [] op = "decrypt" -> {"good", "bad_nonce", "bad_tag", "forged"}
              [] op = "write"   -> Data \cup {"oversized"}
              [] OTHER          -> {"good"}
AllArgs == Data \cup {"good", "bad_nonce", "bad_tag", "forged", "oversized"}

\* Mutant: write without its size check.
WellFormedAnySize(arg) == arg \notin {"bad_nonce", "bad_tag"}

\* fixed_len on nonce and tag, and write's MAX_BLOCK_LEN check, let the argument through.
WellFormed(arg) == arg \notin {"bad_nonce", "bad_tag", "oversized"}

Contents == Data \cup {Empty}

\* The owning service's authority over cap: its badge covers op on that very
\* object, and neither has been revoked or destroyed (both are in "gone").
Allowed(cap, op, gone) ==
  /\ op \in Minted[cap.badge].ops
  /\ cap.object = Minted[cap.badge].object
  /\ {cap.badge, cap.object} \cap gone = {}

ASSUME MintedAssumption ==
  /\ Minted \in [Badges -> [object : Objects, ops : SUBSET Operations]]
  /\ \A b \in Badges, s \in Services :
       Minted[b].object \in ObjectsOf(s) => Minted[b].ops \subseteq Ops(s)
ASSUME SlotsAssumption == Slots \subseteq Nat
ASSUME DistinctAssumption ==
  /\ Badges \cap Objects = {}
  /\ Keys \cap Files = {}
  /\ Empty \notin Data
  /\ None \notin Slots \cup Caps
==============================================================================
