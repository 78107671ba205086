-------------------------- MODULE MCConfinedRuntime --------------------------
(* Launches of ConfinedRuntime: every input with at most one thing wrong, *)
(* and every pair of faults of the programs around it.                    *)
EXTENDS ConfinedRuntime

LOCAL Good(m, n) == [package |-> "good", manifest |-> m, declared |-> n, grants |-> TRUE,
                     image |-> "fits", faults |-> {}]

LOCAL Wired == {Good(m, n) : m \in Interfaces, n \in 1 .. 2}

MCWorlds ==
  Wired
    \cup {[w EXCEPT !.package = p, !.faults = F] : w \in Wired, p \in Packages,
                                                   F \in {{}, {"accepts_all"}, {"small_heap"}}}
    \cup {[w EXCEPT !.manifest = m] : w \in Wired, m \in Manifests}
    \cup {[w EXCEPT !.grants = FALSE, !.faults = {f}] : w \in Wired, f \in Faults}
    \cup {[w EXCEPT !.image = i] : w \in Wired, i \in Images}
    \cup {[w EXCEPT !.faults = {f, g}] : w \in Wired, f \in Faults, g \in Faults}
==============================================================================
