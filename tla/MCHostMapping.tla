---------------------------- MODULE MCHostMapping ----------------------------
(***************************************************************************)
(* HostMapping on two keys, one file, four badges and a table of two       *)
(* entries: enough for every slot shape (granted, hole, out of range,      *)
(* mismatched), a full table and the reuse of a freed index.               *)
(***************************************************************************)
EXTENDS HostMapping, TLC

CONSTANTS k1, k2, f1, b1, b2, br, bw, d1

MCMinted ==
  b1 :> [object |-> k1, ops |-> {"decrypt"}] @@
  b2 :> [object |-> k2, ops |-> {"sign", "encrypt"}] @@
  br :> [object |-> f1, ops |-> {"read"}] @@
  bw :> [object |-> f1, ops |-> {"read", "write"}]

MCChannel == [s \in Services |-> IF s = "keystore" THEN b2 ELSE bw]

LOCAL cap(b, o) == [badge |-> b, object |-> o]
LOCAL set_up(keys, files, clock, backend, imports, stubs) ==
  [slots |-> [keystore |-> keys, filesystem |-> files], clock |-> clock,
   linker |-> [slots |-> [keystore |-> keys, filesystem |-> files], clock |-> clock],
   backend |-> [s \in Services |-> backend], imports |-> imports, stubs |-> stubs]

\* In-process services: a hole between two keys, a read-only file, a clock.
InProcess == {
  set_up(<<cap(b1, k1), None, cap(b2, k2)>>, <<cap(br, f1)>>, TRUE, "inproc", Interfaces, FALSE),
  set_up(<<>>, <<cap(bw, f1), cap(br, f1)>>, FALSE, "inproc", {"filesystem"}, FALSE),
  set_up(<<cap(b1, k2), cap(b2, k2)>>, <<>>, FALSE, "inproc", {"keystore"}, FALSE)}

\* Confined: one relationship behind slot 0, whose record's badge and object
\* are placeholders; later roles are holes; unknown imports are trap stubs.
Confined == {
  set_up(<<cap(b1, k1), None>>, <<>>, FALSE, "ipc", {"keystore", "monotonic-clock"}, TRUE),
  set_up(<<>>, <<cap(br, f1), None>>, FALSE, "ipc", {"filesystem"}, TRUE)}

\* Declined roles, a missing backend, imports the manifest never declared.
Refusing == {
  set_up(<<None, None>>, <<>>, FALSE, "none", {"keystore"}, FALSE),
  set_up(<<cap(b1, k1)>>, <<cap(bw, f1)>>, TRUE, "none", {"keystore", "filesystem"}, FALSE),
  set_up(<<cap(b1, k1)>>, <<>>, FALSE, "none", {"keystore", "monotonic-clock"}, FALSE),
  set_up(<<>>, <<>>, FALSE, "none", {"filesystem"}, FALSE)}

\* The linker's manifest is not the state's: it grants a clock the state was not
\* given, or declares no key; or it knows neither the clock nor the file of the state.
LOCAL linked_from(c, keys, files, clock) ==
  [c EXCEPT !.linker = [slots |-> [keystore |-> keys, filesystem |-> files], clock |-> clock]]

Mismatched == {
  linked_from(set_up(<<cap(b1, k1)>>, <<cap(bw, f1)>>, FALSE, "ipc", Interfaces, TRUE),
              <<>>, <<None, cap(br, f1)>>, TRUE),
  linked_from(set_up(<<>>, <<cap(br, f1)>>, TRUE, "inproc", {"keystore"}, FALSE),
              <<None>>, <<>>, FALSE)}

MCConfigurations == InProcess \cup Confined \cup Refusing \cup Mismatched
MCShared == {c \in InProcess : ~c.clock}
==============================================================================
