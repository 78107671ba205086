---------------------------- MODULE MCGuestMemory ----------------------------
(* The confined runtime's pool as lantern-boot grants it and filled, the probe's, *)
(* and one large enough for a memory to move twice; in three of them one Frame    *)
(* the kernel may refuse to unmap.                                                *)
EXTENDS GuestMemory

Confined == [regions |-> 4, granted |-> 0 .. 2, stuck |-> {1}]
Filled == [regions |-> 4, granted |-> 0 .. 3, stuck |-> {}]
Probe == [regions |-> 2, granted |-> 0 .. 1, stuck |-> {0}]
Large == [regions |-> 15, granted |-> 0 .. 14, stuck |-> {2}]

MCPrograms == {Confined, Filled, Probe, Large}

LOCAL Answer == [code |-> 1, minimum |-> 0]
LOCAL Sized == [code |-> 1, minimum |-> 2]
LOCAL BigMemory == [code |-> 1, minimum |-> 5]
LOCAL BigCode == [code |-> 3, minimum |-> 2]

MCGuests == [p \in MCPrograms |->
  IF p = Probe THEN {Answer} ELSE {Answer, Sized, BigMemory, BigCode}]
==============================================================================
