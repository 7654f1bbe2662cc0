-------------------------- MODULE MCSlotScheduler --------------------------
(* The slot scheduler for TLC: two settings, interchangeable posts. *)
EXTENDS SlotScheduler, TLC

CONSTANTS p1, p2

Small == [times |-> {0, 1}, limit |-> 1, days |-> {1, 2}]
Large == [times |-> {1}, limit |-> 2, days |-> {2}]
TwoConfigs == {Small, Large}
OneConfig == {[times |-> {1}, limit |-> 1, days |-> {1, 2}]}
Symmetry == Permutations(Posts)
=============================================================================
