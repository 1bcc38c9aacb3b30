--------------------------- MODULE MCUdevObjects ---------------------------
(***************************************************************************)
(* Instances of UdevObjects for TLC.                                       *)
(***************************************************************************)
EXTENDS UdevObjects, TLC

CONSTANTS s1, s2, s3, s4, thread
FourSlots == {s1, s2, s3, s4}

Symmetry == Permutations(Slots)
=============================================================================
