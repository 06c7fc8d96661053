---------------------------- MODULE MCUploadQueue ----------------------------
(* Instances of UploadQueueProps for TLC. *)
EXTENDS UploadQueueProps, TLC

CONSTANTS i1, i2, d1, d2

OneItem == {i1}
TwoItems == {i1, i2}
OneDrain == {d1}
TwoDrains == {d1, d2}
None == {}

Symmetry == Permutations(TwoDrains)
=============================================================================
