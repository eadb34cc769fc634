----------------------------- MODULE MCUserFiles -----------------------------
(* Instances of UserFiles.                                                  *)
EXTENDS UserFiles
CONSTANTS k1, k2
TwoValuesOfAField == {0, 1}
=============================================================================
