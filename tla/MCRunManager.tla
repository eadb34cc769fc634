---------------------------- MODULE MCRunManager ----------------------------
(* An instance of RunManager for TLC.                                      *)
EXTENDS RunManager

CONSTANTS w, x, y, c1

New      == {w, x, y}
Symmetry == Permutations(New)  \* no property tells one new run from another
=============================================================================
