----------------------------- MODULE MCDownloads -----------------------------
(* Instances of Downloads: one entity of one chunk and one of two.         *)
EXTENDS Downloads
CONSTANTS short, long
TwoEntities == {short, long}
TheirSizes == [e \in TwoEntities |-> IF e = short THEN 1 ELSE 2]
=============================================================================
