----------------------------- MODULE MCKnowledge -----------------------------
(* Instances of Knowledge.                                                  *)
EXTENDS Knowledge, TLC
CONSTANTS ours, fallback
Alike == Permutations(Thread) \cup Permutations(Doc) \cup Permutations({ours, fallback})
TwoLengths == {ours, fallback}
=============================================================================
