------------------------------ MODULE Keeping ------------------------------
(***************************************************************************)
(* The elements of a sequence that are in a set, in their order: what the  *)
(* list comprehensions [x for x in s if ...] of the source compute.        *)
(* SelectSeq computes the same, but is opaque to the proof system; what    *)
(* KeepingProofs proves about Keep is used wherever the components do so.  *)
(***************************************************************************)
EXTENDS Integers, Sequences

\* The result after each element of s.
KeptUpTo(s, S) ==
  LET kept[i \in 0..Len(s)] ==
        IF i = 0 THEN <<>>
        ELSE IF s[i] \in S THEN Append(kept[i-1], s[i]) ELSE kept[i-1]
  IN kept

Keep(s, S) == KeptUpTo(s, S)[Len(s)]
=============================================================================
