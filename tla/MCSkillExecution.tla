-------------------------- MODULE MCSkillExecution --------------------------
(* An instance of SkillExecution for TLC: a plan with two skills called     *)
(* next to a route, and a consumer that the manifest lists first.           *)
EXTENDS SkillExecution

CONSTANTS main, left, right, a, b, c, d, e, f, s, t

MCGraph == main :> <<b, a, s, t>> @@ left :> <<e, c, d>> @@ right :> <<f>>
MCNeeds == b :> {a, s} @@ e :> {c} @@ [n \in {a, c, d, f, s, t} |-> {}]
MCKind  == s :> "skill" @@ t :> "skill" @@ e :> "local" @@ [n \in {a, b, c, d, f} |-> "route"]
MCChild == s :> left @@ t :> right
MCLimit == main :> 3 @@ left :> 2 @@ right :> 1
=============================================================================
