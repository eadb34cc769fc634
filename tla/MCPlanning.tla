----------------------------- MODULE MCPlanning -----------------------------
(* Three skills: one that chats, one that nests it and draws, and one that  *)
(* names its model.                                                         *)
EXTENDS Planning

Node(i, c, s, m, outs) == [id |-> i, cap |-> c, skill |-> s, model |-> m, ins |-> {"text"}, outs |-> outs]

Skills ==
  [s \in {"talk", "draw", "fixed"} |->
     CASE s = "talk"  -> {Node("a", "text.chat", None, None, {"text"})}
       [] s = "draw"  -> {Node("t", None, "talk", None, {}), Node("i", "image.generate", None, None, {"image"})}
       [] s = "fixed" -> {Node("g", "text.generate", None, 2, {"text"})}]

\* Image model 4 is estimated to need 5 units, 6 with its margin; that of
\* model 5 is not known.
Needs == [m \in {4, 5} |-> IF m = 4 THEN 5 ELSE None]
Hashes == [x \in {1, 2, 4, 5} \X {0, Profile} |-> (7 * x[1] + 3 * x[2]) % 19]
Free == {None, 5, 6}

Ask(s, mode, m, p, pins) == [skill |-> s, mode |-> mode, model |-> m, profile |-> p, pins |-> pins]
Asked ==
  { Ask("talk", "manual", None, None, None), Ask("draw", "auto", None, 1, None),
    Ask("draw", None, 2, None, [cap |-> "image.generate", model |-> 4]),
    Ask("fixed", None, None, None, None),
    Ask("fixed", None, 1, None, [cap |-> "text.generate", model |-> 2]) }
=============================================================================
