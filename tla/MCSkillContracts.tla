-------------------------- MODULE MCSkillContracts --------------------------
(***************************************************************************)
(* Skills of up to four nodes: two that work, one that brings them         *)
(* together and an output, each in every one of the forms below, over      *)
(* nested skills that may call one another.                                *)
(***************************************************************************)
EXTENDS SkillContracts

Port(k, r) == [kind |-> k, required |-> r]
Node(t, in, accepts, out) ==
  [type |-> t, in |-> in, accepts |-> accepts, out |-> out, handlers |-> {}, times |-> 0,
   skill |-> "", version |-> 0, name |-> ""]
Tool(in, kind, out) ==
  [Node("tool", [p \in {"x"} |-> in], [p \in {"x"} |-> kind], [p \in {"r"} |-> out])
     EXCEPT !.handlers = {"known"}]
Call(s, v, in, accepts) ==
  [Node("skill", in, accepts, [p \in {"o"} |-> "text"]) EXCEPT !.skill = s, !.version = v]
Loop(in, k) == [Tool(in, "text", "text") EXCEPT !.type = "loop", !.times = k]

\* The first node: a producer of either kind, an input, a loop, or one that
\* waits for the second.
Sources ==
  { Tool(<<"input", "p">>, "text", "text"), Tool(Literal, "text", "json"),
    [Node("input", Empty, Empty, [q \in {"value"} |-> "value"]) EXCEPT !.name = "p"],
    [Node("input", Empty, Empty, [q \in {"value"} |-> "r"]) EXCEPT !.name = "p"],
    Loop(<<"input", "p">>, 2), Loop(<<"input", "p">>, 9), Tool(<<"b", "r">>, "text", "text") }

\* The second node works on the first, calls a skill or tries two handlers.
Middles ==
  { Tool(<<"a", "r">>, "text", "text"), Tool(<<"a", "value">>, "text", "text"),
    Call("mid", 0, [q \in {"q"} |-> <<"a", "r">>], [q \in {"q"} |-> "text"]),
    Call("mid", 2, [q \in {"q"} |-> <<"a", "r">>], [q \in {"q"} |-> "text"]),
    Call("mid", 1, Empty, Empty),
    Call("mid", 1, [q \in {"q"} |-> Literal], [q \in {"q"} |-> "text"]),
    [Tool(Literal, "text", "text") EXCEPT !.type = "fallback", !.times = 2,
                                          !.handlers = {"known"}] }

\* The third node brings them together.
Ends ==
  { Node("join", [q \in {"m"} |-> <<"b", "r">>], [q \in {"m"} |-> "text"], [q \in {"value"} |-> "json"]),
    LET two == [q \in {"m", "r"} |-> IF q = "m" THEN <<"a", "r">> ELSE <<"b", "r">>]
        kinds == [q \in {"m", "r"} |-> "text"]
    IN Node("parallel", two, kinds, kinds),
    Tool(<<"b", "o">>, "text", "text"), Tool(<<"b", "r">>, "text", "text") }

Outputs == { Node("output", [q \in {"o"} |-> <<"c", "r">>], Empty, Empty),
             Node("output", [q \in {"o"} |-> <<"c", "value">>], Empty, Empty),
             Node("output", [q \in {"o", "more"} |-> IF q = "o" THEN <<"c", "r">> ELSE <<"a", "value">>], Empty, Empty),
             Node("output", Empty, Empty, Empty) }

Roots ==
  { [ins |-> [q \in {"p"} |-> Port("text", r)], outs |-> [q \in {"o"} |-> Port("text", TRUE)],
     nodes |-> [i \in {"a", "b", "c", "z"} |-> CASE i = "a" -> a [] i = "b" -> b [] i = "c" -> c [] OTHER -> z],
     permits |-> IF r THEN {} ELSE {"files"}, parallel |-> 2, maxsteps |-> limit, version |-> 1] :
      r \in BOOLEAN, a \in Sources, b \in Middles, c \in Ends, z \in Outputs, limit \in {0, 4} }

\* A nested skill: its input and output are required or not, its node is a
\* tool or calls another skill, and it publishes what it made or nothing.
Kid(r, node, z, grant) ==
  [ins |-> [q \in {"q"} |-> Port("text", r)], outs |-> [q \in {"o"} |-> Port("text", r)],
   nodes |-> [i \in {"t", "z"} |-> IF i = "t" THEN node ELSE z],
   permits |-> grant, parallel |-> 1, maxsteps |-> 0, version |-> 1]
Made(p) == Node("output", [q \in {"o"} |-> <<"t", p>>], Empty, Empty)
Onward(s) == Call(s, 0, [q \in {"q"} |-> <<"input", "q">>], [q \in {"q"} |-> "text"])
Nothing == Node("output", Empty, Empty, Empty)

Mids ==
  { Kid(TRUE, Tool(<<"input", "q">>, "text", "text"), Made("r"), {}),
    Kid(TRUE, Tool(<<"input", "q">>, "text", "text"), Made("r"), {"files"}),
    Kid(FALSE, Tool(<<"input", "q">>, "text", "text"), Made("r"), {}),
    Kid(FALSE, Tool(Literal, "text", "text"), Nothing, {}),
    Kid(TRUE, Onward("leaf"), Made("o"), {}),
    Kid(TRUE, Onward("mid"), Made("o"), {}) }
Leaves ==
  { Kid(TRUE, Tool(<<"input", "q">>, "text", "text"), Made("r"), {}),
    Kid(TRUE, Loop(<<"input", "q">>, 2), Made("r"), {}),
    Kid(TRUE, [Tool(<<"input", "q">>, "text", "text") EXCEPT !.handlers = {"gone"}], Made("r"), {}),
    Kid(TRUE, Onward("deep"), Made("o"), {}) }
Deep == Kid(TRUE, Tool(<<"input", "q">>, "text", "text"), Made("r"), {})

Registries ==
  { [s \in {"root", "mid", "leaf", "deep"} |->
       CASE s = "root" -> root [] s = "mid" -> mid [] s = "leaf" -> leaf [] OTHER -> Deep] :
    root \in Roots, mid \in Mids, leaf \in Leaves }
=============================================================================
