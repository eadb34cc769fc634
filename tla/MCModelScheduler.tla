-------------------------- MODULE MCModelScheduler --------------------------
(* Instances of ModelScheduler for TLC. *)
EXTENDS ModelScheduler, TLC

CONSTANTS a, b, c, r1, r2, solo, shared, t1, t2, i1, i2, i3

\* Two models that compete for a one-model runtime, and one on a runtime that
\* holds several.
MCKey == {a, b, c}
MCModelOf == a :> "A" @@ b :> "B" @@ c :> "C"
MCRuntimeOf == a :> solo @@ b :> solo @@ c :> shared

Want(k, shares, pins, orchestrated) ==
  [key |-> k, conc |-> shares, pin |-> pins, orch |-> orchestrated]

\* A chat asks for a model of its own, or pins it; a batch asks for the routes
\* of a layer, in either order, and may ask to share the runtime.
MCSingle == {Want(k, FALSE, k = c, FALSE) : k \in MCKey}
MCBatch == {<<Want(b, FALSE, FALSE, TRUE), Want(c, FALSE, FALSE, TRUE)>>,
            <<Want(c, TRUE, FALSE, TRUE), Want(b, TRUE, FALSE, TRUE)>>}

Symmetry == Permutations({i1, i2, i3}) \cup Permutations({t1, t2})
              \cup Permutations({r1, r2})
=============================================================================
