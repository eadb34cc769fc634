--------------------------- MODULE SkillContracts ---------------------------
(***************************************************************************)
(* What a declared skill may be and what running it then does:             *)
(* validate_skill_manifest (skills/contracts.py), the type check of        *)
(* SkillExecutor and its execution of one node after another               *)
(* (skills/executor.py).  A skill is a graph of nodes whose inputs refer   *)
(* to outputs of other nodes or to inputs of the skill; a node may be a    *)
(* skill.  The registry is fixed while the program runs, so it is chosen   *)
(* in ContractInit.  Values are kinds of artifacts: that is all the checks see.    *)
(*                                                                         *)
(* Nodes run one at a time here, in the order of their layers; module      *)
(* SkillExecution has the interleavings of a layer, its leases and its     *)
(* cancellation.                                                           *)
(***************************************************************************)
EXTENDS Naturals, FiniteSets, SequencesExt, Relation

CONSTANTS
  Root,       \* the skill that is run
  Registry,   \* the registries to try: functions from skill ids to manifests
  MaxDepth,   \* MAX_SUBSKILL_DEPTH
  Handlers    \* the handlers that are registered

ASSUME DepthAssumption == MaxDepth \in Nat
ASSUME RegistryAssumption ==
  \A registry \in Registry :
    /\ Root \in DOMAIN registry
    /\ \A s \in DOMAIN registry : LET m == registry[s] IN
         /\ IsFiniteSet(DOMAIN m.nodes) /\ m.maxsteps \in Nat
         /\ \A i \in DOMAIN m.nodes : m.nodes[i].times \in Nat

VARIABLES
  skills,     \* SkillRegistry: the last version of every skill id
  phase,      \* "new", "checked", "running", "done", "refused" or "failed"
  why,        \* the reason of a refusal or a failure
  frames,     \* the executors that are running, the outermost first
  result      \* what the outermost has returned: port -> kind
contracts == <<skills, phase, why, frames, result>>

-----------------------------------------------------------------------------
(* References.  An input of a node is Literal or <<node, port>>, and        *)
(* <<"input", port>> is an input of the skill.                             *)

Literal == <<>>
Empty == [x \in {} |-> x]
Refs(n) == {n.in[p] : p \in {q \in DOMAIN n.in : n.in[q] # Literal}}
NodeRefs(n) == {r \in Refs(n) : r[1] # "input"}
Needs(g, i) == {r[1] : r \in NodeRefs(g[i])}

\* Mutant: the search for cycles stops at the first step.
NoSelfReference(g) == \A i \in DOMAIN g : i \notin Needs(g, i)
\* The search visits every node after those it needs: wherever it stands, one
\* of the nodes that are left needs none of the others.
Acyclic(g) == \A left \in (SUBSET DOMAIN g) \ {{}} : \E i \in left : Needs(g, i) \cap left = {}

\* Whether node i waits, directly or not, for node j (get_ancestors).
Waits(g) == TransitiveClosure([e \in (DOMAIN g) \X (DOMAIN g) |-> e[2] \in Needs(g, e[1])], DOMAIN g)

\* validate_workflow_graph: bounds of a loop and of a fallback, references
\* to what is declared, no cycle.
WellFormed(m) ==
  LET g == m.nodes
  IN /\ \A i \in DOMAIN g :
          /\ g[i].type = "loop" => g[i].times \in 1..8
          /\ g[i].type = "fallback" => g[i].times \in 2..4
          /\ \A r \in Refs(g[i]) :
               IF r[1] = "input" THEN r[2] \in DOMAIN m.ins
               ELSE r[1] \in DOMAIN g /\ r[2] \in DOMAIN g[r[1]].out
     /\ Acyclic(g)

-----------------------------------------------------------------------------
(* The type check of one manifest, its nested skills apart.                *)

\* _lookup_subskill
Lookup(n) ==
  n.skill \in DOMAIN skills /\ n.version \in {0, skills[n.skill].version}

\* The ports a node declares, and their kinds.
Declared(m, i) ==
  LET n == m.nodes[i]
  IN CASE n.type = "input"  -> LET port == IF "value" \in DOMAIN n.out THEN n.out["value"] ELSE n.name
                               IN [p \in {port} |-> m.ins[n.name].kind]
       [] n.type = "output" -> Empty
       [] OTHER             -> n.out

KindOf(m, r) ==
  IF r[1] = "input" THEN m.ins[r[2]].kind ELSE Declared(m, r[1])[r[2]]
IsDeclared(m, r) == r[1] = "input" \/ r[2] \in DOMAIN Declared(m, r[1])

Join(n) ==
  /\ n.out = [p \in {"value"} |-> "json"]
  /\ DOMAIN n.in # {} /\ DOMAIN n.accepts = DOMAIN n.in
  /\ \A p \in DOMAIN n.in : n.in[p] # Literal

\* A parallel node hands on at least two branches of different producers,
\* none of which waits for another.
Parallel(g, n) ==
  LET producers == {r[1] : r \in Refs(n)}
  IN /\ Cardinality(DOMAIN n.in) >= 2
     /\ DOMAIN n.accepts = DOMAIN n.in /\ n.out = n.accepts
     /\ \A p \in DOMAIN n.in : n.in[p] # Literal /\ n.in[p][1] # "input"
     /\ Cardinality(producers) = Cardinality(DOMAIN n.in)
     /\ \A i, j \in producers : ~Waits(g)[i, j]

Grants(parent, child) == child.permits \subseteq parent.permits

\* A nested skill is supplied with ports it has, with every one it requires,
\* of the kinds it declares, and its node declares exactly its outputs.
Nested(m, n) ==
  LET child == skills[n.skill]
  IN /\ Lookup(n)
     /\ Grants(m, child)
     /\ DOMAIN n.in \subseteq DOMAIN child.ins
     /\ \A p \in DOMAIN child.ins : child.ins[p].required => p \in DOMAIN n.in
     /\ DOMAIN n.accepts = DOMAIN n.in
     /\ \A p \in DOMAIN n.in : n.accepts[p] = child.ins[p].kind
     /\ n.out = [p \in DOMAIN child.outs |-> child.outs[p].kind]

NodeIsTyped(m, i) ==
  LET n == m.nodes[i]
  IN CASE n.type = "input"    -> n.name \in DOMAIN m.ins
       [] n.type = "output"   -> TRUE
       [] n.type = "join"     -> Join(n)
       [] n.type = "parallel" -> Parallel(m.nodes, n)
       [] n.type = "skill"    -> Nested(m, n)
       [] n.type = "loop"     -> /\ Cardinality(DOMAIN n.in) = 1 /\ Cardinality(DOMAIN n.out) = 1
                                 /\ DOMAIN n.accepts = DOMAIN n.in
                                 /\ {n.accepts[p] : p \in DOMAIN n.in} = {n.out[p] : p \in DOMAIN n.out}
       [] OTHER               -> DOMAIN n.out # {}

\* Every edge but those into an output node ends where its kind is accepted.
EdgesAreTyped(m) ==
  \A i \in DOMAIN m.nodes : LET n == m.nodes[i] IN n.type \notin {"input", "output"} =>
    \A p \in DOMAIN n.in : n.in[p] # Literal =>
      /\ IsDeclared(m, n.in[p])
      /\ p \in DOMAIN n.accepts /\ n.accepts[p] = KindOf(m, n.in[p])

Publishers(m, port) ==
  {i \in DOMAIN m.nodes : m.nodes[i].type = "output" /\ port \in DOMAIN m.nodes[i].in}

\* What is published has the kind of the output; what is required is
\* published.  An input of the skill cannot be published directly.
OutputsAreTyped(m) ==
  \A port \in DOMAIN m.outs :
    /\ m.outs[port].required => Publishers(m, port) # {}
    /\ \A i \in Publishers(m, port) :
         LET r == m.nodes[i].in[port]
         IN r # Literal /\ r[1] # "input" /\ IsDeclared(m, r) /\ KindOf(m, r) = m.outs[port].kind

Work(m) == {i \in DOMAIN m.nodes : m.nodes[i].type \notin {"input", "output"}}

Times(n) == IF n.type \in {"loop", "fallback"} THEN n.times ELSE 1

\* The numbers of S, added up.
Sum(number, S) == MapThenSumSet(LAMBDA x : number[x], S)

\* What the nodes of a manifest cost if a nested skill s costs nested[s].
Costs(m, nested) ==
  [i \in Work(m) |->
    LET n == m.nodes[i]
    IN IF n.type = "skill" /\ Lookup(n) THEN nested[n.skill] ELSE Times(n)]
Total(m, nested) == Sum(Costs(m, nested), Work(m))

\* _subskill_step_cost, of the skills nested less than d deep.
NestedCost[d \in 0..MaxDepth] ==
  IF d = 0 THEN [s \in DOMAIN skills |-> 1]
  ELSE [s \in DOMAIN skills |->
         LET total == Total(skills[s], NestedCost[d - 1]) IN IF total = 0 THEN 1 ELSE total]

\* Mutant: a nested skill is one step.
FlatCost(m) == Total(m, [s \in DOMAIN skills |-> 1])
StepCost(m) == Total(m, NestedCost[MaxDepth])

\* _type_check of one manifest.
Typed(m) ==
  /\ WellFormed(m)
  /\ \A i \in DOMAIN m.nodes : NodeIsTyped(m, i)
  /\ EdgesAreTyped(m)
  /\ (\E i \in DOMAIN m.nodes : m.nodes[i].type = "parallel") => m.parallel >= 2
  /\ m.maxsteps # 0 => StepCost(m) <= m.maxsteps      \* 0: no limit is declared
  /\ OutputsAreTyped(m)

\* The stacks of nested calls that begin with skill s, down to one more than
\* are allowed, and the skills they lead to.
Called(s) == {skills[s].nodes[i].skill : i \in
                {j \in DOMAIN skills[s].nodes : LET n == skills[s].nodes[j] IN n.type = "skill" /\ Lookup(n)}}
Stacks(s) ==
  {stack \in UNION {[1..k -> DOMAIN skills] : k \in 1..(MaxDepth + 2)} :
     stack[1] = s /\ \A k \in 2..Len(stack) : stack[k] \in Called(stack[k - 1])}
Reached(s) == {Last(stack) : stack \in Stacks(s)}

\* _type_check with its nested skills.
TypeChecked(s) ==
  /\ \A stack \in Stacks(s) : Len(stack) <= MaxDepth + 1 /\ IsInjective(stack)
  /\ \A t \in Reached(s) : Typed(skills[t])

-----------------------------------------------------------------------------
(* Running a skill that has been accepted.                                 *)

Available(f, n) ==
  IF n.type = "input" THEN n.name \in DOMAIN f.given
  ELSE \A r \in Refs(n) : r[2] \in DOMAIN (IF r[1] = "input" THEN f.given ELSE f.have[r[1]])

\* _resolve_inputs.  A literal has no kind.
Resolve(f, n) ==
  LET value(r) == CASE r = Literal    -> "literal"
                    [] r[1] = "input" -> f.given[r[2]]
                    [] OTHER          -> f.have[r[1]][r[2]]
  IN IF n.type = "input"
     THEN [p \in {IF "value" \in DOMAIN n.out THEN n.out["value"] ELSE n.name} |-> f.given[n.name]]
     ELSE [p \in DOMAIN n.in |-> value(n.in[p])]

Referenced(m) ==
  {r[2] : r \in {q \in UNION {Refs(m.nodes[i]) : i \in DOMAIN m.nodes} : q[1] = "input"}}
    \union {m.nodes[i].name : i \in {j \in DOMAIN m.nodes : m.nodes[j].type = "input"}}

InputsFit(m, given) ==
  /\ DOMAIN given \subseteq DOMAIN m.ins
  /\ \A p \in DOMAIN m.ins : m.ins[p].required => p \in DOMAIN given
  /\ \A p \in DOMAIN given : given[p] = m.ins[p].kind
\* What execute demands of the inputs before it runs a node.
Suffices(m, given) == InputsFit(m, given) /\ Referenced(m) \subseteq DOMAIN given

MissingHere(m) == UNION {m.nodes[i].handlers : i \in DOMAIN m.nodes} \ Handlers
\* _preflight_registered_handlers, and the fallbacks: with nested skills.
Missing(s) == UNION {MissingHere(skills[t]) : t \in Reached(s)}

\* _execution_layers: what is ready once all that was ready has run.
NextLayer(m, have) ==
  {i \in DOMAIN m.nodes \ DOMAIN have :
     m.nodes[i].type = "input" \/ Needs(m.nodes, i) \subseteq DOMAIN have}

Frame(s, i, given) ==
  [skill |-> s, node |-> i, given |-> given, have |-> Empty, spent |-> 0,
   layer |-> NextLayer(skills[s], Empty)]

Top == Last(frames)
Manifest(f) == skills[f.skill]
Below(stack) == SubSeq(stack, 1, Len(stack) - 1)

\* The frame once node i has produced its artifacts.
Published(f, i, produced, steps) ==
  LET have == [j \in DOMAIN f.have \union {i} |-> IF j = i THEN produced ELSE f.have[j]]
  IN [f EXCEPT !.have = have, !.spent = @ + steps,
               !.layer = IF @ = {i} THEN NextLayer(Manifest(f), have) ELSE @ \ {i}]
Publish(i, produced, steps) ==
  /\ frames' = Append(Below(frames), Published(Top, i, produced, steps))
  /\ UNCHANGED <<skills, phase, why, result>>

Fail(reason) ==
  /\ phase' = "failed" /\ why' = reason
  /\ UNCHANGED <<skills, frames, result>>

Refuse(reason) ==
  /\ phase' = "refused" /\ why' = reason
  /\ UNCHANGED <<skills, frames, result>>

-----------------------------------------------------------------------------
(* Steps.                                                                  *)

\* type_check, which every execution starts with.
TypeCheck ==
  /\ phase = "new"
  /\ IF TypeChecked(Root)
     THEN phase' = "checked" /\ UNCHANGED <<skills, why, frames, result>>
     ELSE Refuse("contract")

\* execute, up to its first layer.
Begin(given) ==
  /\ phase = "checked"
  /\ CASE Missing(Root) # {}    -> Refuse("unregistered")
       [] ~Suffices(skills[Root], given)    -> Refuse("inputs")
       [] OTHER -> /\ phase' = "running" /\ frames' = <<Frame(Root, 0, given)>>
                   /\ UNCHANGED <<skills, why, result>>

\* A node whose references lead nowhere ends the run with a KeyError.
LooseEnd(i) ==
  /\ ~Available(Top, Manifest(Top).nodes[i])
  /\ Fail("reference")

\* input, output, parallel and join run no handler (_run_node).
Bookkeeping(i) ==
  LET n == Manifest(Top).nodes[i]
  IN /\ n.type \in {"input", "output", "parallel", "join"}
     /\ Available(Top, n)
     /\ Publish(i, IF n.type = "join" THEN n.out ELSE Resolve(Top, n),
                IF n.type \in {"parallel", "join"} THEN 1 ELSE 0)

\* The handler of a tool, a capability, a model, a transform or a router,
\* the same transform over and over, or one candidate after the other
\* (_run_node, _run_fallback): every one returns what its node declares, or
\* it fails.
Invoke(i) ==
  LET n == Manifest(Top).nodes[i]
  IN /\ n.type \in {"tool", "loop", "fallback"}
     /\ Available(Top, n)
     /\ \/ \E k \in 1..Times(n) : (n.type # "fallback" => k = Times(n)) /\ Publish(i, n.out, k)
        \/ /\ frames' = Append(Below(frames), [Top EXCEPT !.spent = @ + Times(n)])
           /\ phase' = "failed" /\ why' = "handler"
           /\ UNCHANGED <<skills, result>>

\* _run_subskill: the nested execute makes the same demands.
Enter(i) ==
  LET n == Manifest(Top).nodes[i]
      child == skills[n.skill]
      given == Resolve(Top, n)
  IN /\ n.type = "skill"
     /\ Available(Top, n)
     /\ CASE ~TypeChecked(n.skill)  -> Fail("contract")
          [] n.skill \in {frames[k].skill : k \in DOMAIN frames} \/ Len(frames) > MaxDepth -> Fail("nesting")
          [] Missing(n.skill) # {} -> Fail("unregistered")
          [] ~Suffices(child, given)  -> Fail("inputs")
          [] OTHER -> /\ frames' = Append(frames, Frame(n.skill, i, given))
                      /\ UNCHANGED <<skills, phase, why, result>>

RunNode == phase = "running" /\ \E i \in Top.layer :
  LooseEnd(i) \/ Bookkeeping(i) \/ Invoke(i) \/ Enter(i)

\* What the output nodes of a skill have published.
Outcome(f) ==
  LET outputs == {i \in DOMAIN f.have : Manifest(f).nodes[i].type = "output"}
  IN [p \in UNION {DOMAIN f.have[i] : i \in outputs} |->
        f.have[CHOOSE i \in outputs : p \in DOMAIN f.have[i]][p]]

\* The last layer has run: the skill returns to its caller.  Nodes that can
\* never run are found before the first one does; here it is when none is left.
Return ==
  /\ phase = "running" /\ Top.layer = {}
  /\ CASE DOMAIN Top.have # DOMAIN Manifest(Top).nodes -> Fail("order")
       [] Len(frames) = 1 ->
            /\ phase' = "done" /\ result' = Outcome(Top)
            /\ UNCHANGED <<skills, why, frames>>
       [] OTHER ->
            /\ frames' = Append(Below(Below(frames)),
                                Published(Last(Below(frames)), Top.node, Outcome(Top), Top.spent))
            /\ UNCHANGED <<skills, phase, why, result>>

\* The inputs a request may bring: of the skill's ports and of another one.
Requests(m) ==
  UNION {[ports -> {"text", "json"}] : ports \in SUBSET (DOMAIN m.ins \union {"other"})}

ContractInit ==
  /\ skills \in Registry
  /\ phase = "new" /\ why = "" /\ frames = <<>> /\ result = Empty

ContractNext == TypeCheck \/ (\E given \in Requests(skills[Root]) : Begin(given)) \/ RunNode \/ Return

ContractSpec == ContractInit /\ [][ContractNext]_contracts

-----------------------------------------------------------------------------
(* Properties.                                                             *)

Reason == {"", "contract", "nesting", "unregistered", "inputs", "reference", "handler", "order"}

\* The values the executor keeps, and that a run ends for a reason.
ContractTypeOK ==
  /\ phase \in {"new", "checked", "running", "done", "refused", "failed"}
  /\ why \in Reason /\ (why # "" <=> phase \in {"refused", "failed"})
  /\ frames # <<>> <=> phase \in {"running", "done", "failed"}
  /\ \A k \in DOMAIN frames :
       /\ frames[k].skill \in DOMAIN skills /\ frames[k].spent \in Nat
       /\ frames[k].layer \subseteq DOMAIN Manifest(frames[k]).nodes \ DOMAIN frames[k].have
       /\ k > 1 => frames[k].node \in frames[k - 1].layer

\* "Validate every graph edge and artifact kind before side effects" (type_check):
\* when a node runs, every reference it makes leads to an artifact of the
\* kind it accepts, and a skill that ends has published every output it
\* requires, with the kind it declares.
NodesGetWhatTheyAccept ==
  /\ \A k \in DOMAIN frames : \A i \in frames[k].layer :
       LET f == frames[k]
           n == Manifest(f).nodes[i]
       IN n.type \notin {"input", "output"} /\ Available(f, n) =>
            \A p \in DOMAIN n.in : n.in[p] # Literal => Resolve(f, n)[p] = n.accepts[p]
  /\ phase = "done" =>
       \A p \in DOMAIN skills[Root].outs :
         LET port == skills[Root].outs[p]
         IN /\ port.required => p \in DOMAIN result
            /\ p \in DOMAIN result => result[p] = port.kind

\* A nested skill is called without an input it may do without, with a
\* literal, or for an output it need not publish.
Loose ==
  \E s \in DOMAIN skills : \E i \in Work(skills[s]) : LET n == skills[s].nodes[i] IN
    /\ n.type = "skill" /\ Lookup(n)
    /\ \/ DOMAIN n.in # DOMAIN skills[n.skill].ins
       \/ \E p \in DOMAIN n.in : n.in[p] = Literal
       \/ \E p \in DOMAIN n.out : ~skills[n.skill].outs[p].required

\* An output node publishes under a name the skill does not declare; where
\* that comes from is not checked, and no node may have it.
Stray ==
  \E s \in DOMAIN skills : \E i \in DOMAIN skills[s].nodes : LET n == skills[s].nodes[i] IN
    /\ n.type = "output"
    /\ \E p \in DOMAIN n.in \ DOMAIN skills[s].outs : n.in[p] # Literal /\ ~IsDeclared(skills[s], n.in[p])

\* Once a skill has begun to act, it fails only because a handler does:
\* a missing handler, an input that does not fit and nodes that wait for each
\* other are found before, and a reference that leads nowhere is found too,
\* unless an optional port of a nested skill (Loose) or an output nobody
\* declared (Stray) is in play.
AcceptedSkillsAreWired ==
  phase = "failed" =>
    \/ why = "handler"
    \/ Loose /\ why \in {"reference", "inputs"}
    \/ Stray /\ why = "reference"

\* What the type check accepts, the executor can run.
AcceptedSkillsRun == ContractTypeOK /\ NodesGetWhatTheyAccept /\ AcceptedSkillsAreWired

\* The steps a skill takes, those of its nested skills included.
Spent(k) == Sum([j \in DOMAIN frames |-> frames[j].spent], k..Len(frames))

\* A skill, nested or not, takes no more steps than its policy allows, a
\* nested skill is permitted nothing its callers are not, no skill runs inside
\* itself and none deeper than the limit (_type_check).
RunsStayWithinTheirLimits ==
  /\ \A k \in DOMAIN frames : LET limit == Manifest(frames[k]).maxsteps IN limit = 0 \/ Spent(k) <= limit
  /\ \A j, k \in DOMAIN frames : j < k =>
       /\ Manifest(frames[k]).permits \subseteq Manifest(frames[j]).permits
       /\ frames[j].skill # frames[k].skill
  /\ Len(frames) <= MaxDepth + 1
=============================================================================
