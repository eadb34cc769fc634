--------------------------- MODULE SkillExecution ---------------------------
(***************************************************************************)
(* The execution of a planned skill: SkillExecutor.execute of              *)
(* aidream/skills/executor.py with the layer callbacks and the route       *)
(* invokers OrchestrationService.execute (aidream/orchestration.py) gives  *)
(* it.                                                                     *)
(*                                                                         *)
(* A skill is a graph of nodes.  Each call of execute is a frame: one for  *)
(* the root and one for every running skill node.  A frame goes through    *)
(* its graph in batches; it reserves slots and leases for the routes of a  *)
(* batch, runs the nodes on threads of their own, waits for all of them,   *)
(* reports what became of them and gives slots and leases back.            *)
(***************************************************************************)
EXTENDS Integers, FiniteSets, SequencesExt, Keeping

CONSTANTS
  Skill,    \* the skills of the plan; no two skill nodes name the same one
  Node,     \* the nodes of their graphs but the output nodes
  Root,     \* the skill that is executed
  Graph,    \* the nodes of a skill, in the order of the manifest
  Needs,    \* the nodes whose outputs a node refers to
  Kind,     \* route: a capability or a model; skill; local: all the others
  Child,    \* the skill that a node calls
  Limit     \* policy.max_parallel_nodes

ASSUME GraphAssumption ==
  /\ IsFiniteSet(Node) /\ Root \in Skill
  /\ Graph \in [Skill -> Seq(Node)] /\ Needs \in [Node -> SUBSET Node]
  /\ Kind \in [Node -> {"route", "skill", "local"}]
  /\ \A n \in Node : Kind[n] = "skill" => Child[n] \in Skill \ {Root}
\* What the manifests and the planner have checked: no node is listed twice, a
\* skill refers to its own nodes, nothing depends on itself, and no skill calls
\* itself in the end.
ASSUME ShapeAssumption ==
  /\ \A s \in Skill : IsInjective(Graph[s])
  /\ \A s, t \in Skill : s # t => ToSet(Graph[s]) \cap ToSet(Graph[t]) = {}
  /\ \A s \in Skill : \A n \in ToSet(Graph[s]) : Needs[n] \subseteq ToSet(Graph[s])
  /\ \A m, n \in Node : Kind[m] = "skill" /\ Kind[n] = "skill" /\ Child[m] = Child[n] => m = n
  /\ \A S \in SUBSET Node : S # {} => \E n \in S : Needs[n] \cap S = {}
  /\ \A S \in SUBSET Skill : S # {} => \E s \in S :
       \A t \in S : \A n \in ToSet(Graph[t]) : Kind[n] = "skill" => Child[n] # s
ASSUME LimitAssumption == Limit \in [Skill -> Nat \ {0}]

VARIABLES
  node,    \* where each node is
  frame,   \* the frames, by skill
  slots,   \* free route slots
  leases,  \* the route nodes in held_leases
  cancel,  \* cancel_event is set
  said     \* what each frame told its event callback

vars == <<node, frame, slots, leases, cancel, said>>

Frame == [phase : {"off", "next", "slots", "start", "wait", "release", "ended"},
          batch : Seq(Node),     \* the nodes that run together
          taken : 0..Limit[Root],  \* slots it holds for them
          exit  : {"none", "ok", "failed", "cancelled"},
          torn  : BOOLEAN]       \* a lease could not be released
Off == [phase |-> "off", batch |-> <<>>, taken |-> 0, exit |-> "none", torn |-> FALSE]
Settled == {"ok", "failed", "cancelled", "dropped"}

-----------------------------------------------------------------------------
(* The shape of a graph.                                                   *)

Nodes(s) == ToSet(Graph[s])
Routed(batch) == {n \in ToSet(batch) : Kind[n] = "route"}

\* Nobody runs more nodes at a time than the root allows.
Width(s) == IF Limit[s] < Limit[Root] THEN Limit[s] ELSE Limit[Root]

\* The layer of a node: one more than the last of the nodes it needs.
Rank[n \in Node] ==
  IF Needs[n] = {} THEN 0 ELSE 1 + Max({Rank[m] : m \in Needs[n]})

Idle(s) == Keep(Graph[s], {n \in Node : node[n] = "idle"})

\* Mutant: the order of the manifest, whatever a node needs.
BatchAsListed(s) ==
  IF Len(Idle(s)) > Width(s) THEN SubSeq(Idle(s), 1, Width(s)) ELSE Idle(s)

\* The next chunk of the first layer that is not done.
Batch(s) ==
  LET first == Min({Rank[n] : n \in ToSet(Idle(s))})
      layer == Keep(Idle(s), {n \in Node : Rank[n] = first})
  IN IF Len(layer) > Width(s) THEN SubSeq(layer, 1, Width(s)) ELSE layer

Init ==
  /\ node = [n \in Node |-> "idle"]
  /\ frame = [s \in Skill |-> IF s = Root THEN [Off EXCEPT !.phase = "next"] ELSE Off]
  /\ slots = Limit[Root] /\ leases = {} /\ cancel = FALSE
  /\ said = [s \in Skill |-> <<>>]

-----------------------------------------------------------------------------
(* One turn of a frame: reserve, start, wait, report, release.             *)

Ended(f, exit) == [f EXCEPT !.phase = "ended", !.batch = <<>>, !.taken = 0, !.exit = exit]

\* The next batch, unless the graph is done or the run is cancelled.  The
\* output nodes, the last layer, only pass their inputs on; a cancellation is
\* seen before them.
NextBatch(s) ==
  /\ frame[s].phase = "next"
  /\ \/ /\ Idle(s) # <<>> /\ ~cancel
        /\ frame' = [frame EXCEPT ![s] =
             [@ EXCEPT !.batch = Batch(s),
                       !.phase = IF Routed(Batch(s)) = {} THEN "start" ELSE "slots"]]
     \/ cancel /\ frame' = [frame EXCEPT ![s] = Ended(@, "cancelled")]
     \/ Idle(s) = <<>> /\ frame' = [frame EXCEPT ![s] = Ended(@, "ok")]
  /\ UNCHANGED <<node, slots, leases, cancel, said>>

Missing(s) == Cardinality(Routed(frame[s].batch)) - frame[s].taken

TakeSlot(s) ==
  /\ frame[s].phase = "slots" /\ Missing(s) > 0 /\ slots > 0
  /\ slots' = slots - 1
  /\ frame' = [frame EXCEPT ![s].taken = @ + 1]
  /\ UNCHANGED <<node, leases, cancel, said>>

\* Mutant: the slots are given back, and asked for again.
GiveUpAndRetry(s) ==
  /\ frame[s].phase = "slots" /\ cancel
  /\ slots' = slots + frame[s].taken
  /\ frame' = [frame EXCEPT ![s].taken = 0]
  /\ UNCHANGED <<node, leases, cancel, said>>

\* The cancellation is seen when no slot comes, or after the last one.
GiveUp(s) ==
  /\ frame[s].phase = "slots" /\ cancel
  /\ slots' = slots + frame[s].taken
  /\ frame' = [frame EXCEPT ![s] = Ended(@, "cancelled")]
  /\ UNCHANGED <<node, leases, cancel, said>>

\* acquire_many grants the leases of the whole batch or none.
Reserve(s) ==
  /\ frame[s].phase = "slots" /\ Missing(s) = 0 /\ ~cancel
  /\ \/ /\ leases' = leases \cup Routed(frame[s].batch)
        /\ frame' = [frame EXCEPT ![s].phase = "start"]
        /\ UNCHANGED slots
     \/ /\ slots' = slots + frame[s].taken
        /\ frame' = [frame EXCEPT ![s] = Ended(@, "failed")]
        /\ UNCHANGED leases
  /\ UNCHANGED <<node, cancel, said>>

Told(what, batch) == [i \in DOMAIN batch |-> <<what, batch[i]>>]

Launch(s) ==
  /\ frame[s].phase = "start"
  /\ said' = [said EXCEPT ![s] = @ \o Told("started", frame[s].batch)]
  /\ node' = [n \in Node |-> IF n \in ToSet(frame[s].batch) THEN "pending" ELSE node[n]]
  /\ frame' = [frame EXCEPT ![s].phase = "wait"]
  /\ UNCHANGED <<slots, leases, cancel>>

Parallel(s) == Len(frame[s].batch) > 1

\* A branch that was cancelled cancels the run, and its siblings that have
\* not started.
Observe(s) ==
  /\ frame[s].phase = "wait" /\ Parallel(s)
  /\ \E n \in ToSet(frame[s].batch) : node[n] = "cancelled"
  /\ LET unstarted == {n \in ToSet(frame[s].batch) : node[n] = "pending"}
     IN /\ ~cancel \/ unstarted # {}
        /\ node' = [n \in Node |-> IF n \in unstarted THEN "dropped" ELSE node[n]]
  /\ cancel' = TRUE
  /\ UNCHANGED <<frame, slots, leases, said>>

\* Mutant: the node is reported first, and then what its child reported.
ReportSelfFirst(n) ==
  <<<<IF node[n] = "ok" THEN "completed" ELSE "failed", n>>>>
    \o (IF Kind[n] = "skill" THEN said[Child[n]] ELSE <<>>)
\* What a node reports when it is done: first what its child reported.
Report(n) ==
  (IF Kind[n] = "skill" THEN said[Child[n]] ELSE <<>>)
    \o <<<<IF node[n] = "ok" THEN "completed" ELSE "failed", n>>>>

\* A cancellation wins over every failure.
Error(batch) ==
  LET ends == {node[n] : n \in ToSet(batch)}
  IN IF "cancelled" \in ends THEN "cancelled" ELSE IF ends = {"ok"} THEN "none" ELSE "failed"

\* The pool has been left, and the parent has looked at every outcome.
Joined(s) ==
  /\ \A n \in ToSet(frame[s].batch) : node[n] \in Settled
  /\ Parallel(s) /\ (\E n \in ToSet(frame[s].batch) : node[n] = "cancelled") => cancel

Reports(batch) == FlattenSeq([i \in DOMAIN batch |-> Report(batch[i])])

\* Mutant: the first failure is reported without waiting for the others.
MergeAtFirstFailure(s) ==
  /\ frame[s].phase = "wait"
  /\ Joined(s) \/ \E n \in ToSet(frame[s].batch) : node[n] = "failed"
  /\ said' = [said EXCEPT ![s] = @ \o Reports(frame[s].batch)]
  /\ frame' = [frame EXCEPT ![s].phase = "release", ![s].exit = Error(frame[s].batch)]
  /\ UNCHANGED <<node, slots, leases, cancel>>
\* All nodes of the batch are done: report them in the order of the graph.
Merge(s) ==
  /\ frame[s].phase = "wait" /\ Joined(s)
  /\ said' = [said EXCEPT ![s] = @ \o Reports(frame[s].batch)]
  /\ frame' = [frame EXCEPT ![s].phase = "release", ![s].exit = Error(frame[s].batch)]
  /\ UNCHANGED <<node, slots, leases, cancel>>

\* release_layer.  The scheduler may raise for a lease, which fails the frame
\* once the others are released too.
Release(s) ==
  /\ frame[s].phase = "release"
  /\ leases' = leases \ ToSet(frame[s].batch)
  /\ slots' = slots + frame[s].taken
  /\ \/ frame' = [frame EXCEPT ![s] =
          IF @.exit = "none" THEN [@ EXCEPT !.phase = "next", !.batch = <<>>, !.taken = 0]
          ELSE Ended(@, @.exit)]
     \/ /\ Routed(frame[s].batch) # {}
        /\ frame' = [frame EXCEPT ![s] = [Ended(@, "failed") EXCEPT !.torn = TRUE]]
  /\ UNCHANGED <<node, cancel, said>>

-----------------------------------------------------------------------------
(* _run_node, on the thread of the node.                                   *)

Enter(n) ==
  /\ node[n] = "pending"
  /\ node' = [node EXCEPT ![n] = IF cancel THEN "cancelled" ELSE "running"]
  /\ frame' = IF ~cancel /\ Kind[n] = "skill"
              THEN [frame EXCEPT ![Child[n]].phase = "next"] ELSE frame
  /\ UNCHANGED <<slots, leases, cancel, said>>

\* A handler returns, raises, or stops for the cancellation; invoke of a route
\* looks at it once more before the runtime is called.
Return(n) ==
  /\ node[n] = "running" /\ Kind[n] # "skill"
  /\ \E end \in {"ok", "failed", "cancelled"} : node' = [node EXCEPT ![n] = end]
  /\ UNCHANGED <<frame, slots, leases, cancel, said>>

SkillReturns(n) ==
  /\ node[n] = "running" /\ Kind[n] = "skill" /\ frame[Child[n]].phase = "ended"
  /\ node' = [node EXCEPT ![n] = frame[Child[n]].exit]
  /\ UNCHANGED <<frame, slots, leases, cancel, said>>

Cancel ==
  /\ ~cancel /\ frame[Root].phase # "ended"
  /\ cancel' = TRUE
  /\ UNCHANGED <<node, frame, slots, leases, said>>

\* The manager has the result; the plan may be executed again.
Again ==
  /\ frame[Root].phase = "ended"
  /\ node' = [n \in Node |-> "idle"]
  /\ frame' = [s \in Skill |-> IF s = Root THEN [Off EXCEPT !.phase = "next"] ELSE Off]
  /\ slots' = Limit[Root] /\ leases' = {} /\ cancel' = FALSE
  /\ said' = [s \in Skill |-> <<>>]

-----------------------------------------------------------------------------

FrameStep(s) == \/ NextBatch(s) \/ Reserve(s) \/ Launch(s)
                \/ Observe(s) \/ Merge(s) \/ Release(s)
Thread(n)    == Enter(n) \/ Return(n) \/ SkillReturns(n)

Next ==
  \/ Cancel \/ Again
  \/ \E s \in Skill : FrameStep(s) \/ TakeSlot(s) \/ GiveUp(s)
  \/ \E n \in Node : Thread(n)

Spec == Init /\ [][Next]_vars

\* Threads run, handlers return, and a frame that waits for a slot gets one
\* when slots keep coming free or sees the cancellation.
Fairness ==
  /\ \A s \in Skill : WF_vars(FrameStep(s)) /\ SF_vars(TakeSlot(s)) /\ WF_vars(GiveUp(s))
  /\ \A n \in Node : WF_vars(Thread(n))

FairSpec == Spec /\ Fairness

-----------------------------------------------------------------------------
(* Safety.                                                                 *)

\* The types of the variables.
TypeOK ==
  /\ node \in [Node -> {"idle", "pending", "running"} \cup Settled]
  /\ frame \in [Skill -> Frame]
  /\ slots \in 0..Limit[Root] /\ leases \in SUBSET Node /\ cancel \in BOOLEAN
  /\ said \in [Skill -> Seq({"started", "completed", "failed"} \X Node)]

Running(n) == node[n] = "running"
Routes     == {n \in Node : Kind[n] = "route"}

\* The cap of the root holds for the routes of all nested skills together
\* (route_slots in OrchestrationService.execute).
RoutesWithinBudget == Cardinality({n \in Routes : Running(n)}) <= Limit[Root]

\* A route that has reached the runtime keeps its lease until it returns, also
\* when a sibling fails or the run is cancelled (release_layer comes after
\* all threads of the batch).
RoutesHoldLeases == \A n \in Routes : Running(n) => n \in leases

\* However an execution ends, no slot and no lease is lost, no thread goes on,
\* and no nested execution is left behind.
NothingLeaks ==
  frame[Root].phase = "ended" =>
    /\ leases = {} /\ slots = Limit[Root]
    /\ \A n \in Node : node[n] \in {"idle"} \cup Settled
    /\ \A s \in Skill : frame[s].phase \in {"off", "ended"}

\* A run uses the capacity it was given and nothing else, and gives it back.
RoutesAreCovered == TypeOK /\ RoutesWithinBudget /\ RoutesHoldLeases /\ NothingLeaks

\* A node is started when everything it refers to is there, in whatever order
\* the manifest lists the nodes (_execution_layers, _resolve_inputs).
ProducersFirst ==
  \A n \in Node : node[n] # "idle" => \A m \in Needs[n] : node[m] = "ok"

\* A cancelled node makes its skill end as cancelled, whatever its siblings
\* did, unless a lease could not be released.
CancellationWins ==
  \A s \in Skill :
    frame[s].phase = "ended" /\ (\E n \in Nodes(s) : node[n] = "cancelled")
      => frame[s].exit = "cancelled" \/ frame[s].torn

\* A node begins after the nodes it refers to, and a skill ends as its nodes.
NodesDecide == ProducersFirst /\ CancellationWins

\* Where an event is in the report of the root, 0 when it is not there.
Place(what, n) ==
  LET at == {i \in DOMAIN said[Root] : said[Root][i] = <<what, n>>}
  IN IF at = {} THEN 0 ELSE Min(at)
Begun(n) == Place("started", n)
Done(n)  == Max({Place("completed", n), Place("failed", n)})

\* What a run reports does not depend on the threads: every node that started
\* has ended when the run ends, once, the nodes of a skill inside the node
\* that calls it, and the nodes of a layer in the order of the manifest
\* (child_trace, outcomes).
ReportIsOrderly ==
  /\ IsInjective(said[Root])
  /\ \A n \in Node :
       /\ Done(n) > 0 => 0 < Begun(n) /\ Begun(n) < Done(n)
       /\ frame[Root].phase = "ended" /\ Begun(n) > 0 => Done(n) > 0
       /\ Kind[n] = "skill" => \A m \in Nodes(Child[n]) : Begun(m) > 0 =>
            Begun(n) < Begun(m) /\ Done(m) < Done(n)
  /\ \A s \in Skill : \A i, j \in DOMAIN Graph[s] :
       i < j /\ Rank[Graph[s][i]] = Rank[Graph[s][j]] /\ Done(Graph[s][j]) > 0
         => 0 < Done(Graph[s][i]) /\ Done(Graph[s][i]) < Done(Graph[s][j])

-----------------------------------------------------------------------------
(* Liveness.                                                               *)

\* Every execution ends, and one that is cancelled ends also when it waits for
\* route slots; provided no nested skill needs slots that its callers keep
\* from it until it has ended (reserve_layer, release_layer).
ExecutionsEnd ==
  /\ frame[Root].phase = "next" ~> frame[Root].phase = "ended"
  /\ cancel ~> frame[Root].phase = "ended" \/ ~cancel
=============================================================================
