----------------------------- MODULE RunManager -----------------------------
(***************************************************************************)
(* The lifecycle of orchestration runs: aidream/run_manager.py, the        *)
(* journal it writes through aidream/run_journal.py, and the event stream  *)
(* that aidream/http_api.py serves from it.                                *)
(*                                                                         *)
(* One RLock protects the runs.  A method that does more than one thing    *)
(* the disk or a reader can see under that lock leaves the rest of its     *)
(* work in script, so that the process may die between any two journal     *)
(* writes; the lock is free when script is empty.  The worker threads of   *)
(* the pool are at pc[r], outside the lock while the executor runs.        *)
(***************************************************************************)
EXTENDS Integers, FiniteSets, SequencesExt, Keeping

CONSTANTS
  RunId,         \* identifiers of runs; one that is nowhere in use is fresh
  MaxActive,     \* max_active_runs
  MaxRetained,   \* max_retained_runs
  MaxRecords,    \* max_records of the journal
  MaxEvents,     \* max_events_per_run
  Workers,       \* threads of the pool
  Client,        \* readers of the event stream
  MaxSeq,        \* bound: the executor reports nothing after this many events
  MaxFaults,     \* bound: how often a write may fail or the process die
  Narrow         \* bound: few clients, see Calm, Once, Solo and Seen; the
                 \* theorems hold with it and without

Terminal == {"succeeded", "failed", "cancelled"}
EventType == {"created", "resolved", "started", "note", "produced",
              "cancelling", "completed"} \cup Terminal
Event == [seq : Nat \ {0}, type : EventType]

ASSUME RunAssumption == IsFiniteSet(RunId)
ASSUME LimitAssumption ==
  /\ MaxActive \in Nat \ {0} /\ MaxEvents \in Nat \ {0} /\ Workers \in Nat \ {0}
  /\ MaxRetained \in Nat /\ MaxRecords \in Nat /\ MaxSeq \in Nat /\ MaxFaults \in Nat
  /\ MaxActive <= MaxRetained /\ MaxRetained <= MaxRecords
  /\ Narrow \in BOOLEAN

VARIABLES
  order,    \* the identifiers in _runs, in the order of the dictionary
  run,      \* the _Run objects
  pc,       \* where the worker of a run is; "queued" while its future waits
  queue,    \* futures the pool has not started
  script,   \* what the holder of _lock still has to do
  stage,    \* of the manager: restoring, open, closing, draining, closed, down
  closing,  \* the active runs that close found, and whether it waits
  boot,     \* journal rows _restore_journal has still to load
  disk,     \* the rows in the journal file
  jerr,     \* _journal_error is set
  durable,  \* _durable_run_ids
  arts,     \* runs that own artifacts in the artifact store
  leased,   \* runs whose leases release_leases has not released
  sub,      \* the event streams
  faults    \* how many writes failed, and how often the process died

journal == <<disk, jerr, durable, faults>>
process == <<stage, closing, boot>>
vars    == <<order, run, pc, queue, script, process, journal, arts, leased, sub>>

NoRun  == [state |-> "none", cancel |-> FALSE, events |-> <<>>, next |-> 1,
           error |-> "none", outputs |-> FALSE]
NewRun == [NoRun EXCEPT !.state = "queued"]
NoSub  == [run |-> "none", after |-> 0, phase |-> "off"]
NoClose == [runs |-> <<>>, wait |-> FALSE]

Retained    == ToSet(order)
IsOver(R, r) == R[r].state \in Terminal
Active      == {r \in Retained : ~IsOver(run, r)}
Unlocked    == script = <<>> /\ stage \notin {"restoring", "down"}
Busy        == {r \in RunId : pc[r] \notin {"none", "queued", "dropped"}}

\* An identifier that uuid4 could have just made up.
Fresh(r) == /\ r \notin Retained /\ pc[r] = "none"
            /\ r \notin {disk[i].id : i \in DOMAIN disk}
            /\ \A c \in Client : sub[c].run # r

-----------------------------------------------------------------------------
(* Events, the journal and pruning.                                        *)

Step(do, r, what) == [do |-> do, run |-> r, what |-> what]

\* _emit_locked: the event gets the next sequence number, and only the last
\* MaxEvents events are kept.
Appended(R, r, type) ==
  LET all == Append(R[r].events, [seq |-> R[r].next, type |-> type])
      cut == IF Len(all) > MaxEvents THEN Len(all) - MaxEvents ELSE 0
  IN [R EXCEPT ![r].events = SubSeq(all, cut + 1, Len(all)), ![r].next = @ + 1]

Row(R, r) == [id |-> r, state |-> R[r].state, events |-> R[r].events,
              next |-> R[r].next, error |-> R[r].error]
Rows(o, R) ==
  LET cut == IF Len(o) > MaxRecords THEN Len(o) - MaxRecords ELSE 0
  IN [i \in 1..(Len(o) - cut) |-> Row(R, o[cut + i])]

\* RunJournalStore.replace_all: the file holds the new rows, or the old ones
\* when the write fails.  A write that fails may have replaced the file
\* already, when the directory could not be synced.
Replaced(rows, ok) ==
  \/ ok /\ disk' = rows /\ UNCHANGED faults
  \/ ~ok /\ faults < MaxFaults /\ faults' = faults + 1 /\ disk' \in {disk, rows}

Ids(rows) == {rows[i].id : i \in DOMAIN rows}

\* _persist_locked with runs R in the order o.
Persisted(o, R) == \E ok \in BOOLEAN :
  /\ Replaced(Rows(o, R), ok)
  /\ jerr' = ~ok
  /\ durable' = IF ok THEN Ids(Rows(o, R)) ELSE durable

\* Mutant: the oldest run is dropped, whatever it is doing.
PrunedOldest(o, R) ==
  IF Len(o) > MaxRetained THEN SubSeq(o, Len(o) - MaxRetained + 1, Len(o)) ELSE o

\* _prune_locked: the oldest terminal runs make room for the others.
Pruned(o, R) ==
  LET over    == Keep(o, {r \in ToSet(o) : IsOver(R, r)})
      victims == {over[i] : i \in {j \in DOMAIN over : j <= Len(o) - MaxRetained}}
  IN Keep(o, ToSet(o) \ victims)

Init ==
  /\ order = <<>> /\ run = [r \in RunId |-> NoRun]
  /\ pc = [r \in RunId |-> "none"] /\ queue = <<>>
  /\ script = <<>> /\ stage = "open" /\ closing = NoClose /\ boot = <<>>
  /\ disk = <<>> /\ jerr = FALSE /\ durable = {}
  /\ arts = {} /\ leased = {}
  /\ sub = [c \in Client |-> NoSub] /\ faults = 0

-----------------------------------------------------------------------------
(* What the holder of the lock does next.                                  *)

Emit ==
  /\ script # <<>> /\ Head(script).do = "emit"
  /\ run' = Appended(run, Head(script).run, Head(script).what)
  /\ Persisted(order, run')
  /\ script' = Tail(script)
  /\ UNCHANGED <<order, pc, queue, process, arts, leased, sub>>

\* The last lines of create: save once more and hand the run to the pool.
Submit ==
  /\ script # <<>> /\ Head(script).do = "submit"
  /\ Persisted(order, run)
  /\ pc' = [pc EXCEPT ![Head(script).run] = "queued"]
  /\ queue' = Append(queue, Head(script).run)
  /\ script' = Tail(script)
  /\ UNCHANGED <<order, run, process, arts, leased, sub>>

\* _finish_locked.
Finish ==
  /\ script # <<>> /\ Head(script).do = "finish"
  /\ LET r == Head(script).run
         s == Head(script).what
     IN IF IsOver(run, r)
        THEN UNCHANGED <<order, run, journal, arts, leased>>
        ELSE /\ run' = Appended([run EXCEPT ![r].state = s], r, s)
             /\ Persisted(order, run')
             /\ arts' = IF s = "succeeded" THEN arts ELSE arts \ {r}
             /\ leased' = leased \ {r}
             /\ order' = Pruned(order, run')
  /\ script' = Tail(script)
  /\ UNCHANGED <<pc, queue, process, sub>>

-----------------------------------------------------------------------------
(* create, cancel and close.                                               *)

\* Mutant: only the runs that execute count as active.
CreateCountingRunning(r) ==
  /\ Unlocked /\ stage = "open" /\ Fresh(r)
  /\ Cardinality({q \in Active : run[q].state = "running"}) < MaxActive
  /\ run' = [run EXCEPT ![r] = NewRun]
  /\ order' = Pruned(Append(Pruned(order, run), r), run')
  /\ script' = <<Step("emit", r, "created"), Step("emit", r, "resolved"),
                 Step("submit", r, "")>>
  /\ UNCHANGED <<pc, queue, process, journal, arts, leased, sub>>

\* Bound: while a run is followed no other one is made.
Calm == Narrow => order = <<>> \/ \A c \in Client : sub[c].phase = "off"

Create(r) ==
  /\ Unlocked /\ stage = "open" /\ Fresh(r) /\ Calm
  /\ Cardinality(Active) < MaxActive
  /\ run' = [run EXCEPT ![r] = NewRun]
  /\ order' = Pruned(Append(Pruned(order, run), r), run')
  /\ script' = <<Step("emit", r, "created"), Step("emit", r, "resolved"),
                 Step("submit", r, "")>>
  /\ UNCHANGED <<pc, queue, process, journal, arts, leased, sub>>

\* Bound: a second cancellation would only repeat the event.
Once(r) == Narrow => ~run[r].cancel

Cancel(r) ==
  /\ Unlocked /\ r \in Active /\ Once(r)
  /\ run' = [run EXCEPT ![r].cancel = TRUE]
  /\ script' = IF run[r].state = "queued"
               THEN <<Step("emit", r, "cancelling"), Step("finish", r, "cancelled")>>
               ELSE <<Step("emit", r, "cancelling")>>
  /\ UNCHANGED <<order, pc, queue, process, journal, arts, leased, sub>>

Close(wait) ==
  /\ Unlocked /\ stage = "open"
  /\ LET active == Keep(order, Active)
     IN /\ closing' = [runs |-> active, wait |-> wait]
        /\ run' = [r \in RunId |-> IF r \in ToSet(active)
                                   THEN [run[r] EXCEPT !.cancel = TRUE] ELSE run[r]]
        /\ script' = [i \in DOMAIN active |-> Step("emit", active[i], "cancelling")]
  /\ stage' = "closing"
  /\ UNCHANGED <<order, pc, queue, boot, journal, arts, leased, sub>>

\* _pool.shutdown(cancel_futures=True), outside the lock.
Shutdown ==
  /\ stage = "closing" /\ script = <<>>
  /\ stage' = "draining"
  /\ pc' = [r \in RunId |-> IF r \in ToSet(queue) THEN "dropped" ELSE pc[r]]
  /\ queue' = <<>>
  /\ UNCHANGED <<order, run, script, closing, boot, journal, arts, leased, sub>>

\* The last loop of close, once the pool is empty if close waits for it.
Closed ==
  /\ stage = "draining" /\ script = <<>>
  /\ closing.wait => Busy = {}
  /\ LET rest == Keep(closing.runs, {r \in RunId : closing.wait \/ pc[r] = "dropped"})
     IN script' = [i \in DOMAIN rest |-> Step("finish", rest[i], "cancelled")]
  /\ stage' = "closed"
  /\ UNCHANGED <<order, run, pc, queue, closing, boot, journal, arts, leased, sub>>

-----------------------------------------------------------------------------
(* _execute, on a thread of the pool.                                      *)

\* A thread takes the oldest future.
Pick ==
  /\ queue # <<>> /\ Cardinality(Busy) < Workers
  /\ pc' = [pc EXCEPT ![Head(queue)] = "picked"]
  /\ queue' = Tail(queue)
  /\ UNCHANGED <<order, run, script, process, journal, arts, leased, sub>>

\* Mutant: the thread leaves a run that is cancelled to whoever cancelled it.
BeginUnlessCancelled(r) ==
  /\ Unlocked /\ pc[r] = "picked"
  /\ \/ /\ r \notin Retained \/ run[r].cancel
        /\ pc' = [pc EXCEPT ![r] = "none"]
        /\ UNCHANGED <<run, script, leased>>
     \/ /\ r \in Retained /\ ~run[r].cancel
        /\ run' = [run EXCEPT ![r].state = "running"]
        /\ script' = <<Step("emit", r, "started")>>
        /\ pc' = [pc EXCEPT ![r] = "executing"]
        /\ leased' = leased \cup {r}
  /\ UNCHANGED <<order, queue, process, journal, arts, sub>>

Begin(r) ==
  /\ Unlocked /\ pc[r] = "picked"
  /\ \/ r \notin Retained /\ pc' = [pc EXCEPT ![r] = "none"]
        /\ UNCHANGED <<run, script, leased>>
     \/ /\ r \in Retained /\ run[r].cancel
        /\ pc' = [pc EXCEPT ![r] = "none"]
        /\ script' = <<Step("finish", r, "cancelled")>>
        /\ UNCHANGED <<run, leased>>
     \/ /\ r \in Retained /\ ~run[r].cancel
        /\ run' = [run EXCEPT ![r].state = "running"]
        /\ script' = <<Step("emit", r, "started")>>
        /\ pc' = [pc EXCEPT ![r] = "executing"]
        /\ leased' = leased \cup {r}
  /\ UNCHANGED <<order, queue, process, journal, arts, sub>>

\* Bound: a run is reported on and followed while it is the only one.
Solo(r) == Narrow => order = <<r>>

\* The executor reports a step of the plan.  Bound: up to MaxSeq.
Note(r) ==
  /\ Unlocked /\ pc[r] = "executing"
  /\ run[r].next <= MaxSeq /\ Solo(r)
  /\ script' = <<Step("emit", r, "note")>>
  /\ UNCHANGED <<order, run, pc, queue, process, journal, arts, leased, sub>>

\* The executor returns, with binary outputs to store or without, and with
\* outputs that fit into JSON or not; or it raises; or it notices that the
\* run was cancelled.
Return(r) ==
  /\ pc[r] = "executing"
  /\ \E next \in {"storing", "returned", "garbled", "raised"}
                 \cup (IF run[r].cancel THEN {"stopped"} ELSE {}) :
       pc' = [pc EXCEPT ![r] = next]
  /\ UNCHANGED <<order, run, queue, script, process, journal, arts, leased, sub>>

\* _persist_output_artifacts: the store takes the bytes, or refuses them, or
\* takes some and refuses others.
Store(r) ==
  /\ Unlocked /\ pc[r] = "storing"
  /\ \/ /\ arts' = arts \cup {r}
        /\ \E next \in {"returned", "raised"} : pc' = [pc EXCEPT ![r] = next]
        /\ script' = <<Step("emit", r, "produced")>>
     \/ /\ pc' = [pc EXCEPT ![r] = "raised"]
        /\ UNCHANGED <<arts, script>>
  /\ UNCHANGED <<order, run, queue, process, journal, leased, sub>>

Complete(r) ==
  /\ Unlocked /\ pc[r] \in {"returned", "garbled"}
  /\ \/ /\ run[r].cancel
        /\ script' = <<Step("finish", r, "cancelled")>>
        /\ pc' = [pc EXCEPT ![r] = "none"]
        /\ UNCHANGED run
     \/ /\ ~run[r].cancel /\ pc[r] = "returned"
        /\ run' = [run EXCEPT ![r].outputs = TRUE]
        /\ script' = <<Step("emit", r, "completed"), Step("finish", r, "succeeded")>>
        /\ pc' = [pc EXCEPT ![r] = "none"]
     \/ /\ ~run[r].cancel /\ pc[r] = "garbled"
        /\ run' = [run EXCEPT ![r].outputs = TRUE]
        /\ pc' = [pc EXCEPT ![r] = "raised"]
        /\ UNCHANGED script
  /\ UNCHANGED <<order, queue, process, journal, arts, leased, sub>>

Stopped(r) ==
  /\ Unlocked /\ pc[r] = "stopped"
  /\ script' = <<Step("finish", r, "cancelled")>>
  /\ pc' = [pc EXCEPT ![r] = "none"]
  /\ UNCHANGED <<order, run, queue, process, journal, arts, leased, sub>>

Raised(r) ==
  /\ Unlocked /\ pc[r] = "raised"
  /\ pc' = [pc EXCEPT ![r] = "none"]
  /\ IF r \in Active
     THEN /\ run' = [run EXCEPT ![r].error = "internal_error"]
          /\ script' = <<Step("emit", r, "failed"), Step("finish", r, "failed")>>
     ELSE UNCHANGED <<run, script>>
  /\ UNCHANGED <<order, queue, process, journal, arts, leased, sub>>

-----------------------------------------------------------------------------
(* The process dies and starts again: _restore_journal.                    *)

\* Everything but the journal file is gone.
Gone ==
  /\ stage' = "down"
  /\ order' = <<>> /\ run' = [r \in RunId |-> NoRun]
  /\ pc' = [r \in RunId |-> "none"] /\ queue' = <<>> /\ script' = <<>>
  /\ closing' = NoClose /\ boot' = <<>> /\ jerr' = FALSE /\ durable' = {}
  /\ arts' = {} /\ leased' = {} /\ sub' = [c \in Client |-> NoSub]
  /\ UNCHANGED disk

Crash == stage # "down" /\ faults < MaxFaults /\ faults' = faults + 1 /\ Gone

Exit == stage = "closed" /\ script = <<>> /\ Busy = {} /\ Gone /\ UNCHANGED faults

\* The manager starts with what RunJournalStore reads from the file.
Restart ==
  /\ stage = "down"
  /\ stage' = "restoring" /\ boot' = disk
  /\ UNCHANGED <<order, run, pc, queue, script, closing, journal, arts, leased, sub>>

\* One turn of the loop; the event of an interrupted run saves the rows that
\* have been loaded so far.
RestoreRow ==
  /\ stage = "restoring" /\ boot # <<>>
  /\ LET row == Head(boot)
         old == [NoRun EXCEPT !.state = row.state, !.events = row.events,
                              !.next = row.next, !.error = row.error]
     IN /\ order' = Append(order, row.id)
        /\ IF row.state \in Terminal
           THEN run' = [run EXCEPT ![row.id] = old] /\ UNCHANGED journal
           ELSE /\ run' = Appended([run EXCEPT ![row.id] =
                             [old EXCEPT !.state = "failed", !.error = "process_restarted"]],
                                   row.id, "failed")
                /\ Persisted(order', run')
  /\ boot' = Tail(boot)
  /\ UNCHANGED <<pc, queue, script, stage, closing, arts, leased, sub>>

Restored ==
  /\ stage = "restoring" /\ boot = <<>>
  /\ order' = Pruned(order, run)
  /\ Persisted(order', run)
  /\ stage' = "open"
  /\ UNCHANGED <<run, pc, queue, script, closing, boot, arts, leased, sub>>

-----------------------------------------------------------------------------
(* _serve_run_events of http_api.py: a client follows a run from the       *)
(* sequence number it has seen.                                            *)

Later(c) ==
  LET events == run[sub[c].run].events
  IN Keep(events, {e \in ToSet(events) : e.seq > sub[c].after})

\* The numbers a client can have seen.  Bound: nothing, or the first one.
Seen(r) == IF Narrow THEN {0, 1} ELSE 0..(run[r].next - 1)

Subscribe(c, r, after) ==
  /\ Unlocked /\ sub[c].phase = "off" /\ Solo(r)
  /\ sub' = [sub EXCEPT ![c] = [run |-> r, after |-> after, phase |-> "wait"]]
  /\ UNCHANGED <<order, run, pc, queue, script, process, journal, arts, leased>>

\* wait_events returns: with events, which are sent, or after its timeout.  A
\* run that was pruned meanwhile ends the stream.
Receive(c) ==
  /\ Unlocked /\ sub[c].phase = "wait"
  /\ sub' = [sub EXCEPT ![c] =
       IF sub[c].run \notin Retained THEN NoSub
       ELSE IF Later(c) = <<>> THEN [sub[c] EXCEPT !.phase = "check"]
       ELSE [sub[c] EXCEPT !.phase = "check", !.after = Last(Later(c)).seq]]
  /\ UNCHANGED <<order, run, pc, queue, script, process, journal, arts, leased>>

\* Mutant: the stream ends as soon as the run is over.
CheckState(c) ==
  /\ Unlocked /\ sub[c].phase = "check"
  /\ sub' = [sub EXCEPT ![c] =
       IF sub[c].run \notin Retained THEN NoSub
       ELSE IF IsOver(run, sub[c].run) THEN [sub[c] EXCEPT !.phase = "ended"]
       ELSE [sub[c] EXCEPT !.phase = "wait"]]
  /\ UNCHANGED <<order, run, pc, queue, script, process, journal, arts, leased>>

\* Is the run over, and has the client everything?  (get and events take the
\* lock one after the other, but a run that is over gets no more events.)
Check(c) ==
  /\ Unlocked /\ sub[c].phase = "check"
  /\ sub' = [sub EXCEPT ![c] =
       IF sub[c].run \notin Retained THEN NoSub
       ELSE IF IsOver(run, sub[c].run) /\ Later(c) = <<>>
            THEN [sub[c] EXCEPT !.phase = "ended"]
       ELSE [sub[c] EXCEPT !.phase = "wait"]]
  /\ UNCHANGED <<order, run, pc, queue, script, process, journal, arts, leased>>

Leave(c) ==
  /\ sub[c].phase # "off"
  /\ sub' = [sub EXCEPT ![c] = NoSub]
  /\ UNCHANGED <<order, run, pc, queue, script, process, journal, arts, leased>>

-----------------------------------------------------------------------------

HolderStep == Emit \/ Submit \/ Finish
Closing    == Shutdown \/ Closed
Restoring  == RestoreRow \/ Restored
Work(r)    == Begin(r) \/ Store(r) \/ Complete(r) \/ Stopped(r) \/ Raised(r)
Stream(c)  == Receive(c) \/ Check(c)

Next ==
  \/ HolderStep \/ Closing \/ Pick \/ Crash \/ Exit \/ Restart \/ Restoring
  \/ \E r \in RunId : Create(r) \/ Cancel(r) \/ Work(r) \/ Note(r) \/ Return(r)
  \/ \E wait \in BOOLEAN : Close(wait)
  \/ \E c \in Client : \/ \E r \in Retained : \E after \in Seen(r) : Subscribe(c, r, after)
                      \/ Stream(c)
                      \/ Leave(c)

Spec == Init /\ [][Next]_vars

-----------------------------------------------------------------------------
(* Types.                                                                  *)

RunState == {"none", "queued", "running"} \cup Terminal
Error    == {"none", "internal_error", "process_restarted"}
RunType  == [state : RunState, cancel : BOOLEAN, events : Seq(Event),
             next : Nat \ {0}, error : Error, outputs : BOOLEAN]
RowType  == [id : RunId, state : RunState, events : Seq(Event),
             next : Nat \ {0}, error : Error]
StepType == [do : {"emit"}, run : RunId, what : EventType]
              \cup [do : {"finish"}, run : RunId, what : Terminal]
              \cup [do : {"submit"}, run : RunId, what : {""}]
SubType  == [run : RunId \cup {"none"}, after : Nat,
             phase : {"off", "wait", "check", "ended"}]

Types ==
  /\ order \in Seq(RunId)
  /\ run \in [RunId -> RunType]
  /\ pc \in [RunId -> {"none", "queued", "picked", "executing", "storing", "returned",
                      "garbled", "stopped", "raised", "dropped"}]
  /\ queue \in Seq(RunId)
  /\ script \in Seq(StepType)
  /\ stage \in {"restoring", "open", "closing", "draining", "closed", "down"}
  /\ closing \in [runs : Seq(RunId), wait : BOOLEAN]
  /\ boot \in Seq(RowType)
  /\ disk \in Seq(RowType)
  /\ jerr \in BOOLEAN /\ durable \in SUBSET RunId
  /\ arts \in SUBSET RunId /\ leased \in SUBSET RunId
  /\ sub \in [Client -> SubType]
  /\ faults \in 0..MaxFaults

\* No more than MaxActive runs are active, and no more than MaxRetained are
\* retained (create, _prune_locked).
Limits ==
  /\ Cardinality(Active) <= MaxActive
  /\ stage = "open" => Len(order) <= MaxRetained

\* The types of the variables, and the limits.
TypeOK == Types /\ Limits

-----------------------------------------------------------------------------
(* Safety.                                                                 *)

Executing(r) == pc[r] \in {"executing", "storing", "returned", "garbled", "stopped", "raised"}

\* A run whose executor has not returned is retained, active and keeps its
\* leases, whatever cancel, close and pruning do meanwhile: the executor can
\* report to it, and no runtime works without a lease (_prune_locked, close,
\* _finish_locked).
ExecutionKeepsItsRun ==
  \A r \in RunId : Executing(r) => r \in Active \cap leased

\* A run that is over has said so in its last event, holds no leases, and has
\* artifacts only if it succeeded, which it has not if it was asked to stop
\* before, however cancel, close, the executor and the end of _execute
\* interleave (_finish_locked).
EndIsComplete ==
  Unlocked => \A r \in Retained : IsOver(run, r) =>
    /\ Last(run[r].events).type = run[r].state
    /\ r \notin leased
    /\ r \in arts => run[r].state = "succeeded"
    /\ run[r].state = "succeeded" => ~run[r].cancel

\* A run ends once, and not before its executor has.
RunsEndInOrder == ExecutionKeepsItsRun /\ EndIsComplete

\* The events of a run are numbered without gaps, the last one by the number
\* before next, in memory and in the journal, whatever was trimmed.
EventsAreContiguous ==
  \A r \in Retained : \A i \in DOMAIN run[r].events :
    run[r].events[i].seq = run[r].next - 1 - Len(run[r].events) + i

\* What get reports as durable is in the journal exactly as it is in memory,
\* so a restart brings back its state and its events (_persist_locked).
DurableIsOnDisk ==
  Unlocked /\ ~jerr => \A r \in durable \cap Retained :
    \E i \in DOMAIN disk : disk[i] = Row(run, r)

\* A run that is active has somebody who will end it: create has still to hand
\* it to the pool, the pool to a thread, a thread executes it, the lock is
\* held to finish it, or close will.  None is forgotten between cancel, close
\* and the threads, and a restart brings none back to life (_execute, close,
\* _restore_journal).
EveryRunHasAnEnd ==
  \A r \in Active :
    \/ \E i \in DOMAIN script : script[i].run = r /\ script[i].do \in {"submit", "finish"}
    \/ r \in ToSet(queue) /\ stage \in {"open", "closing"}
    \/ r \in Busy
    \/ pc[r] = "dropped" /\ stage = "draining" /\ r \in ToSet(closing.runs)

\* A stream that ended by itself has delivered the event that ended the run,
\* though the run may end between the wait for its events and the look at its
\* state (_serve_run_events).
StreamsAreComplete ==
  \A c \in Client :
    sub[c].phase = "ended" /\ sub[c].run \in Retained
      => IsOver(run, sub[c].run) /\ sub[c].after = run[sub[c].run].next - 1

\* What clients rely on, also after a restart or a lost connection: what is
\* durable is on the disk, numbers lead from one event to the next, and a
\* stream ends where its run does.
ReadersAreServed == EventsAreContiguous /\ DurableIsOnDisk /\ StreamsAreComplete

=============================================================================
