------------------------------ MODULE Service ------------------------------
(***************************************************************************)
(* The web server as a process (http_api.py): its port, its marker file    *)
(* and the command that stops it; the slots its requests take; its store   *)
(* of temporary artifacts (artifacts/store.py, artifacts/api.py), which    *)
(* uploads and the outputs of a run fill; and its closing, step by step,   *)
(* while requests are still being served.                                  *)
(*                                                                         *)
(* A process number is never used twice.  An artifact is its number, its   *)
(* owner and its lifetime; the store is one lock, so an operation of it is *)
(* a step.                                                                 *)
(***************************************************************************)
EXTENDS Naturals, FiniteSets

CONSTANTS
  None,
  Proc,          \* processes that may be started
  Stopper,       \* runs of the command that stops the server
  Request,       \* connections
  Slots,         \* MAX_CONCURRENT_REQUESTS
  ServiceSlots,  \* MAX_SERVICE_WORKERS
  MaxArtifacts,  \* max_artifacts
  MaxActs,       \* bound: requests, runs, starts and signals, all in all
  Crashes        \* bound: crashes of a process

\* The request a connection serves, and what a stop command has found.
Kind   == {"get", "upload", "content", "delete"}
Served == [proc : Proc, kind : Kind, pc : {"begin", "result", "locked", "bytes"}, art : Nat \union {None}]
Ending == {"refused", "clean", "killed"}

ASSUME ProcessNumbers  == Proc \subseteq Nat
ASSUME LimitsAreCounts == Slots \in Nat /\ ServiceSlots \in Nat /\ MaxArtifacts \in Nat
ASSUME FewConnections  == IsFiniteSet(Request)
ASSUME NoneIsNothing   == None \notin Proc /\ None \notin Ending /\ None \notin Served

VARIABLES
  proc,     \* process -> how far it is
  how,      \* process -> how it has ended, or None
  marker,   \* the process named by web-<port>.pid, or None
  stopping, \* stop command -> [pc, pid]
  acts, crashes,
  request,  \* connection -> the request it serves, or None
  slots,    \* process -> free slots for requests
  service,  \* process -> free slots of the service pool
  pool,     \* process -> calls the pool is running
  transfer, \* process -> _artifact_io_lock is held
  store,    \* process -> its ArtifactStore
  run,      \* process -> a run and its outputs
  made      \* artifacts made so far
process == <<proc, how, marker, stopping>>
bounds == <<acts, crashes>>
serving == <<request, slots, service, pool, transfer>>
data == <<store, run, made>>
vars == <<process, bounds, serving, data>>

Act == acts < MaxActs /\ acts' = acts + 1 /\ UNCHANGED crashes

-----------------------------------------------------------------------------
(* The process.                                                            *)

Listens(p) == proc[p] \in {"bound", "marked", "up", "down", "closing"}
PortIsFree == \A p \in Proc : ~Listens(p)
Alive(p) == proc[p] \notin {"off", "gone"}
\* serve_forever runs, and the handlers of the signals are set.
Serves(p) == proc[p] \in {"up", "down"}

\* create_server: the port is taken, or the process ends.  Processes are
\* numbered in the order they start.
Start(p) ==
  /\ Act /\ proc[p] = "off" /\ \A q \in Proc : q < p => proc[q] # "off"
  /\ IF PortIsFree
     THEN proc' = [proc EXCEPT ![p] = "bound"] /\ UNCHANGED how
     ELSE proc' = [proc EXCEPT ![p] = "gone"] /\ how' = [how EXCEPT ![p] = "refused"]
  /\ UNCHANGED <<marker, stopping, serving, data>>

Goes(p, from, to) == proc[p] = from /\ proc' = [proc EXCEPT ![p] = to]

\* _write_web_pid.
Mark(p) ==
  /\ Goes(p, "bound", "marked") /\ marker' = p
  /\ UNCHANGED <<how, stopping, bounds, serving, data>>

\* _serve_until_stopped sets its handlers and serves.
Serve(p) ==
  /\ Goes(p, "marked", "up")
  /\ UNCHANGED <<how, marker, stopping, bounds, serving, data>>

\* shutdown ends the loop; the former handlers are put back.
LoopEnds(p) ==
  /\ Goes(p, "down", "closing")
  /\ UNCHANGED <<how, marker, stopping, bounds, serving, data>>

\* server_close, and the pool: the port is free from here on.
CloseSocket(p) ==
  /\ Goes(p, "closing", "unbound")
  /\ UNCHANGED <<how, marker, stopping, bounds, serving, data>>

\* RunManager.close cancels what is active and waits for it.
CloseRuns(p) ==
  /\ Goes(p, "unbound", "ending")
  /\ run' = [run EXCEPT ![p].cancel = @ \/ run[p].pc = "running"]
  /\ UNCHANGED <<how, marker, stopping, bounds, serving, store, made>>

RunsAreClosed(p) ==
  /\ Goes(p, "ending", "runless") /\ run[p].pc # "running"
  /\ UNCHANGED <<how, marker, stopping, bounds, serving, data>>

Unmade == [made |-> FALSE, open |-> FALSE, rows |-> {}, files |-> {}, root |-> FALSE, late |-> FALSE]
Made(late) == [made |-> TRUE, open |-> TRUE, rows |-> {}, files |-> {}, root |-> TRUE, late |-> late]

\* Mutant: the store is told that it is closed, and its directory stays.
OnlyShut(s) == [s EXCEPT !.open = FALSE, !.rows = {}]
Shut(s) == [s EXCEPT !.open = FALSE, !.rows = {}, !.files = {}, !.root = FALSE]

\* ArtifactStore.close, if there is one.
CloseStore(p) ==
  /\ Goes(p, "runless", "closed")
  /\ store' = [store EXCEPT ![p] = IF @.made THEN Shut(@) ELSE @]
  /\ UNCHANGED <<how, marker, stopping, bounds, serving, run, made>>

\* The process ends: its threads with it; files and marker stay.
Ends(p, why) ==
  /\ proc' = [proc EXCEPT ![p] = "gone"] /\ how' = [how EXCEPT ![p] = why]
  /\ request' = [r \in Request |-> IF request[r] # None /\ request[r].proc = p THEN None ELSE request[r]]
  /\ run' = [run EXCEPT ![p].pc = IF @ = "running" THEN "lost" ELSE @]
  /\ UNCHANGED <<slots, service, pool, transfer, store, made>>

\* _remove_web_pid reads the marker, and removes it if it names this process.
ReadMarker(p) ==
  /\ proc[p] = "closed"
  /\ IF marker = p
     THEN proc' = [proc EXCEPT ![p] = "owner"] /\ UNCHANGED <<how, serving, data>>
     ELSE Ends(p, "clean")
  /\ UNCHANGED <<marker, stopping, bounds>>

Unmark(p) ==
  /\ proc[p] = "owner" /\ marker' = None
  /\ Ends(p, "clean")
  /\ UNCHANGED <<stopping, bounds>>

Crash(p) ==
  /\ Alive(p) /\ crashes < Crashes /\ crashes' = crashes + 1 /\ UNCHANGED acts
  /\ Ends(p, "killed")
  /\ UNCHANGED <<marker, stopping>>

-----------------------------------------------------------------------------
(* aidream web --stop.                                                     *)

Stop(s, pc, pid) == stopping' = [stopping EXCEPT ![s] = [pc |-> pc, pid |-> pid]]

\* _legacy_ai_dream_web_pids: the servers of this program that listen.
Legacy == {p \in Proc : Listens(p)}

\* stop_web_server: without a marker, whoever listens on the port.
ReadPid(s) ==
  /\ Act /\ stopping[s].pc = "idle"
  /\ CASE marker # None -> Stop(s, "check", marker)
       [] marker = None /\ Legacy # {} -> \E p \in Legacy : Stop(s, "signal", p)
       [] OTHER -> Stop(s, "none", None)
  /\ UNCHANGED <<proc, how, marker, serving, data>>

\* The process is there and is a server of this program, or the marker is
\* stale.
CheckPid(s) ==
  /\ stopping[s].pc = "check"
  /\ Stop(s, IF Alive(stopping[s].pid) THEN "signal" ELSE "stale", stopping[s].pid)
  /\ UNCHANGED <<proc, how, marker, bounds, serving, data>>

\* SIGTERM: a server that serves is asked to shut down; without its handlers
\* the process is killed.
Signal(s) ==
  /\ stopping[s].pc = "signal"
  /\ LET p == stopping[s].pid
     IN /\ CASE Serves(p) -> proc' = [proc EXCEPT ![p] = "down"] /\ UNCHANGED <<how, serving, data>>
             [] Alive(p) /\ ~Serves(p) -> Ends(p, "killed")
             [] OTHER -> UNCHANGED <<proc, how, serving, data>>
        /\ Stop(s, IF Alive(p) THEN "wait" ELSE "stale", p)
  /\ UNCHANGED <<marker, bounds>>

HasEnded(p) == ~Alive(p)

\* _signal_and_wait: for 8 seconds.
Wait(s) ==
  /\ stopping[s].pc = "wait"
  /\ \/ HasEnded(stopping[s].pid) /\ Stop(s, "stale", stopping[s].pid)
     \/ Alive(stopping[s].pid) /\ Stop(s, "failed", stopping[s].pid)
  /\ UNCHANGED <<proc, how, marker, bounds, serving, data>>

\* _remove_stale_web_pid, read and unlink.
ReadStale(s) ==
  /\ stopping[s].pc = "stale"
  /\ Stop(s, IF marker = stopping[s].pid THEN "unlink" ELSE "stopped", stopping[s].pid)
  /\ UNCHANGED <<proc, how, marker, bounds, serving, data>>

UnlinkStale(s) ==
  /\ stopping[s].pc = "unlink" /\ marker' = None
  /\ Stop(s, "stopped", stopping[s].pid)
  /\ UNCHANGED <<proc, how, bounds, serving, data>>

-----------------------------------------------------------------------------
(* The artifact store.                                                     *)

Artifact(owner, life) == [id |-> made + 1, owner |-> owner, life |-> life, expired |-> FALSE]
Without(s, gone) == [s EXCEPT !.rows = @ \ gone, !.files = @ \ {a.id : a \in gone}]
\* _cleanup_expired_locked, the first thing every operation does.
Cleaned(s) == Without(s, {a \in s.rows : a.expired})

Fits(s) == s.open /\ Cardinality(Cleaned(s).rows) < MaxArtifacts
With(s, a) == [Cleaned(s) EXCEPT !.rows = @ \union {a}, !.files = @ \union {a.id}]
\* What a put leaves that is refused: a closed store is not looked at.
Tidied(s) == IF s.open THEN Cleaned(s) ELSE s

\* Mutant: the end of a run removes all it owns, its results too.
AnyLife(s, owner, lives) == Without(Cleaned(s), {a \in s.rows : a.owner = owner})
DeleteOwner(s, owner, lives) == Without(Cleaned(s), {a \in s.rows : a.owner = owner /\ a.life \in lives})

\* An output of the run of p that is no longer to be expected.
Lapse(p, id) == [run EXCEPT ![p].lapsed = @ \union (run[p].outs \intersect {id})]

\* Time passes: a row is past its lifetime.
Expire(p) ==
  /\ Alive(p)
  /\ \E a \in store[p].rows :
       /\ ~a.expired
       /\ store' = [store EXCEPT ![p].rows = (@ \ {a}) \union {[a EXCEPT !.expired = TRUE]}]
       /\ run' = Lapse(p, a.id)
  /\ UNCHANGED <<process, bounds, serving, made>>

-----------------------------------------------------------------------------
(* A run, whose outputs are kept in the store.                             *)

\* get_artifact_api: the first to ask makes the store, whenever that is.
Got(p) == IF store[p].made THEN store[p] ELSE Made(proc[p] \in {"closed", "owner"})

NoRun == [pc |-> "none", cancel |-> FALSE, outs |-> {}, lapsed |-> {}]

\* run_skill attaches the store and creates the run.
CreateRun(p) ==
  /\ Act /\ proc[p] \in {"up", "down", "closing", "unbound"} /\ run[p].pc = "none"
  /\ store' = [store EXCEPT ![p] = Got(p)]
  /\ run' = [run EXCEPT ![p].pc = "running"]
  /\ UNCHANGED <<process, serving, made>>

CancelRun(p) ==
  /\ Act /\ Serves(p) /\ run[p].pc = "running" /\ ~run[p].cancel
  /\ run' = [run EXCEPT ![p].cancel = TRUE]
  /\ UNCHANGED <<process, serving, store, made>>

\* _finish_locked: an error of the store is ignored.
Finish(p, end) ==
  LET lives == IF end = "succeeded" THEN {"ephemeral"} ELSE {"ephemeral", "session"}
  IN /\ store' = [store EXCEPT ![p] = IF @.open THEN DeleteOwner(@, "run", lives) ELSE @]
     /\ run' = [run EXCEPT ![p].pc = end]

\* _persist_output_artifacts: one output; a refused one fails the run.
StoreOutput(p) ==
  /\ Alive(p) /\ run[p].pc = "running"
  /\ IF Fits(store[p])
     THEN LET a == Artifact("run", "session")
          IN /\ store' = [store EXCEPT ![p] = With(@, a)] /\ made' = made + 1
             /\ run' = [run EXCEPT ![p].outs = @ \union {a.id}]
     ELSE Finish(p, IF run[p].cancel THEN "cancelled" ELSE "failed") /\ UNCHANGED made
  /\ Cardinality(run[p].outs) < 2
  /\ UNCHANGED <<process, bounds, serving>>

EndRun(p) ==
  /\ Alive(p) /\ run[p].pc = "running"
  /\ \/ run[p].cancel /\ Finish(p, "cancelled")
     \/ ~run[p].cancel /\ \E end \in {"succeeded", "failed"} : Finish(p, end)
  /\ UNCHANGED <<process, bounds, serving, made>>

-----------------------------------------------------------------------------
(* Requests.                                                               *)

Serving(r, pc) == request' = [request EXCEPT ![r].pc = pc]

\* process_request: without a free slot the answer is 503.  A connection is
\* never taken for another whose call the pool still runs.
Arrive(r, p, kind) ==
  /\ Act /\ Serves(p) /\ request[r] = None /\ r \notin pool[p] /\ slots[p] > 0
  /\ request' = [request EXCEPT ![r] = [proc |-> p, kind |-> kind, pc |-> "begin", art |-> None]]
  /\ slots' = [slots EXCEPT ![p] = @ - 1]
  /\ UNCHANGED <<process, service, pool, transfer, data>>

\* process_request_thread, finally.
GiveBack(p, well) == slots' = [slots EXCEPT ![p] = @ + 1]

End(r, well) == request' = [request EXCEPT ![r] = None] /\ GiveBack(request[r].proc, well)

At(r, kinds, pc) == request[r] # None /\ request[r].kind \in kinds /\ request[r].pc = pc
PoolIsOpen(p) == proc[p] \in {"up", "down", "closing"}

\* _serve_api: a slot of the pool, or 503; a pool that is shut takes nothing,
\* and the slot is not given back.
Submit(r) ==
  LET p == request[r].proc
  IN /\ At(r, {"get"}, "begin")
     /\ \/ service[p] = 0 /\ End(r, FALSE) /\ UNCHANGED <<service, pool>>
        \/ /\ service[p] > 0 /\ service' = [service EXCEPT ![p] = @ - 1]
           /\ IF PoolIsOpen(p)
              THEN pool' = [pool EXCEPT ![p] = @ \union {r}] /\ Serving(r, "result") /\ UNCHANGED slots
              ELSE End(r, FALSE) /\ UNCHANGED pool
     /\ UNCHANGED <<process, bounds, transfer, data>>

\* The call ends, whoever still waits for it.
PoolReturns(p, r) ==
  /\ Alive(p) /\ r \in pool[p]
  /\ pool' = [pool EXCEPT ![p] = @ \ {r}] /\ service' = [service EXCEPT ![p] = @ + 1]
  /\ IF request[r] # None /\ request[r].proc = p /\ request[r].pc = "result"
     THEN End(r, TRUE) ELSE UNCHANGED <<request, slots>>
  /\ UNCHANGED <<process, bounds, transfer, data>>

\* Mutant: the result is waited for without a timeout.
Forever(r) == FALSE
\* SERVICE_TIMEOUT_SECONDS: 504, and the call goes on.
Timeout(r) ==
  /\ At(r, {"get"}, "result")
  /\ End(r, FALSE)
  /\ UNCHANGED <<process, bounds, service, pool, transfer, data>>

\* An upload or a download holds the lock of the transfers, or is answered 503.
Lock(r) ==
  LET p == request[r].proc
  IN /\ At(r, {"upload", "content"}, "begin")
     /\ store' = [store EXCEPT ![p] = Got(p)]
     /\ IF transfer[p] THEN End(r, FALSE) /\ UNCHANGED transfer
        ELSE Serving(r, "locked") /\ transfer' = [transfer EXCEPT ![p] = TRUE] /\ UNCHANGED slots
     /\ UNCHANGED <<process, bounds, service, pool, run, made>>

EndTransfer(r, well) == End(r, well) /\ transfer' = [transfer EXCEPT ![request[r].proc] = FALSE]

\* _post_artifact: the body is read whole, or the connection fails or times
\* out; then the store takes it or does not.
Upload(r) ==
  LET p == request[r].proc
  IN /\ At(r, {"upload"}, "locked")
     /\ \/ UNCHANGED <<store, made>> /\ EndTransfer(r, FALSE)
        \/ /\ Fits(store[p])
           /\ \E owner \in {"chat", "run"}, life \in {"ephemeral", "session"} :
                store' = [store EXCEPT ![p] = With(@, Artifact(owner, life))]
           /\ made' = made + 1 /\ EndTransfer(r, TRUE)
        \/ /\ ~Fits(store[p])
           /\ store' = [store EXCEPT ![p] = Tidied(@)] /\ UNCHANGED made /\ EndTransfer(r, FALSE)
     /\ UNCHANGED <<process, bounds, service, pool, run>>

\* ArtifactAPI.content: first the envelope, then the bytes.
Envelope(r) ==
  LET p == request[r].proc
  IN /\ At(r, {"content"}, "locked")
     /\ store' = [store EXCEPT ![p] = Tidied(@)]
     /\ \/ EndTransfer(r, FALSE)
        \/ \E a \in store'[p].rows :
             /\ request' = [request EXCEPT ![r].pc = "bytes", ![r].art = a.id]
             /\ UNCHANGED <<slots, transfer>>
     /\ UNCHANGED <<process, bounds, service, pool, run, made>>

\* The bytes are sent, or the artifact is gone, or the client is.
Content(r) ==
  LET p == request[r].proc
  IN /\ At(r, {"content"}, "bytes")
     /\ store' = [store EXCEPT ![p] = Tidied(@)]
     /\ EndTransfer(r, \E a \in store'[p].rows : a.id = request[r].art)
     /\ UNCHANGED <<process, bounds, service, pool, run, made>>

\* DELETE /api/artifacts/<id>.
Delete(r) ==
  LET p == request[r].proc
  IN /\ At(r, {"delete"}, "begin")
     /\ \/ store' = [store EXCEPT ![p] = Tidied(Got(p))] /\ End(r, FALSE) /\ UNCHANGED run
        \/ \E a \in Tidied(Got(p)).rows :
             /\ store' = [store EXCEPT ![p] = Without(Cleaned(@), {a})] /\ End(r, TRUE)
             /\ run' = Lapse(p, a.id)
     /\ UNCHANGED <<process, bounds, service, pool, transfer, made>>

-----------------------------------------------------------------------------
Init ==
  /\ proc = [p \in Proc |-> "off"] /\ how = [p \in Proc |-> None] /\ marker = None
  /\ stopping = [s \in Stopper |-> [pc |-> "idle", pid |-> None]]
  /\ acts = 0 /\ crashes = 0
  /\ request = [r \in Request |-> None]
  /\ slots = [p \in Proc |-> Slots] /\ service = [p \in Proc |-> ServiceSlots]
  /\ pool = [p \in Proc |-> {}] /\ transfer = [p \in Proc |-> FALSE]
  /\ store = [p \in Proc |-> Unmade] /\ run = [p \in Proc |-> NoRun] /\ made = 0

ProcessStep(p) ==
  \/ Mark(p) \/ Serve(p) \/ LoopEnds(p) \/ CloseSocket(p) \/ CloseRuns(p) \/ RunsAreClosed(p)
  \/ CloseStore(p) \/ ReadMarker(p) \/ Unmark(p)
StopStep(s) == CheckPid(s) \/ Signal(s) \/ Wait(s) \/ ReadStale(s) \/ UnlinkStale(s)
RequestStep(r) ==
  Submit(r) \/ Timeout(r) \/ Lock(r) \/ Upload(r) \/ Envelope(r) \/ Content(r) \/ Delete(r)

Next ==
  \/ \E p \in Proc :
       \/ Start(p) \/ Crash(p) \/ ProcessStep(p)
       \/ Expire(p) \/ CreateRun(p) \/ CancelRun(p) \/ StoreOutput(p) \/ EndRun(p)
       \/ \E r \in Request : PoolReturns(p, r) \/ \E kind \in Kind : Arrive(r, p, kind)
  \/ \E s \in Stopper : ReadPid(s) \/ StopStep(s)
  \/ \E r \in Request : RequestStep(r)

\* The threads of the server and the command go on; sockets time out; a run
\* ends.
Fairness ==
  /\ \A p \in Proc : WF_vars(ProcessStep(p)) /\ WF_vars(EndRun(p))
  /\ \A s \in Stopper : WF_vars(StopStep(s))
  /\ \A r \in Request : WF_vars(RequestStep(r))

Spec == Init /\ [][Next]_vars /\ Fairness

-----------------------------------------------------------------------------
(* Properties.                                                             *)

Open(p) == {r \in Request : request[r] # None /\ request[r].proc = p}
Transfers(p) == {r \in Open(p) : request[r].pc \in {"locked", "bytes"}}

\* Whatever way a request ends - answered, refused, failed, timed out - its
\* slot, its place in the pool and the lock of the transfers are free again:
\* what is not free is held by a request, or a call, that still runs.
TypeOK ==
  /\ marker \in Proc \union {None} /\ made \in Nat
  /\ \A p \in Proc :
       /\ Alive(p) => slots[p] = Slots - Cardinality(Open(p))
       /\ Alive(p) /\ PoolIsOpen(p) => service[p] = ServiceSlots - Cardinality(pool[p])
       /\ Alive(p) => (transfer[p] <=> Transfers(p) # {})
       /\ Cardinality(store[p].rows) <= MaxArtifacts

\* A run that has failed or was cancelled has no output in the store; each
\* output of one that has succeeded is there until it expires, is deleted by
\* a request, or the store is closed.  And no file is without a row, no row
\* without a file.
OutputsFollowTheirRun ==
  \A p \in Proc :
    LET kept == {a.id : a \in store[p].rows}
    IN /\ run[p].pc \in {"failed", "cancelled"} => run[p].outs \intersect kept = {}
       /\ run[p].pc = "succeeded" /\ store[p].open
            => run[p].outs \subseteq kept \union run[p].lapsed
       /\ store[p].open => store[p].files = kept

Leaves(p) == store[p].root \/ store[p].files # {} \/ run[p].pc = "lost"

\* A server that ends as it should leaves no directory of artifacts and no run
\* behind, whatever was under way when it was told to stop.  (A request that
\* asks for the store when it has been closed without ever having been made
\* makes one, which nothing removes.)
CleanStopLeavesNothing ==
  \A p \in Proc : how[p] = "clean" => ~Leaves(p) \/ store[p].late

\* The command reports a server stopped only when its process is gone, and has
\* closed its store and runs or was killed.
StoppedMeansGone ==
  \A s \in Stopper : stopping[s].pc = "stopped" => ~Alive(stopping[s].pid)

\* Slots, transfers, rows and files are accounted for while a server lives.
ServerKeepsItsBooks == TypeOK /\ OutputsFollowTheirRun

\* A stop is what it is reported to be, and a clean one leaves nothing.
StopsAreClean == CleanStopLeavesNothing /\ StoppedMeansGone

\* Every request is answered, every stop command ends, and a server that was
\* told to stop ends.
EverythingEnds ==
  /\ \A r \in Request : request[r] # None ~> request[r] = None
  /\ \A s \in Stopper : stopping[s].pc = "check" ~> stopping[s].pc \in {"stopped", "failed"}
  /\ \A p \in Proc : proc[p] = "down" ~> proc[p] = "gone"

=============================================================================
