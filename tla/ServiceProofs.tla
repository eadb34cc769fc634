---------------------------- MODULE ServiceProofs ----------------------------
(***************************************************************************)
(* Proofs about the service and about the contracts of the skills it runs. *)
(*                                                                         *)
(* Service, for any number of processes, connections, stop commands, slots *)
(* and artifacts, any bound on the acts and any number of crashes: the     *)
(* books of the server are kept (BooksTheorem), and a stop is what it is   *)
(* reported to be (StopsTheorem).  The invariant has five parts, each      *)
(* proved of the ones before it: Types; Account, what holds the slots, the *)
(* pool and the lock of the transfers; Stores, where the outputs of a run  *)
(* are; Closing, what is left by a server that ends; and Stops, what the   *)
(* command that stops one knows.                                           *)
(*                                                                         *)
(* SkillContracts, for any registries of finite skills, any depth and any  *)
(* handlers: what the type check accepts can run (ContractsTheorem) and    *)
(* stays within its limits (LimitsTheorem).  The invariant is about every  *)
(* frame of the stack: what it has is what its nodes declare (Own), its    *)
(* caller is waiting for it (CalledFrom), and what it has spent and may    *)
(* still spend is what the type check counted (Covered).                   *)
(***************************************************************************)
EXTENDS Service, SkillContracts, KeepingProofs

\* The states of a process, a run and a stop command.
Phase == {"off", "bound", "marked", "up", "down", "closing", "unbound", "ending", "runless",
          "closed", "owner", "gone"}
Row   == [id : Nat, owner : {"chat", "run"}, life : {"ephemeral", "session"}, expired : BOOLEAN]
StoreType == [made : BOOLEAN, open : BOOLEAN, rows : SUBSET Row, files : SUBSET Nat,
              root : BOOLEAN, late : BOOLEAN]
RunPc == {"none", "running", "succeeded", "failed", "cancelled", "lost"}
RunType == [pc : RunPc, cancel : BOOLEAN, outs : SUBSET Nat, lapsed : SUBSET Nat]
StopPc == {"idle", "check", "signal", "none", "wait", "failed", "stale", "unlink", "stopped"}
StopType == [pc : StopPc, pid : Proc \union {None}]
USE DEF RunPc, StopPc

ProcessTypes ==
  /\ proc \in [Proc -> Phase]
  /\ how \in [Proc -> Ending \union {None}]
  /\ marker \in Proc \union {None}
  /\ stopping \in [Stopper -> StopType]
ServingTypes ==
  /\ request \in [Request -> Served \union {None}]
  /\ slots \in [Proc -> Nat] /\ service \in [Proc -> Nat]
  /\ pool \in [Proc -> SUBSET Request] /\ transfer \in [Proc -> BOOLEAN]
DataTypes ==
  /\ store \in [Proc -> StoreType] /\ run \in [Proc -> RunType] /\ made \in Nat

-----------------------------------------------------------------------------
(* Types.                                                                  *)

\* The fields of a store.
LEMMA StoreFields ==
  ASSUME NEW s \in StoreType
  PROVE  /\ s.made \in BOOLEAN /\ s.open \in BOOLEAN /\ s.root \in BOOLEAN /\ s.late \in BOOLEAN
         /\ s.rows \subseteq Row /\ s.files \subseteq Nat
BY DEF StoreType

\* Rows that are removed take their files along, and nothing else changes.
LEMMA WithoutFields ==
  ASSUME NEW s \in StoreType, NEW g \in SUBSET s.rows
  PROVE  LET w == Without(s, g) IN
         /\ w \in StoreType
         /\ w.rows = s.rows \ g /\ w.files = s.files \ {a.id : a \in g}
         /\ w.made = s.made /\ w.open = s.open /\ w.root = s.root /\ w.late = s.late
BY DEF Without, StoreType

\* Whatever is taken away from a store, a store is left.
LEMMA WithoutType == ASSUME NEW s \in StoreType, NEW g PROVE Without(s, g) \in StoreType
BY DEF Without, StoreType

\* Expired rows are removed, and nothing else changes.
LEMMA CleanedFields ==
  ASSUME NEW s \in StoreType
  PROVE  LET w == Cleaned(s) IN
         /\ w \in StoreType
         /\ w.rows \subseteq s.rows /\ w.made = s.made /\ w.open = s.open
         /\ w.root = s.root /\ w.late = s.late
<1>. DEFINE g == {a \in s.rows : a.expired}
<1>1. g \in SUBSET s.rows  OBVIOUS
<1>2. Cleaned(s) = Without(s, g)  BY DEF Cleaned
<1>. HIDE DEF g
<1>. QED  BY <1>1, <1>2, WithoutFields

\* What a refused put leaves is a store.
LEMMA TidiedType == ASSUME NEW s \in StoreType PROVE Tidied(s) \in StoreType
BY CleanedFields DEF Tidied

\* Removing rows after the expired ones is removing rows.
LEMMA Twice ==
  ASSUME NEW s \in StoreType, NEW g \in SUBSET s.rows
  PROVE  /\ Without(Cleaned(s), g) = Without(s, g \union {a \in s.rows : a.expired})
         /\ Without(Cleaned(s), g) \in StoreType
<1>1. Without(Cleaned(s), g) = Without(s, g \union {a \in s.rows : a.expired})
  BY DEF Without, Cleaned, StoreType
<1>2. Cleaned(s) \in StoreType  BY CleanedFields
<1>3. Without(Cleaned(s), g) \in StoreType  BY <1>2, WithoutType
<1>. QED  BY <1>1, <1>3

\* A new artifact has a new number, and has not expired.
LEMMA ArtifactType ==
  ASSUME made \in Nat, NEW o \in {"chat", "run"}, NEW l \in {"ephemeral", "session"}
  PROVE  /\ Artifact(o, l) \in Row /\ Artifact(o, l).id = made + 1 /\ ~Artifact(o, l).expired
         /\ Artifact(o, l).owner = o /\ Artifact(o, l).life = l
BY DEF Artifact, Row

\* A put adds its row and its file to a store that was cleaned.
LEMMA WithFields ==
  ASSUME NEW s \in StoreType, NEW a \in Row
  PROVE  LET w == With(s, a) IN
         /\ w \in StoreType
         /\ w.rows = Cleaned(s).rows \union {a} /\ w.files = Cleaned(s).files \union {a.id}
         /\ w.made = s.made /\ w.open = s.open /\ w.root = s.root /\ w.late = s.late
<1>. DEFINE c == Cleaned(s)
<1>1. c \in StoreType /\ c.made = s.made /\ c.open = s.open /\ c.root = s.root /\ c.late = s.late
  BY CleanedFields, Zenon
<1>2. With(s, a) = [c EXCEPT !.rows = @ \union {a}, !.files = @ \union {a.id}]  BY DEF With
<1>3. a.id \in Nat  BY DEF Row
<1>. HIDE DEF c
<1>4. With(s, a) \in StoreType
  <2>1. c.rows \union {a} \in SUBSET Row /\ c.files \union {a.id} \in SUBSET Nat
    BY <1>1, <1>3, StoreFields
  <2>. DEFINE x == c.rows \union {a}
              y == c.files \union {a.id}
  <2>2. With(s, a) = [c EXCEPT !.rows = x, !.files = y]  BY <1>2
  <2>. HIDE DEF x, y
  <2>. QED  BY <1>1, <2>1, <2>2 DEF StoreType, x, y
<1>5. With(s, a).rows = c.rows \union {a} /\ With(s, a).files = c.files \union {a.id}
  BY <1>1, <1>2 DEF StoreType
<1>6. /\ With(s, a).made = c.made /\ With(s, a).open = c.open
      /\ With(s, a).root = c.root /\ With(s, a).late = c.late
  BY <1>1, <1>2 DEF StoreType
<1>. QED  BY <1>1, <1>4, <1>5, <1>6 DEF c

\* Whoever asks for the store gets one.
LEMMA GotType ==
  ASSUME DataTypes, NEW p \in Proc PROVE Got(p) \in StoreType
<1>1. store[p] \in StoreType  BY DEF DataTypes
<1>2. \A x \in BOOLEAN : Made(x) \in StoreType  BY DEF Made, StoreType
<1>3. (proc[p] \in {"closed", "owner"}) \in BOOLEAN  OBVIOUS
<1>. QED  BY <1>1, <1>2, <1>3 DEF Got

\* A store that is closed keeps nothing.
LEMMA ShutFields ==
  ASSUME NEW s \in StoreType
  PROVE  /\ Shut(s) \in StoreType /\ Shut(s).made = s.made /\ Shut(s).late = s.late
         /\ ~Shut(s).open /\ Shut(s).rows = {} /\ Shut(s).files = {} /\ ~Shut(s).root
BY DEF Shut, StoreType

\* The store at the end of a run.
LEMMA OwnerFields ==
  ASSUME NEW s \in StoreType, NEW lives
  PROVE  LET g == {a \in s.rows : a.owner = "run" /\ a.life \in lives}
         IN /\ g \in SUBSET s.rows
            /\ DeleteOwner(s, "run", lives) = Without(s, g \union {a \in s.rows : a.expired})
            /\ DeleteOwner(s, "run", lives) \in StoreType
<1>. DEFINE g == {a \in s.rows : a.owner = "run" /\ a.life \in lives}
<1>1. DeleteOwner(s, "run", lives) = Without(Cleaned(s), g)  BY DEF DeleteOwner
<1>2. g \in SUBSET s.rows  OBVIOUS
<1>. HIDE DEF g
<1>3. QED  BY <1>1, <1>2, Twice DEF g

\* A run whose state changes stays a run.
LEMMA RunMoves ==
  ASSUME NEW r \in RunType, NEW x \in RunPc, NEW n, n = [r EXCEPT !.pc = x]
  PROVE  n \in RunType /\ n.pc = x /\ n.cancel = r.cancel /\ n.outs = r.outs /\ n.lapsed = r.lapsed
BY DEF RunType

\* So does one that is asked to end,
LEMMA RunIsAsked ==
  ASSUME NEW r \in RunType, NEW x \in BOOLEAN, NEW n, n = [r EXCEPT !.cancel = x]
  PROVE  n \in RunType /\ n.cancel = x /\ n.pc = r.pc /\ n.outs = r.outs /\ n.lapsed = r.lapsed
BY DEF RunType

\* one that has another output,
LEMMA RunMakes ==
  ASSUME NEW r \in RunType, NEW x \in SUBSET Nat, NEW n, n = [r EXCEPT !.outs = x]
  PROVE  n \in RunType /\ n.outs = x /\ n.pc = r.pc /\ n.cancel = r.cancel /\ n.lapsed = r.lapsed
BY DEF RunType

\* and one whose output is gone.
LEMMA RunLapses ==
  ASSUME NEW r \in RunType, NEW x \in SUBSET Nat, NEW n, n = [r EXCEPT !.lapsed = x]
  PROVE  n \in RunType /\ n.lapsed = x /\ n.pc = r.pc /\ n.cancel = r.cancel /\ n.outs = r.outs
BY DEF RunType

\* An output that lapses is told to its run alone.
LEMMA LapseFacts ==
  ASSUME DataTypes, NEW p \in Proc, NEW id \in Nat, run' = Lapse(p, id)
  PROVE  /\ run' \in [Proc -> RunType] /\ \A q \in Proc \ {p} : run'[q] = run[q]
         /\ run'[p].pc = run[p].pc /\ run'[p].outs = run[p].outs
         /\ run'[p].lapsed = run[p].lapsed \union (run[p].outs \intersect {id})
<1>. DEFINE x == run[p].lapsed \union (run[p].outs \intersect {id})
<1>1. run[p] \in RunType /\ run \in [Proc -> RunType]  BY DEF DataTypes
<1>2. x \in SUBSET Nat  BY <1>1 DEF RunType
<1>3. run' = [run EXCEPT ![p] = [run[p] EXCEPT !.lapsed = x]]  BY DEF Lapse
<1>. HIDE DEF x
<1>. DEFINE n == [run[p] EXCEPT !.lapsed = x]
<1>4. n \in RunType /\ n.pc = run[p].pc /\ n.outs = run[p].outs /\ n.lapsed = x
  BY <1>1, <1>2, RunLapses
<1>5. run' = [run EXCEPT ![p] = n]  BY <1>3
<1>. HIDE DEF n
<1>. QED  BY <1>1, <1>4, <1>5 DEF x

\* The end of a run: of its state, and of the store when that is open.
LEMMA FinishFacts ==
  ASSUME DataTypes, NEW p \in Proc, NEW end \in {"succeeded", "failed", "cancelled"}, Finish(p, end)
  PROVE  /\ run' \in [Proc -> RunType] /\ store' \in [Proc -> StoreType]
         /\ \A q \in Proc \ {p} : run'[q] = run[q] /\ store'[q] = store[q]
         /\ run'[p].pc = end /\ run'[p].outs = run[p].outs /\ run'[p].lapsed = run[p].lapsed
         /\ store'[p] = IF store[p].open
              THEN DeleteOwner(store[p], "run", IF end = "succeeded" THEN {"ephemeral"} ELSE {"ephemeral", "session"})
              ELSE store[p]
<1>. DEFINE lives == IF end = "succeeded" THEN {"ephemeral"} ELSE {"ephemeral", "session"}
<1>1. /\ run[p] \in RunType /\ run \in [Proc -> RunType]
      /\ store[p] \in StoreType /\ store \in [Proc -> StoreType]
  BY DEF DataTypes
<1>2. /\ store' = [store EXCEPT ![p] = IF store[p].open THEN DeleteOwner(store[p], "run", lives) ELSE store[p]]
      /\ run' = [run EXCEPT ![p] = [run[p] EXCEPT !.pc = end]]
  BY DEF Finish
<1>. HIDE DEF lives
<1>3. DeleteOwner(store[p], "run", lives) \in StoreType  BY <1>1, OwnerFields
<1>. DEFINE n == [run[p] EXCEPT !.pc = end]
            t == IF store[p].open THEN DeleteOwner(store[p], "run", lives) ELSE store[p]
<1>4. n \in RunType /\ n.pc = end /\ n.outs = run[p].outs /\ n.lapsed = run[p].lapsed
  BY <1>1, RunMoves
<1>5. t \in StoreType  BY <1>1, <1>3
<1>6. run' = [run EXCEPT ![p] = n] /\ store' = [store EXCEPT ![p] = t]  BY <1>2
<1>7. t = IF store[p].open
          THEN DeleteOwner(store[p], "run", IF end = "succeeded" THEN {"ephemeral"} ELSE {"ephemeral", "session"})
          ELSE store[p]
  BY DEF lives
<1>. HIDE DEF n, t
<1>. QED  BY <1>1, <1>4, <1>5, <1>6, <1>7

Types == ProcessTypes /\ ServingTypes /\ DataTypes

\* The fields of a request that is being served.
LEMMA RequestFields ==
  ASSUME ServingTypes, NEW r \in Request, request[r] # None
  PROVE  /\ request[r] \in Served /\ request[r].proc \in Proc /\ request[r].kind \in Kind
         /\ request[r].pc \in {"begin", "result", "locked", "bytes"}
BY DEF ServingTypes, Served

\* A request that goes on stays one.
LEMMA ServedMoves ==
  ASSUME NEW x \in Served, NEW pc \in {"begin", "result", "locked", "bytes"},
         NEW y, y = [x EXCEPT !.pc = pc]
  PROVE  y \in Served /\ y.pc = pc /\ y.proc = x.proc /\ y.kind = x.kind /\ y # None
BY NoneIsNothing DEF Served

\* A request that goes on.
LEMMA ServingFacts ==
  ASSUME ServingTypes, NEW r \in Request, request[r] # None,
         NEW pc \in {"begin", "result", "locked", "bytes"}, Serving(r, pc)
  PROVE  /\ request' \in [Request -> Served \union {None}]
         /\ \A q \in Request \ {r} : request'[q] = request[q]
         /\ request'[r] # None /\ request'[r].pc = pc
         /\ request'[r].proc = request[r].proc /\ request'[r].kind = request[r].kind
<1>. DEFINE y == [request[r] EXCEPT !.pc = pc]
<1>1. request[r] \in Served  BY RequestFields
<1>2. y \in Served /\ y.pc = pc /\ y.proc = request[r].proc /\ y.kind = request[r].kind /\ y # None
  BY <1>1, ServedMoves
<1>3. request' = [request EXCEPT ![r] = y]  BY DEF Serving
<1>. HIDE DEF y
<1>. QED  BY <1>2, <1>3 DEF ServingTypes

\* One that ends.
LEMMA EndFacts ==
  ASSUME ServingTypes, NEW r \in Request, request[r] # None, NEW well, End(r, well)
  PROVE  /\ request' \in [Request -> Served \union {None}]
         /\ \A q \in Request \ {r} : request'[q] = request[q]
         /\ request'[r] = None
         /\ slots' \in [Proc -> Nat] /\ slots'[request[r].proc] = slots[request[r].proc] + 1
         /\ \A p \in Proc \ {request[r].proc} : slots'[p] = slots[p]
<1>1. request[r].proc \in Proc  BY RequestFields
<1>2. /\ request' = [request EXCEPT ![r] = None]
      /\ slots' = [slots EXCEPT ![request[r].proc] = slots[request[r].proc] + 1]
  BY DEF End, GiveBack
<1>. QED  BY <1>1, <1>2 DEF ServingTypes

\* One that is accepted.
LEMMA ArriveFacts ==
  ASSUME ServingTypes, NEW r \in Request, NEW p \in Proc, NEW kind \in Kind, Arrive(r, p, kind)
  PROVE  /\ request' \in [Request -> Served \union {None}]
         /\ \A q \in Request \ {r} : request'[q] = request[q]
         /\ request[r] = None /\ request'[r] # None /\ request'[r].pc = "begin"
         /\ request'[r].proc = p /\ r \notin pool[p]
         /\ slots' \in [Proc -> Nat] /\ slots'[p] = slots[p] - 1
         /\ \A q \in Proc \ {p} : slots'[q] = slots[q]
<1>. DEFINE y == [proc |-> p, kind |-> kind, pc |-> "begin", art |-> None]
<1>1. y \in Served /\ y.pc = "begin" /\ y.proc = p  BY DEF Served
<1>2. y # None  BY <1>1, NoneIsNothing
<1>3. request' = [request EXCEPT ![r] = y]  BY DEF Arrive
<1>4. slots' = [slots EXCEPT ![p] = slots[p] - 1] /\ slots[p] > 0  BY DEF Arrive
<1>. HIDE DEF y
<1>. QED  BY <1>1, <1>2, <1>3, <1>4 DEF ServingTypes, Arrive

\* The end of a process.
LEMMA EndsFacts ==
  ASSUME Types, NEW p \in Proc, NEW cause \in Ending, Ends(p, cause)
  PROVE  /\ proc' \in [Proc -> Phase] /\ proc'[p] = "gone" /\ \A q \in Proc \ {p} : proc'[q] = proc[q]
         /\ how' \in [Proc -> Ending \union {None}] /\ how'[p] = cause /\ \A q \in Proc \ {p} : how'[q] = how[q]
         /\ request' \in [Request -> Served \union {None}]
         /\ \A r \in Request : request'[r] = IF request[r] # None /\ request[r].proc = p THEN None ELSE request[r]
         /\ run' \in [Proc -> RunType] /\ \A q \in Proc \ {p} : run'[q] = run[q]
         /\ run'[p].pc = IF run[p].pc = "running" THEN "lost" ELSE run[p].pc
         /\ run'[p].outs = run[p].outs /\ run'[p].lapsed = run[p].lapsed
<1>. DEFINE x == IF run[p].pc = "running" THEN "lost" ELSE run[p].pc
            n == [run[p] EXCEPT !.pc = x]
<1>1. run[p] \in RunType /\ run \in [Proc -> RunType]  BY DEF Types, DataTypes
<1>2. x \in RunPc  BY <1>1 DEF RunType
<1>3. run' = [run EXCEPT ![p] = n]  BY DEF Ends
<1>4. n \in RunType /\ n.pc = x /\ n.outs = run[p].outs /\ n.lapsed = run[p].lapsed
  <2>. HIDE DEF x
  <2>. QED  BY <1>1, <1>2, RunMoves
<1>5. /\ run' \in [Proc -> RunType] /\ \A q \in Proc \ {p} : run'[q] = run[q]
      /\ run'[p].pc = x /\ run'[p].outs = run[p].outs /\ run'[p].lapsed = run[p].lapsed
  <2>. HIDE DEF x, n
  <2>. QED  BY <1>1, <1>3, <1>4
<1>6. /\ proc' \in [Proc -> Phase] /\ proc'[p] = "gone" /\ \A q \in Proc \ {p} : proc'[q] = proc[q]
      /\ how' \in [Proc -> Ending \union {None}] /\ how'[p] = cause /\ \A q \in Proc \ {p} : how'[q] = how[q]
  BY DEF Ends, Types, ProcessTypes, Phase
<1>7. /\ request' \in [Request -> Served \union {None}]
      /\ \A r \in Request : request'[r] = IF request[r] # None /\ request[r].proc = p THEN None ELSE request[r]
  BY DEF Ends, Types, ServingTypes
<1>. QED  BY <1>5, <1>6, <1>7

\* Steps that leave what the requests and the artifacts are alone.
LEMMA StopTypes ==
  ASSUME Types, NEW s \in Stopper, NEW pc \in StopPc,
         NEW pid \in Proc \union {None}, Stop(s, pc, pid)
  PROVE  /\ stopping' \in [Stopper -> StopType] /\ stopping'[s].pc = pc /\ stopping'[s].pid = pid
         /\ \A t \in Stopper \ {s} : stopping'[t] = stopping[t]
<1>. DEFINE y == [pc |-> pc, pid |-> pid]
<1>1. y \in StopType /\ y.pc = pc /\ y.pid = pid  BY DEF StopType
<1>2. stopping' = [stopping EXCEPT ![s] = y]  BY DEF Stop
<1>. HIDE DEF y
<1>. QED  BY <1>1, <1>2 DEF Types, ProcessTypes

\* A stop command knows a process, or none.
LEMMA StopFields ==
  ASSUME Types, NEW s \in Stopper
  PROVE  stopping[s].pid \in Proc \union {None}
BY DEF Types, ProcessTypes, StopType

\* Every step keeps the types of what is known of the processes,
LEMMA ProcessTypesStep == ASSUME Types, Next PROVE ProcessTypes'
<1>. USE DEF Types, ProcessTypes
<1>1. ASSUME NEW p \in Proc, NEW s \in Phase, proc' = [proc EXCEPT ![p] = s],
             UNCHANGED <<how, marker, stopping>>
      PROVE  ProcessTypes'
  BY <1>1
<1>2. ASSUME NEW s \in Stopper, NEW pc \in StopPc,
             NEW pid \in Proc \union {None}, Stop(s, pc, pid), UNCHANGED <<proc, how>>, marker' \in {marker, None}
      PROVE  ProcessTypes'
  <2>1. stopping' \in [Stopper -> StopType]  BY <1>2, StopTypes
  <2>. QED  BY <1>2, <2>1
<1>3. ASSUME NEW p \in Proc, NEW cause \in Ending, Ends(p, cause), marker' \in {marker, None},
             stopping' \in [Stopper -> StopType]
      PROVE  ProcessTypes'
  BY <1>3, EndsFacts
<1>4. ASSUME NEW p \in Proc, Start(p) \/ Crash(p) \/ ProcessStep(p) PROVE ProcessTypes'
  <2>1. CASE Start(p)  BY <2>1 DEF Start, Phase, Ending
  <2>2. CASE Crash(p)  BY <2>2, <1>3 DEF Crash, Ending
  <2>3. CASE Mark(p)  BY <2>3 DEF Mark, Goes, Phase
  <2>4. CASE Serve(p)  BY <2>4, <1>1 DEF Serve, Goes, Phase
  <2>5. CASE LoopEnds(p)  BY <2>5, <1>1 DEF LoopEnds, Goes, Phase
  <2>6. CASE CloseSocket(p)  BY <2>6, <1>1 DEF CloseSocket, Goes, Phase
  <2>7. CASE CloseRuns(p)  BY <2>7, <1>1 DEF CloseRuns, Goes, Phase
  <2>8. CASE RunsAreClosed(p)  BY <2>8, <1>1 DEF RunsAreClosed, Goes, Phase
  <2>9. CASE CloseStore(p)  BY <2>9, <1>1 DEF CloseStore, Goes, Phase
  <2>10. CASE ReadMarker(p)
    <3>1. CASE marker = p  BY <2>10, <3>1, <1>1 DEF ReadMarker, Phase
    <3>2. CASE marker # p  BY <2>10, <3>2, <1>3 DEF ReadMarker, Ending
    <3>. QED  BY <3>1, <3>2
  <2>11. CASE Unmark(p)  BY <2>11, <1>3 DEF Unmark, Ending
  <2>. QED  BY <1>4, <2>1, <2>2, <2>3, <2>4, <2>5, <2>6, <2>7, <2>8, <2>9, <2>10, <2>11 DEF ProcessStep
<1>5. ASSUME NEW s \in Stopper, ReadPid(s) \/ StopStep(s) PROVE ProcessTypes'
  <2>. stopping[s].pid \in Proc \union {None}  BY StopFields
  <2>1. CASE ReadPid(s)
    <3>1. CASE marker # None  BY <2>1, <3>1, <1>2 DEF ReadPid
    <3>2. CASE marker = None /\ Legacy # {}
      <4>1. PICK p \in Legacy : Stop(s, "signal", p)  BY <2>1, <3>2 DEF ReadPid
      <4>. QED  BY <2>1, <4>1, <1>2 DEF ReadPid, Legacy
    <3>3. CASE marker = None /\ Legacy = {}  BY <2>1, <3>3, <1>2 DEF ReadPid
    <3>. QED  BY <3>1, <3>2, <3>3
  <2>2. CASE CheckPid(s)  BY <2>2, <1>2 DEF CheckPid
  <2>3. CASE Signal(s)
    <3>. DEFINE p == stopping[s].pid
    <3>1. stopping' \in [Stopper -> StopType]  BY <2>3, StopTypes DEF Signal
    <3>2. CASE Serves(p)  BY <2>3, <3>1, <3>2 DEF Signal, Phase
    <3>3. CASE Alive(p) /\ ~Serves(p)
      <4>1. Ends(p, "killed") /\ marker' = marker  BY <2>3, <3>3 DEF Signal
      <4>2. CASE p \in Proc  BY <4>1, <4>2, <3>1, <1>3 DEF Ending
      <4>3. CASE p \notin Proc  BY <4>1, <4>3, <3>1 DEF Ends
      <4>. QED  BY <4>2, <4>3
    <3>4. CASE ~Serves(p) /\ ~Alive(p)  BY <2>3, <3>1, <3>4 DEF Signal
    <3>. QED  BY <3>2, <3>3, <3>4
  <2>4. CASE Wait(s)  BY <2>4, <1>2 DEF Wait
  <2>5. CASE ReadStale(s)  BY <2>5, <1>2 DEF ReadStale
  <2>6. CASE UnlinkStale(s)  BY <2>6, <1>2 DEF UnlinkStale
  <2>. QED  BY <1>5, <2>1, <2>2, <2>3, <2>4, <2>5, <2>6 DEF StopStep
<1>6. UNCHANGED process => ProcessTypes'  BY DEF process
<1>7. ASSUME NEW p \in Proc, Expire(p) \/ CreateRun(p) \/ CancelRun(p) \/ StoreOutput(p) \/ EndRun(p)
      PROVE  UNCHANGED process
  BY <1>7 DEF Expire, CreateRun, CancelRun, StoreOutput, EndRun
<1>8. ASSUME NEW p \in Proc, NEW r \in Request, PoolReturns(p, r) \/ \E kind \in Kind : Arrive(r, p, kind)
      PROVE  UNCHANGED process
  BY <1>8 DEF PoolReturns, Arrive
<1>9. ASSUME NEW r \in Request, RequestStep(r) PROVE UNCHANGED process
  BY <1>9 DEF RequestStep, Submit, Timeout, Lock, Upload, Envelope, Content, Delete
<1>. QED  BY <1>4, <1>5, <1>6, <1>7, <1>8, <1>9 DEF Next

\* those of what serves the requests,
LEMMA ServingTypesStep == ASSUME Types, Next PROVE ServingTypes'
<1>. USE DEF Types, ServingTypes
<1>1. UNCHANGED serving => ServingTypes'  BY DEF serving
<1>2. ASSUME NEW p \in Proc, NEW cause \in Ending, Ends(p, cause) PROVE ServingTypes'
  BY <1>2, EndsFacts DEF Ends
<1>3. ASSUME NEW p \in Proc, Start(p) \/ Crash(p) \/ ProcessStep(p) PROVE ServingTypes'
  <2>1. CASE Crash(p)  BY <2>1, <1>2 DEF Crash, Ending
  <2>2. CASE ReadMarker(p)  BY <2>2, <1>1, <1>2 DEF ReadMarker, Ending
  <2>3. CASE Unmark(p)  BY <2>3, <1>2 DEF Unmark, Ending
  <2>4. CASE Start(p)  BY <2>4, <1>1 DEF Start
  <2>5. CASE Mark(p) \/ Serve(p) \/ LoopEnds(p) \/ CloseSocket(p) \/ CloseRuns(p) \/ RunsAreClosed(p) \/ CloseStore(p)
    BY <2>5, <1>1 DEF Mark, Serve, LoopEnds, CloseSocket, CloseRuns, RunsAreClosed, CloseStore
  <2>. QED  BY <1>3, <2>1, <2>2, <2>3, <2>4, <2>5 DEF ProcessStep
<1>4. ASSUME NEW s \in Stopper, ReadPid(s) \/ StopStep(s) PROVE ServingTypes'
  <2>. stopping[s].pid \in Proc \union {None}  BY StopFields
  <2>1. CASE Signal(s)
    <3>. DEFINE p == stopping[s].pid
    <3>1. CASE Alive(p) /\ ~Serves(p)
      <4>1. Ends(p, "killed")  BY <2>1, <3>1 DEF Signal
      <4>2. CASE p \in Proc  BY <4>1, <4>2, <1>2 DEF Ending
      <4>3. CASE p \notin Proc  BY <4>1, <4>3 DEF Ends
      <4>. QED  BY <4>2, <4>3
    <3>2. CASE ~(Alive(p) /\ ~Serves(p))  BY <2>1, <3>2, <1>1 DEF Signal
    <3>. QED  BY <3>1, <3>2
  <2>2. CASE ReadPid(s) \/ CheckPid(s) \/ Wait(s) \/ ReadStale(s) \/ UnlinkStale(s)
    BY <2>2, <1>1 DEF ReadPid, CheckPid, Wait, ReadStale, UnlinkStale
  <2>. QED  BY <1>4, <2>1, <2>2 DEF StopStep
<1>5. ASSUME NEW p \in Proc, Expire(p) \/ CreateRun(p) \/ CancelRun(p) \/ StoreOutput(p) \/ EndRun(p)
      PROVE  UNCHANGED serving
  BY <1>5 DEF Expire, CreateRun, CancelRun, StoreOutput, EndRun
<1>6. ASSUME NEW p \in Proc, NEW r \in Request, NEW kind \in Kind, Arrive(r, p, kind) PROVE ServingTypes'
  BY <1>6, ArriveFacts DEF Arrive
<1>7. ASSUME NEW p \in Proc, NEW r \in Request, PoolReturns(p, r) PROVE ServingTypes'
  <2>1. pool' \in [Proc -> SUBSET Request] /\ service' \in [Proc -> Nat] /\ transfer' = transfer
    BY <1>7 DEF PoolReturns
  <2>2. request' \in [Request -> Served \union {None}] /\ slots' \in [Proc -> Nat]
    <3>1. CASE request[r] # None /\ request[r].proc = p /\ request[r].pc = "result"
      BY <1>7, <3>1, EndFacts DEF PoolReturns
    <3>2. CASE ~(request[r] # None /\ request[r].proc = p /\ request[r].pc = "result")
      BY <1>7, <3>2 DEF PoolReturns
    <3>. QED  BY <3>1, <3>2
  <2>. QED  BY <2>1, <2>2
<1>8. ASSUME NEW r \in Request, RequestStep(r) PROVE ServingTypes'
  <2>0. request[r] # None
    BY <1>8 DEF RequestStep, At, Submit, Timeout, Lock, Upload, Envelope, Content, Delete
  <2>. DEFINE p == request[r].proc
  <2>1. p \in Proc  BY <2>0, RequestFields
  <2>2. ASSUME NEW well, End(r, well) PROVE request' \in [Request -> Served \union {None}] /\ slots' \in [Proc -> Nat]
    BY <2>0, <2>2, EndFacts
  <2>3. ASSUME NEW pc \in {"begin", "result", "locked", "bytes"}, Serving(r, pc)
        PROVE  request' \in [Request -> Served \union {None}]
    BY <2>0, <2>3, ServingFacts
  <2>4. ASSUME NEW well, EndTransfer(r, well), UNCHANGED <<service, pool>> PROVE ServingTypes'
    BY <2>1, <2>2, <2>4 DEF EndTransfer
  <2>5. CASE Submit(r)
    <3>1. CASE service[p] = 0 /\ End(r, FALSE) /\ UNCHANGED <<service, pool>>
      BY <3>1, <2>2, <2>5 DEF Submit
    <3>2. CASE ~(service[p] = 0 /\ End(r, FALSE) /\ UNCHANGED <<service, pool>>)
      <4>1. service' = [service EXCEPT ![p] = service[p] - 1] /\ service[p] > 0  BY <2>5, <3>2 DEF Submit
      <4>2. service' \in [Proc -> Nat]  BY <2>1, <4>1
      <4>3. CASE PoolIsOpen(p)
        <5>1. pool' = [pool EXCEPT ![p] = pool[p] \union {r}] /\ Serving(r, "result") /\ UNCHANGED slots
          BY <2>5, <3>2, <4>3 DEF Submit
        <5>. QED  BY <2>1, <2>3, <2>5, <4>2, <5>1 DEF Submit
      <4>4. CASE ~PoolIsOpen(p)
        <5>1. End(r, FALSE) /\ UNCHANGED pool  BY <2>5, <3>2, <4>4 DEF Submit
        <5>. QED  BY <2>2, <2>5, <4>2, <5>1 DEF Submit
      <4>. QED  BY <4>3, <4>4
    <3>. QED  BY <3>1, <3>2
  <2>6. CASE Timeout(r)  BY <2>2, <2>6 DEF Timeout
  <2>7. CASE Lock(r)
    <3>1. CASE transfer[p]  BY <2>2, <2>7, <3>1 DEF Lock
    <3>2. CASE ~transfer[p]  BY <2>1, <2>3, <2>7, <3>2 DEF Lock
    <3>. QED  BY <3>1, <3>2
  <2>8. CASE Upload(r)
    <3>1. EndTransfer(r, TRUE) \/ EndTransfer(r, FALSE)  BY <2>8 DEF Upload
    <3>. QED  BY <2>4, <2>8, <3>1 DEF Upload
  <2>9. CASE Envelope(r)
    <3>1. CASE EndTransfer(r, FALSE)  BY <2>4, <2>9, <3>1 DEF Envelope
    <3>2. CASE ~EndTransfer(r, FALSE)
      <4>1. PICK a \in store'[p].rows :
              /\ request' = [request EXCEPT ![r].pc = "bytes", ![r].art = a.id]
              /\ UNCHANGED <<slots, transfer>>
        BY <2>9, <3>2 DEF Envelope
      <4>2. a.id \in Nat
        <5>1. store' = [store EXCEPT ![p] = Tidied(store[p])]  BY <2>9 DEF Envelope
        <5>2. store[p] \in StoreType /\ store \in [Proc -> StoreType]  BY <2>1 DEF DataTypes
        <5>3. Tidied(store[p]) \in StoreType  BY <5>2, TidiedType
        <5>4. store'[p] \in StoreType  BY <2>1, <5>1, <5>2, <5>3
        <5>5. a \in Row  BY <4>1, <5>4, StoreFields
        <5>. QED  BY <5>5 DEF Row
      <4>. DEFINE y == [request[r] EXCEPT !.pc = "bytes", !.art = a.id]
      <4>3. y \in Served
        <5>1. request[r] \in Served  BY <2>0, RequestFields
        <5>2. y = [request[r] EXCEPT !.pc = "bytes", !.art = a.id]  OBVIOUS
        <5>. HIDE DEF y
        <5>. QED  BY <4>2, <5>1, <5>2 DEF Served
      <4>4. request' = [request EXCEPT ![r] = y]  BY <4>1
      <4>. HIDE DEF y
      <4>5. request' \in [Request -> Served \union {None}]  BY <4>3, <4>4
      <4>. QED  BY <2>9, <4>1, <4>5 DEF Envelope
    <3>. QED  BY <3>1, <3>2
  <2>10. CASE Content(r)
    <3>1. PICK well \in BOOLEAN : EndTransfer(r, well)  BY <2>10 DEF Content
    <3>. QED  BY <2>4, <2>10, <3>1 DEF Content
  <2>11. CASE Delete(r)
    <3>1. End(r, TRUE) \/ End(r, FALSE)  BY <2>11 DEF Delete
    <3>. QED  BY <2>2, <2>11, <3>1 DEF Delete
  <2>. QED  BY <1>8, <2>5, <2>6, <2>7, <2>8, <2>9, <2>10, <2>11 DEF RequestStep
<1>. QED  BY <1>1, <1>3, <1>4, <1>5, <1>6, <1>7, <1>8 DEF Next

\* and those of the stores and the runs.
LEMMA DataTypesStep == ASSUME Types, Next PROVE DataTypes'
<1>. USE DEF Types
<1>1. UNCHANGED data => DataTypes'  BY DEF data, DataTypes
<1>2. ASSUME NEW p \in Proc, NEW cause \in Ending, Ends(p, cause) PROVE DataTypes'
  BY <1>2, EndsFacts DEF Ends, DataTypes
<1>3. ASSUME NEW p \in Proc, NEW t \in StoreType, store' = [store EXCEPT ![p] = t], made' \in Nat,
             run' \in [Proc -> RunType]
      PROVE  DataTypes'
  BY <1>3 DEF DataTypes
<1>4. \A p \in Proc : store[p] \in StoreType /\ run[p] \in RunType  BY DEF DataTypes
<1>5. store \in [Proc -> StoreType] /\ run \in [Proc -> RunType] /\ made \in Nat /\ made + 1 \in Nat
  BY DEF DataTypes
<1>6. ASSUME NEW p \in Proc, Start(p) \/ Crash(p) \/ ProcessStep(p) PROVE DataTypes'
  <2>1. CASE Crash(p)  BY <2>1, <1>2 DEF Crash, Ending
  <2>2. CASE ReadMarker(p)  BY <2>2, <1>1, <1>2 DEF ReadMarker, Ending
  <2>3. CASE Unmark(p)  BY <2>3, <1>2 DEF Unmark, Ending
  <2>4. CASE Start(p)  BY <2>4, <1>1 DEF Start
  <2>5. CASE Mark(p) \/ Serve(p) \/ LoopEnds(p) \/ CloseSocket(p) \/ RunsAreClosed(p)
    BY <2>5, <1>1 DEF Mark, Serve, LoopEnds, CloseSocket, RunsAreClosed
  <2>6. CASE CloseRuns(p)
    <3>. DEFINE x == run[p].cancel \/ run[p].pc = "running"
                n == [run[p] EXCEPT !.cancel = x]
    <3>1. x \in BOOLEAN /\ run' = [run EXCEPT ![p] = n]  BY <2>6 DEF CloseRuns
    <3>. HIDE DEF x
    <3>2. n \in RunType  BY <1>4, <3>1, RunIsAsked
    <3>. HIDE DEF n
    <3>. QED  BY <2>6, <1>5, <3>1, <3>2 DEF CloseRuns, DataTypes
  <2>7. CASE CloseStore(p)
    <3>. DEFINE t == IF store[p].made THEN Shut(store[p]) ELSE store[p]
    <3>1. t \in StoreType  BY <1>4, ShutFields
    <3>2. store' = [store EXCEPT ![p] = t]  BY <2>7 DEF CloseStore
    <3>. HIDE DEF t
    <3>. QED  BY <2>7, <1>3, <1>5, <3>1, <3>2 DEF CloseStore
  <2>. QED  BY <1>6, <2>1, <2>2, <2>3, <2>4, <2>5, <2>6, <2>7 DEF ProcessStep
<1>7. ASSUME NEW s \in Stopper, ReadPid(s) \/ StopStep(s) PROVE DataTypes'
  <2>. stopping[s].pid \in Proc \union {None}  BY StopFields
  <2>1. CASE Signal(s)
    <3>. DEFINE p == stopping[s].pid
    <3>1. CASE Alive(p) /\ ~Serves(p)
      <4>1. Ends(p, "killed")  BY <2>1, <3>1 DEF Signal
      <4>2. CASE p \in Proc  BY <4>1, <4>2, <1>2 DEF Ending
      <4>3. CASE p \notin Proc
        <5>1. run' = run /\ store' = store /\ made' = made  BY <4>1, <4>3, <1>5 DEF Ends
        <5>. QED  BY <5>1, <1>5 DEF DataTypes
      <4>. QED  BY <4>2, <4>3
    <3>2. CASE ~(Alive(p) /\ ~Serves(p))  BY <2>1, <3>2, <1>1 DEF Signal
    <3>. QED  BY <3>1, <3>2
  <2>2. CASE ReadPid(s) \/ CheckPid(s) \/ Wait(s) \/ ReadStale(s) \/ UnlinkStale(s)
    BY <2>2, <1>1 DEF ReadPid, CheckPid, Wait, ReadStale, UnlinkStale
  <2>. QED  BY <1>7, <2>1, <2>2 DEF StopStep
<1>8. ASSUME NEW p \in Proc, Expire(p) \/ CreateRun(p) \/ CancelRun(p) \/ StoreOutput(p) \/ EndRun(p)
      PROVE  DataTypes'
  <2>1. CASE Expire(p)
    <3>1. PICK a \in store[p].rows :
            /\ store' = [store EXCEPT ![p].rows = (@ \ {a}) \union {[a EXCEPT !.expired = TRUE]}]
            /\ run' = Lapse(p, a.id)
      BY <2>1 DEF Expire
    <3>2. a \in Row  BY <1>4, <3>1, StoreFields
    <3>. DEFINE late == [a EXCEPT !.expired = TRUE]
                t == [store[p] EXCEPT !.rows = (store[p].rows \ {a}) \union {late}]
    <3>3. late \in Row /\ a.id \in Nat  BY <3>2 DEF Row
    <3>4. t \in StoreType
      <4>1. (store[p].rows \ {a}) \union {late} \in SUBSET Row  BY <1>4, <3>3, StoreFields
      <4>. DEFINE rows == (store[p].rows \ {a}) \union {late}
      <4>2. t = [store[p] EXCEPT !.rows = rows]  OBVIOUS
      <4>. HIDE DEF t, rows
      <4>. QED  BY <1>4, <4>1, <4>2 DEF StoreType, rows
    <3>5. store' = [store EXCEPT ![p] = t]  BY <3>1
    <3>6. run' \in [Proc -> RunType]  BY <3>1, <3>3, LapseFacts
    <3>. HIDE DEF t
    <3>. QED  BY <2>1, <1>3, <1>5, <3>4, <3>5, <3>6 DEF Expire
  <2>2. CASE CreateRun(p)
    <3>. DEFINE n == [run[p] EXCEPT !.pc = "running"]
    <3>1. n \in RunType  BY <1>4, RunMoves
    <3>2. run' = [run EXCEPT ![p] = n] /\ store' = [store EXCEPT ![p] = Got(p)]  BY <2>2 DEF CreateRun
    <3>3. Got(p) \in StoreType  BY GotType
    <3>. HIDE DEF n
    <3>4. run' \in [Proc -> RunType] /\ made' = made  BY <2>2, <1>5, <3>1, <3>2 DEF CreateRun
    <3>. QED  BY <1>3, <1>5, <3>2, <3>3, <3>4
  <2>3. CASE CancelRun(p)
    <3>. DEFINE n == [run[p] EXCEPT !.cancel = TRUE]
    <3>1. n \in RunType  BY <1>4, RunIsAsked
    <3>2. run' = [run EXCEPT ![p] = n]  BY <2>3 DEF CancelRun
    <3>. HIDE DEF n
    <3>. QED  BY <2>3, <1>5, <3>1, <3>2 DEF CancelRun, DataTypes
  <2>4. CASE StoreOutput(p)
    <3>1. CASE Fits(store[p])
      <4>. DEFINE a == Artifact("run", "session")
                  o == run[p].outs \union {a.id}
                  n == [run[p] EXCEPT !.outs = o]
      <4>1. a \in Row /\ a.id = made + 1  BY <1>5, ArtifactType
      <4>2. store' = [store EXCEPT ![p] = With(store[p], a)] /\ made' = made + 1 /\ run' = [run EXCEPT ![p] = n]
        BY <2>4, <3>1 DEF StoreOutput
      <4>. HIDE DEF a
      <4>3. With(store[p], a) \in StoreType  BY <1>4, <4>1, WithFields
      <4>4. o \in SUBSET Nat  BY <1>4, <1>5, <4>1 DEF RunType
      <4>. HIDE DEF o
      <4>5. n \in RunType  BY <1>4, <4>4, RunMakes
      <4>. HIDE DEF n
      <4>. QED  BY <1>3, <1>5, <4>2, <4>3, <4>5
    <3>2. CASE ~Fits(store[p])
      <4>1. PICK end \in {"cancelled", "failed"} : Finish(p, end) /\ made' = made
        BY <2>4, <3>2 DEF StoreOutput
      <4>. QED  BY <4>1, <1>5, FinishFacts DEF DataTypes
    <3>. QED  BY <3>1, <3>2
  <2>5. CASE EndRun(p)
    <3>1. PICK end \in {"succeeded", "cancelled", "failed"} : Finish(p, end) /\ made' = made
      BY <2>5 DEF EndRun
    <3>. QED  BY <3>1, <1>5, FinishFacts DEF DataTypes
  <2>. QED  BY <1>8, <2>1, <2>2, <2>3, <2>4, <2>5
<1>9. ASSUME NEW p \in Proc, NEW r \in Request, PoolReturns(p, r) \/ \E kind \in Kind : Arrive(r, p, kind)
      PROVE  UNCHANGED data
  BY <1>9 DEF PoolReturns, Arrive
<1>10. ASSUME NEW r \in Request, RequestStep(r) PROVE DataTypes'
  <2>0. request[r] # None
    BY <1>10 DEF RequestStep, At, Submit, Timeout, Lock, Upload, Envelope, Content, Delete
  <2>. DEFINE p == request[r].proc
  <2>1. p \in Proc  BY <2>0, RequestFields
  <2>. HIDE DEF p
  <2>2. store[p] \in StoreType /\ Tidied(store[p]) \in StoreType /\ Got(p) \in StoreType
    BY <1>4, <2>1, TidiedType, GotType
  <2>3. CASE Submit(r) \/ Timeout(r)  BY <2>3, <1>1 DEF Submit, Timeout
  <2>4. CASE Lock(r)
    <3>1. store' = [store EXCEPT ![p] = Got(p)] /\ run' = run /\ made' = made  BY <2>4 DEF Lock, p
    <3>. QED  BY <2>1, <2>2, <3>1, <1>3, <1>5
  <2>5. CASE Upload(r)
    <3>1. run' = run  BY <2>5 DEF Upload
    <3>2. CASE UNCHANGED <<store, made>>  BY <3>1, <3>2, <1>5 DEF DataTypes
    <3>3. CASE \E owner \in {"chat", "run"}, life \in {"ephemeral", "session"} :
                 store' = [store EXCEPT ![p] = With(store[p], Artifact(owner, life))] /\ made' = made + 1
      <4>1. PICK owner \in {"chat", "run"}, life \in {"ephemeral", "session"} :
                 store' = [store EXCEPT ![p] = With(store[p], Artifact(owner, life))] /\ made' = made + 1
        BY <3>3
      <4>2. Artifact(owner, life) \in Row  BY <1>5, <4>1, ArtifactType
      <4>3. With(store[p], Artifact(owner, life)) \in StoreType  BY <2>2, <4>2, WithFields
      <4>. QED  BY <2>1, <3>1, <4>1, <4>3, <1>3, <1>5
    <3>4. CASE store' = [store EXCEPT ![p] = Tidied(store[p])] /\ made' = made
      BY <2>1, <2>2, <3>1, <3>4, <1>3, <1>5
    <3>. QED  BY <2>5, <3>2, <3>3, <3>4 DEF Upload, p
  <2>6. CASE Envelope(r) \/ Content(r)
    <3>1. store' = [store EXCEPT ![p] = Tidied(store[p])] /\ run' = run /\ made' = made
      BY <2>6 DEF Envelope, Content, p
    <3>. QED  BY <2>1, <2>2, <3>1, <1>3, <1>5
  <2>7. CASE Delete(r)
    <3>1. made' = made  BY <2>7 DEF Delete
    <3>2. CASE store' = [store EXCEPT ![p] = Tidied(Got(p))] /\ run' = run
      BY <2>1, <2>2, <3>1, <3>2, <1>3, <1>5, TidiedType
    <3>3. CASE \E a \in Tidied(Got(p)).rows :
                 /\ store' = [store EXCEPT ![p] = Without(Cleaned(store[p]), {a})] /\ run' = Lapse(p, a.id)
      <4>1. PICK a \in Tidied(Got(p)).rows :
                 /\ store' = [store EXCEPT ![p] = Without(Cleaned(store[p]), {a})] /\ run' = Lapse(p, a.id)
        BY <3>3
      <4>2. a \in Row  BY <2>2, <4>1, TidiedType, StoreFields
      <4>3. Without(Cleaned(store[p]), {a}) \in StoreType
        <5>1. Cleaned(store[p]) \in StoreType  BY <2>2, CleanedFields
        <5>. QED  BY <5>1, WithoutType
      <4>4. run' \in [Proc -> RunType]
        <5>1. a.id \in Nat  BY <4>2 DEF Row
        <5>. QED  BY <2>1, <4>1, <5>1, LapseFacts
      <4>. QED  BY <2>1, <3>1, <4>1, <4>3, <4>4, <1>3, <1>5
    <3>. QED  BY <2>7, <3>2, <3>3 DEF Delete, p
  <2>. QED  BY <1>10, <2>3, <2>4, <2>5, <2>6, <2>7 DEF RequestStep
<1>. QED  BY <1>1, <1>6, <1>7, <1>8, <1>9, <1>10 DEF Next

\* Types are kept by every step.
LEMMA TypesStep == Types /\ [Next]_vars => Types'
<1>1. ASSUME Types, UNCHANGED vars PROVE Types'
  BY <1>1 DEF vars, process, serving, data, Types, ProcessTypes, ServingTypes, DataTypes
<1>. QED  BY <1>1, ProcessTypesStep, ServingTypesStep, DataTypesStep DEF Types

-----------------------------------------------------------------------------
(* What is not free is held by a request, or a call, that still runs.      *)

Young == {"off", "bound", "marked"}
Hows  == \A p \in Proc : how[p] # None <=> proc[p] = "gone"

\* Nothing has been asked of a process that does not serve yet.
Rested(p) ==
  /\ slots[p] = Slots /\ service[p] = ServiceSlots /\ pool[p] = {} /\ ~transfer[p]
  /\ store[p] = Unmade /\ run[p] = NoRun
Fresh == \A p \in Proc : proc[p] \in Young => Rested(p)

\* Requests are of processes that live, and have no call in the pool but the
\* one they wait for.
Queue ==
  \A r \in Request : request[r] # None =>
    /\ proc[request[r].proc] \notin Young \union {"gone"}
    /\ request[r].pc # "result" => r \notin pool[request[r].proc]
OneTransfer == \A p \in Proc : \A r, q \in Transfers(p) : r = q

Books(p) ==
  /\ Alive(p) => slots[p] = Slots - Cardinality(Open(p))
  /\ Alive(p) /\ PoolIsOpen(p) => service[p] = ServiceSlots - Cardinality(pool[p])
  /\ Alive(p) => (transfer[p] <=> Transfers(p) # {})
Account == Hows /\ Fresh /\ Queue /\ OneTransfer /\ \A p \in Proc : Books(p)

\* The requests of a process can be counted.
LEMMA OpenFinite ==
  ASSUME NEW p
  PROVE  IsFiniteSet(Open(p)) /\ Cardinality(Open(p)) \in Nat
<1>1. Open(p) \subseteq Request  BY DEF Open
<1>. QED  BY <1>1, FewConnections, FS_Subset, FS_CardinalityType

\* So can the calls of its pool.
LEMMA PoolFinite ==
  ASSUME Types, NEW p \in Proc
  PROVE  IsFiniteSet(pool[p]) /\ Cardinality(pool[p]) \in Nat
<1>1. pool[p] \subseteq Request  BY DEF Types, ServingTypes
<1>. QED  BY <1>1, FewConnections, FS_Subset, FS_CardinalityType

\* A process that does not serve yet has all its slots and no request.
LEMMA YoungBooks ==
  ASSUME Account, NEW p \in Proc, proc[p] \in Young
  PROVE  Rested(p) /\ Open(p) = {} /\ Transfers(p) = {} /\ Cardinality(Open(p)) = 0 /\ Cardinality(pool[p]) = 0
<1>1. Open(p) = {}  BY DEF Account, Queue, Open
<1>. QED  BY <1>1, FS_EmptySet DEF Account, Fresh, Rested, Transfers

\* A step that leaves the requests alone, and lets processes go on.
LEMMA Quiet ==
  ASSUME Types, Account, UNCHANGED serving,
         \A p \in Proc : proc'[p] # proc[p] =>
           /\ proc[p] \in Young => proc'[p] \in Young \union {"up", "gone"}
           /\ proc[p] \notin Young => proc'[p] \notin Young \union {"gone"}
           /\ proc'[p] \in {"up", "down", "closing"} =>
                proc[p] \in {"up", "down", "closing"} \union Young
           /\ proc[p] # "gone"
  PROVE  Queue' /\ OneTransfer' /\ \A p \in Proc : Books(p)'
<1>. USE DEF serving
<1>1. \A p \in Proc : Open(p)' = Open(p) /\ Transfers(p)' = Transfers(p)  BY DEF Open, Transfers
<1>2. OneTransfer'  BY <1>1 DEF Account, OneTransfer
<1>3. Queue'
  <2>. SUFFICES ASSUME NEW r \in Request, request[r] # None
                PROVE  /\ proc'[request[r].proc] \notin Young \union {"gone"}
                       /\ request[r].pc # "result" => r \notin pool[request[r].proc]
    BY DEF Queue
  <2>1. request[r].proc \in Proc  BY RequestFields DEF Types
  <2>. QED  BY <2>1 DEF Account, Queue
<1>4. ASSUME NEW p \in Proc PROVE Books(p)'
  <2>1. CASE proc[p] \in Young
    <3>1. Rested(p) /\ Transfers(p) = {} /\ Cardinality(Open(p)) = 0 /\ Cardinality(pool[p]) = 0
      BY <2>1, YoungBooks
    <3>. QED  BY <3>1, <1>1, LimitsAreCounts DEF Books, Rested
  <2>2. CASE proc[p] \notin Young
    <3>1. Alive(p)' => Alive(p)  BY <2>2 DEF Alive, Young
    <3>2. PoolIsOpen(p)' => PoolIsOpen(p)  BY <2>2 DEF PoolIsOpen, Young
    <3>. QED  BY <3>1, <3>2, <1>1 DEF Account, Books
  <2>. QED  BY <2>1, <2>2
<1>. QED  BY <1>2, <1>3, <1>4

\* Young processes are left alone by whatever serves.
LEMMA StaysFresh ==
  ASSUME Account,
         \A p \in Proc : proc'[p] \in Young =>
           /\ proc[p] \in Young
           /\ slots'[p] = slots[p] /\ service'[p] = service[p] /\ pool'[p] = pool[p]
           /\ transfer'[p] = transfer[p] /\ store'[p] = store[p] /\ run'[p] = run[p]
  PROVE  Fresh'
BY DEF Account, Fresh, Rested

\* With a process its requests end; those of others go on.
LEMMA EndsAccount ==
  ASSUME Types, Account, NEW p \in Proc, NEW cause \in Ending, Ends(p, cause)
  PROVE  Account'
<1>1. UNCHANGED <<slots, service, pool, transfer, store, made>>  BY DEF Ends
<1>2. Hows'  BY EndsFacts, NoneIsNothing DEF Account, Hows
<1>3. Fresh'
  <2>1. \A q \in Proc : proc'[q] \in Young => q # p /\ proc'[q] = proc[q] /\ run'[q] = run[q]
    BY EndsFacts DEF Young
  <2>. QED  BY <1>1, <2>1, StaysFresh
<1>4. \A r \in Request : request'[r] # None =>
        request'[r] = request[r] /\ request[r].proc # p /\ request[r].proc \in Proc
  BY EndsFacts, RequestFields DEF Types
<1>5. Queue'
  <2>1. \A q \in Proc \ {p} : proc'[q] = proc[q]  BY EndsFacts
  <2>. QED  BY <1>1, <1>4, <2>1 DEF Account, Queue
<1>6. ASSUME NEW q \in Proc, q # p PROVE Open(q)' = Open(q) /\ Transfers(q)' = Transfers(q)
  <2>1. \A r \in Request : request[r] # None /\ request[r].proc = q => request'[r] = request[r]
    BY <1>6, EndsFacts
  <2>2. Open(q)' = Open(q)  BY <1>4, <2>1 DEF Open
  <2>. QED  BY <1>4, <2>2 DEF Open, Transfers
<1>7. Open(p)' = {} /\ Transfers(p)' = {}  BY <1>4 DEF Open, Transfers
<1>8. OneTransfer'  BY <1>6, <1>7 DEF Account, OneTransfer
<1>9. ASSUME NEW q \in Proc PROVE Books(q)'
  <2>1. CASE q = p
    <3>1. proc'[q] = "gone"  BY <2>1, EndsFacts
    <3>. QED  BY <3>1 DEF Books, Alive
  <2>2. CASE q # p
    <3>1. proc'[q] = proc[q]  BY <2>2, EndsFacts
    <3>. QED  BY <2>2, <3>1, <1>1, <1>6 DEF Account, Books, Alive, PoolIsOpen
  <2>. QED  BY <2>1, <2>2
<1>. QED  BY <1>2, <1>3, <1>5, <1>8, <1>9 DEF Account

\* A request that ends gives its slot back, and its part in transfers.
LEMMA Returned ==
  ASSUME Types, Account, NEW r \in Request, request[r] # None,
         NEW p \in Proc, p = request[r].proc, NEW well, End(r, well)
  PROVE  /\ Open(p)' = Open(p) \ {r}
         /\ \A q \in Proc : Transfers(q)' = Transfers(q) \ {r}
         /\ \A q \in Proc \ {p} : Open(q)' = Open(q) /\ slots'[q] = slots[q]
         /\ \A q \in Proc : slots[q] = Slots - Cardinality(Open(q)) => slots'[q] = Slots - Cardinality(Open(q)')
         /\ slots' \in [Proc -> Nat]
<1>0. ServingTypes  BY DEF Types
<1>1. /\ \A q \in Request \ {r} : request'[q] = request[q]
      /\ request'[r] = None
      /\ slots' \in [Proc -> Nat] /\ slots'[p] = slots[p] + 1
      /\ \A q \in Proc \ {p} : slots'[q] = slots[q]
  BY <1>0, EndFacts
<1>2. Open(p)' = Open(p) \ {r} /\ r \in Open(p)  BY <1>1 DEF Open
<1>3. \A q \in Proc \ {p} : Open(q)' = Open(q) /\ r \notin Open(q)  BY <1>1 DEF Open
<1>4. \A q \in Proc : Transfers(q)' = Transfers(q) \ {r}  BY <1>1, <1>2, <1>3 DEF Open, Transfers
<1>5. Cardinality(Open(p)') = Cardinality(Open(p)) - 1
  <2>1. IsFiniteSet(Open(p))  BY OpenFinite
  <2>2. Cardinality(Open(p) \ {r}) = Cardinality(Open(p)) - 1  BY <1>2, <2>1, FS_RemoveElement
  <2>. QED  BY <1>2, <2>2
<1>6. ASSUME NEW q \in Proc, slots[q] = Slots - Cardinality(Open(q))
      PROVE  slots'[q] = Slots - Cardinality(Open(q)')
  <2>1. CASE q = p
    <3>1. Cardinality(Open(p)) \in Nat  BY OpenFinite
    <3>2. slots[p] = Slots - Cardinality(Open(p)) /\ slots'[p] = slots[p] + 1  BY <1>1, <1>6, <2>1
    <3>3. slots'[p] = Slots - Cardinality(Open(p)')  BY <3>1, <3>2, <1>5, LimitsAreCounts
    <3>. QED  BY <2>1, <3>3
  <2>2. CASE q # p  BY <2>2, <1>1, <1>3, <1>6
  <2>. QED  BY <2>1, <2>2
<1>. QED  BY <1>1, <1>2, <1>3, <1>4, <1>6

\* What a step of a request of p leaves alone, and what it keeps.
Apart(p) ==
  \A q \in Proc \ {p} : /\ service'[q] = service[q] /\ pool'[q] = pool[q] /\ transfer'[q] = transfer[q]
                        /\ store'[q] = store[q] /\ run'[q] = run[q]
ServiceKept ==
  \A q \in Proc : Alive(q) /\ PoolIsOpen(q) => service'[q] = ServiceSlots - Cardinality(pool'[q])
PoolKept(p, r) ==
  \A q \in Proc : \A x \in pool'[q] : x \in pool[q] \/ (x = r /\ q = p /\ request'[r].pc = "result")

\* A step with which a request ends.
LEMMA LeaveAccount ==
  ASSUME Types, Account, NEW r \in Request, request[r] # None,
         NEW p \in Proc, p = request[r].proc, NEW well, End(r, well),
         proc' = proc, how' = how,
         \A q \in Proc : pool'[q] \subseteq pool[q],
         ServiceKept, Apart(p),
         \/ request[r].pc \in {"begin", "result"} /\ transfer'[p] = transfer[p]
         \/ request[r].pc \in {"locked", "bytes"} /\ transfer'[p] = FALSE
  PROVE  Account'
<1>. USE DEF ServiceKept, Apart
<1>1. /\ Open(p)' = Open(p) \ {r}
      /\ \A q \in Proc : Transfers(q)' = Transfers(q) \ {r}
      /\ \A q \in Proc \ {p} : Open(q)' = Open(q) /\ slots'[q] = slots[q]
      /\ \A q \in Proc : slots[q] = Slots - Cardinality(Open(q)) => slots'[q] = Slots - Cardinality(Open(q)')
  BY Returned
<1>2. /\ \A q \in Request \ {r} : request'[q] = request[q]
      /\ request'[r] = None
  BY EndFacts DEF Types
<1>3. proc[p] \notin Young \union {"gone"}  BY DEF Account, Queue
<1>4. Hows'  BY DEF Account, Hows
<1>5. Fresh'  BY <1>1, <1>3, StaysFresh
<1>6. Queue'
  <2>. SUFFICES ASSUME NEW q \in Request, request'[q] # None
                PROVE  /\ proc'[request'[q].proc] \notin Young \union {"gone"}
                       /\ request'[q].pc # "result" => q \notin pool'[request'[q].proc]
    BY DEF Queue
  <2>1. q # r /\ request'[q] = request[q]  BY <1>2
  <2>2. request[q].proc \in Proc  BY <2>1, RequestFields DEF Types
  <2>. QED  BY <2>1, <2>2 DEF Account, Queue
<1>7. OneTransfer'  BY <1>1 DEF Account, OneTransfer
<1>8. ASSUME NEW q \in Proc, Alive(q) PROVE transfer'[q] <=> Transfers(q)' # {}
  <2>1. transfer[q] <=> Transfers(q) # {}  BY <1>8 DEF Account, Books
  <2>2. CASE q # p
    <3>1. r \notin Transfers(q)  BY <2>2 DEF Transfers, Open
    <3>. QED  BY <2>1, <2>2, <3>1, <1>1
  <2>3. CASE q = p /\ request[r].pc \in {"begin", "result"} /\ transfer'[p] = transfer[p]
    <3>1. r \notin Transfers(q)  BY <2>3 DEF Transfers, Open
    <3>. QED  BY <2>1, <2>3, <3>1, <1>1
  <2>4. CASE q = p /\ request[r].pc \in {"locked", "bytes"} /\ transfer'[p] = FALSE
    <3>1. r \in Transfers(q)  BY <2>4 DEF Transfers, Open
    <3>2. Transfers(q) \ {r} = {}  BY <3>1 DEF Account, OneTransfer
    <3>. QED  BY <2>4, <3>2, <1>1
  <2>. QED  BY <2>2, <2>3, <2>4
<1>9. ASSUME NEW q \in Proc PROVE Books(q)'
  <2>1. Alive(q)' = Alive(q) /\ PoolIsOpen(q)' = PoolIsOpen(q)  BY DEF Alive, PoolIsOpen
  <2>2. Alive(q) => slots'[q] = Slots - Cardinality(Open(q)')  BY <1>1 DEF Account, Books
  <2>. QED  BY <2>1, <2>2, <1>8 DEF Books
<1>. QED  BY <1>4, <1>5, <1>6, <1>7, <1>9 DEF Account

\* A step with which a request goes on.
LEMMA GoOnAccount ==
  ASSUME Types, Account, NEW r \in Request, request[r] # None,
         NEW p \in Proc, p = request[r].proc,
         \A q \in Request \ {r} : request'[q] = request[q],
         request'[r] # None, request'[r].proc = p,
         proc' = proc, how' = how, slots' = slots,
         PoolKept(p, r), ServiceKept, Apart(p),
         \/ /\ request[r].pc = "begin" /\ request'[r].pc = "result" /\ transfer'[p] = transfer[p]
         \/ /\ request[r].pc = "begin" /\ request'[r].pc = "locked"
            /\ ~transfer[p] /\ transfer'[p] = TRUE
         \/ /\ request[r].pc = "locked" /\ request'[r].pc = "bytes" /\ transfer'[p] = transfer[p]
  PROVE  Account'
<1>. USE DEF PoolKept, ServiceKept, Apart
<1>1. \A q \in Proc : Open(q)' = Open(q)  BY DEF Open
<1>2. \A q \in Proc \ {p} : Transfers(q)' = Transfers(q)  BY <1>1 DEF Open, Transfers
<1>3. proc[p] \notin Young \union {"gone"}  BY DEF Account, Queue
<1>4. Hows'  BY DEF Account, Hows
<1>5. Fresh'  BY <1>3, StaysFresh
<1>6. Queue'
  <2>. SUFFICES ASSUME NEW q \in Request, request'[q] # None
                PROVE  /\ proc'[request'[q].proc] \notin Young \union {"gone"}
                       /\ request'[q].pc # "result" => q \notin pool'[request'[q].proc]
    BY DEF Queue
  <2>1. CASE q = r  BY <2>1, <1>3 DEF Account, Queue
  <2>2. CASE q # r
    <3>1. request'[q] = request[q] /\ request[q].proc \in Proc  BY <2>2, RequestFields DEF Types
    <3>. QED  BY <2>2, <3>1 DEF Account, Queue
  <2>. QED  BY <2>1, <2>2
<1>7. /\ \A x, y \in Transfers(p)' : x = y
      /\ Alive(p) => (transfer'[p] <=> Transfers(p)' # {})
  <2>1. CASE request[r].pc = "begin" /\ request'[r].pc = "result" /\ transfer'[p] = transfer[p]
    <3>1. Transfers(p)' = Transfers(p)  BY <2>1, <1>1 DEF Open, Transfers
    <3>. QED  BY <2>1, <3>1 DEF Account, Books, OneTransfer
  <2>2. CASE request[r].pc = "begin" /\ request'[r].pc = "locked" /\ ~transfer[p] /\ transfer'[p] = TRUE
    <3>1. Alive(p)  BY <1>3 DEF Alive, Young
    <3>2. Transfers(p) = {}  BY <2>2, <3>1 DEF Account, Books
    <3>3. Transfers(p)' = {r}  BY <2>2, <3>2, <1>1 DEF Open, Transfers
    <3>. QED  BY <2>2, <3>3
  <2>3. CASE request[r].pc = "locked" /\ request'[r].pc = "bytes" /\ transfer'[p] = transfer[p]
    <3>1. Transfers(p)' = Transfers(p)  BY <2>3, <1>1 DEF Open, Transfers
    <3>. QED  BY <2>3, <3>1 DEF Account, Books, OneTransfer
  <2>. QED  BY <2>1, <2>2, <2>3
<1>8. OneTransfer'  BY <1>2, <1>7 DEF Account, OneTransfer
<1>9. ASSUME NEW q \in Proc PROVE Books(q)'
  <2>1. Alive(q)' = Alive(q) /\ PoolIsOpen(q)' = PoolIsOpen(q)  BY DEF Alive, PoolIsOpen
  <2>2. Alive(q) => slots'[q] = Slots - Cardinality(Open(q)')  BY <1>1 DEF Account, Books
  <2>3. Alive(q) => (transfer'[q] <=> Transfers(q)' # {})  BY <1>2, <1>7 DEF Account, Books
  <2>. QED  BY <2>1, <2>2, <2>3 DEF Books
<1>. QED  BY <1>4, <1>5, <1>6, <1>8, <1>9 DEF Account

\* The steps of a request keep the account,
LEMMA RequestAccount ==
  ASSUME Types, Account, NEW r \in Request, RequestStep(r) PROVE Account'
<1>1. request[r] # None
  BY DEF RequestStep, At, Submit, Timeout, Lock, Upload, Envelope, Content, Delete
<1>2. PICK p \in Proc : p = request[r].proc  BY <1>1, RequestFields DEF Types
<1>3. proc[p] \notin Young \union {"gone"}  BY <1>1, <1>2 DEF Account, Queue
<1>4. proc' = proc /\ how' = how
  BY DEF RequestStep, Submit, Timeout, Lock, Upload, Envelope, Content, Delete, process
<1>5. /\ store \in [Proc -> StoreType] /\ run \in [Proc -> RunType]
      /\ service \in [Proc -> Nat] /\ pool \in [Proc -> SUBSET Request] /\ transfer \in [Proc -> BOOLEAN]
  BY DEF Types, DataTypes, ServingTypes
<1>6. \A q \in Proc : Alive(q) /\ PoolIsOpen(q) => service[q] = ServiceSlots - Cardinality(pool[q])
  BY DEF Account, Books
<1>7. ASSUME NEW well, EndTransfer(r, well), request[r].pc \in {"locked", "bytes"}, UNCHANGED <<service, pool>>,
             \A q \in Proc \ {p} : store'[q] = store[q] /\ run'[q] = run[q]
      PROVE  Account'
  <2>1. End(r, well) /\ transfer' = [transfer EXCEPT ![p] = FALSE]  BY <1>2, <1>7 DEF EndTransfer
  <2>2. transfer'[p] = FALSE /\ \A q \in Proc \ {p} : transfer'[q] = transfer[q]  BY <2>1, <1>5
  <2>3. \A q \in Proc : pool'[q] \subseteq pool[q]  BY <1>7
  <2>4. ServiceKept  BY <1>6, <1>7 DEF ServiceKept
  <2>5. Apart(p)  BY <1>7, <2>2 DEF Apart
  <2>6. request[r].pc \in {"locked", "bytes"} /\ transfer'[p] = FALSE  BY <1>7, <2>2
  <2>7. End(r, well)  BY <2>1
  <2>. QED  BY <1>1, <1>2, <1>4, <2>3, <2>4, <2>5, <2>6, <2>7, LeaveAccount
<1>8. CASE Submit(r)
  <2>0. request[r].pc = "begin" /\ UNCHANGED <<transfer, store, run>>  BY <1>8 DEF Submit, At, data
  <2>1. CASE service[p] = 0 /\ End(r, FALSE) /\ UNCHANGED <<service, pool>>
    <3>1. ServiceKept /\ Apart(p)  BY <1>6, <2>0, <2>1 DEF ServiceKept, Apart
    <3>. QED  BY <1>1, <1>2, <1>4, <2>0, <2>1, <3>1, LeaveAccount
  <2>2. CASE ~(service[p] = 0 /\ End(r, FALSE) /\ UNCHANGED <<service, pool>>)
    <3>1. service' = [service EXCEPT ![p] = service[p] - 1] /\ service[p] > 0  BY <1>2, <1>8, <2>2 DEF Submit
    <3>2. CASE PoolIsOpen(p)
      <4>1. pool' = [pool EXCEPT ![p] = pool[p] \union {r}] /\ Serving(r, "result") /\ UNCHANGED slots
        BY <1>2, <1>8, <2>2, <3>2 DEF Submit
      <4>2. pool'[p] = pool[p] \union {r} /\ \A q \in Proc \ {p} : pool'[q] = pool[q] /\ service'[q] = service[q]
        BY <1>5, <3>1, <4>1
      <4>3. r \notin pool[p]  BY <1>1, <1>2, <2>0 DEF Account, Queue
      <4>4. Cardinality(pool'[p]) = Cardinality(pool[p]) + 1
        <5>1. IsFiniteSet(pool[p])  BY PoolFinite
        <5>2. Cardinality(pool[p] \union {r}) = Cardinality(pool[p]) + 1  BY <4>3, <5>1, FS_AddElement
        <5>. QED  BY <4>2, <5>2
      <4>5. service'[p] = service[p] - 1 /\ service[p] \in Nat /\ Cardinality(pool[p]) \in Nat
        BY <1>5, <3>1, PoolFinite
      <4>6. ASSUME NEW q \in Proc, Alive(q), PoolIsOpen(q)
            PROVE  service'[q] = ServiceSlots - Cardinality(pool'[q])
        <5>1. CASE q = p
          <6>1. service[p] = ServiceSlots - Cardinality(pool[p])  BY <1>6, <4>6, <5>1
          <6>2. service'[p] = ServiceSlots - Cardinality(pool'[p])
            BY <4>4, <4>5, <6>1, LimitsAreCounts
          <6>. QED  BY <5>1, <6>2
        <5>2. CASE q # p  BY <4>2, <4>6, <5>2, <1>6
        <5>. QED  BY <5>1, <5>2
      <4>7. /\ \A q \in Request \ {r} : request'[q] = request[q]
            /\ request'[r] # None /\ request'[r].pc = "result" /\ request'[r].proc = p
        BY <1>1, <1>2, <4>1, ServingFacts DEF Types
      <4>8. PoolKept(p, r)  BY <4>2, <4>7 DEF PoolKept
      <4>9. Apart(p)  BY <2>0, <4>2 DEF Apart
      <4>10. /\ request[r].pc = "begin" /\ request'[r].pc = "result" /\ transfer'[p] = transfer[p]
        BY <2>0, <4>7
      <4>11. /\ \A q \in Request \ {r} : request'[q] = request[q]
             /\ request'[r] # None /\ request'[r].proc = p /\ slots' = slots
        BY <4>1, <4>7
      <4>12. ServiceKept  BY <4>6 DEF ServiceKept
      <4>. QED  BY <1>1, <1>2, <1>4, <4>8, <4>9, <4>10, <4>11, <4>12, GoOnAccount
    <3>3. CASE ~PoolIsOpen(p)
      <4>1. End(r, FALSE) /\ UNCHANGED pool  BY <1>2, <1>8, <2>2, <3>3 DEF Submit
      <4>2. \A q \in Proc \ {p} : service'[q] = service[q]  BY <1>5, <3>1
      <4>3. \A q \in Proc : Alive(q) /\ PoolIsOpen(q) => service'[q] = ServiceSlots - Cardinality(pool'[q])
        BY <1>6, <3>3, <4>1, <4>2
      <4>4. ServiceKept /\ Apart(p)  BY <2>0, <4>1, <4>2, <4>3 DEF ServiceKept, Apart
      <4>. QED  BY <1>1, <1>2, <1>4, <2>0, <4>1, <4>4, LeaveAccount
    <3>. QED  BY <3>2, <3>3
  <2>. QED  BY <2>1, <2>2
<1>9. CASE Timeout(r)
  <2>1. /\ request[r].pc = "result" /\ End(r, FALSE)
        /\ UNCHANGED <<service, pool, transfer, store, run>>
    BY <1>9 DEF Timeout, At, data
  <2>2. ServiceKept /\ Apart(p)  BY <1>6, <2>1 DEF ServiceKept, Apart
  <2>. QED  BY <1>1, <1>2, <1>4, <2>1, <2>2, LeaveAccount
<1>10. CASE Lock(r)
  <2>0. /\ request[r].pc = "begin" /\ UNCHANGED <<service, pool, run>>
        /\ \A q \in Proc \ {p} : store'[q] = store[q]
    BY <1>2, <1>5, <1>10 DEF Lock, At
  <2>1. CASE transfer[p]
    <3>1. End(r, FALSE) /\ UNCHANGED transfer  BY <1>2, <1>10, <2>1 DEF Lock
    <3>2. ServiceKept /\ Apart(p)  BY <1>6, <2>0, <3>1 DEF ServiceKept, Apart
    <3>. QED  BY <1>1, <1>2, <1>4, <2>0, <3>1, <3>2, LeaveAccount
  <2>2. CASE ~transfer[p]
    <3>1. Serving(r, "locked") /\ transfer' = [transfer EXCEPT ![p] = TRUE] /\ UNCHANGED slots
      BY <1>2, <1>10, <2>2 DEF Lock
    <3>2. transfer'[p] = TRUE /\ \A q \in Proc \ {p} : transfer'[q] = transfer[q]  BY <1>5, <3>1
    <3>3. /\ \A q \in Request \ {r} : request'[q] = request[q]
          /\ request'[r] # None /\ request'[r].pc = "locked" /\ request'[r].proc = p
      BY <1>1, <1>2, <3>1, ServingFacts DEF Types
    <3>4. PoolKept(p, r) /\ ServiceKept /\ Apart(p)
      BY <1>6, <2>0, <3>2 DEF PoolKept, ServiceKept, Apart
    <3>. QED  BY <1>1, <1>2, <1>4, <2>0, <2>2, <3>1, <3>2, <3>3, <3>4, GoOnAccount
  <2>. QED  BY <2>1, <2>2
<1>11. CASE Upload(r)
  <2>1. request[r].pc = "locked" /\ UNCHANGED <<service, pool, run>>  BY <1>11 DEF Upload, At
  <2>2. \A q \in Proc \ {p} : store'[q] = store[q]  BY <1>2, <1>5, <1>11 DEF Upload
  <2>3. EndTransfer(r, TRUE) \/ EndTransfer(r, FALSE)  BY <1>11 DEF Upload
  <2>. QED  BY <2>1, <2>2, <2>3, <1>7
<1>12. CASE Envelope(r)
  <2>1. /\ request[r].pc = "locked" /\ UNCHANGED <<service, pool, run>>
        /\ \A q \in Proc \ {p} : store'[q] = store[q]
    BY <1>2, <1>5, <1>12 DEF Envelope, At
  <2>2. CASE EndTransfer(r, FALSE)  BY <2>1, <2>2, <1>7
  <2>3. CASE ~EndTransfer(r, FALSE)
    <3>1. PICK a \in store'[p].rows :
            /\ request' = [request EXCEPT ![r].pc = "bytes", ![r].art = a.id]
            /\ UNCHANGED <<slots, transfer>>
      BY <1>2, <1>12, <2>3 DEF Envelope
    <3>2. a.id \in Nat
      <4>1. store' \in [Proc -> StoreType]
        <5>1. store' = [store EXCEPT ![p] = Tidied(store[p])]  BY <1>2, <1>12 DEF Envelope
        <5>2. Tidied(store[p]) \in StoreType  BY <1>5, TidiedType
        <5>. QED  BY <1>5, <5>1, <5>2
      <4>2. a \in Row  BY <3>1, <4>1, StoreFields
      <4>. QED  BY <4>2 DEF Row
    <3>. DEFINE y == [request[r] EXCEPT !.pc = "bytes", !.art = a.id]
    <3>3. y \in Served /\ y.pc = "bytes" /\ y.proc = p /\ y # None
      <4>1. request[r] \in Served  BY <1>1, RequestFields DEF Types
      <4>2. y = [request[r] EXCEPT !.pc = "bytes", !.art = a.id]  OBVIOUS
      <4>. HIDE DEF y
      <4>. QED  BY <1>2, <3>2, <4>1, <4>2, NoneIsNothing DEF Served
    <3>4. request' = [request EXCEPT ![r] = y]  BY <3>1
    <3>. HIDE DEF y
    <3>5. request' = [request EXCEPT ![r] = y] /\ request \in [Request -> Served \union {None}]
      BY <3>4 DEF Types, ServingTypes
    <3>6. /\ \A q \in Request \ {r} : request'[q] = request[q]
          /\ request'[r] # None /\ request'[r].pc = "bytes" /\ request'[r].proc = p
      BY <3>3, <3>5
    <3>7. PoolKept(p, r) /\ ServiceKept /\ Apart(p)
      BY <1>6, <2>1, <3>1 DEF PoolKept, ServiceKept, Apart
    <3>. QED  BY <1>1, <1>2, <1>4, <2>1, <3>1, <3>6, <3>7, GoOnAccount
  <2>. QED  BY <2>2, <2>3
<1>13. CASE Content(r)
  <2>1. /\ request[r].pc = "bytes" /\ UNCHANGED <<service, pool, run>>
        /\ \A q \in Proc \ {p} : store'[q] = store[q]
    BY <1>2, <1>5, <1>13 DEF Content, At
  <2>2. PICK well \in BOOLEAN : EndTransfer(r, well)  BY <1>13 DEF Content
  <2>. QED  BY <2>1, <2>2, <1>7
<1>14. CASE Delete(r)
  <2>1. request[r].pc = "begin" /\ UNCHANGED <<service, pool, transfer>>  BY <1>14 DEF Delete, At
  <2>2. End(r, TRUE) \/ End(r, FALSE)  BY <1>14 DEF Delete
  <2>3. \A q \in Proc \ {p} : store'[q] = store[q] /\ run'[q] = run[q]
    <3>1. CASE store' = [store EXCEPT ![p] = Tidied(Got(p))] /\ run' = run  BY <3>1, <1>5
    <3>2. CASE \E a \in Tidied(Got(p)).rows :
                 /\ store' = [store EXCEPT ![p] = Without(Cleaned(store[p]), {a})] /\ run' = Lapse(p, a.id)
      BY <3>2, <1>5 DEF Lapse
    <3>. QED  BY <1>2, <1>14, <3>1, <3>2 DEF Delete
  <2>4. ServiceKept /\ Apart(p)  BY <1>6, <2>1, <2>3 DEF ServiceKept, Apart
  <2>. QED  BY <1>1, <1>2, <1>4, <2>1, <2>2, <2>4, LeaveAccount
<1>. QED  BY <1>8, <1>9, <1>10, <1>11, <1>12, <1>13, <1>14 DEF RequestStep

\* as do the ends of the calls of the pool,
LEMMA PoolAccount ==
  ASSUME Types, Account, NEW p \in Proc, NEW r \in Request, PoolReturns(p, r) PROVE Account'
<1>1. /\ pool' = [pool EXCEPT ![p] = pool[p] \ {r}] /\ service' = [service EXCEPT ![p] = service[p] + 1]
      /\ r \in pool[p] /\ Alive(p) /\ UNCHANGED <<transfer, store, run>> /\ proc' = proc /\ how' = how
  BY DEF PoolReturns, process, data
<1>2. pool \in [Proc -> SUBSET Request] /\ service \in [Proc -> Nat]  BY DEF Types, ServingTypes
<1>3. pool'[p] = pool[p] \ {r} /\ service'[p] = service[p] + 1  BY <1>1, <1>2
<1>4. \A q \in Proc \ {p} : pool'[q] = pool[q] /\ service'[q] = service[q]  BY <1>1, <1>2
<1>5. Cardinality(pool'[p]) = Cardinality(pool[p]) - 1  BY <1>1, <1>3, PoolFinite, FS_RemoveElement
<1>6. ServiceKept
  <2>. SUFFICES ASSUME NEW q \in Proc, Alive(q), PoolIsOpen(q)
                PROVE  service'[q] = ServiceSlots - Cardinality(pool'[q])
    BY DEF ServiceKept
  <2>1. service[q] = ServiceSlots - Cardinality(pool[q])  BY DEF Account, Books
  <2>2. CASE q = p
    <3>1. Cardinality(pool[p]) \in Nat  BY PoolFinite
    <3>2. service'[p] = ServiceSlots - Cardinality(pool'[p])  BY <1>3, <1>5, <2>1, <2>2, <3>1, LimitsAreCounts
    <3>. QED  BY <2>2, <3>2
  <2>3. CASE q # p  BY <2>1, <2>3, <1>4
  <2>. QED  BY <2>2, <2>3
<1>7. Apart(p)  BY <1>1, <1>4 DEF Apart
<1>8. \A q \in Proc : pool'[q] \subseteq pool[q]  BY <1>3, <1>4
<1>9. CASE request[r] # None /\ request[r].proc = p /\ request[r].pc = "result"
  <2>1. End(r, TRUE)  BY <1>9 DEF PoolReturns
  <2>. QED  BY <1>1, <1>6, <1>7, <1>8, <1>9, <2>1, LeaveAccount
<1>10. CASE ~(request[r] # None /\ request[r].proc = p /\ request[r].pc = "result")
  <2>1. UNCHANGED <<request, slots>>  BY <1>10 DEF PoolReturns
  <2>2. proc[p] \notin Young  BY <1>1 DEF Account, Fresh, Rested
  <2>3. Hows'  BY <1>1 DEF Account, Hows
  <2>4. Fresh'  BY <1>1, <1>4, <2>1, <2>2, StaysFresh
  <2>5. Queue'
    <3>. SUFFICES ASSUME NEW q \in Request, request[q] # None
                  PROVE  /\ proc[request[q].proc] \notin Young \union {"gone"}
                         /\ request[q].pc # "result" => q \notin pool'[request[q].proc]
      BY <1>1, <2>1 DEF Queue
    <3>1. request[q].proc \in Proc  BY RequestFields DEF Types
    <3>. QED  BY <3>1, <1>8 DEF Account, Queue
  <2>6. \A q \in Proc : Open(q)' = Open(q) /\ Transfers(q)' = Transfers(q)  BY <2>1 DEF Open, Transfers
  <2>7. OneTransfer'  BY <2>6 DEF Account, OneTransfer
  <2>8. \A q \in Proc : Books(q)'
    BY <1>1, <1>6, <2>1, <2>6 DEF Account, Books, ServiceKept, Alive, PoolIsOpen
  <2>. QED  BY <2>3, <2>4, <2>5, <2>7, <2>8 DEF Account
<1>. QED  BY <1>9, <1>10

\* the requests that arrive,
LEMMA ArriveAccount ==
  ASSUME Types, Account, NEW p \in Proc, NEW r \in Request, NEW kind \in Kind, Arrive(r, p, kind)
  PROVE  Account'
<1>1. /\ \A q \in Request \ {r} : request'[q] = request[q]
      /\ request[r] = None /\ request'[r] # None /\ request'[r].pc = "begin"
      /\ request'[r].proc = p /\ r \notin pool[p]
      /\ slots'[p] = slots[p] - 1 /\ \A q \in Proc \ {p} : slots'[q] = slots[q]
  BY ArriveFacts DEF Types
<1>2. /\ UNCHANGED <<service, pool, transfer, store, run>> /\ proc' = proc /\ how' = how
      /\ proc[p] \in {"up", "down"}
  BY DEF Arrive, process, data, Serves
<1>3. Open(p)' = Open(p) \union {r} /\ r \notin Open(p)  BY <1>1 DEF Open
<1>4. \A q \in Proc \ {p} : Open(q)' = Open(q)  BY <1>1 DEF Open
<1>5. \A q \in Proc : Transfers(q)' = Transfers(q)  BY <1>1, <1>3, <1>4 DEF Open, Transfers
<1>6. Cardinality(Open(p)') = Cardinality(Open(p)) + 1  BY <1>3, OpenFinite, FS_AddElement
<1>7. Hows'  BY <1>2 DEF Account, Hows
<1>8. Fresh'
  <2>1. \A q \in Proc : proc'[q] \in Young => q # p  BY <1>2 DEF Young
  <2>. QED  BY <1>1, <1>2, <2>1, StaysFresh
<1>9. Queue'
  <2>. SUFFICES ASSUME NEW q \in Request, request'[q] # None
                PROVE  /\ proc'[request'[q].proc] \notin Young \union {"gone"}
                       /\ request'[q].pc # "result" => q \notin pool'[request'[q].proc]
    BY DEF Queue
  <2>1. CASE q = r  BY <1>1, <1>2, <2>1 DEF Young
  <2>2. CASE q # r  BY <1>1, <1>2, <2>2 DEF Account, Queue
  <2>. QED  BY <2>1, <2>2
<1>10. OneTransfer'  BY <1>5 DEF Account, OneTransfer
<1>11. ASSUME NEW q \in Proc PROVE Books(q)'
  <2>1. Alive(q)' = Alive(q) /\ PoolIsOpen(q)' = PoolIsOpen(q)  BY <1>2 DEF Alive, PoolIsOpen
  <2>2. ASSUME Alive(q) PROVE slots'[q] = Slots - Cardinality(Open(q)')
    <3>1. slots[q] = Slots - Cardinality(Open(q))  BY <2>2 DEF Account, Books
    <3>2. CASE q = p
      <4>1. Cardinality(Open(p)) \in Nat  BY OpenFinite
      <4>2. slots'[p] = Slots - Cardinality(Open(p)')  BY <1>1, <1>6, <3>1, <3>2, <4>1, LimitsAreCounts
      <4>. QED  BY <3>2, <4>2
    <3>3. CASE q # p  BY <1>1, <1>4, <3>1, <3>3
    <3>. QED  BY <3>2, <3>3
  <2>. QED  BY <1>2, <1>5, <2>1, <2>2 DEF Account, Books
<1>. QED  BY <1>7, <1>8, <1>9, <1>10, <1>11 DEF Account

\* the steps of the runs and the store,
LEMMA DataAccount ==
  ASSUME Types, Account, NEW p \in Proc,
         Expire(p) \/ CreateRun(p) \/ CancelRun(p) \/ StoreOutput(p) \/ EndRun(p)
  PROVE  Account'
<1>1. UNCHANGED <<process, serving>>
  BY DEF Expire, CreateRun, CancelRun, StoreOutput, EndRun
<1>2. proc[p] \notin Young /\ \A q \in Proc \ {p} : store'[q] = store[q] /\ run'[q] = run[q]
  <2>1. store \in [Proc -> StoreType] /\ run \in [Proc -> RunType]  BY DEF Types, DataTypes
  <2>2. CASE Expire(p)
    <3>1. store[p].rows # {}  BY <2>2 DEF Expire
    <3>2. proc[p] \notin Young  BY <3>1 DEF Account, Fresh, Rested, Unmade
    <3>. QED  BY <2>1, <2>2, <3>2 DEF Expire, Lapse
  <2>3. CASE CreateRun(p)  BY <2>1, <2>3 DEF CreateRun, Young
  <2>4. CASE CancelRun(p)  BY <2>1, <2>4 DEF CancelRun, Serves, Young
  <2>5. CASE StoreOutput(p) \/ EndRun(p)
    <3>1. run[p].pc = "running"  BY <2>5 DEF StoreOutput, EndRun
    <3>2. proc[p] \notin Young  BY <3>1 DEF Account, Fresh, Rested, NoRun
    <3>3. CASE StoreOutput(p) /\ Fits(store[p])  BY <2>1, <3>2, <3>3 DEF StoreOutput
    <3>4. CASE \E end \in {"succeeded", "failed", "cancelled"} : Finish(p, end)
      BY <2>1, <3>2, <3>4 DEF Finish
    <3>5. \/ StoreOutput(p) /\ Fits(store[p])
          \/ \E end \in {"succeeded", "failed", "cancelled"} : Finish(p, end)
      BY <2>5 DEF StoreOutput, EndRun
    <3>. QED  BY <3>2, <3>3, <3>4, <3>5
  <2>. QED  BY <2>2, <2>3, <2>4, <2>5
<1>3. proc' = proc /\ how' = how  BY <1>1 DEF process
<1>4. UNCHANGED serving  BY <1>1
<1>5. Queue' /\ OneTransfer' /\ \A q \in Proc : Books(q)'
  BY <1>3, <1>4, Quiet
<1>6. Hows'  BY <1>3 DEF Account, Hows
<1>7. Fresh'  BY <1>2, <1>3, <1>4, StaysFresh DEF serving
<1>. QED  BY <1>5, <1>6, <1>7 DEF Account

\* those of a process,
LEMMA ProcessAccount ==
  ASSUME Types, Account, NEW p \in Proc, Start(p) \/ Crash(p) \/ ProcessStep(p)
  PROVE  Account'
<1>1. proc \in [Proc -> Phase] /\ how \in [Proc -> Ending \union {None}]  BY DEF Types, ProcessTypes
<1>2. store \in [Proc -> StoreType] /\ run \in [Proc -> RunType]  BY DEF Types, DataTypes
<1>3. CASE Start(p)
  <2>1. UNCHANGED <<serving, data>> /\ proc[p] = "off"  BY <1>3 DEF Start
  <2>2. \A q \in Proc \ {p} : proc'[q] = proc[q] /\ how'[q] = how[q]  BY <1>1, <1>3 DEF Start
  <2>3. \/ proc'[p] = "bound" /\ how'[p] = how[p]
        \/ proc'[p] = "gone" /\ how'[p] = "refused"
    BY <1>1, <1>3 DEF Start
  <2>4. Hows'
    <3>1. how[p] = None  BY <2>1 DEF Account, Hows
    <3>. QED  BY <2>2, <2>3, <3>1, NoneIsNothing DEF Account, Hows, Ending
  <2>5. Fresh'  BY <2>1, <2>2, StaysFresh DEF Young, serving, data
  <2>6. Queue' /\ OneTransfer' /\ \A q \in Proc : Books(q)'
    BY <2>1, <2>2, <2>3, Quiet DEF Young
  <2>. QED  BY <2>4, <2>5, <2>6 DEF Account
<1>4. CASE Crash(p)  BY <1>4, EndsAccount DEF Crash, Ending
<1>5. CASE ProcessStep(p) /\ proc'[p] # "gone"
  <2>1. /\ UNCHANGED <<serving, how>>
        /\ proc[p] \notin {"off", "gone"}
        /\ \E s \in Phase : proc' = [proc EXCEPT ![p] = s]
        /\ <<proc[p], proc'[p]>> \in
             {<<"bound", "marked">>, <<"marked", "up">>, <<"down", "closing">>, <<"closing", "unbound">>,
              <<"unbound", "ending">>, <<"ending", "runless">>, <<"runless", "closed">>, <<"closed", "owner">>}
    <3>1. CASE Mark(p)  BY <1>1, <3>1 DEF Mark, Goes, Phase
    <3>2. CASE Serve(p)  BY <1>1, <3>2 DEF Serve, Goes, Phase
    <3>3. CASE LoopEnds(p)  BY <1>1, <3>3 DEF LoopEnds, Goes, Phase
    <3>4. CASE CloseSocket(p)  BY <1>1, <3>4 DEF CloseSocket, Goes, Phase
    <3>5. CASE CloseRuns(p)  BY <1>1, <3>5 DEF CloseRuns, Goes, Phase
    <3>6. CASE RunsAreClosed(p)  BY <1>1, <3>6 DEF RunsAreClosed, Goes, Phase
    <3>7. CASE CloseStore(p)  BY <1>1, <3>7 DEF CloseStore, Goes, Phase
    <3>8. CASE ReadMarker(p)
      <4>1. marker = p  BY <1>1, <1>5, <3>8 DEF ReadMarker, Ends
      <4>. QED  BY <1>1, <3>8, <4>1 DEF ReadMarker, Phase
    <3>9. CASE Unmark(p)  BY <1>1, <1>5, <3>9 DEF Unmark, Ends
    <3>. QED  BY <1>5, <3>1, <3>2, <3>3, <3>4, <3>5, <3>6, <3>7, <3>8, <3>9 DEF ProcessStep
  <2>2. \A q \in Proc \ {p} : proc'[q] = proc[q]  BY <1>1, <2>1
  <2>3. Hows'  BY <1>5, <2>1, <2>2 DEF Account, Hows
  <2>4. Queue' /\ OneTransfer' /\ \A q \in Proc : Books(q)'
    BY <2>1, <2>2, Quiet DEF Young
  <2>5. Fresh'
    <3>1. \A q \in Proc : proc'[q] \in Young => proc[q] \in Young  BY <2>1, <2>2 DEF Young
    <3>2. \A q \in Proc : proc'[q] \in Young => store'[q] = store[q] /\ run'[q] = run[q]
      <4>1. UNCHANGED <<store, run>> \/ CloseRuns(p) \/ CloseStore(p)
        <5>1. ~Ends(p, "clean")  BY <1>1, <1>5 DEF Ends
        <5>2. CASE ReadMarker(p)  BY <5>1, <5>2 DEF ReadMarker, data
        <5>3. CASE Unmark(p)  BY <5>1, <5>3 DEF Unmark
        <5>4. CASE Mark(p) \/ Serve(p) \/ LoopEnds(p) \/ CloseSocket(p) \/ RunsAreClosed(p)
          BY <5>4 DEF Mark, Serve, LoopEnds, CloseSocket, RunsAreClosed, data
        <5>. QED  BY <1>5, <5>2, <5>3, <5>4 DEF ProcessStep
      <4>2. CASE UNCHANGED <<store, run>>  BY <4>2
      <4>3. CASE CloseRuns(p) \/ CloseStore(p)
        <5>1. proc'[p] \notin Young  BY <1>1, <4>3 DEF CloseRuns, CloseStore, Goes, Young
        <5>2. \A q \in Proc \ {p} : store'[q] = store[q] /\ run'[q] = run[q]
          BY <1>2, <4>3 DEF CloseRuns, CloseStore
        <5>. QED  BY <5>1, <5>2
      <4>. QED  BY <4>1, <4>2, <4>3
    <3>. QED  BY <2>1, <3>1, <3>2, StaysFresh DEF serving
  <2>. QED  BY <2>3, <2>4, <2>5 DEF Account
<1>6. CASE ProcessStep(p) /\ proc'[p] = "gone"
  <2>1. Ends(p, "clean")
    BY <1>1, <1>6 DEF ProcessStep, Mark, Serve, LoopEnds, CloseSocket, CloseRuns, RunsAreClosed, CloseStore,
                      ReadMarker, Unmark, Goes
  <2>. QED  BY <2>1, EndsAccount DEF Ending
<1>. QED  BY <1>3, <1>4, <1>5, <1>6

\* and those of the command that stops one.
LEMMA StopAccount ==
  ASSUME Types, Account, NEW s \in Stopper, ReadPid(s) \/ StopStep(s)
  PROVE  Account'
<1>1. proc \in [Proc -> Phase]  BY DEF Types, ProcessTypes
<1>2. ASSUME UNCHANGED <<proc, how, serving, data>> PROVE Account'
  <2>1. Queue' /\ OneTransfer' /\ \A q \in Proc : Books(q)'  BY <1>2, Quiet
  <2>2. Hows' /\ Fresh'  BY <1>2, StaysFresh DEF Account, Hows, serving, data
  <2>. QED  BY <2>1, <2>2 DEF Account
<1>3. CASE Signal(s)
  <2>. DEFINE p == stopping[s].pid
  <2>1. CASE Serves(p) /\ p \in Proc
    <3>1. proc' = [proc EXCEPT ![p] = "down"] /\ UNCHANGED <<how, serving, data>>  BY <1>3, <2>1 DEF Signal
    <3>2. PICK q \in Proc : q = p  BY <2>1
    <3>3. proc'[q] = "down" /\ proc[q] \in {"up", "down"} /\ \A t \in Proc \ {q} : proc'[t] = proc[t]
      BY <1>1, <2>1, <3>1, <3>2 DEF Serves
    <3>4. Hows'  BY <3>1, <3>3 DEF Account, Hows
    <3>5. Fresh'  BY <3>1, <3>3, StaysFresh DEF Young, serving, data
    <3>6. Queue' /\ OneTransfer' /\ \A t \in Proc : Books(t)'  BY <3>1, <3>3, Quiet DEF Young
    <3>. QED  BY <3>4, <3>5, <3>6 DEF Account
  <2>2. CASE Alive(p) /\ ~Serves(p) /\ p \in Proc
    <3>1. Ends(p, "killed")  BY <1>3, <2>2 DEF Signal
    <3>2. PICK q \in Proc : q = p  BY <2>2
    <3>. QED  BY <3>1, <3>2, EndsAccount DEF Ending
  <2>3. CASE p \notin Proc
    <3>1. proc' = proc /\ how' = how  BY <1>1, <1>3, <2>3 DEF Signal, Ends, Types, ProcessTypes
    <3>2. CASE Alive(p) /\ ~Serves(p)
      <4>1. \A r \in Request : ~(request[r] # None /\ request[r].proc = p)
        BY <2>3, RequestFields DEF Types
      <4>2. UNCHANGED <<serving, data>>
        BY <1>3, <2>3, <3>2, <4>1 DEF Signal, Ends, Types, ServingTypes, DataTypes, serving, data
      <4>. QED  BY <1>2, <3>1, <4>2
    <3>3. CASE ~(Alive(p) /\ ~Serves(p))
      <4>1. UNCHANGED <<serving, data>>  BY <1>3, <3>3 DEF Signal
      <4>. QED  BY <1>2, <3>1, <4>1
    <3>. QED  BY <3>2, <3>3
  <2>4. CASE ~Serves(p) /\ ~Alive(p)
    <3>1. UNCHANGED <<proc, how, serving, data>>  BY <1>3, <2>4 DEF Signal
    <3>. QED  BY <3>1, <1>2
  <2>. QED  BY <2>1, <2>2, <2>3, <2>4
<1>4. CASE ReadPid(s) \/ CheckPid(s) \/ Wait(s) \/ ReadStale(s) \/ UnlinkStale(s)
  BY <1>2, <1>4 DEF ReadPid, CheckPid, Wait, ReadStale, UnlinkStale
<1>. QED  BY <1>3, <1>4 DEF StopStep

\* The account is kept by every step.
LEMMA AccountStep == Types /\ Account /\ [Next]_vars => Account'
<1>. SUFFICES ASSUME Types, Account, [Next]_vars PROVE Account'  OBVIOUS
<1>1. CASE UNCHANGED vars
  <2>1. UNCHANGED <<proc, how, serving, data>>  BY <1>1 DEF vars, process
  <2>2. Queue' /\ OneTransfer' /\ \A q \in Proc : Books(q)'  BY <2>1, Quiet
  <2>3. Hows' /\ Fresh'  BY <2>1, StaysFresh DEF Account, Hows, serving, data
  <2>. QED  BY <2>2, <2>3 DEF Account
<1>. QED  BY <1>1, ProcessAccount, StopAccount, DataAccount, PoolAccount, ArriveAccount, RequestAccount DEF Next

-----------------------------------------------------------------------------
(* The outputs of a run.                                                   *)

Ids(s) == {a.id : a \in s.rows}

\* Artifacts are told by their numbers, which are none above m; rows and files
\* go together, and a store that is not open has no rows.
StoreOk(s, m) ==
  /\ IsFiniteSet(s.rows) /\ Cardinality(s.rows) <= MaxArtifacts
  /\ \A a \in s.rows : a.id <= m
  /\ \A a, b \in s.rows : a.id = b.id => a = b
  /\ s.open => s.files = Ids(s)
  /\ ~s.open => s.rows = {}
  /\ ~s.made => s = Unmade

\* Outputs of a run are the run's, of a session; while it runs they are in the
\* store, unless they have lapsed; when it has failed none is.
RunOk(s, r, m) ==
  /\ r.pc = "none" => r.outs = {}
  /\ ~s.made => r.pc = "none"
  /\ \A i \in r.outs : i <= m
  /\ \A a \in s.rows : a.id \in r.outs =>
       a.owner = "run" /\ a.life = "session" /\ (a.expired => a.id \in r.lapsed)
  /\ r.pc \in {"failed", "cancelled"} => r.outs \intersect Ids(s) = {}
  /\ r.pc \in {"running", "succeeded"} /\ s.open => r.outs \subseteq Ids(s) \union r.lapsed
Kept(s, r, m) == StoreOk(s, m) /\ RunOk(s, r, m)
Stores == \A p \in Proc : Kept(store[p], run[p], made)

\* Numbers that are taken later change nothing.
LEMMA KeptLater ==
  ASSUME NEW s \in StoreType, NEW r \in RunType, NEW m \in Nat, NEW n \in Nat, m <= n, Kept(s, r, m)
  PROVE  Kept(s, r, n)
<1>1. \A a \in s.rows : a.id \in Nat  BY StoreFields DEF Row
<1>2. \A i \in r.outs : i \in Nat  BY DEF RunType
<1>3. StoreOk(s, n)  BY <1>1 DEF Kept, StoreOk
<1>4. RunOk(s, r, n)  BY <1>2 DEF Kept, RunOk
<1>. QED  BY <1>3, <1>4 DEF Kept

\* Rows that are removed take their files with them.
LEMMA StoreLess ==
  ASSUME NEW s \in StoreType, NEW m, StoreOk(s, m), NEW g \in SUBSET s.rows
  PROVE  /\ StoreOk(Without(s, g), m)
         /\ Ids(Without(s, g)) = Ids(s) \ {a.id : a \in g}
<1>. DEFINE w == Without(s, g)
<1>1. /\ w \in StoreType /\ w.rows = s.rows \ g /\ w.files = s.files \ {a.id : a \in g}
      /\ w.made = s.made /\ w.open = s.open
  BY WithoutFields
<1>2. ~s.made => w = Unmade
  <2>1. SUFFICES ASSUME ~s.made PROVE w = Unmade  OBVIOUS
  <2>2. s = Unmade  BY <2>1 DEF StoreOk
  <2>3. g = {}  BY <2>2 DEF Unmade
  <2>. QED  BY <2>2, <2>3 DEF Without, Unmade
<1>. HIDE DEF w
<1>3. Ids(w) = Ids(s) \ {a.id : a \in g}  BY <1>1 DEF Ids, StoreOk
<1>4. IsFiniteSet(w.rows) /\ Cardinality(w.rows) <= MaxArtifacts
  <2>1. w.rows \subseteq s.rows  BY <1>1
  <2>2. IsFiniteSet(s.rows) /\ Cardinality(s.rows) <= MaxArtifacts  BY DEF StoreOk
  <2>3. IsFiniteSet(w.rows) /\ Cardinality(w.rows) <= Cardinality(s.rows)  BY <2>1, <2>2, FS_Subset
  <2>4. Cardinality(w.rows) \in Nat /\ Cardinality(s.rows) \in Nat  BY <2>2, <2>3, FS_CardinalityType
  <2>. QED  BY <2>2, <2>3, <2>4, LimitsAreCounts
<1>5. StoreOk(w, m)  BY <1>1, <1>2, <1>3, <1>4 DEF StoreOk
<1>. QED  BY <1>3, <1>5 DEF w

\* Removing rows that are no outputs, or whose loss the run knows, is allowed.
LEMMA KeptLess ==
  ASSUME NEW s \in StoreType, NEW r \in RunType, NEW m, Kept(s, r, m),
         NEW g \in SUBSET s.rows, \A a \in g : a.id \in r.outs => a.id \in r.lapsed
  PROVE  Kept(Without(s, g), r, m)
<1>. DEFINE w == Without(s, g)
<1>1. w.rows \subseteq s.rows /\ w.made = s.made /\ w.open = s.open  BY WithoutFields
<1>2. StoreOk(w, m) /\ Ids(w) = Ids(s) \ {a.id : a \in g}  BY StoreLess DEF Kept
<1>. HIDE DEF w
<1>3. RunOk(w, r, m)  BY <1>1, <1>2 DEF Kept, RunOk
<1>. QED  BY <1>2, <1>3 DEF Kept, w

\* Removing what has expired is, for the run knows it.
LEMMA KeptCleaned ==
  ASSUME NEW s \in StoreType, NEW r \in RunType, NEW m, Kept(s, r, m)
  PROVE  Kept(Cleaned(s), r, m) /\ Kept(Tidied(s), r, m)
<1>. DEFINE g == {a \in s.rows : a.expired}
<1>1. g \in SUBSET s.rows /\ \A a \in g : a.id \in r.outs => a.id \in r.lapsed
  BY DEF Kept, RunOk
<1>2. Cleaned(s) = Without(s, g)  BY DEF Cleaned
<1>. HIDE DEF g
<1>3. Kept(Cleaned(s), r, m)  BY <1>1, <1>2, KeptLess
<1>. QED  BY <1>3 DEF Tidied

\* A put.
LEMMA StoreMore ==
  ASSUME NEW s \in StoreType, NEW r \in RunType, NEW m \in Nat, Kept(s, r, m), Fits(s),
         NEW a \in Row, a.id = m + 1
  PROVE  StoreOk(With(s, a), m + 1) /\ Ids(With(s, a)) = Ids(Cleaned(s)) \union {m + 1}
<1>. DEFINE c == Cleaned(s)
            w == With(s, a)
<1>1. c \in StoreType /\ c.open = s.open /\ c.made = s.made  BY CleanedFields
<1>2. Kept(c, r, m)  BY KeptCleaned
<1>3. s.open /\ Cardinality(c.rows) < MaxArtifacts  BY DEF Fits
<1>4. /\ w.rows = c.rows \union {a} /\ w.files = c.files \union {a.id}
      /\ w.made = s.made /\ w.open = s.open
  BY WithFields
<1>. HIDE DEF c, w
<1>5. \A b \in c.rows : b.id \in Nat /\ b.id <= m  BY <1>1, <1>2, StoreFields DEF Kept, StoreOk, Row
<1>6. a \notin c.rows  BY <1>5
<1>7. IsFiniteSet(w.rows) /\ Cardinality(w.rows) <= MaxArtifacts
  <2>1. IsFiniteSet(c.rows)  BY <1>2 DEF Kept, StoreOk
  <2>2. IsFiniteSet(w.rows) /\ Cardinality(w.rows) = Cardinality(c.rows) + 1
    <3>. DEFINE rows == c.rows
    <3>1. IsFiniteSet(rows) /\ a \notin rows /\ w.rows = rows \union {a}  BY <1>4, <1>6, <2>1
    <3>. HIDE DEF rows
    <3>2. IsFiniteSet(rows \union {a}) /\ Cardinality(rows \union {a}) = Cardinality(rows) + 1
      BY <3>1, FS_AddElement
    <3>. QED  BY <3>1, <3>2 DEF rows
  <2>3. Cardinality(c.rows) \in Nat  BY <2>1, FS_CardinalityType
  <2>. QED  BY <1>3, <2>2, <2>3, LimitsAreCounts
<1>8. Ids(w) = Ids(c) \union {m + 1}  BY <1>4 DEF Ids
<1>9. s.made
  <2>1. StoreOk(s, m)  BY DEF Kept
  <2>. QED  BY <1>3, <2>1 DEF StoreOk, Unmade
<1>10. \A b \in w.rows : b.id <= m + 1  BY <1>4, <1>5
<1>11. \A b, d \in w.rows : b.id = d.id => b = d  BY <1>2, <1>4, <1>5 DEF Kept, StoreOk
<1>12. w.files = Ids(w)
  <2>1. c.files = Ids(c)  BY <1>1, <1>2, <1>3 DEF Kept, StoreOk
  <2>. QED  BY <1>4, <1>8, <2>1
<1>13. StoreOk(w, m + 1)  BY <1>3, <1>4, <1>7, <1>9, <1>10, <1>11, <1>12 DEF StoreOk
<1>. QED  BY <1>8, <1>13 DEF w, c

\* A put of what is no output changes nothing for the run.
LEMMA KeptMore ==
  ASSUME NEW s \in StoreType, NEW r \in RunType, NEW m \in Nat, Kept(s, r, m), Fits(s),
         NEW a \in Row, a.id = m + 1
  PROVE  Kept(With(s, a), r, m + 1)
<1>. DEFINE c == Cleaned(s)
            w == With(s, a)
<1>1. StoreOk(w, m + 1) /\ Ids(w) = Ids(c) \union {m + 1}  BY StoreMore
<1>2. Kept(c, r, m) /\ c.made = s.made /\ c.open = s.open  BY KeptCleaned, CleanedFields
<1>3. w.rows = c.rows \union {a} /\ w.made = s.made /\ w.open = s.open  BY WithFields
<1>. HIDE DEF c, w
<1>4. \A i \in r.outs : i \in Nat /\ i <= m  BY <1>2 DEF Kept, RunOk, RunType
<1>5. a.id \notin r.outs /\ m + 1 \notin r.outs  BY <1>4
<1>6. RunOk(w, r, m + 1)
  <2>1. RunOk(c, r, m)  BY <1>2 DEF Kept
  <2>2. \A i \in r.outs : i <= m + 1  BY <1>4
  <2>3. \A b \in w.rows : b.id \in r.outs =>
          b.owner = "run" /\ b.life = "session" /\ (b.expired => b.id \in r.lapsed)
    BY <1>3, <1>5, <2>1 DEF RunOk
  <2>4. r.pc \in {"failed", "cancelled"} => r.outs \intersect Ids(w) = {}
    BY <1>1, <1>5, <2>1 DEF RunOk
  <2>5. r.pc \in {"running", "succeeded"} /\ w.open => r.outs \subseteq Ids(w) \union r.lapsed
    BY <1>1, <1>2, <1>3, <2>1 DEF RunOk
  <2>. QED  BY <1>2, <1>3, <2>1, <2>2, <2>3, <2>4, <2>5 DEF RunOk
<1>. QED  BY <1>1, <1>6 DEF Kept, w

\* A put of an output.
LEMMA KeptOutput ==
  ASSUME NEW s \in StoreType, NEW r \in RunType, NEW m \in Nat, Kept(s, r, m), Fits(s), r.pc = "running",
         NEW a \in Row, a.id = m + 1, a.owner = "run", a.life = "session", ~a.expired,
         NEW n \in RunType, n.pc = "running", n.outs = r.outs \union {m + 1}, n.lapsed = r.lapsed
  PROVE  Kept(With(s, a), n, m + 1)
<1>. DEFINE w == With(s, a)
<1>1. Kept(w, r, m + 1) /\ Ids(w) = Ids(Cleaned(s)) \union {m + 1}  BY KeptMore, StoreMore
<1>2. w.rows = Cleaned(s).rows \union {a} /\ w.made = s.made  BY WithFields
<1>3. \A b \in Cleaned(s).rows : b.id # m + 1
  <2>1. Cleaned(s) \in StoreType /\ StoreOk(Cleaned(s), m)  BY KeptCleaned, CleanedFields DEF Kept
  <2>2. \A b \in Cleaned(s).rows : b.id \in Nat /\ b.id <= m  BY <2>1, StoreFields DEF StoreOk, Row
  <2>. QED  BY <2>2
<1>4. \A i \in r.outs : i <= m + 1  BY <1>1 DEF Kept, RunOk
<1>. HIDE DEF w
<1>5. RunOk(w, r, m + 1)  BY <1>1 DEF Kept
<1>6. \A i \in n.outs : i <= m + 1  BY <1>4
<1>7. \A b \in w.rows : b.id \in n.outs =>
        b.owner = "run" /\ b.life = "session" /\ (b.expired => b.id \in n.lapsed)
  BY <1>2, <1>3, <1>5 DEF RunOk
<1>8. w.open => n.outs \subseteq Ids(w) \union n.lapsed  BY <1>1, <1>5 DEF RunOk
<1>9. w.made  BY <1>5 DEF RunOk
<1>10. RunOk(w, n, m + 1)  BY <1>6, <1>7, <1>8, <1>9 DEF RunOk
<1>. QED  BY <1>1, <1>10 DEF Kept, w

\* The end of a run.
LEMMA KeptFinished ==
  ASSUME NEW s \in StoreType, NEW r \in RunType, NEW m \in Nat, Kept(s, r, m), r.pc = "running",
         NEW end \in {"succeeded", "failed", "cancelled"}, NEW lives,
         lives = IF end = "succeeded" THEN {"ephemeral"} ELSE {"ephemeral", "session"},
         NEW n \in RunType, n.pc = end, n.outs = r.outs, n.lapsed = r.lapsed
  PROVE  Kept(IF s.open THEN DeleteOwner(s, "run", lives) ELSE s, n, m)
<1>. DEFINE own == {a \in s.rows : a.owner = "run" /\ a.life \in lives}
            g   == own \union {a \in s.rows : a.expired}
            w   == Without(s, g)
<1>0. StoreOk(s, m) /\ RunOk(s, r, m)  BY DEF Kept
<1>1. CASE ~s.open
  <2>1. Ids(s) = {}  BY <1>0, <1>1 DEF StoreOk, Ids
  <2>2. RunOk(s, n, m)  BY <1>0, <1>1, <2>1 DEF RunOk
  <2>. QED  BY <1>0, <1>1, <2>2 DEF Kept
<1>2. CASE s.open
  <2>1. g \in SUBSET s.rows /\ DeleteOwner(s, "run", lives) = w  BY OwnerFields
  <2>2. StoreOk(w, m) /\ Ids(w) = Ids(s) \ {a.id : a \in g}  BY <1>0, <2>1, StoreLess
  <2>3. w.rows = s.rows \ g /\ w.made = s.made /\ w.open = s.open  BY <2>1, WithoutFields
  <2>. HIDE DEF w
  <2>4. CASE end = "succeeded"
    <3>1. \A a \in own : a.life = "ephemeral"  BY <2>4
    <3>2. \A a \in g : a.id \in r.outs => a.id \in r.lapsed  BY <1>0, <3>1 DEF RunOk
    <3>. HIDE DEF g
    <3>3. RunOk(w, n, m)  BY <1>0, <2>1, <2>2, <2>3, <2>4, <3>2 DEF RunOk
    <3>. QED  BY <1>2, <2>1, <2>2, <3>3 DEF Kept
  <2>5. CASE end # "succeeded"
    <3>1. \A a \in s.rows : a.id \in r.outs => a \in g  BY <1>0, <2>5 DEF RunOk
    <3>. HIDE DEF g
    <3>2. r.outs \intersect Ids(w) = {}
      <4>1. \A i \in r.outs : i \in Ids(s) => i \in {a.id : a \in g}  BY <3>1 DEF Ids
      <4>. QED  BY <2>2, <4>1
    <3>3. RunOk(w, n, m)  BY <1>0, <2>3, <2>5, <3>2 DEF RunOk
    <3>. QED  BY <1>2, <2>1, <2>2, <3>3 DEF Kept
  <2>. QED  BY <2>4, <2>5
<1>. QED  BY <1>1, <1>2

\* A store that is made when it is asked for is empty.
LEMMA KeptGot ==
  ASSUME Types, Stores, NEW p \in Proc
  PROVE  Kept(Got(p), run[p], made)
<1>1. Kept(store[p], run[p], made)  BY DEF Stores
<1>2. CASE store[p].made  BY <1>1, <1>2 DEF Got
<1>3. CASE ~store[p].made
  <2>. DEFINE t == Made(proc[p] \in {"closed", "owner"})
  <2>1. t.rows = {} /\ t.files = {} /\ t.made /\ t.open  BY DEF Made
  <2>2. Got(p) = t  BY <1>3 DEF Got
  <2>. HIDE DEF t
  <2>3. run[p].pc = "none" /\ run[p].outs = {}  BY <1>1, <1>3 DEF Kept, RunOk
  <2>4. StoreOk(t, made)
    <3>1. IsFiniteSet(t.rows) /\ Cardinality(t.rows) <= MaxArtifacts
      BY <2>1, FS_EmptySet, LimitsAreCounts
    <3>. QED  BY <2>1, <3>1 DEF StoreOk, Ids
  <2>5. RunOk(t, run[p], made)  BY <2>1, <2>3 DEF RunOk
  <2>. QED  BY <2>2, <2>4, <2>5 DEF Kept
<1>. QED  BY <1>2, <1>3

\* A run begins without outputs.
LEMMA KeptBegun ==
  ASSUME NEW s, NEW r, NEW m, Kept(s, r, m), s.made, r.pc = "none",
         NEW n, n.pc = "running", n.outs = r.outs, n.lapsed = r.lapsed
  PROVE  Kept(s, n, m)
BY DEF Kept, RunOk

\* A run is asked to end, or is lost with its process; an output of it lapses.
Follows(r, n) ==
  /\ n.pc = IF r.pc = "running" /\ n.pc # "running" THEN "lost" ELSE r.pc
  /\ n.outs = r.outs /\ r.lapsed \subseteq n.lapsed

\* What follows on a run leaves its outputs where they are.
LEMMA KeptRun ==
  ASSUME NEW s, NEW r, NEW m, Kept(s, r, m), NEW n, Follows(r, n)
  PROVE  Kept(s, n, m)
<1>1. StoreOk(s, m) /\ RunOk(s, r, m)  BY DEF Kept
<1>2. n.outs = r.outs /\ r.lapsed \subseteq n.lapsed  BY DEF Follows
<1>3. CASE n.pc = r.pc  BY <1>1, <1>2, <1>3 DEF Kept, RunOk
<1>4. CASE r.pc = "running" /\ n.pc = "lost"  BY <1>1, <1>2, <1>4 DEF Kept, RunOk
<1>. QED  BY <1>3, <1>4 DEF Follows

\* A store that is closed owes nothing to the run.
LEMMA KeptShut ==
  ASSUME NEW s \in StoreType, NEW r, NEW m, Kept(s, r, m), s.made
  PROVE  Kept(Shut(s), r, m)
<1>. DEFINE t == Shut(s)
<1>1. t.made /\ ~t.open /\ t.rows = {}  BY ShutFields
<1>. HIDE DEF t
<1>2. IsFiniteSet(t.rows) /\ Cardinality(t.rows) <= MaxArtifacts
  BY <1>1, FS_EmptySet, LimitsAreCounts
<1>3. StoreOk(t, m)  BY <1>1, <1>2 DEF StoreOk
<1>4. RunOk(t, r, m)  BY <1>1 DEF Kept, RunOk, Ids
<1>. QED  BY <1>3, <1>4 DEF Kept, t

\* A row whose lifetime is over.
LEMMA KeptExpired ==
  ASSUME NEW s \in StoreType, NEW r \in RunType, NEW m, Kept(s, r, m),
         NEW a \in s.rows, NEW late, late = [a EXCEPT !.expired = TRUE],
         NEW t, t = [s EXCEPT !.rows = (s.rows \ {a}) \union {late}],
         NEW n \in RunType, n.pc = r.pc, n.outs = r.outs,
         n.lapsed = r.lapsed \union (r.outs \intersect {a.id})
  PROVE  Kept(t, n, m)
<1>1. /\ late.id = a.id /\ late.owner = a.owner /\ late.life = a.life /\ late.expired
      /\ a.id \in Nat
  BY StoreFields DEF Row
<1>2. /\ t.rows = (s.rows \ {a}) \union {late} /\ t.files = s.files /\ t.open = s.open /\ t.made = s.made
  BY DEF StoreType
<1>3. StoreOk(s, m) /\ RunOk(s, r, m)  BY DEF Kept
<1>4. s.open /\ s.made  BY <1>3 DEF StoreOk, Unmade
<1>5. Ids(t) = Ids(s)
  <2>1. \A i \in Ids(t) : i \in Ids(s)
    <3>. SUFFICES ASSUME NEW b \in t.rows PROVE b.id \in Ids(s)  BY DEF Ids
    <3>1. CASE b = late  BY <1>1, <3>1 DEF Ids
    <3>2. CASE b \in s.rows  BY <3>2 DEF Ids
    <3>. QED  BY <1>2, <3>1, <3>2
  <2>2. \A i \in Ids(s) : i \in Ids(t)
    <3>. SUFFICES ASSUME NEW b \in s.rows PROVE b.id \in Ids(t)  BY DEF Ids
    <3>1. CASE b = a
      <4>1. late \in t.rows /\ b.id = late.id  BY <1>1, <1>2, <3>1
      <4>. QED  BY <4>1 DEF Ids
    <3>2. CASE b # a
      <4>1. b \in t.rows  BY <1>2, <3>2
      <4>. QED  BY <4>1 DEF Ids
    <3>. QED  BY <3>1, <3>2
  <2>. QED  BY <2>1, <2>2
<1>6. IsFiniteSet(t.rows) /\ Cardinality(t.rows) <= MaxArtifacts
  <2>. DEFINE rows == s.rows
              rest == rows \ {a}
  <2>1. IsFiniteSet(rows) /\ Cardinality(rows) <= MaxArtifacts /\ a \in rows  BY <1>3 DEF StoreOk
  <2>. HIDE DEF rows
  <2>2. IsFiniteSet(rest) /\ Cardinality(rest) = Cardinality(rows) - 1  BY <2>1, FS_RemoveElement
  <2>3. t.rows = rest \union {late}  BY <1>2 DEF rows
  <2>. HIDE DEF rest
  <2>4. /\ IsFiniteSet(rest \union {late})
        /\ \/ Cardinality(rest \union {late}) = Cardinality(rest)
           \/ Cardinality(rest \union {late}) = Cardinality(rest) + 1
    BY <2>2, FS_AddElement
  <2>5. Cardinality(rows) \in Nat /\ Cardinality(rest) \in Nat  BY <2>1, <2>2, FS_CardinalityType
  <2>. QED  BY <2>1, <2>2, <2>3, <2>4, <2>5, LimitsAreCounts
<1>7. \A b \in t.rows : b.id <= m  BY <1>1, <1>2, <1>3 DEF StoreOk
<1>8. \A b, d \in t.rows : b.id = d.id => b = d
  <2>. DEFINE rest == s.rows \ {a}
  <2>1. \A b \in rest : b.id # late.id  BY <1>1, <1>3 DEF StoreOk
  <2>2. \A b, d \in rest : b.id = d.id => b = d  BY <1>3 DEF StoreOk
  <2>3. t.rows = rest \union {late}  BY <1>2
  <2>. HIDE DEF rest
  <2>. QED  BY <2>1, <2>2, <2>3
<1>9. StoreOk(t, m)  BY <1>2, <1>3, <1>4, <1>5, <1>6, <1>7, <1>8 DEF StoreOk
<1>10. \A b \in t.rows : b.id \in n.outs =>
         b.owner = "run" /\ b.life = "session" /\ (b.expired => b.id \in n.lapsed)
  <2>. SUFFICES ASSUME NEW b \in t.rows, b.id \in n.outs
                PROVE  b.owner = "run" /\ b.life = "session" /\ (b.expired => b.id \in n.lapsed)
    OBVIOUS
  <2>1. CASE b = late  BY <1>1, <1>3, <2>1 DEF RunOk
  <2>2. CASE b \in s.rows  BY <1>3, <2>2 DEF RunOk
  <2>. QED  BY <1>2, <2>1, <2>2
<1>11. RunOk(t, n, m)  BY <1>2, <1>3, <1>4, <1>5, <1>10 DEF RunOk
<1>. QED  BY <1>9, <1>11 DEF Kept

\* Only one process's artifacts change in a step.
LEMMA StoresFrame ==
  ASSUME Types, Types', Stores, NEW p \in Proc, made <= made',
         \A q \in Proc \ {p} : store'[q] = store[q] /\ run'[q] = run[q],
         Kept(store'[p], run'[p], made')
  PROVE  Stores'
<1>1. ASSUME NEW q \in Proc PROVE Kept(store'[q], run'[q], made')
  <2>1. CASE q = p  BY <2>1
  <2>2. CASE q # p
    <3>1. store[q] \in StoreType /\ run[q] \in RunType /\ made \in Nat /\ made' \in Nat
      BY DEF Types, DataTypes
    <3>2. Kept(store[q], run[q], made)  BY DEF Stores
    <3>3. Kept(store[q], run[q], made')  BY <3>1, <3>2, KeptLater
    <3>. QED  BY <2>2, <3>3
  <2>. QED  BY <2>1, <2>2
<1>. QED  BY <1>1 DEF Stores

\* The artifacts are what they should be after every step.
LEMMA ProcessStores ==
  ASSUME Types, Types', Stores, NEW p \in Proc, Start(p) \/ Crash(p) \/ ProcessStep(p)
  PROVE  Stores'
<1>0. /\ store \in [Proc -> StoreType] /\ store[p] \in StoreType /\ made \in Nat
      /\ run \in [Proc -> RunType] /\ run[p] \in RunType /\ run'[p] \in RunType
  BY DEF Types, DataTypes
<1>1. Kept(store[p], run[p], made)  BY DEF Stores
<1>2. ASSUME NEW cause \in Ending, Ends(p, cause) PROVE Stores'
  <2>1. /\ store' = store /\ made' = made
        /\ \A q \in Proc \ {p} : run'[q] = run[q]
        /\ run'[p].pc = IF run[p].pc = "running" THEN "lost" ELSE run[p].pc
        /\ run'[p].outs = run[p].outs /\ run'[p].lapsed = run[p].lapsed
    BY <1>2, EndsFacts DEF Ends
  <2>2. Follows(run[p], run'[p])  BY <2>1 DEF Follows
  <2>3. Kept(store[p], run'[p], made)  BY <1>1, <2>2, KeptRun
  <2>. QED  BY <1>0, <2>1, <2>3, StoresFrame
<1>3. ASSUME UNCHANGED <<store, run, made>> PROVE Stores'
  BY <1>3 DEF Stores
<1>4. CASE CloseRuns(p)
  <2>. DEFINE x == run[p].cancel \/ run[p].pc = "running"
              n == [run[p] EXCEPT !.cancel = x]
  <2>1. /\ x \in BOOLEAN /\ run' = [run EXCEPT ![p] = n]
        /\ store' = store /\ made' = made
    BY <1>4 DEF CloseRuns
  <2>. HIDE DEF x
  <2>2. Follows(run[p], n)  BY <1>0, <2>1, RunIsAsked DEF Follows
  <2>. HIDE DEF n
  <2>3. run'[p] = n /\ \A q \in Proc \ {p} : run'[q] = run[q]  BY <1>0, <2>1
  <2>4. Kept(store[p], n, made)  BY <1>1, <2>2, KeptRun
  <2>. QED  BY <1>0, <2>1, <2>3, <2>4, StoresFrame
<1>5. CASE CloseStore(p)
  <2>. DEFINE t == IF store[p].made THEN Shut(store[p]) ELSE store[p]
  <2>1. store' = [store EXCEPT ![p] = t] /\ run' = run /\ made' = made  BY <1>5 DEF CloseStore
  <2>2. Kept(t, run[p], made)  BY <1>0, <1>1, KeptShut
  <2>. HIDE DEF t
  <2>3. store'[p] = t /\ \A q \in Proc \ {p} : store'[q] = store[q]  BY <1>0, <2>1
  <2>. QED  BY <1>0, <2>1, <2>2, <2>3, StoresFrame
<1>6. CASE Start(p) \/ Mark(p) \/ Serve(p) \/ LoopEnds(p) \/ CloseSocket(p) \/ RunsAreClosed(p)
  BY <1>3, <1>6 DEF Start, Mark, Serve, LoopEnds, CloseSocket, RunsAreClosed, data
<1>7. CASE Crash(p)  BY <1>2, <1>7 DEF Crash, Ending
<1>8. CASE ReadMarker(p)  BY <1>2, <1>3, <1>8 DEF ReadMarker, Ending, data
<1>9. CASE Unmark(p)  BY <1>2, <1>9 DEF Unmark, Ending
<1>. QED  BY <1>4, <1>5, <1>6, <1>7, <1>8, <1>9 DEF ProcessStep

\* They are after a step of the command that stops a process,
LEMMA StopStores ==
  ASSUME Types, Types', Stores, NEW s \in Stopper, ReadPid(s) \/ StopStep(s)
  PROVE  Stores'
<1>1. ASSUME UNCHANGED <<store, run, made>> PROVE Stores'
  BY <1>1 DEF Stores
<1>2. CASE Signal(s)
  <2>. DEFINE p == stopping[s].pid
  <2>1. CASE Alive(p) /\ ~Serves(p)
    <3>1. Ends(p, "killed")  BY <1>2, <2>1 DEF Signal
    <3>2. CASE p \in Proc
      <4>1. PICK q \in Proc : q = p  BY <3>2
      <4>. Ends(q, "killed")  BY <3>1, <4>1
      <4>2. /\ store' = store /\ made' = made
            /\ \A t \in Proc \ {q} : run'[t] = run[t]
            /\ run'[q].pc = IF run[q].pc = "running" THEN "lost" ELSE run[q].pc
            /\ run'[q].outs = run[q].outs /\ run'[q].lapsed = run[q].lapsed
        BY EndsFacts DEF Ends, Ending
      <4>3. Kept(store[q], run[q], made) /\ Follows(run[q], run'[q])  BY <4>2 DEF Stores, Follows
      <4>4. Kept(store[q], run'[q], made)  BY <4>3, KeptRun
      <4>5. made <= made'  BY <4>2 DEF Types, DataTypes
      <4>. QED  BY <4>2, <4>4, <4>5, StoresFrame
    <3>3. CASE p \notin Proc
      <4>1. UNCHANGED <<store, run, made>>  BY <3>1, <3>3 DEF Ends, Types, DataTypes
      <4>. QED  BY <1>1, <4>1
    <3>. QED  BY <3>2, <3>3
  <2>2. CASE ~(Alive(p) /\ ~Serves(p))  BY <1>1, <1>2, <2>2 DEF Signal, data
  <2>. QED  BY <2>1, <2>2
<1>3. CASE ReadPid(s) \/ CheckPid(s) \/ Wait(s) \/ ReadStale(s) \/ UnlinkStale(s)
  BY <1>1, <1>3 DEF ReadPid, CheckPid, Wait, ReadStale, UnlinkStale, data
<1>. QED  BY <1>2, <1>3 DEF StopStep

\* after one of a run or of time,
LEMMA RunStores ==
  ASSUME Types, Types', Stores, NEW p \in Proc,
         Expire(p) \/ CreateRun(p) \/ CancelRun(p) \/ StoreOutput(p) \/ EndRun(p)
  PROVE  Stores'
<1>0. /\ store \in [Proc -> StoreType] /\ store[p] \in StoreType /\ made \in Nat
      /\ run \in [Proc -> RunType] /\ run[p] \in RunType /\ run'[p] \in RunType
  BY DEF Types, DataTypes
<1>1. Kept(store[p], run[p], made)  BY DEF Stores
<1>2. CASE Expire(p)
  <2>1. PICK a \in store[p].rows :
          /\ store' = [store EXCEPT ![p].rows = (@ \ {a}) \union {[a EXCEPT !.expired = TRUE]}]
          /\ run' = Lapse(p, a.id)
    BY <1>2 DEF Expire
  <2>. DEFINE late == [a EXCEPT !.expired = TRUE]
              t == [store[p] EXCEPT !.rows = (store[p].rows \ {a}) \union {late}]
  <2>2. a.id \in Nat  BY <1>0, StoreFields DEF Row
  <2>3. /\ run'[p].pc = run[p].pc /\ run'[p].outs = run[p].outs
        /\ run'[p].lapsed = run[p].lapsed \union (run[p].outs \intersect {a.id})
        /\ \A q \in Proc \ {p} : run'[q] = run[q]
    BY <2>1, <2>2, LapseFacts DEF Types
  <2>4. store' = [store EXCEPT ![p] = t]  BY <2>1
  <2>5. Kept(t, run'[p], made)  BY <1>0, <1>1, <2>3, KeptExpired
  <2>. HIDE DEF t
  <2>6. store'[p] = t /\ \A q \in Proc \ {p} : store'[q] = store[q]  BY <1>0, <2>4
  <2>7. made' = made  BY <1>2 DEF Expire
  <2>. QED  BY <1>0, <2>3, <2>5, <2>6, <2>7, StoresFrame
<1>3. CASE CreateRun(p)
  <2>. DEFINE t == Got(p)
              n == [run[p] EXCEPT !.pc = "running"]
  <2>1. store' = [store EXCEPT ![p] = t] /\ run' = [run EXCEPT ![p] = n] /\ made' = made /\ run[p].pc = "none"
    BY <1>3 DEF CreateRun
  <2>2. Kept(t, run[p], made) /\ t.made  BY KeptGot DEF Got, Made
  <2>3. n.pc = "running" /\ n.outs = run[p].outs /\ n.lapsed = run[p].lapsed  BY <1>0, RunMoves
  <2>. HIDE DEF t, n
  <2>4. Kept(t, n, made)  BY <2>1, <2>2, <2>3, KeptBegun
  <2>5. /\ store'[p] = t /\ run'[p] = n
        /\ \A q \in Proc \ {p} : store'[q] = store[q] /\ run'[q] = run[q]
    BY <1>0, <2>1
  <2>. QED  BY <1>0, <2>1, <2>4, <2>5, StoresFrame
<1>4. CASE CancelRun(p)
  <2>. DEFINE n == [run[p] EXCEPT !.cancel = TRUE]
  <2>1. store' = store /\ run' = [run EXCEPT ![p] = n] /\ made' = made  BY <1>4 DEF CancelRun
  <2>2. Follows(run[p], n)  BY <1>0, RunIsAsked DEF Follows
  <2>. HIDE DEF n
  <2>3. run'[p] = n /\ \A q \in Proc \ {p} : run'[q] = run[q]  BY <1>0, <2>1
  <2>4. Kept(store[p], n, made)  BY <1>1, <2>2, KeptRun
  <2>. QED  BY <1>0, <2>1, <2>3, <2>4, StoresFrame
<1>5. ASSUME NEW end \in {"succeeded", "failed", "cancelled"}, Finish(p, end), run[p].pc = "running", made' = made
      PROVE  Stores'
  <2>. DEFINE lives == IF end = "succeeded" THEN {"ephemeral"} ELSE {"ephemeral", "session"}
  <2>1. /\ \A q \in Proc \ {p} : run'[q] = run[q] /\ store'[q] = store[q]
        /\ run'[p].pc = end /\ run'[p].outs = run[p].outs /\ run'[p].lapsed = run[p].lapsed
        /\ store'[p] = IF store[p].open THEN DeleteOwner(store[p], "run", lives) ELSE store[p]
    BY <1>5, FinishFacts DEF Types
  <2>2. PICK l : l = lives  OBVIOUS
  <2>. HIDE DEF lives
  <2>3. Kept(IF store[p].open THEN DeleteOwner(store[p], "run", l) ELSE store[p], run'[p], made)
    BY <1>0, <1>1, <1>5, <2>1, <2>2, KeptFinished DEF lives
  <2>4. Kept(store'[p], run'[p], made)  BY <2>1, <2>2, <2>3
  <2>. QED  BY <1>0, <1>5, <2>1, <2>4, StoresFrame
<1>6. CASE StoreOutput(p) /\ Fits(store[p])
  <2>. DEFINE a == Artifact("run", "session")
              o == run[p].outs \union {a.id}
              n == [run[p] EXCEPT !.outs = o]
              t == With(store[p], a)
  <2>1. /\ store' = [store EXCEPT ![p] = t] /\ made' = made + 1 /\ run' = [run EXCEPT ![p] = n]
        /\ run[p].pc = "running"
    BY <1>6 DEF StoreOutput
  <2>2. a \in Row /\ a.id = made + 1 /\ ~a.expired /\ a.owner = "run" /\ a.life = "session"
    BY <1>0, ArtifactType
  <2>. HIDE DEF a
  <2>3. o \in SUBSET Nat /\ o = run[p].outs \union {made + 1}  BY <1>0, <2>2 DEF RunType
  <2>. HIDE DEF o
  <2>4. n \in RunType /\ n.pc = "running" /\ n.outs = o /\ n.lapsed = run[p].lapsed
    BY <1>0, <2>1, <2>3, RunMakes
  <2>. HIDE DEF n
  <2>5. n.outs = run[p].outs \union {made + 1}  BY <2>3, <2>4
  <2>6. Kept(t, n, made + 1)  BY <1>0, <1>1, <1>6, <2>1, <2>2, <2>4, <2>5, KeptOutput
  <2>. HIDE DEF t
  <2>7. /\ store'[p] = t /\ run'[p] = n
        /\ \A q \in Proc \ {p} : store'[q] = store[q] /\ run'[q] = run[q]
    BY <1>0, <2>1
  <2>8. made <= made' /\ Kept(store'[p], run'[p], made')  BY <1>0, <2>1, <2>6, <2>7
  <2>. QED  BY <2>7, <2>8, StoresFrame
<1>7. CASE StoreOutput(p) /\ ~Fits(store[p])  BY <1>5, <1>7 DEF StoreOutput
<1>8. CASE EndRun(p)  BY <1>5, <1>8 DEF EndRun
<1>. QED  BY <1>2, <1>3, <1>4, <1>6, <1>7, <1>8

\* and after one of a request.
LEMMA RequestStores ==
  ASSUME Types, Types', Stores, NEW r \in Request, RequestStep(r)
  PROVE  Stores'
<1>1. request[r] # None
  BY DEF RequestStep, At, Submit, Timeout, Lock, Upload, Envelope, Content, Delete
<1>2. PICK p \in Proc : p = request[r].proc  BY <1>1, RequestFields DEF Types
<1>3. /\ store \in [Proc -> StoreType] /\ store[p] \in StoreType /\ made \in Nat
      /\ run \in [Proc -> RunType] /\ run[p] \in RunType /\ run'[p] \in RunType
  BY DEF Types, DataTypes
<1>4. Kept(store[p], run[p], made) /\ Kept(Tidied(store[p]), run[p], made)
  BY <1>3, KeptCleaned DEF Stores
<1>5. ASSUME NEW t, store' = [store EXCEPT ![p] = t], run' = run, made' \in {made, made + 1},
             Kept(t, run[p], made')
      PROVE  Stores'
  <2>1. store'[p] = t /\ \A q \in Proc \ {p} : store'[q] = store[q]  BY <1>3, <1>5
  <2>2. made <= made'  BY <1>3, <1>5
  <2>. QED  BY <1>5, <2>1, <2>2, StoresFrame
<1>6. Kept(Got(p), run[p], made) /\ Got(p) \in StoreType  BY KeptGot, GotType DEF Types
<1>7. CASE Submit(r) \/ Timeout(r)
  <2>1. UNCHANGED <<store, run, made>>  BY <1>7 DEF Submit, Timeout, data
  <2>. QED  BY <2>1 DEF Stores
<1>8. CASE Lock(r)
  <2>1. store' = [store EXCEPT ![p] = Got(p)] /\ run' = run /\ made' = made  BY <1>2, <1>8 DEF Lock
  <2>. QED  BY <1>5, <1>6, <2>1
<1>9. CASE Upload(r)
  <2>1. run' = run  BY <1>9 DEF Upload
  <2>2. CASE UNCHANGED <<store, made>>  BY <2>1, <2>2 DEF Stores
  <2>3. CASE /\ Fits(store[p]) /\ made' = made + 1
             /\ \E owner \in {"chat", "run"}, life \in {"ephemeral", "session"} :
                  store' = [store EXCEPT ![p] = With(store[p], Artifact(owner, life))]
    <3>1. PICK owner \in {"chat", "run"} : \E life \in {"ephemeral", "session"} :
            store' = [store EXCEPT ![p] = With(store[p], Artifact(owner, life))]
      BY <2>3
    <3>2. PICK life \in {"ephemeral", "session"} :
            store' = [store EXCEPT ![p] = With(store[p], Artifact(owner, life))]
      BY <3>1
    <3>. DEFINE a == Artifact(owner, life)
    <3>3. a \in Row /\ a.id = made + 1 /\ store' = [store EXCEPT ![p] = With(store[p], a)]
      BY <1>3, <3>2, ArtifactType
    <3>. HIDE DEF a
    <3>4. Kept(With(store[p], a), run[p], made + 1)  BY <1>3, <1>4, <2>3, <3>3, KeptMore
    <3>. QED  BY <1>5, <2>1, <2>3, <3>3, <3>4
  <2>4. CASE store' = [store EXCEPT ![p] = Tidied(store[p])] /\ made' = made
    BY <1>4, <1>5, <2>1, <2>4
  <2>. QED  BY <1>2, <1>9, <2>2, <2>3, <2>4 DEF Upload
<1>10. CASE Envelope(r) \/ Content(r)
  <2>1. store' = [store EXCEPT ![p] = Tidied(store[p])] /\ run' = run /\ made' = made
    BY <1>2, <1>10 DEF Envelope, Content
  <2>. QED  BY <1>4, <1>5, <2>1
<1>11. CASE Delete(r)
  <2>1. made' = made  BY <1>11 DEF Delete
  <2>2. CASE store' = [store EXCEPT ![p] = Tidied(Got(p))] /\ run' = run
    <3>1. Kept(Tidied(Got(p)), run[p], made)  BY <1>3, <1>6, KeptCleaned
    <3>. QED  BY <1>5, <2>1, <2>2, <3>1
  <2>3. CASE \E a \in Tidied(Got(p)).rows :
               /\ store' = [store EXCEPT ![p] = Without(Cleaned(store[p]), {a})]
               /\ run' = Lapse(p, a.id)
    <3>1. PICK a \in Tidied(Got(p)).rows :
            /\ store' = [store EXCEPT ![p] = Without(Cleaned(store[p]), {a})]
            /\ run' = Lapse(p, a.id)
      BY <2>3
    <3>2. a \in store[p].rows
      <4>1. a \in Got(p).rows  BY <1>6, <3>1, CleanedFields DEF Tidied
      <4>2. store[p].made  BY <4>1 DEF Got, Made
      <4>. QED  BY <4>1, <4>2 DEF Got
    <3>3. a.id \in Nat  BY <1>3, <3>2, StoreFields DEF Row
    <3>4. /\ run'[p].pc = run[p].pc /\ run'[p].outs = run[p].outs
          /\ run'[p].lapsed = run[p].lapsed \union (run[p].outs \intersect {a.id})
          /\ \A q \in Proc \ {p} : run'[q] = run[q]
      BY <3>1, <3>3, LapseFacts DEF Types
    <3>5. Kept(store[p], run'[p], made)
      <4>1. Follows(run[p], run'[p])  BY <3>4 DEF Follows
      <4>. QED  BY <1>4, <4>1, KeptRun
    <3>. DEFINE g == {a} \union {b \in store[p].rows : b.expired}
    <3>6. Without(Cleaned(store[p]), {a}) = Without(store[p], g)  BY <1>3, <3>2, Twice
    <3>7. g \in SUBSET store[p].rows  BY <3>2
    <3>8. \A b \in g : b.id \in run'[p].outs => b.id \in run'[p].lapsed
      <4>1. \A b \in store[p].rows : b.expired /\ b.id \in run'[p].outs => b.id \in run'[p].lapsed
        BY <3>5 DEF Kept, RunOk
      <4>2. a.id \in run'[p].outs => a.id \in run'[p].lapsed  BY <3>4
      <4>. QED  BY <4>1, <4>2
    <3>. HIDE DEF g
    <3>9. Kept(Without(store[p], g), run'[p], made)  BY <1>3, <3>5, <3>7, <3>8, KeptLess
    <3>. DEFINE t == Without(store[p], g)
    <3>10. store' = [store EXCEPT ![p] = t]  BY <3>1, <3>6
    <3>. HIDE DEF t
    <3>11. store'[p] = t /\ \A q \in Proc \ {p} : store'[q] = store[q]  BY <1>3, <3>10
    <3>12. Kept(store'[p], run'[p], made')  BY <2>1, <3>9, <3>11 DEF t
    <3>. QED  BY <1>3, <2>1, <3>4, <3>11, <3>12, StoresFrame
  <2>. QED  BY <1>2, <1>11, <2>2, <2>3 DEF Delete
<1>. QED  BY <1>7, <1>8, <1>9, <1>10, <1>11 DEF RequestStep

\* Stores and runs agree after every step.
LEMMA StoresStep == Types /\ Stores /\ [Next]_vars => Stores'
<1>. SUFFICES ASSUME Types, Stores, [Next]_vars PROVE Stores'  OBVIOUS
<1>1. Types'  BY TypesStep
<1>2. ASSUME UNCHANGED <<store, run, made>> PROVE Stores'
  BY <1>2 DEF Stores
<1>3. CASE UNCHANGED vars  BY <1>2, <1>3 DEF vars, data
<1>4. ASSUME NEW p \in Proc, NEW r \in Request, PoolReturns(p, r) \/ \E kind \in Kind : Arrive(r, p, kind)
      PROVE  Stores'
  BY <1>2, <1>4 DEF PoolReturns, Arrive, data
<1>. QED  BY <1>1, <1>3, <1>4, ProcessStores, StopStores, RunStores, RequestStores DEF Next

-----------------------------------------------------------------------------
(* The ways a server ends.                                                 *)

\* A store that was made too late to be closed, or one that has nothing left.
Bare(s) == s.late \/ (~s.open /\ ~s.root /\ s.files = {})

\* A run is lost only with a process that was killed; a server that closes its
\* store has no run; and from then on nothing is left of the store.
Closed(p) ==
  /\ run[p].pc = "lost" => proc[p] = "gone" /\ how[p] # "clean"
  /\ proc[p] \in {"runless", "closed", "owner"} => run[p].pc # "running"
  /\ proc[p] \in {"closed", "owner"} \/ how[p] = "clean" => Bare(store[p])
Closing == \A p \in Proc : Closed(p)

\* What an operation makes of a store.
LEMMA BareStays ==
  ASSUME NEW s \in StoreType, Bare(s)
  PROVE  /\ Bare(Tidied(s))
         /\ \A lives : s.open => Bare(DeleteOwner(s, "run", lives))
         /\ \A a \in Row : s.open => Bare(With(s, a))
         /\ \A a \in s.rows : Bare(Without(Cleaned(s), {a}))
<1>1. ASSUME NEW g \in SUBSET s.rows PROVE Bare(Without(s, g))
  <2>. DEFINE w == Without(s, g)
  <2>1. w.late = s.late /\ w.open = s.open /\ w.root = s.root /\ w.files = s.files \ {a.id : a \in g}
    BY WithoutFields
  <2>. HIDE DEF w
  <2>2. Bare(w)  BY <2>1 DEF Bare
  <2>. QED  BY <2>2 DEF w
<1>2. {a \in s.rows : a.expired} \in SUBSET s.rows  OBVIOUS
<1>3. Bare(Tidied(s))  BY <1>1, <1>2 DEF Tidied, Cleaned
<1>4. ASSUME NEW lives, s.open PROVE Bare(DeleteOwner(s, "run", lives))
  <2>. DEFINE g == {a \in s.rows : a.owner = "run" /\ a.life \in lives} \union {a \in s.rows : a.expired}
  <2>1. g \in SUBSET s.rows /\ DeleteOwner(s, "run", lives) = Without(s, g)  BY OwnerFields
  <2>. HIDE DEF g
  <2>. QED  BY <1>1, <2>1
<1>5. ASSUME NEW a \in Row, s.open PROVE Bare(With(s, a))
  <2>. DEFINE w == With(s, a)
  <2>1. w.late = s.late /\ w \in StoreType  BY WithFields
  <2>. HIDE DEF w
  <2>2. s.late  BY <1>5 DEF Bare
  <2>3. w.late  BY <2>1, <2>2, StoreFields
  <2>. QED  BY <2>3 DEF Bare, w
<1>6. ASSUME NEW a \in s.rows PROVE Bare(Without(Cleaned(s), {a}))
  <2>. DEFINE g == {a} \union {b \in s.rows : b.expired}
  <2>1. {a} \in SUBSET s.rows /\ g \in SUBSET s.rows  OBVIOUS
  <2>2. Without(Cleaned(s), {a}) = Without(s, g)  BY <2>1, Twice
  <2>. HIDE DEF g
  <2>. QED  BY <1>1, <2>1, <2>2
<1>. QED  BY <1>3, <1>4, <1>5, <1>6

\* The step changes no other process and its artifacts.
Alone(p) ==
  \A q \in Proc \ {p} :
    proc'[q] = proc[q] /\ how'[q] = how[q] /\ run'[q] = run[q] /\ store'[q] = store[q]

\* One process at a time.
LEMMA ClosingFrame ==
  ASSUME Closing, NEW p \in Proc, Alone(p), Closed(p)'
  PROVE  Closing'
BY DEF Closing, Closed, Alone

\* A step of requests and runs, which moves no process.
LEMMA ClosingData ==
  ASSUME Closing, NEW p \in Proc, Alone(p), proc' = proc, how' = how,
         run'[p].pc = "lost" => run[p].pc = "lost",
         run'[p].pc = "running" =>
           run[p].pc = "running" \/ proc[p] \notin {"runless", "closed", "owner"},
         proc[p] \in {"closed", "owner"} \/ how[p] = "clean" =>
           (Bare(store[p]) => Bare(store'[p]))
  PROVE  Closing'
<1>1. Closed(p)  BY DEF Closing
<1>2. Closed(p)'  BY <1>1 DEF Closed
<1>. QED  BY <1>2, ClosingFrame

\* The end of a process: killed, or after its store was closed.
LEMMA ClosingEnds ==
  ASSUME Types, Account, Closing, NEW p \in Proc, NEW cause \in Ending, Ends(p, cause),
         cause = "clean" => proc[p] \in {"closed", "owner"}
  PROVE  Closing'
<1>1. /\ proc'[p] = "gone" /\ how'[p] = cause /\ Alone(p)
      /\ run'[p].pc = (IF run[p].pc = "running" THEN "lost" ELSE run[p].pc)
      /\ store' = store
  <2>1. /\ proc'[p] = "gone" /\ \A q \in Proc \ {p} : proc'[q] = proc[q]
        /\ how'[p] = cause /\ \A q \in Proc \ {p} : how'[q] = how[q]
        /\ run'[p].pc = (IF run[p].pc = "running" THEN "lost" ELSE run[p].pc)
        /\ \A q \in Proc \ {p} : run'[q] = run[q]
    BY EndsFacts
  <2>2. store' = store  BY DEF Ends
  <2>. QED  BY <2>1, <2>2 DEF Alone
<1>2. Closed(p)  BY DEF Closing
<1>3. run'[p].pc = "lost" => cause # "clean"
  BY <1>1, <1>2 DEF Closed
<1>4. cause = "clean" => Bare(store[p])  BY <1>2 DEF Closed
<1>5. Closed(p)'  BY <1>1, <1>3, <1>4 DEF Closed
<1>. QED  BY <1>1, <1>5, ClosingFrame

\* The steps of a process end it as they should,
LEMMA ProcessClosing ==
  ASSUME Types, Account, Stores, Closing, NEW p \in Proc, Start(p) \/ Crash(p) \/ ProcessStep(p)
  PROVE  Closing'
<1>0. /\ proc \in [Proc -> Phase] /\ how \in [Proc -> Ending \union {None}]
      /\ store \in [Proc -> StoreType] /\ store[p] \in StoreType
      /\ run \in [Proc -> RunType] /\ run[p] \in RunType
  BY DEF Types, ProcessTypes, DataTypes
<1>1. Closed(p) /\ (how[p] # None <=> proc[p] = "gone")  BY DEF Closing, Account, Hows
<1>2. ASSUME NEW x \in Phase, proc' = [proc EXCEPT ![p] = x], how' = how, run' = run, store' = store,
             x \notin {"gone", "closed", "owner"}, proc[p] # "gone",
             x = "runless" => run[p].pc # "running"
      PROVE  Closing'
  <2>1. Alone(p) /\ proc'[p] = x  BY <1>0, <1>2 DEF Alone
  <2>2. how[p] # "clean"  BY <1>1, <1>2, NoneIsNothing DEF Ending
  <2>3. run[p].pc # "lost"  BY <1>1, <1>2 DEF Closed
  <2>4. Closed(p)'  BY <1>2, <2>1, <2>2, <2>3 DEF Closed
  <2>. QED  BY <2>1, <2>4, ClosingFrame
<1>3. CASE Start(p)
  <2>1. run' = run /\ store' = store /\ proc[p] = "off"  BY <1>3 DEF Start, data
  <2>2. CASE PortIsFree  BY <1>2, <1>3, <2>1, <2>2 DEF Start, Phase
  <2>3. CASE ~PortIsFree
    <3>1. Alone(p) /\ proc'[p] = "gone" /\ how'[p] = "refused"  BY <1>0, <1>3, <2>1, <2>3 DEF Start, Alone
    <3>2. Closed(p)'  BY <3>1 DEF Closed
    <3>. QED  BY <3>1, <3>2, ClosingFrame
  <2>. QED  BY <2>2, <2>3
<1>4. CASE Crash(p)  BY <1>4, ClosingEnds DEF Crash, Ending
<1>5. CASE Mark(p)  BY <1>2, <1>5 DEF Mark, Goes, Phase, data
<1>6. CASE Serve(p)  BY <1>2, <1>6 DEF Serve, Goes, Phase, data
<1>7. CASE LoopEnds(p)  BY <1>2, <1>7 DEF LoopEnds, Goes, Phase, data
<1>8. CASE CloseSocket(p)  BY <1>2, <1>8 DEF CloseSocket, Goes, Phase, data
<1>9. CASE CloseRuns(p)
  <2>. DEFINE x == run[p].cancel \/ run[p].pc = "running"
              n == [run[p] EXCEPT !.cancel = x]
  <2>1. /\ x \in BOOLEAN /\ run' = [run EXCEPT ![p] = n] /\ store' = store /\ how' = how
        /\ proc' = [proc EXCEPT ![p] = "ending"] /\ proc[p] = "unbound"
    BY <1>9 DEF CloseRuns, Goes
  <2>. HIDE DEF x
  <2>2. n.pc = run[p].pc  BY <1>0, <2>1, RunIsAsked
  <2>. HIDE DEF n
  <2>3. Alone(p) /\ run'[p].pc = run[p].pc /\ proc'[p] = "ending"  BY <1>0, <2>1, <2>2 DEF Alone
  <2>4. how[p] # "clean"  BY <1>1, <2>1, NoneIsNothing DEF Ending
  <2>5. Closed(p)'  BY <1>1, <2>1, <2>3, <2>4 DEF Closed
  <2>. QED  BY <2>3, <2>5, ClosingFrame
<1>10. CASE RunsAreClosed(p)  BY <1>2, <1>10 DEF RunsAreClosed, Goes, Phase, data
<1>11. CASE CloseStore(p)
  <2>. DEFINE t == IF store[p].made THEN Shut(store[p]) ELSE store[p]
  <2>1. /\ store' = [store EXCEPT ![p] = t] /\ run' = run /\ how' = how
        /\ proc' = [proc EXCEPT ![p] = "closed"] /\ proc[p] = "runless"
    BY <1>11 DEF CloseStore, Goes
  <2>2. Bare(t)
    <3>1. CASE store[p].made
      <4>1. ~Shut(store[p]).open /\ ~Shut(store[p]).root /\ Shut(store[p]).files = {}  BY <1>0, ShutFields
      <4>. QED  BY <3>1, <4>1 DEF Bare
    <3>2. CASE ~store[p].made
      <4>1. store[p] = Unmade  BY <3>2 DEF Stores, Kept, StoreOk
      <4>. QED  BY <3>2, <4>1 DEF Bare, Unmade
    <3>. QED  BY <3>1, <3>2
  <2>. HIDE DEF t
  <2>3. Alone(p) /\ store'[p] = t /\ proc'[p] = "closed"  BY <1>0, <2>1 DEF Alone
  <2>4. run[p].pc # "running" /\ run[p].pc # "lost"  BY <1>1, <2>1 DEF Closed
  <2>5. Closed(p)'  BY <2>1, <2>2, <2>3, <2>4 DEF Closed
  <2>. QED  BY <2>3, <2>5, ClosingFrame
<1>12. CASE ReadMarker(p)
  <2>1. CASE marker = p
    <3>1. /\ proc' = [proc EXCEPT ![p] = "owner"] /\ proc[p] = "closed"
          /\ how' = how /\ run' = run /\ store' = store
      BY <1>12, <2>1 DEF ReadMarker, data
    <3>2. Alone(p) /\ proc'[p] = "owner"  BY <1>0, <3>1 DEF Alone
    <3>3. Closed(p)'  BY <1>1, <3>1, <3>2 DEF Closed
    <3>. QED  BY <3>2, <3>3, ClosingFrame
  <2>2. CASE marker # p  BY <1>12, <2>2, ClosingEnds DEF ReadMarker, Ending
  <2>. QED  BY <2>1, <2>2
<1>13. CASE Unmark(p)  BY <1>13, ClosingEnds DEF Unmark, Ending
<1>. QED  BY <1>3, <1>4, <1>5, <1>6, <1>7, <1>8, <1>9, <1>10, <1>11, <1>12, <1>13 DEF ProcessStep

\* as does the signal;
LEMMA StopClosing ==
  ASSUME Types, Account, Closing, NEW s \in Stopper, ReadPid(s) \/ StopStep(s)
  PROVE  Closing'
<1>0. proc \in [Proc -> Phase]  BY DEF Types, ProcessTypes
<1>1. ASSUME UNCHANGED <<proc, how, run, store>> PROVE Closing'
  BY <1>1 DEF Closing, Closed
<1>2. CASE Signal(s)
  <2>. DEFINE p == stopping[s].pid
  <2>1. CASE Serves(p)
    <3>1. proc' = [proc EXCEPT ![p] = "down"] /\ UNCHANGED <<how, data>>  BY <1>2, <2>1 DEF Signal
    <3>2. CASE p \in Proc
      <4>1. PICK q \in Proc : q = p  BY <3>2
      <4>2. Alone(q) /\ proc'[q] = "down" /\ proc[q] \in {"up", "down"} /\ how' = how /\ run' = run /\ store' = store
        BY <1>0, <2>1, <3>1, <4>1 DEF Alone, Serves, data
      <4>3. Closed(q)  BY DEF Closing
      <4>4. Closed(q)'
        BY <4>2, <4>3, NoneIsNothing DEF Closed
      <4>. QED  BY <4>2, <4>4, ClosingFrame
    <3>3. CASE p \notin Proc
      <4>1. proc' = proc  BY <1>0, <3>1, <3>3
      <4>. QED  BY <1>1, <3>1, <4>1 DEF data
    <3>. QED  BY <3>2, <3>3
  <2>2. CASE Alive(p) /\ ~Serves(p)
    <3>1. Ends(p, "killed")  BY <1>2, <2>2 DEF Signal
    <3>2. CASE p \in Proc
      <4>1. PICK q \in Proc : q = p  BY <3>2
      <4>2. Ends(q, "killed")  BY <3>1, <4>1
      <4>. QED  BY <4>2, ClosingEnds DEF Ending
    <3>3. CASE p \notin Proc
      <4>1. UNCHANGED <<proc, how, run, store>>
        BY <3>1, <3>3 DEF Ends, Types, ProcessTypes, DataTypes
      <4>. QED  BY <1>1, <4>1
    <3>. QED  BY <3>2, <3>3
  <2>3. CASE ~Serves(p) /\ ~Alive(p)
    <3>1. UNCHANGED <<proc, how, data>>  BY <1>2, <2>3 DEF Signal
    <3>. QED  BY <1>1, <3>1 DEF data
  <2>. QED  BY <2>1, <2>2, <2>3
<1>3. CASE ReadPid(s) \/ CheckPid(s) \/ Wait(s) \/ ReadStale(s) \/ UnlinkStale(s)
  BY <1>1, <1>3 DEF ReadPid, CheckPid, Wait, ReadStale, UnlinkStale, data
<1>. QED  BY <1>2, <1>3 DEF StopStep

\* a run does not begin when the server has waited for its end,
LEMMA RunClosing ==
  ASSUME Types, Account, Closing, NEW p \in Proc,
         Expire(p) \/ CreateRun(p) \/ CancelRun(p) \/ StoreOutput(p) \/ EndRun(p)
  PROVE  Closing'
<1>0. /\ store \in [Proc -> StoreType] /\ store[p] \in StoreType /\ made \in Nat
      /\ run \in [Proc -> RunType] /\ run[p] \in RunType
  BY DEF Types, DataTypes
<1>1. proc' = proc /\ how' = how
  BY DEF Expire, CreateRun, CancelRun, StoreOutput, EndRun, process
<1>2. CASE Expire(p)
  <2>1. PICK a \in store[p].rows :
          /\ store' = [store EXCEPT ![p].rows = (@ \ {a}) \union {[a EXCEPT !.expired = TRUE]}]
          /\ run' = Lapse(p, a.id)
    BY <1>2 DEF Expire
  <2>. DEFINE t == [store[p] EXCEPT !.rows = (store[p].rows \ {a}) \union {[a EXCEPT !.expired = TRUE]}]
  <2>2. t.open = store[p].open /\ t.root = store[p].root /\ t.files = store[p].files /\ t.late = store[p].late
    BY <1>0 DEF StoreType
  <2>3. store' = [store EXCEPT ![p] = t]  BY <2>1
  <2>. HIDE DEF t
  <2>4. a.id \in Nat  BY <1>0, StoreFields DEF Row
  <2>5. run'[p].pc = run[p].pc /\ \A q \in Proc \ {p} : run'[q] = run[q]
    BY <2>1, <2>4, LapseFacts DEF Types
  <2>6. store'[p] = t /\ Alone(p)  BY <1>0, <1>1, <2>3, <2>5 DEF Alone
  <2>. QED  BY <1>1, <2>2, <2>5, <2>6, ClosingData DEF Bare
<1>3. CASE CreateRun(p)
  <2>. DEFINE t == Got(p)
              n == [run[p] EXCEPT !.pc = "running"]
  <2>1. /\ store' = [store EXCEPT ![p] = t] /\ run' = [run EXCEPT ![p] = n]
        /\ proc[p] \in {"up", "down", "closing", "unbound"}
    BY <1>3 DEF CreateRun
  <2>2. n.pc = "running"  BY <1>0, RunMoves
  <2>3. store[p].made => t = store[p]  BY DEF Got
  <2>. HIDE DEF t, n
  <2>4. store'[p] = t /\ run'[p] = n /\ Alone(p)  BY <1>0, <1>1, <2>1 DEF Alone
  <2>5. how[p] # "clean"  BY <2>1, NoneIsNothing DEF Account, Hows, Ending
  <2>. QED  BY <1>1, <2>1, <2>2, <2>4, <2>5, ClosingData
<1>4. CASE CancelRun(p)
  <2>. DEFINE n == [run[p] EXCEPT !.cancel = TRUE]
  <2>1. store' = store /\ run' = [run EXCEPT ![p] = n]  BY <1>4 DEF CancelRun
  <2>2. n.pc = run[p].pc  BY <1>0, RunIsAsked
  <2>. HIDE DEF n
  <2>3. run'[p] = n /\ Alone(p)  BY <1>0, <1>1, <2>1 DEF Alone
  <2>. QED  BY <1>1, <2>1, <2>2, <2>3, ClosingData
<1>5. ASSUME NEW end \in {"succeeded", "failed", "cancelled"}, Finish(p, end) PROVE Closing'
  <2>. DEFINE lives == IF end = "succeeded" THEN {"ephemeral"} ELSE {"ephemeral", "session"}
  <2>1. /\ \A q \in Proc \ {p} : run'[q] = run[q] /\ store'[q] = store[q]
        /\ run'[p].pc = end
        /\ store'[p] = IF store[p].open THEN DeleteOwner(store[p], "run", lives) ELSE store[p]
    BY <1>5, FinishFacts DEF Types
  <2>. HIDE DEF lives
  <2>2. Bare(store[p]) => Bare(store'[p])  BY <1>0, <2>1, BareStays
  <2>3. Alone(p)  BY <1>1, <2>1 DEF Alone
  <2>. QED  BY <1>1, <2>1, <2>2, <2>3, ClosingData
<1>6. CASE StoreOutput(p) /\ Fits(store[p])
  <2>. DEFINE a == Artifact("run", "session")
              o == run[p].outs \union {a.id}
              n == [run[p] EXCEPT !.outs = o]
              t == With(store[p], a)
  <2>1. store' = [store EXCEPT ![p] = t] /\ run' = [run EXCEPT ![p] = n]  BY <1>6 DEF StoreOutput
  <2>2. a \in Row /\ a.id = made + 1  BY <1>0, ArtifactType
  <2>. HIDE DEF a
  <2>3. o \in SUBSET Nat  BY <1>0, <2>2 DEF RunType
  <2>. HIDE DEF o
  <2>4. n.pc = run[p].pc  BY <1>0, <2>3, RunMakes
  <2>5. Bare(store[p]) => Bare(t)  BY <1>0, <1>6, <2>2, BareStays DEF Fits
  <2>. HIDE DEF n, t
  <2>6. store'[p] = t /\ run'[p] = n /\ Alone(p)  BY <1>0, <1>1, <2>1 DEF Alone
  <2>. QED  BY <1>1, <2>4, <2>5, <2>6, ClosingData
<1>7. CASE StoreOutput(p) /\ ~Fits(store[p])  BY <1>5, <1>7 DEF StoreOutput
<1>8. CASE EndRun(p)  BY <1>5, <1>8 DEF EndRun
<1>. QED  BY <1>2, <1>3, <1>4, <1>6, <1>7, <1>8

\* and a request makes no store but one that is too late.
LEMMA RequestClosing ==
  ASSUME Types, Account, Stores, Closing, NEW r \in Request, RequestStep(r)
  PROVE  Closing'
<1>1. request[r] # None
  BY DEF RequestStep, At, Submit, Timeout, Lock, Upload, Envelope, Content, Delete
<1>2. PICK p \in Proc : p = request[r].proc  BY <1>1, RequestFields DEF Types
<1>3. /\ store \in [Proc -> StoreType] /\ store[p] \in StoreType /\ made \in Nat
      /\ run \in [Proc -> RunType] /\ run[p] \in RunType
      /\ Got(p) \in StoreType
  BY GotType DEF Types, DataTypes
<1>4. proc' = proc /\ how' = how
  BY DEF RequestStep, Submit, Timeout, Lock, Upload, Envelope, Content, Delete, process
<1>5. how[p] # "clean"
  <2>1. proc[p] # "gone"  BY <1>1, <1>2 DEF Account, Queue
  <2>. QED  BY <2>1, NoneIsNothing DEF Account, Hows, Ending
<1>6. ASSUME NEW t, store' = [store EXCEPT ![p] = t], run' = run,
             proc[p] \in {"closed", "owner"} => (Bare(store[p]) => Bare(t))
      PROVE  Closing'
  <2>1. store'[p] = t /\ Alone(p)  BY <1>3, <1>4, <1>6 DEF Alone
  <2>. QED  BY <1>4, <1>5, <1>6, <2>1, ClosingData
<1>7. proc[p] \in {"closed", "owner"} => (Bare(store[p]) => Bare(Got(p)))
  <2>1. CASE store[p].made  BY <2>1 DEF Got
  <2>2. CASE ~store[p].made /\ proc[p] \in {"closed", "owner"}
    <3>1. Got(p) = Made(TRUE)
      <4>1. (proc[p] \in {"closed", "owner"}) = TRUE  BY <2>2
      <4>. QED  BY <2>2, <4>1 DEF Got
    <3>2. Made(TRUE).late  BY DEF Made
    <3>. QED  BY <3>1, <3>2 DEF Bare
  <2>. QED  BY <2>1, <2>2
<1>8. CASE Submit(r) \/ Timeout(r)
  <2>1. store' = store /\ run' = run  BY <1>8 DEF Submit, Timeout, data
  <2>. QED  BY <1>4, <2>1 DEF Closing, Closed
<1>9. CASE Lock(r)
  <2>1. store' = [store EXCEPT ![p] = Got(p)] /\ run' = run  BY <1>2, <1>9 DEF Lock
  <2>. QED  BY <1>6, <1>7, <2>1
<1>10. CASE Upload(r)
  <2>1. run' = run  BY <1>10 DEF Upload
  <2>2. CASE UNCHANGED <<store, made>>  BY <1>4, <2>1, <2>2 DEF Closing, Closed
  <2>3. CASE /\ Fits(store[p])
             /\ \E owner \in {"chat", "run"}, life \in {"ephemeral", "session"} :
                  store' = [store EXCEPT ![p] = With(store[p], Artifact(owner, life))]
    <3>1. PICK owner \in {"chat", "run"} : \E life \in {"ephemeral", "session"} :
            store' = [store EXCEPT ![p] = With(store[p], Artifact(owner, life))]
      BY <2>3
    <3>2. PICK life \in {"ephemeral", "session"} :
            store' = [store EXCEPT ![p] = With(store[p], Artifact(owner, life))]
      BY <3>1
    <3>. DEFINE a == Artifact(owner, life)
    <3>3. a \in Row /\ store' = [store EXCEPT ![p] = With(store[p], a)]  BY <1>3, <3>2, ArtifactType
    <3>. HIDE DEF a
    <3>4. Bare(store[p]) => Bare(With(store[p], a))  BY <1>3, <2>3, <3>3, BareStays DEF Fits
    <3>. QED  BY <1>6, <2>1, <3>3, <3>4
  <2>4. CASE store' = [store EXCEPT ![p] = Tidied(store[p])]
    BY <1>3, <1>6, <2>1, <2>4, BareStays
  <2>. QED  BY <1>2, <1>10, <2>2, <2>3, <2>4 DEF Upload
<1>11. CASE Envelope(r) \/ Content(r)
  <2>1. store' = [store EXCEPT ![p] = Tidied(store[p])] /\ run' = run
    BY <1>2, <1>11 DEF Envelope, Content
  <2>. QED  BY <1>3, <1>6, <2>1, BareStays
<1>12. CASE Delete(r)
  <2>1. CASE store' = [store EXCEPT ![p] = Tidied(Got(p))] /\ run' = run
    BY <1>3, <1>6, <1>7, <2>1, BareStays
  <2>2. CASE \E a \in Tidied(Got(p)).rows :
               /\ store' = [store EXCEPT ![p] = Without(Cleaned(store[p]), {a})]
               /\ run' = Lapse(p, a.id)
    <3>1. PICK a \in Tidied(Got(p)).rows :
            /\ store' = [store EXCEPT ![p] = Without(Cleaned(store[p]), {a})]
            /\ run' = Lapse(p, a.id)
      BY <2>2
    <3>2. a \in store[p].rows
      <4>1. a \in Got(p).rows  BY <1>3, <3>1, CleanedFields DEF Tidied
      <4>2. store[p].made  BY <4>1 DEF Got, Made
      <4>. QED  BY <4>1, <4>2 DEF Got
    <3>3. a.id \in Nat  BY <1>3, <3>2, StoreFields DEF Row
    <3>4. run'[p].pc = run[p].pc /\ \A q \in Proc \ {p} : run'[q] = run[q]
      BY <3>1, <3>3, LapseFacts DEF Types
    <3>. DEFINE t == Without(Cleaned(store[p]), {a})
    <3>5. Bare(store[p]) => Bare(t)  BY <1>3, <3>2, BareStays
    <3>6. store' = [store EXCEPT ![p] = t]  BY <3>1
    <3>. HIDE DEF t
    <3>7. store'[p] = t /\ Alone(p)  BY <1>3, <1>4, <3>4, <3>6 DEF Alone
    <3>. QED  BY <1>4, <3>4, <3>5, <3>7, ClosingData
  <2>. QED  BY <1>2, <1>12, <2>1, <2>2 DEF Delete
<1>. QED  BY <1>8, <1>9, <1>10, <1>11, <1>12 DEF RequestStep

\* The ends of servers are as they should be after every step.
LEMMA ClosingStep == Types /\ Account /\ Stores /\ Closing /\ [Next]_vars => Closing'
<1>. SUFFICES ASSUME Types, Account, Stores, Closing, [Next]_vars PROVE Closing'  OBVIOUS
<1>1. ASSUME UNCHANGED <<proc, how, run, store>> PROVE Closing'
  BY <1>1 DEF Closing, Closed
<1>2. CASE UNCHANGED vars  BY <1>1, <1>2 DEF vars, process, data
<1>3. ASSUME NEW p \in Proc, NEW r \in Request, PoolReturns(p, r) \/ \E kind \in Kind : Arrive(r, p, kind)
      PROVE  Closing'
  BY <1>1, <1>3 DEF PoolReturns, Arrive, process, data
<1>. QED  BY <1>2, <1>3, ProcessClosing, StopClosing, RunClosing, RequestClosing DEF Next

\* A process that has started never is as if it had not, and one that has ended
\* stays ended.
LEMMA Onward ==
  ASSUME Types, Next, NEW p \in Proc
  PROVE  (proc[p] # "off" => proc'[p] # "off") /\ (proc[p] = "gone" => proc'[p] = "gone")
<1>0. proc \in [Proc -> Phase]  BY DEF Types, ProcessTypes
<1>1. ASSUME NEW q, NEW from, NEW to \in Phase \ {"off"}, proc' = [proc EXCEPT ![q] = to],
             q \in Proc => proc[q] = from, from # "gone"
      PROVE  (proc[p] # "off" => proc'[p] # "off") /\ (proc[p] = "gone" => proc'[p] = "gone")
  BY <1>0, <1>1
<1>2. ASSUME NEW q, NEW cause, Ends(q, cause)
      PROVE  (proc[p] # "off" => proc'[p] # "off") /\ (proc[p] = "gone" => proc'[p] = "gone")
  BY <1>0, <1>2 DEF Ends
<1>3. ASSUME NEW q \in Proc, Start(q) \/ Crash(q) \/ ProcessStep(q)
      PROVE  (proc[p] # "off" => proc'[p] # "off") /\ (proc[p] = "gone" => proc'[p] = "gone")
  <2>1. CASE Start(q)  BY <1>0, <2>1 DEF Start
  <2>2. CASE Crash(q)  BY <1>2, <2>2 DEF Crash
  <2>3. CASE Mark(q) \/ Serve(q) \/ LoopEnds(q) \/ CloseSocket(q)
    BY <1>0, <2>3 DEF Mark, Serve, LoopEnds, CloseSocket, Goes
  <2>4. CASE CloseRuns(q) \/ RunsAreClosed(q) \/ CloseStore(q)
    BY <1>0, <2>4 DEF CloseRuns, RunsAreClosed, CloseStore, Goes
  <2>5. CASE ReadMarker(q)  BY <1>0, <1>2, <2>5 DEF ReadMarker
  <2>6. CASE Unmark(q)  BY <1>2, <2>6 DEF Unmark
  <2>. QED  BY <1>3, <2>1, <2>2, <2>3, <2>4, <2>5, <2>6 DEF ProcessStep
<1>4. ASSUME NEW s \in Stopper, ReadPid(s) \/ StopStep(s)
      PROVE  (proc[p] # "off" => proc'[p] # "off") /\ (proc[p] = "gone" => proc'[p] = "gone")
  <2>1. CASE Signal(s)
    <3>. DEFINE q == stopping[s].pid
    <3>1. CASE Serves(q)
      <4>1. proc' = [proc EXCEPT ![q] = "down"]  BY <2>1, <3>1 DEF Signal
      <4>. QED  BY <1>0, <3>1, <4>1 DEF Serves
    <3>2. CASE Alive(q) /\ ~Serves(q)  BY <1>2, <2>1, <3>2 DEF Signal
    <3>3. CASE ~Serves(q) /\ ~Alive(q)  BY <2>1, <3>3 DEF Signal
    <3>. QED  BY <3>1, <3>2, <3>3
  <2>2. CASE ReadPid(s) \/ CheckPid(s) \/ Wait(s) \/ ReadStale(s) \/ UnlinkStale(s)
    BY <2>2 DEF ReadPid, CheckPid, Wait, ReadStale, UnlinkStale
  <2>. QED  BY <1>4, <2>1, <2>2 DEF StopStep
<1>5. ASSUME NEW q \in Proc,
             \/ Expire(q) \/ CreateRun(q) \/ CancelRun(q) \/ StoreOutput(q) \/ EndRun(q)
             \/ \E r \in Request : PoolReturns(q, r) \/ \E kind \in Kind : Arrive(r, q, kind)
      PROVE  proc' = proc
  BY <1>5 DEF Expire, CreateRun, CancelRun, StoreOutput, EndRun, PoolReturns, Arrive, process
<1>6. ASSUME NEW r \in Request, RequestStep(r) PROVE proc' = proc
  BY <1>6 DEF RequestStep, Submit, Timeout, Lock, Upload, Envelope, Content, Delete, process
<1>. QED  BY <1>3, <1>4, <1>5, <1>6 DEF Next

\* The command to stop knows a process that has been started; what it calls
\* stale, or stopped, has ended.
Known(c) ==
  /\ c.pc \notin {"idle", "none"} => c.pid # None /\ proc[c.pid] # "off"
  /\ c.pc \in {"stale", "unlink", "stopped"} => proc[c.pid] = "gone"
Stops ==
  /\ marker # None => proc[marker] # "off"
  /\ \A s \in Stopper : Known(stopping[s])

\* Only the commands of S move.
LEMMA StopsFrame ==
  ASSUME Types, Stops, Next, marker' # None => marker' = marker \/ proc'[marker'] # "off",
         NEW S \in SUBSET Stopper, \A s \in Stopper \ S : stopping'[s] = stopping[s],
         \A s \in S :
           /\ stopping'[s].pc \notin {"idle", "none"} =>
                stopping'[s].pid # None /\ proc'[stopping'[s].pid] # "off"
           /\ stopping'[s].pc \in {"stale", "unlink", "stopped"} => proc'[stopping'[s].pid] = "gone"
  PROVE  Stops'
<1>0. marker \in Proc \union {None} /\ \A s \in Stopper : stopping[s].pid \in Proc \union {None}
  BY StopFields DEF Types, ProcessTypes
<1>1. \A p \in Proc : (proc[p] # "off" => proc'[p] # "off") /\ (proc[p] = "gone" => proc'[p] = "gone")
  BY Onward
<1>2. marker' # None => proc'[marker'] # "off"  BY <1>0, <1>1 DEF Stops
<1>3. ASSUME NEW s \in Stopper \ S
      PROVE  /\ stopping'[s].pc \notin {"idle", "none"} =>
                  stopping'[s].pid # None /\ proc'[stopping'[s].pid] # "off"
             /\ stopping'[s].pc \in {"stale", "unlink", "stopped"} => proc'[stopping'[s].pid] = "gone"
  <2>1. stopping'[s] = stopping[s]  OBVIOUS
  <2>2. Known(stopping[s])  BY DEF Stops
  <2>. QED  BY <1>0, <1>1, <2>1, <2>2 DEF Known
<1>. QED  BY <1>2, <1>3 DEF Stops, Known

\* What a command knows of its process stays true.
LEMMA StopsStep == Types /\ Stops /\ [Next]_vars => Stops'
<1>. SUFFICES ASSUME Types, Stops, [Next]_vars PROVE Stops'  OBVIOUS
<1>0. proc \in [Proc -> Phase] /\ marker \in Proc \union {None}  BY DEF Types, ProcessTypes
<1>1. CASE UNCHANGED vars  BY <1>1 DEF vars, process, Stops, Known
<1>2. ASSUME Next, stopping' = stopping, marker' # None => marker' = marker \/ proc'[marker'] # "off"
      PROVE  Stops'
  <2>. DEFINE S == {}
  <2>1. S \in SUBSET Stopper /\ (\A s \in Stopper \ S : stopping'[s] = stopping[s]) /\ \A s \in S : FALSE
    BY <1>2
  <2>. HIDE DEF S
  <2>. QED  BY <1>2, <2>1, StopsFrame
<1>3. ASSUME Next, NEW p \in Proc, Start(p) \/ Crash(p) \/ ProcessStep(p) PROVE Stops'
  <2>1. CASE Mark(p)
    <3>1. marker' = p /\ proc'[p] = "marked" /\ stopping' = stopping  BY <1>0, <2>1 DEF Mark, Goes
    <3>. QED  BY <1>2, <1>3, <3>1
  <2>2. CASE Unmark(p)  BY <1>2, <1>3, <2>2 DEF Unmark
  <2>3. CASE Start(p) \/ Crash(p) \/ Serve(p) \/ LoopEnds(p) \/ CloseSocket(p)
    BY <1>2, <1>3, <2>3 DEF Start, Crash, Serve, LoopEnds, CloseSocket
  <2>4. CASE CloseRuns(p) \/ RunsAreClosed(p) \/ CloseStore(p) \/ ReadMarker(p)
    BY <1>2, <1>3, <2>4 DEF CloseRuns, RunsAreClosed, CloseStore, ReadMarker
  <2>. QED  BY <1>3, <2>1, <2>2, <2>3, <2>4 DEF ProcessStep
<1>4. ASSUME Next, NEW s \in Stopper, ReadPid(s) \/ StopStep(s) PROVE Stops'
  <2>0. stopping[s].pid \in Proc \union {None} /\ Known(stopping[s])  BY StopFields DEF Stops
  <2>1. \A p \in Proc : (proc[p] # "off" => proc'[p] # "off") /\ (proc[p] = "gone" => proc'[p] = "gone")
    BY <1>4, Onward
  <2>2. ASSUME NEW pc \in StopPc,
               NEW pid \in Proc \union {None}, Stop(s, pc, pid),
               marker' # None => marker' = marker,
               pc # "none" => pid # None /\ proc[pid] # "off",
               pc \in {"stale", "unlink", "stopped"} => proc[pid] = "gone"
        PROVE  Stops'
    <3>1. /\ stopping'[s].pc = pc /\ stopping'[s].pid = pid
          /\ \A t \in Stopper \ {s} : stopping'[t] = stopping[t]
      BY <2>2, StopTypes
    <3>2. pc # "none" => pid # None /\ proc'[pid] # "off"  BY <2>1, <2>2
    <3>3. pc \in {"stale", "unlink", "stopped"} => proc'[pid] = "gone"  BY <2>1, <2>2
    <3>. DEFINE S == {s}
    <3>4. S \in SUBSET Stopper /\ \A t \in Stopper \ S : stopping'[t] = stopping[t]  BY <3>1
    <3>5. \A t \in S :
            /\ stopping'[t].pc \notin {"idle", "none"} =>
                 stopping'[t].pid # None /\ proc'[stopping'[t].pid] # "off"
            /\ stopping'[t].pc \in {"stale", "unlink", "stopped"} => proc'[stopping'[t].pid] = "gone"
      BY <3>1, <3>2, <3>3
    <3>. HIDE DEF S
    <3>. QED  BY <1>4, <2>2, <3>4, <3>5, StopsFrame
  <2>3. CASE ReadPid(s)
    <3>1. CASE marker # None
      <4>1. Stop(s, "check", marker) /\ marker' = marker  BY <2>3, <3>1 DEF ReadPid
      <4>. QED  BY <1>0, <2>2, <3>1, <4>1 DEF Stops
    <3>2. CASE marker = None /\ Legacy # {}
      <4>1. PICK p \in Legacy : Stop(s, "signal", p)  BY <2>3, <3>2 DEF ReadPid
      <4>2. p \in Proc /\ proc[p] # "off" /\ p # None  BY NoneIsNothing DEF Legacy, Listens
      <4>3. marker' = marker  BY <2>3 DEF ReadPid
      <4>. QED  BY <2>2, <4>1, <4>2, <4>3
    <3>3. CASE marker = None /\ Legacy = {}
      <4>1. Stop(s, "none", None) /\ marker' = marker  BY <2>3, <3>3 DEF ReadPid
      <4>. QED  BY <2>2, <4>1
    <3>. QED  BY <3>1, <3>2, <3>3
  <2>4. CASE CheckPid(s)
    <3>1. Stop(s, IF Alive(stopping[s].pid) THEN "signal" ELSE "stale", stopping[s].pid) /\ marker' = marker
      BY <2>4 DEF CheckPid
    <3>2. stopping[s].pid # None /\ proc[stopping[s].pid] # "off"  BY <2>0, <2>4 DEF CheckPid, Known
    <3>3. CASE Alive(stopping[s].pid)  BY <2>0, <2>2, <3>1, <3>2, <3>3
    <3>4. CASE ~Alive(stopping[s].pid)
      <4>1. proc[stopping[s].pid] = "gone"  BY <3>2, <3>4 DEF Alive
      <4>. QED  BY <2>0, <2>2, <3>1, <3>2, <3>4, <4>1
    <3>. QED  BY <3>3, <3>4
  <2>5. CASE Signal(s)
    <3>1. Stop(s, IF Alive(stopping[s].pid) THEN "wait" ELSE "stale", stopping[s].pid) /\ marker' = marker
      BY <2>5 DEF Signal
    <3>2. stopping[s].pid # None /\ proc[stopping[s].pid] # "off"  BY <2>0, <2>5 DEF Signal, Known
    <3>3. CASE Alive(stopping[s].pid)  BY <2>0, <2>2, <3>1, <3>2, <3>3
    <3>4. CASE ~Alive(stopping[s].pid)
      <4>1. proc[stopping[s].pid] = "gone"  BY <3>2, <3>4 DEF Alive
      <4>. QED  BY <2>0, <2>2, <3>1, <3>2, <3>4, <4>1
    <3>. QED  BY <3>3, <3>4
  <2>6. CASE Wait(s)
    <3>1. stopping[s].pid # None /\ proc[stopping[s].pid] # "off" /\ marker' = marker
      BY <2>0, <2>6 DEF Wait, Known
    <3>2. CASE HasEnded(stopping[s].pid) /\ Stop(s, "stale", stopping[s].pid)
      <4>1. proc[stopping[s].pid] = "gone"  BY <3>1, <3>2 DEF HasEnded, Alive
      <4>. QED  BY <2>0, <2>2, <3>1, <3>2, <4>1
    <3>3. CASE Stop(s, "failed", stopping[s].pid)  BY <2>0, <2>2, <3>1, <3>3
    <3>. QED  BY <2>6, <3>2, <3>3 DEF Wait
  <2>7. CASE ReadStale(s)
    <3>1. /\ Stop(s, IF marker = stopping[s].pid THEN "unlink" ELSE "stopped", stopping[s].pid)
          /\ marker' = marker
      BY <2>7 DEF ReadStale
    <3>2. stopping[s].pid # None /\ proc[stopping[s].pid] = "gone"  BY <2>0, <2>7 DEF ReadStale, Known
    <3>3. CASE marker = stopping[s].pid  BY <2>0, <2>2, <3>1, <3>2, <3>3
    <3>4. CASE marker # stopping[s].pid  BY <2>0, <2>2, <3>1, <3>2, <3>4
    <3>. QED  BY <3>3, <3>4
  <2>8. CASE UnlinkStale(s)
    <3>1. Stop(s, "stopped", stopping[s].pid) /\ marker' = None  BY <2>8 DEF UnlinkStale
    <3>2. stopping[s].pid # None /\ proc[stopping[s].pid] = "gone"  BY <2>0, <2>8 DEF UnlinkStale, Known
    <3>. QED  BY <2>0, <2>2, <3>1, <3>2
  <2>. QED  BY <1>4, <2>3, <2>4, <2>5, <2>6, <2>7, <2>8 DEF StopStep
<1>5. ASSUME Next, NEW p \in Proc,
             \/ Expire(p) \/ CreateRun(p) \/ CancelRun(p) \/ StoreOutput(p) \/ EndRun(p)
             \/ \E r \in Request : PoolReturns(p, r) \/ \E kind \in Kind : Arrive(r, p, kind)
      PROVE  Stops'
  <2>1. stopping' = stopping /\ marker' = marker
    BY <1>5 DEF Expire, CreateRun, CancelRun, StoreOutput, EndRun, PoolReturns, Arrive, process
  <2>. QED  BY <1>2, <1>5, <2>1
<1>6. ASSUME Next, NEW r \in Request, RequestStep(r) PROVE Stops'
  <2>1. stopping' = stopping /\ marker' = marker
    BY <1>6 DEF RequestStep, Submit, Timeout, Lock, Upload, Envelope, Content, Delete, process
  <2>. QED  BY <1>2, <1>6, <2>1
<1>. QED  BY <1>1, <1>3, <1>4, <1>5, <1>6 DEF Next

-----------------------------------------------------------------------------
(* The theorems.                                                           *)

IInv == Types /\ Account /\ Stores /\ Closing /\ Stops

\* Nothing has begun.
LEMMA InitInv == Init => IInv
<1>. SUFFICES ASSUME Init PROVE IInv  OBVIOUS
<1>. USE DEF Init
<1>1. NoRun \in RunType /\ Unmade \in StoreType  BY DEF NoRun, RunType, Unmade, StoreType
<1>2. [pc |-> "idle", pid |-> None] \in StopType  BY DEF StopType
<1>3. Types
  <2>1. ProcessTypes  BY <1>2 DEF ProcessTypes, Phase
  <2>2. ServingTypes  BY LimitsAreCounts DEF ServingTypes
  <2>3. DataTypes  BY <1>1 DEF DataTypes
  <2>. QED  BY <2>1, <2>2, <2>3 DEF Types
<1>4. Account
  <2>1. \A p \in Proc : proc[p] = "off" /\ Open(p) = {}  BY DEF Open
  <2>2. Hows /\ Queue  BY NoneIsNothing DEF Hows, Queue
  <2>3. Fresh  BY DEF Fresh, Rested
  <2>4. OneTransfer  BY <2>1 DEF OneTransfer, Transfers
  <2>5. \A p \in Proc : Books(p)  BY <2>1 DEF Books, Alive
  <2>. QED  BY <2>2, <2>3, <2>4, <2>5 DEF Account
<1>5. Stores
  <2>1. StoreOk(Unmade, 0)
    <3>1. /\ Unmade.rows = {} /\ Unmade.files = {} /\ ~Unmade.open
      BY DEF Unmade
    <3>2. IsFiniteSet(Unmade.rows) /\ Cardinality(Unmade.rows) <= MaxArtifacts
      BY <3>1, FS_EmptySet, LimitsAreCounts
    <3>. QED  BY <3>1, <3>2 DEF StoreOk
  <2>2. RunOk(Unmade, NoRun, 0)  BY DEF RunOk, Unmade, NoRun
  <2>. QED  BY <2>1, <2>2 DEF Stores, Kept
<1>6. Closing
  <2>1. \A p \in Proc : run[p].pc = "none" /\ proc[p] = "off" /\ how[p] = None  BY DEF NoRun
  <2>2. Bare(Unmade)  BY DEF Bare, Unmade
  <2>. QED  BY <2>1, <2>2 DEF Closing, Closed
<1>7. Stops  BY DEF Stops, Known
<1>. QED  BY <1>3, <1>4, <1>5, <1>6, <1>7 DEF IInv

\* The invariant is inductive.
LEMMA InvStep == IInv /\ [Next]_vars => IInv'
BY TypesStep, AccountStep, StoresStep, ClosingStep, StopsStep DEF IInv

\* The books are part of the invariant.
LEMMA InvBooks == IInv => ServerKeepsItsBooks
<1>. SUFFICES ASSUME IInv PROVE ServerKeepsItsBooks  OBVIOUS
<1>1. TypeOK
  <2>1. marker \in Proc \union {None} /\ made \in Nat  BY DEF IInv, Types, ProcessTypes, DataTypes
  <2>2. \A p \in Proc : Cardinality(store[p].rows) <= MaxArtifacts
    BY DEF IInv, Stores, Kept, StoreOk
  <2>. QED  BY <2>1, <2>2 DEF IInv, Account, Books, TypeOK
<1>2. OutputsFollowTheirRun
  <2>. SUFFICES ASSUME NEW p \in Proc
                PROVE  LET kept == {a.id : a \in store[p].rows}
                       IN /\ run[p].pc \in {"failed", "cancelled"} => run[p].outs \intersect kept = {}
                          /\ run[p].pc = "succeeded" /\ store[p].open
                               => run[p].outs \subseteq kept \union run[p].lapsed
                          /\ store[p].open => store[p].files = kept
    BY DEF OutputsFollowTheirRun
  <2>1. StoreOk(store[p], made) /\ RunOk(store[p], run[p], made)  BY DEF IInv, Stores, Kept
  <2>. QED  BY <2>1 DEF StoreOk, RunOk, Ids
<1>. QED  BY <1>1, <1>2 DEF ServerKeepsItsBooks

\* So is the cleanness of stops.
LEMMA InvStops == IInv => StopsAreClean
<1>. SUFFICES ASSUME IInv PROVE StopsAreClean  OBVIOUS
<1>1. CleanStopLeavesNothing
  <2>. SUFFICES ASSUME NEW p \in Proc, how[p] = "clean" PROVE ~Leaves(p) \/ store[p].late
    BY DEF CleanStopLeavesNothing
  <2>1. Closed(p)  BY DEF IInv, Closing
  <2>. QED  BY <2>1 DEF Closed, Bare, Leaves
<1>2. StoppedMeansGone
  <2>. SUFFICES ASSUME NEW s \in Stopper, stopping[s].pc = "stopped" PROVE ~Alive(stopping[s].pid)
    BY DEF StoppedMeansGone
  <2>1. Known(stopping[s])  BY DEF IInv, Stops
  <2>. QED  BY <2>1 DEF Known, Alive
<1>. QED  BY <1>1, <1>2 DEF StopsAreClean

\* The invariant holds of every behaviour.
LEMMA Invariant == Spec => []IInv
BY InitInv, InvStep, PTL DEF Spec

\* Whatever way requests end, and in whatever order the server, its runs and
\* its pool go on, every slot is free or held, the lock of the transfers is held
\* by one that is under way, and the store keeps what its runs' ends say.
THEOREM BooksTheorem == Spec => []ServerKeepsItsBooks
BY Invariant, InvBooks, PTL

\* A server that ends as it should leaves no artifacts and no run behind; the
\* command reports none as stopped that still lives.
THEOREM StopsTheorem == Spec => []StopsAreClean
BY Invariant, InvStops, PTL

-----------------------------------------------------------------------------
(* Skill contracts: sums, which are folds, and how they are counted.       *)

\* The steps of a set of things, one by one.
Pile(c, S) == UNION {{x} \X (1..c[x]) : x \in S}

\* The pile of a finite set: how many steps it has, one thing at a time.
LEMMA PileFacts ==
  ASSUME NEW S, IsFiniteSet(S), NEW c, \A x \in S : c[x] \in Nat
  PROVE  /\ IsFiniteSet(Pile(c, S)) /\ Pile(c, {}) = {}
         /\ \A x \in S : Cardinality(Pile(c, S)) = c[x] + Cardinality(Pile(c, S \ {x}))
<1>1. \A x \in S : IsFiniteSet({x} \X (1..c[x])) /\ Cardinality({x} \X (1..c[x])) = c[x]
  <2>. SUFFICES ASSUME NEW x \in S
                PROVE  IsFiniteSet({x} \X (1..c[x])) /\ Cardinality({x} \X (1..c[x])) = c[x]
    OBVIOUS
  <2>1. IsFiniteSet({x}) /\ Cardinality({x}) = 1 BY FS_Singleton
  <2>2. c[x] \in Nat OBVIOUS
  <2>3. IsFiniteSet(1..c[x]) /\ Cardinality(1..c[x]) = c[x]
    <3>1. ASSUME NEW n \in Nat PROVE IsFiniteSet(1..n) /\ Cardinality(1..n) = n
      <4>1. 1 \in Int /\ n \in Int BY <3>1
      <4>2. IsFiniteSet(1..n) /\ Cardinality(1..n) = IF 1 > n THEN 0 ELSE n - 1 + 1 BY <4>1, FS_Interval
      <4>. QED BY <3>1, <4>2
    <3>. QED BY <2>2, <3>1
  <2>4. /\ IsFiniteSet({x} \X (1..c[x]))
        /\ Cardinality({x} \X (1..c[x])) = Cardinality({x}) * Cardinality(1..c[x])
    BY <2>1, <2>3, FS_Product
  <2>. QED BY <2>1, <2>2, <2>3, <2>4
<1>2. \A T \in SUBSET S : IsFiniteSet(Pile(c, T))
  <2>. SUFFICES ASSUME NEW T \in SUBSET S PROVE IsFiniteSet(Pile(c, T)) OBVIOUS
  <2>. DEFINE f == [x \in T |-> {x} \X (1..c[x])]
              R == {f[x] : x \in T}
  <2>1. IsFiniteSet(T) BY FS_Subset
  <2>2. f \in Surjection(T, R) BY DEF Surjection
  <2>3. IsFiniteSet(R) BY <2>1, <2>2, FS_Surjection
  <2>4. \A t \in R : IsFiniteSet(t) BY <1>1
  <2>5. Pile(c, T) = UNION R BY DEF Pile
  <2>. QED BY <2>3, <2>4, <2>5, FS_UNION
<1>3. ASSUME NEW x \in S PROVE Cardinality(Pile(c, S)) = c[x] + Cardinality(Pile(c, S \ {x}))
  <2>. DEFINE A == {x} \X (1..c[x])
              B == Pile(c, S \ {x})
  <2>1. Pile(c, S) = A \cup B BY DEF Pile
  <2>2. A \cap B = {} BY DEF Pile
  <2>3. IsFiniteSet(A) /\ Cardinality(A) = c[x] /\ IsFiniteSet(B) BY <1>1, <1>2
  <2>. HIDE DEF A, B
  <2>4. Cardinality(A \cup B) = Cardinality(A) + Cardinality(B) - Cardinality(A \cap B) BY <2>3, FS_Union
  <2>5. Cardinality(A \cap B) = 0 BY <2>2, FS_EmptySet
  <2>6. c[x] \in Nat /\ Cardinality(B) \in Nat BY <2>3, FS_CardinalityType
  <2>. QED BY <2>1, <2>3, <2>4, <2>5, <2>6 DEF B
<1>. QED BY <1>2, <1>3 DEF Pile

\* A sum counts the steps.
LEMMA SumCounts ==
  ASSUME NEW S, IsFiniteSet(S), NEW c, \A x \in S : c[x] \in Nat
  PROVE  Sum(c, S) = Cardinality(Pile(c, S))
<1>. DEFINE Step(h, s) == IF s = {} THEN 0 ELSE LET x == CHOOSE x \in s : TRUE IN c[x] + h[s \ {x}]
            iter == CHOOSE h : h = [s \in SUBSET S |-> Step(h, s)]
            g == [s \in SUBSET S |-> Cardinality(Pile(c, s))]
<1>1. Sum(c, S) = iter[S] BY DEF Sum, MapThenSumSet, MapThenFoldSet
<1>2. g = [s \in SUBSET S |-> Step(g, s)]
  <2>. SUFFICES ASSUME NEW s \in SUBSET S PROVE Cardinality(Pile(c, s)) = Step(g, s) OBVIOUS
  <2>1. CASE s = {} BY <2>1, PileFacts, FS_EmptySet
  <2>2. CASE s # {}
    <3>. DEFINE x == CHOOSE x \in s : TRUE
    <3>1. x \in s BY <2>2
    <3>2. IsFiniteSet(s) BY FS_Subset
    <3>. HIDE DEF x
    <3>3. Cardinality(Pile(c, s)) = c[x] + Cardinality(Pile(c, s \ {x})) BY <3>1, <3>2, PileFacts
    <3>4. s \ {x} \in SUBSET S OBVIOUS
    <3>5. g[s \ {x}] = Cardinality(Pile(c, s \ {x})) BY <3>4
    <3>. QED BY <2>2, <3>3, <3>5 DEF x
  <2>. QED BY <2>1, <2>2
<1>. HIDE DEF g
<1>3. iter = [s \in SUBSET S |-> Step(iter, s)] BY <1>2
<1>. HIDE DEF iter
<1>4. \A s \in SUBSET S : iter[s] = g[s]
  <2>. DEFINE Bad == {s \in SUBSET S : iter[s] # g[s]}
              N == {Cardinality(s) : s \in Bad}
  <2>. SUFFICES ASSUME Bad # {} PROVE FALSE OBVIOUS
  <2>0. \A s \in SUBSET S : IsFiniteSet(s) /\ Cardinality(s) \in Nat BY FS_Subset, FS_CardinalityType
  <2>1. PICK n \in N : \A m \in N : n <= m
    <3>1. N \in SUBSET Nat /\ N # {} BY <2>0
    <3>. HIDE DEF N
    <3>. QED BY <3>1, Smallest
  <2>2. PICK s \in Bad : \A t \in Bad : Cardinality(s) <= Cardinality(t) BY <2>1
  <2>3. s # {}
    <3>1. iter[{}] = 0 /\ g[{}] = 0 BY <1>2, <1>3
    <3>. QED BY <2>2, <3>1
  <2>. DEFINE x == CHOOSE x \in s : TRUE
  <2>4. x \in s BY <2>3
  <2>5. iter[s] = c[x] + iter[s \ {x}] /\ g[s] = c[x] + g[s \ {x}] BY <1>2, <1>3, <2>2, <2>3
  <2>. HIDE DEF x
  <2>6. s \ {x} \in SUBSET S /\ Cardinality(s \ {x}) = Cardinality(s) - 1 BY <2>0, <2>2, <2>4, FS_RemoveElement
  <2>7. s \ {x} \notin Bad BY <2>0, <2>2, <2>6
  <2>. QED BY <2>2, <2>5, <2>6, <2>7
<1>. QED BY <1>1, <1>4 DEF g

\* What a sum is, whatever it is added up from.
LEMMA SumFacts ==
  ASSUME NEW S, IsFiniteSet(S), NEW c, \A x \in S : c[x] \in Nat
  PROVE  /\ Sum(c, S) \in Nat /\ Sum(c, {}) = 0
         /\ \A x \in S : Sum(c, S) = c[x] + Sum(c, S \ {x})
<1>1. \A T \in SUBSET S : IsFiniteSet(T) /\ Sum(c, T) = Cardinality(Pile(c, T)) /\ Cardinality(Pile(c, T)) \in Nat
  BY SumCounts, PileFacts, FS_Subset, FS_CardinalityType
<1>2. Sum(c, {}) = 0 BY <1>1, PileFacts, FS_EmptySet
<1>3. \A x \in S : S \ {x} \in SUBSET S OBVIOUS
<1>. QED BY <1>1, <1>2, <1>3, PileFacts

-----------------------------------------------------------------------------
(* Skill contracts: what is resolved and what is made.                     *)

\* What the executor relies on of a manifest, its nested skills apart.
Wired(m) ==
  /\ WellFormed(m) /\ EdgesAreTyped(m) /\ OutputsAreTyped(m)
  /\ \A i \in DOMAIN m.nodes : LET n == m.nodes[i] IN
       /\ n.type = "input" => n.name \in DOMAIN m.ins
       /\ n.type = "join" => Join(n)
       /\ n.type = "parallel" => Parallel(m.nodes, n)

\* What node i has produced is what it declares, all of it unless a loose nested
\* skill is in play, and of an output what the skill declares.
Sound(m, loose, i, produced) ==
  /\ \A p \in DOMAIN produced \cap DOMAIN Declared(m, i) : produced[p] = Declared(m, i)[p]
  /\ ~loose => DOMAIN Declared(m, i) \subseteq DOMAIN produced
  /\ m.nodes[i].type = "output" =>
       /\ DOMAIN produced = DOMAIN m.nodes[i].in
       /\ \A p \in DOMAIN produced \cap DOMAIN m.outs : produced[p] = m.outs[p].kind

\* A frame of the manifest m: its layer is ready, and what it has is sound.
IsFrame(f) ==
  f = [skill |-> f.skill, node |-> f.node, given |-> f.given, have |-> f.have,
       spent |-> f.spent, layer |-> f.layer]
Own(m, loose, f) ==
  /\ IsFrame(f) /\ f.spent \in Nat
  /\ DOMAIN f.have \subseteq DOMAIN m.nodes /\ f.layer \subseteq DOMAIN m.nodes \ DOMAIN f.have
  /\ \A i \in f.layer : m.nodes[i].type = "input" \/ Needs(m.nodes, i) \subseteq DOMAIN f.have
  /\ f.layer = {} => NextLayer(m, f.have) = {}
  /\ Suffices(m, f.given)
  /\ \A j \in DOMAIN f.have : Sound(m, loose, j, f.have[j])

\* When nothing is ready, all has run.
LEMMA AllHasRun ==
  ASSUME NEW m, NEW loose, NEW f, Wired(m), Own(m, loose, f), f.layer = {}
  PROVE  DOMAIN f.have = DOMAIN m.nodes
<1>. DEFINE left == DOMAIN m.nodes \ DOMAIN f.have
<1>. SUFFICES ASSUME left # {} PROVE FALSE BY DEF Own
<1>1. PICK i \in left : Needs(m.nodes, i) \cap left = {} BY DEF Wired, WellFormed, Acyclic
<1>2. \A r \in NodeRefs(m.nodes[i]) : r[1] \in DOMAIN m.nodes
  BY <1>1 DEF Wired, WellFormed, NodeRefs
<1>3. Needs(m.nodes, i) \subseteq DOMAIN m.nodes BY <1>2 DEF Needs
<1>4. Needs(m.nodes, i) \subseteq DOMAIN f.have BY <1>1, <1>3
<1>. QED BY <1>1, <1>4 DEF Own, NextLayer

\* A reference of a node that runs: to an input that was given, or to a node
\* that has run.
LEMMA RefFacts ==
  ASSUME NEW m, NEW loose, NEW f, Wired(m), Own(m, loose, f), NEW i \in f.layer,
         NEW p \in DOMAIN m.nodes[i].in, m.nodes[i].in[p] # Literal
  PROVE  LET r == m.nodes[i].in[p]
         IN /\ r \in Refs(m.nodes[i])
            /\ r[1] = "input" => r[2] \in DOMAIN f.given /\ f.given[r[2]] = m.ins[r[2]].kind
            /\ r[1] # "input" /\ m.nodes[i].type # "input" =>
                 /\ r[1] \in DOMAIN f.have
                 /\ Sound(m, loose, r[1], f.have[r[1]])
<1>. DEFINE r == m.nodes[i].in[p]
<1>0. i \in DOMAIN m.nodes BY DEF Own
<1>1. r \in Refs(m.nodes[i]) BY DEF Refs
<1>2. ASSUME r[1] = "input" PROVE r[2] \in DOMAIN f.given /\ f.given[r[2]] = m.ins[r[2]].kind
  <2>1. r[2] \in Referenced(m) BY <1>0, <1>1, <1>2 DEF Referenced
  <2>. QED BY <2>1 DEF Own, Suffices, InputsFit
<1>3. ASSUME r[1] # "input", m.nodes[i].type # "input"
      PROVE  r[1] \in DOMAIN f.have /\ Sound(m, loose, r[1], f.have[r[1]])
  <2>1. r[1] \in Needs(m.nodes, i) BY <1>1, <1>3 DEF Needs, NodeRefs
  <2>. QED BY <2>1, <1>3 DEF Own
<1>. QED BY <1>1, <1>2, <1>3

\* What a reference to what is declared leads to has the kind that is declared.
LEMMA ValueFacts ==
  ASSUME NEW m, NEW loose, NEW f, Wired(m), Own(m, loose, f), NEW i \in f.layer,
         m.nodes[i].type # "input", Available(f, m.nodes[i]),
         NEW p \in DOMAIN m.nodes[i].in, m.nodes[i].in[p] # Literal, IsDeclared(m, m.nodes[i].in[p])
  PROVE  Resolve(f, m.nodes[i])[p] = KindOf(m, m.nodes[i].in[p])
<1>. DEFINE n == m.nodes[i]
            r == n.in[p]
<1>0. ASSUME NEW j \in f.layer, NEW q \in DOMAIN m.nodes[j].in, m.nodes[j].in[q] # Literal
      PROVE  LET c == m.nodes[j].in[q]
             IN /\ c \in Refs(m.nodes[j])
                /\ c[1] = "input" => c[2] \in DOMAIN f.given /\ f.given[c[2]] = m.ins[c[2]].kind
                /\ c[1] # "input" /\ m.nodes[j].type # "input" =>
                     c[1] \in DOMAIN f.have /\ Sound(m, loose, c[1], f.have[c[1]])
  BY <1>0, RefFacts, Zenon
<1>1. /\ r \in Refs(n)
      /\ r[1] = "input" => r[2] \in DOMAIN f.given /\ f.given[r[2]] = m.ins[r[2]].kind
      /\ r[1] # "input" => r[1] \in DOMAIN f.have /\ Sound(m, loose, r[1], f.have[r[1]])
  BY <1>0, Zenon
<1>2. Resolve(f, n)[p] = IF r[1] = "input" THEN f.given[r[2]] ELSE f.have[r[1]][r[2]]
  BY Zenon DEF Resolve
<1>3. CASE r[1] = "input" BY <1>1, <1>2, <1>3 DEF KindOf
<1>4. CASE r[1] # "input"
  <2>1. r[2] \in DOMAIN Declared(m, r[1]) BY <1>4 DEF IsDeclared
  <2>2. r[2] \in DOMAIN f.have[r[1]] BY <1>1, <1>4 DEF Available
  <2>3. f.have[r[1]][r[2]] = Declared(m, r[1])[r[2]] BY <1>1, <1>4, <2>1, <2>2 DEF Sound
  <2>. QED BY <1>2, <1>4, <2>3 DEF KindOf
<1>. QED BY <1>3, <1>4

\* A reference leads nowhere only if a nested skill is loose or an output is
\* stray.
LEMMA RefsLead ==
  ASSUME NEW m, NEW f, Wired(m), Own(m, FALSE, f), NEW i \in f.layer,
         m.nodes[i].type = "output" => \A p \in DOMAIN m.nodes[i].in \ DOMAIN m.outs :
            m.nodes[i].in[p] # Literal => IsDeclared(m, m.nodes[i].in[p])
  PROVE  Available(f, m.nodes[i])
<1>. DEFINE n == m.nodes[i]
<1>0. i \in DOMAIN m.nodes BY DEF Own
<1>1. CASE n.type = "input"
  <2>1. n.name \in Referenced(m) BY <1>0, <1>1 DEF Referenced
  <2>. QED BY <1>1, <2>1 DEF Available, Own, Suffices
<1>2. CASE n.type # "input"
  <2>. SUFFICES ASSUME NEW r \in Refs(n)
                PROVE  r[2] \in DOMAIN (IF r[1] = "input" THEN f.given ELSE f.have[r[1]])
    BY <1>2 DEF Available
  <2>1. PICK p \in DOMAIN n.in : n.in[p] # Literal /\ r = n.in[p] BY DEF Refs
  <2>2. /\ r[1] = "input" => r[2] \in DOMAIN f.given
        /\ r[1] # "input" => r[1] \in DOMAIN f.have /\ Sound(m, FALSE, r[1], f.have[r[1]])
    BY <1>2, <2>1, RefFacts
  <2>3. IsDeclared(m, r)
    <3>1. CASE n.type # "output" BY <1>0, <1>2, <2>1, <3>1 DEF Wired, EdgesAreTyped
    <3>2. CASE n.type = "output" /\ p \in DOMAIN m.outs
      <4>1. i \in Publishers(m, p) BY <1>0, <2>1, <3>2 DEF Publishers
      <4>. QED BY <4>1, <2>1, <3>2 DEF Wired, OutputsAreTyped
    <3>3. CASE n.type = "output" /\ p \notin DOMAIN m.outs BY <2>1, <3>3
    <3>. QED BY <3>1, <3>2, <3>3
  <2>. QED BY <2>2, <2>3 DEF IsDeclared, Sound
<1>. QED BY <1>1, <1>2

\* What a node makes that runs no handler, or one that keeps its word.
LEMMA BookkeepingSound ==
  ASSUME NEW m, NEW loose, NEW f, Wired(m), Own(m, loose, f), NEW i \in f.layer,
         m.nodes[i].type \in {"input", "output", "parallel"}, Available(f, m.nodes[i])
  PROVE  Sound(m, loose, i, Resolve(f, m.nodes[i]))
<1>. DEFINE n == m.nodes[i]
            produced == Resolve(f, n)
<1>0. i \in DOMAIN m.nodes BY DEF Own
<1>1. CASE n.type = "input"
  <2>. DEFINE port == IF "value" \in DOMAIN n.out THEN n.out["value"] ELSE n.name
  <2>1. produced = [p \in {port} |-> f.given[n.name]] BY <1>1 DEF Resolve
  <2>2. Declared(m, i) = [p \in {port} |-> m.ins[n.name].kind] BY <1>1 DEF Declared
  <2>3. n.name \in DOMAIN f.given /\ f.given[n.name] = m.ins[n.name].kind
    BY <1>1 DEF Available, Own, Suffices, InputsFit
  <2>. QED BY <1>1, <2>1, <2>2, <2>3 DEF Sound
<1>2. CASE n.type = "output"
  <2>1. DOMAIN produced = DOMAIN n.in BY <1>2 DEF Resolve
  <2>2. DOMAIN Declared(m, i) = {} BY <1>2 DEF Declared, Empty
  <2>3. ASSUME NEW p \in DOMAIN n.in \cap DOMAIN m.outs PROVE produced[p] = m.outs[p].kind
    <3>1. i \in Publishers(m, p) BY <1>0, <1>2 DEF Publishers
    <3>2. /\ n.in[p] # Literal /\ IsDeclared(m, n.in[p])
          /\ KindOf(m, n.in[p]) = m.outs[p].kind
      BY <3>1 DEF Wired, OutputsAreTyped
    <3>. QED BY <1>2, <3>2, ValueFacts
  <2>. QED BY <2>1, <2>2, <2>3 DEF Sound
<1>3. CASE n.type = "parallel"
  <2>1. DOMAIN produced = DOMAIN n.in BY <1>3 DEF Resolve
  <2>2. /\ DOMAIN n.accepts = DOMAIN n.in /\ n.out = n.accepts
        /\ \A p \in DOMAIN n.in : n.in[p] # Literal
    <3>1. Parallel(m.nodes, n) BY <1>0, <1>3 DEF Wired
    <3>. QED BY <3>1, Zenon DEF Parallel
  <2>3. Declared(m, i) = n.accepts /\ DOMAIN n.accepts = DOMAIN n.in
    BY <1>3, <2>2 DEF Declared
  <2>4. ASSUME NEW p \in DOMAIN n.in PROVE produced[p] = n.accepts[p]
    <3>1. n.in[p] # Literal BY <2>2
    <3>2. IsDeclared(m, n.in[p]) /\ n.accepts[p] = KindOf(m, n.in[p])
      BY <1>0, <1>3, <3>1 DEF Wired, EdgesAreTyped
    <3>. QED BY <1>3, <3>1, <3>2, ValueFacts
  <2>. QED BY <1>3, <2>1, <2>3, <2>4 DEF Sound
<1>. QED BY <1>1, <1>2, <1>3

\* A handler that keeps its word makes what its node declares.
LEMMA HandlersSound ==
  ASSUME NEW m, NEW loose, NEW i, m.nodes[i].type \notin {"input", "output"}
  PROVE  Sound(m, loose, i, m.nodes[i].out)
<1>1. Declared(m, i) = m.nodes[i].out BY DEF Declared
<1>. QED BY <1>1 DEF Sound

\* What a skill returns has the kinds it declares; all that is required is there.
LEMMA OutcomeFacts ==
  ASSUME NEW loose, NEW f, Wired(Manifest(f)), Own(Manifest(f), loose, f), f.layer = {}
  PROVE  LET m == Manifest(f)
         IN /\ \A p \in DOMAIN Outcome(f) \cap DOMAIN m.outs : Outcome(f)[p] = m.outs[p].kind
            /\ \A p \in DOMAIN m.outs : m.outs[p].required => p \in DOMAIN Outcome(f)
<1>. DEFINE m == Manifest(f)
            outputs == {i \in DOMAIN f.have : m.nodes[i].type = "output"}
<1>1. DOMAIN f.have = DOMAIN m.nodes BY AllHasRun
<1>2. \A i \in outputs : Sound(m, loose, i, f.have[i]) BY DEF Own
<1>3. DOMAIN Outcome(f) = UNION {DOMAIN f.have[i] : i \in outputs} BY DEF Outcome
<1>4. ASSUME NEW p \in DOMAIN Outcome(f) \cap DOMAIN m.outs PROVE Outcome(f)[p] = m.outs[p].kind
  <2>. DEFINE i == CHOOSE i \in outputs : p \in DOMAIN f.have[i]
  <2>1. i \in outputs /\ p \in DOMAIN f.have[i] BY <1>3
  <2>2. Outcome(f)[p] = f.have[i][p] BY <1>3 DEF Outcome
  <2>. HIDE DEF i
  <2>3. f.have[i][p] = m.outs[p].kind BY <1>2, <2>1 DEF Sound
  <2>. QED BY <2>2, <2>3
<1>5. ASSUME NEW p \in DOMAIN m.outs, m.outs[p].required PROVE p \in DOMAIN Outcome(f)
  <2>1. PICK i \in Publishers(m, p) : TRUE BY <1>5 DEF Wired, OutputsAreTyped
  <2>2. i \in outputs /\ p \in DOMAIN m.nodes[i].in BY <1>1, <2>1 DEF Publishers
  <2>3. p \in DOMAIN f.have[i] BY <1>2, <2>2 DEF Sound
  <2>. QED BY <1>3, <2>2, <2>3
<1>. QED BY <1>4, <1>5

\* A frame, field by field.
LEMMA FrameExcept ==
  ASSUME NEW f, IsFrame(f), NEW have, NEW spent, NEW layer
  PROVE  [f EXCEPT !.have = have, !.spent = spent, !.layer = layer]
           = [skill |-> f.skill, node |-> f.node, given |-> f.given, have |-> have,
              spent |-> spent, layer |-> layer]
<1>. DEFINE fields == {"skill", "node", "given", "have", "spent", "layer"}
<1>1. DOMAIN f = fields BY DEF IsFrame
<1>2. [f EXCEPT !.have = have, !.spent = spent, !.layer = layer]
        = [x \in fields |-> IF x = "have" THEN have ELSE IF x = "spent" THEN spent
                            ELSE IF x = "layer" THEN layer ELSE f[x]]
  BY <1>1
<1>. QED BY <1>2

\* A frame whose node i has produced what it should stays one.
LEMMA PublishedOwn ==
  ASSUME NEW loose, NEW f, Own(Manifest(f), loose, f), NEW i \in f.layer, NEW produced, NEW steps \in Nat,
         Sound(Manifest(f), loose, i, produced)
  PROVE  LET g == Published(f, i, produced, steps)
         IN /\ Own(Manifest(f), loose, g)
            /\ g.skill = f.skill /\ g.node = f.node /\ g.spent = f.spent + steps
            /\ DOMAIN g.have = DOMAIN f.have \cup {i}
<1>. DEFINE m == Manifest(f)
            have == [j \in DOMAIN f.have \union {i} |-> IF j = i THEN produced ELSE f.have[j]]
            layer == IF f.layer = {i} THEN NextLayer(m, have) ELSE f.layer \ {i}
            g == Published(f, i, produced, steps)
<1>1. g = [skill |-> f.skill, node |-> f.node, given |-> f.given, have |-> have,
           spent |-> f.spent + steps, layer |-> layer]
  <2>1. g = [f EXCEPT !.have = have, !.spent = f.spent + steps, !.layer = layer]
    BY DEF Own, IsFrame, Published
  <2>2. IsFrame(f) BY DEF Own
  <2>. HIDE DEF g, have, layer
  <2>3. [f EXCEPT !.have = have, !.spent = f.spent + steps, !.layer = layer]
          = [skill |-> f.skill, node |-> f.node, given |-> f.given, have |-> have,
             spent |-> f.spent + steps, layer |-> layer]
    BY <2>2, FrameExcept, Zenon
  <2>. QED BY <2>1, <2>3, Zenon
<1>2. /\ g.skill = f.skill /\ g.node = f.node /\ g.given = f.given /\ g.have = have
      /\ g.spent = f.spent + steps /\ g.layer = layer
  BY <1>1
<1>3. IsFrame(g) /\ g.spent \in Nat BY <1>1, <1>2 DEF IsFrame, Own
<1>. HIDE DEF g
<1>4. DOMAIN have = DOMAIN f.have \cup {i} /\ i \in DOMAIN m.nodes /\ have[i] = produced BY DEF Own
<1>5. \A j \in DOMAIN have : Sound(m, loose, j, have[j]) BY DEF Own
<1>. HIDE DEF have
<1>6. layer \subseteq DOMAIN m.nodes \ DOMAIN have BY <1>4 DEF Own, NextLayer
<1>7. \A j \in layer : m.nodes[j].type = "input" \/ Needs(m.nodes, j) \subseteq DOMAIN have
  BY <1>4 DEF Own, NextLayer
<1>8. layer = {} => NextLayer(m, have) = {}
  <2>. HIDE DEF m
  <2>. QED OBVIOUS
<1>9. DOMAIN have \subseteq DOMAIN m.nodes BY <1>4 DEF Own
<1>10. Own(m, loose, g)
  <2>. HIDE DEF layer
  <2>. QED BY <1>2, <1>3, <1>5, <1>6, <1>7, <1>8, <1>9 DEF Own
<1>. QED BY <1>2, <1>4, <1>10 DEF g

-----------------------------------------------------------------------------
(* Skill contracts: chains of nested calls.                                *)

\* The registry stays as it is, and what it says with it.
LEMMA Steady ==
  ASSUME skills' = skills
  PROVE  /\ NestedCost' = NestedCost /\ (Loose' <=> Loose) /\ (Stray' <=> Stray)
         /\ (TypeChecked(Root)' <=> TypeChecked(Root)) /\ Missing(Root)' = Missing(Root)
<1>1. NestedCost' = NestedCost BY DEF NestedCost, Total, Costs, Lookup
<1>2. Loose' <=> Loose BY DEF Loose, Lookup
<1>3. Stray' <=> Stray BY DEF Stray
<1>4. TypeChecked(Root)' <=> TypeChecked(Root)
  BY DEF TypeChecked, Typed, NodeIsTyped, Nested, Grants, StepCost, Total, Costs, Reached, Stacks,
         Called, Lookup, NestedCost
<1>5. Missing(Root)' = Missing(Root)
  BY DEF Missing, MissingHere, Reached, Stacks, Called, Lookup
<1>. QED BY <1>1, <1>2, <1>3, <1>4, <1>5

\* A chain of n calls that begins with skill s.
Chain(c, n, s) ==
  c \in [1..n -> DOMAIN skills] /\ c[1] = s /\ \A k \in 2..n : c[k] \in Called(c[k - 1])

\* The stacks of nested calls are the chains of up to MaxDepth + 2 skills.
LEMMA StackFacts ==
  ASSUME NEW s
  PROVE  /\ \A c \in Stacks(s) : Len(c) \in 1..(MaxDepth + 2) /\ Chain(c, Len(c), s)
         /\ \A n \in 1..(MaxDepth + 2) : \A c : Chain(c, n, s) => c \in Stacks(s) /\ Len(c) = n
<1>0. MaxDepth \in Nat BY DepthAssumption
<1>1. ASSUME NEW c \in Stacks(s) PROVE Len(c) \in 1..(MaxDepth + 2) /\ Chain(c, Len(c), s)
  <2>1. PICK k \in 1..(MaxDepth + 2) : c \in [1..k -> DOMAIN skills] BY DEF Stacks
  <2>2. Len(c) = k BY <1>0, <2>1
  <2>. QED BY <2>1, <2>2 DEF Stacks, Chain
<1>2. ASSUME NEW n \in 1..(MaxDepth + 2), NEW c, Chain(c, n, s) PROVE c \in Stacks(s) /\ Len(c) = n
  <2>1. Len(c) = n BY <1>0, <1>2 DEF Chain
  <2>. QED BY <1>2, <2>1 DEF Stacks, Chain
<1>. QED BY <1>1, <1>2

\* What a chain of calls of a skill that is accepted leads to is accepted.
LEMMA ChainGoesOn ==
  ASSUME TypeChecked(Root), NEW n \in 1..(MaxDepth + 1), NEW c, Chain(c, n, Root),
         NEW child \in Called(c[n]), NEW s \in Stacks(child)
  PROVE  LET both == [k \in 1..(n + Len(s)) |-> IF k <= n THEN c[k] ELSE s[k - n]]
         IN n + Len(s) <= MaxDepth + 1 /\ both \in Stacks(Root) /\ IsInjective(both)
<1>. DEFINE l == Len(s)
            both == [k \in 1..(n + l) |-> IF k <= n THEN c[k] ELSE s[k - n]]
            t == IF n + l <= MaxDepth + 2 THEN n + l ELSE MaxDepth + 2
            cut == [k \in 1..t |-> both[k]]
<1>1. MaxDepth \in Nat /\ l \in 1..(MaxDepth + 2) /\ Chain(s, l, child) BY DepthAssumption, StackFacts
<1>. HIDE DEF l
<1>2. t \in 1..(MaxDepth + 2) /\ t <= n + l /\ n < t BY <1>1
<1>. HIDE DEF t
<1>3. \A k \in 1..t : both[k] = IF k <= n THEN c[k] ELSE s[k - n] BY <1>1, <1>2
<1>. HIDE DEF both
<1>4. \A k \in 1..t : both[k] \in DOMAIN skills BY <1>1, <1>2, <1>3 DEF Chain
<1>5. ASSUME NEW k \in 2..t PROVE both[k] \in Called(both[k - 1])
  <2>1. CASE k <= n BY <2>1, <1>1, <1>2, <1>3 DEF Chain
  <2>2. CASE k = n + 1 BY <2>2, <1>1, <1>2, <1>3 DEF Chain
  <2>3. CASE k > n + 1
    <3>1. k - n \in 2..l /\ (k - 1) - n = (k - n) - 1 BY <2>3, <1>1, <1>2
    <3>2. both[k] = s[k - n] /\ both[k - 1] = s[(k - n) - 1] BY <2>3, <1>1, <1>2, <1>3, <3>1
    <3>. QED BY <3>1, <3>2, <1>1 DEF Chain
  <2>. QED BY <2>1, <2>2, <2>3, <1>1, <1>2
<1>6. both[1] = Root BY <1>2, <1>3 DEF Chain
<1>7. Chain(cut, t, Root) BY <1>2, <1>4, <1>5, <1>6 DEF Chain
<1>8. cut \in Stacks(Root) /\ Len(cut) = t BY <1>2, <1>7, StackFacts
<1>9. t <= MaxDepth + 1 /\ IsInjective(cut) BY <1>8 DEF TypeChecked
<1>10. t = n + l BY <1>9, <1>1 DEF t
<1>11. cut = both BY <1>10 DEF both
<1>. QED BY <1>8, <1>9, <1>10, <1>11 DEF both, l

\* So is the skill the last of them calls, which is none of theirs and not
\* too deep.
LEMMA CallGoesOn ==
  ASSUME TypeChecked(Root), NEW n \in 1..(MaxDepth + 1), NEW c, Chain(c, n, Root), NEW child \in Called(c[n])
  PROVE  /\ n <= MaxDepth /\ child \in DOMAIN skills /\ \A k \in 1..n : c[k] # child
         /\ TypeChecked(child) /\ Missing(child) \subseteq Missing(Root)
<1>. DEFINE Both(s) == [k \in 1..(n + Len(s)) |-> IF k <= n THEN c[k] ELSE s[k - n]]
<1>0. MaxDepth \in Nat BY DepthAssumption
<1>1. child \in DOMAIN skills BY DEF Called, Lookup
<1>2. Chain(<<child>>, 1, child) BY <1>1 DEF Chain
<1>3. <<child>> \in Stacks(child) BY <1>0, <1>2, StackFacts
<1>4. \A s \in Stacks(child) : /\ Len(s) \in 1..(MaxDepth + 2) /\ Chain(s, Len(s), child)
                               /\ n + Len(s) <= MaxDepth + 1 /\ Both(s) \in Stacks(Root) /\ IsInjective(Both(s))
  BY ChainGoesOn, StackFacts
<1>5. n <= MaxDepth
  <2>1. n + Len(<<child>>) <= MaxDepth + 1 BY <1>3, <1>4, Zenon
  <2>. QED BY <1>0, <2>1
<1>6. ASSUME NEW k \in 1..n PROVE c[k] # child
  <2>. DEFINE b == Both(<<child>>)
  <2>1. b = [j \in 1..(n + 1) |-> IF j <= n THEN c[j] ELSE <<child>>[j - n]] OBVIOUS
  <2>2. IsInjective(b) BY <1>3, <1>4
  <2>3. b[n + 1] = child /\ b[k] = c[k] /\ DOMAIN b = 1..(n + 1) BY <2>1, <1>0
  <2>. HIDE DEF b
  <2>4. k # n + 1 BY <1>0
  <2>. QED BY <2>2, <2>3, <2>4, <1>0 DEF IsInjective
<1>7. ASSUME NEW s \in Stacks(child) PROVE Len(s) <= MaxDepth + 1 /\ IsInjective(s)
  <2>1. /\ Len(s) \in 1..(MaxDepth + 2) /\ s \in [1..Len(s) -> DOMAIN skills]
        /\ n + Len(s) <= MaxDepth + 1 /\ IsInjective(Both(s))
    BY <1>4 DEF Chain
  <2>2. ASSUME NEW i \in 1..Len(s), NEW j \in 1..Len(s), s[i] = s[j] PROVE i = j
    <3>. DEFINE b == Both(s)
    <3>1. n + i \in DOMAIN b /\ n + j \in DOMAIN b /\ b[n + i] = s[i] /\ b[n + j] = s[j]
      BY <1>0, <2>1
    <3>2. IsInjective(b) BY <2>1
    <3>. HIDE DEF b
    <3>3. n + i = n + j BY <3>1, <3>2, <2>2 DEF IsInjective
    <3>. QED BY <3>3, <1>0, <2>1
  <2>. QED BY <1>0, <2>1, <2>2 DEF IsInjective
<1>8. Reached(child) \subseteq Reached(Root)
  <2>. SUFFICES ASSUME NEW s \in Stacks(child) PROVE Last(s) \in Reached(Root) BY DEF Reached
  <2>. DEFINE b == Both(s)
  <2>1. Len(s) \in 1..(MaxDepth + 2) /\ b \in Stacks(Root) BY <1>4
  <2>2. Len(b) = n + Len(s) BY <1>0, <2>1
  <2>3. Last(b) = Last(s) BY <1>0, <2>1, <2>2 DEF Last
  <2>. QED BY <2>1, <2>3 DEF Reached
<1>9. TypeChecked(child) BY <1>7, <1>8 DEF TypeChecked
<1>. QED BY <1>1, <1>5, <1>6, <1>8, <1>9 DEF Missing

\* What a skill that is accepted reaches is wired.
LEMMA TypedIsWired ==
  ASSUME NEW m, Typed(m)
  PROVE  /\ Wired(m) /\ (m.maxsteps # 0 => StepCost(m) <= m.maxsteps)
         /\ \A i \in DOMAIN m.nodes : m.nodes[i].type = "skill" => Nested(m, m.nodes[i])
<1>1. \A i \in DOMAIN m.nodes : NodeIsTyped(m, i) BY DEF Typed
<1>2. ASSUME NEW i \in DOMAIN m.nodes
      PROVE  LET n == m.nodes[i] IN
             /\ n.type = "input" => n.name \in DOMAIN m.ins
             /\ n.type = "join" => Join(n)
             /\ n.type = "parallel" => Parallel(m.nodes, n)
             /\ n.type = "skill" => Nested(m, n)
  BY <1>1 DEF NodeIsTyped
<1>. QED BY <1>2 DEF Typed, Wired

\* A skill that is accepted is typed, as those it reaches are.
LEMMA AcceptedIsTyped ==
  ASSUME NEW s \in DOMAIN skills, TypeChecked(s)
  PROVE  Typed(skills[s])
<1>1. Chain(<<s>>, 1, s) BY DEF Chain
<1>2. <<s>> \in Stacks(s) BY <1>1, StackFacts, DepthAssumption
<1>3. Last(<<s>>) = s BY DEF Last
<1>4. s \in Reached(s) BY <1>2, <1>3 DEF Reached
<1>. QED BY <1>4 DEF TypeChecked

-----------------------------------------------------------------------------
(* Skill contracts: what skills cost.                                      *)

\* What the skills cost that nest less deep.
CostType == [DOMAIN skills -> Nat]

\* Costs are numbers.
LEMMA CostFacts ==
  ASSUME skills \in Registry, NEW s \in DOMAIN skills, NEW nested \in CostType
  PROVE  LET m == skills[s] IN
         /\ IsFiniteSet(Work(m)) /\ \A i \in Work(m) : Costs(m, nested)[i] \in Nat
         /\ Total(m, nested) \in Nat /\ m.maxsteps \in Nat
         /\ \A i \in Work(m) : Times(m.nodes[i]) \in Nat
<1>. DEFINE m == skills[s]
<1>1. IsFiniteSet(DOMAIN m.nodes) /\ m.maxsteps \in Nat /\ \A i \in DOMAIN m.nodes : m.nodes[i].times \in Nat
  BY RegistryAssumption
<1>2. Work(m) \in SUBSET DOMAIN m.nodes BY DEF Work
<1>3. IsFiniteSet(Work(m)) BY <1>1, <1>2, FS_Subset
<1>4. \A i \in Work(m) : Times(m.nodes[i]) \in Nat BY <1>1, <1>2 DEF Times
<1>5. ASSUME NEW i \in Work(m) PROVE Costs(m, nested)[i] \in Nat
  <2>1. Costs(m, nested)[i] = IF m.nodes[i].type = "skill" /\ Lookup(m.nodes[i])
                              THEN nested[m.nodes[i].skill] ELSE Times(m.nodes[i])
    BY DEF Costs
  <2>2. Lookup(m.nodes[i]) => m.nodes[i].skill \in DOMAIN skills BY DEF Lookup
  <2>. QED BY <1>4, <2>1, <2>2 DEF CostType
<1>6. Total(m, nested) \in Nat BY <1>3, <1>5, SumFacts DEF Total
<1>. QED BY <1>1, <1>3, <1>4, <1>5, <1>6

\* What a skill costs, given what those cost that it calls.
Dearer(nested) ==
  [s \in DOMAIN skills |->
     LET total == Total(skills[s], nested) IN IF total = 0 THEN 1 ELSE total]

\* They are numbers one level further down.
LEMMA DearerType ==
  ASSUME skills \in Registry, NEW nested \in CostType
  PROVE  Dearer(nested) \in CostType
<1>1. \A s \in DOMAIN skills : Total(skills[s], nested) \in Nat BY CostFacts
<1>. QED BY <1>1 DEF Dearer, CostType

\* The function that defines NestedCost satisfies its equation.
LEMMA NestedCostEquation ==
  ASSUME skills \in Registry
  PROVE  NestedCost = [d \in 0..MaxDepth |->
           IF d = 0 THEN [s \in DOMAIN skills |-> 1] ELSE Dearer(NestedCost[d - 1])]
<1>. DEFINE X == CostType
            N == MaxDepth
            b == [s \in DOMAIN skills |-> 1]
            g == [p \in X \X (1..N) |-> Dearer(p[1])]
            Eq(f) == f = [d \in 0..N |-> IF d = 0 THEN b ELSE Dearer(f[d - 1])]
<1>1. b \in X /\ N \in Nat /\ g \in [X \X (1..N) -> X]
  <2>1. ASSUME NEW x \in X, NEW i \in 1..N PROVE Dearer(x) \in X BY DearerType
  <2>. QED BY <2>1, DepthAssumption DEF CostType
<1>. HIDE DEF X, b
<1>2. PICK f \in [0..N -> X] : Iterates(f, N, b, g)
  <2>. HIDE DEF g, N
  <2>. QED BY <1>1, Recursion
<1>3. Eq(f)
  <2>1. ASSUME NEW i \in 1..N PROVE f[i] = Dearer(f[i - 1])
    <3>1. f[i - 1] \in X BY <1>1
    <3>2. <<f[i - 1], i>> \in X \X (1..N) /\ <<f[i - 1], i>>[1] = f[i - 1] BY <3>1
    <3>3. g[<<f[i - 1], i>>] = Dearer(<<f[i - 1], i>>[1]) BY <3>2
    <3>. QED BY <1>2, <3>2, <3>3 DEF Iterates
  <2>2. f[0] = b BY <1>2 DEF Iterates
  <2>3. ASSUME NEW d \in 0..N PROVE f[d] = IF d = 0 THEN b ELSE Dearer(f[d - 1])
    <3>1. d = 0 \/ d \in 1..N BY <1>1
    <3>. QED BY <2>1, <2>2, <3>1
  <2>. QED BY <2>3
<1>4. NestedCost = CHOOSE f_1 : Eq(f_1)
  BY DEF NestedCost, Dearer, b
<1>. HIDE DEF Eq
<1>5. Eq(CHOOSE f_1 : Eq(f_1)) BY <1>3
<1>6. Eq(NestedCost) BY <1>4, <1>5
<1>. QED BY <1>6 DEF Eq, b

\* A nested skill costs at least what its nodes do, one level less deep.
LEMMA NestedCostFacts ==
  ASSUME skills \in Registry
  PROVE  /\ \A d \in 0..MaxDepth : NestedCost[d] \in CostType
         /\ \A d \in 1..MaxDepth : \A s \in DOMAIN skills :
              Total(skills[s], NestedCost[d - 1]) <= NestedCost[d][s]
<1>. DEFINE S == {d \in Nat : d <= MaxDepth => NestedCost[d] \in CostType}
<1>0. MaxDepth \in Nat BY DepthAssumption
<1>1. NestedCost[0] = [s \in DOMAIN skills |-> 1] BY <1>0, NestedCostEquation
<1>2. \A d \in 1..MaxDepth : NestedCost[d] = Dearer(NestedCost[d - 1])
  <2>. SUFFICES ASSUME NEW d \in 1..MaxDepth PROVE NestedCost[d] = Dearer(NestedCost[d - 1]) OBVIOUS
  <2>1. d \in 0..MaxDepth /\ d # 0 BY <1>0
  <2>. QED BY <2>1, NestedCostEquation
<1>3. 0 \in S BY <1>1 DEF CostType
<1>4. ASSUME NEW d \in Nat, d \in S PROVE d + 1 \in S
  <2>. SUFFICES ASSUME d + 1 <= MaxDepth PROVE NestedCost[d + 1] \in CostType OBVIOUS
  <2>1. NestedCost[d] \in CostType BY <1>0, <1>4
  <2>2. d + 1 \in 1..MaxDepth /\ (d + 1) - 1 = d BY <1>0
  <2>3. NestedCost[d + 1] = Dearer(NestedCost[d]) BY <1>2, <2>2
  <2>. QED BY <2>1, <2>3, DearerType
<1>. HIDE DEF S
<1>5. Nat \subseteq S BY <1>3, <1>4, Induction
<1>6. \A d \in 0..MaxDepth : NestedCost[d] \in CostType BY <1>0, <1>5 DEF S
<1>7. ASSUME NEW d \in 1..MaxDepth, NEW s \in DOMAIN skills
      PROVE  Total(skills[s], NestedCost[d - 1]) <= NestedCost[d][s]
  <2>1. d - 1 \in 0..MaxDepth BY <1>0
  <2>2. Total(skills[s], NestedCost[d - 1]) \in Nat BY <1>6, <2>1, CostFacts
  <2>3. NestedCost[d][s] = LET total == Total(skills[s], NestedCost[d - 1]) IN IF total = 0 THEN 1 ELSE total
    BY <1>2 DEF Dearer
  <2>. QED BY <2>2, <2>3
<1>. QED BY <1>6, <1>7

\* What a frame has spent and what its other nodes may cost is within what
\* its skill costs.
Pays(m, nested, f) ==
  f.spent + Sum(Costs(m, nested), Work(m) \ DOMAIN f.have) <= Total(m, nested)

\* The costs of a part of the nodes, one by one.
LEMMA SumOfPart ==
  ASSUME skills \in Registry, NEW s \in DOMAIN skills, NEW nested \in CostType,
         NEW costs, costs = Costs(skills[s], nested), NEW part \in SUBSET Work(skills[s])
  PROVE  /\ Sum(costs, part) \in Nat
         /\ \A i \in part : costs[i] \in Nat /\ Sum(costs, part \ {i}) \in Nat
                              /\ Sum(costs, part) = costs[i] + Sum(costs, part \ {i})
<1>1. IsFiniteSet(Work(skills[s])) /\ \A i \in Work(skills[s]) : costs[i] \in Nat BY CostFacts
<1>2. IsFiniteSet(part) /\ \A i \in part : costs[i] \in Nat BY <1>1, FS_Subset
<1>3. Sum(costs, part) \in Nat /\ \A i \in part : Sum(costs, part) = costs[i] + Sum(costs, part \ {i})
  BY <1>2, SumFacts
<1>4. ASSUME NEW i \in part PROVE Sum(costs, part \ {i}) \in Nat
  <2>1. IsFiniteSet(part \ {i}) BY <1>2, FS_RemoveElement
  <2>. QED BY <1>2, <2>1, SumFacts
<1>. QED BY <1>2, <1>3, <1>4

\* Whoever pays has spent no more than the skill costs, and can pay for each of
\* the nodes that are left.
LEMMA PayFacts ==
  ASSUME skills \in Registry, NEW s \in DOMAIN skills, NEW nested \in CostType,
         NEW f, f.spent \in Nat, Pays(skills[s], nested, f)
  PROVE  LET m == skills[s]
             costs == Costs(m, nested)
         IN /\ f.spent <= Total(m, nested)
            /\ \A i \in Work(m) \ DOMAIN f.have : costs[i] \in Nat /\ f.spent + costs[i] <= Total(m, nested)
<1>. DEFINE m == skills[s]
            costs == Costs(m, nested)
            part == Work(m) \ DOMAIN f.have
<1>1. /\ Sum(costs, part) \in Nat
      /\ \A i \in part : costs[i] \in Nat /\ Sum(costs, part \ {i}) \in Nat
                           /\ Sum(costs, part) = costs[i] + Sum(costs, part \ {i})
  <2>1. part \in SUBSET Work(skills[s]) /\ costs = Costs(skills[s], nested) OBVIOUS
  <2>. HIDE DEF part, costs
  <2>2. \A c : c = Costs(skills[s], nested) =>
          /\ Sum(c, part) \in Nat
          /\ \A i \in part : c[i] \in Nat /\ Sum(c, part \ {i}) \in Nat
                              /\ Sum(c, part) = c[i] + Sum(c, part \ {i})
    BY <2>1, SumOfPart
  <2>. QED BY <2>1, <2>2
<1>2. f.spent + Sum(costs, part) <= Total(m, nested) BY DEF Pays
<1>3. Total(m, nested) \in Nat BY CostFacts
<1>. HIDE DEF m, costs, part
<1>4. f.spent <= Total(m, nested) BY <1>1, <1>2, <1>3
<1>5. ASSUME NEW i \in part PROVE costs[i] \in Nat /\ f.spent + costs[i] <= Total(m, nested)
  <2>1. /\ costs[i] \in Nat /\ Sum(costs, part \ {i}) \in Nat
        /\ Sum(costs, part) = costs[i] + Sum(costs, part \ {i})
    BY <1>1, Zenon
  <2>. QED BY <1>2, <1>3, <2>1
<1>. QED BY <1>4, <1>5 DEF m, costs, part

\* Whoever pays goes on paying once a node has run for no more than its cost.
LEMMA PaysOn ==
  ASSUME skills \in Registry, NEW s \in DOMAIN skills, NEW nested \in CostType,
         NEW f, f.spent \in Nat, Pays(skills[s], nested, f),
         NEW i \in DOMAIN skills[s].nodes \ DOMAIN f.have, NEW steps \in Nat,
         IF i \in Work(skills[s]) THEN steps <= Costs(skills[s], nested)[i] ELSE steps = 0,
         NEW g, g.spent = f.spent + steps, DOMAIN g.have = DOMAIN f.have \cup {i}
  PROVE  Pays(skills[s], nested, g)
<1>. DEFINE m == skills[s]
            costs == Costs(m, nested)
            part == Work(m) \ DOMAIN f.have
<1>1. /\ Sum(costs, part) \in Nat
      /\ \A j \in part : costs[j] \in Nat /\ Sum(costs, part \ {j}) \in Nat
                           /\ Sum(costs, part) = costs[j] + Sum(costs, part \ {j})
  <2>1. part \in SUBSET Work(skills[s]) /\ costs = Costs(skills[s], nested) OBVIOUS
  <2>. HIDE DEF part, costs
  <2>2. \A c : c = Costs(skills[s], nested) =>
          /\ Sum(c, part) \in Nat
          /\ \A j \in part : c[j] \in Nat /\ Sum(c, part \ {j}) \in Nat
                              /\ Sum(c, part) = c[j] + Sum(c, part \ {j})
    BY <2>1, SumOfPart
  <2>. QED BY <2>1, <2>2
<1>2. f.spent + Sum(costs, part) <= Total(m, nested) BY DEF Pays
<1>3. Total(m, nested) \in Nat BY CostFacts
<1>4. CASE i \in Work(m)
  <2>1. i \in part /\ Work(m) \ DOMAIN g.have = part \ {i} /\ steps <= costs[i] BY <1>4
  <2>. HIDE DEF m, costs, part
  <2>2. g.spent + Sum(costs, part \ {i}) <= Total(m, nested) BY <1>1, <1>2, <1>3, <2>1
  <2>. QED BY <2>1, <2>2 DEF Pays, m, costs
<1>5. CASE i \notin Work(m)
  <2>1. Work(m) \ DOMAIN g.have = part /\ g.spent = f.spent BY <1>5
  <2>. HIDE DEF part
  <2>. QED BY <1>2, <2>1 DEF Pays
<1>. QED BY <1>4, <1>5

-----------------------------------------------------------------------------
(* Stacks of frames.                                                       *)

Pieces(s) == {s[k] : k \in 1..Len(s)}

\* A sequence is one of its own elements.
LEMMA Piecewise ==
  ASSUME NEW T, NEW s \in Seq(T)
  PROVE  s \in Seq(Pieces(s))
<1>1. Len(s) \in Nat /\ s \in [1..Len(s) -> Pieces(s)] BY DEF Pieces
<1>. QED BY <1>1

\* What is below the top of a stack.
LEMMA BelowFacts ==
  ASSUME NEW T, NEW s \in Seq(T), s # <<>>
  PROVE  /\ Len(s) \in Nat \ {0} /\ Last(s) = s[Len(s)]
         /\ Below(s) \in Seq(T) /\ Len(Below(s)) = Len(s) - 1
         /\ \A k \in 1..(Len(s) - 1) : Below(s)[k] = s[k]
         /\ \A x : Append(Below(s), x) # <<>>
<1>1. Len(s) \in Nat \ {0} /\ Last(s) = s[Len(s)] BY DEF Last
<1>2. Below(s) = [k \in 1..(Len(s) - 1) |-> s[k]]
  <2>. DEFINE n == Len(s) - 1
  <2>1. n \in Nat BY <1>1
  <2>2. SubSeq(s, 1, n) = [k \in 1..n |-> s[k]] BY <1>1, <2>1
  <2>. QED BY <2>2 DEF Below
<1>3. Below(s) \in Seq(T) /\ Len(Below(s)) = Len(s) - 1 BY <1>1, <1>2
<1>4. \A x : Append(Below(s), x) # <<>>
  <2>. DEFINE b == Below(s)
  <2>1. b \in Seq(T) BY <1>3
  <2>. HIDE DEF b
  <2>2. \A x : Append(b, x) # <<>> BY <2>1
  <2>. QED BY <2>2 DEF b
<1>. QED BY <1>1, <1>2, <1>3, <1>4

\* What is on top of a stack.
LEMMA AppendFacts ==
  ASSUME NEW T, NEW s \in Seq(T), NEW x
  PROVE  /\ Append(s, x) \in Seq(Pieces(Append(s, x))) /\ Len(Append(s, x)) = Len(s) + 1
         /\ Append(s, x)[Len(s) + 1] = x
         /\ \A k \in 1..Len(s) : Append(s, x)[k] = s[k]
         /\ Append(s, x) # <<>>
<1>1. s \in Seq(T \cup {x}) OBVIOUS
<1>2. Append(s, x) \in Seq(T \cup {x}) BY <1>1
<1>3. Append(s, x) \in Seq(Pieces(Append(s, x))) BY <1>2, Piecewise
<1>. QED BY <1>1, <1>3

\* Frame g runs a nested skill for frame f.
CalledFrom(f, g) ==
  /\ g.node \in f.layer
  /\ LET n == Manifest(f).nodes[g.node] IN n.type = "skill" /\ Lookup(n) /\ n.skill = g.skill

\* A frame at the place k of the stack has spent what it may; the last of a
\* run that failed may have spent the rest.
Covered(fs, k, failed) ==
  \A d \in (MaxDepth + 1 - k)..MaxDepth :
    \/ Pays(Manifest(fs[k]), NestedCost[d], fs[k])
    \/ failed /\ k = Len(fs) /\ fs[k].spent <= Total(Manifest(fs[k]), NestedCost[d])

Runs(f) == f.skill \in DOMAIN skills /\ Own(Manifest(f), Loose, f)

IsStack(fs, failed) ==
  /\ fs \in Seq(Pieces(fs)) /\ Len(fs) <= MaxDepth + 1
  /\ fs # <<>> => fs[1].skill = Root
  /\ \A k \in 1..Len(fs) : Runs(fs[k]) /\ Covered(fs, k, failed)
  /\ \A k \in 2..Len(fs) : CalledFrom(fs[k - 1], fs[k])

\* The frame on top is replaced, its skill apart.
LEMMA TopReplaced ==
  ASSUME NEW fs, IsStack(fs, FALSE), fs # <<>>, NEW g, NEW failed \in BOOLEAN, Runs(g),
         g.skill = Last(fs).skill, g.node = Last(fs).node,
         \A d \in (MaxDepth + 1 - Len(fs))..MaxDepth :
           \/ Pays(Manifest(g), NestedCost[d], g)
           \/ failed /\ g.spent <= Total(Manifest(g), NestedCost[d])
  PROVE  IsStack(Append(Below(fs), g), failed)
<1>. DEFINE gs == Append(Below(fs), g)
<1>1. /\ fs \in Seq(Pieces(fs)) /\ Len(fs) <= MaxDepth + 1
      /\ \A k \in 1..Len(fs) : Runs(fs[k]) /\ Covered(fs, k, FALSE)
      /\ \A k \in 2..Len(fs) : CalledFrom(fs[k - 1], fs[k])
      /\ fs[1].skill = Root
  BY DEF IsStack
<1>2. /\ Len(fs) \in Nat \ {0} /\ Last(fs) = fs[Len(fs)]
      /\ Below(fs) \in Seq(Pieces(fs)) /\ Len(Below(fs)) = Len(fs) - 1
      /\ \A k \in 1..(Len(fs) - 1) : Below(fs)[k] = fs[k]
  BY <1>1, BelowFacts
<1>3. /\ gs \in Seq(Pieces(gs)) /\ Len(gs) = Len(Below(fs)) + 1 /\ gs[Len(Below(fs)) + 1] = g
      /\ \A k \in 1..Len(Below(fs)) : gs[k] = Below(fs)[k]
  BY <1>2, AppendFacts
<1>. HIDE DEF gs
<1>4. /\ Len(gs) = Len(fs) /\ gs[Len(fs)] = g /\ gs # <<>>
      /\ \A k \in 1..(Len(fs) - 1) : gs[k] = fs[k]
  BY <1>2, <1>3
<1>5. gs[1].skill = Root BY <1>1, <1>2, <1>4
<1>6. ASSUME NEW k \in 1..Len(gs) PROVE Runs(gs[k]) /\ Covered(gs, k, failed)
  <2>1. CASE k = Len(fs) BY <2>1, <1>4 DEF Covered
  <2>2. CASE k < Len(fs)
    <3>1. k \in 1..Len(fs) /\ k \in 1..(Len(fs) - 1) BY <2>2, <1>2, <1>4
    <3>2. gs[k] = fs[k] /\ Runs(fs[k]) /\ Covered(fs, k, FALSE) BY <3>1, <1>1, <1>4, Zenon
    <3>. QED BY <3>2 DEF Covered
  <2>. QED BY <2>1, <2>2, <1>2, <1>4
<1>7. ASSUME NEW k \in 2..Len(gs) PROVE CalledFrom(gs[k - 1], gs[k])
  <2>1. CalledFrom(fs[k - 1], fs[k]) /\ gs[k - 1] = fs[k - 1] BY <1>1, <1>2, <1>4
  <2>2. gs[k].node = fs[k].node /\ gs[k].skill = fs[k].skill BY <1>2, <1>4
  <2>. QED BY <2>1, <2>2 DEF CalledFrom
<1>. QED BY <1>1, <1>3, <1>4, <1>5, <1>6, <1>7 DEF IsStack, gs

\* A frame is added for a nested skill.
LEMMA TopAdded ==
  ASSUME NEW fs, IsStack(fs, FALSE), fs # <<>>, Len(fs) <= MaxDepth, NEW g, Runs(g),
         CalledFrom(Last(fs), g),
         \A d \in 0..MaxDepth : Pays(Manifest(g), NestedCost[d], g)
  PROVE  IsStack(Append(fs, g), FALSE)
<1>. DEFINE gs == Append(fs, g)
<1>1. /\ fs \in Seq(Pieces(fs))
      /\ \A k \in 1..Len(fs) : Runs(fs[k]) /\ Covered(fs, k, FALSE)
      /\ \A k \in 2..Len(fs) : CalledFrom(fs[k - 1], fs[k])
      /\ fs[1].skill = Root
  BY DEF IsStack
<1>2. Len(fs) \in Nat \ {0} /\ Last(fs) = fs[Len(fs)] BY <1>1, BelowFacts
<1>3. /\ gs \in Seq(Pieces(gs)) /\ Len(gs) = Len(fs) + 1 /\ gs[Len(fs) + 1] = g
      /\ \A k \in 1..Len(fs) : gs[k] = fs[k]
  BY <1>1, AppendFacts
<1>. HIDE DEF gs
<1>4. MaxDepth \in Nat BY DepthAssumption
<1>5. ASSUME NEW k \in 1..Len(gs) PROVE Runs(gs[k]) /\ Covered(gs, k, FALSE)
  <2>1. CASE k = Len(fs) + 1
    <3>1. \A d \in (MaxDepth + 1 - k)..MaxDepth : d \in 0..MaxDepth BY <2>1, <1>2, <1>4
    <3>. QED BY <2>1, <3>1, <1>3 DEF Covered
  <2>2. CASE k # Len(fs) + 1
    <3>1. k \in 1..Len(fs) BY <2>2, <1>2, <1>3
    <3>2. gs[k] = fs[k] /\ Runs(fs[k]) /\ Covered(fs, k, FALSE) BY <3>1, <1>1, <1>3, Zenon
    <3>. QED BY <3>2 DEF Covered
  <2>. QED BY <2>1, <2>2
<1>6. ASSUME NEW k \in 2..Len(gs) PROVE CalledFrom(gs[k - 1], gs[k])
  <2>1. CASE k = Len(fs) + 1 BY <2>1, <1>2, <1>3
  <2>2. CASE k # Len(fs) + 1 BY <2>2, <1>1, <1>2, <1>3
  <2>. QED BY <2>1, <2>2
<1>7. gs[1].skill = Root /\ Len(gs) <= MaxDepth + 1 BY <1>1, <1>2, <1>3, <1>4
<1>. QED BY <1>3, <1>5, <1>6, <1>7 DEF IsStack, gs

\* The frame on top is removed.
LEMMA TopRemoved ==
  ASSUME NEW fs, IsStack(fs, FALSE), fs # <<>>, Len(fs) # 1
  PROVE  IsStack(Below(fs), FALSE) /\ Below(fs) # <<>> /\ Last(Below(fs)) = fs[Len(fs) - 1]
<1>1. /\ fs \in Seq(Pieces(fs)) /\ Len(fs) <= MaxDepth + 1
      /\ \A k \in 1..Len(fs) : Runs(fs[k]) /\ Covered(fs, k, FALSE)
      /\ \A k \in 2..Len(fs) : CalledFrom(fs[k - 1], fs[k])
      /\ fs[1].skill = Root
  BY DEF IsStack
<1>2. /\ Len(fs) \in Nat \ {0} /\ Below(fs) \in Seq(Pieces(fs)) /\ Len(Below(fs)) = Len(fs) - 1
      /\ \A k \in 1..(Len(fs) - 1) : Below(fs)[k] = fs[k]
  BY <1>1, BelowFacts
<1>3. Below(fs) \in Seq(Pieces(Below(fs))) BY <1>2, Piecewise
<1>4. ASSUME NEW k \in 1..Len(Below(fs)) PROVE Runs(Below(fs)[k]) /\ Covered(Below(fs), k, FALSE)
  <2>1. k \in 1..Len(fs) /\ k \in 1..(Len(fs) - 1) BY <1>2
  <2>2. Below(fs)[k] = fs[k] /\ Runs(fs[k]) /\ Covered(fs, k, FALSE) BY <2>1, <1>1, <1>2, Zenon
  <2>. QED BY <2>2 DEF Covered
<1>5. ASSUME NEW k \in 2..Len(Below(fs)) PROVE CalledFrom(Below(fs)[k - 1], Below(fs)[k])
  BY <1>1, <1>2
<1>6. Below(fs)[1].skill = Root /\ Below(fs) # <<>> BY <1>1, <1>2
<1>7. Len(Below(fs)) <= MaxDepth + 1 BY <1>1, <1>2, DepthAssumption
<1>8. Last(Below(fs)) = fs[Len(fs) - 1]
  <2>1. Last(Below(fs)) = Below(fs)[Len(Below(fs))] BY DEF Last
  <2>. QED BY <1>2, <2>1
<1>9. IsStack(Below(fs), FALSE) BY <1>3, <1>4, <1>5, <1>6, <1>7 DEF IsStack
<1>. QED BY <1>6, <1>8, <1>9

\* The skills on a stack call one another.
LEMMA StackIsChain ==
  ASSUME NEW fs, NEW failed, IsStack(fs, failed), fs # <<>>
  PROVE  /\ Len(fs) \in 1..(MaxDepth + 1) /\ Last(fs) = fs[Len(fs)]
         /\ Chain([k \in 1..Len(fs) |-> fs[k].skill], Len(fs), Root)
<1>. DEFINE c == [k \in 1..Len(fs) |-> fs[k].skill]
<1>1. /\ fs \in Seq(Pieces(fs)) /\ Len(fs) <= MaxDepth + 1
      /\ \A k \in 1..Len(fs) : Runs(fs[k])
      /\ \A k \in 2..Len(fs) : CalledFrom(fs[k - 1], fs[k])
      /\ fs[1].skill = Root
  BY DEF IsStack
<1>2. Len(fs) \in Nat \ {0} /\ Last(fs) = fs[Len(fs)] BY <1>1, BelowFacts
<1>3. c \in [1..Len(fs) -> DOMAIN skills] BY <1>1 DEF Runs
<1>4. ASSUME NEW k \in 2..Len(fs) PROVE c[k] \in Called(c[k - 1])
  <2>1. k - 1 \in 1..Len(fs) /\ k \in 1..Len(fs) BY <1>2
  <2>2. CalledFrom(fs[k - 1], fs[k]) /\ Own(Manifest(fs[k - 1]), Loose, fs[k - 1])
    BY <1>1, <2>1 DEF Runs
  <2>3. fs[k].node \in DOMAIN skills[fs[k - 1].skill].nodes
    BY <2>2 DEF CalledFrom, Own, Manifest
  <2>4. fs[k].skill \in Called(fs[k - 1].skill) BY <2>2, <2>3 DEF CalledFrom, Called, Manifest
  <2>. QED BY <2>1, <2>4
<1>5. c[1] = Root BY <1>1, <1>2
<1>. HIDE DEF c
<1>6. Chain(c, Len(fs), Root) BY <1>3, <1>4, <1>5 DEF Chain
<1>7. Len(fs) \in 1..(MaxDepth + 1) BY <1>1, <1>2, DepthAssumption
<1>. QED BY <1>2, <1>6, <1>7 DEF c

\* The skills on a stack have been accepted, and none is there twice.
LEMMA StackTyped ==
  ASSUME TypeChecked(Root), NEW fs, NEW failed, IsStack(fs, failed), NEW k \in 1..Len(fs)
  PROVE  /\ fs[k].skill \in DOMAIN skills /\ Typed(Manifest(fs[k]))
         /\ \A j \in 1..Len(fs) : fs[j].skill = fs[k].skill => j = k
<1>. DEFINE c == [j \in 1..Len(fs) |-> fs[j].skill]
            cut == [j \in 1..k |-> c[j]]
<1>0. MaxDepth \in Nat BY DepthAssumption
<1>1. fs \in Seq(Pieces(fs)) BY DEF IsStack
<1>2. fs # <<>> BY <1>1
<1>3. Len(fs) \in 1..(MaxDepth + 1) /\ Chain(c, Len(fs), Root) BY <1>2, StackIsChain
<1>4. c[k] = fs[k].skill /\ c[k] \in DOMAIN skills BY <1>3 DEF Chain
<1>5. c \in Stacks(Root) BY <1>0, <1>3, StackFacts
<1>6. IsInjective(c) BY <1>5 DEF TypeChecked
<1>7. \A j \in 1..Len(fs) : fs[j].skill = fs[k].skill => j = k BY <1>6 DEF IsInjective
<1>. HIDE DEF c
<1>8. Chain(cut, k, Root) BY <1>3 DEF Chain
<1>9. cut \in Stacks(Root) /\ Len(cut) = k BY <1>0, <1>3, <1>8, StackFacts
<1>10. Last(cut) = c[k] BY <1>9 DEF Last
<1>11. c[k] \in Reached(Root) BY <1>9, <1>10 DEF Reached
<1>. QED BY <1>4, <1>7, <1>11 DEF TypeChecked, Manifest

-----------------------------------------------------------------------------
(* The steps a skill takes.                                                *)

SpentBy(fs) == [j \in DOMAIN fs |-> fs[j].spent]

\* What the frames from the kth on have spent, frame by frame.
LEMMA SpentFacts ==
  ASSUME NEW fs, NEW failed, IsStack(fs, failed), NEW k \in 1..Len(fs)
  PROVE  /\ Sum(SpentBy(fs), k..Len(fs)) \in Nat /\ fs[k].spent \in Nat
         /\ Sum(SpentBy(fs), k..Len(fs)) = fs[k].spent + (IF k = Len(fs) THEN 0 ELSE Sum(SpentBy(fs), (k + 1)..Len(fs)))
<1>. DEFINE n == Len(fs)
            c == SpentBy(fs)
            S == k..n
<1>1. fs \in Seq(Pieces(fs)) /\ \A j \in 1..n : Runs(fs[j]) BY DEF IsStack
<1>2. n \in Nat /\ DOMAIN fs = 1..n BY <1>1
<1>3. \A j \in 1..n : c[j] = fs[j].spent /\ c[j] \in Nat BY <1>1, <1>2 DEF SpentBy, Runs, Own
<1>. HIDE DEF c, n
<1>4. IsFiniteSet(S) /\ k \in S /\ \A j \in S : c[j] \in Nat
  <2>1. IsFiniteSet(S) BY <1>2, FS_Interval
  <2>. QED BY <1>2, <1>3, <2>1
<1>5. S \ {k} = (k + 1)..n BY <1>2
<1>. HIDE DEF S
<1>6. Sum(c, S) \in Nat /\ Sum(c, {}) = 0 /\ Sum(c, S) = c[k] + Sum(c, S \ {k}) BY <1>4, SumFacts
<1>7. k = n => S \ {k} = {} BY <1>2 DEF S
<1>. QED BY <1>3, <1>5, <1>6, <1>7 DEF S, c, n

\* Frame k of the stack and those above it have spent no more than its skill
\* costs, counted as deep as it may nest or deeper.
LEMMA SpentBound ==
  ASSUME skills \in Registry, NEW fs, NEW failed, IsStack(fs, failed), NEW k \in 1..Len(fs),
         NEW d \in (MaxDepth + 1 - k)..MaxDepth
  PROVE  Sum(SpentBy(fs), k..Len(fs)) <= Total(Manifest(fs[k]), NestedCost[d])
<1>. DEFINE n == Len(fs)
            Bound(j) == \A e \in (MaxDepth + 1 - j)..MaxDepth :
                          Sum(SpentBy(fs), j..n) <= Total(Manifest(fs[j]), NestedCost[e])
            S == {i \in Nat : i < n => Bound(n - i)}
<1>0. /\ MaxDepth \in Nat /\ fs \in Seq(Pieces(fs)) /\ n <= MaxDepth + 1 /\ n \in Nat
      /\ \A j \in 1..n : Runs(fs[j]) /\ Covered(fs, j, failed)
      /\ \A j \in 2..n : CalledFrom(fs[j - 1], fs[j])
  BY DepthAssumption DEF IsStack
<1>1. ASSUME NEW j \in 1..n, j # n => Bound(j + 1) PROVE Bound(j)
  <2>. SUFFICES ASSUME NEW e \in (MaxDepth + 1 - j)..MaxDepth
                PROVE  Sum(SpentBy(fs), j..n) <= Total(Manifest(fs[j]), NestedCost[e])
    OBVIOUS
  <2>. DEFINE m == Manifest(fs[j])
              nested == NestedCost[e]
              f == fs[j]
  <2>1. e \in 0..MaxDepth BY <1>0
  <2>2. nested \in CostType BY <2>1, NestedCostFacts
  <2>3. f.skill \in DOMAIN skills /\ m = skills[f.skill] /\ Own(m, Loose, f) BY <1>0 DEF Runs, Manifest
  <2>4. f.spent \in Nat BY <2>3 DEF Own
  <2>5. Total(m, nested) \in Nat BY <2>2, <2>3, CostFacts
  <2>6. CASE j = n
    <3>1. Sum(SpentBy(fs), j..n) = f.spent
      <4>1. Sum(SpentBy(fs), j..n) = f.spent + 0 BY <2>6, SpentFacts
      <4>. QED BY <2>4, <4>1
    <3>2. Pays(m, nested, f) \/ f.spent <= Total(m, nested) BY <1>0 DEF Covered
    <3>3. f.spent <= Total(m, nested) BY <2>2, <2>3, <2>4, <3>2, PayFacts
    <3>. QED BY <3>1, <3>3
  <2>7. CASE j # n
    <3>. DEFINE i == fs[j + 1].node
                above == Sum(SpentBy(fs), (j + 1)..n)
                child == fs[j + 1].skill
    <3>0. j + 1 \in 2..n /\ j + 1 \in 1..n /\ (j + 1) - 1 = j BY <1>0, <2>7
    <3>1. Sum(SpentBy(fs), j..n) = f.spent + above /\ above \in Nat
      BY <2>7, <3>0, SpentFacts
    <3>2. Pays(m, nested, f) BY <1>0, <2>7 DEF Covered
    <3>3. CalledFrom(f, fs[j + 1]) BY <1>0, <3>0
    <3>4. /\ i \in Work(m) \ DOMAIN f.have
          /\ m.nodes[i].type = "skill" /\ Lookup(m.nodes[i]) /\ m.nodes[i].skill = child
      BY <2>3, <3>3 DEF CalledFrom, Own, Work, Manifest
    <3>5. Costs(m, nested)[i] = nested[child] BY <3>4 DEF Costs
    <3>6. child \in DOMAIN skills BY <3>4 DEF Lookup
    <3>7. e \in 1..MaxDepth /\ e - 1 \in (MaxDepth + 1 - (j + 1))..MaxDepth BY <1>0, <2>7
    <3>8. above <= Total(skills[child], NestedCost[e - 1]) BY <1>1, <2>7, <3>7 DEF Manifest
    <3>9. Total(skills[child], NestedCost[e - 1]) <= nested[child] BY <3>6, <3>7, NestedCostFacts
    <3>10. Total(skills[child], NestedCost[e - 1]) \in Nat
      <4>1. NestedCost[e - 1] \in CostType
        <5>1. e - 1 \in 0..MaxDepth BY <3>7, <1>0
        <5>. QED BY <5>1, NestedCostFacts
      <4>. QED BY <4>1, <3>6, CostFacts
    <3>11. nested[child] \in Nat BY <2>2, <3>6 DEF CostType
    <3>12. f.spent + nested[child] <= Total(m, nested) BY <2>2, <2>3, <2>4, <3>2, <3>4, <3>5, PayFacts
    <3>. HIDE DEF above, nested, f, m, child
    <3>13. above <= nested[child] BY <3>1, <3>8, <3>9, <3>10, <3>11
    <3>14. f.spent + above <= Total(m, nested) BY <3>1, <3>11, <3>12, <3>13, <2>4, <2>5
    <3>. QED BY <3>1, <3>14 DEF m, nested, f
  <2>. QED BY <2>6, <2>7
<1>. HIDE DEF Bound
<1>2. 0 \in S
  <2>. SUFFICES ASSUME 0 < n PROVE Bound(n - 0) BY DEF S
  <2>1. n \in 1..n /\ n - 0 = n BY <1>0
  <2>. QED BY <1>1, <2>1
<1>3. ASSUME NEW i \in Nat, i \in S PROVE i + 1 \in S
  <2>. SUFFICES ASSUME i + 1 < n PROVE Bound(n - (i + 1)) BY DEF S
  <2>1. Bound(n - i) BY <1>0, <1>3
  <2>2. n - (i + 1) \in 1..n /\ (n - (i + 1)) + 1 = n - i BY <1>0
  <2>. HIDE DEF n
  <2>3. Bound((n - (i + 1)) + 1) BY <2>1, <2>2
  <2>. QED BY <1>1, <2>2, <2>3
<1>. HIDE DEF S
<1>4. Nat \subseteq S BY <1>2, <1>3, Induction
<1>5. n - k \in S /\ n - k < n /\ n - (n - k) = k BY <1>0, <1>4
<1>6. Bound(k) BY <1>5 DEF S
<1>. QED BY <1>6 DEF Bound

\* No nested skill is permitted what its callers are not.
LEMMA PermitsShrink ==
  ASSUME TypeChecked(Root), NEW fs, NEW failed, IsStack(fs, failed),
         NEW k \in 1..Len(fs), NEW j \in 1..k
  PROVE  Manifest(fs[k]).permits \subseteq Manifest(fs[j]).permits
<1>. DEFINE Grows(i) == j + i <= Len(fs) => Manifest(fs[j + i]).permits \subseteq Manifest(fs[j]).permits
            S == {i \in Nat : Grows(i)}
<1>0. /\ fs \in Seq(Pieces(fs)) /\ Len(fs) \in Nat
      /\ \A i \in 2..Len(fs) : CalledFrom(fs[i - 1], fs[i])
      /\ \A i \in 1..Len(fs) : Runs(fs[i])
  BY DEF IsStack
<1>1. 0 \in S
  <2>1. j + 0 = j OBVIOUS
  <2>. QED BY <2>1
<1>2. ASSUME NEW i \in 2..Len(fs) PROVE Manifest(fs[i]).permits \subseteq Manifest(fs[i - 1]).permits
  <2>. DEFINE f == fs[i - 1]
              m == Manifest(f)
              n == m.nodes[fs[i].node]
  <2>0. i - 1 \in 1..Len(fs) BY <1>0
  <2>1. Typed(m) BY <2>0, StackTyped
  <2>2. CalledFrom(f, fs[i]) /\ Own(m, Loose, f) BY <1>0, <2>0 DEF Runs
  <2>3. fs[i].node \in DOMAIN m.nodes /\ n.type = "skill" /\ n.skill = fs[i].skill
    BY <2>2 DEF CalledFrom, Own
  <2>4. Nested(m, n) BY <2>1, <2>3, TypedIsWired
  <2>. QED BY <2>3, <2>4 DEF Nested, Grants, Manifest
<1>3. ASSUME NEW i \in Nat, i \in S PROVE i + 1 \in S
  <2>. SUFFICES ASSUME j + (i + 1) <= Len(fs)
                PROVE  Manifest(fs[j + (i + 1)]).permits \subseteq Manifest(fs[j]).permits
    OBVIOUS
  <2>1. j + (i + 1) \in 2..Len(fs) /\ (j + (i + 1)) - 1 = j + i BY <1>0
  <2>2. Manifest(fs[j + (i + 1)]).permits \subseteq Manifest(fs[j + i]).permits BY <1>2, <2>1
  <2>3. Manifest(fs[j + i]).permits \subseteq Manifest(fs[j]).permits BY <1>0, <1>3
  <2>. QED BY <2>2, <2>3
<1>. HIDE DEF S
<1>4. Nat \subseteq S BY <1>1, <1>3, Induction
<1>5. k - j \in S /\ j + (k - j) = k BY <1>0, <1>4
<1>6. Grows(k - j) BY <1>5 DEF S
<1>. QED BY <1>0, <1>5, <1>6

-----------------------------------------------------------------------------
(* Skill contracts: the invariant and the steps.                           *)

\* What the outermost skill has returned is what it promises.
ResultFits ==
  \A p \in DOMAIN skills[Root].outs :
    LET port == skills[Root].outs[p]
    IN /\ port.required => p \in DOMAIN result
       /\ p \in DOMAIN result => result[p] = port.kind

ContractInv ==
  /\ skills \in Registry
  /\ phase \in {"new", "checked", "running", "done", "refused", "failed"}
  /\ why \in Reason /\ (why # "" <=> phase \in {"refused", "failed"})
  /\ frames # <<>> <=> phase \in {"running", "done", "failed"}
  /\ phase \notin {"new", "refused"} => TypeChecked(Root)
  /\ frames # <<>> => Missing(Root) = {}
  /\ IsStack(frames, phase = "failed")
  /\ AcceptedSkillsAreWired
  /\ phase = "done" => ResultFits

\* A stack of frames is one after a step that leaves the registry alone.
LEMMA StackPrimed ==
  ASSUME skills' = skills, NEW failed \in BOOLEAN, IsStack(frames', failed), (phase = "failed")' = failed
  PROVE  IsStack(frames, phase = "failed")'
<1>1. NestedCost' = NestedCost /\ (Loose' <=> Loose) BY Steady
<1>2. (\A k \in 1..Len(frames) : Runs(frames[k]))'
  <2>1. \A k \in 1..Len(frames') : Runs(frames'[k]) BY DEF IsStack
  <2>. QED BY <1>1, <2>1 DEF Runs, Manifest, Own, Sound
<1>3. (\A k \in 2..Len(frames) : CalledFrom(frames[k - 1], frames[k]))'
  <2>1. \A k \in 2..Len(frames') : CalledFrom(frames'[k - 1], frames'[k]) BY DEF IsStack
  <2>. QED BY <2>1 DEF CalledFrom, Manifest, Lookup
<1>4. (\A k \in 1..Len(frames) : Covered(frames, k, phase = "failed"))'
  <2>1. \A k \in 1..Len(frames') : Covered(frames', k, failed) BY DEF IsStack
  <2>2. ASSUME NEW k \in 1..Len(frames'), NEW d \in (MaxDepth + 1 - k)..MaxDepth
        PROVE  \/ Pays(Manifest(frames[k]), NestedCost[d], frames[k])'
               \/ failed /\ k = Len(frames') /\ frames'[k].spent <= Total(Manifest(frames[k]), NestedCost[d])'
    <3>1. \/ Pays(Manifest(frames'[k]), NestedCost[d], frames'[k])
          \/ failed /\ k = Len(frames') /\ frames'[k].spent <= Total(Manifest(frames'[k]), NestedCost[d])
      BY <2>1 DEF Covered
    <3>2. Costs(Manifest(frames[k]), NestedCost[d])' = Costs(Manifest(frames'[k]), NestedCost[d])
      BY <1>1 DEF Costs, Lookup, Manifest
    <3>3. Manifest(frames[k])' = Manifest(frames'[k]) BY DEF Manifest
    <3>. QED BY <3>1, <3>2, <3>3 DEF Pays, Total
  <2>. QED BY <2>2 DEF Covered
<1>. QED BY <1>2, <1>3, <1>4 DEF IsStack, Pieces

\* What a skill that runs relies on.
LEMMA RunningFacts ==
  ASSUME ContractInv, phase = "running"
  PROVE  /\ skills \in Registry /\ TypeChecked(Root) /\ Missing(Root) = {}
         /\ frames # <<>> /\ IsStack(frames, FALSE) /\ Len(frames) \in 1..(MaxDepth + 1)
         /\ Top = frames[Len(frames)] /\ Top.skill \in DOMAIN skills
         /\ Own(Manifest(Top), Loose, Top) /\ Wired(Manifest(Top)) /\ why = ""
         /\ \A i \in DOMAIN Manifest(Top).nodes :
              Manifest(Top).nodes[i].type = "skill" => Nested(Manifest(Top), Manifest(Top).nodes[i])
<1>1. /\ skills \in Registry /\ TypeChecked(Root) /\ Missing(Root) = {} /\ why = ""
      /\ frames # <<>> /\ IsStack(frames, FALSE)
  BY DEF ContractInv
<1>2. Len(frames) \in 1..(MaxDepth + 1) /\ Top = frames[Len(frames)]
  BY <1>1, StackIsChain DEF Top
<1>. DEFINE n == Len(frames)
<1>3. n \in 1..n BY <1>2, DepthAssumption
<1>4. Runs(frames[n]) BY <1>1, <1>3 DEF IsStack
<1>5. Typed(Manifest(frames[n])) BY <1>1, <1>3, StackTyped
<1>. QED BY <1>1, <1>2, <1>4, <1>5, TypedIsWired DEF Runs

\* A node of the skill on top has run.
LEMMA PublishedStack ==
  ASSUME skills \in Registry, NEW fs, IsStack(fs, FALSE), fs # <<>>, NEW i \in Last(fs).layer,
         NEW produced, Sound(Manifest(Last(fs)), Loose, i, produced), NEW steps \in Nat,
         \A d \in (MaxDepth + 1 - Len(fs))..MaxDepth :
           IF i \in Work(Manifest(Last(fs)))
           THEN steps <= Costs(Manifest(Last(fs)), NestedCost[d])[i] ELSE steps = 0
  PROVE  IsStack(Append(Below(fs), Published(Last(fs), i, produced, steps)), FALSE)
<1>. DEFINE f == Last(fs)
            m == Manifest(f)
            g == Published(f, i, produced, steps)
<1>1. Len(fs) \in 1..(MaxDepth + 1) /\ f = fs[Len(fs)] BY StackIsChain
<1>2. MaxDepth \in Nat BY DepthAssumption
<1>3. Runs(f) /\ Covered(fs, Len(fs), FALSE)
  <2>1. Len(fs) \in 1..Len(fs) BY <1>1, <1>2
  <2>2. Runs(fs[Len(fs)]) /\ Covered(fs, Len(fs), FALSE) BY <2>1 DEF IsStack
  <2>. QED BY <1>1, <2>2, Zenon
<1>4. f.skill \in DOMAIN skills /\ Own(m, Loose, f) /\ f.spent \in Nat BY <1>3 DEF Runs, Own
<1>. HIDE DEF f
<1>5. /\ Own(m, Loose, g)
      /\ g.skill = f.skill /\ g.node = f.node /\ g.spent = f.spent + steps
      /\ DOMAIN g.have = DOMAIN f.have \cup {i}
  <2>1. i \in f.layer /\ Sound(m, Loose, i, produced) BY DEF f
  <2>. QED BY <1>4, <2>1, PublishedOwn
<1>. HIDE DEF g
<1>6. Runs(g) BY <1>4, <1>5 DEF Runs, Manifest
<1>7. ASSUME NEW d \in (MaxDepth + 1 - Len(fs))..MaxDepth PROVE Pays(Manifest(g), NestedCost[d], g)
  <2>1. d \in 0..MaxDepth BY <1>1, <1>2
  <2>2. NestedCost[d] \in CostType BY <2>1, NestedCostFacts
  <2>3. Pays(m, NestedCost[d], f) BY <1>1, <1>3 DEF Covered
  <2>4. i \in DOMAIN m.nodes \ DOMAIN f.have BY <1>4 DEF Own, f
  <2>5. IF i \in Work(m) THEN steps <= Costs(m, NestedCost[d])[i] ELSE steps = 0 BY DEF f
  <2>6. m = skills[f.skill] /\ Manifest(g) = m BY <1>5 DEF Manifest
  <2>. HIDE DEF m
  <2>. QED BY <1>4, <1>5, <2>2, <2>3, <2>4, <2>5, <2>6, PaysOn
<1>8. g.skill = Last(fs).skill /\ g.node = Last(fs).node BY <1>5 DEF f
<1>9. IsStack(Append(Below(fs), g), FALSE) BY <1>6, <1>7, <1>8, TopReplaced
<1>. QED BY <1>9 DEF g, f

\* The same of the skill that runs.
LEMMA PublishStep ==
  ASSUME ContractInv, phase = "running", NEW i \in Top.layer, NEW produced, NEW steps \in Nat,
         Sound(Manifest(Top), Loose, i, produced), Publish(i, produced, steps),
         \A d \in (MaxDepth + 1 - Len(frames))..MaxDepth :
           IF i \in Work(Manifest(Top)) THEN steps <= Costs(Manifest(Top), NestedCost[d])[i] ELSE steps = 0
  PROVE  IsStack(frames', FALSE) /\ frames' # <<>> /\ UNCHANGED <<skills, phase, why, result>>
<1>1. frames' = Append(Below(frames), Published(Top, i, produced, steps)) /\ UNCHANGED <<skills, phase, why, result>>
  BY DEF Publish
<1>2. IsStack(frames, FALSE) /\ frames # <<>> /\ skills \in Registry BY RunningFacts
<1>3. IsStack(frames', FALSE) BY <1>1, <1>2, PublishedStack DEF Top
<1>4. frames' # <<>>
  <2>1. frames \in Seq(Pieces(frames)) BY <1>2 DEF IsStack
  <2>. QED BY <1>1, <1>2, <2>1, BelowFacts
<1>. QED BY <1>1, <1>3, <1>4

\* What a step leaves of the invariant when a skill goes on running.
LEMMA GoesOn ==
  ASSUME ContractInv, phase = "running", IsStack(frames', FALSE), frames' # <<>>,
         UNCHANGED <<skills, phase, why, result>>
  PROVE  ContractInv'
<1>1. TypeChecked(Root)' /\ Missing(Root)' = {} BY RunningFacts, Steady
<1>2. IsStack(frames, phase = "failed")'
  <2>1. (phase = "failed")' = FALSE OBVIOUS
  <2>. QED BY <2>1, StackPrimed
<1>. QED BY <1>1, <1>2 DEF ContractInv, AcceptedSkillsAreWired

\* A run fails where it stands.
LEMMA FailsThere ==
  ASSUME ContractInv, phase = "running", NEW reason \in Reason, reason # "", Fail(reason),
         reason = "handler" \/ (Loose /\ reason \in {"reference", "inputs"}) \/ (Stray /\ reason = "reference")
  PROVE  ContractInv'
<1>1. UNCHANGED <<skills, frames, result>> /\ phase' = "failed" /\ why' = reason BY DEF Fail
<1>2. TypeChecked(Root)' /\ Missing(Root)' = {} /\ (Loose' <=> Loose) /\ (Stray' <=> Stray)
  BY <1>1, RunningFacts, Steady
<1>3. IsStack(frames, phase = "failed")'
  <2>1. IsStack(frames, FALSE) BY RunningFacts
  <2>2. IsStack(frames', TRUE) BY <1>1, <2>1 DEF IsStack, Covered
  <2>3. (phase = "failed")' = TRUE BY <1>1
  <2>. QED BY <1>1, <2>2, <2>3, StackPrimed
<1>4. AcceptedSkillsAreWired' BY <1>1, <1>2 DEF AcceptedSkillsAreWired
<1>5. frames' # <<>> BY <1>1, RunningFacts
<1>. QED BY <1>1, <1>2, <1>3, <1>4, <1>5 DEF ContractInv

\* What the nodes cost, those apart that call a skill.
LEMMA PlainCost ==
  ASSUME NEW m, NEW nested, NEW i \in DOMAIN m.nodes
  PROVE  /\ m.nodes[i].type \in {"input", "output"} => i \notin Work(m)
         /\ m.nodes[i].type \in {"tool", "loop", "fallback", "join", "parallel"} =>
              i \in Work(m) /\ Costs(m, nested)[i] = Times(m.nodes[i])
<1>1. m.nodes[i].type \in {"input", "output"} => i \notin Work(m) BY DEF Work
<1>2. ASSUME m.nodes[i].type \in {"tool", "loop", "fallback", "join", "parallel"}
      PROVE  i \in Work(m) /\ Costs(m, nested)[i] = Times(m.nodes[i])
  <2>1. i \in Work(m) BY <1>2 DEF Work
  <2>2. m.nodes[i].type # "skill" BY <1>2
  <2>. QED BY <2>1, <2>2 DEF Costs
<1>. QED BY <1>1, <1>2

\* A reference leads nowhere only where the checks are loose.
LEMMA LooseEndStep ==
  ASSUME ContractInv, phase = "running", NEW i \in Top.layer, LooseEnd(i)
  PROVE  ContractInv'
<1>. DEFINE m == Manifest(Top)
<1>1. Own(m, Loose, Top) /\ Wired(m) /\ Top.skill \in DOMAIN skills BY RunningFacts
<1>2. ~Available(Top, m.nodes[i]) BY DEF LooseEnd
<1>3. i \in DOMAIN m.nodes BY <1>1 DEF Own
<1>4. Loose \/ Stray
  <2>. SUFFICES ASSUME ~Loose, ~Stray PROVE FALSE OBVIOUS
  <2>1. Own(m, FALSE, Top) BY <1>1 DEF Own, Sound
  <2>2. m.nodes[i].type = "output" => \A p \in DOMAIN m.nodes[i].in \ DOMAIN m.outs :
          m.nodes[i].in[p] # Literal => IsDeclared(m, m.nodes[i].in[p])
    BY <1>1, <1>3 DEF Stray, Manifest
  <2>. HIDE DEF m
  <2>. QED BY <1>1, <1>2, <2>1, <2>2, RefsLead
<1>5. Fail("reference") BY DEF LooseEnd
<1>. QED BY <1>4, <1>5, FailsThere DEF Reason

\* The invariant outlives a node that runs no handler.
LEMMA BookkeepingStep ==
  ASSUME ContractInv, phase = "running", NEW i \in Top.layer, Bookkeeping(i)
  PROVE  ContractInv'
<1>. DEFINE m == Manifest(Top)
            n == m.nodes[i]
            produced == IF n.type = "join" THEN n.out ELSE Resolve(Top, n)
            steps == IF n.type \in {"parallel", "join"} THEN 1 ELSE 0
<1>1. Own(m, Loose, Top) /\ Wired(m) BY RunningFacts
<1>2. n.type \in {"input", "output", "parallel", "join"} /\ Available(Top, n) /\ Publish(i, produced, steps)
  BY DEF Bookkeeping
<1>3. i \in DOMAIN m.nodes BY <1>1 DEF Own
<1>4. Sound(m, Loose, i, produced)
  <2>1. CASE n.type = "join" BY <2>1, HandlersSound
  <2>2. CASE n.type # "join"
    <3>1. n.type \in {"input", "output", "parallel"} /\ produced = Resolve(Top, n) BY <1>2, <2>2
    <3>. HIDE DEF produced, m
    <3>2. Sound(m, Loose, i, Resolve(Top, n)) BY <1>1, <1>2, <3>1, BookkeepingSound
    <3>. QED BY <3>1, <3>2
  <2>. QED BY <2>1, <2>2
<1>5. \A nested : IF i \in Work(m) THEN steps <= Costs(m, nested)[i] ELSE steps = 0
  <2>. SUFFICES ASSUME NEW nested PROVE IF i \in Work(m) THEN steps <= Costs(m, nested)[i] ELSE steps = 0
    OBVIOUS
  <2>1. CASE n.type \in {"input", "output"}
    <3>1. i \notin Work(m) /\ steps = 0 BY <1>3, <2>1, PlainCost
    <3>. QED BY <3>1
  <2>2. CASE n.type \in {"parallel", "join"}
    <3>1. Costs(m, nested)[i] = Times(n) /\ i \in Work(m) BY <1>3, <2>2, PlainCost
    <3>2. Times(n) = 1 /\ steps = 1 BY <2>2 DEF Times
    <3>. QED BY <3>1, <3>2
  <2>. QED BY <1>2, <2>1, <2>2
<1>6. steps \in Nat OBVIOUS
<1>. HIDE DEF produced, steps
<1>7. IsStack(frames', FALSE) /\ frames' # <<>> /\ UNCHANGED <<skills, phase, why, result>>
  BY <1>2, <1>4, <1>5, <1>6, PublishStep
<1>. QED BY <1>7, GoesOn

\* A frame that has spent more and produced no more.
LEMMA DearerFrame ==
  ASSUME NEW m, NEW loose, NEW f, Own(m, loose, f), NEW steps \in Nat
  PROVE  LET g == [f EXCEPT !.spent = @ + steps]
         IN /\ Own(m, loose, g)
            /\ g.skill = f.skill /\ g.node = f.node /\ g.spent = f.spent + steps
<1>. DEFINE g == [f EXCEPT !.spent = @ + steps]
<1>1. IsFrame(f) /\ f.spent \in Nat BY DEF Own
<1>2. [f EXCEPT !.have = f.have, !.spent = f.spent + steps, !.layer = f.layer]
        = [skill |-> f.skill, node |-> f.node, given |-> f.given, have |-> f.have,
           spent |-> f.spent + steps, layer |-> f.layer]
  <2>1. \A h, l, k : [f EXCEPT !.have = h, !.spent = k, !.layer = l]
           = [skill |-> f.skill, node |-> f.node, given |-> f.given, have |-> h,
              spent |-> k, layer |-> l]
    BY <1>1, FrameExcept
  <2>. QED BY <2>1
<1>3. g = [skill |-> f.skill, node |-> f.node, given |-> f.given, have |-> f.have,
           spent |-> f.spent + steps, layer |-> f.layer]
  <2>1. DOMAIN f = {"skill", "node", "given", "have", "spent", "layer"} BY <1>1 DEF IsFrame
  <2>2. g = [f EXCEPT !.have = f.have, !.spent = f.spent + steps, !.layer = f.layer] BY <2>1
  <2>. HIDE DEF g
  <2>. QED BY <1>2, <2>2, Zenon
<1>4. /\ g.skill = f.skill /\ g.node = f.node /\ g.given = f.given /\ g.have = f.have
      /\ g.spent = f.spent + steps /\ g.layer = f.layer
  BY <1>3
<1>5. IsFrame(g) /\ g.spent \in Nat BY <1>1, <1>3, <1>4 DEF IsFrame
<1>. HIDE DEF g
<1>6. Own(m, loose, g) BY <1>4, <1>5 DEF Own
<1>. QED BY <1>4, <1>6 DEF g

\* It outlives the handlers, those that fail included.
LEMMA InvokeStep ==
  ASSUME ContractInv, phase = "running", NEW i \in Top.layer, Invoke(i)
  PROVE  ContractInv'
<1>. DEFINE m == Manifest(Top)
            n == m.nodes[i]
            g == [Top EXCEPT !.spent = @ + Times(n)]
<1>1. Own(m, Loose, Top) /\ Wired(m) /\ Top.skill \in DOMAIN skills /\ skills \in Registry BY RunningFacts
<1>2. i \in DOMAIN m.nodes BY <1>1 DEF Own
<1>3. n.type \in {"tool", "loop", "fallback"} BY DEF Invoke
<1>4. i \in Work(m) /\ \A nested : Costs(m, nested)[i] = Times(n) BY <1>2, <1>3, PlainCost
<1>5. Times(n) \in Nat
  <2>1. [s \in DOMAIN skills |-> 0] \in CostType BY DEF CostType
  <2>. QED BY <1>1, <1>4, <2>1, CostFacts DEF Manifest
<1>6. ASSUME NEW k \in 1..Times(n), Publish(i, n.out, k) PROVE ContractInv'
  <2>1. Sound(m, Loose, i, n.out) BY <1>3, HandlersSound
  <2>2. k \in Nat /\ k <= Times(n) BY <1>5
  <2>3. \A d \in (MaxDepth + 1 - Len(frames))..MaxDepth :
          IF i \in Work(m) THEN k <= Costs(m, NestedCost[d])[i] ELSE k = 0
    BY <1>4, <2>2
  <2>4. IsStack(frames', FALSE) /\ frames' # <<>> /\ UNCHANGED <<skills, phase, why, result>>
    BY <1>6, <2>1, <2>2, <2>3, PublishStep
  <2>. QED BY <2>4, GoesOn
<1>7. ASSUME frames' = Append(Below(frames), g), phase' = "failed", why' = "handler", UNCHANGED <<skills, result>>
      PROVE  ContractInv'
  <2>1. /\ IsStack(frames, FALSE) /\ frames # <<>> /\ Len(frames) \in 1..(MaxDepth + 1)
        /\ Top = frames[Len(frames)] /\ TypeChecked(Root) /\ Missing(Root) = {}
    BY RunningFacts
  <2>2. Own(m, Loose, g) /\ g.skill = Top.skill /\ g.node = Top.node /\ g.spent = Top.spent + Times(n)
    BY <1>1, <1>5, DearerFrame
  <2>. HIDE DEF g
  <2>3. Runs(g) /\ Manifest(g) = m BY <1>1, <2>2 DEF Runs, Manifest
  <2>4. Covered(frames, Len(frames), FALSE) /\ Top.spent \in Nat
    <3>1. Len(frames) \in 1..Len(frames) BY <2>1, DepthAssumption
    <3>. QED BY <1>1, <2>1, <3>1 DEF IsStack, Own
  <2>5. ASSUME NEW d \in (MaxDepth + 1 - Len(frames))..MaxDepth PROVE g.spent <= Total(m, NestedCost[d])
    <3>1. d \in 0..MaxDepth BY <2>1, DepthAssumption
    <3>2. NestedCost[d] \in CostType BY <1>1, <3>1, NestedCostFacts
    <3>3. Pays(m, NestedCost[d], Top) BY <2>1, <2>4 DEF Covered
    <3>4. i \in Work(m) \ DOMAIN Top.have BY <1>1, <1>4 DEF Own
    <3>5. Top.spent + Costs(m, NestedCost[d])[i] <= Total(m, NestedCost[d])
      BY <1>1, <2>4, <3>2, <3>3, <3>4, PayFacts DEF Manifest
    <3>. QED BY <1>4, <2>2, <3>5
  <2>6. IsStack(frames', TRUE) BY <1>7, <2>1, <2>2, <2>3, <2>5, TopReplaced DEF Top
  <2>7. IsStack(frames, phase = "failed")'
    <3>1. (phase = "failed")' = TRUE BY <1>7
    <3>. QED BY <1>7, <2>6, <3>1, StackPrimed
  <2>8. TypeChecked(Root)' /\ Missing(Root)' = {} BY <1>7, <2>1, Steady
  <2>9. frames' # <<>>
    <3>1. frames \in Seq(Pieces(frames)) BY <2>1 DEF IsStack
    <3>. QED BY <1>7, <2>1, <3>1, BelowFacts
  <2>. QED BY <1>1, <1>7, <2>7, <2>8, <2>9 DEF ContractInv, AcceptedSkillsAreWired, Reason
<1>8. \/ \E k \in 1..Times(n) : Publish(i, n.out, k)
      \/ frames' = Append(Below(frames), g) /\ phase' = "failed" /\ why' = "handler" /\ UNCHANGED <<skills, result>>
  BY DEF Invoke
<1>. QED BY <1>6, <1>7, <1>8

\* A skill that begins.
LEMMA FrameFacts ==
  ASSUME skills \in Registry, NEW s \in DOMAIN skills, NEW i, NEW given, Suffices(skills[s], given)
  PROVE  LET f == Frame(s, i, given)
         IN /\ Runs(f) /\ f.skill = s /\ f.node = i
            /\ \A d \in 0..MaxDepth : Pays(Manifest(f), NestedCost[d], f)
<1>. DEFINE f == Frame(s, i, given)
            m == skills[s]
<1>1. f = [skill |-> s, node |-> i, given |-> given, have |-> Empty, spent |-> 0, layer |-> NextLayer(m, Empty)]
  BY DEF Frame
<1>2. f.skill = s /\ f.node = i /\ f.given = given /\ f.have = Empty /\ f.spent = 0 /\ f.layer = NextLayer(m, Empty)
  BY <1>1
<1>3. DOMAIN Empty = {} BY DEF Empty
<1>4. IsFrame(f) BY <1>1, <1>2 DEF IsFrame
<1>. HIDE DEF f, m
<1>5. Own(m, Loose, f)
  <2>1. f.layer \subseteq DOMAIN m.nodes \ DOMAIN f.have BY <1>2 DEF NextLayer
  <2>2. \A j \in f.layer : m.nodes[j].type = "input" \/ Needs(m.nodes, j) \subseteq DOMAIN f.have
    BY <1>2 DEF NextLayer
  <2>3. Suffices(m, f.given) BY <1>2 DEF m
  <2>. QED BY <1>2, <1>3, <1>4, <2>1, <2>2, <2>3 DEF Own
<1>6. Manifest(f) = m BY <1>2 DEF Manifest, m
<1>7. ASSUME NEW d \in 0..MaxDepth PROVE Pays(m, NestedCost[d], f)
  <2>1. Total(m, NestedCost[d]) \in Nat BY NestedCostFacts, CostFacts DEF m
  <2>2. Work(m) \ DOMAIN f.have = Work(m) BY <1>2, <1>3
  <2>3. 0 + Sum(Costs(m, NestedCost[d]), Work(m)) <= Total(m, NestedCost[d]) BY <2>1 DEF Total
  <2>. QED BY <1>2, <2>2, <2>3 DEF Pays
<1>. QED BY <1>2, <1>5, <1>6, <1>7 DEF Runs, f

\* What a nested skill is given is what it asks for, unless it is called
\* loosely.
LEMMA NestedIsGiven ==
  ASSUME ContractInv, phase = "running", NEW i \in Top.layer, ~Loose,
         Manifest(Top).nodes[i].type = "skill", Available(Top, Manifest(Top).nodes[i]),
         Wired(skills[Manifest(Top).nodes[i].skill])
  PROVE  Suffices(skills[Manifest(Top).nodes[i].skill], Resolve(Top, Manifest(Top).nodes[i]))
<1>. DEFINE m == Manifest(Top)
            n == m.nodes[i]
            child == skills[n.skill]
            given == Resolve(Top, n)
<1>1. Own(m, Loose, Top) /\ Wired(m) /\ Top.skill \in DOMAIN skills BY RunningFacts
<1>2. i \in DOMAIN m.nodes BY <1>1 DEF Own
<1>3. Nested(m, n) BY <1>2, RunningFacts
<1>4. DOMAIN n.in = DOMAIN child.ins /\ \A p \in DOMAIN n.in : n.in[p] # Literal
  <2>1. i \in Work(m) BY <1>2 DEF Work
  <2>2. Lookup(n) BY <1>3 DEF Nested
  <2>3. \A s \in DOMAIN skills : \A j \in Work(skills[s]) :
          skills[s].nodes[j].type = "skill" /\ Lookup(skills[s].nodes[j]) =>
            /\ DOMAIN skills[s].nodes[j].in = DOMAIN skills[skills[s].nodes[j].skill].ins
            /\ \A p \in DOMAIN skills[s].nodes[j].in : skills[s].nodes[j].in[p] # Literal
    BY DEF Loose
  <2>4. m = skills[Top.skill] /\ n.type = "skill" BY DEF Manifest
  <2>. HIDE DEF m
  <2>. QED BY <1>1, <2>1, <2>2, <2>3, <2>4
<1>5. DOMAIN given = DOMAIN n.in BY DEF Resolve
<1>6. ASSUME NEW p \in DOMAIN given PROVE given[p] = child.ins[p].kind
  <2>1. p \in DOMAIN n.in /\ n.in[p] # Literal BY <1>4, <1>5
  <2>2. IsDeclared(m, n.in[p]) /\ n.accepts[p] = KindOf(m, n.in[p])
    BY <1>1, <1>2, <2>1 DEF Wired, EdgesAreTyped
  <2>. HIDE DEF given, m
  <2>3. Resolve(Top, n)[p] = KindOf(m, n.in[p]) BY <1>1, <2>1, <2>2, ValueFacts DEF m
  <2>. QED BY <1>3, <2>1, <2>2, <2>3 DEF Nested, given
<1>7. Referenced(child) \subseteq DOMAIN child.ins
  <2>1. \A j \in DOMAIN child.nodes : \A r \in Refs(child.nodes[j]) : r[1] = "input" => r[2] \in DOMAIN child.ins
    BY DEF Wired, WellFormed
  <2>2. \A j \in DOMAIN child.nodes : child.nodes[j].type = "input" => child.nodes[j].name \in DOMAIN child.ins
    BY DEF Wired
  <2>. HIDE DEF child
  <2>. QED BY <2>1, <2>2 DEF Referenced
<1>. HIDE DEF given, child
<1>8. InputsFit(child, given) BY <1>4, <1>5, <1>6 DEF InputsFit
<1>9. Suffices(child, given) BY <1>4, <1>5, <1>7, <1>8 DEF Suffices
<1>. QED BY <1>9 DEF given, child

\* It outlives the call of a nested skill, which is refused for its inputs at most,
\* and only where one is called loosely.
LEMMA EnterStep ==
  ASSUME ContractInv, phase = "running", NEW i \in Top.layer, Enter(i)
  PROVE  ContractInv'
<1>. DEFINE m == Manifest(Top)
            n == m.nodes[i]
            given == Resolve(Top, n)
            c == [k \in 1..Len(frames) |-> frames[k].skill]
<1>1. /\ Own(m, Loose, Top) /\ Wired(m) /\ Top.skill \in DOMAIN skills /\ skills \in Registry
      /\ IsStack(frames, FALSE) /\ frames # <<>> /\ TypeChecked(Root) /\ Missing(Root) = {}
      /\ Len(frames) \in 1..(MaxDepth + 1) /\ Top = frames[Len(frames)]
  BY RunningFacts
<1>2. i \in DOMAIN m.nodes BY <1>1 DEF Own
<1>3. n.type = "skill" /\ Available(Top, n) BY DEF Enter
<1>4. Nested(m, n) BY <1>2, <1>3, RunningFacts
<1>5. Lookup(n) BY <1>4 DEF Nested
<1>6. Chain(c, Len(frames), Root) BY <1>1, StackIsChain
<1>7. c[Len(frames)] = Top.skill BY <1>1, DepthAssumption
<1>8. n.skill \in Called(c[Len(frames)]) BY <1>2, <1>3, <1>5, <1>7 DEF Called, Manifest
<1>9. \A k \in 1..Len(frames) : c[k] = frames[k].skill OBVIOUS
<1>. HIDE DEF c
<1>10. /\ Len(frames) <= MaxDepth /\ n.skill \in DOMAIN skills /\ \A k \in 1..Len(frames) : c[k] # n.skill
       /\ TypeChecked(n.skill) /\ Missing(n.skill) \subseteq Missing(Root)
  BY <1>1, <1>6, <1>8, CallGoesOn
<1>11. n.skill \notin {frames[k].skill : k \in DOMAIN frames}
  <2>1. DOMAIN frames = 1..Len(frames) BY <1>1 DEF IsStack
  <2>. QED BY <1>9, <1>10, <2>1
<1>12. ~(Len(frames) > MaxDepth) BY <1>1, <1>10, DepthAssumption
<1>13. \/ ~Suffices(skills[n.skill], given) /\ Fail("inputs")
       \/ /\ Suffices(skills[n.skill], given)
          /\ frames' = Append(frames, Frame(n.skill, i, given)) /\ UNCHANGED <<skills, phase, why, result>>
  BY <1>1, <1>10, <1>11, <1>12 DEF Enter
<1>14. CASE ~Suffices(skills[n.skill], given) /\ Fail("inputs")
  <2>1. Typed(skills[n.skill]) BY <1>10, AcceptedIsTyped
  <2>2. Wired(skills[n.skill]) BY <2>1, TypedIsWired
  <2>3. Loose BY <1>3, <1>14, <2>2, NestedIsGiven
  <2>. QED BY <1>14, <2>3, FailsThere DEF Reason
<1>15. CASE /\ Suffices(skills[n.skill], given)
            /\ frames' = Append(frames, Frame(n.skill, i, given)) /\ UNCHANGED <<skills, phase, why, result>>
  <2>. DEFINE g == Frame(n.skill, i, given)
  <2>1. Runs(g) /\ g.skill = n.skill /\ g.node = i /\ \A d \in 0..MaxDepth : Pays(Manifest(g), NestedCost[d], g)
    BY <1>1, <1>10, <1>15, FrameFacts
  <2>. HIDE DEF g
  <2>2. CalledFrom(Top, g) BY <1>3, <1>5, <2>1 DEF CalledFrom
  <2>3. IsStack(Append(frames, g), FALSE) BY <1>1, <1>10, <2>1, <2>2, TopAdded DEF Top
  <2>4. Append(frames, g) # <<>>
    <3>1. frames \in Seq(Pieces(frames)) BY <1>1 DEF IsStack
    <3>. QED BY <3>1, AppendFacts
  <2>5. IsStack(frames', FALSE) /\ frames' # <<>> BY <1>15, <2>3, <2>4 DEF g
  <2>. QED BY <1>15, <2>5, GoesOn
<1>. QED BY <1>13, <1>14, <1>15

\* What a nested skill returns is what its node declares.
LEMMA ReturnedIsSound ==
  ASSUME NEW m, NEW i, m.nodes[i].type = "skill", Nested(m, m.nodes[i]),
         NEW f, f.skill = m.nodes[i].skill, Wired(Manifest(f)), Own(Manifest(f), Loose, f), f.layer = {},
         ~Loose => \A p \in DOMAIN m.nodes[i].out : Manifest(f).outs[p].required
  PROVE  Sound(m, Loose, i, Outcome(f))
<1>. DEFINE n == m.nodes[i]
            child == Manifest(f)
            produced == Outcome(f)
<1>1. /\ \A p \in DOMAIN produced \cap DOMAIN child.outs : produced[p] = child.outs[p].kind
      /\ \A p \in DOMAIN child.outs : child.outs[p].required => p \in DOMAIN produced
  BY OutcomeFacts
<1>2. Declared(m, i) = n.out BY DEF Declared
<1>3. n.out = [p \in DOMAIN child.outs |-> child.outs[p].kind] BY DEF Nested, Manifest
<1>. HIDE DEF produced, child
<1>4. DOMAIN n.out = DOMAIN child.outs /\ \A p \in DOMAIN child.outs : n.out[p] = child.outs[p].kind BY <1>3
<1>5. \A p \in DOMAIN produced \cap DOMAIN Declared(m, i) : produced[p] = Declared(m, i)[p] BY <1>1, <1>2, <1>4
<1>6. ~Loose => DOMAIN Declared(m, i) \subseteq DOMAIN produced BY <1>1, <1>2, <1>4 DEF child
<1>. QED BY <1>5, <1>6 DEF Sound, produced

\* It outlives the return of a skill, which has run all its nodes.
LEMMA ReturnStep ==
  ASSUME ContractInv, Return
  PROVE  ContractInv'
<1>. DEFINE m == Manifest(Top)
            n == Len(frames)
<1>0. phase = "running" /\ Top.layer = {} BY DEF Return
<1>1. /\ Own(m, Loose, Top) /\ Wired(m) /\ Top.skill \in DOMAIN skills /\ skills \in Registry
      /\ IsStack(frames, FALSE) /\ frames # <<>> /\ TypeChecked(Root) /\ Missing(Root) = {}
      /\ n \in 1..(MaxDepth + 1) /\ Top = frames[n]
  BY <1>0, RunningFacts
<1>2. DOMAIN Top.have = DOMAIN m.nodes BY <1>0, <1>1, AllHasRun
<1>3. CASE n = 1
  <2>1. phase' = "done" /\ result' = Outcome(Top) /\ UNCHANGED <<skills, why, frames>>
    BY <1>2, <1>3 DEF Return
  <2>2. Top.skill = Root BY <1>1, <1>3 DEF IsStack
  <2>3. /\ \A p \in DOMAIN Outcome(Top) \cap DOMAIN m.outs : Outcome(Top)[p] = m.outs[p].kind
        /\ \A p \in DOMAIN m.outs : m.outs[p].required => p \in DOMAIN Outcome(Top)
    BY <1>0, <1>1, OutcomeFacts
  <2>4. ResultFits' BY <2>1, <2>2, <2>3 DEF ResultFits, Manifest
  <2>5. TypeChecked(Root)' /\ Missing(Root)' = {} BY <1>1, <2>1, Steady
  <2>6. IsStack(frames, phase = "failed")'
    <3>1. (phase = "failed")' = FALSE /\ IsStack(frames', FALSE) BY <1>1, <2>1
    <3>. QED BY <2>1, <3>1, StackPrimed
  <2>7. why' = "" /\ frames' # <<>> /\ skills' \in Registry BY <1>0, <1>1, <2>1, RunningFacts
  <2>8. AcceptedSkillsAreWired' BY <2>1 DEF AcceptedSkillsAreWired
  <2>9. phase' = "done" BY <2>1
  <2>10. (why \in Reason /\ (why # "" <=> phase \in {"refused", "failed"}))' BY <2>7, <2>9 DEF Reason
  <2>11. (/\ phase \in {"new", "checked", "running", "done", "refused", "failed"}
          /\ frames # <<>> <=> phase \in {"running", "done", "failed"})' BY <2>7, <2>9
  <2>. QED BY <2>4, <2>5, <2>6, <2>7, <2>8, <2>10, <2>11 DEF ContractInv
<1>4. CASE n # 1
  <2>. DEFINE fs == Below(frames)
              f == Last(fs)
              p == Manifest(f)
              i == Top.node
  <2>1. /\ frames' = Append(Below(fs), Published(f, i, Outcome(Top), Top.spent))
        /\ UNCHANGED <<skills, phase, why, result>>
    BY <1>2, <1>4 DEF Return
  <2>2. IsStack(fs, FALSE) /\ fs # <<>> /\ f = frames[n - 1] BY <1>1, <1>4, TopRemoved
  <2>3. n - 1 \in 1..n /\ n \in 2..n /\ n \in 1..n
    <3>1. n \in 1..(MaxDepth + 1) BY <1>1
    <3>. HIDE DEF n
    <3>. QED BY <3>1, <1>4, DepthAssumption
  <2>4. CalledFrom(f, Top) /\ Runs(f) BY <1>1, <2>2, <2>3 DEF IsStack
  <2>5. Typed(p) BY <1>1, <2>2, <2>3, StackTyped
  <2>6. /\ i \in f.layer /\ i \in DOMAIN p.nodes /\ p.nodes[i].type = "skill"
        /\ Lookup(p.nodes[i]) /\ p.nodes[i].skill = Top.skill
    BY <2>4 DEF CalledFrom, Runs, Own
  <2>7. Nested(p, p.nodes[i]) BY <2>5, <2>6, TypedIsWired
  <2>8. i \in Work(p) BY <2>6 DEF Work
  <2>9. ~Loose => \A q \in DOMAIN p.nodes[i].out : m.outs[q].required
    BY <2>4, <2>6, <2>8 DEF Loose, Runs, Manifest
  <2>10. Sound(p, Loose, i, Outcome(Top))
    <3>. HIDE DEF p, i, f
    <3>. QED BY <1>0, <1>1, <2>6, <2>7, <2>9, ReturnedIsSound
  <2>11. Top.spent \in Nat BY <1>1 DEF Own
  <2>12. Len(fs) = n - 1
    <3>1. frames \in Seq(Pieces(frames)) BY <1>1 DEF IsStack
    <3>. QED BY <1>1, <3>1, BelowFacts
  <2>13. ASSUME NEW d \in (MaxDepth + 1 - (n - 1))..MaxDepth
         PROVE  Top.spent <= Costs(p, NestedCost[d])[i]
    <3>1. /\ d \in 1..MaxDepth /\ d \in 0..MaxDepth /\ d - 1 \in 0..MaxDepth
          /\ d - 1 \in (MaxDepth + 1 - n)..MaxDepth
      BY <1>1, <2>3, DepthAssumption
    <3>2. NestedCost[d] \in CostType /\ NestedCost[d - 1] \in CostType BY <1>1, <3>1, NestedCostFacts
    <3>3. Costs(p, NestedCost[d])[i] = NestedCost[d][Top.skill] BY <2>6, <2>8 DEF Costs
    <3>4. Covered(frames, n, FALSE) BY <1>1, <2>3 DEF IsStack
    <3>5. Pays(m, NestedCost[d - 1], Top) BY <1>1, <3>1, <3>4 DEF Covered
    <3>6. Top.spent <= Total(m, NestedCost[d - 1]) /\ Total(m, NestedCost[d - 1]) \in Nat
      BY <1>1, <2>11, <3>2, <3>5, PayFacts, CostFacts DEF Manifest
    <3>7. Total(m, NestedCost[d - 1]) <= NestedCost[d][Top.skill] BY <1>1, <3>1, NestedCostFacts DEF Manifest
    <3>8. NestedCost[d][Top.skill] \in Nat BY <1>1, <3>2 DEF CostType
    <3>. HIDE DEF m
    <3>. QED BY <2>11, <3>3, <3>6, <3>7, <3>8
  <2>14. IsStack(frames', FALSE)
    <3>. HIDE DEF i, fs
    <3>. QED BY <1>1, <2>1, <2>2, <2>6, <2>8, <2>10, <2>11, <2>12, <2>13, PublishedStack
  <2>15. frames' # <<>>
    <3>1. fs \in Seq(Pieces(fs)) BY <2>2 DEF IsStack
    <3>. HIDE DEF fs
    <3>. QED BY <2>1, <2>2, <3>1, BelowFacts
  <2>. QED BY <1>0, <2>1, <2>14, <2>15, GoesOn
<1>. QED BY <1>3, <1>4

\* No frame is a stack.
LEMMA EmptyStack ==
  ASSUME NEW failed
  PROVE  IsStack(<<>>, failed)
<1>1. <<>> \in Seq(Pieces(<<>>)) /\ Len(<<>>) = 0 OBVIOUS
<1>. QED BY <1>1, DepthAssumption DEF IsStack

\* The invariant holds at first.
LEMMA ContractBegins == ContractInit => ContractInv
<1>. SUFFICES ASSUME ContractInit PROVE ContractInv OBVIOUS
<1>1. IsStack(frames, phase = "failed") BY EmptyStack DEF ContractInit
<1>. QED BY <1>1 DEF ContractInit, ContractInv, AcceptedSkillsAreWired, Reason

\* The checks before the first node.
LEMMA CheckStep ==
  ASSUME ContractInv, TypeCheck \/ \E given \in Requests(skills[Root]) : Begin(given)
  PROVE  ContractInv'
<1>1. skills \in Registry /\ Root \in DOMAIN skills BY RegistryAssumption DEF ContractInv
<1>2. ASSUME phase \in {"new", "checked"}, NEW reason \in {"contract", "unregistered", "inputs"}, Refuse(reason)
      PROVE  ContractInv'
  <2>1. phase' = "refused" /\ why' = reason /\ UNCHANGED <<skills, frames, result>> BY <1>2 DEF Refuse
  <2>2. frames = <<>> BY <1>2 DEF ContractInv
  <2>3. IsStack(frames, phase = "failed")'
    <3>1. IsStack(frames', FALSE) /\ (phase = "failed")' = FALSE BY <2>1, <2>2, EmptyStack
    <3>. QED BY <2>1, <3>1, StackPrimed
  <2>4. AcceptedSkillsAreWired' BY <2>1 DEF AcceptedSkillsAreWired
  <2>5. (why \in Reason /\ (why # "" <=> phase \in {"refused", "failed"}))' BY <1>2, <2>1 DEF Reason
  <2>. QED BY <1>1, <2>1, <2>2, <2>3, <2>4, <2>5 DEF ContractInv
<1>3. ASSUME TypeCheck PROVE ContractInv'
  <2>1. phase = "new" BY <1>3 DEF TypeCheck
  <2>2. CASE ~TypeChecked(Root) BY <1>2, <1>3, <2>1, <2>2 DEF TypeCheck
  <2>3. CASE TypeChecked(Root)
    <3>1. phase' = "checked" /\ UNCHANGED <<skills, why, frames, result>> BY <1>3, <2>3 DEF TypeCheck
    <3>2. frames = <<>> /\ why = "" BY <2>1 DEF ContractInv
    <3>3. IsStack(frames, phase = "failed")'
      <4>1. IsStack(frames', FALSE) /\ (phase = "failed")' = FALSE BY <3>1, <3>2, EmptyStack
      <4>. QED BY <3>1, <4>1, StackPrimed
    <3>4. TypeChecked(Root)' BY <2>3, <3>1, Steady
    <3>. QED BY <1>1, <3>1, <3>2, <3>3, <3>4 DEF ContractInv, AcceptedSkillsAreWired, Reason
  <2>. QED BY <2>2, <2>3
<1>4. ASSUME NEW given, Begin(given) PROVE ContractInv'
  <2>1. phase = "checked" BY <1>4 DEF Begin
  <2>2. CASE Missing(Root) # {} \/ ~Suffices(skills[Root], given)
    <3>1. Refuse("unregistered") \/ Refuse("inputs") BY <1>4, <2>2 DEF Begin
    <3>. QED BY <1>2, <2>1, <3>1
  <2>3. CASE Missing(Root) = {} /\ Suffices(skills[Root], given)
    <3>. DEFINE f == Frame(Root, 0, given)
    <3>1. phase' = "running" /\ frames' = <<f>> /\ UNCHANGED <<skills, why, result>>
      BY <1>4, <2>3 DEF Begin
    <3>2. TypeChecked(Root) /\ why = "" BY <2>1 DEF ContractInv
    <3>3. Runs(f) /\ f.skill = Root /\ \A d \in 0..MaxDepth : Pays(Manifest(f), NestedCost[d], f)
      BY <1>1, <2>3, FrameFacts
    <3>. HIDE DEF f
    <3>4. MaxDepth \in Nat BY DepthAssumption
    <3>5. <<f>> \in Seq(Pieces(<<f>>)) /\ Len(<<f>>) = 1 /\ <<f>>[1] = f
      <4>1. <<f>> \in Seq({f}) OBVIOUS
      <4>. QED BY <4>1, Piecewise
    <3>6. Covered(<<f>>, 1, FALSE) BY <3>3, <3>4, <3>5 DEF Covered
    <3>7. IsStack(<<f>>, FALSE)
      <4>1. \A k \in 1..Len(<<f>>) : k = 1 /\ <<f>>[k] = f BY <3>5
      <4>2. \A k \in 1..Len(<<f>>) : Runs(<<f>>[k]) /\ Covered(<<f>>, k, FALSE) BY <3>3, <3>6, <4>1, Zenon
      <4>3. \A k \in 2..Len(<<f>>) : FALSE BY <3>5
      <4>4. <<f>>[1].skill = Root /\ Len(<<f>>) <= MaxDepth + 1 BY <3>3, <3>4, <3>5
      <4>. QED BY <3>5, <4>2, <4>3, <4>4 DEF IsStack
    <3>8. IsStack(frames, phase = "failed")'
      <4>1. IsStack(frames', FALSE) /\ (phase = "failed")' = FALSE BY <3>1, <3>7
      <4>. QED BY <3>1, <4>1, StackPrimed
    <3>9. TypeChecked(Root)' /\ Missing(Root)' = {} BY <2>3, <3>1, <3>2, Steady
    <3>10. frames' # <<>> BY <3>1
    <3>. QED BY <1>1, <3>1, <3>2, <3>8, <3>9, <3>10 DEF ContractInv, AcceptedSkillsAreWired, Reason
  <2>. QED BY <2>2, <2>3
<1>. QED BY <1>3, <1>4

\* Every step keeps it.
LEMMA ContractGoesOn == ContractInv /\ [ContractNext]_contracts => ContractInv'
<1>. SUFFICES ASSUME ContractInv, [ContractNext]_contracts PROVE ContractInv' OBVIOUS
<1>1. CASE TypeCheck \/ \E given \in Requests(skills[Root]) : Begin(given) BY <1>1, CheckStep
<1>2. CASE RunNode
  <2>1. PICK i \in Top.layer : LooseEnd(i) \/ Bookkeeping(i) \/ Invoke(i) \/ Enter(i) BY <1>2 DEF RunNode
  <2>2. phase = "running" BY <1>2 DEF RunNode
  <2>. QED BY <2>1, <2>2, LooseEndStep, BookkeepingStep, InvokeStep, EnterStep
<1>3. CASE Return BY <1>3, ReturnStep
<1>4. CASE UNCHANGED contracts
  <2>1. UNCHANGED <<skills, phase, why, frames, result>> BY <1>4 DEF contracts
  <2>2. /\ (Loose' <=> Loose) /\ (Stray' <=> Stray)
        /\ (TypeChecked(Root)' <=> TypeChecked(Root)) /\ Missing(Root)' = Missing(Root)
    BY <2>1, Steady
  <2>3. IsStack(frames, phase = "failed")'
    <3>. DEFINE failed == phase = "failed"
    <3>1. failed \in BOOLEAN /\ IsStack(frames', failed) /\ (phase = "failed")' = failed
      BY <2>1 DEF ContractInv
    <3>. HIDE DEF failed
    <3>. QED BY <2>1, <3>1, StackPrimed
  <2>4. AcceptedSkillsAreWired' BY <2>1, <2>2 DEF ContractInv, AcceptedSkillsAreWired
  <2>5. (phase = "done" => ResultFits)' BY <2>1 DEF ContractInv, ResultFits
  <2>. QED BY <2>1, <2>2, <2>3, <2>4, <2>5 DEF ContractInv
<1>. QED BY <1>1, <1>2, <1>3, <1>4 DEF ContractNext

\* So it holds of every behaviour.
LEMMA ContractHolds == ContractSpec => []ContractInv
BY ContractBegins, ContractGoesOn, PTL DEF ContractSpec

\* What is known of the frames, whatever the run does.
LEMMA FramesFacts ==
  ASSUME ContractInv
  PROVE  /\ skills \in Registry /\ IsStack(frames, phase = "failed") /\ frames \in Seq(Pieces(frames))
         /\ DOMAIN frames = 1..Len(frames) /\ Len(frames) \in Nat /\ Len(frames) <= MaxDepth + 1
         /\ frames # <<>> => TypeChecked(Root)
<1>1. skills \in Registry /\ IsStack(frames, phase = "failed") BY DEF ContractInv
<1>2. frames \in Seq(Pieces(frames)) /\ Len(frames) <= MaxDepth + 1 BY <1>1 DEF IsStack
<1>3. DOMAIN frames = 1..Len(frames) /\ Len(frames) \in Nat BY <1>2
<1>4. frames # <<>> => TypeChecked(Root) BY DEF ContractInv
<1>. QED BY <1>1, <1>2, <1>3, <1>4

\* It says that what was accepted runs,
LEMMA InvMeansRun == ContractInv => AcceptedSkillsRun
<1>. SUFFICES ASSUME ContractInv PROVE AcceptedSkillsRun OBVIOUS
<1>1. /\ IsStack(frames, phase = "failed") /\ frames \in Seq(Pieces(frames)) /\ DOMAIN frames = 1..Len(frames)
      /\ \A k \in 1..Len(frames) : Runs(frames[k])
      /\ \A k \in 2..Len(frames) : CalledFrom(frames[k - 1], frames[k])
  <2>1. IsStack(frames, phase = "failed") BY FramesFacts
  <2>. QED BY <2>1, FramesFacts DEF IsStack
<1>2. ASSUME NEW k \in DOMAIN frames PROVE TypeChecked(Root) /\ Wired(Manifest(frames[k]))
  <2>1. frames # <<>> BY <1>1
  <2>2. TypeChecked(Root) BY <2>1 DEF ContractInv
  <2>3. Typed(Manifest(frames[k])) BY <1>1, <2>2, StackTyped
  <2>. QED BY <2>2, <2>3, TypedIsWired
<1>3. ASSUME NEW k \in DOMAIN frames
      PROVE  /\ frames[k].skill \in DOMAIN skills /\ frames[k].spent \in Nat
             /\ frames[k].layer \subseteq DOMAIN Manifest(frames[k]).nodes \ DOMAIN frames[k].have
             /\ k > 1 => frames[k].node \in frames[k - 1].layer
  <2>1. Runs(frames[k]) BY <1>1
  <2>2. k > 1 => frames[k].node \in frames[k - 1].layer BY <1>1 DEF CalledFrom
  <2>. QED BY <2>1, <2>2 DEF Runs, Own
<1>4. ContractTypeOK BY <1>3 DEF ContractTypeOK, ContractInv
<1>5. ASSUME NEW k \in DOMAIN frames, NEW i \in frames[k].layer,
             Manifest(frames[k]).nodes[i].type \notin {"input", "output"},
             Available(frames[k], Manifest(frames[k]).nodes[i]),
             NEW p \in DOMAIN Manifest(frames[k]).nodes[i].in, Manifest(frames[k]).nodes[i].in[p] # Literal
      PROVE  Resolve(frames[k], Manifest(frames[k]).nodes[i])[p] = Manifest(frames[k]).nodes[i].accepts[p]
  <2>. DEFINE f == frames[k]
              m == Manifest(f)
              n == m.nodes[i]
  <2>1. Wired(m) /\ Own(m, Loose, f) BY <1>1, <1>2 DEF Runs
  <2>2. i \in DOMAIN m.nodes BY <2>1 DEF Own
  <2>3. IsDeclared(m, n.in[p]) /\ n.accepts[p] = KindOf(m, n.in[p])
    BY <1>5, <2>1, <2>2 DEF Wired, EdgesAreTyped
  <2>4. /\ i \in f.layer /\ m.nodes[i].type # "input" /\ Available(f, m.nodes[i])
        /\ p \in DOMAIN m.nodes[i].in /\ m.nodes[i].in[p] # Literal
    BY <1>5
  <2>. HIDE DEF f, m
  <2>5. Resolve(f, m.nodes[i])[p] = KindOf(m, m.nodes[i].in[p]) BY <2>1, <2>3, <2>4, ValueFacts
  <2>. QED BY <2>3, <2>5 DEF f, m
<1>6. NodesGetWhatTheyAccept BY <1>5 DEF NodesGetWhatTheyAccept, ContractInv, ResultFits
<1>. QED BY <1>4, <1>6 DEF AcceptedSkillsRun, ContractInv

\* and that it stays within its limits.
LEMMA InvMeansLimits == ContractInv => RunsStayWithinTheirLimits
<1>. SUFFICES ASSUME ContractInv PROVE RunsStayWithinTheirLimits OBVIOUS
<1>. DEFINE failed == phase = "failed"
<1>1. /\ skills \in Registry /\ IsStack(frames, failed) /\ frames \in Seq(Pieces(frames))
      /\ DOMAIN frames = 1..Len(frames) /\ Len(frames) <= MaxDepth + 1
      /\ frames # <<>> => TypeChecked(Root)
  BY FramesFacts
<1>. HIDE DEF failed
<1>2. MaxDepth \in Nat /\ Len(frames) \in Nat BY FramesFacts, DepthAssumption
<1>3. ASSUME NEW k \in DOMAIN frames
      PROVE  Manifest(frames[k]).maxsteps = 0 \/ Spent(k) <= Manifest(frames[k]).maxsteps
  <2>. DEFINE m == Manifest(frames[k])
  <2>1. frames # <<>> BY <1>1
  <2>2. Typed(m) /\ frames[k].skill \in DOMAIN skills BY <1>1, <2>1, StackTyped
  <2>3. m.maxsteps # 0 => StepCost(m) <= m.maxsteps BY <2>2, TypedIsWired
  <2>4. MaxDepth \in (MaxDepth + 1 - k)..MaxDepth /\ MaxDepth \in 0..MaxDepth BY <1>1, <1>2
  <2>5. Sum(SpentBy(frames), k..Len(frames)) <= Total(m, NestedCost[MaxDepth]) BY <1>1, <2>4, SpentBound
  <2>6. Sum(SpentBy(frames), k..Len(frames)) \in Nat BY <1>1, SpentFacts
  <2>7. Spent(k) = Sum(SpentBy(frames), k..Len(frames)) BY DEF Spent, SpentBy
  <2>8. NestedCost[MaxDepth] \in CostType BY <1>1, <2>4, NestedCostFacts
  <2>9. Total(m, NestedCost[MaxDepth]) \in Nat /\ m.maxsteps \in Nat
    BY <1>1, <2>2, <2>8, CostFacts DEF Manifest
  <2>10. StepCost(m) = Total(m, NestedCost[MaxDepth]) BY DEF StepCost
  <2>. HIDE DEF m
  <2>11. m.maxsteps = 0 \/ Spent(k) <= m.maxsteps BY <2>3, <2>5, <2>6, <2>7, <2>9, <2>10
  <2>. QED BY <2>11 DEF m
<1>4. ASSUME NEW j \in DOMAIN frames, NEW k \in DOMAIN frames, j < k
      PROVE  /\ Manifest(frames[k]).permits \subseteq Manifest(frames[j]).permits
             /\ frames[j].skill # frames[k].skill
  <2>1. frames # <<>> BY <1>1
  <2>2. j \in 1..k /\ k \in 1..Len(frames) /\ j \in 1..Len(frames) BY <1>1, <1>2, <1>4
  <2>3. Manifest(frames[k]).permits \subseteq Manifest(frames[j]).permits BY <1>1, <2>1, <2>2, PermitsShrink
  <2>4. frames[j].skill = frames[k].skill => j = k BY <1>1, <2>1, <2>2, StackTyped
  <2>. QED BY <1>4, <2>2, <2>3, <2>4
<1>. QED BY <1>1, <1>3, <1>4 DEF RunsStayWithinTheirLimits

\* Whatever skills are registered, and whatever handlers do: what the type check
\* accepts can run.  Every node that runs gets what it accepts, a run that ends
\* has published what its skill promises, and one that fails fails by a handler,
\* unless an optional port of a nested skill or an undeclared output is in play.
THEOREM ContractsTheorem == ContractSpec => []AcceptedSkillsRun
BY ContractHolds, InvMeansRun, PTL

\* However deep skills nest and in whatever order their nodes run: none takes
\* more steps than its policy allows, is permitted more than its callers are,
\* runs inside itself or nests deeper than the limit.
THEOREM LimitsTheorem == ContractSpec => []RunsStayWithinTheirLimits
BY ContractHolds, InvMeansLimits, PTL
===============================================================================
