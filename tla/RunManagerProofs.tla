-------------------------- MODULE RunManagerProofs --------------------------
(***************************************************************************)
(* Proofs about RunManager, for every value of its constants: first what   *)
(* its operators return (events, journal, pruning) and the first layer of  *)
(* its inductive invariant, Base (the types, no identifier twice in a list *)
(* or a file, a process that has not started is at rest); then, in layers, *)
(* what it promises.                                                       *)
(***************************************************************************)
EXTENDS RunManager, KeepingProofs

\* The identifiers of rows of the journal, in their order.
IdOf(rows) == [i \in DOMAIN rows |-> rows[i].id]

\* No identifier is listed twice, and none is still to be loaded that is.
Distinct ==
  /\ IsInjective(order) /\ IsInjective(IdOf(disk)) /\ IsInjective(IdOf(boot))
  /\ stage = "restoring" => Ids(boot) \cap Retained = {}

\* A process that has not started, or is restoring, does nothing else.
AtRest ==
  stage \in {"restoring", "down"} =>
    /\ script = <<>> /\ queue = <<>> /\ leased = {} /\ arts = {}
    /\ pc = [r \in RunId |-> "none"] /\ sub = [c \in Client |-> NoSub]
    /\ closing = NoClose
    /\ stage = "down" => order = <<>>

\* The first layer of the invariant.
Base == Types /\ Distinct /\ AtRest

-----------------------------------------------------------------------------
(* What the operators of RunManager return.                                *)

\* An event changes the events of its run and their number, nothing else.
SameButEvents(R, Q, r) ==
  /\ Q \in [RunId -> RunType]
  /\ \A q \in RunId \ {r} : Q[q] = R[q]
  /\ Q[r].state = R[r].state /\ Q[r].cancel = R[r].cancel
  /\ Q[r].error = R[r].error /\ Q[r].outputs = R[r].outputs
  /\ Q[r].next = R[r].next + 1

\* The last events of Q are those of R and the new one.
EventAdded(R, Q, r, type) ==
  LET n == Len(Q[r].events) IN
  /\ n \in 1..(Len(R[r].events) + 1)
  /\ Q[r].events[n] = [seq |-> R[r].next, type |-> type]
  /\ \A i \in 1..(n - 1) :
       /\ i + (Len(R[r].events) + 1 - n) \in 1..Len(R[r].events)
       /\ Q[r].events[i] = R[r].events[i + (Len(R[r].events) + 1 - n)]

\* What _emit_locked does to its run.
LEMMA AppendedFacts ==
  ASSUME NEW R \in [RunId -> RunType], NEW r \in RunId, NEW type \in EventType,
         NEW Q, Q = Appended(R, r, type)
  PROVE  SameButEvents(R, Q, r) /\ EventAdded(R, Q, r, type)
<1>. DEFINE e   == [seq |-> R[r].next, type |-> type]
            old == R[r].events
            all == Append(old, e)
            cut == IF Len(all) > MaxEvents THEN Len(all) - MaxEvents ELSE 0
            new == SubSeq(all, cut + 1, Len(all))
<1>1. e \in Event /\ old \in Seq(Event) /\ R[r] \in RunType /\ R[r].next \in Nat \ {0}
  BY DEF Event, RunType
<1>2. /\ all \in Seq(Event) /\ Len(all) = Len(old) + 1 /\ all[Len(old) + 1] = e
      /\ \A i \in 1..Len(old) : all[i] = old[i]
  BY <1>1
<1>3. cut \in Nat /\ cut < Len(all) /\ Len(old) \in Nat
  BY <1>1, <1>2, LimitAssumption
<1>. HIDE DEF e, all, cut, old
<1>4. /\ new \in Seq(Event) /\ Len(new) = Len(all) - cut
      /\ \A i \in 1..Len(new) : new[i] = all[i + cut]
  <2>1. \A i \in (cut+1)..Len(all) : all[i] \in Event  BY <1>2, <1>3
  <2>2. Len(all) \in Nat  BY <1>2, <1>3
  <2>3. new = [i \in 1..(Len(all) - cut) |-> all[i + cut]]
    BY <1>2, <1>3, <2>2
  <2>4. new \in Seq(Event)  BY <1>2, <1>3, <2>1, <2>2, SubSeqProperties
  <2>. QED  BY <1>3, <2>2, <2>3, <2>4
<1>. HIDE DEF new
<1>5. Q = [R EXCEPT ![r].events = new, ![r].next = @ + 1]
  BY DEF Appended, new, cut, all, e, old
<1>6. Q \in [RunId -> RunType]
  <2>1. Q[r] = [R[r] EXCEPT !.events = new, !.next = @ + 1]  BY <1>5
  <2>2. ASSUME NEW x \in RunType
        PROVE  [x EXCEPT !.events = new, !.next = @ + 1] \in RunType
    <3>1. x.next + 1 \in Nat \ {0}  BY DEF RunType
    <3>. QED  BY <1>4, <3>1 DEF RunType
  <2>3. Q[r] \in RunType  BY <1>1, <2>1, <2>2
  <2>4. \A q \in RunId \ {r} : Q[q] = R[q] /\ R[q] \in RunType  BY <1>5
  <2>5. Q = [q \in RunId |-> Q[q]]  BY <1>5
  <2>. QED  BY <2>3, <2>4, <2>5
<1>7. \A q \in RunId \ {r} : Q[q] = R[q]  BY <1>5
<1>8. /\ Q[r].state = R[r].state /\ Q[r].cancel = R[r].cancel
      /\ Q[r].error = R[r].error /\ Q[r].outputs = R[r].outputs
      /\ Q[r].next = R[r].next + 1 /\ Q[r].events = new
  BY <1>1, <1>5 DEF RunType
<1>9. Len(new) \in 1..(Len(old) + 1) /\ new[Len(new)] = e
  BY <1>2, <1>3, <1>4
<1>10. ASSUME NEW i \in 1..(Len(new) - 1)
       PROVE  /\ i + (Len(old) + 1 - Len(new)) \in 1..Len(old)
              /\ new[i] = old[i + (Len(old) + 1 - Len(new))]
  <2>1. Len(old) + 1 - Len(new) = cut /\ i \in 1..Len(new) /\ i + cut \in 1..Len(old)
    BY <1>2, <1>3, <1>4
  <2>. QED  BY <1>2, <1>4, <2>1
<1>11. SameButEvents(R, Q, r)  BY <1>6, <1>7, <1>8 DEF SameButEvents
<1>12. EventAdded(R, Q, r, type)  BY <1>8, <1>9, <1>10 DEF EventAdded, e, old
<1>. QED  BY <1>11, <1>12

\* ... and to the others.
LEMMA AppendedRuns ==
  ASSUME NEW R \in [RunId -> RunType], NEW r \in RunId, NEW type \in EventType,
         NEW Q, Q = Appended(R, r, type)
  PROVE  /\ Q \in [RunId -> RunType]
         /\ \A q \in RunId \ {r} : Q[q] = R[q]
         /\ Q[r].state = R[r].state /\ Q[r].cancel = R[r].cancel
         /\ Q[r].error = R[r].error /\ Q[r].outputs = R[r].outputs
         /\ Q[r].next = R[r].next + 1
BY AppendedFacts DEF SameButEvents

\* The rows of the journal are those of runs in the list, one of each.
LEMMA RowsFacts ==
  ASSUME NEW o \in Seq(RunId), NEW R \in [RunId -> RunType], IsInjective(o)
  PROVE  /\ Rows(o, R) \in Seq(RowType)
         /\ IsInjective(IdOf(Rows(o, R)))
         /\ \A i \in DOMAIN Rows(o, R) :
              \E r \in ToSet(o) : Rows(o, R)[i] = Row(R, r)
         /\ Ids(Rows(o, R)) \subseteq ToSet(o)
         /\ \A r \in Ids(Rows(o, R)) :
              \E i \in DOMAIN Rows(o, R) : Rows(o, R)[i] = Row(R, r)
<1>. DEFINE cut == IF Len(o) > MaxRecords THEN Len(o) - MaxRecords ELSE 0
            rows == [i \in 1..(Len(o) - cut) |-> Row(R, o[cut + i])]
<1>1. cut \in Nat /\ cut <= Len(o) /\ Len(o) \in Nat  BY LimitAssumption
<1>2. Rows(o, R) = rows  BY DEF Rows
<1>. HIDE DEF cut
<1>3. \A i \in 1..(Len(o) - cut) : cut + i \in 1..Len(o)  BY <1>1
<1>4. \A i \in 1..(Len(o) - cut) : o[cut + i] \in RunId /\ o[cut + i] \in ToSet(o)
  BY <1>3 DEF ToSet
<1>5. \A r \in RunId : Row(R, r) \in RowType /\ Row(R, r).id = r
  BY DEF Row, RowType, RunType
<1>6. DOMAIN rows = 1..(Len(o) - cut) /\ \A i \in DOMAIN rows : rows[i] = Row(R, o[cut + i])
  OBVIOUS
<1>. HIDE DEF rows
<1>7. rows \in Seq(RowType)
  <2>1. \A i \in 1..(Len(o) - cut) : rows[i] \in RowType  BY <1>4, <1>5, <1>6
  <2>2. rows = [i \in 1..(Len(o) - cut) |-> rows[i]]  BY DEF rows
  <2>. QED  BY <1>1, <2>1, <2>2, IsASeq
<1>8. IsInjective(IdOf(rows))
  <2>1. ASSUME NEW i \in DOMAIN rows, NEW j \in DOMAIN rows, rows[i].id = rows[j].id
        PROVE  i = j
    <3>1. o[cut + i] = o[cut + j]  BY <1>4, <1>5, <1>6, <2>1
    <3>2. cut + i \in DOMAIN o /\ cut + j \in DOMAIN o  BY <1>3, <1>6
    <3>3. cut + i = cut + j  BY <3>1, <3>2 DEF IsInjective
    <3>. QED  BY <1>1, <1>6, <3>3
  <2>. QED  BY <2>1 DEF IsInjective, IdOf
<1>9. \A i \in DOMAIN rows : \E r \in ToSet(o) : rows[i] = Row(R, r)
  BY <1>4, <1>6
<1>10. Ids(rows) \subseteq ToSet(o)  BY <1>4, <1>5, <1>6 DEF Ids
<1>11. \A r \in Ids(rows) : \E i \in DOMAIN rows : rows[i] = Row(R, r)
  BY <1>4, <1>5, <1>6 DEF Ids
<1>. QED  BY <1>2, <1>7, <1>8, <1>9, <1>10, <1>11

\* What a write of the journal leaves on the disk.
LEMMA PersistedFacts ==
  ASSUME Types, Distinct, NEW o \in Seq(RunId), NEW R \in [RunId -> RunType],
         IsInjective(o), Persisted(o, R)
  PROVE  /\ disk' \in {disk, Rows(o, R)}
         /\ disk' \in Seq(RowType) /\ IsInjective(IdOf(disk'))
         /\ jerr' \in BOOLEAN /\ durable' \in SUBSET RunId /\ faults' \in 0..MaxFaults
         /\ ~jerr' => disk' = Rows(o, R) /\ durable' = Ids(Rows(o, R))
         /\ jerr' => durable' = durable
<1>1. PICK ok \in BOOLEAN : /\ Replaced(Rows(o, R), ok) /\ jerr' = ~ok
                            /\ durable' = IF ok THEN Ids(Rows(o, R)) ELSE durable
  BY DEF Persisted
<1>2. /\ Rows(o, R) \in Seq(RowType) /\ IsInjective(IdOf(Rows(o, R)))
      /\ Ids(Rows(o, R)) \subseteq RunId
  BY RowsFacts, ToSetOfSeq
<1>3. disk \in Seq(RowType) /\ IsInjective(IdOf(disk)) /\ faults \in 0..MaxFaults
      /\ durable \in SUBSET RunId
  BY DEF Types, Distinct
<1>4. disk' \in {disk, Rows(o, R)} /\ faults' \in 0..MaxFaults
  BY <1>1, <1>3, LimitAssumption DEF Replaced
<1>5. ok => disk' = Rows(o, R)  BY <1>1 DEF Replaced
<1>. QED  BY <1>1, <1>2, <1>3, <1>4, <1>5

\* Pruning drops only runs that are over, and enough of them.
LEMMA PrunedFacts ==
  ASSUME NEW o \in Seq(RunId), NEW R, IsInjective(o)
  PROVE  /\ Pruned(o, R) \in Seq(RunId) /\ IsInjective(Pruned(o, R))
         /\ ToSet(Pruned(o, R)) \subseteq ToSet(o)
         /\ \A r \in ToSet(o) : ~IsOver(R, r) => r \in ToSet(Pruned(o, R))
         /\ Len(Pruned(o, R)) <= Len(o)
         /\ Cardinality({r \in ToSet(o) : ~IsOver(R, r)}) <= MaxRetained
              => Len(Pruned(o, R)) <= MaxRetained
<1>. DEFINE done == {r \in ToSet(o) : IsOver(R, r)}
            live == {r \in ToSet(o) : ~IsOver(R, r)}
            over == Keep(o, done)
            k    == Len(o) - MaxRetained
            victims == {over[i] : i \in {j \in DOMAIN over : j <= k}}
            rest == ToSet(o) \ victims
<1>1. Pruned(o, R) = Keep(o, rest)  BY DEF Pruned
<1>2. over \in Seq(RunId) /\ IsInjective(over) /\ ToSet(over) = done
      /\ Len(over) = Cardinality(done)
  <2>1. ToSet(o) \cap done = done  OBVIOUS
  <2>. HIDE DEF done
  <2>. QED  BY <2>1, KeepInS, KeepInjective, KeepLength
<1>3. IsFiniteSet(ToSet(o)) /\ Cardinality(ToSet(o)) = Len(o) /\ Len(o) \in Nat
  BY InjectiveLength
<1>4. Cardinality(live) = Len(o) - Cardinality(done) /\ Cardinality(live) \in Nat
  <2>1. live = ToSet(o) \ done  OBVIOUS
  <2>2. ToSet(o) \cap done = done  OBVIOUS
  <2>. HIDE DEF live, done
  <2>3. Cardinality(ToSet(o) \ done) = Cardinality(ToSet(o)) - Cardinality(ToSet(o) \cap done)
        /\ IsFiniteSet(ToSet(o) \ done)
    BY <1>3, FS_Difference
  <2>4. IsFiniteSet(live) /\ Cardinality(live) = Cardinality(ToSet(o)) - Cardinality(done)
    BY <2>1, <2>2, <2>3, Zenon
  <2>. QED  BY <1>3, <2>4, FS_CardinalityType
<1>. HIDE DEF over
<1>5. victims \subseteq done  BY <1>2 DEF ToSet
<1>6. ToSet(o) \cap rest = rest /\ rest \subseteq ToSet(o)
      /\ \A r \in ToSet(o) : ~IsOver(R, r) => r \in rest
  BY <1>5
<1>7. k > 0 /\ Cardinality(live) <= MaxRetained => Cardinality(victims) = k
  <2>. SUFFICES ASSUME k > 0, Cardinality(live) <= MaxRetained PROVE Cardinality(victims) = k
    OBVIOUS
  <2>1. k \in Nat /\ k <= Len(over)
    <3>1. MaxRetained \in Nat  BY LimitAssumption
    <3>. HIDE DEF live, done
    <3>. QED  BY <1>2, <1>3, <1>4, <3>1
  <2>2. victims = {over[i] : i \in 1..k}
    <3>1. {j \in DOMAIN over : j <= k} = 1..k
      <4>1. DOMAIN over = 1..Len(over) /\ Len(over) \in Nat  BY <1>2
      <4>. HIDE DEF k
      <4>. QED  BY <2>1, <4>1
    <3>. QED  BY <3>1
  <2>. HIDE DEF k, victims
  <2>. QED  BY <1>2, <2>1, <2>2, InjectivePrefix
<1>8. IsFiniteSet(victims) /\ Cardinality(rest) = Len(o) - Cardinality(victims)
  <2>1. victims \in SUBSET ToSet(o)  BY <1>5
  <2>2. ToSet(o) \cap victims = victims  BY <1>5
  <2>. HIDE DEF victims
  <2>3. IsFiniteSet(victims) /\ Cardinality(rest) = Cardinality(ToSet(o)) - Cardinality(ToSet(o) \cap victims)
    BY <1>3, <2>1, FS_Subset, FS_Difference
  <2>. QED  BY <1>3, <2>2, <2>3, Zenon
<1>. HIDE DEF rest, victims
<1>9. /\ Keep(o, rest) \in Seq(RunId) /\ IsInjective(Keep(o, rest))
      /\ ToSet(Keep(o, rest)) = rest
      /\ Len(Keep(o, rest)) = Cardinality(rest) /\ Len(Keep(o, rest)) <= Len(o)
  BY <1>6, KeepInS, KeepInjective, KeepLength
<1>10. Cardinality(live) <= MaxRetained => Len(Keep(o, rest)) <= MaxRetained
  <2>1. CASE k > 0
    <3>. HIDE DEF live
    <3>. QED  BY <1>3, <1>7, <1>8, <1>9, <2>1, LimitAssumption
  <2>2. CASE ~(k > 0)
    <3>. HIDE DEF live
    <3>. QED  BY <1>3, <1>9, <2>2, LimitAssumption
  <2>. QED  BY <2>1, <2>2
<1>. QED  BY <1>1, <1>6, <1>9, <1>10

-----------------------------------------------------------------------------
(* Types.                                                                  *)

\* A script that is not empty starts with a step.
LEMMA HeadStep ==
  ASSUME Types, script # <<>>
  PROVE  LET st == Head(script) IN
         /\ st \in StepType /\ st.run \in RunId
         /\ st.do = "emit" => st.what \in EventType
         /\ st.do = "finish" => st.what \in Terminal
         /\ Tail(script) \in Seq(StepType)
         /\ Len(script) \in Nat \ {0} /\ st = script[1]
         /\ Len(Tail(script)) = Len(script) - 1
         /\ \A i \in 1..(Len(script) - 1) : Tail(script)[i] = script[i+1]
<1>1. script \in Seq(StepType)  BY DEF Types
<1>2. /\ Head(script) \in StepType /\ Head(script) = script[1]
      /\ Tail(script) \in Seq(StepType) /\ Len(script) \in Nat \ {0}
      /\ Len(Tail(script)) = Len(script) - 1
      /\ \A i \in 1..(Len(script) - 1) : Tail(script)[i] = script[i+1]
  BY <1>1
<1>. DEFINE st == Head(script)
<1>3. st \in StepType  BY <1>2
<1>. HIDE DEF st
<1>4. /\ st.run \in RunId
      /\ st.do = "emit" => st.what \in EventType
      /\ st.do = "finish" => st.what \in Terminal
  BY <1>3 DEF StepType
<1>. QED  BY <1>2, <1>4 DEF st

\* The steps a method may leave.
LEMMA Steps ==
  ASSUME NEW r \in RunId
  PROVE  /\ \A what \in EventType : Step("emit", r, what) \in StepType
         /\ \A what \in Terminal : Step("finish", r, what) \in StepType
         /\ Step("submit", r, "") \in StepType
BY DEF Step, StepType

\* Scripts of one, two and three steps.
LEMMA Scripts ==
  ASSUME NEW a \in StepType, NEW b \in StepType, NEW c \in StepType
  PROVE  <<a>> \in Seq(StepType) /\ <<a, b>> \in Seq(StepType) /\ <<a, b, c>> \in Seq(StepType)
OBVIOUS

\* The terminal states are states, and types of events.
LEMMA TerminalTypes == Terminal \subseteq EventType /\ Terminal \subseteq RunState
BY DEF Terminal, EventType, RunState

\* One field of a run changes.
LEMMA RunFields ==
  ASSUME NEW x \in RunType
  PROVE  /\ \A s \in RunState : [x EXCEPT !.state = s] \in RunType
         /\ [x EXCEPT !.cancel = TRUE] \in RunType
         /\ [x EXCEPT !.outputs = TRUE] \in RunType
         /\ [x EXCEPT !.error = "internal_error"] \in RunType
BY DEF RunType, Error

\* The runs before and after create.
LEMMA NewRunType == NoRun \in RunType /\ NewRun \in RunType
<1>1. NoRun \in RunType
  <2>1. <<>> \in Seq(Event) /\ 1 \in Nat \ {0}  OBVIOUS
  <2>. QED  BY <2>1 DEF RunType, RunState, Error, NoRun
<1>2. NewRun \in RunType
  <2>1. "queued" \in RunState  BY DEF RunState
  <2>. QED  BY <1>1, <2>1, RunFields DEF NewRun
<1>. QED  BY <1>1, <1>2

\* The state of one run changes, the others stay.
LEMMA RunExcept ==
  ASSUME NEW R \in [RunId -> RunType], NEW r \in RunId
  PROVE  /\ \A s \in RunState : [R EXCEPT ![r].state = s] \in [RunId -> RunType]
         /\ [R EXCEPT ![r].cancel = TRUE] \in [RunId -> RunType]
         /\ [R EXCEPT ![r].outputs = TRUE] \in [RunId -> RunType]
         /\ [R EXCEPT ![r].error = "internal_error"] \in [RunId -> RunType]
         /\ \A x \in RunType : [R EXCEPT ![r] = x] \in [RunId -> RunType]
<1>1. \A x \in RunType : [R EXCEPT ![r] = x] \in [RunId -> RunType]  OBVIOUS
<1>. QED  BY <1>1, RunFields

\* The row of a run that is loaded from the journal.
Loaded(row)      == [NoRun EXCEPT !.state = row.state, !.events = row.events,
                                  !.next = row.next, !.error = row.error]
Interrupted(row) == [Loaded(row) EXCEPT !.state = "failed", !.error = "process_restarted"]

\* A loaded run has the type of a run.
LEMMA LoadedType ==
  ASSUME NEW row \in RowType
  PROVE  row.id \in RunId /\ Loaded(row) \in RunType /\ Interrupted(row) \in RunType
BY DEF Loaded, Interrupted, NoRun, RowType, RunType, RunState, Error, Terminal

\* A process that has never run.
LEMMA InitBase == Init => Base
<1>. SUFFICES ASSUME Init PROVE Base  OBVIOUS
<1>1. IsInjective(<<>>) /\ IsInjective(IdOf(<<>>))  BY DEF IsInjective, IdOf
<1>2. NoRun \in RunType  BY NewRunType
<1>3. 0 \in 0..MaxFaults /\ NoSub \in SubType /\ NoClose \in [runs : Seq(RunId), wait : BOOLEAN]
  BY LimitAssumption DEF NoSub, SubType, NoClose
<1>4. Types
  <2>1. /\ order \in Seq(RunId) /\ queue \in Seq(RunId) /\ script \in Seq(StepType)
        /\ boot \in Seq(RowType) /\ disk \in Seq(RowType)
    BY DEF Init
  <2>2. run \in [RunId -> RunType] /\ sub \in [Client -> SubType]
    BY <1>2, <1>3 DEF Init
  <2>. QED  BY <1>3, <2>1, <2>2 DEF Init, Types
<1>5. Distinct  BY <1>1 DEF Init, Distinct
<1>6. AtRest  BY DEF Init, AtRest
<1>. QED  BY <1>4, <1>5, <1>6 DEF Base

\* Whoever has the lock, a thread or a client is at work in a process that
\* has started.
LEMMA Awake ==
  ASSUME Base,
         script # <<>> \/ queue # <<>> \/ Unlocked
           \/ (\E r \in RunId : pc[r] # "none")
           \/ \E c \in Client : sub[c].phase # "off"
  PROVE  stage \notin {"restoring", "down"}
BY DEF Base, AtRest, Unlocked, NoSub

\* Emit keeps the base invariant.
LEMMA EmitBase == ASSUME Base, Emit PROVE Base'
<1>. DEFINE st == Head(script)
<1>1. st.run \in RunId /\ st.what \in EventType /\ Tail(script) \in Seq(StepType)
  BY HeadStep DEF Base, Emit
<1>2. run' \in [RunId -> RunType]  BY <1>1, AppendedRuns DEF Base, Types, Emit
<1>3. Persisted(order, run')  BY DEF Emit
<1>4. disk' \in Seq(RowType) /\ IsInjective(IdOf(disk'))
      /\ jerr' \in BOOLEAN /\ durable' \in SUBSET RunId /\ faults' \in 0..MaxFaults
  BY <1>2, <1>3, PersistedFacts DEF Base, Types, Distinct
<1>5. Types'  BY <1>1, <1>2, <1>4 DEF Base, Types, Emit, process
<1>6. Distinct'  BY <1>4 DEF Base, Distinct, Emit, process, Retained
<1>7. stage \notin {"restoring", "down"}  BY Awake DEF Emit
<1>. QED  BY <1>5, <1>6, <1>7 DEF Base, AtRest, Emit, process

\* Submit keeps the base invariant.
LEMMA SubmitBase == ASSUME Base, Submit PROVE Base'
<1>. DEFINE st == Head(script)
<1>1. st.run \in RunId /\ Tail(script) \in Seq(StepType)
  BY HeadStep DEF Base, Submit
<1>2. Persisted(order, run)  BY DEF Submit
<1>3. disk' \in Seq(RowType) /\ IsInjective(IdOf(disk'))
      /\ jerr' \in BOOLEAN /\ durable' \in SUBSET RunId /\ faults' \in 0..MaxFaults
  BY <1>2, PersistedFacts DEF Base, Types, Distinct
<1>4. Types'  BY <1>1, <1>3 DEF Base, Types, Submit, process
<1>5. Distinct'  BY <1>3 DEF Base, Distinct, Submit, process, Retained
<1>6. stage \notin {"restoring", "down"}  BY Awake DEF Submit
<1>. QED  BY <1>4, <1>5, <1>6 DEF Base, AtRest, Submit, process

\* What Finish does to a run that is not over.
Ending(r, s) ==
  LET R == [run EXCEPT ![r].state = s] IN
  /\ run' = Appended(R, r, s) /\ Persisted(order, run')
  /\ arts' = IF s = "succeeded" THEN arts ELSE arts \ {r}
  /\ leased' = leased \ {r} /\ order' = Pruned(order, run')

\* Finish, as a state predicate and what it changes.
LEMMA FinishCases ==
  ASSUME Finish
  PROVE  LET r == Head(script).run s == Head(script).what IN
         /\ script # <<>> /\ Head(script).do = "finish"
         /\ \/ IsOver(run, r) /\ UNCHANGED <<order, run, journal, arts, leased>>
            \/ ~IsOver(run, r) /\ Ending(r, s)
         /\ script' = Tail(script)
         /\ UNCHANGED <<pc, queue, stage, closing, boot, sub>>
BY DEF Finish, Ending, process

\* Finish keeps the base invariant.
LEMMA FinishBase == ASSUME Base, Finish PROVE Base'
<1>. DEFINE r == Head(script).run
            s == Head(script).what
            R == [run EXCEPT ![r].state = s]
<1>1. r \in RunId /\ s \in EventType /\ s \in RunState /\ Tail(script) \in Seq(StepType)
  BY HeadStep, TerminalTypes DEF Base, Finish
<1>2. stage \notin {"restoring", "down"} /\ UNCHANGED <<pc, queue, stage, closing, boot, sub>>
      /\ script' = Tail(script)
  BY Awake, FinishCases
<1>3. CASE IsOver(run, r) /\ UNCHANGED <<order, run, journal, arts, leased>>
  BY <1>1, <1>2, <1>3 DEF Base, Types, Distinct, AtRest, journal, Retained
<1>4. CASE Ending(r, s)
  <2>1. R \in [RunId -> RunType]  BY <1>1, RunExcept DEF Base, Types
  <2>2. run' \in [RunId -> RunType]  BY <1>1, <1>4, <2>1, AppendedRuns DEF Ending
  <2>3. disk' \in Seq(RowType) /\ IsInjective(IdOf(disk'))
        /\ jerr' \in BOOLEAN /\ durable' \in SUBSET RunId /\ faults' \in 0..MaxFaults
    BY <1>4, <2>2, PersistedFacts DEF Base, Types, Distinct, Ending
  <2>4. order' \in Seq(RunId) /\ IsInjective(order')
    BY <1>4, PrunedFacts DEF Base, Types, Distinct, Ending
  <2>5. arts' \in SUBSET RunId /\ leased' \in SUBSET RunId
    BY <1>4 DEF Base, Types, Ending
  <2>6. Types'  BY <1>1, <1>2, <2>2, <2>3, <2>4, <2>5 DEF Base, Types
  <2>7. Distinct'  BY <1>2, <2>3, <2>4 DEF Base, Distinct
  <2>. QED  BY <1>2, <2>6, <2>7 DEF Base, AtRest
<1>. QED  BY <1>3, <1>4, FinishCases

\* Create keeps the base invariant.
LEMMA CreateBase == ASSUME Base, NEW r \in RunId, Create(r) PROVE Base'
<1>1. stage = "open" /\ r \notin Retained /\ UNCHANGED <<pc, queue, process, journal, arts, leased, sub>>
  BY DEF Create, Fresh
<1>2. run' \in [RunId -> RunType]
  BY NewRunType, RunExcept DEF Base, Types, Create
<1>3. order' \in Seq(RunId) /\ IsInjective(order')
  <2>. DEFINE o == Pruned(order, run)
  <2>1. o \in Seq(RunId) /\ IsInjective(o) /\ ToSet(o) \subseteq Retained
    BY PrunedFacts DEF Base, Types, Distinct, Retained
  <2>2. r \notin ToSet(o)  BY <1>1, <2>1
  <2>. HIDE DEF o
  <2>3. Append(o, r) \in Seq(RunId) /\ IsInjective(Append(o, r))
    BY <2>1, <2>2, InjectiveAppend
  <2>4. order' = Pruned(Append(o, r), run')  BY DEF Create, o
  <2>. QED  BY <2>3, <2>4, PrunedFacts
<1>4. script' \in Seq(StepType)
  <2>1. {"created", "resolved"} \subseteq EventType  BY DEF EventType
  <2>2. /\ Step("emit", r, "created") \in StepType /\ Step("emit", r, "resolved") \in StepType
        /\ Step("submit", r, "") \in StepType
    BY <2>1, Steps
  <2>. QED  BY <2>2, Scripts DEF Create
<1>5. Types'  BY <1>1, <1>2, <1>3, <1>4 DEF Base, Types, process, journal
<1>6. Distinct'  BY <1>1, <1>3 DEF Base, Distinct, process, journal
<1>. QED  BY <1>1, <1>5, <1>6 DEF Base, AtRest, process

\* Cancel keeps the base invariant.
LEMMA CancelBase == ASSUME Base, NEW r \in RunId, Cancel(r) PROVE Base'
<1>1. run' \in [RunId -> RunType]  BY RunExcept DEF Base, Types, Cancel
<1>2. script' \in Seq(StepType)
  <2>1. "cancelling" \in EventType /\ "cancelled" \in Terminal  BY DEF EventType, Terminal
  <2>2. Step("emit", r, "cancelling") \in StepType /\ Step("finish", r, "cancelled") \in StepType
    BY <2>1, Steps
  <2>3. \/ script' = <<Step("emit", r, "cancelling")>>
        \/ script' = <<Step("emit", r, "cancelling"), Step("finish", r, "cancelled")>>
    BY DEF Cancel
  <2>. QED  BY <2>2, <2>3, Scripts
<1>3. stage \notin {"restoring", "down"}  BY Awake DEF Cancel
<1>4. Types'  BY <1>1, <1>2 DEF Base, Types, Cancel, process, journal
<1>5. Distinct'  BY DEF Base, Distinct, Cancel, process, journal, Retained
<1>. QED  BY <1>3, <1>4, <1>5 DEF Base, AtRest, Cancel, process

\* A sequence of reports is a script.
LEMMA StepsOf ==
  ASSUME NEW s \in Seq(RunId), NEW do, NEW what,
         \A r \in RunId : Step(do, r, what) \in StepType
  PROVE  [i \in DOMAIN s |-> Step(do, s[i], what)] \in Seq(StepType)
<1>1. DOMAIN s = 1..Len(s) /\ Len(s) \in Nat /\ \A i \in 1..Len(s) : s[i] \in RunId
  OBVIOUS
<1>2. \A i \in 1..Len(s) : Step(do, s[i], what) \in StepType  BY <1>1
<1>. QED  BY <1>1, <1>2, IsASeq

\* Close keeps the base invariant.
LEMMA CloseBase == ASSUME Base, NEW wait \in BOOLEAN, Close(wait) PROVE Base'
<1>. DEFINE active == Keep(order, Active)
<1>1. active \in Seq(RunId)  BY KeepInS DEF Base, Types
<1>. HIDE DEF active
<1>2. /\ closing' = [runs |-> active, wait |-> wait]
      /\ run' = [r \in RunId |-> IF r \in ToSet(active)
                                 THEN [run[r] EXCEPT !.cancel = TRUE] ELSE run[r]]
      /\ script' = [i \in DOMAIN active |-> Step("emit", active[i], "cancelling")]
      /\ stage = "open" /\ stage' = "closing"
      /\ UNCHANGED <<order, pc, queue, boot, journal, arts, leased, sub>>
  BY DEF Close, active
<1>3. run' \in [RunId -> RunType]  BY <1>2, RunFields DEF Base, Types
<1>4. script' \in Seq(StepType)
  <2>1. "cancelling" \in EventType  BY DEF EventType
  <2>2. \A r \in RunId : Step("emit", r, "cancelling") \in StepType  BY <2>1, Steps
  <2>. QED  BY <1>1, <1>2, <2>2, StepsOf
<1>5. closing' \in [runs : Seq(RunId), wait : BOOLEAN]  BY <1>1, <1>2
<1>6. Types'  BY <1>2, <1>3, <1>4, <1>5 DEF Base, Types, journal
<1>7. Distinct'  BY <1>2 DEF Base, Distinct, journal, Retained
<1>. QED  BY <1>2, <1>6, <1>7 DEF Base, AtRest

\* shutdown, and the end of close.
LEMMA ClosingBase == ASSUME Base, Closing PROVE Base'
<1>1. CASE Shutdown
  <2>1. Types'  BY <1>1 DEF Base, Types, Shutdown, journal
  <2>2. Distinct'  BY <1>1 DEF Base, Distinct, Shutdown, journal, Retained
  <2>. QED  BY <1>1, <2>1, <2>2 DEF Base, AtRest, Shutdown
<1>2. CASE Closed
  <2>. DEFINE rest == Keep(closing.runs, {r \in RunId : closing.wait \/ pc[r] = "dropped"})
  <2>1. rest \in Seq(RunId)
    <3>1. closing.runs \in Seq(RunId)  BY DEF Base, Types
    <3>. QED  BY <3>1, KeepInS
  <2>. HIDE DEF rest
  <2>2. script' = [i \in DOMAIN rest |-> Step("finish", rest[i], "cancelled")]
    BY <1>2 DEF Closed, rest
  <2>3. script' \in Seq(StepType)
    <3>1. "cancelled" \in Terminal  BY DEF Terminal
    <3>2. \A r \in RunId : Step("finish", r, "cancelled") \in StepType  BY <3>1, Steps
    <3>. QED  BY <2>1, <2>2, <3>2, StepsOf
  <2>4. Types'  BY <1>2, <2>3 DEF Base, Types, Closed, journal
  <2>5. Distinct'  BY <1>2 DEF Base, Distinct, Closed, journal, Retained
  <2>. QED  BY <1>2, <2>4, <2>5 DEF Base, AtRest, Closed
<1>. QED  BY <1>1, <1>2 DEF Closing

\* Pick keeps the base invariant.
LEMMA PickBase == ASSUME Base, Pick PROVE Base'
<1>1. Head(queue) \in RunId /\ Tail(queue) \in Seq(RunId)  BY DEF Base, Types, Pick
<1>2. Types'  BY <1>1 DEF Base, Types, Pick, process, journal
<1>3. Distinct'  BY DEF Base, Distinct, Pick, process, journal, Retained
<1>4. stage \notin {"restoring", "down"}  BY Awake DEF Pick
<1>. QED  BY <1>2, <1>3, <1>4 DEF Base, AtRest, Pick, process

\* A thread at its work changes the run, its own place, the script and what it
\* stores and leases.
LEMMA WorkTypes ==
  ASSUME Base, UNCHANGED <<order, queue, process, journal, sub>>,
         run' \in [RunId -> RunType], script' \in Seq(StepType),
         arts' \in SUBSET RunId, leased' \in SUBSET RunId,
         NEW r \in RunId,
         \E next \in {"none", "executing", "storing", "returned", "garbled", "raised",
                    "stopped"} : pc' = pc \/ pc' = [pc EXCEPT ![r] = next]
  PROVE  Types'
<1>1. pc' \in [RunId -> {"none", "queued", "picked", "executing", "storing", "returned",
                         "garbled", "stopped", "raised", "dropped"}]
  BY DEF Base, Types
<1>2. /\ order' = order /\ queue' = queue /\ stage' = stage /\ closing' = closing
      /\ boot' = boot /\ disk' = disk /\ jerr' = jerr /\ durable' = durable
      /\ faults' = faults /\ sub' = sub
  BY DEF process, journal
<1>. QED  BY <1>1, <1>2 DEF Base, Types

\* A thread keeps the base invariant.
LEMMA WorkBase ==
  ASSUME Base, NEW r \in RunId, Work(r) \/ Note(r) \/ Return(r)
  PROVE  Base'
<1>1. stage \notin {"restoring", "down"}
  BY Awake DEF Work, Begin, Store, Complete, Stopped, Raised, Note, Return
<1>2. UNCHANGED <<order, queue, process, journal, sub>>
  BY DEF Work, Begin, Store, Complete, Stopped, Raised, Note, Return
<1>0. arts' \in SUBSET RunId /\ leased' \in SUBSET RunId
  BY DEF Base, Types, Work, Begin, Store, Complete, Stopped, Raised, Note, Return
<1>3. {"cancelled", "succeeded", "failed"} \subseteq Terminal /\ Terminal \subseteq EventType
      /\ {"started", "note", "produced", "completed"} \subseteq EventType
      /\ "running" \in RunState
  BY DEF EventType, Terminal, RunState
<1>4. run \in [RunId -> RunType] /\ script \in Seq(StepType)  BY DEF Base, Types
<1>. DEFINE E(what) == Step("emit", r, what)
            F(what) == Step("finish", r, what)
<1>. \A what \in EventType : E(what) \in StepType  BY Steps
<1>. \A what \in Terminal : F(what) \in StepType  BY Steps
<1>. HIDE DEF E, F
<1>5. ASSUME Begin(r) PROVE Types'
  <2>1. run' \in [RunId -> RunType]
    <3>1. run' = run \/ run' = [run EXCEPT ![r].state = "running"]  BY <1>5 DEF Begin
    <3>2. [run EXCEPT ![r].state = "running"] \in [RunId -> RunType]  BY <1>3, <1>4, RunExcept
    <3>. QED  BY <1>4, <3>1, <3>2
  <2>2. script' \in {script, <<E("started")>>, <<F("cancelled")>>}  BY <1>5 DEF Begin, E, F
  <2>3. script' \in Seq(StepType)  BY <1>3, <1>4, <2>2, Scripts
  <2>. QED  BY <1>0, <1>2, <1>5, <2>1, <2>3, WorkTypes DEF Begin
<1>6. ASSUME Note(r) PROVE Types'
  <2>1. script' = <<E("note")>>  BY <1>6 DEF Note, E
  <2>2. script' \in Seq(StepType)  BY <1>3, <2>1, Scripts
  <2>. QED  BY <1>0, <1>2, <1>6, <1>4, <2>2, WorkTypes DEF Note
<1>7. ASSUME Return(r) PROVE Types'
  BY <1>0, <1>2, <1>4, <1>7, WorkTypes DEF Return
<1>8. ASSUME Store(r) PROVE Types'
  <2>1. script' \in {script, <<E("produced")>>}  BY <1>8 DEF Store, E
  <2>2. script' \in Seq(StepType)  BY <1>3, <1>4, <2>1, Scripts
  <2>. QED  BY <1>0, <1>2, <1>8, <1>4, <2>2, WorkTypes DEF Store
<1>9. ASSUME Complete(r) PROVE Types'
  <2>1. run' \in [RunId -> RunType]
    <3>1. run' = run \/ run' = [run EXCEPT ![r].outputs = TRUE]  BY <1>9 DEF Complete
    <3>2. [run EXCEPT ![r].outputs = TRUE] \in [RunId -> RunType]  BY <1>4, RunExcept
    <3>. QED  BY <1>4, <3>1, <3>2
  <2>2. script' \in {script, <<F("cancelled")>>, <<E("completed"), F("succeeded")>>}
    BY <1>9 DEF Complete, E, F
  <2>3. script' \in Seq(StepType)  BY <1>3, <1>4, <2>2, Scripts
  <2>. QED  BY <1>0, <1>2, <1>9, <2>1, <2>3, WorkTypes DEF Complete
<1>10. ASSUME Stopped(r) PROVE Types'
  <2>1. script' = <<F("cancelled")>>  BY <1>10 DEF Stopped, F
  <2>2. script' \in Seq(StepType)  BY <1>3, <2>1, Scripts
  <2>. QED  BY <1>0, <1>2, <1>10, <1>4, <2>2, WorkTypes DEF Stopped
<1>11. ASSUME Raised(r) PROVE Types'
  <2>1. run' \in [RunId -> RunType]
    <3>1. run' = run \/ run' = [run EXCEPT ![r].error = "internal_error"]  BY <1>11 DEF Raised
    <3>2. [run EXCEPT ![r].error = "internal_error"] \in [RunId -> RunType]  BY <1>4, RunExcept
    <3>. QED  BY <1>4, <3>1, <3>2
  <2>2. script' \in {script, <<E("failed"), F("failed")>>}  BY <1>11 DEF Raised, E, F
  <2>3. script' \in Seq(StepType)  BY <1>3, <1>4, <2>2, Scripts
  <2>. QED  BY <1>0, <1>2, <1>11, <2>1, <2>3, WorkTypes DEF Raised
<1>12. Distinct' /\ AtRest'  BY <1>1, <1>2 DEF Base, Distinct, AtRest, process, journal, Retained
<1>. QED  BY <1>5, <1>6, <1>7, <1>8, <1>9, <1>10, <1>11, <1>12 DEF Work, Base

\* Everything but the disk is as at the start.
LEMMA GoneBase == ASSUME Base, Crash \/ Exit PROVE Base'
<1>1. Gone /\ faults' \in 0..MaxFaults
  BY LimitAssumption DEF Base, Types, Crash, Exit
<1>2. NoRun \in RunType /\ NoSub \in SubType /\ NoClose \in [runs : Seq(RunId), wait : BOOLEAN]
  BY NewRunType DEF NoSub, SubType, NoClose
<1>3. /\ order' \in Seq(RunId) /\ queue' \in Seq(RunId) /\ script' \in Seq(StepType)
      /\ boot' \in Seq(RowType)
  BY <1>1 DEF Gone
<1>4. Types'  BY <1>1, <1>2, <1>3 DEF Base, Types, Gone
<1>5. IsInjective(<<>>) /\ IsInjective(IdOf(<<>>))  BY DEF IsInjective, IdOf
<1>6. Distinct'  BY <1>1, <1>5 DEF Base, Distinct, Gone
<1>7. AtRest'  BY <1>1 DEF Gone, AtRest
<1>. QED  BY <1>4, <1>6, <1>7 DEF Base

\* Restart keeps the base invariant.
LEMMA RestartBase == ASSUME Base, Restart PROVE Base'
<1>1. Types'  BY DEF Base, Types, Restart, journal
<1>2. order = <<>> /\ order' = <<>>  BY DEF Base, AtRest, Restart
<1>3. Retained' = {}  BY <1>2 DEF Retained, ToSet
<1>4. Distinct'  BY <1>3 DEF Base, Distinct, Restart, journal
<1>. QED  BY <1>1, <1>2, <1>4 DEF Base, AtRest, Restart

\* One row is loaded.
LEMMA RestoreRowCases ==
  ASSUME Base, RestoreRow
  PROVE  LET row == Head(boot) IN
         /\ stage = "restoring" /\ boot # <<>> /\ row \in RowType /\ row.id \in RunId
         /\ row.id \in Ids(boot) /\ row.id \notin Retained
         /\ order' = Append(order, row.id) /\ order' \in Seq(RunId) /\ IsInjective(order')
         /\ Retained' = Retained \cup {row.id}
         /\ boot' = Tail(boot) /\ boot' \in Seq(RowType) /\ IsInjective(IdOf(boot'))
         /\ Ids(boot') = Ids(boot) \ {row.id}
         /\ Len(boot) \in Nat \ {0} /\ row = boot[1] /\ DOMAIN boot' = 1..(Len(boot) - 1)
         /\ \A i \in DOMAIN boot' : boot'[i] = boot[i+1] /\ i + 1 \in DOMAIN boot
         /\ \/ /\ row.state \in Terminal
               /\ run' = [run EXCEPT ![row.id] = Loaded(row)] /\ UNCHANGED journal
            \/ /\ row.state \notin Terminal
               /\ run' = Appended([run EXCEPT ![row.id] = Interrupted(row)], row.id, "failed")
               /\ Persisted(order', run')
         /\ run' \in [RunId -> RunType]
         /\ UNCHANGED <<pc, queue, script, stage, closing, arts, leased, sub>>
<1>. DEFINE row == Head(boot)
<1>0. /\ stage = "restoring" /\ boot # <<>> /\ order' = Append(order, row.id)
      /\ boot' = Tail(boot)
      /\ \/ /\ row.state \in Terminal
            /\ run' = [run EXCEPT ![row.id] = Loaded(row)] /\ UNCHANGED journal
         \/ /\ row.state \notin Terminal
            /\ run' = Appended([run EXCEPT ![row.id] = Interrupted(row)], row.id, "failed")
            /\ Persisted(order', run')
      /\ UNCHANGED <<pc, queue, script, stage, closing, arts, leased, sub>>
  BY DEF RestoreRow, Loaded, Interrupted
<1>1. boot \in Seq(RowType) /\ boot # <<>>  BY <1>0 DEF Base, Types
<1>2. /\ row \in RowType /\ Tail(boot) \in Seq(RowType)
      /\ Len(boot) \in Nat \ {0} /\ row = boot[1] /\ DOMAIN boot = 1..Len(boot)
      /\ DOMAIN Tail(boot) = 1..(Len(boot) - 1)
      /\ \A i \in 1..(Len(boot) - 1) : Tail(boot)[i] = boot[i+1] /\ i + 1 \in DOMAIN boot
  BY <1>1
<1>. HIDE DEF row
<1>3. row.id \in RunId /\ Loaded(row) \in RunType /\ Interrupted(row) \in RunType
  BY <1>2, LoadedType
<1>4. row.id \in Ids(boot) /\ row.id \notin Retained
  <2>1. 1 \in DOMAIN boot  BY <1>2
  <2>2. row.id \in Ids(boot)  BY <1>2, <2>1 DEF Ids
  <2>. QED  BY <1>0, <2>2 DEF Base, Distinct
<1>5. order' \in Seq(RunId) /\ IsInjective(order') /\ Retained' = Retained \cup {row.id}
  BY <1>0, <1>3, <1>4, InjectiveAppend, ToSetAppend DEF Base, Types, Distinct, Retained
<1>6. IdOf(boot) = [i \in 1..Len(boot) |-> boot[i].id] /\ IsInjective(IdOf(boot))
  BY <1>2 DEF IdOf, Base, Distinct
<1>7. \A i, j \in 1..Len(boot) : boot[i].id = boot[j].id => i = j
  BY <1>6 DEF IsInjective
<1>8. IsInjective(IdOf(boot'))
  <2>1. IdOf(boot') = [i \in 1..(Len(boot)-1) |-> boot[i+1].id]  BY <1>0, <1>2 DEF IdOf
  <2>2. \A i, j \in 1..(Len(boot)-1) : boot[i+1].id = boot[j+1].id => i = j
    <3>1. \A i \in 1..(Len(boot)-1) : i + 1 \in 1..Len(boot)  BY <1>2
    <3>2. \A i, j \in 1..(Len(boot)-1) : boot[i+1].id = boot[j+1].id => i + 1 = j + 1
      BY <1>7, <3>1
    <3>. QED  BY <3>2
  <2>. QED  BY <2>1, <2>2 DEF IsInjective
<1>9. Ids(boot') = Ids(boot) \ {row.id}
  <2>1. \A i \in 1..(Len(boot)-1) : i + 1 \in 1..Len(boot) /\ boot[i+1].id # row.id
    <3>1. \A i \in 1..(Len(boot)-1) : i + 1 \in 1..Len(boot) /\ i + 1 # 1 /\ 1 \in 1..Len(boot)
      BY <1>2
    <3>. QED  BY <1>2, <1>7, <3>1
  <2>2. \A j \in 1..Len(boot) : j # 1 => j - 1 \in 1..(Len(boot)-1) /\ boot'[j-1] = boot[j]
    BY <1>0, <1>2
  <2>3. Ids(boot') \subseteq Ids(boot) \ {row.id}
    BY <1>0, <1>2, <2>1 DEF Ids
  <2>4. ASSUME NEW x \in Ids(boot), x # row.id PROVE x \in Ids(boot')
    <3>1. PICK j \in 1..Len(boot) : x = boot[j].id  BY <1>2 DEF Ids
    <3>2. j # 1  BY <1>2, <2>4, <3>1
    <3>. QED  BY <1>0, <1>2, <2>2, <3>1, <3>2 DEF Ids
  <2>. QED  BY <2>3, <2>4
<1>10. run' \in [RunId -> RunType]
  <2>1. "failed" \in EventType  BY DEF EventType, Terminal
  <2>2. /\ [run EXCEPT ![row.id] = Loaded(row)] \in [RunId -> RunType]
        /\ [run EXCEPT ![row.id] = Interrupted(row)] \in [RunId -> RunType]
    BY <1>3, RunExcept DEF Base, Types
  <2>3. Appended([run EXCEPT ![row.id] = Interrupted(row)], row.id, "failed") \in [RunId -> RunType]
    BY <1>3, <2>1, <2>2, AppendedRuns, ZenonT(30)
  <2>. QED  BY <1>0, <2>2, <2>3
<1>. QED  BY <1>0, <1>2, <1>3, <1>4, <1>5, <1>8, <1>9, <1>10 DEF row

\* RestoreRow keeps the base invariant.
LEMMA RestoreRowBase == ASSUME Base, RestoreRow PROVE Base'
<1>. DEFINE row == Head(boot)
<1>1. /\ stage = "restoring" /\ row.id \notin Retained
      /\ order' \in Seq(RunId) /\ IsInjective(order')
      /\ Retained' = Retained \cup {row.id}
      /\ boot' \in Seq(RowType) /\ IsInjective(IdOf(boot'))
      /\ Ids(boot') = Ids(boot) \ {row.id}
      /\ UNCHANGED journal \/ Persisted(order', run')
      /\ run' \in [RunId -> RunType]
      /\ UNCHANGED <<pc, queue, script, stage, closing, arts, leased, sub>>
  BY RestoreRowCases
<1>2. disk' \in Seq(RowType) /\ IsInjective(IdOf(disk'))
      /\ jerr' \in BOOLEAN /\ durable' \in SUBSET RunId /\ faults' \in 0..MaxFaults
  <2>1. CASE UNCHANGED journal  BY <2>1 DEF Base, Types, Distinct, journal
  <2>2. CASE Persisted(order', run')  BY <1>1, <2>2, PersistedFacts DEF Base
  <2>. QED  BY <1>1, <2>1, <2>2
<1>3. Types'  BY <1>1, <1>2 DEF Base, Types
<1>4. Distinct'  BY <1>1, <1>2 DEF Base, Distinct
<1>. QED  BY <1>1, <1>3, <1>4 DEF Base, AtRest

\* Restored keeps the base invariant.
LEMMA RestoredBase == ASSUME Base, Restored PROVE Base'
<1>1. order' \in Seq(RunId) /\ IsInjective(order')
  BY PrunedFacts DEF Base, Types, Distinct, Restored
<1>2. disk' \in Seq(RowType) /\ IsInjective(IdOf(disk'))
      /\ jerr' \in BOOLEAN /\ durable' \in SUBSET RunId /\ faults' \in 0..MaxFaults
  BY <1>1, PersistedFacts DEF Base, Types, Restored
<1>3. Types'  BY <1>1, <1>2 DEF Base, Types, Restored
<1>4. Distinct'  BY <1>1, <1>2 DEF Base, Distinct, Restored
<1>. QED  BY <1>3, <1>4 DEF Base, AtRest, Restored

\* What wait_events returns.
LEMMA LaterFacts ==
  ASSUME Types, NEW c \in Client, sub[c].run \in RunId
  PROVE  LET events == run[sub[c].run].events l == Later(c) IN
         /\ events \in Seq(Event) /\ l \in Seq(Event)
         /\ l # <<>> => \E i \in 1..Len(events) :
              Last(l) = events[i] /\ Last(l).seq \in Nat /\ events[i].seq > sub[c].after
         /\ l = <<>> => \A i \in 1..Len(events) : ~(events[i].seq > sub[c].after)
<1>. DEFINE events == run[sub[c].run].events
            S == {e \in ToSet(events) : e.seq > sub[c].after}
            l == Later(c)
<1>1. events \in Seq(Event)  BY DEF Types, RunType
<1>2. l = Keep(events, S)  BY DEF Later
<1>3. ToSet(events) \cap S = S  OBVIOUS
<1>. HIDE DEF S, l, events
<1>4. l \in Seq(Event) /\ ToSet(l) = S /\ (l = <<>> <=> S = {})
  <2>1. Keep(events, S) \in Seq(Event) /\ ToSet(Keep(events, S)) = ToSet(events) \cap S
    BY <1>1, KeepInS
  <2>2. Keep(events, S) = <<>> <=> ToSet(events) \cap S = {}  BY <1>1, KeepNothing
  <2>. QED  BY <1>2, <1>3, <2>1, <2>2
<1>5. ASSUME l # <<>>
      PROVE  \E i \in 1..Len(events) :
              Last(l) = events[i] /\ Last(l).seq \in Nat /\ events[i].seq > sub[c].after
  <2>1. Len(l) \in DOMAIN l /\ Last(l) = l[Len(l)]  BY <1>4, <1>5 DEF Last
  <2>2. Last(l) \in S  BY <1>4, <2>1 DEF ToSet
  <2>3. Last(l) \in ToSet(events) /\ Last(l).seq > sub[c].after  BY <2>2 DEF S
  <2>4. PICK i \in 1..Len(events) : Last(l) = events[i]  BY <1>1, <2>3 DEF ToSet
  <2>5. events[i] \in Event  BY <1>1, <2>4
  <2>6. events[i].seq \in Nat  BY <2>5 DEF Event
  <2>. QED  BY <2>3, <2>4, <2>6
<1>6. ASSUME l = <<>> PROVE \A i \in 1..Len(events) : ~(events[i].seq > sub[c].after)
  BY <1>1, <1>4, <1>6, ToSetOfSeq DEF S
<1>. QED  BY <1>1, <1>4, <1>5, <1>6 DEF l, events

StreamStep(c) ==
  \/ \E r \in Retained : \E after \in Seen(r) : Subscribe(c, r, after)
  \/ Stream(c) \/ Leave(c)

\* The steps of a stream keep the base invariant.
LEMMA StreamBase == ASSUME Base, NEW c \in Client, StreamStep(c) PROVE Base'
<1>1. stage \notin {"restoring", "down"}
  BY Awake DEF StreamStep, Stream, Subscribe, Receive, Check, Leave
<1>2. UNCHANGED <<order, run, pc, queue, script, process, journal, arts, leased>>
  BY DEF StreamStep, Stream, Subscribe, Receive, Check, Leave
<1>3. NoSub \in SubType  BY DEF NoSub, SubType
<1>4. sub \in [Client -> SubType] /\ Types  BY DEF Base, Types
<1>5. \E x \in SubType : sub' = [sub EXCEPT ![c] = x]
  <2>1. ASSUME NEW r \in Retained, NEW after \in Seen(r), Subscribe(c, r, after)
        PROVE  \E x \in SubType : sub' = [sub EXCEPT ![c] = x]
    <3>1. r \in RunId  BY ToSetOfSeq DEF Base, Types, Retained
    <3>2. run[r].next \in Nat  BY <3>1 DEF Base, Types, RunType
    <3>3. after \in Nat  BY <3>2 DEF Seen
    <3>. QED  BY <2>1, <3>1, <3>3 DEF Subscribe, SubType
  <2>2. CASE Receive(c)
    <3>1. CASE sub[c].run \notin Retained  BY <1>3, <2>2, <3>1 DEF Receive
    <3>2. CASE sub[c].run \in Retained /\ Later(c) = <<>>
      BY <1>4, <2>2, <3>2 DEF Receive, SubType
    <3>3. CASE sub[c].run \in Retained /\ Later(c) # <<>>
      <4>1. sub[c].run \in RunId  BY <3>3, ToSetOfSeq DEF Base, Types, Retained
      <4>2. Last(Later(c)).seq \in Nat  BY <1>4, <3>3, <4>1, LaterFacts
      <4>3. [sub[c] EXCEPT !.phase = "check", !.after = Last(Later(c)).seq] \in SubType
        BY <1>4, <4>2 DEF SubType
      <4>. QED  BY <2>2, <3>3, <4>3 DEF Receive
    <3>. QED  BY <3>1, <3>2, <3>3
  <2>3. CASE Check(c)
    <3>1. [sub[c] EXCEPT !.phase = "ended"] \in SubType /\ [sub[c] EXCEPT !.phase = "wait"] \in SubType
      BY <1>4 DEF SubType
    <3>. QED  BY <1>3, <2>3, <3>1 DEF Check
  <2>4. CASE Leave(c)  BY <1>3, <2>4 DEF Leave
  <2>. QED  BY <2>1, <2>2, <2>3, <2>4 DEF StreamStep, Stream
<1>6. Types'  BY <1>2, <1>4, <1>5 DEF Types, process, journal
<1>7. Distinct'  BY <1>2 DEF Base, Distinct, process, journal, Retained
<1>. QED  BY <1>1, <1>2, <1>6, <1>7 DEF Base, AtRest, process

\* The next-state relation, one disjunct per action.
LEMMA NextCases ==
  ASSUME Next
  PROVE  \/ Emit \/ Submit \/ Finish \/ Closing \/ Pick \/ Crash \/ Exit \/ Restart
         \/ RestoreRow \/ Restored
         \/ \E r \in RunId : Create(r) \/ Cancel(r) \/ Work(r) \/ Note(r) \/ Return(r)
         \/ \E wait \in BOOLEAN : Close(wait)
         \/ \E c \in Client : StreamStep(c)
BY DEF Next, HolderStep, Restoring, StreamStep

\* The base invariant is inductive.
LEMMA BaseStep == Base /\ [Next]_vars => Base'
<1>. SUFFICES ASSUME Base, [Next]_vars PROVE Base'  OBVIOUS
<1>1. CASE UNCHANGED vars
  BY <1>1 DEF Base, Types, Distinct, AtRest, Retained, vars, process, journal
<1>2. CASE Next
  BY <1>2, NextCases, EmitBase, SubmitBase, FinishBase, ClosingBase, PickBase, GoneBase,
     RestartBase, RestoreRowBase, RestoredBase, CreateBase, CancelBase, WorkBase,
     CloseBase, StreamBase
<1>. QED  BY <1>1, <1>2

-----------------------------------------------------------------------------
(* The promises: the limits, RunsEndInOrder, EveryRunHasAnEnd and          *)
(* ReadersAreServed.  The inductive invariant IInv is proved in layers,    *)
(* each of which uses those before it: Base, Control, EndInv,              *)
(* EveryRunHasAnEnd, Limits, NumberInv, SubInv and DurableInv.             *)

Waiting(r) == pc[r] \in {"queued", "picked", "dropped"}

\* Futures and threads.
PoolInv ==
  /\ IsInjective(queue)
  /\ \A r \in RunId : pc[r] = "queued" <=> r \in ToSet(queue)
  /\ queue # <<>> => stage \in {"open", "closing"}
  /\ \A r \in RunId : Waiting(r) => run[r].state = "queued" \/ (run[r].cancel /\ IsOver(run, r))
  /\ \A r \in RunId : Executing(r) => run[r].state = "running" /\ r \in Retained \cap leased

\* What the holder of the lock has still to do is in order: it reports on
\* active runs, hands a new one to the pool last, and ends none that executes.
StepOk(st) ==
  /\ st.do \in {"emit", "submit"} => st.run \in Active
  /\ st.do = "submit" =>
       stage = "open" /\ pc[st.run] = "none" /\ run[st.run].state = "queued"
  /\ st.do = "finish" =>
       /\ st.what \in Terminal /\ ~Executing(st.run)
       /\ st.what = "succeeded" => ~run[st.run].cancel
       /\ pc[st.run] # "none" => run[st.run].cancel

ScriptInv ==
  /\ \A i \in DOMAIN script : StepOk(script[i])
  /\ \A i \in DOMAIN script : script[i].do = "submit" => i = Len(script)
  /\ \A i, j \in DOMAIN script :
       i < j /\ script[i].do = "finish" => script[j].do = "finish"

\* Once close has looked for active runs there are no others, and it has
\* cancelled them all.
ClosingInv ==
  /\ stage = "open" => closing = NoClose
  /\ stage \in {"closing", "draining", "closed"} =>
       \A r \in ToSet(closing.runs) : run[r].cancel
  /\ stage \in {"closing", "draining"} => Active \subseteq ToSet(closing.runs)

Control == PoolInv /\ ScriptInv /\ ClosingInv

-----------------------------------------------------------------------------
(* What the actions do to the runs.                                        *)

\* What is in the list is a run.
LEMMA RetainedType == ASSUME Types PROVE Retained \subseteq RunId /\ Active \subseteq RunId
BY ToSetOfSeq DEF Types, Retained, Active

\* The first step is done, the others move up.
LEMMA Popped ==
  ASSUME Types, script # <<>>, script' = Tail(script)
  PROVE  /\ 1 \in DOMAIN script /\ script[1] = Head(script)
         /\ Len(script) \in Nat /\ Len(script') = Len(script) - 1
         /\ \A i \in DOMAIN script' :
              i \in Nat /\ i + 1 \in DOMAIN script /\ script'[i] = script[i+1] /\ 1 < i + 1
         /\ \A i \in DOMAIN script :
              i = 1 \/ (i - 1 \in DOMAIN script' /\ script'[i-1] = script[i])
<1>1. script \in Seq(StepType)  BY DEF Types
<1>. QED  BY <1>1

\* What a report changes.
LEMMA EmitFacts ==
  ASSUME Base, ScriptInv, Emit
  PROVE  LET r == Head(script).run IN
         /\ script # <<>> /\ Head(script).do = "emit" /\ script' = Tail(script)
         /\ r \in Active /\ r \in RunId /\ Head(script).what \in EventType
         /\ run' = Appended(run, r, Head(script).what) /\ run' \in [RunId -> RunType]
         /\ \A q \in RunId : run'[q].state = run[q].state /\ run'[q].cancel = run[q].cancel
         /\ \A q \in RunId \ {r} : run'[q] = run[q]
         /\ Retained' = Retained /\ Active' = Active /\ Persisted(order, run')
         /\ UNCHANGED <<order, pc, queue, stage, closing, boot, arts, leased, sub>>
<1>. DEFINE st == Head(script)
<1>1. /\ script # <<>> /\ st.do = "emit" /\ script' = Tail(script)
      /\ run' = Appended(run, st.run, st.what) /\ Persisted(order, run')
      /\ UNCHANGED <<order, pc, queue, stage, closing, boot, arts, leased, sub>>
  BY DEF Emit, process
<1>2. st.run \in RunId /\ st.what \in EventType /\ st = script[1] /\ 1 \in DOMAIN script
  BY <1>1, HeadStep, Popped DEF Base
<1>3. st.run \in Active  BY <1>1, <1>2 DEF ScriptInv, StepOk
<1>. HIDE DEF st
<1>4. /\ run' \in [RunId -> RunType]
      /\ \A q \in RunId \ {st.run} : run'[q] = run[q]
      /\ run'[st.run].state = run[st.run].state /\ run'[st.run].cancel = run[st.run].cancel
  <2>. DEFINE Q == Appended(run, st.run, st.what)
  <2>1. run \in [RunId -> RunType]  BY DEF Base, Types
  <2>2. /\ Q \in [RunId -> RunType] /\ \A q \in RunId \ {st.run} : Q[q] = run[q]
        /\ Q[st.run].state = run[st.run].state /\ Q[st.run].cancel = run[st.run].cancel
    BY <1>2, <2>1, AppendedRuns
  <2>. HIDE DEF Q
  <2>3. run' = Q  BY <1>1 DEF Q
  <2>. QED  BY <2>2, <2>3
<1>5. \A q \in RunId : run'[q].state = run[q].state /\ run'[q].cancel = run[q].cancel
  BY <1>4
<1>6. Retained' = Retained  BY <1>1 DEF Retained
<1>7. Active' = Active  BY <1>5, <1>6, RetainedType DEF Active, IsOver, Base
<1>. QED  BY <1>1, <1>2, <1>3, <1>4, <1>5, <1>6, <1>7 DEF st

\* What handing a run to the pool changes.
LEMMA SubmitFacts ==
  ASSUME Base, ScriptInv, Submit
  PROVE  LET r == Head(script).run IN
         /\ script # <<>> /\ Head(script).do = "submit" /\ script' = Tail(script)
         /\ script' = <<>> /\ r \in Active /\ r \in RunId
         /\ stage = "open" /\ pc[r] = "none" /\ run[r].state = "queued"
         /\ pc' = [pc EXCEPT ![r] = "queued"] /\ queue' = Append(queue, r)
         /\ Retained' = Retained /\ Active' = Active /\ Persisted(order, run)
         /\ UNCHANGED <<order, run, stage, closing, boot, arts, leased, sub>>
<1>. DEFINE st == Head(script)
<1>1. /\ script # <<>> /\ st.do = "submit" /\ script' = Tail(script)
      /\ pc' = [pc EXCEPT ![st.run] = "queued"] /\ queue' = Append(queue, st.run)
      /\ Persisted(order, run)
      /\ UNCHANGED <<order, run, stage, closing, boot, arts, leased, sub>>
  BY DEF Submit, process
<1>2. st.run \in RunId /\ st = script[1] /\ 1 \in DOMAIN script /\ Len(script') = Len(script) - 1
  BY <1>1, HeadStep, Popped DEF Base
<1>3. /\ st.run \in Active /\ stage = "open" /\ pc[st.run] = "none"
      /\ run[st.run].state = "queued" /\ Len(script) = 1
  BY <1>1, <1>2 DEF ScriptInv, StepOk
<1>4. script' = <<>>
  <2>1. script' \in Seq(StepType)  BY <1>1, HeadStep DEF Base
  <2>. QED  BY <1>2, <1>3, <2>1
<1>5. Retained' = Retained /\ Active' = Active  BY <1>1 DEF Retained, Active, IsOver
<1>. QED  BY <1>1, <1>2, <1>3, <1>4, <1>5

\* A run ends: it is not active any more, the others are as before.
LEMMA EndingFacts ==
  ASSUME Base, NEW r \in RunId, NEW s \in Terminal, Ending(r, s), ~IsOver(run, r)
  PROVE  /\ run' \in [RunId -> RunType]
         /\ \A q \in RunId \ {r} : run'[q] = run[q]
         /\ run'[r].state = s /\ run'[r].cancel = run[r].cancel
         /\ Retained' \subseteq Retained /\ Active' = Active \ {r}
<1>. DEFINE R == [run EXCEPT ![r].state = s]
<1>1. run \in [RunId -> RunType] /\ order \in Seq(RunId) /\ IsInjective(order)
      /\ Retained \subseteq RunId
  BY RetainedType DEF Base, Types, Distinct
<1>2. s \in RunState /\ s \in EventType  BY TerminalTypes
<1>3. R \in [RunId -> RunType]  BY <1>1, <1>2, RunExcept
<1>4. R[r].state = s /\ R[r].cancel = run[r].cancel /\ \A q \in RunId \ {r} : R[q] = run[q]
  BY <1>1 DEF RunType
<1>5. run' = Appended(R, r, s) /\ order' = Pruned(order, run')  BY DEF Ending
<1>. HIDE DEF R
<1>6. /\ run' \in [RunId -> RunType] /\ \A q \in RunId \ {r} : run'[q] = R[q]
      /\ run'[r].state = s /\ run'[r].cancel = run[r].cancel
  <2>. DEFINE Q == Appended(R, r, s)
  <2>2. /\ Q \in [RunId -> RunType] /\ \A q \in RunId \ {r} : Q[q] = R[q]
        /\ Q[r].state = R[r].state /\ Q[r].cancel = R[r].cancel
    BY <1>2, <1>3, AppendedRuns
  <2>. HIDE DEF Q
  <2>3. run' = Q  BY <1>5 DEF Q
  <2>. QED  BY <1>4, <2>2, <2>3
<1>7. \A q \in RunId \ {r} : run'[q] = run[q]  BY <1>4, <1>6
<1>8. /\ Retained' \subseteq Retained
      /\ \A q \in Retained : ~IsOver(run', q) => q \in Retained'
  BY <1>1, <1>5, PrunedFacts DEF Retained
<1>9. Active' = Active \ {r}
  <2>1. \A q \in RunId \ {r} : IsOver(run, q) <=> IsOver(run', q)  BY <1>7 DEF IsOver
  <2>2. IsOver(run', r)  BY <1>6 DEF IsOver
  <2>3. Active' = {q \in Retained' : ~IsOver(run', q)}  BY DEF Active
  <2>. QED  BY <1>1, <1>8, <2>1, <2>2, <2>3 DEF Active
<1>. QED  BY <1>6, <1>7, <1>8, <1>9

\* What ending a run changes.
LEMMA FinishFacts ==
  ASSUME Base, ScriptInv, Finish
  PROVE  LET r == Head(script).run s == Head(script).what IN
         /\ script # <<>> /\ Head(script).do = "finish" /\ script' = Tail(script)
         /\ r \in RunId /\ s \in Terminal /\ ~Executing(r)
         /\ s = "succeeded" => ~run[r].cancel
         /\ pc[r] # "none" => run[r].cancel
         /\ \A i \in DOMAIN script' : script'[i].do = "finish"
         /\ \/ IsOver(run, r) /\ UNCHANGED <<order, run, journal, arts, leased>>
            \/ ~IsOver(run, r) /\ Ending(r, s)
         /\ \A q \in RunId \ {r} : run'[q] = run[q]
         /\ run'[r].cancel = run[r].cancel /\ IsOver(run', r)
         /\ Retained' \subseteq Retained /\ Active' = Active \ {r}
         /\ leased \ {r} \subseteq leased'
         /\ UNCHANGED <<pc, queue, stage, closing, boot, sub>>
<1>. DEFINE st == Head(script)
<1>1. /\ script # <<>> /\ st.do = "finish" /\ script' = Tail(script)
      /\ \/ IsOver(run, st.run) /\ UNCHANGED <<order, run, journal, arts, leased>>
         \/ ~IsOver(run, st.run) /\ Ending(st.run, st.what)
      /\ UNCHANGED <<pc, queue, stage, closing, boot, sub>>
  BY FinishCases
<1>2. st.run \in RunId /\ st.what \in Terminal /\ st = script[1] /\ 1 \in DOMAIN script
  BY <1>1, HeadStep, Popped DEF Base
<1>3. /\ ~Executing(st.run)
      /\ st.what = "succeeded" => ~run[st.run].cancel
      /\ pc[st.run] # "none" => run[st.run].cancel
  BY <1>1, <1>2 DEF ScriptInv, StepOk
<1>4. \A i \in DOMAIN script' : script'[i].do = "finish"
  <2>1. \A i \in DOMAIN script' : i + 1 \in DOMAIN script /\ script'[i] = script[i+1] /\ 1 < i + 1
    BY <1>1, Popped DEF Base
  <2>. QED  BY <1>1, <1>2, <2>1 DEF ScriptInv
<1>. HIDE DEF st
<1>5. /\ \A q \in RunId \ {st.run} : run'[q] = run[q]
      /\ run'[st.run].cancel = run[st.run].cancel /\ IsOver(run', st.run)
      /\ Retained' \subseteq Retained /\ Active' = Active \ {st.run}
      /\ leased \ {st.run} \subseteq leased'
  <2>1. CASE IsOver(run, st.run) /\ UNCHANGED <<order, run, journal, arts, leased>>
    BY <2>1 DEF Active, Retained, IsOver
  <2>2. CASE ~IsOver(run, st.run) /\ Ending(st.run, st.what)
    BY <1>2, <2>2, EndingFacts, ZenonT(30) DEF Ending, IsOver
  <2>. QED  BY <1>1, <2>1, <2>2
<1>. QED  BY <1>1, <1>2, <1>3, <1>4, <1>5 DEF st

\* What create changes, its pruning included.
LEMMA CreateFacts ==
  ASSUME Base, NEW r \in RunId, Create(r)
  PROVE  /\ script = <<>> /\ stage = "open" /\ Fresh(r) /\ Cardinality(Active) < MaxActive
         /\ run' = [run EXCEPT ![r] = NewRun] /\ run'[r] = NewRun
         /\ \A q \in RunId \ {r} : run'[q] = run[q]
         /\ Retained' \subseteq Retained \cup {r} /\ Active' = Active \cup {r}
         /\ Len(order') <= MaxRetained \/ Cardinality(Active') > MaxRetained
         /\ script' = <<Step("emit", r, "created"), Step("emit", r, "resolved"), Step("submit", r, "")>>
         /\ UNCHANGED <<pc, queue, process, journal, arts, leased, sub>>
<1>. DEFINE o == Pruned(order, run)
            oo == Append(o, r)
<1>1. run \in [RunId -> RunType] /\ order \in Seq(RunId) /\ IsInjective(order)
      /\ Retained \subseteq RunId
  BY RetainedType DEF Base, Types, Distinct
<1>2. /\ script = <<>> /\ stage = "open" /\ Fresh(r) /\ r \notin Retained
      /\ Cardinality(Active) < MaxActive
      /\ run' = [run EXCEPT ![r] = NewRun] /\ order' = Pruned(oo, run')
      /\ script' = <<Step("emit", r, "created"), Step("emit", r, "resolved"), Step("submit", r, "")>>
      /\ UNCHANGED <<pc, queue, process, journal, arts, leased, sub>>
  BY DEF Create, Unlocked, Fresh
<1>3. run'[r] = NewRun /\ \A q \in RunId \ {r} : run'[q] = run[q]  BY <1>1, <1>2
<1>4. /\ o \in Seq(RunId) /\ IsInjective(o) /\ ToSet(o) \subseteq Retained
      /\ \A q \in Retained : ~IsOver(run, q) => q \in ToSet(o)
  BY <1>1, PrunedFacts DEF Retained
<1>5. r \notin ToSet(o)  BY <1>2, <1>4
<1>. HIDE DEF o
<1>6. oo \in Seq(RunId) /\ IsInjective(oo) /\ ToSet(oo) = ToSet(o) \cup {r}
  BY <1>4, <1>5, InjectiveAppend, ToSetAppend
<1>. HIDE DEF oo
<1>7. /\ ToSet(order') \subseteq ToSet(oo)
      /\ \A q \in ToSet(oo) : ~IsOver(run', q) => q \in ToSet(order')
      /\ Cardinality({q \in ToSet(oo) : ~IsOver(run', q)}) <= MaxRetained => Len(order') <= MaxRetained
      /\ Len(order') \in Nat
  <2>. DEFINE p == Pruned(oo, run')
  <2>1. /\ p \in Seq(RunId) /\ ToSet(p) \subseteq ToSet(oo)
        /\ \A q \in ToSet(oo) : ~IsOver(run', q) => q \in ToSet(p)
        /\ Cardinality({q \in ToSet(oo) : ~IsOver(run', q)}) <= MaxRetained => Len(p) <= MaxRetained
    BY <1>6, PrunedFacts
  <2>. HIDE DEF p
  <2>2. order' = p  BY <1>2 DEF p
  <2>3. Len(p) \in Nat  BY <2>1
  <2>. QED  BY <2>1, <2>2, <2>3, Zenon
<1>8. ~IsOver(run', r)  BY <1>3 DEF IsOver, NewRun, NoRun, Terminal
<1>9. \A q \in RunId \ {r} : IsOver(run, q) <=> IsOver(run', q)  BY <1>3 DEF IsOver
<1>10. Active' = {q \in Retained' : ~IsOver(run', q)} /\ Retained' = ToSet(order')
  BY DEF Active, Retained
<1>11. {q \in ToSet(oo) : ~IsOver(run', q)} = Active \cup {r}
  BY <1>1, <1>4, <1>6, <1>8, <1>9 DEF Active
<1>12. Active' = Active \cup {r}
  BY <1>7, <1>10, <1>11
<1>13. Retained' \subseteq Retained \cup {r}  BY <1>4, <1>6, <1>7, <1>10
<1>14. Len(order') <= MaxRetained \/ Cardinality(Active') > MaxRetained
  <2>1. Cardinality(Active') <= MaxRetained => Len(order') <= MaxRetained
    BY <1>7, <1>11, <1>12, Zenon
  <2>2. Active' \subseteq RunId /\ IsFiniteSet(Active')
    <3>1. Active' \subseteq RunId  BY <1>1, <1>12 DEF Active
    <3>. QED  BY <3>1, RunAssumption, FS_Subset
  <2>3. Cardinality(Active') \in Nat  BY <2>2, FS_CardinalityType
  <2>. QED  BY <2>1, <2>3, LimitAssumption
<1>. QED  BY <1>2, <1>3, <1>12, <1>13, <1>14

\* What cancel changes.
LEMMA CancelFacts ==
  ASSUME Base, NEW r \in RunId, Cancel(r)
  PROVE  /\ script = <<>> /\ r \in Active
         /\ run' = [run EXCEPT ![r].cancel = TRUE] /\ run'[r].cancel
         /\ \A q \in RunId \ {r} : run'[q] = run[q]
         /\ \A q \in RunId : /\ run'[q].state = run[q].state /\ (run[q].cancel => run'[q].cancel)
                             /\ run'[q].events = run[q].events /\ run'[q].next = run[q].next
         /\ Retained' = Retained /\ Active' = Active
         /\ \/ /\ run[r].state = "queued"
               /\ script' = <<Step("emit", r, "cancelling"), Step("finish", r, "cancelled")>>
            \/ script' = <<Step("emit", r, "cancelling")>>
         /\ UNCHANGED <<order, pc, queue, process, journal, arts, leased, sub>>
<1>1. /\ script = <<>> /\ r \in Active /\ run' = [run EXCEPT ![r].cancel = TRUE]
      /\ \/ /\ run[r].state = "queued"
            /\ script' = <<Step("emit", r, "cancelling"), Step("finish", r, "cancelled")>>
         \/ script' = <<Step("emit", r, "cancelling")>>
      /\ UNCHANGED <<order, pc, queue, process, journal, arts, leased, sub>>
  BY DEF Cancel, Unlocked
<1>2. run \in [RunId -> RunType]  BY DEF Base, Types
<1>3. /\ run'[r].cancel /\ run'[r].state = run[r].state
      /\ run'[r].events = run[r].events /\ run'[r].next = run[r].next
      /\ \A q \in RunId \ {r} : run'[q] = run[q]
  BY <1>1, <1>2 DEF RunType
<1>4. \A q \in RunId : /\ run'[q].state = run[q].state /\ (run[q].cancel => run'[q].cancel)
                       /\ run'[q].events = run[q].events /\ run'[q].next = run[q].next
  BY <1>3
<1>5. Retained' = Retained /\ Active' = Active
  BY <1>1, <1>4, RetainedType DEF Retained, Active, IsOver, Base
<1>. QED  BY <1>1, <1>3, <1>4, <1>5

\* What close changes when it takes the lock.
LEMMA CloseFacts ==
  ASSUME Base, NEW wait \in BOOLEAN, Close(wait)
  PROVE  /\ script = <<>> /\ stage = "open" /\ stage' = "closing"
         /\ ToSet(closing'.runs) = Active /\ closing'.runs \in Seq(RunId)
         /\ \A q \in Active : run'[q].cancel
         /\ \A q \in RunId \ Active : run'[q] = run[q]
         /\ \A q \in RunId : /\ run'[q].state = run[q].state /\ (run[q].cancel => run'[q].cancel)
                             /\ run'[q].events = run[q].events /\ run'[q].next = run[q].next
         /\ Retained' = Retained /\ Active' = Active
         /\ DOMAIN script' = DOMAIN closing'.runs
         /\ \A i \in DOMAIN script' :
              script'[i] = Step("emit", closing'.runs[i], "cancelling") /\ closing'.runs[i] \in Active
         /\ script' = <<>> => Active = {}
         /\ UNCHANGED <<order, pc, queue, boot, journal, arts, leased, sub>>
<1>. DEFINE active == Keep(order, Active)
<1>0. order \in Seq(RunId) /\ run \in [RunId -> RunType] /\ Active \subseteq RunId
  BY RetainedType DEF Base, Types
<1>1. active \in Seq(RunId) /\ ToSet(active) = Active
  <2>1. ToSet(order) \cap Active = Active  BY DEF Active, Retained
  <2>. QED  BY <1>0, <2>1, KeepInS
<1>. HIDE DEF active
<1>2. /\ script = <<>> /\ stage = "open" /\ stage' = "closing"
      /\ closing' = [runs |-> active, wait |-> wait]
      /\ run' = [r \in RunId |-> IF r \in ToSet(active)
                                 THEN [run[r] EXCEPT !.cancel = TRUE] ELSE run[r]]
      /\ script' = [i \in DOMAIN active |-> Step("emit", active[i], "cancelling")]
      /\ UNCHANGED <<order, pc, queue, boot, journal, arts, leased, sub>>
  BY DEF Close, Unlocked, active
<1>3. closing'.runs = active  BY <1>2
<1>4. \A q \in Active : /\ run'[q].cancel /\ run'[q].state = run[q].state
                        /\ run'[q].events = run[q].events /\ run'[q].next = run[q].next
  BY <1>0, <1>1, <1>2 DEF RunType
<1>5. \A q \in RunId \ Active : run'[q] = run[q]  BY <1>1, <1>2
<1>6. \A q \in RunId : /\ run'[q].state = run[q].state /\ (run[q].cancel => run'[q].cancel)
                       /\ run'[q].events = run[q].events /\ run'[q].next = run[q].next
  BY <1>4, <1>5
<1>7. Retained' = Retained /\ Active' = Active
  BY <1>2, <1>6, RetainedType DEF Retained, Active, IsOver, Base
<1>8. DOMAIN active = 1..Len(active) /\ \A i \in DOMAIN active : active[i] \in Active
  BY <1>1, ToSetOfSeq
<1>9. DOMAIN script' = DOMAIN active
      /\ \A i \in DOMAIN active : script'[i] = Step("emit", active[i], "cancelling")
  BY <1>2
<1>10. script' = <<>> => Active = {}
  <2>. SUFFICES ASSUME script' = <<>> PROVE Active = {}  OBVIOUS
  <2>1. DOMAIN active = {}  BY <1>9
  <2>. QED  BY <1>1, <2>1 DEF ToSet
<1>. QED  BY <1>1, <1>2, <1>3, <1>4, <1>5, <1>6, <1>7, <1>8, <1>9, <1>10

-----------------------------------------------------------------------------
(* Control: the pool, the holder of the lock, and close.                   *)

\* No method has been called yet.
LEMMA InitControl == Init => Control
<1>. SUFFICES ASSUME Init PROVE Control  OBVIOUS
<1>1. PoolInv  BY DEF Init, PoolInv, IsInjective, Waiting, Executing, ToSet
<1>2. ScriptInv /\ ClosingInv  BY DEF Init, ScriptInv, ClosingInv
<1>. QED  BY <1>1, <1>2 DEF Control

\* A method leaves one step, or two.
LEMMA OneStep ==
  ASSUME NEW a, script' = <<a>>, StepOk(a)', a.do # "submit"
  PROVE  ScriptInv'
<1>1. DOMAIN script' = 1..1 /\ script'[1] = a  OBVIOUS
<1>. QED  BY <1>1 DEF ScriptInv

\* A method leaves two steps.
LEMMA TwoSteps ==
  ASSUME NEW a, NEW b, script' = <<a, b>>, StepOk(a)', StepOk(b)',
         a.do = "emit", b.do # "submit"
  PROVE  ScriptInv'
<1>1. DOMAIN script' = 1..2 /\ script'[1] = a /\ script'[2] = b  OBVIOUS
<1>. QED  BY <1>1 DEF ScriptInv

\* A method leaves three steps.
LEMMA ThreeSteps ==
  ASSUME NEW a, NEW b, NEW c, script' = <<a, b, c>>, StepOk(a)', StepOk(b)', StepOk(c)',
         a.do = "emit", b.do = "emit", c.do # "finish"
  PROVE  ScriptInv'
<1>1. /\ DOMAIN script' = 1..3 /\ Len(script') = 3
      /\ script'[1] = a /\ script'[2] = b /\ script'[3] = c
  OBVIOUS
<1>2. \A i \in DOMAIN script' : i = 1 \/ i = 2 \/ i = 3  BY <1>1
<1>3. \A i \in DOMAIN script' : script'[i].do # "finish"  BY <1>1, <1>2
<1>. QED  BY <1>1, <1>2, <1>3 DEF ScriptInv

\* A method leaves nothing.
LEMMA NoStep == ASSUME script' = <<>> PROVE ScriptInv'
<1>1. DOMAIN script' = {}  OBVIOUS
<1>. QED  BY <1>1 DEF ScriptInv

\* Emit keeps Control.
LEMMA EmitControl == ASSUME Base, Control, Emit PROVE Control'
<1>. DEFINE r == Head(script).run
<1>1. /\ script # <<>> /\ script' = Tail(script)
      /\ \A q \in RunId : run'[q].state = run[q].state /\ run'[q].cancel = run[q].cancel
      /\ Retained' = Retained /\ Active' = Active
      /\ UNCHANGED <<order, pc, queue, stage, closing, boot, arts, leased, sub>>
  BY EmitFacts DEF Control
<1>2. script \in Seq(StepType) /\ \A i \in DOMAIN script : script[i].run \in RunId
  <2>1. \A st \in StepType : st.run \in RunId  BY DEF StepType
  <2>2. script \in Seq(StepType)  BY DEF Base, Types
  <2>. QED  BY <2>1, <2>2
<1>3. PoolInv'  BY <1>1 DEF Control, PoolInv, Waiting, Executing, IsOver
<1>4. ScriptInv'
  <2>1. /\ Len(script) \in Nat /\ Len(script') = Len(script) - 1
        /\ \A i \in DOMAIN script' :
              i \in Nat /\ i + 1 \in DOMAIN script /\ script'[i] = script[i+1] /\ 1 < i + 1
    BY <1>1, Popped DEF Base
  <2>2. ASSUME NEW i \in DOMAIN script' PROVE StepOk(script[i])'
    <3>. DEFINE st == script[i+1]
    <3>1. StepOk(st) /\ st.run \in RunId
      BY <1>2, <2>1 DEF Control, ScriptInv
    <3>2. script'[i] = st  BY <2>1
    <3>. HIDE DEF st
    <3>. QED  BY <1>1, <3>1, <3>2 DEF StepOk, Executing
  <2>3. \A i \in DOMAIN script' : StepOk(script[i])'  BY <2>2
  <2>4. \A i \in DOMAIN script' : script'[i].do = "submit" => i = Len(script')
    BY <2>1 DEF Control, ScriptInv
  <2>5. \A i, j \in DOMAIN script' :
          i < j /\ script'[i].do = "finish" => script'[j].do = "finish"
    <3>1. \A i, j \in DOMAIN script' : i < j => i + 1 < j + 1  BY <2>1
    <3>. QED  BY <2>1, <3>1 DEF Control, ScriptInv
  <2>. QED  BY <2>3, <2>4, <2>5 DEF ScriptInv
<1>5. ClosingInv'
  <2>1. closing.runs \in Seq(RunId)  BY DEF Base, Types
  <2>2. ToSet(closing.runs) \subseteq RunId  BY <2>1, ToSetOfSeq
  <2>. QED  BY <1>1, <2>2 DEF Control, ClosingInv
<1>. QED  BY <1>3, <1>4, <1>5 DEF Control

\* Submit keeps Control.
LEMMA SubmitControl == ASSUME Base, Control, Submit PROVE Control'
<1>. DEFINE r == Head(script).run
<1>1. /\ script' = <<>> /\ r \in Active /\ r \in RunId
      /\ stage = "open" /\ pc[r] = "none" /\ run[r].state = "queued"
      /\ pc' = [pc EXCEPT ![r] = "queued"] /\ queue' = Append(queue, r)
      /\ UNCHANGED <<order, run, stage, closing, boot, arts, leased, sub>>
  BY SubmitFacts DEF Control
<1>. HIDE DEF r
<1>2. /\ pc'[r] = "queued" /\ \A q \in RunId \ {r} : pc'[q] = pc[q]
  BY <1>1 DEF Base, Types
<1>3. queue \in Seq(RunId) /\ IsInjective(queue) /\ r \notin ToSet(queue)
  BY <1>1 DEF Base, Types, Control, PoolInv
<1>4. IsInjective(queue') /\ ToSet(queue') = ToSet(queue) \cup {r}
  BY <1>1, <1>3, InjectiveAppend, ToSetAppend
<1>5. PoolInv'
  <2>1. \A q \in RunId : pc'[q] = "queued" <=> q \in ToSet(queue)'
    BY <1>2, <1>4 DEF Control, PoolInv
  <2>2. \A q \in RunId : Waiting(q)' => run'[q].state = "queued" \/ (run'[q].cancel /\ IsOver(run', q))
    BY <1>1, <1>2 DEF Control, PoolInv, Waiting, IsOver
  <2>3. \A q \in RunId : Executing(q)' => run'[q].state = "running" /\ q \in Retained' \cap leased'
    BY <1>1, <1>2 DEF Control, PoolInv, Executing, Retained
  <2>. QED  BY <1>1, <1>4, <2>1, <2>2, <2>3 DEF PoolInv
<1>6. ScriptInv'  BY <1>1, NoStep
<1>7. ClosingInv'  BY <1>1 DEF Control, ClosingInv
<1>. QED  BY <1>5, <1>6, <1>7 DEF Control

\* Finish keeps Control.
LEMMA FinishControl == ASSUME Base, Control, Finish PROVE Control'
<1>. DEFINE r == Head(script).run
<1>1. /\ script # <<>> /\ script' = Tail(script)
      /\ r \in RunId /\ ~Executing(r) /\ (pc[r] # "none" => run[r].cancel)
      /\ \A i \in DOMAIN script' : script'[i].do = "finish"
      /\ \A q \in RunId \ {r} : run'[q] = run[q]
      /\ run'[r].cancel = run[r].cancel /\ IsOver(run', r)
      /\ Active' = Active \ {r}
      /\ leased \ {r} \subseteq leased'
      /\ UNCHANGED <<pc, queue, stage, closing, boot, sub>>
  BY FinishFacts DEF Control
<1>2. script \in Seq(StepType) /\ \A i \in DOMAIN script : script[i].run \in RunId
  <2>1. \A st \in StepType : st.run \in RunId  BY DEF StepType
  <2>2. script \in Seq(StepType)  BY DEF Base, Types
  <2>. QED  BY <2>1, <2>2
<1>. HIDE DEF r
<1>3. PoolInv'
  <2>1. \A q \in RunId : Waiting(q)' => run'[q].state = "queued" \/ (run'[q].cancel /\ IsOver(run', q))
    BY <1>1 DEF Control, PoolInv, Waiting, IsOver
  <2>2. ASSUME NEW q \in RunId, Executing(q)'
        PROVE  run'[q].state = "running" /\ q \in Retained' \cap leased'
    <3>1. Executing(q) /\ q # r  BY <1>1, <2>2 DEF Executing
    <3>2. run[q].state = "running" /\ q \in Retained \cap leased  BY <3>1 DEF Control, PoolInv
    <3>3. q \in Active  BY <3>2 DEF Active, IsOver, Terminal
    <3>4. q \in Retained'  BY <1>1, <3>1, <3>3 DEF Active
    <3>. QED  BY <1>1, <3>1, <3>2, <3>4
  <2>. QED  BY <1>1, <2>1, <2>2 DEF Control, PoolInv
<1>4. ScriptInv'
  <2>1. \A i \in DOMAIN script' : i + 1 \in DOMAIN script /\ script'[i] = script[i+1]
    BY <1>1, Popped DEF Base
  <2>2. \A q \in RunId : run'[q].cancel = run[q].cancel  BY <1>1
  <2>3. ASSUME NEW i \in DOMAIN script' PROVE StepOk(script[i])'
    <3>. DEFINE st == script[i+1]
    <3>1. StepOk(st) /\ st.run \in RunId
      BY <1>2, <2>1 DEF Control, ScriptInv
    <3>2. script'[i] = st /\ st.do = "finish"  BY <1>1, <2>1
    <3>. HIDE DEF st
    <3>. QED  BY <1>1, <2>2, <3>1, <3>2 DEF StepOk, Executing
  <2>. QED  BY <1>1, <2>3 DEF ScriptInv
<1>5. ClosingInv'
  <2>1. closing.runs \in Seq(RunId)  BY DEF Base, Types
  <2>2. ToSet(closing.runs) \subseteq RunId  BY <2>1, ToSetOfSeq
  <2>3. \A q \in RunId : run'[q].cancel = run[q].cancel  BY <1>1
  <2>. QED  BY <1>1, <2>2, <2>3 DEF Control, ClosingInv
<1>. QED  BY <1>3, <1>4, <1>5 DEF Control

\* Create keeps Control.
LEMMA CreateControl == ASSUME Base, Control, NEW r \in RunId, Create(r) PROVE Control'
<1>1. /\ stage = "open" /\ Fresh(r) /\ run'[r] = NewRun
      /\ \A q \in RunId \ {r} : run'[q] = run[q]
      /\ Active' = Active \cup {r}
      /\ script' = <<Step("emit", r, "created"), Step("emit", r, "resolved"), Step("submit", r, "")>>
      /\ UNCHANGED <<pc, queue, process, journal, arts, leased, sub>>
  BY CreateFacts
<1>2. pc[r] = "none" /\ pc' = pc /\ queue' = queue /\ stage' = stage /\ closing' = closing
  BY <1>1 DEF Fresh, process
<1>3. PoolInv'
  <2>1. \A q \in RunId : Waiting(q)' => run'[q].state = "queued" \/ (run'[q].cancel /\ IsOver(run', q))
    BY <1>1, <1>2 DEF Control, PoolInv, Waiting, IsOver
  <2>2. ASSUME NEW q \in RunId, Executing(q)'
        PROVE  run'[q].state = "running" /\ q \in Retained' \cap leased'
    <3>1. Executing(q) /\ q # r  BY <1>2, <2>2 DEF Executing
    <3>2. run[q].state = "running" /\ q \in Retained \cap leased  BY <3>1 DEF Control, PoolInv
    <3>3. q \in Active  BY <3>2 DEF Active, IsOver, Terminal
    <3>4. q \in Retained'  BY <1>1, <3>3 DEF Active
    <3>. QED  BY <1>1, <3>1, <3>2, <3>4
  <2>. QED  BY <1>2, <2>1, <2>2 DEF Control, PoolInv
<1>4. ScriptInv'
  <2>1. r \in Active' /\ run'[r].state = "queued"  BY <1>1 DEF NewRun, NoRun
  <2>2. /\ StepOk(Step("emit", r, "created"))' /\ StepOk(Step("emit", r, "resolved"))'
        /\ StepOk(Step("submit", r, ""))'
    BY <1>1, <1>2, <2>1 DEF StepOk, Step
  <2>3. /\ Step("emit", r, "created").do = "emit" /\ Step("emit", r, "resolved").do = "emit"
        /\ Step("submit", r, "").do = "submit"
    BY DEF Step
  <2>. QED  BY <1>1, <2>2, <2>3, ThreeSteps
<1>5. ClosingInv'  BY <1>1, <1>2 DEF Control, ClosingInv
<1>. QED  BY <1>3, <1>4, <1>5 DEF Control

\* Cancel keeps Control.
LEMMA CancelControl == ASSUME Base, Control, NEW r \in RunId, Cancel(r) PROVE Control'
<1>1. /\ r \in Active /\ run'[r].cancel
      /\ \A q \in RunId : run'[q].state = run[q].state /\ (run[q].cancel => run'[q].cancel)
      /\ Retained' = Retained /\ Active' = Active
      /\ \/ /\ run[r].state = "queued"
            /\ script' = <<Step("emit", r, "cancelling"), Step("finish", r, "cancelled")>>
         \/ script' = <<Step("emit", r, "cancelling")>>
      /\ UNCHANGED <<order, pc, queue, process, journal, arts, leased, sub>>
  BY CancelFacts
<1>2. UNCHANGED <<stage, closing>>  BY <1>1 DEF process
<1>3. PoolInv'
  BY <1>1, <1>2 DEF Control, PoolInv, Waiting, Executing, IsOver
<1>4. ScriptInv'
  <2>1. StepOk(Step("emit", r, "cancelling"))'  BY <1>1 DEF StepOk, Step
  <2>2. ASSUME run[r].state = "queued" PROVE StepOk(Step("finish", r, "cancelled"))'
    <3>1. ~Executing(r)'  BY <1>1, <2>2 DEF Control, PoolInv, Executing
    <3>. QED  BY <1>1, <3>1 DEF StepOk, Step, Terminal
  <2>3. /\ Step("emit", r, "cancelling").do = "emit"
        /\ Step("finish", r, "cancelled").do = "finish"
    BY DEF Step
  <2>. QED  BY <1>1, <2>1, <2>2, <2>3, OneStep, TwoSteps
<1>5. ClosingInv'
  <2>1. closing.runs \in Seq(RunId)  BY DEF Base, Types
  <2>2. ToSet(closing.runs) \subseteq RunId  BY <2>1, ToSetOfSeq
  <2>. QED  BY <1>1, <1>2, <2>2 DEF Control, ClosingInv
<1>. QED  BY <1>3, <1>4, <1>5 DEF Control

\* Close keeps Control.
LEMMA CloseControl == ASSUME Base, Control, NEW wait \in BOOLEAN, Close(wait) PROVE Control'
<1>1. /\ stage = "open" /\ stage' = "closing" /\ ToSet(closing'.runs) = Active
      /\ \A q \in Active : run'[q].cancel
      /\ \A q \in RunId : run'[q].state = run[q].state /\ (run[q].cancel => run'[q].cancel)
      /\ Retained' = Retained /\ Active' = Active
      /\ \A i \in DOMAIN script' :
           script'[i] = Step("emit", closing'.runs[i], "cancelling") /\ closing'.runs[i] \in Active
      /\ UNCHANGED <<order, pc, queue, boot, journal, arts, leased, sub>>
  BY CloseFacts
<1>2. PoolInv'
  BY <1>1 DEF Control, PoolInv, Waiting, Executing, IsOver
<1>3. ScriptInv'
  <2>1. \A i \in DOMAIN script' : script'[i].do = "emit" /\ script'[i].run \in Active'
    BY <1>1 DEF Step
  <2>2. \A i \in DOMAIN script' : StepOk(script[i])'  BY <2>1 DEF StepOk
  <2>. QED  BY <2>1, <2>2 DEF ScriptInv
<1>4. ClosingInv'  BY <1>1 DEF ClosingInv
<1>. QED  BY <1>2, <1>3, <1>4 DEF Control

\* Shutdown keeps Control.
LEMMA ShutdownControl == ASSUME Base, Control, Shutdown PROVE Control'
<1>1. /\ stage = "closing" /\ stage' = "draining" /\ script' = <<>> /\ queue' = <<>>
      /\ pc' = [r \in RunId |-> IF r \in ToSet(queue) THEN "dropped" ELSE pc[r]]
      /\ UNCHANGED <<order, run, closing, leased>>
  BY DEF Shutdown
<1>2. \A r \in RunId : pc[r] = "queued" <=> r \in ToSet(queue)  BY DEF Control, PoolInv
<1>3. \A r \in RunId : /\ pc'[r] # "queued" /\ (Waiting(r)' => Waiting(r))
                       /\ (Executing(r)' => Executing(r))
  BY <1>1, <1>2 DEF Waiting, Executing
<1>4. IsInjective(queue') /\ ToSet(queue') = {}  BY <1>1 DEF IsInjective, ToSet
<1>5. PoolInv'
  BY <1>1, <1>3, <1>4 DEF Control, PoolInv, IsOver, Retained
<1>6. ScriptInv'  BY <1>1, NoStep
<1>7. ClosingInv'  BY <1>1 DEF Control, ClosingInv, Active, Retained, IsOver
<1>. QED  BY <1>5, <1>6, <1>7 DEF Control

\* What close leaves to the holder of the lock.
LEMMA ClosedFacts ==
  ASSUME Base, Closed
  PROVE  /\ stage = "draining" /\ stage' = "closed" /\ script = <<>>
         /\ closing.wait => Busy = {}
         /\ \A i \in DOMAIN script' :
              \E r \in ToSet(closing.runs) :
                 /\ script'[i] = Step("finish", r, "cancelled")
                 /\ r \in RunId /\ (closing.wait \/ pc[r] = "dropped")
         /\ \A r \in ToSet(closing.runs) : closing.wait \/ pc[r] = "dropped" =>
              \E i \in DOMAIN script' : script'[i] = Step("finish", r, "cancelled")
         /\ UNCHANGED <<order, run, pc, queue, closing, boot, journal, arts, leased, sub>>
<1>. DEFINE S == {r \in RunId : closing.wait \/ pc[r] = "dropped"}
            rest == Keep(closing.runs, S)
<1>1. closing.runs \in Seq(RunId)  BY DEF Base, Types
<1>2. rest \in Seq(RunId) /\ ToSet(rest) = ToSet(closing.runs) \cap S
  BY <1>1, KeepInS
<1>. HIDE DEF rest
<1>3. script' = [i \in DOMAIN rest |-> Step("finish", rest[i], "cancelled")]
  BY DEF Closed, rest
<1>4. \A i \in DOMAIN rest : rest[i] \in ToSet(closing.runs) \cap S
  BY <1>2, ToSetOfSeq
<1>5. ASSUME NEW r \in ToSet(closing.runs), closing.wait \/ pc[r] = "dropped"
      PROVE  \E i \in DOMAIN script' : script'[i] = Step("finish", r, "cancelled")
  <2>1. r \in ToSet(rest)  BY <1>1, <1>2, <1>5, ToSetOfSeq
  <2>2. PICK i \in DOMAIN rest : rest[i] = r  BY <2>1 DEF ToSet
  <2>. QED  BY <1>3, <2>2
<1>. QED  BY <1>3, <1>4, <1>5 DEF Closed

\* Closed keeps Control.
LEMMA ClosedControl == ASSUME Base, Control, Closed PROVE Control'
<1>1. /\ stage = "draining" /\ stage' = "closed"
      /\ closing.wait => Busy = {}
      /\ UNCHANGED <<order, run, pc, queue, closing, boot, journal, arts, leased, sub>>
  BY ClosedFacts
<1>2. PoolInv'
  <2>1. queue = <<>>  BY <1>1 DEF Control, PoolInv
  <2>. QED  BY <1>1, <2>1 DEF Control, PoolInv, Waiting, Executing, IsOver, Retained
<1>3. ScriptInv'
  <2>1. ASSUME NEW i \in DOMAIN script'
        PROVE  script'[i].do = "finish" /\ StepOk(script[i])'
    <3>1. PICK r \in ToSet(closing.runs) :
             /\ script'[i] = Step("finish", r, "cancelled")
             /\ r \in RunId /\ (closing.wait \/ pc[r] = "dropped")
      BY <2>1, ClosedFacts
    <3>2. run[r].cancel  BY <1>1, <3>1 DEF Control, ClosingInv
    <3>3. ~Executing(r)  BY <1>1, <3>1 DEF Executing, Busy
    <3>. QED  BY <1>1, <3>1, <3>2, <3>3 DEF StepOk, Step, Terminal, Executing
  <2>. QED  BY <2>1 DEF ScriptInv
<1>4. ClosingInv'  BY <1>1 DEF Control, ClosingInv
<1>. QED  BY <1>2, <1>3, <1>4 DEF Control

\* Pick keeps Control.
LEMMA PickControl == ASSUME Base, Control, Pick PROVE Control'
<1>. DEFINE r == Head(queue)
<1>1. /\ queue # <<>> /\ pc' = [pc EXCEPT ![r] = "picked"] /\ queue' = Tail(queue)
      /\ UNCHANGED <<order, run, script, stage, closing, leased>>
  BY DEF Pick, process
<1>2. queue \in Seq(RunId) /\ IsInjective(queue)  BY DEF Base, Types, Control, PoolInv
<1>3. r \in RunId /\ r \in ToSet(queue) /\ pc[r] = "queued"
  <2>1. r \in RunId /\ r \in ToSet(queue)  BY <1>1, <1>2 DEF ToSet
  <2>. QED  BY <2>1 DEF Control, PoolInv
<1>4. IsInjective(queue') /\ ToSet(queue') = ToSet(queue) \ {r}
  BY <1>1, <1>2, InjectiveTail
<1>. HIDE DEF r
<1>5. pc'[r] = "picked" /\ \A q \in RunId \ {r} : pc'[q] = pc[q]
  BY <1>1, <1>3 DEF Base, Types
<1>6. \A q \in RunId : /\ (Waiting(q)' => Waiting(q)) /\ (Executing(q)' <=> Executing(q))
                       /\ (pc'[q] = "none" <=> pc[q] = "none")
  BY <1>3, <1>5 DEF Waiting, Executing
<1>7. PoolInv'
  <2>1. \A q \in RunId : pc'[q] = "queued" <=> q \in ToSet(queue)'
    BY <1>4, <1>5 DEF Control, PoolInv
  <2>. QED  BY <1>1, <1>4, <1>6, <2>1 DEF Control, PoolInv, IsOver, Retained
<1>8. ScriptInv'
  <2>1. \A i \in DOMAIN script : script[i].run \in RunId
    <3>1. \A st \in StepType : st.run \in RunId  BY DEF StepType
    <3>2. script \in Seq(StepType)  BY DEF Base, Types
    <3>. QED  BY <3>1, <3>2
  <2>2. ASSUME NEW i \in DOMAIN script PROVE StepOk(script[i])'
    <3>. DEFINE st == script[i]
    <3>1. StepOk(st) /\ st.run \in RunId /\ st' = st  BY <1>1, <2>1 DEF Control, ScriptInv
    <3>. HIDE DEF st
    <3>2. StepOk(st)'  BY <1>1, <1>6, <3>1 DEF StepOk, Active, Retained, IsOver
    <3>. QED  BY <3>2 DEF st
  <2>. QED  BY <1>1, <2>2 DEF Control, ScriptInv
<1>9. ClosingInv'  BY <1>1 DEF Control, ClosingInv, Active, Retained, IsOver
<1>. QED  BY <1>7, <1>8, <1>9 DEF Control

\* A thread that starts to execute finds its run queued.
LEMMA BeginFacts ==
  ASSUME Base, Control, NEW r \in RunId, Begin(r)
  PROVE  /\ script = <<>> /\ pc[r] = "picked"
         /\ \A q \in RunId \ {r} : pc'[q] = pc[q] /\ run'[q] = run[q]
         /\ \/ /\ r \notin Retained /\ pc'[r] = "none"
               /\ UNCHANGED <<run, script, leased>>
            \/ /\ r \in Retained /\ run[r].cancel /\ pc'[r] = "none"
               /\ script' = <<Step("finish", r, "cancelled")>>
               /\ UNCHANGED <<run, leased>>
            \/ /\ r \in Retained /\ ~run[r].cancel /\ pc'[r] = "executing"
               /\ run[r].state = "queued" /\ run' = [run EXCEPT ![r].state = "running"]
               /\ run'[r].state = "running"
               /\ script' = <<Step("emit", r, "started")>>
               /\ leased' = leased \cup {r}
         /\ \A q \in RunId : /\ run'[q].cancel = run[q].cancel /\ run'[q].events = run[q].events
                             /\ run'[q].next = run[q].next
         /\ Retained' = Retained /\ Active' = Active
         /\ UNCHANGED <<order, queue, process, journal, arts, sub>>
<1>1. run \in [RunId -> RunType] /\ pc \in [RunId -> {"none", "queued", "picked", "executing",
         "storing", "returned", "garbled", "stopped", "raised", "dropped"}]
  BY DEF Base, Types
<1>2. /\ script = <<>> /\ pc[r] = "picked"
      /\ \/ /\ r \notin Retained /\ pc' = [pc EXCEPT ![r] = "none"]
            /\ UNCHANGED <<run, script, leased>>
         \/ /\ r \in Retained /\ run[r].cancel /\ pc' = [pc EXCEPT ![r] = "none"]
            /\ script' = <<Step("finish", r, "cancelled")>>
            /\ UNCHANGED <<run, leased>>
         \/ /\ r \in Retained /\ ~run[r].cancel /\ pc' = [pc EXCEPT ![r] = "executing"]
            /\ run' = [run EXCEPT ![r].state = "running"]
            /\ script' = <<Step("emit", r, "started")>>
            /\ leased' = leased \cup {r}
      /\ UNCHANGED <<order, queue, process, journal, arts, sub>>
  BY DEF Begin, Unlocked
<1>3. ~run[r].cancel => run[r].state = "queued"
  BY <1>2 DEF Control, PoolInv, Waiting
<1>4. \A q \in RunId \ {r} : pc'[q] = pc[q] /\ run'[q] = run[q]
  BY <1>1, <1>2
<1>5. run' = [run EXCEPT ![r].state = "running"] =>
        /\ run'[r].state = "running" /\ run'[r].cancel = run[r].cancel
        /\ run'[r].events = run[r].events /\ run'[r].next = run[r].next
  BY <1>1 DEF RunType
<1>6. \A q \in RunId : /\ run'[q].cancel = run[q].cancel /\ run'[q].events = run[q].events
                       /\ run'[q].next = run[q].next
  BY <1>2, <1>4, <1>5
<1>7. Retained' = Retained  BY <1>2 DEF Retained
<1>8. \A q \in RunId : IsOver(run', q) <=> IsOver(run, q)
  <2>1. IsOver(run', r) <=> IsOver(run, r)
    BY <1>2, <1>3, <1>5 DEF IsOver, Terminal
  <2>. QED  BY <1>4, <2>1 DEF IsOver
<1>9. Active' = Active
  <2>1. Retained \subseteq RunId  BY RetainedType DEF Base
  <2>. QED  BY <1>7, <1>8, <2>1 DEF Active
<1>10. \A s \in {"none", "executing"} : pc' = [pc EXCEPT ![r] = s] => pc'[r] = s
  BY <1>1
<1>. QED  BY <1>2, <1>3, <1>4, <1>5, <1>6, <1>7, <1>9, <1>10

\* Whoever executes has an active run.
LEMMA ExecutesActive ==
  ASSUME PoolInv, NEW r \in RunId, Executing(r)
  PROVE  r \in Active /\ r \in leased /\ run[r].state = "running"
BY DEF PoolInv, Active, IsOver, Terminal

Executes(r) == Note(r) \/ Return(r) \/ Store(r) \/ Complete(r) \/ Stopped(r) \/ Raised(r)

\* What a thread does for a run it executes: it goes on, and may report, or it
\* leaves a run that somebody will end.
LEMMA ExecuteFacts ==
  ASSUME Base, Control, NEW r \in RunId, Executes(r)
  PROVE  /\ Executing(r)
         /\ \A q \in RunId \ {r} : pc'[q] = pc[q] /\ run'[q] = run[q]
         /\ \A q \in RunId : /\ run'[q].state = run[q].state /\ run'[q].cancel = run[q].cancel
                             /\ run'[q].events = run[q].events /\ run'[q].next = run[q].next
         /\ \/ Executing(r)' /\ UNCHANGED <<script, run>>
            \/ /\ Executing(r)' /\ UNCHANGED script /\ script = <<>>
               /\ run'[r].error = run[r].error
            \/ /\ Executing(r)' /\ script = <<>>
               /\ \/ script' = <<Step("emit", r, "note")>>
                  \/ script' = <<Step("emit", r, "produced")>>
            \/ /\ pc'[r] = "none" /\ script = <<>> /\ UNCHANGED run
               /\ script' = <<Step("finish", r, "cancelled")>>
            \/ /\ pc'[r] = "none" /\ script = <<>> /\ ~run[r].cancel
               /\ script' = <<Step("emit", r, "completed"), Step("finish", r, "succeeded")>>
            \/ /\ pc'[r] = "none" /\ script = <<>>
               /\ script' = <<Step("emit", r, "failed"), Step("finish", r, "failed")>>
         /\ arts' \subseteq arts \cup {r}
         /\ Retained' = Retained /\ Active' = Active
         /\ UNCHANGED <<order, queue, process, journal, leased, sub>>
<1>1. run \in [RunId -> RunType] /\ pc \in [RunId -> {"none", "queued", "picked", "executing",
         "storing", "returned", "garbled", "stopped", "raised", "dropped"}]
  BY DEF Base, Types
<1>. DEFINE Pc(S) == \E s \in S : pc' = [pc EXCEPT ![r] = s]
            At    == {"executing", "storing", "returned", "garbled", "stopped", "raised"}
            Same  == run' = run
            Outs  == run' = [run EXCEPT ![r].outputs = TRUE]
            Err   == run' = [run EXCEPT ![r].error = "internal_error"]
<1>2. Executing(r)
  BY DEF Executes, Note, Return, Store, Complete, Stopped, Raised, Executing
<1>3. r \in Active  BY <1>2, ExecutesActive DEF Control
<1>4. /\ \/ Pc(At) /\ Same /\ UNCHANGED script
         \/ Pc(At) /\ Outs /\ UNCHANGED script /\ script = <<>>
         \/ /\ Pc(At) /\ Same /\ script = <<>>
            /\ \/ script' = <<Step("emit", r, "note")>>
               \/ script' = <<Step("emit", r, "produced")>>
         \/ /\ Pc({"none"}) /\ Same /\ script = <<>>
            /\ script' = <<Step("finish", r, "cancelled")>>
         \/ /\ Pc({"none"}) /\ Outs /\ script = <<>> /\ ~run[r].cancel
            /\ script' = <<Step("emit", r, "completed"), Step("finish", r, "succeeded")>>
         \/ /\ Pc({"none"}) /\ Err /\ script = <<>>
            /\ script' = <<Step("emit", r, "failed"), Step("finish", r, "failed")>>
      /\ arts' \subseteq arts \cup {r}
      /\ UNCHANGED <<order, queue, process, journal, leased, sub>>
  <2>1. CASE Note(r)
    <3>1. pc' = [pc EXCEPT ![r] = "executing"]  BY <1>1, <2>1 DEF Note
    <3>. QED  BY <2>1, <3>1 DEF Note, Unlocked
  <2>2. CASE Return(r)  BY <2>2 DEF Return
  <2>3. CASE Store(r)   BY <2>3 DEF Store, Unlocked
  <2>4. CASE Complete(r)  BY <2>4 DEF Complete, Unlocked
  <2>5. CASE Stopped(r)   BY <2>5 DEF Stopped, Unlocked
  <2>6. CASE Raised(r)    BY <1>3, <2>6 DEF Raised, Unlocked
  <2>. QED  BY <2>1, <2>2, <2>3, <2>4, <2>5, <2>6 DEF Executes
<1>5. /\ Pc(At) => Executing(r)'
      /\ Pc({"none"}) => pc'[r] = "none"
      /\ \A q \in RunId \ {r} : pc'[q] = pc[q]
  BY <1>1, <1>4 DEF Executing
<1>10. Outs => run'[r].error = run[r].error  BY <1>1 DEF RunType
<1>6. /\ \A q \in RunId \ {r} : run'[q] = run[q]
      /\ run'[r].state = run[r].state /\ run'[r].cancel = run[r].cancel
      /\ run'[r].events = run[r].events /\ run'[r].next = run[r].next
  <2>1. Same \/ Outs \/ Err  BY <1>4
  <2>2. CASE Same  BY <2>2
  <2>3. CASE Outs  BY <1>1, <2>3 DEF RunType
  <2>4. CASE Err   BY <1>1, <2>4 DEF RunType
  <2>. QED  BY <2>1, <2>2, <2>3, <2>4
<1>7. \A q \in RunId : /\ run'[q].state = run[q].state /\ run'[q].cancel = run[q].cancel
                       /\ run'[q].events = run[q].events /\ run'[q].next = run[q].next
  BY <1>6
<1>8. Retained' = Retained  BY <1>4 DEF Retained
<1>9. Active' = Active
  <2>1. Retained \subseteq RunId  BY RetainedType DEF Base
  <2>. QED  BY <1>7, <1>8, <2>1 DEF Active, IsOver
<1>. HIDE DEF Pc, Outs, Err
<1>. QED  BY <1>2, <1>4, <1>5, <1>6, <1>7, <1>8, <1>9, <1>10

\* Begin keeps Control.
LEMMA BeginControl == ASSUME Base, Control, NEW r \in RunId, Begin(r) PROVE Control'
<1>1. /\ script = <<>> /\ pc[r] = "picked"
      /\ \A q \in RunId \ {r} : pc'[q] = pc[q] /\ run'[q] = run[q]
      /\ \A q \in RunId : run'[q].cancel = run[q].cancel
      /\ Retained' = Retained /\ Active' = Active
      /\ UNCHANGED <<order, queue, process, journal, arts, sub>>
  BY BeginFacts
<1>2. \/ /\ r \notin Retained /\ pc'[r] = "none" /\ UNCHANGED <<run, script, leased>>
      \/ /\ r \in Retained /\ run[r].cancel /\ pc'[r] = "none"
         /\ script' = <<Step("finish", r, "cancelled")>> /\ UNCHANGED <<run, leased>>
      \/ /\ r \in Retained /\ ~run[r].cancel /\ pc'[r] = "executing"
         /\ run[r].state = "queued" /\ run'[r].state = "running"
         /\ script' = <<Step("emit", r, "started")>> /\ leased' = leased \cup {r}
  BY BeginFacts
<1>3. UNCHANGED <<stage, closing>>  BY <1>1 DEF process
<1>4. PoolInv'
  <2>1. pc'[r] # "queued" /\ r \notin ToSet(queue)  BY <1>1, <1>2 DEF Control, PoolInv
  <2>2. \A q \in RunId : pc'[q] = "queued" <=> q \in ToSet(queue)'
    BY <1>1, <2>1 DEF Control, PoolInv
  <2>3. \A q \in RunId : Waiting(q)' => run'[q].state = "queued" \/ (run'[q].cancel /\ IsOver(run', q))
    BY <1>1, <1>2 DEF Control, PoolInv, Waiting, IsOver
  <2>4. \A q \in RunId : Executing(q)' => run'[q].state = "running" /\ q \in Retained' \cap leased'
    BY <1>1, <1>2 DEF Control, PoolInv, Executing
  <2>. QED  BY <1>1, <1>3, <2>2, <2>3, <2>4 DEF Control, PoolInv
<1>5. ScriptInv'
  <2>1. CASE script' = <<>>  BY <2>1, NoStep
  <2>2. CASE pc'[r] = "none" /\ script' = <<Step("finish", r, "cancelled")>>
    <3>1. StepOk(Step("finish", r, "cancelled"))'
      BY <2>2 DEF StepOk, Step, Terminal, Executing
    <3>. QED  BY <2>2, <3>1, OneStep DEF Step
  <2>3. CASE r \in Retained /\ run[r].state = "queued" /\ script' = <<Step("emit", r, "started")>>
    <3>1. r \in Active'  BY <1>1, <2>3 DEF Active, IsOver, Terminal
    <3>2. StepOk(Step("emit", r, "started"))'  BY <3>1 DEF StepOk, Step
    <3>. QED  BY <2>3, <3>2, OneStep DEF Step
  <2>. QED  BY <1>1, <1>2, <2>1, <2>2, <2>3
<1>6. ClosingInv'
  <2>1. closing.runs \in Seq(RunId)  BY DEF Base, Types
  <2>2. ToSet(closing.runs) \subseteq RunId  BY <2>1, ToSetOfSeq
  <2>. QED  BY <1>1, <1>3, <2>2 DEF Control, ClosingInv
<1>. QED  BY <1>4, <1>5, <1>6 DEF Control

\* Execute keeps Control.
LEMMA ExecuteControl == ASSUME Base, Control, NEW r \in RunId, Executes(r) PROVE Control'
<1>1. /\ Executing(r) /\ r \in Active
      /\ \A q \in RunId \ {r} : pc'[q] = pc[q]
      /\ \A q \in RunId : run'[q].state = run[q].state /\ run'[q].cancel = run[q].cancel
      /\ Executing(r)' \/ pc'[r] = "none"
      /\ Retained' = Retained /\ Active' = Active
      /\ UNCHANGED <<order, queue, process, journal, leased, sub>>
  BY ExecuteFacts, ExecutesActive DEF Control
<1>2. UNCHANGED <<stage, closing>>  BY <1>1 DEF process
<1>3. \A q \in RunId : /\ (Waiting(q)' => Waiting(q)) /\ (Executing(q)' => Executing(q))
                       /\ (pc'[q] = "queued" <=> pc[q] = "queued")
  BY <1>1 DEF Waiting, Executing
<1>4. PoolInv'  BY <1>1, <1>2, <1>3 DEF Control, PoolInv, IsOver
<1>5. ScriptInv'
  <2>1. CASE UNCHANGED script /\ script # <<>>
    <3>1. \A i \in DOMAIN script : script[i].run \in RunId
      <4>1. \A st \in StepType : st.run \in RunId  BY DEF StepType
      <4>2. script \in Seq(StepType)  BY DEF Base, Types
      <4>. QED  BY <4>1, <4>2
    <3>2. Executing(r)'  BY <2>1, ExecuteFacts
    <3>3. ASSUME NEW i \in DOMAIN script PROVE StepOk(script[i])'
      <4>. DEFINE st == script[i]
      <4>1. StepOk(st) /\ st.run \in RunId /\ st' = st  BY <2>1, <3>1 DEF Control, ScriptInv
      <4>. HIDE DEF st
      <4>2. st.do = "finish" \/ st.do = "submit" => st.run # r
        BY <1>1, <4>1 DEF StepOk, Executing
      <4>3. StepOk(st)'  BY <1>1, <1>2, <1>3, <4>1, <4>2 DEF StepOk
      <4>. QED  BY <4>3 DEF st
    <3>. QED  BY <2>1, <3>3 DEF Control, ScriptInv
  <2>2. CASE script' = <<>>  BY <2>2, NoStep
  <2>3. CASE \/ script' = <<Step("emit", r, "note")>>
             \/ script' = <<Step("emit", r, "produced")>>
    <3>1. StepOk(Step("emit", r, "note"))' /\ StepOk(Step("emit", r, "produced"))'
      BY <1>1 DEF StepOk, Step
    <3>2. Step("emit", r, "note").do = "emit" /\ Step("emit", r, "produced").do = "emit"
      BY DEF Step
    <3>. QED  BY <2>3, <3>1, <3>2, OneStep
  <2>4. CASE pc'[r] = "none" /\ script' = <<Step("finish", r, "cancelled")>>
    <3>1. StepOk(Step("finish", r, "cancelled"))'
      BY <2>4 DEF StepOk, Step, Terminal, Executing
    <3>. QED  BY <2>4, <3>1, OneStep DEF Step
  <2>5. CASE /\ pc'[r] = "none" /\ ~run[r].cancel
             /\ script' = <<Step("emit", r, "completed"), Step("finish", r, "succeeded")>>
    <3>1. /\ StepOk(Step("emit", r, "completed"))' /\ StepOk(Step("finish", r, "succeeded"))'
          /\ Step("emit", r, "completed").do = "emit" /\ Step("finish", r, "succeeded").do = "finish"
      BY <1>1, <2>5 DEF StepOk, Step, Terminal, Executing
    <3>. QED  BY <2>5, <3>1, TwoSteps
  <2>6. CASE /\ pc'[r] = "none"
             /\ script' = <<Step("emit", r, "failed"), Step("finish", r, "failed")>>
    <3>1. /\ StepOk(Step("emit", r, "failed"))' /\ StepOk(Step("finish", r, "failed"))'
          /\ Step("emit", r, "failed").do = "emit" /\ Step("finish", r, "failed").do = "finish"
      BY <1>1, <2>6 DEF StepOk, Step, Terminal, Executing
    <3>. QED  BY <2>6, <3>1, TwoSteps
  <2>. QED  BY <2>1, <2>2, <2>3, <2>4, <2>5, <2>6, ExecuteFacts
<1>6. ClosingInv'
  <2>1. closing.runs \in Seq(RunId)  BY DEF Base, Types
  <2>2. ToSet(closing.runs) \subseteq RunId  BY <2>1, ToSetOfSeq
  <2>. QED  BY <1>1, <1>2, <2>2 DEF Control, ClosingInv
<1>. QED  BY <1>4, <1>5, <1>6 DEF Control

\* The process is down or starts: nobody does anything.
LEMMA AsleepControl ==
  ASSUME script' = <<>>, queue' = <<>>, pc' = [r \in RunId |-> "none"],
         stage' \in {"down", "restoring"} \/ (stage' = "open" /\ closing' = NoClose)
  PROVE  Control'
<1>1. PoolInv'  BY DEF PoolInv, IsInjective, ToSet, Waiting, Executing
<1>2. ScriptInv'  BY NoStep
<1>3. ClosingInv'  BY DEF ClosingInv
<1>. QED  BY <1>1, <1>2, <1>3 DEF Control

\* A crash, and what follows until the runs are restored.
LEMMA ProcessControl ==
  ASSUME Base, Crash \/ Exit \/ Restart \/ RestoreRow \/ Restored
  PROVE  Control'
<1>1. CASE Crash \/ Exit
  BY <1>1, AsleepControl DEF Crash, Exit, Gone
<1>2. CASE Restart
  BY <1>2, AsleepControl DEF Restart, Base, AtRest
<1>3. CASE RestoreRow
  BY <1>3, AsleepControl DEF RestoreRow, Base, AtRest
<1>4. CASE Restored
  BY <1>4, AsleepControl DEF Restored, Base, AtRest
<1>. QED  BY <1>1, <1>2, <1>3, <1>4

\* A stream changes nothing but itself.
LEMMA StreamFacts ==
  ASSUME NEW c \in Client, StreamStep(c)
  PROVE  UNCHANGED <<order, run, pc, queue, script, process, journal, arts, leased>>
BY DEF StreamStep, Stream, Subscribe, Receive, Check, Leave

\* The steps that leave everything but the streams as it is.
Idle == UNCHANGED <<order, run, pc, queue, script, process, journal, arts, leased>>

\* The next-state relation, one disjunct per kind of step.
LEMMA ActionCases ==
  ASSUME [Next]_vars
  PROVE  \/ Emit \/ Submit \/ Finish \/ Shutdown \/ Closed \/ Pick
         \/ Crash \/ Exit \/ Restart \/ RestoreRow \/ Restored
         \/ \E r \in RunId : Create(r) \/ Cancel(r) \/ Begin(r) \/ Executes(r)
         \/ \E wait \in BOOLEAN : Close(wait)
         \/ Idle /\ (UNCHANGED sub \/ \E c \in Client : StreamStep(c))
<1>1. CASE UNCHANGED vars  BY <1>1 DEF vars, Idle
<1>2. CASE Next  BY <1>2, NextCases, StreamFacts DEF Work, Closing, Executes, Idle
<1>. QED  BY <1>1, <1>2

\* Control is inductive, given the base invariant.
LEMMA ControlStep == Base /\ Control /\ [Next]_vars => Control'
<1>. SUFFICES ASSUME Base, Control, [Next]_vars PROVE Control'  OBVIOUS
<1>1. CASE Idle
  BY <1>1 DEF Idle, process, Control, PoolInv, ScriptInv, ClosingInv, StepOk, Waiting,
              Executing, Active, Retained, IsOver
<1>. QED  BY <1>1, ActionCases, EmitControl, SubmitControl, FinishControl, ShutdownControl,
             ClosedControl, PickControl, ProcessControl, CreateControl, CancelControl,
             BeginControl, ExecuteControl, CloseControl

-----------------------------------------------------------------------------
(* How runs end.                                                           *)

\* A run, or a row of the journal, that is over has said so last.
SaysSo(x) ==
  x.state \in Terminal =>
    x.events # <<>> /\ x.events[Len(x.events)].type = x.state

EndOk(r) ==
  /\ SaysSo(run[r])
  /\ IsOver(run, r) =>
       /\ r \notin leased
       /\ r \in arts => run[r].state = "succeeded"
       /\ run[r].state = "succeeded" => ~run[r].cancel

EndInv ==
  /\ \A r \in Retained : EndOk(r)
  /\ \A i \in DOMAIN disk : SaysSo(disk[i])
  /\ \A i \in DOMAIN boot : SaysSo(boot[i])

\* There is no run and no row yet.
LEMMA InitEnd == Init => EndInv
<1>. SUFFICES ASSUME Init PROVE EndInv  OBVIOUS
<1>1. Retained = {} /\ DOMAIN disk = {} /\ DOMAIN boot = {}
  BY DEF Init, Retained, ToSet
<1>. QED  BY <1>1 DEF EndInv

\* A run that is not over need not say anything, and one that was over and has
\* not changed is as good as before.
LEMMA EndKept ==
  ASSUME EndInv, NEW q \in Retained',
         \/ ~IsOver(run', q)
         \/ /\ q \in Retained
            /\ run'[q].state = run[q].state /\ run'[q].events = run[q].events
            /\ run'[q].cancel = run[q].cancel
            /\ q \in leased' => q \in leased
            /\ q \in arts' => q \in arts
  PROVE  EndOk(q)'
BY DEF EndInv, EndOk, SaysSo, IsOver

\* The journal holds what the runs say.
LEMMA EndSaved ==
  ASSUME Base, EndInv, NEW o \in Seq(RunId), NEW R \in [RunId -> RunType], IsInjective(o),
         Persisted(o, R), \A r \in ToSet(o) : SaysSo(R[r])
  PROVE  \A i \in DOMAIN disk' : SaysSo(disk'[i])
<1>1. disk' \in {disk, Rows(o, R)}  BY PersistedFacts DEF Base
<1>2. ASSUME NEW i \in DOMAIN Rows(o, R) PROVE SaysSo(Rows(o, R)[i])
  <2>1. PICK r \in ToSet(o) : Rows(o, R)[i] = Row(R, r)  BY RowsFacts
  <2>2. SaysSo(Row(R, r))  BY DEF SaysSo, Row
  <2>. QED  BY <2>1, <2>2
<1>. QED  BY <1>1, <1>2 DEF EndInv

\* Emit keeps EndInv.
LEMMA EmitEnd == ASSUME Base, Control, EndInv, Emit PROVE EndInv'
<1>. DEFINE r == Head(script).run
<1>1. /\ r \in Active /\ run' \in [RunId -> RunType]
      /\ \A q \in RunId : run'[q].state = run[q].state /\ run'[q].cancel = run[q].cancel
      /\ \A q \in RunId \ {r} : run'[q] = run[q]
      /\ Retained' = Retained /\ Active' = Active /\ Persisted(order, run')
      /\ UNCHANGED <<order, boot, arts, leased>>
  BY EmitFacts DEF Control
<1>. HIDE DEF r
<1>2. ASSUME NEW q \in Retained' PROVE EndOk(q)'
  <2>1. q \in RunId /\ q \in Retained  BY <1>1, RetainedType DEF Base
  <2>2. q = r => ~IsOver(run', q)  BY <1>1 DEF Active
  <2>. QED  BY <1>1, <2>1, <2>2, EndKept
<1>3. \A q \in ToSet(order) : SaysSo(run'[q])  BY <1>1, <1>2 DEF EndOk, Retained
<1>4. \A i \in DOMAIN disk' : SaysSo(disk'[i])
  BY <1>1, <1>3, EndSaved DEF Base, Types, Distinct
<1>. QED  BY <1>1, <1>2, <1>4 DEF EndInv

\* Submit keeps EndInv.
LEMMA SubmitEnd == ASSUME Base, Control, EndInv, Submit PROVE EndInv'
<1>1. /\ Persisted(order, run) /\ Retained' = Retained
      /\ UNCHANGED <<order, run, boot, arts, leased>>
  BY SubmitFacts DEF Control
<1>2. \A q \in ToSet(order) : SaysSo(run[q])  BY DEF EndInv, EndOk, Retained
<1>3. \A i \in DOMAIN disk' : SaysSo(disk'[i])
  BY <1>1, <1>2, EndSaved DEF Base, Types, Distinct
<1>4. ASSUME NEW q \in Retained' PROVE EndOk(q)'  BY <1>1, EndKept
<1>. QED  BY <1>1, <1>3, <1>4 DEF EndInv

\* Finish keeps EndInv.
LEMMA FinishEnd == ASSUME Base, Control, EndInv, Finish PROVE EndInv'
<1>1. PICK r \in RunId, s \in Terminal :
      /\ s = "succeeded" => ~run[r].cancel
      /\ \/ IsOver(run, r) /\ UNCHANGED <<order, run, journal, arts, leased>>
         \/ ~IsOver(run, r) /\ Ending(r, s)
      /\ boot' = boot
  BY FinishFacts DEF Control
<1>. DEFINE R == [run EXCEPT ![r].state = s]
<1>2. CASE IsOver(run, r) /\ UNCHANGED <<order, run, journal, arts, leased>>
  <2>1. Retained' = Retained  BY <1>2 DEF Retained
  <2>2. ASSUME NEW q \in Retained' PROVE EndOk(q)'  BY <1>2, <2>1, EndKept
  <2>. QED  BY <1>1, <1>2, <2>1, <2>2 DEF EndInv, journal
<1>3. CASE ~IsOver(run, r) /\ Ending(r, s)
  <2>1. /\ run' \in [RunId -> RunType] /\ \A q \in RunId \ {r} : run'[q] = run[q]
        /\ run'[r].state = s /\ run'[r].cancel = run[r].cancel
        /\ Retained' \subseteq Retained
    BY <1>1, <1>3, EndingFacts
  <2>2. /\ Persisted(order, run') /\ leased' = leased \ {r} /\ run' = Appended(R, r, s)
        /\ arts' = IF s = "succeeded" THEN arts ELSE arts \ {r}
    BY <1>3 DEF Ending
  <2>3. SaysSo(run'[r])
    <3>1. R \in [RunId -> RunType]  BY <1>1, TerminalTypes, RunExcept DEF Base, Types
    <3>. HIDE DEF R
    <3>2. EventAdded(R, run', r, s)  BY <1>1, <2>2, <3>1, TerminalTypes, AppendedFacts
    <3>. DEFINE new == run'[r].events
    <3>3. R[r].events \in Seq(Event) /\ new \in Seq(Event)  BY <1>1, <2>1, <3>1 DEF RunType
    <3>4. Len(new) \in 1..(Len(R[r].events)+1) /\ new[Len(new)] = [seq |-> R[r].next, type |-> s]
      BY <3>2 DEF EventAdded
    <3>. HIDE DEF new
    <3>5. new # <<>> /\ new[Len(new)].type = s
      BY <3>3, <3>4
    <3>. QED  BY <2>1, <3>5 DEF SaysSo, new
  <2>4. EndOk(r)'
    BY <1>1, <2>1, <2>2, <2>3 DEF EndOk
  <2>5. ASSUME NEW q \in Retained, q # r PROVE SaysSo(run'[q])
    <3>1. run'[q] = run[q]  BY <2>1, <2>5, RetainedType DEF Base
    <3>. QED  BY <3>1 DEF EndInv, EndOk
  <2>6. ASSUME NEW q \in Retained' PROVE EndOk(q)'
    <3>1. CASE q = r  BY <2>4, <3>1
    <3>2. CASE q # r
      <4>1. q \in Retained /\ q \in RunId /\ run'[q] = run[q]
        BY <2>1, <3>2, RetainedType DEF Base
      <4>. QED  BY <2>2, <4>1, EndKept
    <3>. QED  BY <3>1, <3>2
  <2>7. \A q \in ToSet(order) : SaysSo(run'[q])  BY <2>3, <2>5 DEF Retained
  <2>8. \A i \in DOMAIN disk' : SaysSo(disk'[i])
    BY <2>1, <2>2, <2>7, EndSaved DEF Base, Types, Distinct
  <2>. QED  BY <1>1, <2>6, <2>8 DEF EndInv
<1>. QED  BY <1>1, <1>2, <1>3

\* Create keeps EndInv.
LEMMA CreateEnd == ASSUME Base, Control, EndInv, NEW r \in RunId, Create(r) PROVE EndInv'
<1>1. /\ run'[r] = NewRun /\ \A q \in RunId \ {r} : run'[q] = run[q]
      /\ Retained' \subseteq Retained \cup {r}
      /\ UNCHANGED <<process, journal, arts, leased>>
  BY CreateFacts
<1>2. ASSUME NEW q \in Retained' PROVE EndOk(q)'
  <2>1. q = r => ~IsOver(run', q)  BY <1>1 DEF IsOver, NewRun, NoRun, Terminal
  <2>2. q # r => q \in Retained /\ q \in RunId  BY <1>1, RetainedType DEF Base
  <2>. QED  BY <1>1, <2>1, <2>2, EndKept
<1>. QED  BY <1>1, <1>2 DEF EndInv, process, journal

\* The actions that change no event.
LEMMA OthersEnd ==
  ASSUME Base, Control, EndInv,
         \/ Shutdown \/ Closed \/ Pick \/ Idle
         \/ \E r \in RunId : Cancel(r) \/ Begin(r) \/ Executes(r)
         \/ \E wait \in BOOLEAN : Close(wait)
  PROVE  EndInv'
<1>1. /\ Retained' = Retained /\ UNCHANGED <<boot, journal>>
      /\ \A q \in Retained :
           \/ ~IsOver(run', q)
           \/ /\ run'[q].state = run[q].state /\ run'[q].events = run[q].events
              /\ run'[q].cancel = run[q].cancel
              /\ q \in leased' => q \in leased
              /\ q \in arts' => q \in arts
  <2>1. CASE Shutdown \/ Closed \/ Pick \/ Idle
    BY <2>1 DEF Shutdown, Closed, Pick, Idle, process, Retained
  <2>2. ASSUME NEW r \in RunId, Cancel(r)
        PROVE  <1>1!:
    <3>1. /\ r \in Active /\ \A q \in RunId \ {r} : run'[q] = run[q]
          /\ Retained' = Retained /\ Active' = Active
          /\ UNCHANGED <<process, journal, arts, leased>>
      BY <2>2, CancelFacts
    <3>2. ~IsOver(run', r)  BY <3>1 DEF Active
    <3>. QED  BY <3>1, <3>2, RetainedType DEF process, Base
  <2>3. ASSUME NEW r \in RunId, Begin(r)
        PROVE  <1>1!:
    <3>1. /\ \A q \in RunId \ {r} : run'[q] = run[q]
          /\ \/ UNCHANGED <<run, leased>>
             \/ run'[r].state = "running" /\ leased' = leased \cup {r}
          /\ Retained' = Retained
          /\ UNCHANGED <<process, journal, arts>>
      BY <2>3, BeginFacts
    <3>2. run'[r].state = "running" => ~IsOver(run', r)  BY DEF IsOver, Terminal
    <3>. QED  BY <3>1, <3>2, RetainedType DEF process, Base
  <2>4. ASSUME NEW r \in RunId, Executes(r)
        PROVE  <1>1!:
    <3>1. /\ Executing(r) /\ \A q \in RunId \ {r} : run'[q] = run[q]
          /\ arts' \subseteq arts \cup {r}
          /\ Retained' = Retained /\ Active' = Active
          /\ UNCHANGED <<process, journal, leased>>
      BY <2>4, ExecuteFacts
    <3>2. ~IsOver(run', r)  BY <3>1, ExecutesActive DEF Active, Control
    <3>. QED  BY <3>1, <3>2, RetainedType DEF process, Base
  <2>5. ASSUME NEW wait \in BOOLEAN, Close(wait)
        PROVE  <1>1!:
    <3>1. /\ \A q \in RunId \ Active : run'[q] = run[q]
          /\ Retained' = Retained /\ Active' = Active
          /\ UNCHANGED <<boot, journal, arts, leased>>
      BY <2>5, CloseFacts
    <3>. QED  BY <3>1, RetainedType DEF Active, Base
  <2>. QED  BY <2>1, <2>2, <2>3, <2>4, <2>5
<1>2. ASSUME NEW q \in Retained' PROVE EndOk(q)'  BY <1>1, EndKept
<1>. QED  BY <1>1, <1>2 DEF EndInv, journal

\* RestoreRow keeps EndInv.
LEMMA RestoreRowEnd == ASSUME Base, EndInv, RestoreRow PROVE EndInv'
<1>1. PICK row \in RowType :
      /\ stage = "restoring" /\ row = Head(boot) /\ row.id \in RunId /\ row = boot[1]
      /\ order' \in Seq(RunId) /\ IsInjective(order')
      /\ Retained' = Retained \cup {row.id} /\ row.id \notin Retained
      /\ \/ /\ row.state \in Terminal
            /\ run' = [run EXCEPT ![row.id] = Loaded(row)] /\ UNCHANGED journal
         \/ /\ row.state \notin Terminal
            /\ run' = Appended([run EXCEPT ![row.id] = Interrupted(row)], row.id, "failed")
            /\ Persisted(order', run')
      /\ run' \in [RunId -> RunType]
      /\ UNCHANGED <<arts, leased>>
  BY RestoreRowCases
<1>2. /\ Len(boot) \in Nat \ {0} /\ DOMAIN boot' = 1..(Len(boot) - 1)
      /\ \A i \in DOMAIN boot' : boot'[i] = boot[i+1] /\ i + 1 \in DOMAIN boot
  BY RestoreRowCases
<1>3. DOMAIN boot = 1..Len(boot)  BY DEF Base, Types
<1>4. SaysSo(row) /\ \A i \in DOMAIN boot' : SaysSo(boot'[i])
  BY <1>1, <1>2, <1>3 DEF EndInv
<1>5. leased = {} /\ arts = {}  BY <1>1 DEF Base, AtRest
<1>6. run \in [RunId -> RunType]  BY DEF Base, Types
<1>. DEFINE x == row.id
<1>7. EndOk(x)' /\ \A q \in RunId \ {x} : run'[q] = run[q]
  <2>1. CASE /\ row.state \in Terminal
             /\ run' = [run EXCEPT ![row.id] = Loaded(row)]
    <3>1. run'[x] = Loaded(row) /\ \A q \in RunId \ {x} : run'[q] = run[q]
      BY <1>1, <1>6, <2>1
    <3>2. /\ Loaded(row).state = row.state /\ Loaded(row).events = row.events
          /\ Loaded(row).cancel = FALSE
      BY DEF Loaded, NoRun
    <3>3. SaysSo(run'[x]) /\ run'[x].cancel = FALSE
      BY <1>4, <3>1, <3>2 DEF SaysSo
    <3>4. EndOk(x)'  BY <1>1, <1>5, <3>3 DEF EndOk
    <3>. QED  BY <3>1, <3>4
  <2>2. CASE run' = Appended([run EXCEPT ![row.id] = Interrupted(row)], row.id, "failed")
    <3>. DEFINE R == [run EXCEPT ![x] = Interrupted(row)]
    <3>1. R \in [RunId -> RunType] /\ R[x] = Interrupted(row) /\ \A q \in RunId \ {x} : R[q] = run[q]
      BY <1>1, <1>6, LoadedType, RunExcept
    <3>2. R[x].state = "failed"  BY <3>1 DEF Interrupted, Loaded, NoRun
    <3>3. "failed" \in EventType  BY DEF EventType, Terminal
    <3>. HIDE DEF R
    <3>4. run' = Appended(R, x, "failed")  BY <2>2 DEF R
    <3>5. SameButEvents(R, run', x) /\ EventAdded(R, run', x, "failed")
      BY <1>1, <3>1, <3>3, <3>4, AppendedFacts
    <3>6. /\ run'[x].state = "failed" /\ \A q \in RunId \ {x} : run'[q] = run[q]
      BY <3>1, <3>2, <3>5 DEF SameButEvents
    <3>. DEFINE new == run'[x].events
    <3>7. R[x].events \in Seq(Event) /\ new \in Seq(Event)  BY <1>1, <3>1 DEF RunType
    <3>8. Len(new) \in 1..(Len(R[x].events)+1) /\ new[Len(new)] = [seq |-> R[x].next, type |-> "failed"]
      BY <3>5 DEF EventAdded
    <3>. HIDE DEF new
    <3>9. new # <<>> /\ new[Len(new)].type = "failed"  BY <3>7, <3>8
    <3>10. SaysSo(run'[x])  BY <3>6, <3>9 DEF SaysSo, new
    <3>11. EndOk(x)'  BY <1>1, <1>5, <3>6, <3>10 DEF EndOk
    <3>. QED  BY <3>6, <3>11
  <2>. QED  BY <1>1, <2>1, <2>2
<1>8. ASSUME NEW q \in Retained' PROVE EndOk(q)'
  <2>1. CASE q = x  BY <1>7, <2>1
  <2>2. CASE q # x
    <3>1. q \in Retained /\ q \in RunId  BY <1>1, <2>2, RetainedType DEF Base
    <3>2. run'[q] = run[q]  BY <1>7, <2>2, <3>1
    <3>. QED  BY <1>1, <3>1, <3>2, EndKept
  <2>. QED  BY <2>1, <2>2
<1>9. \A q \in ToSet(order') : SaysSo(run'[q])  BY <1>8 DEF EndOk, Retained
<1>10. \A i \in DOMAIN disk' : SaysSo(disk'[i])
  <2>1. CASE UNCHANGED journal  BY <2>1 DEF EndInv, journal
  <2>2. CASE Persisted(order', run')  BY <1>1, <1>9, <2>2, EndSaved
  <2>. QED  BY <1>1, <2>1, <2>2
<1>. QED  BY <1>4, <1>8, <1>10 DEF EndInv

\* A crash and the restart after it.
LEMMA ProcessEnd ==
  ASSUME Base, EndInv, Crash \/ Exit \/ Restart \/ Restored
  PROVE  EndInv'
<1>1. CASE Crash \/ Exit
  <2>1. /\ Retained' = {} /\ DOMAIN boot' = {} /\ disk' = disk
    BY <1>1 DEF Crash, Exit, Gone, Retained, ToSet
  <2>. QED  BY <2>1 DEF EndInv
<1>2. CASE Restart
  <2>1. Retained' = {} /\ boot' = disk /\ disk' = disk
    BY <1>2 DEF Restart, Base, AtRest, Retained, ToSet, journal
  <2>. QED  BY <2>1 DEF EndInv
<1>3. CASE Restored
  <2>1. /\ order' = Pruned(order, run) /\ Persisted(order', run)
        /\ UNCHANGED <<run, arts, leased, boot>>
    BY <1>3 DEF Restored
  <2>2. order \in Seq(RunId) /\ IsInjective(order) /\ run \in [RunId -> RunType]
    BY DEF Base, Types, Distinct
  <2>3. order' \in Seq(RunId) /\ IsInjective(order') /\ Retained' \subseteq Retained
    BY <2>1, <2>2, PrunedFacts DEF Retained
  <2>4. ASSUME NEW q \in Retained' PROVE EndOk(q)'  BY <2>1, <2>3, EndKept
  <2>5. \A q \in ToSet(order') : SaysSo(run[q])  BY <2>3 DEF EndInv, EndOk, Retained
  <2>6. \A i \in DOMAIN disk' : SaysSo(disk'[i])  BY <2>1, <2>2, <2>3, <2>5, EndSaved
  <2>. QED  BY <2>1, <2>4, <2>6 DEF EndInv
<1>. QED  BY <1>1, <1>2, <1>3

\* EndInv is inductive, given the layers before it.
LEMMA EndStep == Base /\ Control /\ EndInv /\ [Next]_vars => EndInv'
<1>. SUFFICES ASSUME Base, Control, EndInv, [Next]_vars PROVE EndInv'  OBVIOUS
<1>. QED  BY ActionCases, EmitEnd, SubmitEnd, FinishEnd, CreateEnd, OthersEnd, RestoreRowEnd,
             ProcessEnd

\* What was checked says what it must.
LEMMA RunsEnd == Control /\ EndInv => RunsEndInOrder
<1>. SUFFICES ASSUME Control, EndInv PROVE RunsEndInOrder  OBVIOUS
<1>1. ExecutionKeepsItsRun  BY ExecutesActive DEF ExecutionKeepsItsRun, Control
<1>2. EndIsComplete  BY DEF EndIsComplete, EndInv, EndOk, SaysSo, IsOver, Last
<1>. QED  BY <1>1, <1>2 DEF RunsEndInOrder

-----------------------------------------------------------------------------
(* Every run has an end.                                                   *)

\* Who will end r.
Ender(r) ==
  \/ \E i \in DOMAIN script : script[i].run = r /\ script[i].do \in {"submit", "finish"}
  \/ r \in ToSet(queue) /\ stage \in {"open", "closing"}
  \/ r \in Busy
  \/ pc[r] = "dropped" /\ stage = "draining" /\ r \in ToSet(closing.runs)

\* EveryRunHasAnEnd, run by run.
LEMMA EnderMeaning == EveryRunHasAnEnd <=> \A r \in Active : Ender(r)
BY DEF EveryRunHasAnEnd, Ender

\* The holder of the lock did something else first.
LEMMA EnderKept ==
  ASSUME Base, script # <<>>, script' = Tail(script), UNCHANGED <<pc, queue, stage, closing>>,
         NEW q, Ender(q), Head(script).do = "emit" \/ Head(script).run # q
  PROVE  Ender(q)'
<1>1. CASE \E i \in DOMAIN script : script[i].run = q /\ script[i].do \in {"submit", "finish"}
  <2>1. PICK i \in DOMAIN script : script[i].run = q /\ script[i].do \in {"submit", "finish"}
    BY <1>1
  <2>2. i - 1 \in DOMAIN script' /\ script'[i-1] = script[i]
    BY <2>1, Popped DEF Base
  <2>. QED  BY <2>1, <2>2 DEF Ender
<1>2. CASE \/ q \in ToSet(queue) /\ stage \in {"open", "closing"}
           \/ q \in Busy
           \/ pc[q] = "dropped" /\ stage = "draining" /\ q \in ToSet(closing.runs)
  BY <1>2 DEF Ender, Busy
<1>. QED  BY <1>1, <1>2 DEF Ender

\* The holder of the lock goes on.
LEMMA HolderEnds ==
  ASSUME Base, Control, EveryRunHasAnEnd, Emit \/ Submit \/ Finish
  PROVE  EveryRunHasAnEnd'
<1>1. CASE Emit
  <2>1. /\ script # <<>> /\ Head(script).do = "emit" /\ script' = Tail(script)
        /\ Active' = Active /\ UNCHANGED <<pc, queue, stage, closing>>
    BY <1>1, EmitFacts DEF Control
  <2>2. ASSUME NEW q \in Active' PROVE Ender(q)'
    BY <2>1, EnderKept, EnderMeaning
  <2>. QED  BY <2>2 DEF EveryRunHasAnEnd, Ender
<1>2. CASE Submit
  <2>1. PICK r \in RunId : /\ r = Head(script).run /\ r \in Active
          /\ script # <<>> /\ script' = <<>> /\ script' = Tail(script) /\ stage = "open" /\ pc[r] = "none"
          /\ pc' = [pc EXCEPT ![r] = "queued"] /\ queue' = Append(queue, r)
          /\ Active' = Active /\ UNCHANGED <<stage, closing>>
    BY <1>2, SubmitFacts DEF Control
  <2>2. ToSet(queue') = ToSet(queue) \cup {r}  BY <2>1, ToSetAppend DEF Base, Types
  <2>3. ASSUME NEW q \in Active' PROVE Ender(q)'
    <3>1. CASE q = r  BY <2>1, <2>2, <3>1 DEF Ender
    <3>2. CASE q # r
      <4>1. Ender(q)  BY <2>1, EnderMeaning
      <4>2. \A i \in DOMAIN script : script[i].run = r
        <5>1. \A i \in DOMAIN script : i = 1 \/ i - 1 \in DOMAIN script'
          BY <2>1, Popped DEF Base
        <5>2. DOMAIN script' = {} /\ script[1] = Head(script)  BY <2>1, Popped DEF Base
        <5>. QED  BY <2>1, <5>1, <5>2
      <4>3. q \in ToSet(queue) \/ q \in Busy
        BY <2>1, <3>2, <4>1, <4>2 DEF Ender
      <4>4. q \in Busy => q \in Busy'
        BY <2>1, <3>2 DEF Busy, Base, Types
      <4>. QED  BY <2>1, <2>2, <4>3, <4>4 DEF Ender
    <3>. QED  BY <3>1, <3>2
  <2>. QED  BY <2>3 DEF EveryRunHasAnEnd, Ender
<1>3. CASE Finish
  <2>1. PICK r \in RunId : /\ r = Head(script).run
          /\ script # <<>> /\ script' = Tail(script)
          /\ Active' = Active \ {r} /\ UNCHANGED <<pc, queue, stage, closing>>
    BY <1>3, FinishFacts DEF Control
  <2>2. ASSUME NEW q \in Active' PROVE Ender(q)'
    BY <2>1, EnderKept, EnderMeaning
  <2>. QED  BY <2>2 DEF EveryRunHasAnEnd, Ender
<1>. QED  BY <1>1, <1>2, <1>3

\* Nobody who would have ended a run while the lock is free stops doing so.
LEMMA EnderStays ==
  ASSUME script = <<>>, UNCHANGED <<queue, stage, closing>>,
         NEW q, Ender(q), pc'[q] = pc[q], q \in RunId
  PROVE  Ender(q)'
<1>1. DOMAIN script = {}  OBVIOUS
<1>. QED  BY <1>1 DEF Ender, Busy

\* create, cancel and close.
LEMMA CallerEnds ==
  ASSUME Base, Control, EveryRunHasAnEnd,
         \/ \E r \in RunId : Create(r) \/ Cancel(r)
         \/ \E wait \in BOOLEAN : Close(wait)
  PROVE  EveryRunHasAnEnd'
<1>0. Active \subseteq RunId  BY RetainedType DEF Base
<1>1. ASSUME NEW r \in RunId, Create(r) PROVE EveryRunHasAnEnd'
  <2>1. /\ script = <<>> /\ Active' = Active \cup {r}
        /\ script' = <<Step("emit", r, "created"), Step("emit", r, "resolved"), Step("submit", r, "")>>
        /\ UNCHANGED <<pc, queue, stage, closing>>
    BY <1>1, CreateFacts DEF process
  <2>2. 3 \in DOMAIN script' /\ script'[3].run = r /\ script'[3].do = "submit"
    <3>1. \A a, b, c : 3 \in DOMAIN <<a, b, c>> /\ <<a, b, c>>[3] = c  OBVIOUS
    <3>2. 3 \in DOMAIN script' /\ script'[3] = Step("submit", r, "")  BY <2>1, <3>1, Zenon
    <3>3. Step("submit", r, "").run = r /\ Step("submit", r, "").do = "submit"  BY DEF Step
    <3>. QED  BY <3>2, <3>3, Zenon
  <2>3. ASSUME NEW q \in Active' PROVE Ender(q)'
    <3>1. CASE q = r  BY <2>2, <3>1 DEF Ender
    <3>2. CASE q # r  BY <1>0, <2>1, <3>2, EnderStays, EnderMeaning
    <3>. QED  BY <3>1, <3>2
  <2>. QED  BY <2>3 DEF EveryRunHasAnEnd, Ender
<1>2. ASSUME NEW r \in RunId, Cancel(r) PROVE EveryRunHasAnEnd'
  <2>1. script = <<>> /\ Active' = Active /\ UNCHANGED <<pc, queue, stage, closing>>
    BY <1>2, CancelFacts DEF process
  <2>2. ASSUME NEW q \in Active' PROVE Ender(q)'
    BY <1>0, <2>1, EnderStays, EnderMeaning
  <2>. QED  BY <2>2 DEF EveryRunHasAnEnd, Ender
<1>3. ASSUME NEW wait \in BOOLEAN, Close(wait) PROVE EveryRunHasAnEnd'
  <2>1. /\ script = <<>> /\ Active' = Active /\ stage = "open" /\ stage' = "closing"
        /\ UNCHANGED <<pc, queue>>
    BY <1>3, CloseFacts
  <2>2. ASSUME NEW q \in Active' PROVE Ender(q)'
    <3>1. Ender(q) /\ DOMAIN script = {}  BY <2>1, EnderMeaning
    <3>. QED  BY <2>1, <3>1 DEF Ender, Busy
  <2>. QED  BY <2>2 DEF EveryRunHasAnEnd, Ender
<1>. QED  BY <1>1, <1>2, <1>3

\* shutdown, and the end of close: what was queued has been dropped or taken.
LEMMA ClosingEnds ==
  ASSUME Base, Control, EveryRunHasAnEnd, Shutdown \/ Closed
  PROVE  EveryRunHasAnEnd'
<1>0. Active \subseteq RunId  BY RetainedType DEF Base
<1>1. CASE Shutdown
  <2>1. /\ stage = "closing" /\ stage' = "draining" /\ script = <<>>
        /\ pc' = [r \in RunId |-> IF r \in ToSet(queue) THEN "dropped" ELSE pc[r]]
        /\ UNCHANGED <<order, run, closing>>
    BY <1>1 DEF Shutdown
  <2>2. Active' = Active  BY <2>1 DEF Active, Retained, IsOver
  <2>3. ASSUME NEW q \in Active' PROVE Ender(q)'
    <3>1. Ender(q) /\ DOMAIN script = {} /\ q \in RunId  BY <1>0, <2>1, <2>2, EnderMeaning
    <3>2. q \in ToSet(queue) \/ q \in Busy  BY <2>1, <3>1 DEF Ender
    <3>3. CASE q \in ToSet(queue)
      <4>1. pc'[q] = "dropped" /\ q \in ToSet(closing'.runs)
        BY <2>1, <2>2, <3>1, <3>3 DEF Control, ClosingInv
      <4>. QED  BY <2>1, <4>1 DEF Ender
    <3>4. CASE q \notin ToSet(queue) /\ q \in Busy
      BY <2>1, <3>1, <3>4 DEF Ender, Busy
    <3>. QED  BY <3>2, <3>3, <3>4
  <2>. QED  BY <2>3 DEF EveryRunHasAnEnd, Ender
<1>2. CASE Closed
  <2>1. /\ stage = "draining" /\ stage' = "closed" /\ script = <<>>
        /\ closing.wait => Busy = {}
        /\ \A r \in ToSet(closing.runs) : closing.wait \/ pc[r] = "dropped" =>
              \E i \in DOMAIN script' : script'[i] = Step("finish", r, "cancelled")
        /\ UNCHANGED <<order, run, pc, queue, closing>>
    BY <1>2, ClosedFacts
  <2>2. Active' = Active  BY <2>1 DEF Active, Retained, IsOver
  <2>3. ASSUME NEW q \in Active' PROVE Ender(q)'
    <3>1. Ender(q) /\ DOMAIN script = {} /\ q \in RunId  BY <1>0, <2>1, <2>2, EnderMeaning
    <3>2. q \in Busy \/ (pc[q] = "dropped" /\ q \in ToSet(closing.runs))
      BY <2>1, <3>1 DEF Ender
    <3>3. CASE q \in Busy  BY <2>1, <3>3 DEF Ender, Busy
    <3>4. CASE pc[q] = "dropped" /\ q \in ToSet(closing.runs)
      <4>1. PICK i \in DOMAIN script' : script'[i] = Step("finish", q, "cancelled")
        BY <2>1, <3>4
      <4>. QED  BY <4>1 DEF Ender, Step
    <3>. QED  BY <3>2, <3>3, <3>4
  <2>. QED  BY <2>3 DEF EveryRunHasAnEnd, Ender
<1>. QED  BY <1>1, <1>2

\* A thread that stops leaves the end of its run to the holder of the lock.
LEMMA ThreadEnds ==
  ASSUME Base, Control, EveryRunHasAnEnd,
         Pick \/ \E r \in RunId : Begin(r) \/ Executes(r)
  PROVE  EveryRunHasAnEnd'
<1>0. Active \subseteq RunId  BY RetainedType DEF Base
<1>1. CASE Pick
  <2>1. /\ queue # <<>> /\ pc' = [pc EXCEPT ![Head(queue)] = "picked"] /\ queue' = Tail(queue)
        /\ UNCHANGED <<order, run, script, stage, closing>>
    BY <1>1 DEF Pick, process
  <2>2. queue \in Seq(RunId) /\ IsInjective(queue)  BY DEF Base, Types, Control, PoolInv
  <2>3. ToSet(queue') = ToSet(queue) \ {Head(queue)} /\ Head(queue) \in RunId
    BY <2>1, <2>2, InjectiveTail
  <2>4. pc[Head(queue)] = "queued"
    <3>1. Head(queue) \in ToSet(queue)  BY <2>1, <2>2 DEF ToSet
    <3>. QED  BY <2>3, <3>1 DEF Control, PoolInv
  <2>5. Active' = Active  BY <2>1 DEF Active, Retained, IsOver
  <2>6. ASSUME NEW q \in Active' PROVE Ender(q)'
    <3>1. Ender(q) /\ q \in RunId  BY <1>0, <2>5, EnderMeaning
    <3>2. CASE q = Head(queue)
      <4>1. pc'[q] = "picked"  BY <2>1, <2>3, <3>2 DEF Base, Types
      <4>. QED  BY <3>1, <4>1 DEF Ender, Busy
    <3>3. CASE q # Head(queue)
      <4>1. pc'[q] = pc[q]  BY <2>1, <3>1, <3>3 DEF Base, Types
      <4>. QED  BY <2>1, <2>3, <3>1, <3>3, <4>1 DEF Ender, Busy
    <3>. QED  BY <3>2, <3>3
  <2>. QED  BY <2>6 DEF EveryRunHasAnEnd, Ender
<1>2. ASSUME NEW r \in RunId, Begin(r) PROVE EveryRunHasAnEnd'
  <2>1. /\ script = <<>> /\ \A q \in RunId \ {r} : pc'[q] = pc[q]
        /\ \/ r \notin Retained
           \/ script' = <<Step("finish", r, "cancelled")>>
           \/ pc'[r] = "executing"
        /\ Active' = Active /\ UNCHANGED <<queue, stage, closing>>
    BY <1>2, BeginFacts DEF process
  <2>2. ASSUME NEW q \in Active' PROVE Ender(q)'
    <3>1. Ender(q) /\ q \in RunId  BY <1>0, <2>1, EnderMeaning
    <3>2. CASE q # r  BY <2>1, <3>1, <3>2, EnderStays
    <3>3. CASE q = r
      <4>1. r \in Retained  BY <2>1, <3>3 DEF Active
      <4>2. CASE pc'[r] = "executing"  BY <3>1, <3>3, <4>2 DEF Ender, Busy
      <4>3. CASE script' = <<Step("finish", r, "cancelled")>>
        <5>1. 1 \in DOMAIN script' /\ script'[1].run = r /\ script'[1].do = "finish"
          BY <4>3 DEF Step
        <5>. QED  BY <3>3, <5>1 DEF Ender
      <4>. QED  BY <2>1, <4>1, <4>2, <4>3
    <3>. QED  BY <3>2, <3>3
  <2>. QED  BY <2>2 DEF EveryRunHasAnEnd, Ender
<1>3. ASSUME NEW r \in RunId, Executes(r) PROVE EveryRunHasAnEnd'
  <2>1. /\ \A q \in RunId \ {r} : pc'[q] = pc[q]
        /\ \/ Executing(r)'
           \/ script' = <<Step("finish", r, "cancelled")>>
           \/ script' = <<Step("emit", r, "completed"), Step("finish", r, "succeeded")>>
           \/ script' = <<Step("emit", r, "failed"), Step("finish", r, "failed")>>
        /\ script = <<>> \/ UNCHANGED script
        /\ Active' = Active /\ UNCHANGED <<queue, stage, closing>>
    BY <1>3, ExecuteFacts DEF process
  <2>2. ASSUME NEW q \in Active' PROVE Ender(q)'
    <3>1. Ender(q) /\ q \in RunId  BY <1>0, <2>1, EnderMeaning
    <3>2. CASE q # r
      <4>1. pc'[q] = pc[q]  BY <2>1, <3>1, <3>2
      <4>2. CASE script = <<>>  BY <2>1, <3>1, <4>1, <4>2, EnderStays
      <4>3. CASE UNCHANGED script  BY <2>1, <3>1, <4>1, <4>3 DEF Ender, Busy
      <4>. QED  BY <2>1, <4>2, <4>3
    <3>3. CASE q = r
      <4>1. CASE Executing(r)'  BY <3>1, <3>3, <4>1 DEF Ender, Busy, Executing
      <4>2. CASE script' = <<Step("finish", r, "cancelled")>>
        <5>1. 1 \in DOMAIN script' /\ script'[1].run = r /\ script'[1].do = "finish"
          BY <4>2 DEF Step
        <5>. QED  BY <3>3, <5>1 DEF Ender
      <4>3. CASE \/ script' = <<Step("emit", r, "completed"), Step("finish", r, "succeeded")>>
                 \/ script' = <<Step("emit", r, "failed"), Step("finish", r, "failed")>>
        <5>1. 2 \in DOMAIN script' /\ script'[2].run = r /\ script'[2].do = "finish"
          BY <4>3 DEF Step
        <5>. QED  BY <3>3, <5>1 DEF Ender
      <4>. QED  BY <2>1, <4>1, <4>2, <4>3
    <3>. QED  BY <3>2, <3>3
  <2>. QED  BY <2>2 DEF EveryRunHasAnEnd, Ender
<1>. QED  BY <1>1, <1>2, <1>3

\* While the process restores, no run is active.
LEMMA RestoringIdle ==
  ASSUME Base, EveryRunHasAnEnd, stage = "restoring"
  PROVE  Active = {}
<1>1. script = <<>> /\ queue = <<>> /\ pc = [r \in RunId |-> "none"]  BY DEF Base, AtRest
<1>2. DOMAIN script = {} /\ Busy = {} /\ ToSet(queue) = {}  BY <1>1 DEF Busy, ToSet
<1>3. \A r : ~Ender(r)  BY <1>1, <1>2 DEF Ender
<1>. QED  BY <1>3, EnderMeaning

\* A row that is restored is a run that is over.
LEMMA RestoredIsOver ==
  ASSUME Base, RestoreRow, Active = {}
  PROVE  Active' = {}
<1>1. PICK row \in RowType :
      /\ row.id \in RunId /\ Retained' = Retained \cup {row.id}
      /\ \/ /\ row.state \in Terminal
            /\ run' = [run EXCEPT ![row.id] = Loaded(row)]
         \/ run' = Appended([run EXCEPT ![row.id] = Interrupted(row)], row.id, "failed")
  BY RestoreRowCases
<1>2. run \in [RunId -> RunType] /\ Retained \subseteq RunId
  BY RetainedType DEF Base, Types
<1>3. /\ \A q \in RunId \ {row.id} : run'[q] = run[q]
      /\ IsOver(run', row.id)
  <2>1. CASE row.state \in Terminal /\ run' = [run EXCEPT ![row.id] = Loaded(row)]
    <3>1. run'[row.id] = Loaded(row)  BY <1>1, <1>2, <2>1
    <3>. QED  BY <1>1, <1>2, <2>1, <3>1 DEF IsOver, Loaded, NoRun
  <2>2. CASE run' = Appended([run EXCEPT ![row.id] = Interrupted(row)], row.id, "failed")
    <3>. DEFINE R == [run EXCEPT ![row.id] = Interrupted(row)]
    <3>1. R \in [RunId -> RunType] /\ R[row.id] = Interrupted(row)
          /\ \A q \in RunId \ {row.id} : R[q] = run[q]
      BY <1>1, <1>2, LoadedType, RunExcept
    <3>2. R[row.id].state = "failed"  BY <3>1 DEF Interrupted, Loaded, NoRun
    <3>3. "failed" \in EventType  BY DEF EventType, Terminal
    <3>. HIDE DEF R
    <3>4. run' = Appended(R, row.id, "failed")  BY <2>2 DEF R
    <3>5. SameButEvents(R, run', row.id)  BY <1>1, <3>1, <3>3, <3>4, AppendedFacts
    <3>. QED  BY <3>1, <3>2, <3>5 DEF SameButEvents, IsOver, Terminal
  <2>. QED  BY <1>1, <2>1, <2>2
<1>. QED  BY <1>1, <1>2, <1>3 DEF Active, IsOver

\* A crash, a restart and the recovery.
LEMMA ProcessEnds ==
  ASSUME Base, EveryRunHasAnEnd, Crash \/ Exit \/ Restart \/ RestoreRow \/ Restored
  PROVE  EveryRunHasAnEnd' /\ Active' = {}
<1>. SUFFICES Active' = {}  BY DEF EveryRunHasAnEnd
<1>1. CASE Crash \/ Exit
  BY <1>1 DEF Crash, Exit, Gone, Active, Retained, ToSet
<1>2. CASE Restart
  BY <1>2 DEF Restart, Base, AtRest, Active, Retained, ToSet
<1>3. CASE RestoreRow
  <2>1. stage = "restoring"  BY <1>3 DEF RestoreRow
  <2>. QED  BY <1>3, <2>1, RestoringIdle, RestoredIsOver
<1>4. CASE Restored
  <2>1. stage = "restoring" /\ order' = Pruned(order, run) /\ run' = run  BY <1>4 DEF Restored
  <2>2. Retained' \subseteq Retained
    BY <2>1, PrunedFacts DEF Retained, Base, Types, Distinct
  <2>3. Active = {}  BY <2>1, RestoringIdle
  <2>. QED  BY <2>1, <2>2, <2>3 DEF Active, IsOver
<1>. QED  BY <1>1, <1>2, <1>3, <1>4

\* EveryRunHasAnEnd is inductive, given the layers before it.
LEMMA EveryStep == Base /\ Control /\ EveryRunHasAnEnd /\ [Next]_vars => EveryRunHasAnEnd'
<1>. SUFFICES ASSUME Base, Control, EveryRunHasAnEnd, [Next]_vars PROVE EveryRunHasAnEnd'
  OBVIOUS
<1>1. CASE Idle
  BY <1>1 DEF Idle, process, EveryRunHasAnEnd, Active, Retained, IsOver, Busy
<1>. QED  BY <1>1, ActionCases, HolderEnds, CallerEnds, ClosingEnds, ThreadEnds, ProcessEnds

-----------------------------------------------------------------------------
(* Limits.                                                                 *)

\* No more runs are active when none was added.
LEMMA FewerActive ==
  ASSUME Base, Limits, Active' \subseteq Active
  PROVE  Cardinality(Active') <= MaxActive
<1>1. IsFiniteSet(Active)
  <2>1. Active \subseteq RunId  BY RetainedType DEF Base
  <2>. QED  BY <2>1, RunAssumption, FS_Subset
<1>2. Cardinality(Active') <= Cardinality(Active) /\ Cardinality(Active') \in Nat
      /\ Cardinality(Active) \in Nat
  BY <1>1, FS_Subset, FS_CardinalityType
<1>. QED  BY <1>2, LimitAssumption DEF Limits

\* The limits hold after every step: create prunes, and nothing else adds a
\* run.
LEMMA LimitsStep ==
  Base /\ Control /\ EveryRunHasAnEnd /\ Limits /\ [Next]_vars => Limits'
<1>. SUFFICES ASSUME Base, Control, EveryRunHasAnEnd, Limits, [Next]_vars PROVE Limits'
  OBVIOUS
<1>0. order \in Seq(RunId) /\ IsInjective(order) /\ Active \subseteq RunId /\ IsFiniteSet(Active)
  BY RetainedType, RunAssumption, FS_Subset DEF Base, Types, Distinct
<1>1. ASSUME NEW r \in RunId, Create(r) PROVE Limits'
  <2>1. /\ Cardinality(Active) < MaxActive /\ Active' = Active \cup {r}
        /\ Len(order') <= MaxRetained \/ Cardinality(Active') > MaxRetained
    BY <1>1, CreateFacts
  <2>2. /\ IsFiniteSet(Active \cup {r}) /\ Cardinality(Active) \in Nat
        /\ Cardinality(Active \cup {r}) = IF r \in Active THEN Cardinality(Active) ELSE Cardinality(Active) + 1
    BY <1>0, FS_AddElement, FS_CardinalityType
  <2>3. Cardinality(Active') \in Nat /\ Cardinality(Active') <= Cardinality(Active) + 1
    BY <2>1, <2>2
  <2>4. Cardinality(Active') <= MaxActive  BY <2>1, <2>2, <2>3, LimitAssumption
  <2>. QED  BY <2>1, <2>3, <2>4, LimitAssumption DEF Limits
<1>2. CASE Crash \/ Exit \/ Restart \/ RestoreRow \/ Restored
  <2>1. Active' = {}  BY <1>2, ProcessEnds
  <2>2. Cardinality(Active') <= MaxActive  BY <2>1, FewerActive
  <2>3. CASE Crash \/ Exit \/ Restart \/ RestoreRow
    <3>1. stage' # "open"  BY <2>3 DEF Crash, Exit, Gone, Restart, RestoreRow
    <3>. QED  BY <2>2, <3>1 DEF Limits
  <2>4. CASE Restored
    <3>1. stage = "restoring" /\ order' = Pruned(order, run)  BY <2>4 DEF Restored
    <3>2. {r \in ToSet(order) : ~IsOver(run, r)} = {}
      BY <3>1, RestoringIdle DEF Active, Retained
    <3>3. Cardinality({r \in ToSet(order) : ~IsOver(run, r)}) <= MaxRetained
      <4>1. Cardinality({}) = 0 /\ 0 <= MaxRetained  BY FS_EmptySet, LimitAssumption
      <4>. QED  BY <3>2, <4>1, Zenon
    <3>4. Len(order') <= MaxRetained  BY <1>0, <3>1, <3>3, PrunedFacts
    <3>. QED  BY <2>2, <3>4 DEF Limits
  <2>. QED  BY <1>2, <2>3, <2>4
<1>3. ASSUME Active' \subseteq Active, stage' = "open" => stage = "open",
             Len(order') <= Len(order), Len(order') \in Nat
      PROVE  Limits'
  <2>1. Cardinality(Active') <= MaxActive  BY <1>3, FewerActive
  <2>2. Len(order) \in Nat  BY <1>0
  <2>. QED  BY <1>3, <2>1, <2>2, LimitAssumption DEF Limits
<1>4. Len(order) \in Nat  BY <1>0
<1>5. CASE \/ Emit \/ Submit \/ Shutdown \/ Closed \/ Pick \/ Idle
           \/ \E r \in RunId : Cancel(r) \/ Begin(r) \/ Executes(r)
           \/ \E wait \in BOOLEAN : Close(wait)
  <2>1. Active' = Active /\ order' = order /\ (stage' = "open" => stage = "open")
    <3>1. CASE Emit \/ Submit  BY <3>1, EmitFacts, SubmitFacts DEF Control
    <3>2. CASE Shutdown \/ Closed \/ Pick \/ Idle
      BY <3>2 DEF Shutdown, Closed, Pick, Idle, process, Active, Retained, IsOver
    <3>3. ASSUME NEW r \in RunId, Cancel(r) \/ Begin(r) \/ Executes(r)
          PROVE  <2>1!:
      BY <3>3, CancelFacts, BeginFacts, ExecuteFacts DEF process
    <3>4. ASSUME NEW wait \in BOOLEAN, Close(wait) PROVE <2>1!:
      BY <3>4, CloseFacts
    <3>. QED  BY <1>5, <3>1, <3>2, <3>3, <3>4
  <2>. QED  BY <1>3, <1>4, <2>1
<1>6. CASE Finish
  <2>1. Active' \subseteq Active /\ stage' = stage  BY <1>6, FinishFacts DEF Control
  <2>2. order' = order \/ order' = Pruned(order, run')
    BY <1>6, FinishFacts DEF Control, Ending
  <2>3. Len(Pruned(order, run')) <= Len(order) /\ Len(Pruned(order, run')) \in Nat
    <3>1. Pruned(order, run') \in Seq(RunId) /\ Len(Pruned(order, run')) <= Len(order)
      BY <1>0, PrunedFacts
    <3>. QED  BY <3>1
  <2>. QED  BY <1>3, <1>4, <2>1, <2>2, <2>3
<1>. QED  BY <1>1, <1>2, <1>5, <1>6, ActionCases

-----------------------------------------------------------------------------
(* Numbers of events, and the streams that follow them.                    *)

\* The run gets its first event next.
EmitsNext(r) == script # <<>> /\ Head(script).do = "emit" /\ Head(script).run = r

\* The events of a run, or of a row of the journal.
Numbered(x) ==
  /\ \A i \in DOMAIN x.events : x.events[i].seq = x.next - 1 - Len(x.events) + i
  /\ Len(x.events) < x.next
  /\ x.next > 1 => x.events # <<>>

NumberInv ==
  /\ \A r \in Retained : Numbered(run[r]) /\ (run[r].next > 1 \/ EmitsNext(r))
  /\ \A i \in DOMAIN disk : Numbered(disk[i]) /\ disk[i].next > 1
  /\ \A i \in DOMAIN boot : Numbered(boot[i]) /\ boot[i].next > 1

\* There is no event yet.
LEMMA InitNumber == Init => NumberInv
<1>. SUFFICES ASSUME Init PROVE NumberInv  OBVIOUS
<1>1. Retained = {} /\ DOMAIN disk = {} /\ DOMAIN boot = {}
  BY DEF Init, Retained, ToSet
<1>. QED  BY <1>1 DEF NumberInv

\* Another event goes on counting.
LEMMA NumberedAppend ==
  ASSUME NEW R \in [RunId -> RunType], NEW r \in RunId, NEW type \in EventType,
         NEW Q, Q = Appended(R, r, type), Numbered(R[r])
  PROVE  Numbered(Q[r]) /\ Q[r].next > 1 /\ Q[r].next = R[r].next + 1
<1>. DEFINE old == R[r].events
            new == Q[r].events
            k   == R[r].next
<1>1. SameButEvents(R, Q, r) /\ EventAdded(R, Q, r, type)  BY AppendedFacts
<1>2. Q[r].next = k + 1 /\ k \in Nat \ {0} /\ old \in Seq(Event) /\ new \in Seq(Event)
  BY <1>1 DEF SameButEvents, RunType
<1>3. /\ Len(new) \in 1..(Len(old) + 1) /\ new[Len(new)] = [seq |-> k, type |-> type]
      /\ \A i \in 1..(Len(new) - 1) :
           /\ i + (Len(old) + 1 - Len(new)) \in 1..Len(old)
           /\ new[i] = old[i + (Len(old) + 1 - Len(new))]
  BY <1>1 DEF EventAdded
<1>4. /\ \A i \in 1..Len(old) : old[i].seq = k - 1 - Len(old) + i
      /\ Len(old) < k /\ Len(old) \in Nat /\ Len(new) \in Nat
  BY <1>2 DEF Numbered
<1>. HIDE DEF old, new, k
<1>5. ASSUME NEW i \in 1..Len(new) PROVE new[i].seq = (k + 1) - 1 - Len(new) + i
  <2>1. CASE i = Len(new)  BY <1>2, <1>3, <1>4, <2>1
  <2>2. CASE i # Len(new)
    <3>. DEFINE j == i + (Len(old) + 1 - Len(new))
    <3>1. j \in 1..Len(old) /\ new[i] = old[j]  BY <1>3, <1>4, <2>2
    <3>. HIDE DEF j
    <3>2. new[i].seq = k - 1 - Len(old) + j  BY <1>4, <3>1
    <3>. QED  BY <1>2, <1>4, <3>2 DEF j
  <2>. QED  BY <2>1, <2>2
<1>6. new # <<>> /\ Len(new) < k + 1 /\ k + 1 > 1  BY <1>2, <1>3, <1>4
<1>7. DOMAIN new = 1..Len(new)  BY <1>2
<1>. QED  BY <1>2, <1>5, <1>6, <1>7 DEF Numbered, new, k

\* A write of the journal saves runs whose events are numbered.
LEMMA NumberSaved ==
  ASSUME Base, NumberInv, NEW o \in Seq(RunId), NEW R \in [RunId -> RunType], IsInjective(o),
         Persisted(o, R), \A r \in ToSet(o) : Numbered(R[r]) /\ R[r].next > 1
  PROVE  \A i \in DOMAIN disk' : Numbered(disk'[i]) /\ disk'[i].next > 1
<1>1. disk' \in {disk, Rows(o, R)}  BY PersistedFacts DEF Base
<1>2. ASSUME NEW i \in DOMAIN Rows(o, R)
      PROVE  Numbered(Rows(o, R)[i]) /\ Rows(o, R)[i].next > 1
  <2>1. PICK r \in ToSet(o) : Rows(o, R)[i] = Row(R, r)  BY RowsFacts
  <2>2. Row(R, r).events = R[r].events /\ Row(R, r).next = R[r].next  BY DEF Row
  <2>3. Numbered(Row(R, r)) /\ Row(R, r).next > 1
    <3>1. Numbered(R[r]) /\ R[r].next > 1  OBVIOUS
    <3>. QED  BY <2>2, <3>1 DEF Numbered
  <2>. QED  BY <2>1, <2>3
<1>. QED  BY <1>1, <1>2 DEF NumberInv

\* When the lock is free, or is held for something else, every run has an
\* event.
LEMMA HasEvents ==
  ASSUME NumberInv, NEW r \in Retained, ~EmitsNext(r)
  PROVE  Numbered(run[r]) /\ run[r].next > 1
BY DEF NumberInv

\* The actions that report nothing.
QuietActions ==
  \/ Shutdown \/ Closed \/ Pick \/ Idle
  \/ \E r \in RunId : Cancel(r) \/ Begin(r) \/ Executes(r)
  \/ \E wait \in BOOLEAN : Close(wait)

Quiet ==
  /\ Retained' = Retained /\ Active' = Active /\ UNCHANGED <<order, boot, journal>>
  /\ \A q \in RunId : run'[q].events = run[q].events /\ run'[q].next = run[q].next
  /\ script = <<>> \/ UNCHANGED script

\* Those actions change no event.
LEMMA QuietFacts == ASSUME Base, Control, QuietActions PROVE Quiet
<1>1. CASE Shutdown \/ Closed \/ Pick \/ Idle
  BY <1>1 DEF Shutdown, Closed, Pick, Idle, process, Active, Retained, IsOver, Quiet
<1>2. ASSUME NEW r \in RunId, Cancel(r) PROVE Quiet
  BY <1>2, CancelFacts DEF process, Quiet
<1>3. ASSUME NEW r \in RunId, Begin(r) PROVE Quiet
  BY <1>3, BeginFacts DEF process, Quiet
<1>4. ASSUME NEW r \in RunId, Executes(r) PROVE Quiet
  BY <1>4, ExecuteFacts DEF process, Quiet
<1>5. ASSUME NEW wait \in BOOLEAN, Close(wait) PROVE Quiet
  BY <1>5, CloseFacts DEF process, Quiet
<1>. QED  BY <1>1, <1>2, <1>3, <1>4, <1>5 DEF QuietActions

\* A run that ends counts on, too.
LEMMA EndingNumbers ==
  ASSUME Base, NEW r \in RunId, NEW s \in Terminal, Ending(r, s), Numbered(run[r])
  PROVE  Numbered(run'[r]) /\ run'[r].next > 1 /\ run'[r].next = run[r].next + 1
<1>. DEFINE R == [run EXCEPT ![r].state = s]
<1>1. run \in [RunId -> RunType]  BY DEF Base, Types
<1>2. R \in [RunId -> RunType]  BY <1>1, TerminalTypes, RunExcept
<1>3. R[r].events = run[r].events /\ R[r].next = run[r].next  BY <1>1 DEF RunType
<1>. HIDE DEF R
<1>4. Numbered(R[r])  BY <1>3 DEF Numbered
<1>5. run' = Appended(R, r, s)  BY DEF Ending, R
<1>6. Numbered(run'[r]) /\ run'[r].next > 1 /\ run'[r].next = R[r].next + 1
  BY <1>2, <1>4, <1>5, TerminalTypes, NumberedAppend
<1>. QED  BY <1>3, <1>6

\* Emit keeps NumberInv.
LEMMA EmitNumber == ASSUME Base, Control, NumberInv, Emit PROVE NumberInv'
<1>1. PICK r \in RunId :
      /\ r = Head(script).run /\ r \in Retained /\ Head(script).what \in EventType
      /\ run' = Appended(run, r, Head(script).what) /\ run' \in [RunId -> RunType]
      /\ \A q \in RunId \ {r} : run'[q] = run[q]
      /\ Retained' = Retained /\ Persisted(order, run')
      /\ UNCHANGED <<order, boot>>
  BY EmitFacts DEF Control, Active
<1>2. run \in [RunId -> RunType]  BY DEF Base, Types
<1>3. Numbered(run'[r]) /\ run'[r].next > 1  BY <1>1, <1>2, NumberedAppend DEF NumberInv
<1>4. ASSUME NEW q \in Retained PROVE Numbered(run'[q]) /\ run'[q].next > 1
  <2>1. CASE q = r  BY <1>3, <2>1
  <2>2. CASE q # r
    <3>1. run'[q] = run[q]  BY <1>1, <2>2, RetainedType DEF Base
    <3>2. ~EmitsNext(q)  BY <1>1, <2>2 DEF EmitsNext
    <3>3. Numbered(run[q]) /\ run[q].next > 1  BY <3>2, HasEvents
    <3>. QED  BY <3>1, <3>3
  <2>. QED  BY <2>1, <2>2
<1>5. \A i \in DOMAIN disk' : Numbered(disk'[i]) /\ disk'[i].next > 1
  BY <1>1, <1>4, NumberSaved DEF Base, Types, Distinct, Retained
<1>. QED  BY <1>1, <1>4, <1>5 DEF NumberInv

\* Submit keeps NumberInv.
LEMMA SubmitNumber == ASSUME Base, Control, NumberInv, Submit PROVE NumberInv'
<1>1. /\ Head(script).do = "submit" /\ Persisted(order, run) /\ Retained' = Retained
      /\ UNCHANGED <<order, run, boot>>
  BY SubmitFacts DEF Control
<1>2. \A q \in Retained : Numbered(run[q]) /\ run[q].next > 1
  <2>1. \A q \in Retained : ~EmitsNext(q)  BY <1>1 DEF EmitsNext
  <2>. QED  BY <2>1, HasEvents
<1>3. \A i \in DOMAIN disk' : Numbered(disk'[i]) /\ disk'[i].next > 1
  BY <1>1, <1>2, NumberSaved DEF Base, Types, Distinct, Retained
<1>. QED  BY <1>1, <1>2, <1>3 DEF NumberInv

\* Finish keeps NumberInv.
LEMMA FinishNumber == ASSUME Base, Control, NumberInv, Finish PROVE NumberInv'
<1>1. PICK r \in RunId, s \in Terminal :
      /\ Head(script).do = "finish"
      /\ \/ IsOver(run, r) /\ UNCHANGED <<order, run, journal, arts, leased>>
         \/ ~IsOver(run, r) /\ Ending(r, s)
      /\ boot' = boot
  BY FinishFacts DEF Control
<1>2. \A q \in Retained : Numbered(run[q]) /\ run[q].next > 1
  <2>1. \A q \in Retained : ~EmitsNext(q)  BY <1>1 DEF EmitsNext
  <2>. QED  BY <2>1, HasEvents
<1>3. CASE IsOver(run, r) /\ UNCHANGED <<order, run, journal, arts, leased>>
  <2>1. Retained' = Retained  BY <1>3 DEF Retained
  <2>. QED  BY <1>1, <1>2, <1>3, <2>1 DEF NumberInv, journal
<1>4. CASE ~IsOver(run, r) /\ Ending(r, s)
  <2>1. /\ run' \in [RunId -> RunType] /\ \A q \in RunId \ {r} : run'[q] = run[q]
        /\ Retained' \subseteq Retained
    BY <1>4, EndingFacts
  <2>2. Persisted(order, run')  BY <1>4 DEF Ending
  <2>3. ASSUME NEW q \in Retained PROVE Numbered(run'[q]) /\ run'[q].next > 1
    <3>1. CASE q = r  BY <1>2, <1>4, <3>1, EndingNumbers
    <3>2. CASE q # r
      <4>1. run'[q] = run[q]  BY <2>1, <3>2, RetainedType DEF Base
      <4>. QED  BY <1>2, <4>1
    <3>. QED  BY <3>1, <3>2
  <2>4. \A i \in DOMAIN disk' : Numbered(disk'[i]) /\ disk'[i].next > 1
    BY <2>1, <2>2, <2>3, NumberSaved DEF Base, Types, Distinct, Retained
  <2>. QED  BY <1>1, <2>1, <2>3, <2>4 DEF NumberInv
<1>. QED  BY <1>1, <1>3, <1>4

\* Create keeps NumberInv.
LEMMA CreateNumber == ASSUME Base, Control, NumberInv, NEW r \in RunId, Create(r) PROVE NumberInv'
<1>1. /\ script = <<>> /\ run'[r] = NewRun /\ \A q \in RunId \ {r} : run'[q] = run[q]
      /\ Retained' \subseteq Retained \cup {r}
      /\ script' = <<Step("emit", r, "created"), Step("emit", r, "resolved"), Step("submit", r, "")>>
      /\ UNCHANGED <<boot, disk>>
  BY CreateFacts DEF process, journal
<1>2. EmitsNext(r)'
  <2>1. \A a, b, c : <<a, b, c>> # <<>> /\ Head(<<a, b, c>>) = a  OBVIOUS
  <2>2. script' # <<>> /\ Head(script') = Step("emit", r, "created")
    BY <1>1, <2>1, Zenon
  <2>3. Step("emit", r, "created").do = "emit" /\ Step("emit", r, "created").run = r  BY DEF Step
  <2>. QED  BY <2>2, <2>3 DEF EmitsNext
<1>3. Numbered(run'[r])
  <2>1. NewRun.events = <<>> /\ NewRun.next = 1  BY DEF NewRun, NoRun
  <2>2. DOMAIN NewRun.events = {} /\ Len(NewRun.events) = 0  BY <2>1
  <2>3. Numbered(NewRun)
    <3>1. \A i \in DOMAIN NewRun.events :
            NewRun.events[i].seq = NewRun.next - 1 - Len(NewRun.events) + i
      BY <2>2
    <3>2. Len(NewRun.events) < NewRun.next /\ ~(NewRun.next > 1)  BY <2>1, <2>2
    <3>. QED  BY <3>1, <3>2 DEF Numbered
  <2>. QED  BY <1>1, <2>3
<1>4. ASSUME NEW q \in Retained, q # r PROVE Numbered(run'[q]) /\ run'[q].next > 1
  <2>1. run'[q] = run[q]  BY <1>1, <1>4, RetainedType DEF Base
  <2>2. ~EmitsNext(q)  BY <1>1 DEF EmitsNext
  <2>3. Numbered(run[q]) /\ run[q].next > 1  BY <2>2, HasEvents
  <2>. QED  BY <2>1, <2>3
<1>. QED  BY <1>1, <1>2, <1>3, <1>4 DEF NumberInv

\* ... so the numbers stay.
LEMMA QuietNumber == ASSUME Base, NumberInv, Quiet PROVE NumberInv'
<1>1. /\ Retained' = Retained /\ UNCHANGED <<boot, disk>>
      /\ \A q \in RunId : run'[q].events = run[q].events /\ run'[q].next = run[q].next
      /\ script = <<>> \/ UNCHANGED script
  BY DEF Quiet, journal
<1>2. ASSUME NEW q \in Retained
      PROVE  Numbered(run'[q]) /\ (run'[q].next > 1 \/ EmitsNext(q)')
  <2>1. run'[q].events = run[q].events /\ run'[q].next = run[q].next
    BY <1>1, RetainedType DEF Base
  <2>2. Numbered(run'[q])  BY <2>1 DEF NumberInv, Numbered
  <2>3. run[q].next > 1 \/ (EmitsNext(q) /\ UNCHANGED script)
    BY <1>1 DEF NumberInv, EmitsNext
  <2>. QED  BY <2>1, <2>2, <2>3 DEF EmitsNext
<1>. QED  BY <1>1, <1>2 DEF NumberInv

\* RestoreRow keeps NumberInv.
LEMMA RestoreRowNumber == ASSUME Base, NumberInv, RestoreRow PROVE NumberInv'
<1>1. PICK row \in RowType :
      /\ stage = "restoring" /\ row = Head(boot) /\ row.id \in RunId /\ row = boot[1]
      /\ order' \in Seq(RunId) /\ IsInjective(order')
      /\ Retained' = Retained \cup {row.id} /\ row.id \notin Retained
      /\ \/ /\ row.state \in Terminal
            /\ run' = [run EXCEPT ![row.id] = Loaded(row)] /\ UNCHANGED journal
         \/ /\ row.state \notin Terminal
            /\ run' = Appended([run EXCEPT ![row.id] = Interrupted(row)], row.id, "failed")
            /\ Persisted(order', run')
      /\ run' \in [RunId -> RunType]
  BY RestoreRowCases
<1>2. /\ Len(boot) \in Nat \ {0} /\ DOMAIN boot' = 1..(Len(boot) - 1)
      /\ \A i \in DOMAIN boot' : boot'[i] = boot[i+1] /\ i + 1 \in DOMAIN boot
  BY RestoreRowCases
<1>3. DOMAIN boot = 1..Len(boot)  BY DEF Base, Types
<1>4. /\ Numbered(row) /\ row.next > 1
      /\ \A i \in DOMAIN boot' : Numbered(boot'[i]) /\ boot'[i].next > 1
  BY <1>1, <1>2, <1>3 DEF NumberInv
<1>5. run \in [RunId -> RunType] /\ script = <<>>  BY <1>1 DEF Base, Types, AtRest
<1>. DEFINE x == row.id
<1>6. /\ \A q \in RunId \ {x} : run'[q] = run[q]
      /\ Numbered(run'[x]) /\ run'[x].next > 1
  <2>1. CASE run' = [run EXCEPT ![row.id] = Loaded(row)]
    <3>1. run'[x] = Loaded(row) /\ \A q \in RunId \ {x} : run'[q] = run[q]
      BY <1>1, <1>5, <2>1
    <3>2. Loaded(row).events = row.events /\ Loaded(row).next = row.next
      BY DEF Loaded, NoRun
    <3>3. Numbered(Loaded(row))  BY <1>4, <3>2 DEF Numbered
    <3>. QED  BY <1>4, <3>1, <3>2, <3>3
  <2>2. CASE run' = Appended([run EXCEPT ![row.id] = Interrupted(row)], row.id, "failed")
    <3>. DEFINE R == [run EXCEPT ![x] = Interrupted(row)]
    <3>1. R \in [RunId -> RunType] /\ R[x] = Interrupted(row) /\ \A q \in RunId \ {x} : R[q] = run[q]
      BY <1>1, <1>5, LoadedType, RunExcept
    <3>2. Interrupted(row).events = row.events /\ Interrupted(row).next = row.next
      BY DEF Interrupted, Loaded, NoRun
    <3>3. "failed" \in EventType  BY DEF EventType, Terminal
    <3>. HIDE DEF R
    <3>4. run' = Appended(R, x, "failed")  BY <2>2 DEF R
    <3>5. Numbered(R[x])  BY <1>4, <3>1, <3>2 DEF Numbered
    <3>6. SameButEvents(R, run', x)  BY <1>1, <3>1, <3>3, <3>4, AppendedFacts
    <3>7. Numbered(run'[x]) /\ run'[x].next > 1
      BY <1>1, <3>1, <3>3, <3>4, <3>5, NumberedAppend
    <3>. QED  BY <3>1, <3>6, <3>7 DEF SameButEvents
  <2>. QED  BY <1>1, <2>1, <2>2
<1>7. ASSUME NEW q \in Retained' PROVE Numbered(run'[q]) /\ run'[q].next > 1
  <2>1. CASE q = x  BY <1>6, <2>1
  <2>2. CASE q # x
    <3>1. q \in Retained /\ q \in RunId  BY <1>1, <2>2, RetainedType DEF Base
    <3>2. run'[q] = run[q] /\ ~EmitsNext(q)  BY <1>5, <1>6, <2>2, <3>1 DEF EmitsNext
    <3>. QED  BY <3>1, <3>2, HasEvents
  <2>. QED  BY <2>1, <2>2
<1>8. \A i \in DOMAIN disk' : Numbered(disk'[i]) /\ disk'[i].next > 1
  <2>1. CASE UNCHANGED journal  BY <2>1 DEF NumberInv, journal
  <2>2. CASE Persisted(order', run')
    <3>1. \A q \in ToSet(order') : Numbered(run'[q]) /\ run'[q].next > 1  BY <1>7 DEF Retained
    <3>. QED  BY <1>1, <2>2, <3>1, NumberSaved
  <2>. QED  BY <1>1, <2>1, <2>2
<1>. QED  BY <1>4, <1>7, <1>8 DEF NumberInv

\* A crash and the restart after it.
LEMMA ProcessNumber ==
  ASSUME Base, NumberInv, Crash \/ Exit \/ Restart \/ Restored
  PROVE  NumberInv'
<1>1. CASE Crash \/ Exit
  <2>1. /\ Retained' = {} /\ DOMAIN boot' = {} /\ disk' = disk
    BY <1>1 DEF Crash, Exit, Gone, Retained, ToSet
  <2>. QED  BY <2>1 DEF NumberInv
<1>2. CASE Restart
  <2>1. Retained' = {} /\ boot' = disk /\ disk' = disk
    BY <1>2 DEF Restart, Base, AtRest, Retained, ToSet, journal
  <2>. QED  BY <2>1 DEF NumberInv
<1>3. CASE Restored
  <2>1. /\ order' = Pruned(order, run) /\ Persisted(order', run) /\ script = <<>>
        /\ UNCHANGED <<run, boot>>
    BY <1>3 DEF Restored, Base, AtRest
  <2>2. order \in Seq(RunId) /\ IsInjective(order) /\ run \in [RunId -> RunType]
    BY DEF Base, Types, Distinct
  <2>3. order' \in Seq(RunId) /\ IsInjective(order') /\ Retained' \subseteq Retained
    BY <2>1, <2>2, PrunedFacts DEF Retained
  <2>4. \A q \in Retained' : Numbered(run[q]) /\ run[q].next > 1
    <3>1. \A q \in Retained : ~EmitsNext(q)  BY <2>1 DEF EmitsNext
    <3>. QED  BY <2>3, <3>1, HasEvents
  <2>5. \A q \in ToSet(order') : Numbered(run[q]) /\ run[q].next > 1  BY <2>4 DEF Retained
  <2>6. \A i \in DOMAIN disk' : Numbered(disk'[i]) /\ disk'[i].next > 1
    BY <2>1, <2>2, <2>3, <2>5, NumberSaved
  <2>. QED  BY <2>1, <2>4, <2>6 DEF NumberInv
<1>. QED  BY <1>1, <1>2, <1>3

\* NumberInv is inductive, given the layers before it.
LEMMA NumberStep == Base /\ Control /\ NumberInv /\ [Next]_vars => NumberInv'
<1>. SUFFICES ASSUME Base, Control, NumberInv, [Next]_vars PROVE NumberInv'  OBVIOUS
<1>. QED  BY ActionCases, EmitNumber, SubmitNumber, FinishNumber, CreateNumber, QuietFacts,
             QuietNumber, RestoreRowNumber, ProcessNumber DEF QuietActions

\* A stream has seen no event that its run has not had, and one that ended has
\* seen the last.
SubOk(c) ==
  sub[c].phase # "off" =>
    /\ sub[c].run \in RunId
    /\ sub[c].run \in Retained => sub[c].after < run[sub[c].run].next
    /\ sub[c].run \in Retained /\ sub[c].phase = "ended" =>
         IsOver(run, sub[c].run) /\ sub[c].after = run[sub[c].run].next - 1

SubInv == \A c \in Client : SubOk(c)

\* Nobody reads yet.
LEMMA InitSub == Init => SubInv
BY DEF Init, SubInv, SubOk, NoSub

\* What changes a stream's run keeps the stream in order.
LEMMA SubKept ==
  ASSUME Base, SubInv, UNCHANGED sub,
         NEW c \in Client,
         sub[c].run \in Retained' => sub[c].run \in Retained,
         sub[c].run \in Retained' =>
           \/ /\ run'[sub[c].run].next = run[sub[c].run].next
              /\ IsOver(run, sub[c].run) => IsOver(run', sub[c].run)
           \/ /\ run'[sub[c].run].next = run[sub[c].run].next + 1
              /\ ~IsOver(run, sub[c].run)
  PROVE  SubOk(c)'
<1>1. sub \in [Client -> SubType] /\ run \in [RunId -> RunType]  BY DEF Base, Types
<1>2. sub[c].after \in Nat  BY <1>1 DEF SubType
<1>3. SubOk(c) /\ sub' = sub  BY DEF SubInv
<1>4. sub[c].run \in RunId => run[sub[c].run].next \in Nat  BY <1>1 DEF RunType
<1>. DEFINE s == sub[c]
<1>. HIDE DEF s
<1>. QED  BY <1>2, <1>3, <1>4 DEF SubOk

\* The holder of the lock changes a run somebody follows.
LEMMA HolderSub ==
  ASSUME Base, Control, SubInv, Emit \/ Submit \/ Finish
  PROVE  SubInv'
<1>0. run \in [RunId -> RunType] /\ Retained \subseteq RunId
  BY RetainedType DEF Base, Types
<1>1. CASE Emit
  <2>1. PICK r \in RunId :
        /\ r = Head(script).run /\ r \in Active /\ Head(script).what \in EventType
        /\ run' = Appended(run, r, Head(script).what)
        /\ \A q \in RunId \ {r} : run'[q] = run[q]
        /\ Retained' = Retained /\ UNCHANGED sub
    BY <1>1, EmitFacts DEF Control
  <2>2. run'[r].next = run[r].next + 1 /\ ~IsOver(run, r)
    BY <1>0, <2>1, AppendedFacts DEF SameButEvents, Active
  <2>3. ASSUME NEW c \in Client PROVE SubOk(c)'
    <3>1. CASE sub[c].run = r  BY <2>1, <2>2, <3>1, SubKept
    <3>2. CASE sub[c].run # r
      <4>1. sub[c].run \in Retained => run'[sub[c].run] = run[sub[c].run]
        BY <1>0, <2>1, <3>2
      <4>. QED  BY <2>1, <4>1, SubKept DEF IsOver
    <3>. QED  BY <3>1, <3>2
  <2>. QED  BY <2>3 DEF SubInv
<1>2. CASE Submit
  <2>1. Retained' = Retained /\ UNCHANGED <<run, sub>>  BY <1>2, SubmitFacts DEF Control
  <2>. QED  BY <2>1, SubKept DEF SubInv
<1>3. CASE Finish
  <2>1. PICK r \in RunId, s \in Terminal :
        /\ \/ IsOver(run, r) /\ UNCHANGED <<order, run, journal, arts, leased>>
           \/ ~IsOver(run, r) /\ Ending(r, s)
        /\ UNCHANGED sub
    BY <1>3, FinishFacts DEF Control
  <2>2. CASE UNCHANGED <<order, run, journal, arts, leased>>
    <3>1. Retained' = Retained  BY <2>2 DEF Retained
    <3>. QED  BY <2>1, <2>2, <3>1, SubKept DEF SubInv
  <2>3. CASE ~IsOver(run, r) /\ Ending(r, s)
    <3>1. /\ \A q \in RunId \ {r} : run'[q] = run[q]
          /\ Retained' \subseteq Retained
      BY <2>3, EndingFacts
    <3>2. run'[r].next = run[r].next + 1
      <4>. DEFINE R == [run EXCEPT ![r].state = s]
      <4>1. R \in [RunId -> RunType] /\ R[r].next = run[r].next
        BY <1>0, TerminalTypes, RunExcept DEF RunType
      <4>. HIDE DEF R
      <4>2. run' = Appended(R, r, s)  BY <2>3 DEF Ending, R
      <4>. QED  BY <4>1, <4>2, TerminalTypes, AppendedFacts DEF SameButEvents
    <3>3. ASSUME NEW c \in Client PROVE SubOk(c)'
      <4>1. CASE sub[c].run = r  BY <2>1, <2>3, <3>1, <3>2, <4>1, SubKept
      <4>2. CASE sub[c].run # r
        <5>1. sub[c].run \in Retained => run'[sub[c].run] = run[sub[c].run]
          BY <1>0, <3>1, <4>2
        <5>. QED  BY <2>1, <3>1, <5>1, SubKept DEF IsOver
      <4>. QED  BY <4>1, <4>2
    <3>. QED  BY <3>3 DEF SubInv
  <2>. QED  BY <2>1, <2>2, <2>3
<1>. QED  BY <1>1, <1>2, <1>3

\* Create keeps SubInv.
LEMMA CreateSub == ASSUME Base, Control, SubInv, NEW r \in RunId, Create(r) PROVE SubInv'
<1>0. Retained \subseteq RunId  BY RetainedType DEF Base
<1>1. /\ Fresh(r) /\ \A q \in RunId \ {r} : run'[q] = run[q]
      /\ Retained' \subseteq Retained \cup {r} /\ UNCHANGED sub
  BY CreateFacts
<1>2. ASSUME NEW c \in Client PROVE SubOk(c)'
  <2>1. sub[c].run # r  BY <1>1 DEF Fresh
  <2>2. sub[c].run \in Retained' => sub[c].run \in Retained /\ run'[sub[c].run] = run[sub[c].run]
    BY <1>0, <1>1, <2>1
  <2>. QED  BY <1>1, <2>2, SubKept DEF IsOver
<1>. QED  BY <1>2 DEF SubInv

\* Who follows a run does not notice the rest.
LEMMA QuietSub == ASSUME Base, SubInv, Quiet, UNCHANGED sub PROVE SubInv'
<1>0. Retained \subseteq RunId  BY RetainedType DEF Base
<1>1. /\ Retained' = Retained /\ Active' = Active
      /\ \A q \in RunId : run'[q].next = run[q].next
  BY DEF Quiet
<1>2. \A q \in Retained : IsOver(run, q) => IsOver(run', q)  BY <1>1 DEF Active
<1>3. ASSUME NEW c \in Client PROVE SubOk(c)'
  BY <1>0, <1>1, <1>2, SubKept
<1>. QED  BY <1>3 DEF SubInv

\* The steps of a stream.
LEMMA StreamSub ==
  ASSUME Base, NumberInv, SubInv, NEW c \in Client, StreamStep(c)
  PROVE  SubInv'
<1>0. sub \in [Client -> SubType] /\ run \in [RunId -> RunType] /\ Retained \subseteq RunId
  BY RetainedType DEF Base, Types
<1>1. Retained' = Retained /\ run' = run
  BY StreamFacts DEF Retained
<1>2. \E x : sub' = [sub EXCEPT ![c] = x]
  BY DEF StreamStep, Stream, Subscribe, Receive, Check, Leave
<1>3. ASSUME NEW d \in Client, d # c PROVE SubOk(d)'
  <2>1. sub'[d] = sub[d]  BY <1>0, <1>2, <1>3
  <2>. QED  BY <1>1, <2>1 DEF SubInv, SubOk, IsOver
<1>4. ASSUME sub'[c] = NoSub PROVE SubOk(c)'  BY <1>4 DEF SubOk, NoSub
<1>5. Unlocked => \A r \in Retained : Numbered(run[r]) /\ run[r].next > 1 /\ run[r].next \in Nat
  <2>1. Unlocked => \A r \in Retained : ~EmitsNext(r)  BY DEF EmitsNext, Unlocked
  <2>2. \A r \in Retained : run[r].next \in Nat  BY <1>0 DEF RunType
  <2>. QED  BY <2>1, <2>2, HasEvents
<1>6. SubOk(c)'
  <2>1. ASSUME NEW r \in Retained, NEW after \in Seen(r), Subscribe(c, r, after) PROVE SubOk(c)'
    <3>1. Unlocked /\ sub'[c] = [run |-> r, after |-> after, phase |-> "wait"]
      BY <1>0, <2>1 DEF Subscribe
    <3>2. run[r].next > 1 /\ run[r].next \in Nat  BY <1>5, <3>1
    <3>3. after < run[r].next  BY <3>2 DEF Seen
    <3>. QED  BY <1>0, <1>1, <3>1, <3>3 DEF SubOk
  <2>2. CASE Receive(c)
    <3>1. /\ Unlocked /\ sub[c].phase = "wait"
          /\ sub'[c] = IF sub[c].run \notin Retained THEN NoSub
               ELSE IF Later(c) = <<>> THEN [sub[c] EXCEPT !.phase = "check"]
               ELSE [sub[c] EXCEPT !.phase = "check", !.after = Last(Later(c)).seq]
      BY <1>0, <2>2 DEF Receive
    <3>2. CASE sub[c].run \notin Retained  BY <1>4, <3>1, <3>2
    <3>3. CASE sub[c].run \in Retained /\ Later(c) = <<>>
      <4>1. sub'[c].run = sub[c].run /\ sub'[c].phase = "check" /\ sub'[c].after = sub[c].after
        BY <1>0, <3>1, <3>3 DEF SubType
      <4>. QED  BY <1>1, <3>1, <4>1 DEF SubInv, SubOk
    <3>4. CASE sub[c].run \in Retained /\ Later(c) # <<>>
      <4>. DEFINE r == sub[c].run
                  n == Last(Later(c)).seq
      <4>1. sub'[c].run = r /\ sub'[c].phase = "check" /\ sub'[c].after = n
        BY <1>0, <3>1, <3>4 DEF SubType
      <4>2. PICK i \in 1..Len(run[r].events) : n = run[r].events[i].seq /\ n \in Nat
        BY <1>0, <3>4, LaterFacts DEF Base
      <4>3. Numbered(run[r]) /\ run[r].next \in Nat /\ run[r].events \in Seq(Event) /\ r \in RunId
        BY <1>0, <1>5, <3>1, <3>4 DEF RunType
      <4>. HIDE DEF r, n
      <4>4. n < run[r].next
        <5>1. n = run[r].next - 1 - Len(run[r].events) + i  BY <4>2, <4>3 DEF Numbered
        <5>2. Len(run[r].events) \in Nat  BY <4>3
        <5>. QED  BY <4>3, <5>1, <5>2
      <4>. QED  BY <1>1, <4>1, <4>3, <4>4 DEF SubOk, r
    <3>. QED  BY <3>2, <3>3, <3>4
  <2>3. CASE Check(c)
    <3>1. /\ Unlocked /\ sub[c].phase = "check"
          /\ sub'[c] = IF sub[c].run \notin Retained THEN NoSub
               ELSE IF IsOver(run, sub[c].run) /\ Later(c) = <<>>
                    THEN [sub[c] EXCEPT !.phase = "ended"]
               ELSE [sub[c] EXCEPT !.phase = "wait"]
      BY <1>0, <2>3 DEF Check
    <3>2. CASE sub[c].run \notin Retained  BY <1>4, <3>1, <3>2
    <3>3. CASE sub[c].run \in Retained /\ ~(IsOver(run, sub[c].run) /\ Later(c) = <<>>)
      <4>1. sub'[c].run = sub[c].run /\ sub'[c].phase = "wait" /\ sub'[c].after = sub[c].after
        BY <1>0, <3>1, <3>3 DEF SubType
      <4>. QED  BY <1>1, <3>1, <4>1 DEF SubInv, SubOk
    <3>4. CASE sub[c].run \in Retained /\ IsOver(run, sub[c].run) /\ Later(c) = <<>>
      <4>. DEFINE r == sub[c].run
                  n == sub[c].after
      <4>1. sub'[c].run = r /\ sub'[c].phase = "ended" /\ sub'[c].after = n
        BY <1>0, <3>1, <3>4 DEF SubType
      <4>2. \A i \in 1..Len(run[r].events) : ~(run[r].events[i].seq > n)
        BY <1>0, <3>4, LaterFacts DEF Base
      <4>3. Numbered(run[r]) /\ run[r].next > 1 /\ run[r].next \in Nat
            /\ run[r].events \in Seq(Event) /\ r \in RunId /\ IsOver(run, r)
        BY <1>0, <1>5, <3>1, <3>4 DEF RunType
      <4>4. n < run[r].next /\ n \in Nat
        BY <1>0, <3>1, <3>4 DEF SubInv, SubOk, SubType
      <4>. HIDE DEF r, n
      <4>5. n = run[r].next - 1
        <5>. DEFINE k == Len(run[r].events)
        <5>1. k \in Nat /\ k # 0  BY <4>3 DEF Numbered
        <5>2. k \in DOMAIN run[r].events /\ k \in 1..k  BY <4>3, <5>1
        <5>3. run[r].events[k].seq = run[r].next - 1 - k + k  BY <5>2, <4>3 DEF Numbered
        <5>4. ~(run[r].events[k].seq > n)  BY <4>2, <5>2
        <5>. HIDE DEF k
        <5>. QED  BY <4>3, <4>4, <5>1, <5>3, <5>4
      <4>. QED  BY <1>1, <4>1, <4>3, <4>4, <4>5 DEF SubOk
    <3>. QED  BY <3>2, <3>3, <3>4
  <2>4. CASE Leave(c)  BY <1>0, <1>4, <2>4 DEF Leave
  <2>. QED  BY <2>1, <2>2, <2>3, <2>4 DEF StreamStep, Stream
<1>. QED  BY <1>3, <1>6 DEF SubInv

\* SubInv is inductive, given the layers before it.
LEMMA SubStep == Base /\ Control /\ NumberInv /\ SubInv /\ [Next]_vars => SubInv'
<1>. SUFFICES ASSUME Base, Control, NumberInv, SubInv, [Next]_vars PROVE SubInv'  OBVIOUS
<1>1. CASE Crash \/ Exit \/ Restart \/ RestoreRow \/ Restored
  <2>1. sub' = [c \in Client |-> NoSub]
    BY <1>1 DEF Crash, Exit, Gone, Restart, RestoreRow, Restored, Base, AtRest
  <2>. QED  BY <2>1 DEF SubInv, SubOk, NoSub
<1>2. CASE QuietActions /\ UNCHANGED sub  BY <1>2, QuietFacts, QuietSub
<1>3. CASE \/ Shutdown \/ Closed \/ Pick
           \/ \E r \in RunId : Cancel(r) \/ Begin(r) \/ Executes(r)
           \/ \E wait \in BOOLEAN : Close(wait)
  <2>1. UNCHANGED sub
    BY <1>3, CancelFacts, BeginFacts, ExecuteFacts, CloseFacts DEF Shutdown, Closed, Pick
  <2>2. QuietActions  BY <1>3 DEF QuietActions
  <2>. QED  BY <1>2, <2>1, <2>2
<1>. QED  BY <1>1, <1>2, <1>3, ActionCases, HolderSub, CreateSub, StreamSub DEF QuietActions

-----------------------------------------------------------------------------
(* What is durable is on the disk.                                         *)

\* Between a change of a run and the event that reports it, the disk is behind.
DurableInv ==
  ~jerr =>
    /\ durable \subseteq Ids(disk)
    /\ stage \in {"restoring", "down"} => durable \subseteq Retained
    /\ script = <<>> \/ Head(script).do # "emit" =>
         \A r \in durable \cap Retained : \E i \in DOMAIN disk : disk[i] = Row(run, r)

\* No run is durable yet.
LEMMA InitDurable == Init => DurableInv
BY DEF Init, DurableInv

\* A write that succeeds brings the disk up to date.
LEMMA DurableSaved ==
  ASSUME Base, NEW o \in Seq(RunId), NEW R \in [RunId -> RunType], IsInjective(o),
         Persisted(o, R), ~jerr'
  PROVE  /\ durable' \subseteq Ids(disk') /\ durable' \subseteq ToSet(o)
         /\ \A r \in durable' : \E i \in DOMAIN disk' : disk'[i] = Row(R, r)
<1>1. disk' = Rows(o, R) /\ durable' = Ids(Rows(o, R))  BY PersistedFacts DEF Base
<1>. QED  BY <1>1, RowsFacts

\* Reports and ends write the journal.
LEMMA HolderDurable ==
  ASSUME Base, Control, DurableInv, Emit \/ Submit \/ Finish
  PROVE  DurableInv'
<1>0. /\ stage \notin {"restoring", "down"} /\ order \in Seq(RunId) /\ IsInjective(order)
      /\ run \in [RunId -> RunType]
  <2>1. stage \notin {"restoring", "down"}  BY Awake DEF Emit, Submit, Finish
  <2>. QED  BY <2>1 DEF Base, Types, Distinct
<1>1. CASE Emit \/ Submit
  <2>1. stage' = stage /\ run' \in [RunId -> RunType] /\ Persisted(order, run')
    <3>1. CASE Emit  BY <3>1, EmitFacts DEF Control
    <3>2. CASE Submit
      <4>1. run' = run /\ stage' = stage /\ Persisted(order, run)
        BY <3>2, SubmitFacts DEF Control
      <4>. QED  BY <1>0, <4>1 DEF Persisted, Rows, Row
    <3>. QED  BY <1>1, <3>1, <3>2
  <2>. QED  BY <1>0, <2>1, DurableSaved DEF DurableInv
<1>2. CASE Finish
  <2>1. PICK r \in RunId, s \in Terminal :
        /\ script # <<>> /\ Head(script).do = "finish" /\ stage' = stage
        /\ \/ IsOver(run, r) /\ UNCHANGED <<order, run, journal, arts, leased>>
           \/ ~IsOver(run, r) /\ Ending(r, s)
    BY <1>2, FinishFacts DEF Control
  <2>2. CASE UNCHANGED <<order, run, journal, arts, leased>>
    <3>1. /\ Retained' = Retained /\ \A r1 : Row(run', r1) = Row(run, r1)
          /\ UNCHANGED <<disk, durable, jerr>>
      BY <2>2 DEF Retained, Row, journal
    <3>. QED  BY <1>0, <2>1, <2>2, <3>1 DEF DurableInv
  <2>3. CASE ~IsOver(run, r) /\ Ending(r, s)
    <3>1. run' \in [RunId -> RunType] /\ Persisted(order, run')
      BY <2>3, EndingFacts DEF Ending
    <3>. QED  BY <1>0, <2>1, <3>1, DurableSaved DEF DurableInv
  <2>. QED  BY <2>1, <2>2, <2>3
<1>. QED  BY <1>1, <1>2

\* The rows of the runs, the disk and what the holder of the lock does next
\* stay, or a report comes next.
LEMMA DurableKept ==
  ASSUME Base, DurableInv, stage' \notin {"restoring", "down"}, UNCHANGED journal,
         \/ script' # <<>> /\ Head(script').do = "emit"
         \/ /\ script = <<>> \/ UNCHANGED script
            /\ Retained' \subseteq Retained
            /\ \A q \in Retained' : Row(run', q) = Row(run, q)
  PROVE  DurableInv'
<1>1. disk' = disk /\ durable' = durable /\ jerr' = jerr  BY DEF journal
<1>2. CASE script' # <<>> /\ Head(script').do = "emit"
  BY <1>1, <1>2 DEF DurableInv
<1>3. CASE /\ script = <<>> \/ UNCHANGED script
           /\ Retained' \subseteq Retained
           /\ \A q \in Retained' : Row(run', q) = Row(run, q)
  <2>1. ASSUME ~jerr', script' = <<>> \/ Head(script').do # "emit",
               NEW r \in durable' \cap Retained'
        PROVE  \E i \in DOMAIN disk' : disk'[i] = Row(run', r)
    <3>1. r \in durable \cap Retained /\ Row(run', r) = Row(run, r)  BY <1>1, <1>3, <2>1
    <3>2. script = <<>> \/ Head(script).do # "emit"  BY <1>3, <2>1
    <3>3. PICK i \in DOMAIN disk : disk[i] = Row(run, r)
      BY <1>1, <2>1, <3>1, <3>2 DEF DurableInv
    <3>. QED  BY <1>1, <3>1, <3>3
  <2>. QED  BY <1>1, <2>1 DEF DurableInv
<1>. QED  BY <1>2, <1>3

\* The head of a short tuple.
LEMMA HeadOf ==
  ASSUME NEW a
  PROVE  /\ <<a>> # <<>> /\ Head(<<a>>) = a
         /\ \A b : <<a, b>> # <<>> /\ Head(<<a, b>>) = a
         /\ \A b, c : <<a, b, c>> # <<>> /\ Head(<<a, b, c>>) = a
OBVIOUS

\* The first step that a method leaves reports.
LEMMA ReportsFirst ==
  ASSUME NEW r, NEW x,
         \/ script' = <<Step("emit", r, x)>>
         \/ \E b : script' = <<Step("emit", r, x), b>>
         \/ \E b, c : script' = <<Step("emit", r, x), b, c>>
  PROVE  script' # <<>> /\ Head(script').do = "emit"
<1>. DEFINE first == Step("emit", r, x)
<1>1. first.do = "emit"  BY DEF Step
<1>. HIDE DEF first
<1>2. CASE script' = <<first>>  BY <1>1, <1>2, HeadOf
<1>3. CASE \E b : script' = <<first, b>>
  <2>1. PICK b : script' = <<first, b>>  BY <1>3
  <2>2. <<first, b>> # <<>> /\ Head(<<first, b>>) = first  BY HeadOf
  <2>. QED  BY <1>1, <2>1, <2>2
<1>4. CASE \E b, c : script' = <<first, b, c>>
  <2>1. PICK b, c : script' = <<first, b, c>>  BY <1>4
  <2>2. <<first, b, c>> # <<>> /\ Head(<<first, b, c>>) = first  BY HeadOf
  <2>. QED  BY <1>1, <2>1, <2>2
<1>. QED  BY <1>2, <1>3, <1>4, Zenon DEF first

\* What create, cancel, close and a thread do is reported next.
LEMMA CallerDurable ==
  ASSUME Base, Control, DurableInv,
         \/ \E r \in RunId : Create(r) \/ Cancel(r) \/ Begin(r) \/ Executes(r)
         \/ \E wait \in BOOLEAN : Close(wait)
  PROVE  DurableInv'
<1>0. stage \notin {"restoring", "down"}
  BY Awake, ExecuteFacts DEF Create, Cancel, Begin, Close, Executing
<1>1. ASSUME NEW r \in RunId, Create(r) PROVE DurableInv'
  <2>1. UNCHANGED <<stage, journal>>  BY <1>1, CreateFacts DEF process
  <2>2. \E b, c : script' = <<Step("emit", r, "created"), b, c>>  BY <1>1, CreateFacts
  <2>3. script' # <<>> /\ Head(script').do = "emit"  BY <2>2, ReportsFirst
  <2>. QED  BY <1>0, <2>1, <2>3, DurableKept
<1>2. ASSUME NEW r \in RunId, Cancel(r) PROVE DurableInv'
  <2>1. UNCHANGED <<stage, journal>>  BY <1>2, CancelFacts DEF process
  <2>2. script' # <<>> /\ Head(script').do = "emit"  BY <1>2, CancelFacts, ReportsFirst
  <2>. QED  BY <1>0, <2>1, <2>2, DurableKept
<1>3. ASSUME NEW r \in RunId, Begin(r) PROVE DurableInv'
  <2>1. UNCHANGED <<stage, journal>> /\ Retained' = Retained /\ script = <<>>
    BY <1>3, BeginFacts DEF process
  <2>2. CASE script' = <<Step("emit", r, "started")>>
    BY <1>0, <2>1, <2>2, ReportsFirst, DurableKept
  <2>3. CASE UNCHANGED run
    <3>1. \A q : Row(run', q) = Row(run, q)  BY <2>3 DEF Row
    <3>. QED  BY <1>0, <2>1, <3>1, DurableKept
  <2>. QED  BY <1>3, <2>2, <2>3, BeginFacts
<1>4. ASSUME NEW r \in RunId, Executes(r) PROVE DurableInv'
  <2>1. /\ UNCHANGED <<stage, journal>> /\ Retained' = Retained
        /\ \A q \in RunId \ {r} : run'[q] = run[q]
        /\ \A q \in RunId : /\ run'[q].state = run[q].state /\ run'[q].events = run[q].events
                            /\ run'[q].next = run[q].next
    BY <1>4, ExecuteFacts DEF process
  <2>2. \/ UNCHANGED <<script, run>>
        \/ script = <<>> /\ UNCHANGED run
        \/ script = <<>> /\ run'[r].error = run[r].error
        \/ script' # <<>> /\ Head(script').do = "emit"
    BY <1>4, ExecuteFacts, ReportsFirst
  <2>3. UNCHANGED run => run'[r].error = run[r].error  OBVIOUS
  <2>4. CASE run'[r].error = run[r].error
    <3>1. \A q \in Retained : Row(run', q) = Row(run, q)
      BY <2>1, <2>4, RetainedType DEF Row, Base
    <3>2. \/ script = <<>> \/ UNCHANGED script
          \/ script' # <<>> /\ Head(script').do = "emit"
      BY <2>2
    <3>. QED  BY <1>0, <2>1, <3>1, <3>2, DurableKept
  <2>5. CASE script' # <<>> /\ Head(script').do = "emit"
    BY <1>0, <2>1, <2>5, DurableKept
  <2>. QED  BY <2>2, <2>3, <2>4, <2>5
<1>5. ASSUME NEW wait \in BOOLEAN, Close(wait) PROVE DurableInv'
  <2>1. /\ script = <<>> /\ stage' = "closing" /\ UNCHANGED journal /\ Retained' = Retained
        /\ \A q \in RunId \ Active : run'[q] = run[q]
        /\ DOMAIN script' = DOMAIN closing'.runs
        /\ \A i \in DOMAIN script' : script'[i] = Step("emit", closing'.runs[i], "cancelling")
        /\ script' = <<>> => Active = {}
    BY <1>5, CloseFacts
  <2>2. CASE script' = <<>>
    <3>1. \A q \in Retained : Row(run', q) = Row(run, q)
      BY <2>1, <2>2, RetainedType DEF Row, Base
    <3>. QED  BY <2>1, <3>1, DurableKept
  <2>3. CASE script' # <<>>
    <3>1. script' \in Seq(StepType)
      <4>1. Base'  BY <1>5, CloseBase
      <4>. QED  BY <4>1 DEF Base, Types
    <3>2. 1 \in DOMAIN script' /\ Head(script') = script'[1]  BY <2>3, <3>1
    <3>3. script'[1] = Step("emit", closing'.runs[1], "cancelling")  BY <2>1, <3>2
    <3>4. \A q, x : Step("emit", q, x).do = "emit"  BY DEF Step
    <3>5. Head(script').do = "emit"  BY <3>2, <3>3, <3>4, Zenon
    <3>. QED  BY <2>1, <2>3, <3>5, DurableKept
  <2>. QED  BY <2>2, <2>3
<1>. QED  BY <1>1, <1>2, <1>3, <1>4, <1>5

\* The rest of close and of the threads changes no row.
LEMMA OtherDurable ==
  ASSUME Base, DurableInv, Shutdown \/ Closed \/ Pick \/ Idle
  PROVE  DurableInv'
<1>1. CASE Shutdown \/ Closed
  <2>1. /\ script = <<>> /\ stage' \notin {"restoring", "down"}
        /\ UNCHANGED <<journal, run, order>>
    BY <1>1 DEF Shutdown, Closed
  <2>2. Retained' = Retained /\ \A q : Row(run', q) = Row(run, q)
    BY <2>1 DEF Retained, Row
  <2>. QED  BY <2>1, <2>2, DurableKept
<1>2. CASE Pick \/ Idle
  <2>1. UNCHANGED <<order, run, script, stage, disk, durable, jerr>>
    BY <1>2 DEF Pick, Idle, process, journal
  <2>2. Retained' = Retained /\ \A q : Row(run', q) = Row(run, q)
    BY <2>1 DEF Retained, Row
  <2>. QED  BY <2>1, <2>2 DEF DurableInv
<1>. QED  BY <1>1, <1>2

\* RestoreRow keeps DurableInv.
LEMMA RestoreRowDurable == ASSUME Base, DurableInv, RestoreRow PROVE DurableInv'
<1>1. PICK row \in RowType :
      /\ stage = "restoring" /\ stage' = stage /\ row.id \in RunId /\ script' = script
      /\ order' \in Seq(RunId) /\ IsInjective(order')
      /\ Retained' = Retained \cup {row.id} /\ row.id \notin Retained
      /\ \/ run' = [run EXCEPT ![row.id] = Loaded(row)] /\ UNCHANGED journal
         \/ Persisted(order', run')
      /\ run' \in [RunId -> RunType]
  BY RestoreRowCases
<1>2. script = <<>> /\ run \in [RunId -> RunType] /\ Retained \subseteq RunId
  BY <1>1, RetainedType DEF Base, Types, AtRest
<1>3. CASE run' = [run EXCEPT ![row.id] = Loaded(row)] /\ UNCHANGED journal
  <2>1. UNCHANGED <<disk, durable, jerr>>  BY <1>3 DEF journal
  <2>2. \A q \in Retained : Row(run', q) = Row(run, q)
    <3>1. \A q \in Retained : run'[q] = run[q]  BY <1>1, <1>2, <1>3
    <3>. QED  BY <3>1 DEF Row
  <2>3. ASSUME ~jerr
        PROVE  /\ durable \subseteq Ids(disk) /\ durable \subseteq Retained
               /\ \A r \in durable \cap Retained : \E i \in DOMAIN disk : disk[i] = Row(run, r)
    BY <1>1, <1>2, <2>3 DEF DurableInv
  <2>4. ASSUME ~jerr', NEW r \in durable' \cap Retained'
        PROVE  \E i \in DOMAIN disk' : disk'[i] = Row(run', r)
    <3>1. r \in durable \cap Retained  BY <2>1, <2>3, <2>4
    <3>2. PICK i \in DOMAIN disk : disk[i] = Row(run, r)  BY <2>1, <2>3, <2>4, <3>1
    <3>. QED  BY <2>1, <2>2, <3>1, <3>2
  <2>. QED  BY <1>1, <2>1, <2>3, <2>4 DEF DurableInv
<1>4. CASE Persisted(order', run')
  <2>1. ASSUME ~jerr'
        PROVE  /\ durable' \subseteq Ids(disk') /\ durable' \subseteq Retained'
               /\ \A r \in durable' : \E i \in DOMAIN disk' : disk'[i] = Row(run', r)
    BY <1>1, <1>4, <2>1, DurableSaved DEF Retained
  <2>. QED  BY <2>1 DEF DurableInv
<1>. QED  BY <1>1, <1>3, <1>4

\* A crash, a restart and the end of the recovery.
LEMMA ProcessDurable ==
  ASSUME Base, DurableInv, Crash \/ Exit \/ Restart \/ Restored
  PROVE  DurableInv'
<1>1. CASE Crash \/ Exit
  BY <1>1 DEF Crash, Exit, Gone, DurableInv
<1>2. CASE Restart
  <2>1. /\ stage = "down" /\ UNCHANGED <<order, disk, durable, jerr>> /\ order = <<>>
    BY <1>2 DEF Restart, Base, AtRest, journal
  <2>2. Retained = {} /\ Retained' = {}  BY <2>1 DEF Retained, ToSet
  <2>. QED  BY <2>1, <2>2 DEF DurableInv
<1>3. CASE Restored
  <2>1. /\ order' = Pruned(order, run) /\ Persisted(order', run) /\ stage' = "open"
        /\ UNCHANGED run
    BY <1>3 DEF Restored
  <2>2. order \in Seq(RunId) /\ IsInjective(order) /\ run \in [RunId -> RunType]
    BY DEF Base, Types, Distinct
  <2>3. order' \in Seq(RunId) /\ IsInjective(order')
    BY <2>1, <2>2, PrunedFacts
  <2>4. ASSUME ~jerr'
        PROVE  /\ durable' \subseteq Ids(disk')
               /\ \A r \in durable' : \E i \in DOMAIN disk' : disk'[i] = Row(run, r)
    BY <2>1, <2>2, <2>3, <2>4, DurableSaved
  <2>5. \A r : Row(run', r) = Row(run, r)  BY <2>1 DEF Row
  <2>. QED  BY <2>1, <2>4, <2>5 DEF DurableInv
<1>. QED  BY <1>1, <1>2, <1>3

\* DurableInv is inductive, given the layers before it.
LEMMA DurableStep == Base /\ Control /\ DurableInv /\ [Next]_vars => DurableInv'
<1>. SUFFICES ASSUME Base, Control, DurableInv, [Next]_vars PROVE DurableInv'  OBVIOUS
<1>. QED  BY ActionCases, HolderDurable, CallerDurable, OtherDurable, RestoreRowDurable,
             ProcessDurable

\* What was checked says what it must.
LEMMA Served == NumberInv /\ SubInv /\ DurableInv => ReadersAreServed
<1>. SUFFICES ASSUME NumberInv, SubInv, DurableInv PROVE ReadersAreServed  OBVIOUS
<1>1. EventsAreContiguous  BY DEF NumberInv, Numbered, EventsAreContiguous
<1>2. DurableIsOnDisk  BY DEF DurableInv, DurableIsOnDisk, Unlocked
<1>3. StreamsAreComplete  BY DEF SubInv, SubOk, StreamsAreComplete
<1>. QED  BY <1>1, <1>2, <1>3 DEF ReadersAreServed

-----------------------------------------------------------------------------
(* The theorems.                                                           *)

\* The inductive invariant.
IInv ==
  Base /\ Control /\ EndInv /\ EveryRunHasAnEnd /\ Limits /\ NumberInv /\ SubInv /\ DurableInv

\* IInv is inductive, so it holds in every state of every behaviour.
THEOREM Invariance == Spec => []IInv
<1>1. Init => IInv
  <2>. SUFFICES ASSUME Init PROVE IInv  OBVIOUS
  <2>1. Active = {} /\ order = <<>>  BY DEF Init, Active, Retained, ToSet
  <2>2. EveryRunHasAnEnd  BY <2>1 DEF EveryRunHasAnEnd
  <2>3. Limits
    <3>1. Cardinality(Active) = 0  BY <2>1, FS_EmptySet, Zenon
    <3>. QED  BY <2>1, <3>1, LimitAssumption DEF Limits
  <2>. QED  BY <2>2, <2>3, InitBase, InitControl, InitEnd, InitNumber, InitSub, InitDurable
            DEF IInv
<1>2. IInv /\ [Next]_vars => IInv'
  BY BaseStep, ControlStep, EndStep, EveryStep, LimitsStep, NumberStep, SubStep, DurableStep
     DEF IInv
<1>. QED  BY <1>1, <1>2, PTL DEF Spec

\* The variables have their types, no more than MaxActive runs are active, and
\* no more than MaxRetained are retained.
THEOREM TypeCorrect == Spec => []TypeOK
<1>1. IInv => TypeOK  BY DEF IInv, Base, TypeOK
<1>. QED  BY <1>1, Invariance, PTL

\* Runs end once, after their executors, and completely.
THEOREM EndsInOrder == Spec => []RunsEndInOrder
<1>1. IInv => RunsEndInOrder  BY RunsEnd DEF IInv
<1>. QED  BY <1>1, Invariance, PTL

\* Somebody will end each active run.
THEOREM NoRunIsForgotten == Spec => []EveryRunHasAnEnd
<1>1. IInv => EveryRunHasAnEnd  BY DEF IInv
<1>. QED  BY <1>1, Invariance, PTL

\* Numbers lead from event to event, what is durable is on the disk, and a
\* stream that ended has delivered everything.
THEOREM ReadersTheorem == Spec => []ReadersAreServed
<1>1. IInv => ReadersAreServed  BY Served DEF IInv
<1>. QED  BY <1>1, Invariance, PTL

===============================================================================
