---------------------------- MODULE DesktopProofs ----------------------------
(***************************************************************************)
(* Proofs about the desktop program: its downloads, which it shares with   *)
(* the service, and its window.                                            *)
(*                                                                         *)
(* Downloads, for any entities of any sizes, any number of jobs and any    *)
(* number of failures, deaths and new starts: what the types are, that an  *)
(* open job has its worker, and, as long as one program at a time          *)
(* downloads the file, what the files are worth at every step.             *)
(*                                                                         *)
(* Desktop, for any models on any runtimes and any number of acts of the   *)
(* user: what a model knows is what its chat has said, and no server       *)
(* outlives the window unless the code has lost it.                        *)
(***************************************************************************)
EXTENDS Downloads, Desktop, SequenceTheorems, FiniteSetTheorems, TLAPS

-----------------------------------------------------------------------------
(* Downloads: the invariant.                                               *)

Receiving == {"count", "open", "read", "write", "end", "link"}

\* What a worker has at each of its places.
Placed(v) ==
  /\ v.phase \in Receiving => v.body \in Entity
  /\ v.phase \in {"read", "write"} => v.out \in Inode
  /\ v.phase \notin {"count", "read", "write"} => v.out = None
  /\ v.phase = "unlink" => v.then \in {"ask", "failed", "cancelled", "done"}

FileTypes ==
  /\ disk \in [Inode -> Seq(Chunk)]
  /\ part \in Inode \cup {None} /\ final \in Inode \cup {None}
  /\ meta \in Sidecar \cup {None}

Types ==
  /\ entity \in Entity
  /\ FileTypes
  /\ w \in [Program -> Worker]
  /\ \A p \in Program : Placed(w[p])
  /\ status \in [Job \cup {Window} -> {"none"} \cup Open \cup Ended]
  /\ orphans \subseteq Job \cup {Window}
  /\ reader \in {NoStream} \cup [job : Job, sent : {"nothing"} \cup Open]

JobsOf(p) == IF p = "web" THEN Job ELSE {Window}

\* A worker has an open job of its program, and every open job has a worker or
\* is an orphan.
Employed ==
  /\ \A p \in Program : Busy(p) =>
       /\ w[p].job \in JobsOf(p) \ orphans
       /\ status[w[p].job] \in Open
  /\ \A j \in orphans : status[j] \in Open
  /\ OpenJobsHaveTheirWorker

\* s is the first n chunks of e.
Beginning(s, e, n) ==
  n <= Size[e] /\ s = [i \in 1..n |-> [of |-> e, at |-> i]]

\* Whatever stops a transfer now, the next one may rely on the sidecar.
Resumable ==
  Usable /\ meta.tag # None => Beginning(disk[part], meta.tag, meta.received)

Alone == \A p, q \in Program : Busy(p) /\ Busy(q) => p = q

\* What the files are to a worker at each of its places.
Stage(v) ==
  /\ v.phase \in {"queued", "start"} => v.offset = 0
  /\ v.phase = "ask" /\ v.offset > 0 /\ v.tag # None
       => part # None /\ Beginning(disk[part], v.tag, v.offset)
  /\ v.phase \in Receiving =>
       v.next = v.got + 1 /\ v.got <= Size[v.body] /\ v.tag \in {v.body, None}
  /\ v.phase \in {"count", "open"} /\ v.out = None =>
       /\ v.got = v.offset
       /\ v.offset > 0 => part # None /\ Beginning(disk[part], v.body, v.offset)
  /\ v.phase \in {"end", "link"} \/ v.out # None =>
       part # None /\ Beginning(disk[part], v.body, v.got)
  /\ v.out \in {part, None}
  /\ v.phase \in {"open", "read", "write"} => meta = [tag |-> v.tag, received |-> v.got]
  /\ v.phase = "write" => v.next <= Size[v.body]
  /\ v.phase = "end" => v.sized \/ v.got = Size[v.body]
  /\ v.phase = "link" => v.got = Size[v.body]
  /\ v.phase = "unlink" => part = None /\ (v.then = "ask" => v.offset = 0)
  /\ v.phase = "cancelled" => part = None /\ meta = None

Files ==
  /\ Alone
  /\ part # None => part # final
  /\ PublishedIsWhole /\ Resumable
  /\ \A p \in Program : Stage(w[p])

-----------------------------------------------------------------------------
(* Steps of a worker.                                                      *)

LEMMA Constants ==
  /\ None \notin Entity /\ None \notin Inode /\ None \notin Job /\ None # Window
  /\ Window \notin Job
  /\ \A e \in Entity : Size[e] \in Nat /\ Size[e] > 0
BY SizeAssumption, JobAssumption, DownloadNone DEF Inode

LEMMA Stepped ==
  ASSUME w \in [Program -> Worker], NEW p \in Program, NEW v \in Worker, Step(p, v)
  PROVE  /\ w' \in [Program -> Worker] /\ w'[p] = v
         /\ \A q \in Program \ {p} : w'[q] = w[q]
BY DEF Step

\* What is named keeps its content.
LEMMA Swept ==
  ASSUME NEW d, d \in [Inode -> Seq(Chunk)], Sweep(d)
  PROVE  /\ disk' \in [Inode -> Seq(Chunk)]
         /\ \A i \in Inode : i \in {part', final'} => disk'[i] = d[i]
<1>1. <<>> \in Seq(Chunk)  OBVIOUS
<1>2. disk' = [i \in Inode |-> IF i \in Named' THEN d[i] ELSE <<>>]  BY DEF Sweep
<1>3. \A i \in Inode : i \in {part', final'} => i \in Named'  BY DEF Named
<1>. QED  BY <1>1, <1>2, <1>3

\* A step that takes the worker of p on, in its job.
Carries(p) ==
  /\ \E v \in Worker : /\ Step(p, v) /\ Placed(v)
                       /\ v.job = w[p].job /\ v.phase # "idle"
  /\ FileTypes'

LEMMA DiscardCarries ==
  ASSUME Types, NEW p \in Program, NEW b \in Worker, b.job = w[p].job,
         NEW then \in {"ask", "failed", "cancelled", "done"}, Discard(p, b, then)
  PROVE  Carries(p)
<1>. DEFINE v == [b EXCEPT !.phase = "unlink", !.then = then, !.out = None]
<1>1. v \in Worker  BY DEF Worker, Phase, Ended
<1>2. /\ v.phase = "unlink" /\ v.then = then /\ v.out = None /\ v.job = w[p].job
  BY DEF Worker
<1>3. Placed(v)  BY <1>2 DEF Placed, Receiving
<1>4. Step(p, v) /\ part' = None /\ UNCHANGED <<meta, final>> /\ Sweep(disk)
  BY DEF Discard
<1>5. FileTypes'  BY <1>4, Swept DEF Types, FileTypes
<1>. HIDE DEF v
<1>. QED  BY <1>1, <1>2, <1>3, <1>4, <1>5 DEF Carries

LEMMA LeaveCarries ==
  ASSUME Types, NEW p \in Program, NEW outcome \in {"failed", "cancelled"},
         Leave(p, outcome)
  PROVE  Carries(p)
<1>0. w[p] \in Worker  BY DEF Types
<1>1. CASE w[p].cancel
  BY <1>0, <1>1, DiscardCarries DEF Leave
<1>2. CASE ~w[p].cancel
  <2>. DEFINE v == [w[p] EXCEPT !.phase = outcome, !.out = None]
  <2>1. v \in Worker  BY <1>0 DEF Worker, Phase, Ended
  <2>2. v.phase = outcome /\ v.out = None /\ v.job = w[p].job  BY <1>0 DEF Worker
  <2>3. Placed(v)  BY <2>2 DEF Placed, Receiving
  <2>4. Step(p, v) /\ UNCHANGED <<part, meta, final>> /\ Sweep(disk)
    BY <1>2 DEF Leave
  <2>5. FileTypes'  BY <2>4, Swept DEF Types, FileTypes
  <2>. HIDE DEF v
  <2>. QED  BY <2>1, <2>2, <2>3, <2>4, <2>5 DEF Carries
<1>. QED  BY <1>1, <1>2

\* A worker that goes on without touching a file.
LEMMA QuietCarries ==
  ASSUME Types, NEW p \in Program, NEW v \in Worker, Step(p, v), Placed(v),
         v.job = w[p].job, v.phase # "idle", UNCHANGED files
  PROVE  Carries(p)
BY DEF Carries, files, Types, FileTypes

LEMMA StartCarries ==
  ASSUME Types, NEW p \in Program, Start(p) PROVE Carries(p)
<1>0. w[p] \in Worker /\ Placed(w[p]) /\ w[p].phase = "start"  BY DEF Types, Start
<1>1. CASE Move(p, "failed") /\ UNCHANGED files
  <2>. DEFINE v == [w[p] EXCEPT !.phase = "failed"]
  <2>1. v \in Worker  BY <1>0 DEF Worker, Phase, Ended
  <2>2. v.phase = "failed" /\ v.out = w[p].out /\ v.job = w[p].job  BY <1>0 DEF Worker
  <2>3. Placed(v)  BY <1>0, <2>2 DEF Placed, Receiving
  <2>4. Step(p, v)  BY <1>1 DEF Move
  <2>. HIDE DEF v
  <2>. QED  BY <1>1, <2>1, <2>2, <2>3, <2>4, QuietCarries
<1>2. CASE Leave(p, "cancelled")  BY <1>2, LeaveCarries
<1>3. CASE Discard(p, w[p], "ask")  BY <1>0, <1>3, DiscardCarries
<1>4. CASE /\ Usable /\ UNCHANGED files
           /\ Step(p, [w[p] EXCEPT !.phase = "ask", !.tag = meta.tag, !.offset = meta.received])
  <2>. DEFINE v == [w[p] EXCEPT !.phase = "ask", !.tag = meta.tag, !.offset = meta.received]
  <2>1. meta \in Sidecar  BY <1>4 DEF Usable, Types, FileTypes
  <2>2. v \in Worker  BY <1>0, <2>1 DEF Worker, Phase, Sidecar
  <2>3. v.phase = "ask" /\ v.out = w[p].out /\ v.job = w[p].job  BY <1>0 DEF Worker
  <2>4. Placed(v)  BY <1>0, <2>3 DEF Placed, Receiving
  <2>. HIDE DEF v
  <2>. QED  BY <1>4, <2>2, <2>3, <2>4, QuietCarries DEF v
<1>. QED  BY <1>1, <1>2, <1>3, <1>4 DEF Start

LEMMA UnlinkCarries ==
  ASSUME Types, NEW p \in Program, Unlink(p) PROVE Carries(p)
<1>0. /\ w[p] \in Worker /\ w[p].out = None
      /\ w[p].then \in {"ask", "failed", "cancelled", "done"}
  BY DEF Types, Unlink, Placed
<1>. DEFINE v == [w[p] EXCEPT !.phase = w[p].then, !.then = "idle"]
<1>1. v \in Worker  BY <1>0, ZenonT(30) DEF Worker, Phase
<1>2. v.phase = w[p].then /\ v.out = None /\ v.job = w[p].job  BY <1>0 DEF Worker
<1>3. Placed(v)  BY <1>0, <1>2 DEF Placed, Receiving
<1>4. Step(p, v) /\ FileTypes'  BY DEF Unlink, Types, FileTypes
<1>. HIDE DEF v
<1>. QED  BY <1>0, <1>1, <1>2, <1>3, <1>4 DEF Carries

LEMMA AcceptCarries ==
  ASSUME Types, NEW p \in Program, NEW from \in Nat, w[p].phase = "ask", Accept(p, from)
  PROVE  Carries(p)
<1>0. w[p] \in Worker /\ w[p].out = None /\ entity \in Entity  BY DEF Types, Placed
<1>1. PICK tag \in {entity, None}, sized \in BOOLEAN :
        Step(p, [w[p] EXCEPT !.phase = "count", !.tag = tag, !.body = entity,
                             !.next = from + 1, !.sized = sized, !.got = w[p].offset])
  BY DEF Accept
<1>. DEFINE v == [w[p] EXCEPT !.phase = "count", !.tag = tag, !.body = entity,
                              !.next = from + 1, !.sized = sized, !.got = w[p].offset]
<1>2. v \in Worker
  <2>1. w[p].offset \in Nat /\ from + 1 \in Nat  BY <1>0 DEF Worker
  <2>2. tag \in Entity \cup {None} /\ entity \in Entity \cup {None}  BY <1>0
  <2>3. "count" \in Phase  BY DEF Phase
  <2>. QED  BY <1>0, <2>1, <2>2, <2>3 DEF Worker
<1>3. v.phase = "count" /\ v.out = None /\ v.job = w[p].job /\ v.body = entity
  BY <1>0 DEF Worker
<1>4. Placed(v)  BY <1>0, <1>3 DEF Placed, Receiving
<1>5. UNCHANGED files  BY DEF Accept
<1>. HIDE DEF v
<1>. QED  BY <1>1, <1>2, <1>3, <1>4, <1>5, QuietCarries DEF v

LEMMA AskCarries ==
  ASSUME Types, NEW p \in Program, Ask(p) PROVE Carries(p)
<1>0. w[p] \in Worker /\ w[p].phase = "ask" /\ entity \in Entity  BY DEF Types, Ask
<1>1. CASE Leave(p, "failed")  BY <1>1, LeaveCarries
<1>2. CASE Accept(p, 0)  BY <1>0, <1>2, AcceptCarries
<1>3. ASSUME NEW from \in 0..Size[entity] - 1, Accept(p, from) PROVE Carries(p)
  <2>1. from \in Nat  BY <1>0, Constants
  <2>. QED  BY <1>0, <1>3, <2>1, AcceptCarries
<1>4. CASE Discard(p, [w[p] EXCEPT !.offset = 0, !.tag = None], "ask")
  <2>. DEFINE b == [w[p] EXCEPT !.offset = 0, !.tag = None]
  <2>1. b \in Worker /\ b.job = w[p].job  BY <1>0 DEF Worker
  <2>. HIDE DEF b
  <2>. QED  BY <1>4, <2>1, DiscardCarries DEF b
<1>. QED  BY <1>1, <1>2, <1>3, <1>4 DEF Ask

LEMMA CountCarries ==
  ASSUME Types, NEW p \in Program, Count(p) PROVE Carries(p)
<1>0. w[p] \in Worker /\ Placed(w[p]) /\ w[p].phase = "count"  BY DEF Types, Count
<1>1. CASE Leave(p, "failed")  BY <1>1, LeaveCarries
<1>2. CASE /\ meta' = [tag |-> w[p].tag, received |-> w[p].got]
           /\ Move(p, IF w[p].out = None THEN "open" ELSE "read")
           /\ UNCHANGED <<disk, part, final>>
  <2>. DEFINE v == [w[p] EXCEPT !.phase = IF w[p].out = None THEN "open" ELSE "read"]
  <2>1. v \in Worker  BY <1>0 DEF Worker, Phase
  <2>2. /\ v.phase = (IF w[p].out = None THEN "open" ELSE "read")
        /\ v.out = w[p].out /\ v.job = w[p].job /\ v.body = w[p].body
    BY <1>0 DEF Worker
  <2>3. w[p].out \in Inode \cup {None}  BY <1>0 DEF Worker
  <2>4. Placed(v)  BY <1>0, <2>2, <2>3 DEF Placed, Receiving
  <2>5. meta' \in Sidecar  BY <1>0, <1>2 DEF Worker, Sidecar
  <2>6. FileTypes'  BY <1>2, <2>5 DEF Types, FileTypes
  <2>7. Step(p, v)  BY <1>2 DEF Move
  <2>. HIDE DEF v
  <2>. QED  BY <2>1, <2>2, <2>4, <2>6, <2>7 DEF Carries
<1>. QED  BY <1>1, <1>2 DEF Count

\* A transfer that has no partial file open finds a place for one.
LEMMA Room ==
  ASSUME Types, NEW p \in Program, w[p].phase = "open", part = None
  PROVE  Unused \in Inode /\ Unused \notin Named
<1>1. \E i \in Inode : i \notin Named
  <2>1. w[p].out = None  BY DEF Types, Placed
  <2>2. PICK q : \A r \in Program : r = p \/ r = q  BY DEF Program
  <2>3. \A i \in Named : i \in {None, final, w[q].out}  BY <2>1, <2>2 DEF Named
  <2>4. {1, 2, 3} \subseteq Inode  BY DEF Inode
  <2>5. \E i \in {1, 2, 3} : i # final /\ i # w[q].out  OBVIOUS
  <2>. QED  BY <2>3, <2>4, <2>5, Constants
<1>. QED  BY <1>1 DEF Unused

LEMMA OpenCarries ==
  ASSUME Types, NEW p \in Program, OpenPart(p) PROVE Carries(p)
<1>0. w[p] \in Worker /\ Placed(w[p]) /\ w[p].phase = "open"  BY DEF Types, OpenPart
<1>. DEFINE i == IF part = None THEN Unused ELSE part
            kept == IF w[p].offset > 0 THEN disk[i] ELSE <<>>
            d == [disk EXCEPT ![i] = kept]
            v == [w[p] EXCEPT !.phase = "read", !.out = i]
<1>1. i \in Inode  BY <1>0, Room DEF Types, FileTypes
<1>2. d \in [Inode -> Seq(Chunk)]
  <2>1. disk \in [Inode -> Seq(Chunk)]  BY DEF Types, FileTypes
  <2>2. kept \in Seq(Chunk)  BY <1>1, <2>1
  <2>. HIDE DEF kept, i
  <2>. QED  BY <2>1, <2>2
<1>3. part' = i /\ Step(p, v) /\ UNCHANGED <<meta, final>> /\ Sweep(d)
  BY DEF OpenPart
<1>. HIDE DEF i, d
<1>4. v \in Worker  BY <1>0, <1>1 DEF Worker, Phase
<1>5. v.phase = "read" /\ v.out = i /\ v.job = w[p].job /\ v.body = w[p].body
  BY <1>0 DEF Worker
<1>6. Placed(v)  BY <1>0, <1>1, <1>5 DEF Placed, Receiving
<1>7. FileTypes'  BY <1>1, <1>2, <1>3, Swept DEF Types, FileTypes
<1>. HIDE DEF v
<1>. QED  BY <1>3, <1>4, <1>5, <1>6, <1>7 DEF Carries

LEMMA ReadCarries ==
  ASSUME Types, NEW p \in Program, Read(p) PROVE Carries(p)
<1>0. w[p] \in Worker /\ Placed(w[p]) /\ w[p].phase = "read"  BY DEF Types, Read
<1>1. CASE Leave(p, "failed") \/ Leave(p, "cancelled")  BY <1>1, LeaveCarries
<1>2. CASE Move(p, "write") /\ UNCHANGED files
  <2>. DEFINE v == [w[p] EXCEPT !.phase = "write"]
  <2>1. v \in Worker  BY <1>0 DEF Worker, Phase
  <2>2. v.phase = "write" /\ v.out = w[p].out /\ v.job = w[p].job /\ v.body = w[p].body
    BY <1>0 DEF Worker
  <2>3. Placed(v)  BY <1>0, <2>2 DEF Placed, Receiving
  <2>4. Step(p, v)  BY <1>2 DEF Move
  <2>. HIDE DEF v
  <2>. QED  BY <1>2, <2>1, <2>2, <2>3, <2>4, QuietCarries
<1>3. CASE /\ Step(p, [w[p] EXCEPT !.phase = "end", !.out = None])
           /\ UNCHANGED <<part, meta, final>> /\ Sweep(disk)
  <2>. DEFINE v == [w[p] EXCEPT !.phase = "end", !.out = None]
  <2>1. v \in Worker  BY <1>0 DEF Worker, Phase
  <2>2. v.phase = "end" /\ v.out = None /\ v.job = w[p].job /\ v.body = w[p].body
    BY <1>0 DEF Worker
  <2>3. Placed(v)  BY <1>0, <2>2 DEF Placed, Receiving
  <2>4. FileTypes'  BY <1>3, Swept DEF Types, FileTypes
  <2>. HIDE DEF v
  <2>. QED  BY <1>3, <2>1, <2>2, <2>3, <2>4 DEF Carries, v
<1>. QED  BY <1>1, <1>2, <1>3 DEF Read

LEMMA WrittenType ==
  ASSUME NEW s \in Seq(Chunk), NEW at \in Nat \ {0}, NEW c \in Chunk
  PROVE  Written(s, at, c) \in Seq(Chunk)
<1>. DEFINE n == IF at > Len(s) THEN at ELSE Len(s)
<1>1. n \in Nat /\ Hole \in Chunk  BY DEF Hole, Chunk
<1>2. \A i \in 1..n : (IF i = at THEN c ELSE IF i <= Len(s) THEN s[i] ELSE Hole) \in Chunk
  BY <1>1
<1>3. [i \in 1..n |-> IF i = at THEN c ELSE IF i <= Len(s) THEN s[i] ELSE Hole]
        \in [1..n -> Chunk]
  BY <1>2
<1>4. Written(s, at, c) \in [1..n -> Chunk]  BY <1>3 DEF Written
<1>. HIDE DEF n
<1>. QED  BY <1>1, <1>4

LEMMA WriteCarries ==
  ASSUME Types, NEW p \in Program, Write(p) PROVE Carries(p)
<1>0. w[p] \in Worker /\ Placed(w[p]) /\ w[p].phase = "write"  BY DEF Types, Write
<1>1. CASE Leave(p, "failed") \/ Leave(p, "cancelled")  BY <1>1, LeaveCarries
<1>2. CASE /\ disk' = [disk EXCEPT ![w[p].out] =
                  Written(disk[w[p].out], Place(p), [of |-> w[p].body, at |-> w[p].next])]
           /\ Step(p, [w[p] EXCEPT !.phase = "count", !.next = w[p].next + 1,
                                   !.got = w[p].got + 1])
           /\ UNCHANGED <<part, meta, final>>
  <2>. DEFINE v == [w[p] EXCEPT !.phase = "count", !.next = w[p].next + 1,
                                !.got = w[p].got + 1]
  <2>0. /\ w[p].next \in Nat /\ w[p].got \in Nat
        /\ w[p].next + 1 \in Nat /\ w[p].got + 1 \in Nat
    BY <1>0 DEF Worker
  <2>1. v \in Worker
    <3>1. "count" \in Phase  BY DEF Phase
    <3>. QED  BY <1>0, <2>0, <3>1 DEF Worker
  <2>2. v.phase = "count" /\ v.job = w[p].job /\ v.body = w[p].body
    BY <1>0 DEF Worker
  <2>3. Placed(v)  BY <1>0, <2>2 DEF Placed, Receiving
  <2>4. disk \in [Inode -> Seq(Chunk)] /\ w[p].out \in Inode /\ w[p].body \in Entity
    BY <1>0 DEF Types, FileTypes, Placed, Receiving
  <2>5. Place(p) \in Nat \ {0}  BY <2>0, <2>4 DEF Place
  <2>6. [of |-> w[p].body, at |-> w[p].next] \in Chunk  BY <2>0, <2>4 DEF Chunk
  <2>7. disk' \in [Inode -> Seq(Chunk)]
    <3>1. Written(disk[w[p].out], Place(p), [of |-> w[p].body, at |-> w[p].next]) \in Seq(Chunk)
      BY <2>4, <2>5, <2>6, WrittenType
    <3>. QED  BY <1>2, <2>4, <3>1
  <2>8. FileTypes'  BY <1>2, <2>7 DEF Types, FileTypes
  <2>. HIDE DEF v
  <2>. QED  BY <1>2, <2>1, <2>2, <2>3, <2>8 DEF Carries, v
<1>. QED  BY <1>1, <1>2 DEF Write

LEMMA EndCarries ==
  ASSUME Types, NEW p \in Program, End(p) PROVE Carries(p)
<1>0. w[p] \in Worker /\ Placed(w[p]) /\ w[p].phase = "end"  BY DEF Types, End
<1>1. CASE Leave(p, "failed") \/ Leave(p, "cancelled")  BY <1>1, LeaveCarries
<1>2. CASE Move(p, "link") /\ UNCHANGED files
  <2>. DEFINE v == [w[p] EXCEPT !.phase = "link"]
  <2>1. v \in Worker  BY <1>0 DEF Worker, Phase
  <2>2. v.phase = "link" /\ v.out = w[p].out /\ v.job = w[p].job /\ v.body = w[p].body
    BY <1>0 DEF Worker
  <2>3. Placed(v)  BY <1>0, <2>2 DEF Placed, Receiving
  <2>4. Step(p, v)  BY <1>2 DEF Move
  <2>. HIDE DEF v
  <2>. QED  BY <1>2, <2>1, <2>2, <2>3, <2>4, QuietCarries
<1>. QED  BY <1>1, <1>2 DEF End

LEMMA LinkCarries ==
  ASSUME Types, NEW p \in Program, Link(p) PROVE Carries(p)
<1>0. w[p] \in Worker /\ Placed(w[p]) /\ w[p].phase = "link"  BY DEF Types, Link
<1>1. CASE Leave(p, "failed")  BY <1>1, LeaveCarries
<1>2. CASE /\ final' = part /\ part' = None
           /\ Step(p, [w[p] EXCEPT !.phase = "unlink", !.then = "done"])
           /\ UNCHANGED <<disk, meta>>
  <2>. DEFINE v == [w[p] EXCEPT !.phase = "unlink", !.then = "done"]
  <2>1. v \in Worker  BY <1>0 DEF Worker, Phase
  <2>2. v.phase = "unlink" /\ v.then = "done" /\ v.out = w[p].out /\ v.job = w[p].job
    BY <1>0 DEF Worker
  <2>3. Placed(v)  BY <1>0, <2>2 DEF Placed, Receiving
  <2>4. FileTypes'  BY <1>2 DEF Types, FileTypes
  <2>. HIDE DEF v
  <2>. QED  BY <1>2, <2>1, <2>2, <2>3, <2>4 DEF Carries, v
<1>. QED  BY <1>1, <1>2 DEF Link

LEMMA TransferCarries ==
  ASSUME Types, NEW p \in Program, Transfer(p)
  PROVE  Break(p) \/ (Carries(p) /\ Running(p))
<1>1. Transfer(p) /\ ~Break(p) => Running(p)
  BY DEF Transfer, Start, Unlink, Ask, Count, OpenPart, Read, Write, End, Link
<1>. QED
  BY <1>1, StartCarries, UnlinkCarries, AskCarries, CountCarries, OpenCarries,
     ReadCarries, WriteCarries, EndCarries, LinkCarries DEF Transfer

-----------------------------------------------------------------------------
(* Types and jobs.                                                         *)

LEMMA IdleWorker ==
  /\ Idle \in Worker /\ Placed(Idle) /\ Idle.phase = "idle"
  /\ \A j \in Job \cup {Window}, at \in {"queued", "start"} :
       LET v == [Idle EXCEPT !.phase = at, !.job = j]
       IN v \in Worker /\ Placed(v) /\ v.job = j /\ v.phase = at
<1>1. {"idle", "queued", "start"} \subseteq Phase  BY DEF Phase
<1>2. Idle \in Worker  BY <1>1 DEF Idle, Worker
<1>3. Idle.phase = "idle" /\ Idle.out = None  BY DEF Idle
<1>4. Placed(Idle)  BY <1>3 DEF Placed, Receiving
<1>5. ASSUME NEW j \in Job \cup {Window}, NEW at \in {"queued", "start"}
      PROVE  LET v == [Idle EXCEPT !.phase = at, !.job = j]
             IN v \in Worker /\ Placed(v) /\ v.job = j /\ v.phase = at
  <2>. DEFINE v == [Idle EXCEPT !.phase = at, !.job = j]
  <2>1. v \in Worker  BY <1>1, <1>2 DEF Worker
  <2>2. v.phase = at /\ v.job = j /\ v.out = None  BY <1>2, <1>3 DEF Worker
  <2>3. Placed(v)  BY <2>2 DEF Placed, Receiving
  <2>. QED  BY <2>1, <2>2, <2>3
<1>. QED  BY <1>2, <1>3, <1>4, <1>5

\* Where the workers are cancelled, nothing else of them changes.
LEMMA CancelledWorker ==
  ASSUME NEW v \in Worker, NEW b \in BOOLEAN, NEW u, u = [v EXCEPT !.cancel = b]
  PROVE  /\ u \in Worker /\ (Placed(v) => Placed(u))
         /\ u.phase = v.phase /\ u.job = v.job /\ u.then = v.then
         /\ u.offset = v.offset /\ u.tag = v.tag /\ u.body = v.body
         /\ u.next = v.next /\ u.sized = v.sized /\ u.got = v.got /\ u.out = v.out
<1>1. u \in Worker  BY DEF Worker
<1>2. /\ u.phase = v.phase /\ u.job = v.job /\ u.then = v.then
      /\ u.offset = v.offset /\ u.tag = v.tag /\ u.body = v.body
      /\ u.next = v.next /\ u.got = v.got /\ u.out = v.out
  BY DEF Worker
<1>3. u.sized = v.sized  BY DEF Worker
<1>4. Placed(v) => Placed(u)  BY <1>2 DEF Placed
<1>. QED  BY <1>1, <1>2, <1>3, <1>4

LEMMA Cancels ==
  ASSUME Types, NEW j, CancelDownload(j), NEW p \in Program
  PROVE  /\ w'[p] \in Worker /\ Placed(w'[p])
         /\ w'[p].phase = w[p].phase /\ w'[p].job = w[p].job /\ w'[p].then = w[p].then
         /\ w'[p].offset = w[p].offset /\ w'[p].tag = w[p].tag /\ w'[p].body = w[p].body
         /\ w'[p].next = w[p].next /\ w'[p].sized = w[p].sized /\ w'[p].got = w[p].got
         /\ w'[p].out = w[p].out
<1>1. w[p] \in Worker /\ Placed(w[p]) /\ w[p].cancel \in BOOLEAN  BY DEF Types, Worker
<1>2. PICK b \in BOOLEAN : b = (w[p].cancel \/ w[p].job = j)  OBVIOUS
<1>3. w'[p] = [w[p] EXCEPT !.cancel = b]  BY <1>2 DEF CancelDownload
<1>. QED  BY <1>1, <1>3, CancelledWorker

LEMMA TypesFrame ==
  ASSUME Types, UNCHANGED files
  PROVE  FileTypes'
BY DEF Types, FileTypes, files

LEMMA TypesFrom ==
  ASSUME entity' \in Entity, FileTypes', w' \in [Program -> Worker],
         \A p \in Program : Placed(w'[p]),
         status' \in [Job \cup {Window} -> {"none"} \cup Open \cup Ended],
         orphans' \subseteq Job \cup {Window},
         reader' \in {NoStream} \cup [job : Job, sent : {"nothing"} \cup Open]
  PROVE  Types'
BY DEF Types, Placed

\* A step that sends a worker on, and no more than that.
LEMMA StepTypes ==
  ASSUME Types, NEW p \in Program, NEW v \in Worker, Placed(v), Step(p, v)
  PROVE  w' \in [Program -> Worker] /\ \A q \in Program : Placed(w'[q])
<1>1. w' \in [Program -> Worker] /\ w'[p] = v /\ \A q \in Program \ {p} : w'[q] = w[q]
  BY Stepped DEF Types
<1>. QED  BY <1>1 DEF Types

LEMMA BreakTypes ==
  ASSUME Types, Employed, NEW p \in Program, Break(p) PROVE Types'
<1>1. Step(p, Idle) /\ UNCHANGED <<entity, status, reader>>  BY DEF Break
<1>2. w' \in [Program -> Worker] /\ \A q \in Program : Placed(w'[q])
  BY <1>1, IdleWorker, StepTypes
<1>3. FileTypes'
  BY Swept DEF Break, Types, FileTypes
<1>4. w[p].job \in Job \cup {Window}
  BY DEF Break, Employed, Busy, JobsOf
<1>5. orphans' \subseteq Job \cup {Window}  BY <1>4 DEF Break, Types
<1>. QED  BY <1>1, <1>2, <1>3, <1>5, TypesFrom DEF Types

LEMMA CarriedTypes ==
  ASSUME Types, NEW p \in Program, Carries(p), Running(p) PROVE Types'
<1>1. w' \in [Program -> Worker] /\ \A q \in Program : Placed(w'[q])
  BY StepTypes DEF Carries
<1>. QED  BY <1>1, TypesFrom DEF Carries, Running, Types

LEMMA Statuses ==
  ASSUME Types, NEW j \in Job \cup {Window}, NEW s \in {"none"} \cup Open \cup Ended,
         status' = [status EXCEPT ![j] = s]
  PROVE  status' \in [Job \cup {Window} -> {"none"} \cup Open \cup Ended]
BY DEF Types

LEMMA ServiceTypes ==
  ASSUME Types, Employed,
         (\E j \in Job : CreateDownload(j)) \/ RunDownload \/ WindowDownload
  PROVE  Types'
<1>. DEFINE S == [Job \cup {Window} -> {"none"} \cup Open \cup Ended]
<1>1. ASSUME NEW j \in Job, CreateDownload(j) PROVE Types'
  <2>1. Purged \in S  BY DEF Purged, Types
  <2>2. status' \in S  BY <1>1, <2>1 DEF CreateDownload, Open
  <2>3. Step("web", [Idle EXCEPT !.phase = "queued", !.job = j])
    BY <1>1 DEF CreateDownload, Step
  <2>4. w' \in [Program -> Worker] /\ \A q \in Program : Placed(w'[q])
    BY <2>3, IdleWorker, StepTypes DEF Program
  <2>5. orphans' \subseteq Job \cup {Window}  BY <1>1 DEF CreateDownload, Types
  <2>6. UNCHANGED <<entity, files, reader>>  BY <1>1 DEF CreateDownload
  <2>. QED  BY <2>2, <2>4, <2>5, <2>6, TypesFrom, TypesFrame DEF Types
<1>2. CASE RunDownload
  <2>. DEFINE v == [w["web"] EXCEPT !.phase = "start"]
  <2>1. w["web"] \in Worker /\ Placed(w["web"]) /\ w["web"].phase = "queued"
    BY <1>2 DEF RunDownload, Types, Program
  <2>2. v \in Worker /\ v.phase = "start" /\ v.out = w["web"].out
    BY <2>1 DEF Worker, Phase
  <2>3. Placed(v)  BY <2>1, <2>2 DEF Placed, Receiving
  <2>4. Step("web", v)  BY <1>2 DEF RunDownload, Move
  <2>. HIDE DEF v
  <2>5. w' \in [Program -> Worker] /\ \A q \in Program : Placed(w'[q])
    BY <2>2, <2>3, <2>4, StepTypes DEF Program
  <2>6. w["web"].job \in Job \cup {Window}
    BY <2>1 DEF Employed, Busy, JobsOf, Program
  <2>7. status' \in S  BY <1>2, <2>6, Statuses DEF RunDownload, Open
  <2>. QED  BY <1>2, <2>5, <2>7, TypesFrom, TypesFrame DEF RunDownload, Types
<1>3. CASE WindowDownload
  <2>1. w' \in [Program -> Worker] /\ \A q \in Program : Placed(w'[q])
    BY <1>3, IdleWorker, StepTypes DEF WindowDownload, Program
  <2>2. status' \in S  BY <1>3, Statuses DEF WindowDownload, Open
  <2>. QED  BY <1>3, <2>1, <2>2, TypesFrom, TypesFrame DEF WindowDownload, Types
<1>. QED  BY <1>1, <1>2, <1>3

LEMMA CancelTypes ==
  ASSUME Types, NEW j \in Job \cup {Window}, CancelDownload(j) PROVE Types'
<1>1. \A p \in Program : w'[p] \in Worker /\ Placed(w'[p])  BY Cancels
<1>2. w' \in [Program -> Worker]  BY <1>1 DEF CancelDownload
<1>3. status' \in [Job \cup {Window} -> {"none"} \cup Open \cup Ended]
  BY Statuses DEF CancelDownload, Open
<1>. QED  BY <1>1, <1>2, <1>3, TypesFrom, TypesFrame DEF CancelDownload, Types

\* How a job may end.
LEMMA TellsAnEnd ==
  ASSUME NEW p \in Program, Report(p)
  PROVE  \E s \in Ended : /\ status' = [status EXCEPT ![w[p].job] = s]
                          /\ s = "cancelled" => w[p].phase = "cancelled"
BY DEF Report, Told, Ended

LEMMA ReportTypes ==
  ASSUME Types, Employed, NEW p \in Program, Report(p) PROVE Types'
<1>1. w' \in [Program -> Worker] /\ \A q \in Program : Placed(w'[q])
  BY IdleWorker, StepTypes DEF Report
<1>2. w[p].job \in Job \cup {Window}  BY DEF Report, Employed, Busy, JobsOf
<1>3. status' \in [Job \cup {Window} -> {"none"} \cup Open \cup Ended]
  BY <1>2, TellsAnEnd, Statuses
<1>. QED  BY <1>1, <1>3, TypesFrom, TypesFrame DEF Report, Types

LEMMA StreamTypes ==
  ASSUME Types, (\E j \in Job : OpenStream(j)) \/ Stream \/ LeaveStream
  PROVE  Types'
<1>. DEFINE R == {NoStream} \cup [job : Job, sent : {"nothing"} \cup Open]
<1>1. UNCHANGED <<entity, files, w, status, orphans>>
  BY DEF OpenStream, Stream, LeaveStream
<1>2. CASE (\E j \in Job : OpenStream(j)) \/ LeaveStream
  <2>1. reader' \in R  BY <1>2 DEF OpenStream, LeaveStream
  <2>. QED  BY <1>1, <2>1, TypesFrom, TypesFrame DEF Types
<1>3. CASE Stream
  <2>1. reader \in [job : Job, sent : {"nothing"} \cup Open]
    BY <1>3 DEF Stream, Types
  <2>2. status[reader.job] \in {"none"} \cup Open \cup Ended  BY <2>1 DEF Types
  <2>3. PICK s \in {"none"} \cup Open \cup Ended : s = status[reader.job]  BY <2>2
  <2>4. \/ reader' = NoStream
        \/ s \in Open /\ reader' = [reader EXCEPT !.sent = s]
    BY <1>3, <2>3 DEF Stream, Sends
  <2>5. s \in Open => [reader EXCEPT !.sent = s] \in [job : Job, sent : {"nothing"} \cup Open]
    BY <2>1
  <2>6. reader' \in R  BY <2>4, <2>5
  <2>. QED  BY <1>1, <2>6, TypesFrom, TypesFrame DEF Types
<1>. QED  BY <1>2, <1>3

LEMMA DieTypes ==
  ASSUME Types, NEW p \in Program, Die(p) PROVE Types'
<1>1. w' \in [Program -> Worker] /\ \A q \in Program : Placed(w'[q])
  BY IdleWorker, StepTypes DEF Die
<1>2. status' \in [Job \cup {Window} -> {"none"} \cup Open \cup Ended]
  BY DEF Die, Types
<1>3. FileTypes'  BY Swept DEF Die, Types, FileTypes
<1>4. reader' \in {NoStream} \cup [job : Job, sent : {"nothing"} \cup Open]
      /\ orphans' \subseteq Job \cup {Window} /\ entity' \in Entity
  BY DEF Die, Types
<1>. QED  BY <1>1, <1>2, <1>3, <1>4, TypesFrom

LEMMA AroundTypes ==
  ASSUME Types, RemoveFinal \/ Replace PROVE Types'
<1>1. FileTypes'
  BY Swept DEF RemoveFinal, Replace, Types, FileTypes, files
<1>2. entity' \in Entity /\ UNCHANGED <<w, status, reader, orphans>>
  BY DEF RemoveFinal, Replace, Types
<1>. QED  BY <1>1, <1>2, TypesFrom DEF Types

LEMMA TypesStep == Types /\ Employed /\ [Next]_vars => Types'
<1>. SUFFICES ASSUME Types, Employed, [Next]_vars PROVE Types'  OBVIOUS
<1>1. CASE UNCHANGED vars
  BY <1>1, TypesFrame, TypesFrom DEF vars, Types
<1>2. CASE Next
  BY <1>2, TransferCarries, BreakTypes, CarriedTypes, ServiceTypes, CancelTypes,
     ReportTypes, StreamTypes, DieTypes, AroundTypes DEF Next
<1>. QED  BY <1>1, <1>2

-----------------------------------------------------------------------------
\* A worker that goes on keeps its job.
LEMMA CarriedEmployed ==
  ASSUME Types, Employed, NEW p \in Program, w[p].phase # "idle", Carries(p), Running(p)
  PROVE  Employed'
<1>1. PICK v \in Worker : Step(p, v) /\ v.job = w[p].job /\ v.phase # "idle"
  BY DEF Carries
<1>2. w'[p] = v /\ \A q \in Program \ {p} : w'[q] = w[q]  BY <1>1, Stepped DEF Types
<1>3. \A q \in Program : (w'[q].phase = "idle" <=> w[q].phase = "idle") /\ w'[q].job = w[q].job
  BY <1>1, <1>2
<1>. QED  BY <1>3 DEF Employed, Running, Busy, OpenJobsHaveTheirWorker

LEMMA IdleEmployed ==
  ASSUME Types, NEW p \in Program, Step(p, Idle)
  PROVE  /\ w'[p].phase = "idle"
         /\ \A q \in Program \ {p} : w'[q] = w[q]
<1>1. PICK v \in Worker : v = Idle  BY IdleWorker
<1>2. v.phase = "idle" /\ Step(p, v)  BY <1>1, IdleWorker
<1>. QED  BY <1>2, Stepped DEF Types

LEMMA OtherJob ==
  ASSUME Employed, NEW p \in Program, NEW q \in Program, p # q, Busy(p), Busy(q)
  PROVE  w[p].job # w[q].job
BY Constants DEF Employed, JobsOf, Program

LEMMA BreakEmployed ==
  ASSUME Types, Employed, NEW p \in Program, Break(p) PROVE Employed'
<1>1. Busy(p) /\ UNCHANGED status /\ orphans' = orphans \cup {w[p].job}
  BY DEF Break, Busy
<1>2. w'[p].phase = "idle" /\ \A q \in Program \ {p} : w'[q] = w[q]
  BY IdleEmployed DEF Break
<1>3. \A q \in Program : Busy(q)' => q # p /\ Busy(q) /\ w'[q] = w[q]
  BY <1>2 DEF Busy
<1>4. \A q \in Program : Busy(q)' => w'[q].job # w[p].job
  BY <1>1, <1>3, OtherJob
<1>5. \A q \in Program : Busy(q) /\ q # p => Busy(q)'  BY <1>2 DEF Busy
<1>6. OpenJobsHaveTheirWorker'
  BY <1>1, <1>2, <1>5 DEF Employed, OpenJobsHaveTheirWorker
<1>. QED  BY <1>1, <1>3, <1>4, <1>6 DEF Employed

LEMMA ReportEmployed ==
  ASSUME Types, Employed, NEW p \in Program, Report(p) PROVE Employed'
<1>1. Busy(p) /\ UNCHANGED orphans  BY DEF Report, Busy
<1>2. w'[p].phase = "idle" /\ \A q \in Program \ {p} : w'[q] = w[q]
  BY IdleEmployed DEF Report
<1>3. PICK s \in Ended : status' = [status EXCEPT ![w[p].job] = s]
  BY TellsAnEnd
<1>4. s \notin Open  BY DEF Ended, Open
<1>5. w[p].job \in Job \cup {Window} /\ w[p].job \notin orphans
  BY <1>1 DEF Employed, JobsOf
<1>6. \A q \in Program : Busy(q)' => q # p /\ Busy(q) /\ w'[q] = w[q]
  BY <1>2 DEF Busy
<1>7. \A q \in Program : Busy(q)' => w'[q].job # w[p].job
  BY <1>1, <1>6, OtherJob
<1>8. status \in [Job \cup {Window} -> {"none"} \cup Open \cup Ended]  BY DEF Types
<1>9. status'[w[p].job] = s /\ \A j \in Job \cup {Window} : j # w[p].job => status'[j] = status[j]
  BY <1>3, <1>5, <1>8
<1>10. DOMAIN status' = DOMAIN status /\ DOMAIN status = Job \cup {Window}  BY <1>3, <1>8
<1>11. \A q \in Program : Busy(q) /\ q # p => Busy(q)'  BY <1>2 DEF Busy
<1>12. OpenJobsHaveTheirWorker'
  BY <1>1, <1>2, <1>4, <1>9, <1>10, <1>11 DEF Employed, OpenJobsHaveTheirWorker
<1>13. \A j \in orphans : status'[j] = status[j]
  BY <1>5, <1>9 DEF Types
<1>14. \A q \in Program : Busy(q)' => w'[q].job \in JobsOf(q) \ orphans
                                       /\ status'[w'[q].job] = status[w[q].job]
  <2>1. \A q \in Program : JobsOf(q) \subseteq Job \cup {Window}  BY DEF JobsOf
  <2>. QED  BY <1>6, <1>7, <1>9, <2>1 DEF Employed
<1>. QED  BY <1>1, <1>6, <1>12, <1>13, <1>14 DEF Employed

LEMMA ServiceEmployed ==
  ASSUME Types, Employed, (\E j \in Job : CreateDownload(j)) \/ RunDownload \/ WindowDownload
  PROVE  Employed'
<1>. USE DEF Busy
<1>0. status \in [Job \cup {Window} -> {"none"} \cup Open \cup Ended]
      /\ orphans \subseteq Job \cup {Window}
  BY DEF Types
<1>1. ASSUME NEW j \in Job, CreateDownload(j) PROVE Employed'
  <2>1. /\ w["web"].phase = "idle" /\ status[j] = "none"
        /\ Step("web", [Idle EXCEPT !.phase = "queued", !.job = j])
    BY <1>1 DEF CreateDownload, Begun, Step
  <2>2. PICK v \in Worker : v = [Idle EXCEPT !.phase = "queued", !.job = j]
    BY IdleWorker
  <2>3. v.job = j /\ v.phase = "queued"  BY <2>2, IdleWorker
  <2>4. w'["web"] = v /\ w'["desk"] = w["desk"]
    BY <2>1, <2>2, Stepped DEF Types, Program
  <2>5. \A i \in Job \cup {Window} : status[i] \in Open \/ i = Window => Purged[i] = status[i]
    BY <1>0, Constants DEF Purged, Open, Ended
  <2>6. DOMAIN Purged = Job \cup {Window}
        /\ \A i \in Job \cup {Window} : Purged[i] \in {status[i], "none"}
    BY <1>0 DEF Purged
  <2>7. status' = [Purged EXCEPT ![j] = "queued"]  BY <1>1 DEF CreateDownload
  <2>8. /\ DOMAIN status' = Job \cup {Window} /\ status'[j] = "queued"
        /\ \A i \in Job \cup {Window} : i # j => status'[i] = Purged[i]
    BY <2>6, <2>7
  <2>9. orphans' = {i \in orphans : status'[i] \in Open}  BY <1>1 DEF CreateDownload
  <2>10. j \notin orphans  BY <2>1 DEF Employed, Open
  <2>11. "none" \notin Open /\ "queued" \in Open  BY DEF Open
  <2>12. OpenJobsHaveTheirWorker'
    <3>. SUFFICES ASSUME NEW i \in DOMAIN status', status'[i] \in Open, i \notin orphans'
                  PROVE  \E p \in Program : w'[p].phase # "idle" /\ w'[p].job = i
      BY DEF OpenJobsHaveTheirWorker
    <3>1. CASE i = j  BY <2>3, <2>4, <3>1 DEF Program
    <3>2. CASE i # j
      <4>1. status[i] \in Open /\ i \notin orphans
        BY <2>6, <2>8, <2>9, <2>11, <3>2
      <4>2. i \in DOMAIN status  BY <1>0, <2>8
      <4>3. PICK p \in Program : w[p].phase # "idle" /\ w[p].job = i
        BY <4>1, <4>2 DEF Employed, OpenJobsHaveTheirWorker
      <4>. QED  BY <2>1, <2>4, <4>3 DEF Program
    <3>. QED  BY <3>1, <3>2
  <2>13. w["desk"].phase # "idle" =>
           w["desk"].job = Window /\ Window \notin orphans /\ status[Window] \in Open
    BY DEF Employed, JobsOf, Program
  <2>14. w["desk"].phase # "idle" => status'[Window] \in Open /\ Window \notin orphans'
    BY <2>5, <2>8, <2>9, <2>13, Constants
  <2>15. w'["web"].job \in JobsOf("web") \ orphans' /\ status'[w'["web"].job] \in Open
    BY <2>3, <2>4, <2>8, <2>9, <2>10, <2>11 DEF JobsOf
  <2>16. w["desk"].phase # "idle" =>
           w'["desk"].job \in JobsOf("desk") \ orphans' /\ status'[w'["desk"].job] \in Open
    BY <2>4, <2>13, <2>14 DEF JobsOf
  <2>. QED  BY <2>4, <2>9, <2>12, <2>15, <2>16 DEF Employed, Program
<1>2. CASE RunDownload
  <2>. DEFINE u == [w["web"] EXCEPT !.phase = "start"]
  <2>1. w["web"] \in Worker /\ w["web"].phase = "queued" /\ Step("web", u)
    BY <1>2 DEF RunDownload, Types, Program, Move
  <2>2. u \in Worker /\ u.phase = "start" /\ u.job = w["web"].job
    BY <2>1 DEF Worker, Phase
  <2>3. w'["web"] = u /\ w'["desk"] = w["desk"]
    BY <2>1, <2>2, Stepped DEF Types, Program
  <2>. HIDE DEF u
  <2>4. w["web"].job \in Job /\ w["web"].job \notin orphans
    BY <2>1 DEF Employed, JobsOf, Program
  <2>5. /\ DOMAIN status' = DOMAIN status /\ status'[w["web"].job] = "downloading"
        /\ \A i \in DOMAIN status : i # w["web"].job => status'[i] = status[i]
        /\ UNCHANGED orphans
    BY <1>0, <1>2, <2>4 DEF RunDownload
  <2>6. "downloading" \in Open  BY DEF Open
  <2>7. status[w["web"].job] \in Open  BY <2>1 DEF Employed, Program
  <2>8. \A i \in DOMAIN status : status'[i] \in Open <=> status[i] \in Open
    BY <2>5, <2>6, <2>7
  <2>9. \A p \in Program : w'[p].job = w[p].job /\ (w'[p].phase = "idle" <=> w[p].phase = "idle")
    BY <2>1, <2>2, <2>3 DEF Program
  <2>10. OpenJobsHaveTheirWorker'
    BY <2>5, <2>8, <2>9 DEF Employed, OpenJobsHaveTheirWorker
  <2>11. \A p \in Program : JobsOf(p) \subseteq DOMAIN status  BY <1>0 DEF JobsOf
  <2>12. \A i \in orphans : i \in DOMAIN status  BY <1>0
  <2>. QED  BY <2>5, <2>8, <2>9, <2>10, <2>11, <2>12 DEF Employed
<1>3. CASE WindowDownload
  <2>1. /\ w["desk"].phase = "idle" /\ status[Window] \notin Open
        /\ Step("desk", [Idle EXCEPT !.phase = "start", !.job = Window])
    BY <1>3 DEF WindowDownload
  <2>2. PICK v \in Worker : v = [Idle EXCEPT !.phase = "start", !.job = Window]
    BY IdleWorker
  <2>3. v.job = Window /\ v.phase = "start"  BY <2>2, IdleWorker
  <2>4. w'["desk"] = v /\ w'["web"] = w["web"]
    BY <2>1, <2>2, Stepped DEF Types, Program
  <2>5. /\ DOMAIN status' = DOMAIN status /\ status'[Window] = "downloading"
        /\ \A i \in DOMAIN status : i # Window => status'[i] = status[i]
        /\ UNCHANGED orphans
    BY <1>0, <1>3 DEF WindowDownload
  <2>6. Window \notin orphans  BY <2>1 DEF Employed
  <2>7. "downloading" \in Open  BY DEF Open
  <2>8. OpenJobsHaveTheirWorker'
    <3>. SUFFICES ASSUME NEW i \in DOMAIN status', status'[i] \in Open, i \notin orphans'
                  PROVE  \E p \in Program : w'[p].phase # "idle" /\ w'[p].job = i
      BY DEF OpenJobsHaveTheirWorker
    <3>1. CASE i = Window  BY <2>3, <2>4, <3>1 DEF Program
    <3>2. CASE i # Window
      <4>1. PICK p \in Program : w[p].phase # "idle" /\ w[p].job = i
        BY <2>5, <3>2 DEF Employed, OpenJobsHaveTheirWorker
      <4>. QED  BY <2>1, <2>4, <4>1 DEF Program
    <3>. QED  BY <3>1, <3>2
  <2>9. w["web"].phase # "idle" =>
          w["web"].job \in Job \ orphans /\ status[w["web"].job] \in Open
    BY DEF Employed, JobsOf, Program
  <2>10. w'["web"].phase # "idle" =>
          w'["web"].job \in JobsOf("web") \ orphans' /\ status'[w'["web"].job] \in Open
    BY <1>0, <2>4, <2>5, <2>9, Constants DEF JobsOf
  <2>11. w'["desk"].job \in JobsOf("desk") \ orphans' /\ status'[w'["desk"].job] \in Open
    BY <2>3, <2>4, <2>5, <2>6, <2>7 DEF JobsOf
  <2>12. \A i \in orphans : status'[i] \in Open
    BY <1>0, <2>5, <2>6 DEF Employed
  <2>. QED  BY <2>5, <2>8, <2>10, <2>11, <2>12 DEF Employed, Program
<1>. QED  BY <1>1, <1>2, <1>3

LEMMA CancelEmployed ==
  ASSUME Types, Employed, NEW j \in Job \cup {Window}, CancelDownload(j) PROVE Employed'
<1>0. status \in [Job \cup {Window} -> {"none"} \cup Open \cup Ended]
      /\ orphans \subseteq Job \cup {Window}
  BY DEF Types
<1>1. \A p \in Program : w'[p].job = w[p].job /\ w'[p].phase = w[p].phase  BY Cancels
<1>2. status[j] \in Open /\ status' = [status EXCEPT ![j] = "cancelling"] /\ UNCHANGED orphans
  BY DEF CancelDownload, Open
<1>3. /\ DOMAIN status' = DOMAIN status
      /\ \A i \in DOMAIN status : status'[i] \in Open <=> status[i] \in Open
  BY <1>0, <1>2 DEF Open
<1>4. OpenJobsHaveTheirWorker'
  BY <1>1, <1>2, <1>3 DEF Employed, OpenJobsHaveTheirWorker, Busy
<1>5. \A p \in Program : JobsOf(p) \subseteq DOMAIN status  BY <1>0 DEF JobsOf
<1>6. \A i \in orphans : i \in DOMAIN status  BY <1>0
<1>. QED  BY <1>1, <1>2, <1>3, <1>4, <1>5, <1>6 DEF Employed, Busy

LEMMA DieEmployed ==
  ASSUME Types, Employed, NEW p \in Program, Die(p) PROVE Employed'
<1>0. status \in [Job \cup {Window} -> {"none"} \cup Open \cup Ended]
      /\ orphans \subseteq Job \cup {Window} /\ "none" \notin Open
  BY DEF Types, Open
<1>1. w'[p].phase = "idle" /\ \A q \in Program \ {p} : w'[q] = w[q]
  BY IdleEmployed DEF Die
<1>2. /\ DOMAIN status' = DOMAIN status /\ DOMAIN status = Job \cup {Window}
      /\ \A i \in DOMAIN status : i \in JobsOf(p) => status'[i] = "none"
      /\ \A i \in DOMAIN status : i \notin JobsOf(p) => status'[i] = status[i]
  BY <1>0, Constants DEF Die, JobsOf, Program
<1>3. orphans' = {i \in orphans : status'[i] \in Open}  BY DEF Die
<1>4. \A q \in Program : q # p => JobsOf(q) \cap JobsOf(p) = {} /\ JobsOf(q) \subseteq Job \cup {Window}
  BY Constants DEF JobsOf, Program
<1>5. \A q \in Program : Busy(q)' => q # p /\ Busy(q) /\ w'[q] = w[q]
  BY <1>1 DEF Busy
<1>6. \A q \in Program : Busy(q)' =>
        w'[q].job \in JobsOf(q) \ orphans' /\ status'[w'[q].job] \in Open
  BY <1>2, <1>3, <1>4, <1>5 DEF Employed
<1>7. OpenJobsHaveTheirWorker'
  <2>. SUFFICES ASSUME NEW i \in DOMAIN status', status'[i] \in Open, i \notin orphans'
                PROVE  \E q \in Program : Busy(q)' /\ w'[q].job = i
    BY DEF OpenJobsHaveTheirWorker, Busy
  <2>1. i \notin JobsOf(p) /\ status[i] \in Open /\ i \notin orphans
    BY <1>0, <1>2, <1>3
  <2>2. PICK q \in Program : Busy(q) /\ w[q].job = i
    BY <1>2, <2>1 DEF Employed, OpenJobsHaveTheirWorker
  <2>3. q # p  BY <2>1, <2>2 DEF Employed
  <2>. QED  BY <1>1, <2>2, <2>3 DEF Busy
<1>. QED  BY <1>3, <1>6, <1>7 DEF Employed

LEMMA EmployedFrame ==
  ASSUME Employed, UNCHANGED <<w, status, orphans>> PROVE Employed'
BY DEF Employed, Busy, OpenJobsHaveTheirWorker

LEMMA EmployedStep == Types /\ Employed /\ [Next]_vars => Employed'
<1>. SUFFICES ASSUME Types, Employed, [Next]_vars PROVE Employed'  OBVIOUS
<1>1. CASE \/ UNCHANGED vars \/ Stream \/ LeaveStream \/ RemoveFinal \/ Replace
           \/ \E j \in Job : OpenStream(j)
  BY <1>1, EmployedFrame
  DEF vars, Stream, LeaveStream, RemoveFinal, Replace, OpenStream
<1>2. ASSUME NEW p \in Program, Transfer(p) PROVE Employed'
  <2>1. w[p].phase # "idle"
    BY <1>2 DEF Transfer, Start, Unlink, Ask, Count, OpenPart, Read, Write, End, Link, Break
  <2>. QED  BY <1>2, <2>1, TransferCarries, CarriedEmployed, BreakEmployed
<1>. QED
  BY <1>1, <1>2, ServiceEmployed, CancelEmployed, ReportEmployed, DieEmployed DEF Next

-----------------------------------------------------------------------------
(* The files, as long as one program at a time downloads.                  *)

LEMMA BeginningType ==
  ASSUME NEW e \in Entity, NEW n \in Nat, NEW s \in Seq(Chunk)
  PROVE  /\ Beginning(s, e, n) => Len(s) = n
         /\ Len(s) = 0 => Beginning(s, e, 0)
<1>1. Size[e] \in Nat  BY Constants
<1>2. ASSUME Beginning(s, e, n) PROVE Len(s) = n  BY <1>2 DEF Beginning
<1>3. ASSUME Len(s) = 0 PROVE s = [i \in 1..0 |-> [of |-> e, at |-> i]]
  BY <1>3
<1>. QED  BY <1>1, <1>2, <1>3 DEF Beginning

\* The next chunk goes where the file ends.
LEMMA NextChunk ==
  ASSUME NEW e \in Entity, NEW n \in Nat, NEW s \in Seq(Chunk), Beginning(s, e, n),
         n + 1 <= Size[e]
  PROVE  Beginning(Written(s, n + 1, [of |-> e, at |-> n + 1]), e, n + 1)
<1>1. Len(s) = n /\ s = [i \in 1..n |-> [of |-> e, at |-> i]]
  BY BeginningType DEF Beginning
<1>2. Written(s, n + 1, [of |-> e, at |-> n + 1]) =
        [i \in 1..n + 1 |-> IF i = n + 1 THEN [of |-> e, at |-> n + 1]
                            ELSE IF i <= n THEN s[i] ELSE Hole]
  BY <1>1 DEF Written
<1>3. \A i \in 1..n + 1 :
        (IF i = n + 1 THEN [of |-> e, at |-> n + 1] ELSE IF i <= n THEN s[i] ELSE Hole)
          = [of |-> e, at |-> i]
  <2>. SUFFICES ASSUME NEW i \in 1..n + 1, i # n + 1 PROVE s[i] = [of |-> e, at |-> i] /\ i <= n
    OBVIOUS
  <2>1. i \in 1..n  OBVIOUS
  <2>. QED  BY <1>1, <2>1
<1>4. Written(s, n + 1, [of |-> e, at |-> n + 1]) = [i \in 1..n + 1 |-> [of |-> e, at |-> i]]
  BY <1>2, <1>3
<1>. QED  BY <1>4 DEF Beginning

LEMMA WholeBeginning ==
  ASSUME NEW e \in Entity, NEW s, Beginning(s, e, Size[e]) PROVE s = Whole(e)
BY DEF Beginning, Whole

\* Names that keep their content.
Kept == \A i \in Inode : i \in {part', final'} => disk'[i] = disk[i]

LEMMA SweptKept ==
  ASSUME FileTypes, Sweep(disk) \/ UNCHANGED disk PROVE Kept
BY Swept DEF Kept, FileTypes

LEMMA KeptFiles ==
  ASSUME Types, Files, Kept, UNCHANGED final \/ final' = None,
         UNCHANGED <<part, meta>> \/ part' = None
  PROVE  (part' # None => part' # final') /\ PublishedIsWhole' /\ Resumable'
<1>1. part \in Inode \cup {None} /\ final \in Inode \cup {None}
  BY DEF Types, FileTypes
<1>2. part' # None => part' # final'  BY <1>1 DEF Files
<1>3. PublishedIsWhole'
  BY <1>1 DEF Files, PublishedIsWhole, Kept
<1>4. Resumable'
  <2>1. CASE part' = None  BY <2>1 DEF Resumable, Usable
  <2>2. CASE UNCHANGED <<part, meta>> /\ part # None
    <3>1. disk'[part] = disk[part]  BY <1>1, <2>2 DEF Kept
    <3>. QED  BY <2>2, <3>1 DEF Files, Resumable, Usable, Beginning
  <2>. QED  BY <2>1, <2>2
<1>. QED  BY <1>2, <1>3, <1>4

\* What a worker relies on, where neither its file nor the sidecar changes.
LEMMA StageKept ==
  ASSUME Types, Kept, UNCHANGED <<part, meta>>, NEW v, Stage(v)
  PROVE  Stage(v)'
<1>1. part # None => disk'[part] = disk[part]
  BY DEF Types, FileTypes, Kept
<1>. QED  BY <1>1 DEF Stage, Beginning

\* A worker that has nothing to do with the files.
LEMMA AwayStage ==
  ASSUME NEW v, v.phase \in {"idle", "failed", "done"}, v.out = None
  PROVE  Stage(v)'
BY DEF Stage, Receiving

\* A step of the only worker there is.
LEMMA FilesFrom ==
  ASSUME Types, Files, NEW p \in Program, \A q \in Program : Busy(q) => q = p,
         NEW v \in Worker, Step(p, v), Stage(v)',
         part' # None => part' # final', PublishedIsWhole', Resumable'
  PROVE  Files'
<1>1. w'[p] = v /\ \A q \in Program \ {p} : w'[q] = w[q]  BY Stepped DEF Types
<1>2. ASSUME NEW q \in Program PROVE Stage(w[q])'
  <2>1. PICK u : u = w'[q]  OBVIOUS
  <2>2. Stage(u)'
    <3>1. CASE q = p  BY <1>1, <2>1, <3>1
    <3>2. CASE q # p
      <4>1. u = w[q] /\ u.phase = "idle"  BY <1>1, <2>1, <3>2 DEF Busy
      <4>2. u.out = None  BY <4>1 DEF Types, Placed
      <4>. QED  BY <4>1, <4>2, AwayStage
    <3>. QED  BY <3>1, <3>2
  <2>. QED  BY <2>1, <2>2 DEF Stage, Beginning
<1>3. Alone'
  BY <1>1 DEF Alone, Busy
<1>. QED  BY <1>2, <1>3 DEF Files

LEMMA Only ==
  ASSUME Files, NEW p \in Program, w[p].phase # "idle"
  PROVE  \A q \in Program : Busy(q) => q = p
BY DEF Files, Alone, Busy

LEMMA DiscardFiles ==
  ASSUME Types, Files, NEW p \in Program, w[p].phase # "idle", NEW b \in Worker,
         NEW then \in {"ask", "failed", "cancelled", "done"}, then = "ask" => b.offset = 0,
         Discard(p, b, then)
  PROVE  Files'
<1>1. PICK v : v = [b EXCEPT !.phase = "unlink", !.then = then, !.out = None]  OBVIOUS
<1>2. v \in Worker  BY <1>1 DEF Worker, Phase, Ended
<1>3. v.phase = "unlink" /\ v.then = then /\ v.out = None /\ v.offset = b.offset
  BY <1>1 DEF Worker
<1>4. Step(p, v) /\ part' = None /\ UNCHANGED <<meta, final>> /\ Sweep(disk)
  BY <1>1 DEF Discard
<1>5. Stage(v)'  BY <1>3, <1>4 DEF Stage, Receiving
<1>6. Kept  BY <1>4, SweptKept DEF Types
<1>. QED  BY <1>2, <1>4, <1>5, <1>6, KeptFiles, Only, FilesFrom

LEMMA LeaveFiles ==
  ASSUME Types, Files, NEW p \in Program, w[p].phase # "idle",
         NEW outcome \in {"failed", "cancelled"}, outcome = "cancelled" => w[p].cancel,
         Leave(p, outcome)
  PROVE  Files'
<1>0. w[p] \in Worker  BY DEF Types
<1>1. CASE w[p].cancel
  BY <1>0, <1>1, DiscardFiles DEF Leave
<1>2. CASE ~w[p].cancel
  <2>1. PICK v : v = [w[p] EXCEPT !.phase = outcome, !.out = None]  OBVIOUS
  <2>2. v \in Worker  BY <1>0, <2>1 DEF Worker, Phase, Ended
  <2>3. v.phase = "failed" /\ v.out = None  BY <1>0, <1>2, <2>1 DEF Worker
  <2>4. Step(p, v) /\ UNCHANGED <<part, meta, final>> /\ Sweep(disk)
    BY <1>2, <2>1 DEF Leave
  <2>5. Kept  BY <2>4, SweptKept DEF Types
  <2>6. Stage(v)'  BY <2>3, AwayStage
  <2>. QED  BY <2>2, <2>4, <2>5, <2>6, KeptFiles, Only, FilesFrom
<1>. QED  BY <1>1, <1>2

\* A step of a worker that touches no file.
LEMMA QuietFiles ==
  ASSUME Types, Files, NEW p \in Program, \A q \in Program : Busy(q) => q = p,
         NEW v \in Worker, Step(p, v), UNCHANGED files, Stage(v)
  PROVE  Files'
<1>1. UNCHANGED <<part, meta, final>> /\ Kept  BY SweptKept DEF files, Types
<1>2. Stage(v)'  BY <1>1, StageKept
<1>. QED  BY <1>1, <1>2, KeptFiles, FilesFrom

LEMMA StartFiles ==
  ASSUME Types, Files, NEW p \in Program, Start(p) PROVE Files'
<1>0. w[p] \in Worker /\ w[p].phase = "start" /\ w[p].out = None /\ w[p].offset = 0
  BY DEF Types, Start, Placed, Files, Stage
<1>1. CASE Move(p, "failed") /\ UNCHANGED files
  <2>1. PICK v : v = [w[p] EXCEPT !.phase = "failed"]  OBVIOUS
  <2>2. v \in Worker  BY <1>0, <2>1 DEF Worker, Phase, Ended
  <2>3. v.phase = "failed" /\ v.out = None  BY <1>0, <2>1 DEF Worker
  <2>4. Stage(v)  BY <2>3 DEF Stage, Receiving
  <2>5. Step(p, v)  BY <1>1, <2>1 DEF Move
  <2>. QED  BY <1>0, <1>1, <2>2, <2>4, <2>5, Only, QuietFiles
<1>2. CASE w[p].cancel /\ Leave(p, "cancelled")  BY <1>0, <1>2, LeaveFiles
<1>3. CASE Discard(p, w[p], "ask")  BY <1>0, <1>3, DiscardFiles
<1>4. CASE /\ Usable /\ UNCHANGED files
           /\ Step(p, [w[p] EXCEPT !.phase = "ask", !.tag = meta.tag, !.offset = meta.received])
  <2>1. PICK v : v = [w[p] EXCEPT !.phase = "ask", !.tag = meta.tag, !.offset = meta.received]
    OBVIOUS
  <2>2. meta \in Sidecar  BY <1>4 DEF Usable, Types, FileTypes
  <2>3. v \in Worker  BY <1>0, <2>1, <2>2, ZenonT(30) DEF Worker, Phase, Sidecar
  <2>4. v.phase = "ask" /\ v.out = None /\ v.tag = meta.tag /\ v.offset = meta.received
    BY <1>0, <2>1 DEF Worker
  <2>5. Stage(v)  BY <1>4, <2>4 DEF Stage, Receiving, Files, Resumable, Usable
  <2>6. Step(p, v)  BY <1>4, <2>1
  <2>. QED  BY <1>0, <1>4, <2>3, <2>5, <2>6, Only, QuietFiles
<1>. QED  BY <1>1, <1>2, <1>3, <1>4 DEF Start

LEMMA UnlinkFiles ==
  ASSUME Types, Files, NEW p \in Program, Unlink(p) PROVE Files'
<1>0. /\ w[p] \in Worker /\ w[p].phase = "unlink" /\ w[p].out = None
      /\ w[p].then \in {"ask", "failed", "cancelled", "done"}
      /\ part = None /\ (w[p].then = "ask" => w[p].offset = 0)
  BY DEF Types, Unlink, Placed, Files, Stage
<1>1. PICK v : v = [w[p] EXCEPT !.phase = w[p].then, !.then = "idle"]  OBVIOUS
<1>2. v \in Worker  BY <1>0, <1>1 DEF Worker, Phase
<1>3. v.phase = w[p].then /\ v.out = None /\ v.offset = w[p].offset
  BY <1>0, <1>1 DEF Worker
<1>4. Step(p, v) /\ meta' = None /\ UNCHANGED <<disk, part, final>>
  BY <1>1 DEF Unlink
<1>5. Kept  BY <1>4, SweptKept DEF Types
<1>6. Stage(v)'  BY <1>0, <1>3, <1>4 DEF Stage, Receiving
<1>. QED  BY <1>0, <1>2, <1>4, <1>5, <1>6, Only, KeptFiles, FilesFrom

LEMMA AcceptFiles ==
  ASSUME Types, Files, NEW p \in Program, w[p].phase = "ask", NEW from \in Nat,
         from = w[p].offset, from <= Size[entity],
         from > 0 => part # None /\ Beginning(disk[part], entity, from),
         Accept(p, from)
  PROVE  Files'
<1>0. w[p] \in Worker /\ w[p].out = None /\ entity \in Entity  BY DEF Types, Placed
<1>1. PICK tag \in {entity, None}, sized \in BOOLEAN :
        Step(p, [w[p] EXCEPT !.phase = "count", !.tag = tag, !.body = entity,
                             !.next = from + 1, !.sized = sized, !.got = w[p].offset])
  BY DEF Accept
<1>2. PICK v : v = [w[p] EXCEPT !.phase = "count", !.tag = tag, !.body = entity,
                                !.next = from + 1, !.sized = sized, !.got = w[p].offset]
  OBVIOUS
<1>3. v \in Worker
  <2>1. w[p].offset \in Nat /\ from + 1 \in Nat  BY <1>0 DEF Worker
  <2>2. tag \in Entity \cup {None} /\ entity \in Entity \cup {None}  BY <1>0
  <2>3. "count" \in Phase  BY DEF Phase
  <2>. QED  BY <1>0, <1>2, <2>1, <2>2, <2>3, ZenonT(30) DEF Worker
<1>4. /\ v.phase = "count" /\ v.out = None /\ v.body = entity /\ v.tag = tag
      /\ v.next = from + 1 /\ v.got = from /\ v.offset = from
  BY <1>0, <1>2 DEF Worker
<1>5. Stage(v)  BY <1>1, <1>4 DEF Stage, Receiving
<1>6. Step(p, v) /\ UNCHANGED files  BY <1>1, <1>2 DEF Accept
<1>. QED  BY <1>0, <1>3, <1>5, <1>6, Only, QuietFiles

LEMMA AskFiles ==
  ASSUME Types, Files, NEW p \in Program, Ask(p) PROVE Files'
<1>0. /\ w[p] \in Worker /\ w[p].phase = "ask" /\ entity \in Entity
      /\ Size[entity] \in Nat /\ Size[entity] > 0 /\ w[p].offset \in Nat
  BY Constants DEF Types, Ask, Worker
<1>1. CASE Leave(p, "failed")  BY <1>0, <1>1, LeaveFiles
<1>2. CASE w[p].offset = 0 /\ Accept(p, 0)  BY <1>0, <1>2, AcceptFiles
<1>3. ASSUME NEW from \in 0..Size[entity] - 1, NEW tag \in {entity, None},
             Resumes(p, from, tag), Accept(p, from)
      PROVE  Files'
  <2>1. from \in Nat /\ from <= Size[entity] /\ from = w[p].offset /\ w[p].tag = entity
        /\ entity # None
    BY <1>0, <1>3, Constants DEF Resumes
  <2>2. from > 0 => part # None /\ Beginning(disk[part], entity, from)
    BY <1>0, <2>1 DEF Files, Stage
  <2>. QED  BY <1>0, <1>3, <2>1, <2>2, AcceptFiles
<1>4. CASE Discard(p, [w[p] EXCEPT !.offset = 0, !.tag = None], "ask")
  <2>. DEFINE b == [w[p] EXCEPT !.offset = 0, !.tag = None]
  <2>1. b \in Worker /\ b.offset = 0  BY <1>0 DEF Worker
  <2>. HIDE DEF b
  <2>. QED  BY <1>0, <1>4, <2>1, DiscardFiles DEF b
<1>. QED  BY <1>1, <1>2, <1>3, <1>4 DEF Ask

\* What an open transfer has received, as its worker counts it.
LEMMA Received ==
  ASSUME Types, Files, NEW p \in Program,
         w[p].phase \in {"count", "open", "read", "write", "end", "link"}
  PROVE  /\ w[p] \in Worker /\ w[p].body \in Entity /\ w[p].got \in Nat
         /\ w[p].next = w[p].got + 1 /\ w[p].got <= Size[w[p].body]
         /\ Size[w[p].body] \in Nat /\ w[p].tag \in {w[p].body, None}
         /\ w[p].out \in {part, None} /\ w[p].offset \in Nat
         /\ w[p].phase \in {"end", "link"} \/ w[p].out # None =>
              part \in Inode /\ disk[part] \in Seq(Chunk)
              /\ Beginning(disk[part], w[p].body, w[p].got)
<1>1. Placed(w[p]) /\ w[p] \in Worker /\ FileTypes  BY DEF Types
<1>2. w[p].phase \in Receiving /\ Stage(w[p])  BY DEF Receiving, Files
<1>3. w[p].body \in Entity  BY <1>1, <1>2 DEF Placed
<1>4. w[p].got \in Nat /\ w[p].offset \in Nat  BY <1>1 DEF Worker
<1>5. w[p].phase \in {"end", "link"} \/ w[p].out # None =>
        part \in Inode /\ disk[part] \in Seq(Chunk)
        /\ Beginning(disk[part], w[p].body, w[p].got)
  BY <1>1, <1>2 DEF Stage, FileTypes
<1>. QED  BY <1>1, <1>2, <1>3, <1>4, <1>5, Constants DEF Stage

LEMMA CountFiles ==
  ASSUME Types, Files, NEW p \in Program, Count(p) PROVE Files'
<1>0. w[p].phase = "count" /\ w[p] \in Worker  BY DEF Count, Types
<1>1. CASE Leave(p, "failed")  BY <1>0, <1>1, LeaveFiles
<1>2. CASE /\ meta' = [tag |-> w[p].tag, received |-> w[p].got]
           /\ Move(p, IF w[p].out = None THEN "open" ELSE "read")
           /\ UNCHANGED <<disk, part, final>>
  <2>1. PICK v : v = [w[p] EXCEPT !.phase = IF w[p].out = None THEN "open" ELSE "read"]
    OBVIOUS
  <2>2. v \in Worker  BY <1>0, <2>1 DEF Worker, Phase
  <2>3. /\ v.phase = (IF w[p].out = None THEN "open" ELSE "read")
        /\ v.out = w[p].out /\ v.body = w[p].body /\ v.got = w[p].got
        /\ v.next = w[p].next /\ v.tag = w[p].tag /\ v.offset = w[p].offset
    BY <1>0, <2>1 DEF Worker
  <2>4. Step(p, v)  BY <1>2, <2>1 DEF Move
  <2>5. Stage(w[p]) /\ Resumable /\ PublishedIsWhole /\ (part # None => part # final)
    BY DEF Files
  <2>6. Stage(v)'
    BY <1>0, <1>2, <2>3, <2>5, Received DEF Stage, Receiving, Beginning
  <2>7. Resumable'
    <3>. SUFFICES ASSUME part # None, meta'.received = Len(disk[part]), meta'.tag # None
                  PROVE  Beginning(disk[part], meta'.tag, meta'.received)
      BY <1>2 DEF Resumable, Usable, Beginning
    <3>1. /\ meta'.tag = w[p].tag /\ meta'.received = w[p].got
          /\ w[p].tag = w[p].body /\ w[p].body \in Entity
      BY <1>0, <1>2, Received
    <3>2. CASE w[p].out # None  BY <1>0, <3>1, <3>2, Received
    <3>3. CASE w[p].out = None
      <4>1. w[p].got = w[p].offset /\ w[p].offset \in Nat
            /\ (w[p].offset > 0 => Beginning(disk[part], w[p].body, w[p].offset))
        BY <1>0, <2>5, <3>3, Received DEF Stage
      <4>2. disk[part] \in Seq(Chunk)  BY DEF Types, FileTypes
      <4>3. CASE w[p].offset > 0  BY <3>1, <4>1, <4>3
      <4>4. CASE w[p].offset = 0
        <5>1. Len(disk[part]) = 0 /\ 0 \in Nat  BY <3>1, <4>1, <4>4
        <5>2. Beginning(disk[part], w[p].body, 0)  BY <3>1, <4>2, <5>1, BeginningType
        <5>. QED  BY <3>1, <4>1, <4>4, <5>2
      <4>. QED  BY <4>1, <4>3, <4>4
    <3>. QED  BY <3>2, <3>3
  <2>8. (part' # None => part' # final') /\ PublishedIsWhole'
    BY <1>2, <2>5 DEF PublishedIsWhole
  <2>. QED  BY <1>0, <2>2, <2>4, <2>6, <2>7, <2>8, Only, FilesFrom
<1>. QED  BY <1>1, <1>2 DEF Count

LEMMA OpenFiles ==
  ASSUME Types, Files, NEW p \in Program, OpenPart(p) PROVE Files'
<1>0. w[p].phase = "open" /\ w[p] \in Worker /\ w[p].out = None
  BY DEF OpenPart, Types, Placed
<1>1. PICK i : i = IF part = None THEN Unused ELSE part  OBVIOUS
<1>2. PICK kept : kept = IF w[p].offset > 0 THEN disk[i] ELSE <<>>  OBVIOUS
<1>3. PICK v : v = [w[p] EXCEPT !.phase = "read", !.out = i]  OBVIOUS
<1>. DEFINE d == [disk EXCEPT ![i] = kept]
<1>4. part' = i /\ Step(p, v) /\ UNCHANGED <<meta, final>> /\ Sweep(d)
  BY <1>1, <1>2, <1>3 DEF OpenPart
<1>5. i \in Inode /\ i # final
  BY <1>0, <1>1, Room DEF Types, FileTypes, Files, Named
<1>6. kept \in Seq(Chunk) /\ d \in [Inode -> Seq(Chunk)]
      /\ d[i] = kept /\ \A k \in Inode : k # i => d[k] = disk[k]
  <2>1. disk \in [Inode -> Seq(Chunk)]  BY DEF Types, FileTypes
  <2>2. kept \in Seq(Chunk)  BY <1>2, <1>5, <2>1
  <2>. QED  BY <1>5, <2>1, <2>2
<1>. HIDE DEF d
<1>7. disk'[i] = kept /\ (final # None => disk'[final] = disk[final])
  BY <1>4, <1>5, <1>6, Swept DEF Types, FileTypes
<1>8. v \in Worker  BY <1>0, <1>3, <1>5, ZenonT(30) DEF Worker, Phase
<1>9. /\ v.phase = "read" /\ v.out = i /\ v.body = w[p].body /\ v.got = w[p].got
      /\ v.next = w[p].next /\ v.tag = w[p].tag
  BY <1>0, <1>3 DEF Worker
<1>10. Stage(w[p]) /\ PublishedIsWhole  BY DEF Files
<1>11. Beginning(kept, w[p].body, w[p].got)
  <2>1. /\ w[p].got = w[p].offset /\ w[p].offset \in Nat /\ w[p].body \in Entity
        /\ w[p].offset > 0 => part # None /\ Beginning(disk[part], w[p].body, w[p].offset)
    BY <1>0, <1>10, Received DEF Stage
  <2>2. CASE w[p].offset > 0  BY <1>1, <1>2, <2>1, <2>2
  <2>3. CASE w[p].offset = 0
    <3>1. kept = <<>> /\ Len(kept) = 0  BY <1>2, <2>3
    <3>2. Beginning(kept, w[p].body, 0)  BY <1>6, <2>1, <3>1, BeginningType
    <3>. QED  BY <2>1, <2>3, <3>2
  <2>. QED  BY <2>1, <2>2, <2>3
<1>12. meta' = [tag |-> w[p].tag, received |-> w[p].got]
  BY <1>0, <1>4, <1>10 DEF Stage
<1>13. Stage(v)'
  <2>1. i # None  BY <1>5, Constants
  <2>2. v.next = v.got + 1 /\ v.got <= Size[v.body] /\ v.tag \in {v.body, None}
    BY <1>0, <1>9, Received
  <2>3. Beginning(disk[part], v.body, v.got)'
    BY <1>4, <1>7, <1>9, <1>11 DEF Beginning
  <2>. QED  BY <1>4, <1>9, <1>12, <2>1, <2>2, <2>3 DEF Stage, Receiving
<1>14. Resumable'
  <2>1. meta'.tag # None => meta'.tag = w[p].body /\ meta'.received = w[p].got
    BY <1>0, <1>12, Received
  <2>. QED  BY <1>4, <1>7, <1>11, <2>1 DEF Resumable, Beginning
<1>15. (part' # None => part' # final') /\ PublishedIsWhole'
  BY <1>4, <1>5, <1>7, <1>10 DEF PublishedIsWhole
<1>. QED  BY <1>0, <1>4, <1>8, <1>13, <1>14, <1>15, Only, FilesFrom

LEMMA ReadFiles ==
  ASSUME Types, Files, NEW p \in Program, Read(p) PROVE Files'
<1>0. w[p].phase = "read" /\ w[p] \in Worker /\ w[p].out \in Inode /\ w[p].out # None
  BY Constants DEF Read, Types, Placed
<1>1. CASE Leave(p, "failed") \/ (w[p].cancel /\ Leave(p, "cancelled"))
  BY <1>0, <1>1, LeaveFiles
<1>2. CASE w[p].next <= Size[w[p].body] /\ Move(p, "write") /\ UNCHANGED files
  <2>1. PICK v : v = [w[p] EXCEPT !.phase = "write"]  OBVIOUS
  <2>2. v \in Worker  BY <1>0, <2>1 DEF Worker, Phase
  <2>3. /\ v.phase = "write" /\ v.out = w[p].out /\ v.body = w[p].body
        /\ v.got = w[p].got /\ v.next = w[p].next /\ v.tag = w[p].tag
    BY <1>0, <2>1 DEF Worker
  <2>4. Stage(v)
    BY <1>0, <1>2, <2>3, Received DEF Stage, Receiving, Files
  <2>5. Step(p, v)  BY <1>2, <2>1 DEF Move
  <2>. QED  BY <1>0, <1>2, <2>2, <2>4, <2>5, Only, QuietFiles
<1>3. CASE /\ w[p].next > Size[w[p].body] \/ w[p].sized
           /\ Step(p, [w[p] EXCEPT !.phase = "end", !.out = None])
           /\ UNCHANGED <<part, meta, final>> /\ Sweep(disk)
  <2>1. PICK v : v = [w[p] EXCEPT !.phase = "end", !.out = None]  OBVIOUS
  <2>2. v \in Worker  BY <1>0, <2>1 DEF Worker, Phase
  <2>3. /\ v.phase = "end" /\ v.out = None /\ v.body = w[p].body
        /\ v.got = w[p].got /\ v.next = w[p].next /\ v.tag = w[p].tag
    BY <1>0, <2>1 DEF Worker
  <2>4. v.sized = w[p].sized  BY <1>0, <2>1 DEF Worker
  <2>5. w[p].sized \/ w[p].got = Size[w[p].body]
    <3>1. w[p].next > Size[w[p].body] => w[p].got = Size[w[p].body]
      BY <1>0, Received
    <3>. QED  BY <1>3, <3>1
  <2>6. Step(p, v) /\ Kept  BY <1>3, <2>1, SweptKept DEF Types
  <2>7. Stage(v)
    BY <1>0, <2>3, <2>4, <2>5, Received, Constants DEF Stage, Receiving
  <2>8. Stage(v)'  BY <1>3, <2>6, <2>7, StageKept
  <2>. QED  BY <1>0, <1>3, <2>2, <2>6, <2>8, Only, KeptFiles, FilesFrom
<1>. QED  BY <1>1, <1>2, <1>3 DEF Read

LEMMA WriteFiles ==
  ASSUME Types, Files, NEW p \in Program, Write(p) PROVE Files'
<1>0. w[p].phase = "write" /\ w[p] \in Worker /\ w[p].out \in Inode /\ w[p].out # None
  BY Constants DEF Write, Types, Placed
<1>1. CASE Leave(p, "failed") \/ (w[p].cancel /\ Leave(p, "cancelled"))
  BY <1>0, <1>1, LeaveFiles
<1>2. CASE /\ disk' = [disk EXCEPT ![w[p].out] =
                  Written(disk[w[p].out], Place(p), [of |-> w[p].body, at |-> w[p].next])]
           /\ Step(p, [w[p] EXCEPT !.phase = "count", !.next = w[p].next + 1,
                                   !.got = w[p].got + 1])
           /\ UNCHANGED <<part, meta, final>>
  <2>0. /\ w[p].next = w[p].got + 1 /\ w[p].got \in Nat /\ w[p].got + 1 \in Nat
        /\ w[p].next + 1 \in Nat /\ w[p].body \in Entity /\ w[p].out = part
        /\ w[p].offset \in Nat
        /\ disk[part] \in Seq(Chunk) /\ Beginning(disk[part], w[p].body, w[p].got)
    BY <1>0, Received
  <2>1. PICK v : v = [w[p] EXCEPT !.phase = "count", !.next = w[p].next + 1,
                                  !.got = w[p].got + 1]
    OBVIOUS
  <2>2. v \in Worker
    <3>1. "count" \in Phase  BY DEF Phase
    <3>. QED  BY <1>0, <2>0, <2>1, <3>1 DEF Worker
  <2>3. /\ v.phase = "count" /\ v.out = part /\ v.body = w[p].body
        /\ v.got = w[p].got + 1 /\ v.next = v.got + 1 /\ v.tag = w[p].tag
    BY <1>0, <2>0, <2>1 DEF Worker
  <2>4. Place(p) = w[p].got + 1
    <3>1. Len(disk[part]) = w[p].got  BY <2>0, BeginningType
    <3>. QED  BY <2>0, <3>1 DEF Place
  <2>5. w[p].got + 1 <= Size[w[p].body] /\ w[p].tag \in {w[p].body, None}
        /\ meta = [tag |-> w[p].tag, received |-> w[p].got]
        /\ PublishedIsWhole /\ part # final
    BY <1>0, <2>0, Received DEF Files, Stage
  <2>6. Beginning(disk'[part], w[p].body, w[p].got + 1)
    <3>1. Beginning(Written(disk[part], w[p].got + 1, [of |-> w[p].body, at |-> w[p].got + 1]),
                    w[p].body, w[p].got + 1)
      BY <2>0, <2>5, NextChunk
    <3>2. disk'[part] = Written(disk[part], w[p].got + 1, [of |-> w[p].body, at |-> w[p].got + 1])
      BY <1>0, <1>2, <2>0, <2>4 DEF Types, FileTypes
    <3>. QED  BY <3>1, <3>2
  <2>7. final # None => disk'[final] = disk[final]
    BY <1>2, <2>0, <2>5 DEF Types, FileTypes
  <2>8. Stage(v)'
    <3>1. Beginning(disk[part], v.body, v.got)'
      BY <1>2, <2>3, <2>6 DEF Beginning
    <3>2. part' = part /\ part # None /\ v.got <= Size[v.body]  BY <1>0, <1>2, <2>0, <2>3, <2>5
    <3>. QED  BY <2>3, <2>5, <3>1, <3>2 DEF Stage, Receiving
  <2>9. Resumable'
    <3>1. disk'[part] \in Seq(Chunk)
      <4>1. [of |-> w[p].body, at |-> w[p].next] \in Chunk  BY <2>0 DEF Chunk
      <4>2. Written(disk[part], Place(p), [of |-> w[p].body, at |-> w[p].next]) \in Seq(Chunk)
        BY <2>0, <2>4, <4>1, WrittenType
      <4>. QED  BY <1>0, <1>2, <2>0, <4>2 DEF Types, FileTypes
    <3>2. Len(disk'[part]) = w[p].got + 1  BY <2>0, <2>6, <3>1, BeginningType
    <3>3. meta'.received = w[p].got /\ part' = part  BY <1>2, <2>5
    <3>. QED  BY <2>0, <3>2, <3>3 DEF Resumable, Usable
  <2>10. Step(p, v)  BY <1>2, <2>1
  <2>11. (part' # None => part' # final') /\ PublishedIsWhole'
    BY <1>2, <2>5, <2>7 DEF PublishedIsWhole
  <2>. QED  BY <1>0, <2>2, <2>8, <2>9, <2>10, <2>11, Only, FilesFrom
<1>. QED  BY <1>1, <1>2 DEF Write

LEMMA EndFiles ==
  ASSUME Types, Files, NEW p \in Program, End(p) PROVE Files'
<1>0. w[p].phase = "end" /\ w[p] \in Worker /\ w[p].out = None
  BY DEF End, Types, Placed
<1>1. CASE Leave(p, "failed") \/ (w[p].cancel /\ Leave(p, "cancelled"))
  BY <1>0, <1>1, LeaveFiles
<1>2. CASE Enough(p) /\ Move(p, "link") /\ UNCHANGED files
  <2>1. PICK v : v = [w[p] EXCEPT !.phase = "link"]  OBVIOUS
  <2>2. v \in Worker  BY <1>0, <2>1 DEF Worker, Phase
  <2>3. /\ v.phase = "link" /\ v.out = None /\ v.body = w[p].body
        /\ v.got = w[p].got /\ v.next = w[p].next /\ v.tag = w[p].tag
    BY <1>0, <2>1 DEF Worker
  <2>4. w[p].got = Size[w[p].body]
    BY <1>0, <1>2 DEF Enough, Files, Stage
  <2>5. Stage(v)
    BY <1>0, <2>3, <2>4, Received, Constants DEF Stage, Receiving
  <2>6. Step(p, v)  BY <1>2, <2>1 DEF Move
  <2>. QED  BY <1>0, <1>2, <2>2, <2>5, <2>6, Only, QuietFiles
<1>. QED  BY <1>1, <1>2 DEF End

LEMMA LinkFiles ==
  ASSUME Types, Files, NEW p \in Program, Link(p) PROVE Files'
<1>0. w[p].phase = "link" /\ w[p] \in Worker /\ w[p].out = None
  BY DEF Link, Types, Placed
<1>1. CASE Leave(p, "failed")  BY <1>0, <1>1, LeaveFiles
<1>2. CASE /\ final' = part /\ part' = None
           /\ Step(p, [w[p] EXCEPT !.phase = "unlink", !.then = "done"])
           /\ UNCHANGED <<disk, meta>>
  <2>1. PICK v : v = [w[p] EXCEPT !.phase = "unlink", !.then = "done"]  OBVIOUS
  <2>2. v \in Worker  BY <1>0, <2>1 DEF Worker, Phase
  <2>3. v.phase = "unlink" /\ v.then = "done" /\ v.out = None
    BY <1>0, <2>1 DEF Worker
  <2>4. Stage(v)'  BY <1>2, <2>3 DEF Stage, Receiving
  <2>5. w[p].got = Size[w[p].body]  BY <1>0 DEF Files, Stage
  <2>6. disk[part] = Whole(w[p].body) /\ w[p].body \in Entity
    BY <1>0, <2>5, Received, WholeBeginning
  <2>7. PublishedIsWhole'  BY <1>2, <2>6 DEF PublishedIsWhole, Whole
  <2>8. Resumable'  BY <1>2 DEF Resumable, Usable
  <2>9. Step(p, v) /\ part' = None  BY <1>2, <2>1
  <2>. QED  BY <1>0, <2>2, <2>4, <2>7, <2>8, <2>9, Only, FilesFrom
<1>. QED  BY <1>1, <1>2 DEF Link

LEMMA BreakFiles ==
  ASSUME Types, Files, NEW p \in Program, Break(p) PROVE Files'
<1>0. w[p].phase # "idle" /\ Step(p, Idle) /\ UNCHANGED final /\ Sweep(disk)
      /\ (part' = None \/ UNCHANGED <<part, meta>>)
  BY DEF Break
<1>1. PICK v \in Worker : v = Idle  BY IdleWorker
<1>2. v.phase = "idle" /\ v.out = None  BY <1>1 DEF Idle
<1>3. Stage(v)'  BY <1>2, AwayStage
<1>4. Kept  BY <1>0, SweptKept DEF Types
<1>. QED  BY <1>0, <1>1, <1>3, <1>4, Only, KeptFiles, FilesFrom

LEMMA TransferFiles ==
  ASSUME Types, Files, NEW p \in Program, Transfer(p) PROVE Files'
BY StartFiles, UnlinkFiles, AskFiles, CountFiles, OpenFiles, ReadFiles, WriteFiles,
   EndFiles, LinkFiles, BreakFiles DEF Transfer

-----------------------------------------------------------------------------
(* The files, and what happens around the downloads.                       *)

LEMMA BeginFiles ==
  ASSUME ~Together, Types, Employed, Files,
         (\E j \in Job : CreateDownload(j)) \/ RunDownload \/ WindowDownload
  PROVE  Files'
<1>1. ASSUME NEW j \in Job, CreateDownload(j) PROVE Files'
  <2>1. /\ \A q \in Program : Busy(q) => q = "web"
        /\ UNCHANGED files
        /\ Step("web", [Idle EXCEPT !.phase = "queued", !.job = j])
    BY <1>1 DEF CreateDownload, Admits, Step
  <2>2. PICK v \in Worker : v = [Idle EXCEPT !.phase = "queued", !.job = j]
    BY IdleWorker
  <2>3. v.phase = "queued" /\ v.offset = 0 /\ v.out = None  BY <2>2 DEF Idle
  <2>4. Stage(v)  BY <2>3 DEF Stage, Receiving
  <2>. QED  BY <2>1, <2>2, <2>4, QuietFiles DEF Program
<1>2. CASE RunDownload
  <2>1. w["web"] \in Worker /\ w["web"].phase = "queued" /\ w["web"].out = None
        /\ w["web"].offset = 0 /\ UNCHANGED files
    BY <1>2 DEF RunDownload, Types, Placed, Files, Stage, Program
  <2>2. PICK v : v = [w["web"] EXCEPT !.phase = "start"]  OBVIOUS
  <2>3. v \in Worker  BY <2>1, <2>2 DEF Worker, Phase
  <2>4. v.phase = "start" /\ v.offset = 0 /\ v.out = None
    BY <2>1, <2>2 DEF Worker
  <2>5. Stage(v)  BY <2>4 DEF Stage, Receiving
  <2>6. Step("web", v)  BY <1>2, <2>2 DEF RunDownload, Move
  <2>7. \A q \in Program : Busy(q) => q = "web"  BY <2>1, Only DEF Program
  <2>. QED  BY <2>1, <2>3, <2>5, <2>6, <2>7, QuietFiles DEF Program
<1>3. CASE WindowDownload
  <2>1. /\ \A q \in Program : Busy(q) => q = "desk"
        /\ UNCHANGED files
        /\ Step("desk", [Idle EXCEPT !.phase = "start", !.job = Window])
    BY <1>3 DEF WindowDownload, Admits
  <2>2. PICK v \in Worker : v = [Idle EXCEPT !.phase = "start", !.job = Window]
    BY IdleWorker
  <2>3. v.phase = "start" /\ v.offset = 0 /\ v.out = None  BY <2>2 DEF Idle
  <2>4. Stage(v)  BY <2>3 DEF Stage, Receiving
  <2>. QED  BY <2>1, <2>2, <2>4, QuietFiles DEF Program
<1>. QED  BY <1>1, <1>2, <1>3

\* A step after which the workers that are left are where they were.
LEMMA FilesAround ==
  ASSUME Types, Files, Kept, UNCHANGED <<part, meta>>, UNCHANGED final \/ final' = None,
         \A q \in Program : w'[q] = w[q] \/ w'[q] = Idle
  PROVE  Files'
<1>1. Idle.phase = "idle" /\ Idle.out = None  BY DEF Idle
<1>2. Alone'  BY <1>1 DEF Files, Alone, Busy
<1>3. ASSUME NEW q \in Program PROVE Stage(w[q])'
  <2>1. PICK u : u = w'[q]  OBVIOUS
  <2>2. CASE u = w[q]
    <3>1. Stage(u)'  BY <2>2, StageKept DEF Files
    <3>. QED  BY <2>1, <3>1 DEF Stage, Beginning
  <2>3. CASE u = Idle
    <3>1. Stage(u)'  BY <1>1, <2>3, AwayStage
    <3>. QED  BY <2>1, <3>1 DEF Stage, Beginning
  <2>. QED  BY <2>1, <2>2, <2>3
<1>. QED  BY <1>2, <1>3, KeptFiles DEF Files

LEMMA CancelFiles ==
  ASSUME Types, Files, NEW j \in Job \cup {Window}, CancelDownload(j) PROVE Files'
<1>1. UNCHANGED <<part, meta, final>> /\ Kept
  BY SweptKept DEF CancelDownload, files, Types
<1>2. Alone'  BY Cancels DEF Files, Alone, Busy
<1>3. ASSUME NEW q \in Program PROVE Stage(w[q])'
  <2>1. PICK u : u = w'[q]  OBVIOUS
  <2>2. /\ u.phase = w[q].phase /\ u.then = w[q].then
        /\ u.offset = w[q].offset /\ u.tag = w[q].tag /\ u.body = w[q].body
        /\ u.next = w[q].next /\ u.got = w[q].got /\ u.out = w[q].out
    BY <2>1, Cancels
  <2>3. u.sized = w[q].sized  BY <2>1, Cancels
  <2>4. Stage(w[q])  BY DEF Files
  <2>5. Stage(u)  BY <2>2, <2>3, <2>4 DEF Stage
  <2>6. Stage(u)'  BY <1>1, <2>5, StageKept
  <2>. QED  BY <2>1, <2>6 DEF Stage, Beginning
<1>. QED  BY <1>1, <1>2, <1>3, KeptFiles DEF Files

LEMMA AroundFiles ==
  ASSUME Types, Files,
         \/ UNCHANGED vars \/ Stream \/ LeaveStream \/ RemoveFinal \/ Replace
         \/ \E j \in Job : OpenStream(j)
         \/ \E p \in Program : Report(p) \/ Die(p)
  PROVE  Files'
<1>1. /\ Sweep(disk) \/ UNCHANGED disk
      /\ UNCHANGED <<part, meta>> /\ (UNCHANGED final \/ final' = None)
  BY DEF vars, Stream, LeaveStream, RemoveFinal, Replace, OpenStream, Report, Die, files
<1>2. \A q \in Program : w'[q] = w[q] \/ w'[q] = Idle
  <2>1. ASSUME NEW p \in Program, Step(p, Idle), NEW q \in Program
        PROVE  w'[q] = w[q] \/ w'[q] = Idle
    BY <2>1 DEF Step, Types
  <2>. QED  BY <2>1 DEF vars, Stream, LeaveStream, RemoveFinal, Replace, OpenStream, Report, Die
<1>3. Kept  BY <1>1, SweptKept DEF Types
<1>. QED  BY <1>1, <1>2, <1>3, FilesAround

LEMMA FilesStep ==
  ASSUME ~Together, Types, Employed, Files, [Next]_vars PROVE Files'
BY TransferFiles, BeginFiles, CancelFiles, AroundFiles DEF Next

-----------------------------------------------------------------------------
(* What follows.                                                           *)

LEMMA TypesBegin == Init => Types /\ Employed /\ Files
<1>. SUFFICES ASSUME Init PROVE Types /\ Employed /\ Files  OBVIOUS
<1>1. w \in [Program -> Worker] /\ \A p \in Program : w[p] = Idle
  BY IdleWorker DEF Init
<1>2. Idle.phase = "idle" /\ Idle.out = None  BY DEF Idle
<1>3. disk \in [Inode -> Seq(Chunk)]  BY DEF Init
<1>4. Types
  BY <1>1, <1>3, IdleWorker DEF Init, Types, FileTypes
<1>5. Employed
  BY <1>1, <1>2 DEF Init, Employed, OpenJobsHaveTheirWorker, Busy, Open
<1>6. \A p \in Program : Stage(w[p])  BY <1>1, <1>2 DEF Stage, Receiving
<1>7. Files
  BY <1>1, <1>2, <1>6
  DEF Init, Files, Alone, Busy, PublishedIsWhole, Resumable, Usable
<1>. QED  BY <1>4, <1>5, <1>7

LEMMA TypesHold == Spec => [](Types /\ Employed)
<1>1. Init => Types /\ Employed  BY TypesBegin
<1>2. Types /\ Employed /\ [Next]_vars => (Types /\ Employed)'
  BY TypesStep, EmployedStep
<1>. QED  BY <1>1, <1>2, PTL DEF Spec

LEMMA FilesHold == ASSUME ~Together PROVE Spec => []Files
<1>1. Init => Files  BY TypesBegin
<1>2. Types /\ Employed /\ Files /\ [Next]_vars => Files'  BY FilesStep
<1>. QED  BY <1>1, <1>2, TypesHold, PTL DEF Spec

LEMMA TypesAreOK == Types /\ Employed => TypeOK
<1>. SUFFICES ASSUME Types, Employed PROVE TypeOK  OBVIOUS
<1>1. \A i \in Inode : \A k \in DOMAIN disk[i] : disk[i][k] \in Chunk
  BY DEF Types, FileTypes
<1>2. reader.job \in Job \cup {None} /\ reader.sent \in {"nothing"} \cup Open
  BY DEF Types, NoStream
<1>3. orphans \subseteq {j \in Job \cup {Window} : status[j] \in Open}
  BY DEF Types, Employed
<1>. QED  BY <1>1, <1>2, <1>3 DEF TypeOK, Types, FileTypes

LEMMA WholeType ==
  ASSUME NEW e \in Entity
  PROVE  Whole(e) \in Seq(Chunk) /\ Len(Whole(e)) = Size[e]
         /\ \A i \in 1..Size[e] : Whole(e)[i] = [of |-> e, at |-> i]
<1>1. Size[e] \in Nat  BY Constants
<1>2. \A i \in 1..Size[e] : [of |-> e, at |-> i] \in Chunk  BY <1>1 DEF Chunk
<1>3. Whole(e) \in [1..Size[e] -> Chunk]  BY <1>2 DEF Whole
<1>. QED  BY <1>1, <1>3 DEF Whole

\* The beginning of an entity is what SubSeq takes of the whole of it.
LEMMA Prefix ==
  ASSUME NEW e \in Entity, NEW n \in Nat, NEW s \in Seq(Chunk), Beginning(s, e, n)
  PROVE  s = SubSeq(Whole(e), 1, n)
<1>1. n <= Size[e] /\ Size[e] \in Nat /\ s = [i \in 1..n |-> [of |-> e, at |-> i]]
  BY Constants DEF Beginning
<1>. DEFINE t == SubSeq(Whole(e), 1, n)
<1>2. \A i \in 1..n : Whole(e)[i] \in Chunk /\ Whole(e)[i] = [of |-> e, at |-> i]
  BY <1>1, WholeType DEF Chunk
<1>3. t \in Seq(Chunk) /\ Len(t) = n /\ \A i \in 1..n : t[i] = Whole(e)[i]
  <2>1. /\ t \in Seq(Chunk)
        /\ Len(t) = (IF 1 <= n THEN n - 1 + 1 ELSE 0)
        /\ \A i \in 1..n - 1 + 1 : t[i] = Whole(e)[1 + i - 1]
    <3>1. PICK all : all = Whole(e)  OBVIOUS
    <3>2. \A i \in 1..n : all[i] \in Chunk  BY <1>2, <3>1
    <3>3. 1 \in Int /\ n \in Int  OBVIOUS
    <3>. HIDE DEF t
    <3>4. /\ SubSeq(all, 1, n) \in Seq(Chunk)
          /\ Len(SubSeq(all, 1, n)) = (IF 1 <= n THEN n - 1 + 1 ELSE 0)
          /\ \A i \in 1..n - 1 + 1 : SubSeq(all, 1, n)[i] = all[1 + i - 1]
      BY <3>2, <3>3, SubSeqProperties
    <3>. QED  BY <3>1, <3>4 DEF t
  <2>. HIDE DEF t
  <2>. QED  BY <2>1
<1>. HIDE DEF t
<1>4. Len(s) = n /\ \A i \in 1..n : s[i] = [of |-> e, at |-> i]
  BY <1>1, BeginningType
<1>5. s = t  BY <1>2, <1>3, <1>4, SeqEqual
<1>. QED  BY <1>5 DEF t

LEMMA FilesAreSound == Types /\ Employed /\ Files => FilesAndJobsAreSound
<1>. SUFFICES ASSUME Types, Employed, Files PROVE FilesAndJobsAreSound  OBVIOUS
<1>1. ResumableIsABeginning
  <2>. SUFFICES ASSUME Usable, meta.tag # None
                PROVE  /\ meta.received <= Size[meta.tag]
                       /\ disk[part] = SubSeq(Whole(meta.tag), 1, meta.received)
    BY DEF ResumableIsABeginning
  <2>1. Beginning(disk[part], meta.tag, meta.received)  BY DEF Files, Resumable
  <2>2. meta.tag \in Entity /\ meta.received \in Nat /\ disk[part] \in Seq(Chunk)
    BY DEF Usable, Types, FileTypes, Sidecar
  <2>. QED  BY <2>1, <2>2, Prefix DEF Beginning
<1>. QED  BY <1>1, TypesAreOK DEF FilesAndJobsAreSound, Files, Employed

\* Whether or not the two programs download at the same time: a job that has
\* not ended has a worker that has no other job, or is one of the orphans
\* (create_download, _download_worker_active, _run_download).
THEOREM JobsHaveTheirWorker == Spec => [](TypeOK /\ OpenJobsHaveTheirWorker)
<1>1. Types /\ Employed => TypeOK /\ OpenJobsHaveTheirWorker
  BY TypesAreOK DEF Employed
<1>. QED  BY <1>1, TypesHold, PTL

\* As long as one program at a time downloads the file, what has the name of
\* the model is the whole of one entity, and what the next transfer resumes is
\* the beginning of the entity the sidecar names, whatever was interrupted,
\* failed, cancelled, removed, or replaced on the Hub (download).
THEOREM FilesHoldTogether ==
  ASSUME ~Together PROVE Spec => []FilesAndJobsAreSound
BY FilesAreSound, TypesHold, FilesHold, PTL

\* Only a worker that has taken its files away reports a job as cancelled.
LEMMA Cancelled ==
  ASSUME Types, Employed, Files, [Next]_vars,
         NEW j \in DOMAIN status, status[j] # "cancelled", status'[j] = "cancelled"
  PROVE  part = None /\ meta = None
<1>0. DOMAIN status = Job \cup {Window}  BY DEF Types
<1>1. ASSUME NEW p \in Program, Report(p) PROVE part = None /\ meta = None
  <2>1. PICK s \in Ended : /\ status' = [status EXCEPT ![w[p].job] = s]
                           /\ s = "cancelled" => w[p].phase = "cancelled"
    BY <1>1, TellsAnEnd
  <2>2. w[p].phase = "cancelled"  BY <2>1
  <2>. QED  BY <2>2 DEF Files, Stage
<1>2. ASSUME NEW p \in Program, Transfer(p) PROVE FALSE
  <2>1. UNCHANGED status  BY <1>2, TransferCarries DEF Running, Break
  <2>. QED  BY <2>1
<1>3. ASSUME NEW i \in Job, CreateDownload(i) PROVE FALSE
  <2>1. status' = [Purged EXCEPT ![i] = "queued"]  BY <1>3 DEF CreateDownload
  <2>2. DOMAIN Purged = DOMAIN status /\ Purged[j] \in {status[j], "none"}
    BY DEF Purged
  <2>. QED  BY <2>1, <2>2
<1>4. ASSUME NEW p \in Program, Die(p) PROVE FALSE
  BY <1>4 DEF Die
<1>. QED
  BY <1>1, <1>2, <1>3, <1>4
  DEF Next, vars, OpenStream, RunDownload, WindowDownload, CancelDownload, Stream,
      LeaveStream, RemoveFinal, Replace

\* As long as one program at a time downloads, a job becomes cancelled only
\* when nothing of its transfer is left in the folder (download's finally).
THEOREM CancelledJobsLeaveNothing ==
  ASSUME ~Together PROVE Spec => CancelledLeavesNothing
<1>1. Types /\ Employed /\ Files /\ [Next]_vars =>
        [\A j \in DOMAIN status :
           (status[j] # "cancelled" /\ status'[j] = "cancelled") =>
             part = None /\ meta = None]_vars
  BY Cancelled
<1>. QED  BY <1>1, TypesHold, FilesHold, PTL DEF Spec, CancelledLeavesNothing

-----------------------------------------------------------------------------
(* The window: the invariant.                                              *)

OfWindow ==
  /\ phase \in {"open", "closing", "cleaned", "closed"} /\ acts \in Deed
  /\ chats \in [ChatId -> Seq(Entry) \cup {None}] /\ cur \in Present
  /\ loaded \in Choice \cup {None} /\ servers \in [Model -> Memory \cup {None}]
  /\ work \in Answering \cup {None} /\ action \in Errand \cup {None}
  /\ work # None => work.chat = cur /\ action = None
  /\ stop \in BOOLEAN /\ polls \in BOOLEAN /\ lost \in BOOLEAN
OfVoice ==
  /\ voiceBusy \in BOOLEAN /\ mute \in BOOLEAN /\ heard \in {0, 1} /\ wavs \subseteq Deed
  /\ ptt \in Recorder \cup {None} /\ pttModel \in BOOLEAN /\ pttPath \in Deed \cup {None}
  /\ jobs \subseteq Listening
DesktopTypes == OfWindow /\ OfVoice

\* Of one recording or transcription at a time a result is still to come: the
\* controls are busy until the window has heard of it.
Heeded == {j \in jobs : j.pc \in {"start", "record", "work"}}
Taking == ptt # None /\ ptt.pc # "taken"
OneVoice ==
  /\ heard = 1 => ~Taking /\ Heeded = {}
  /\ Taking => Heeded = {}
  /\ \A i, j \in Heeded : i = j
  /\ heard = 1 \/ Taking \/ Heeded # {} => voiceBusy
  /\ voiceBusy => acts > 0

\* A file is recorded once and worked on by one thread.
OneFileEach ==
  /\ \A j \in jobs : j.file \in 1..acts
  /\ \A i, j \in jobs : i.file = j.file => i = j
  /\ ptt # None => ptt.file \in 1..acts
  /\ Taking => \A j \in jobs : j.file # ptt.file

\* Messages are of their chat, and of acts of the past.
Conversations ==
  /\ \A c \in Present : \A i \in DOMAIN chats[c] : chats[c][i].of[1] = c /\ chats[c][i].of[2] <= acts
  /\ polls => \A c \in Present : HoldsWholes(chats[c])

\* What the worker has seen of the chat is still so, and the server it has been
\* given knows no other chat.
Generating ==
  work # None =>
    /\ work.of[1] = cur /\ work.of[2] <= acts
    /\ \A x \in work.prior : x[1] = cur
    /\ polls => work.prior = Exchanges(chats[cur]) /\ work.of \notin Exchanges(chats[cur])
    /\ work.pc = "load" => loaded = None
    /\ (work.end # None) = (work.pc = "done")
    /\ work.pc \in {"ask", "check", "put"} \/ work.end = "complete" =>
         /\ loaded = None \/ loaded.model = work.model
         /\ \A x \in Knows(work.model) : x[1] = cur
    /\ ~work.agent /\ (work.pc \in {"check", "put"} \/ work.end = "complete") /\ loaded # None =>
         work.of \in Knows(work.model)

\* What is loaded has a server, which knows the chat the window shows.
Remembering ==
  loaded # None =>
    /\ servers[loaded.model] # None /\ servers[loaded.model].ready
    /\ loaded.key[1] = loaded.model
    /\ \A x \in Knows(loaded.model) : x[1] = cur
    /\ polls /\ loaded.by = "send" => Exchanges(chats[cur]) \subseteq Knows(loaded.model)

\* While a model is loaded or unloaded on request nothing else is.
Acting ==
  action # None =>
    /\ action.pc = "load" => action.kind = "load" /\ loaded = None
    /\ action.kind = "unload" /\ action.pc = "begin" /\ loaded # None => loaded.model = action.model

\* Every server is one that an unload of what is loaded takes along, or one
\* that is being started; while the window closes, none is left to come.
Known(n) ==
  \/ loaded # None /\ BackendOf[n] = BackendOf[loaded.model] /\ servers[n].ready
  \/ work # None /\ work.pc = "load" /\ n = work.model
  \/ /\ action # None /\ action.pc = "load"
     /\ n = action.model \/ (BackendOf[n] = BackendOf[action.model] /\ servers[n].ready)
Accounted ==
  ~lost =>
    /\ \A n \in Model : servers[n] # None => Known(n)
    /\ phase \in {"cleaned", "closed"} =>
         loaded = None /\ action = None /\ (work # None => work.pc \notin {"begin", "load"})

DesktopInv ==
  /\ DesktopTypes /\ OneVoice /\ OneFileEach /\ Conversations
  /\ Generating /\ Remembering /\ Acting /\ Accounted

VoiceActs ==
  \/ PushToTalk \/ \E kind \in {"timed", "file"} : Transcribe(kind)
  \/ RecorderSteps \/ VoicePolls \/ JobSteps \/ PollVoice

-----------------------------------------------------------------------------
(* Voice input, and the rest of the window, do not touch each other.       *)

\* Acts of the user that do not talk.
LEMMA VoiceLater ==
  ASSUME DesktopInv, UNCHANGED voice, acts' \in Deed, acts' >= acts
  PROVE  OneVoice' /\ OneFileEach'
<1>1. acts \in Nat /\ acts' \in Nat BY CostAssumption DEF DesktopInv, DesktopTypes, OfWindow, Deed
<1>2. OneVoice' BY <1>1 DEF DesktopInv, OneVoice, Heeded, Taking, voice
<1>3. OneFileEach' BY <1>1 DEF DesktopInv, OneFileEach, Taking, voice
<1>. QED BY <1>2, <1>3

\* Steps of voice input, to the rest.
LEMMA RestLater ==
  ASSUME DesktopInv, UNCHANGED <<phase, store, runtime, turn, action, lost>>, acts' \in Deed, acts' >= acts
  PROVE  Conversations' /\ Generating' /\ Remembering' /\ Acting' /\ Accounted'
<1>1. acts \in Nat /\ acts' \in Nat BY CostAssumption DEF DesktopInv, DesktopTypes, OfWindow, Deed
<1>2. UNCHANGED <<phase, chats, cur, loaded, servers, work, stop, polls, action, lost>>
  BY DEF store, runtime, turn
<1>3. Present' = Present BY <1>2 DEF Present
<1>4. ASSUME NEW c \in Present, NEW i \in DOMAIN chats[c] PROVE chats[c][i].of[2] \in Nat
  <2>1. chats[c] \in Seq(Entry) BY DEF DesktopInv, DesktopTypes, OfWindow, Present
  <2>2. chats[c][i] \in Entry BY <2>1
  <2>. QED BY <2>2, CostAssumption DEF Entry, Exchange, Deed
<1>5. ASSUME NEW c \in Present, NEW i \in DOMAIN chats[c]
      PROVE  chats[c][i].of[1] = c /\ chats[c][i].of[2] <= acts'
  BY <1>1, <1>4 DEF DesktopInv, Conversations
<1>6. Conversations' BY <1>2, <1>3, <1>5 DEF DesktopInv, Conversations
<1>7. work # None => work.of[2] \in Nat BY CostAssumption DEF DesktopInv, DesktopTypes, OfWindow, Answering, Exchange, Deed
<1>8. Generating' BY <1>1, <1>2, <1>7 DEF DesktopInv, Generating, Exchanges, Knows
<1>9. Remembering' /\ Acting' BY <1>2 DEF DesktopInv, Remembering, Acting, Knows, Exchanges
<1>10. Accounted' BY <1>2 DEF DesktopInv, Accounted, Known
<1>. QED BY <1>6, <1>8, <1>9, <1>10

\* The types of voice input.
LEMMA VoiceTypes ==
  ASSUME DesktopInv, VoiceActs
  PROVE  OfVoice' /\ UNCHANGED <<phase, store, runtime, turn, action, lost>> /\ acts' \in Deed /\ acts' >= acts
<1>. USE DEF DesktopInv
<1>0. acts \in Nat /\ MaxActs \in Nat /\ acts >= acts /\ acts \in Deed BY CostAssumption DEF DesktopTypes, OfWindow, Deed
<1>1. CASE PushToTalk
  <2>1. acts' \in Deed /\ acts' >= acts BY <1>0, <1>1, CostAssumption DEF PushToTalk, Acts, Deed
  <2>2. ptt' \in Recorder BY <1>1, <2>1 DEF PushToTalk, Recorder
  <2>. QED BY <1>1, <2>1, <2>2 DEF PushToTalk, Acts, DesktopTypes, OfVoice, store, runtime, turn
<1>2. ASSUME NEW kind \in {"timed", "file"}, Transcribe(kind) PROVE UNCHANGED <<phase, store, runtime, turn, action, lost>> /\ OfVoice' /\ acts' \in Deed /\ acts' >= acts
  <2>1. acts' \in Deed /\ acts' >= acts BY <1>0, <1>2, CostAssumption DEF Transcribe, Acts, Deed
  <2>. DEFINE j == Task(kind, acts', TRUE, IF kind = "timed" THEN "start" ELSE "work")
  <2>3. j \in Listening BY <1>2, <2>1 DEF Listening, Task
  <2>4. jobs' = jobs \cup {j} BY <1>2 DEF Transcribe
  <2>. HIDE DEF j
  <2>2. jobs' \subseteq Listening BY <2>3, <2>4 DEF DesktopTypes, OfVoice
  <2>. QED BY <1>2, <2>1, <2>2 DEF Transcribe, Acts, DesktopTypes, OfVoice, store, runtime, turn
<1>3. CASE RecorderSteps
  <2>1. ptt \in Recorder /\ ptt' \in Recorder
    BY <1>3 DEF RecorderSteps, RecorderStarts, RecorderEnds, RecorderIsCancelled, DesktopTypes, OfVoice, Recorder
  <2>2. wavs' \subseteq Deed
    BY <1>3, <2>1 DEF RecorderSteps, RecorderStarts, RecorderEnds, RecorderIsCancelled, DesktopTypes, OfVoice, Recorder
  <2>. QED BY <1>0, <1>3, <2>1, <2>2 DEF RecorderSteps, RecorderStarts, RecorderEnds, RecorderIsCancelled, DesktopTypes, OfVoice, store, runtime, turn, window
<1>4. CASE VoicePolls
  <2>1. ptt \in Recorder BY <1>4 DEF VoicePolls, PollRecorded, PollUnrecorded, DesktopTypes, OfVoice
  <2>2. ptt' \in Recorder \cup {None} BY <1>4, <2>1 DEF VoicePolls, PollRecorded, PollUnrecorded, NoRecording, Recorder
  <2>3. jobs' \subseteq Listening BY <1>4, <2>1 DEF VoicePolls, PollRecorded, PollUnrecorded, DesktopTypes, OfVoice, Task, Listening, Recorder
  <2>4. heard' \in {0, 1}
    BY <1>4 DEF VoicePolls, PollRecorded, PollUnrecorded, DesktopTypes, OfVoice, OneVoice, Taking
  <2>. QED BY <1>0, <1>4, <2>2, <2>3, <2>4 DEF VoicePolls, PollRecorded, PollUnrecorded, NoRecording, DesktopTypes, OfVoice, store, runtime, turn, window
<1>5. ASSUME NEW j \in jobs, JobRecords(j) \/ JobWorks(j) \/ JobUnlinks(j) \/ JobCleans(j)
      PROVE UNCHANGED <<phase, store, runtime, turn, action, lost>> /\ OfVoice' /\ acts' \in Deed /\ acts' >= acts
  <2>1. j \in Listening BY DEF DesktopTypes, OfVoice
  <2>2. \A pc \in {"start", "record", "work", "unlink", "worker", "model", "path"} : At(j, pc) \subseteq Listening
    BY <2>1 DEF At, Listening, DesktopTypes, OfVoice
  <2>3. jobs' \subseteq Listening
    BY <1>5, <2>2 DEF JobRecords, JobWorks, JobUnlinks, JobCleans, DesktopTypes, OfVoice
  <2>4. heard' \in {0, 1}
    BY <1>5 DEF JobRecords, JobWorks, JobUnlinks, JobCleans, DesktopTypes, OfVoice, OneVoice, Heeded
  <2>5. wavs' \subseteq Deed
    BY <1>5, <2>1 DEF JobRecords, JobWorks, JobUnlinks, JobCleans, DesktopTypes, OfVoice, Listening
  <2>6. UNCHANGED <<phase, acts, store, runtime, turn, action, lost, voiceBusy>>
    BY <1>5 DEF JobRecords, JobWorks, JobUnlinks, JobCleans, window
  <2>7. ptt' \in {ptt, None} /\ pttModel' \in {pttModel, FALSE} /\ pttPath' \in {pttPath, None} /\ mute' \in {mute, TRUE}
    BY <1>5 DEF JobRecords, JobWorks, JobUnlinks, JobCleans
  <2>. QED BY <1>0, <2>3, <2>4, <2>5, <2>6, <2>7 DEF DesktopTypes, OfVoice, store, runtime, turn
<1>6. CASE PollVoice BY <1>0, <1>6 DEF PollVoice, BeReady, DesktopTypes, OfVoice, store, runtime, turn, window
<1>. QED BY <1>1, <1>2, <1>3, <1>4, <1>5, <1>6 DEF VoiceActs, JobSteps

LEMMA WindowLater ==
  ASSUME OfWindow, UNCHANGED <<phase, store, runtime, turn, action, lost>>, acts' \in Deed
  PROVE  OfWindow'
BY DEF OfWindow, Present, store, runtime, turn

\* Each result goes from the recorder to a thread and from it to the window.
LEMMA VoiceStep ==
  ASSUME DesktopInv, VoiceActs
  PROVE  OneVoice' /\ OneFileEach'
<1>. USE DEF DesktopInv
<1>0. acts \in Nat /\ acts' \in Nat /\ acts' >= acts BY VoiceTypes, CostAssumption DEF DesktopTypes, OfWindow, Deed
<1>1. CASE PushToTalk
  <2>1. /\ ~voiceBusy /\ voiceBusy' /\ acts' > acts /\ UNCHANGED <<jobs, heard>> /\ ptt' # None
        /\ ptt'.file = acts' /\ ptt'.pc = "starting"
    BY <1>1, WindowNone, CostAssumption, <1>0, VoiceTypes DEF PushToTalk, Acts, DesktopTypes, OfVoice, Recorder
  <2>2. OneVoice' BY <1>0, <2>1 DEF OneVoice, Heeded, Taking, DesktopTypes, OfVoice
  <2>3. OneFileEach' BY <1>0, <2>1 DEF OneFileEach, Taking
  <2>. QED BY <2>2, <2>3
<1>2. ASSUME NEW kind \in {"timed", "file"}, Transcribe(kind) PROVE OneVoice' /\ OneFileEach'
  <2>. DEFINE j == Task(kind, acts', TRUE, IF kind = "timed" THEN "start" ELSE "work")
  <2>1. ~voiceBusy /\ voiceBusy' /\ acts' > acts /\ UNCHANGED <<ptt, heard>> /\ jobs' = jobs \cup {j}
    BY <1>2, CostAssumption, <1>0 DEF Transcribe, Acts
  <2>2. j.file = acts' /\ j.pc \in {"start", "work"} BY DEF Task
  <2>. HIDE DEF j
  <2>3. Heeded' = {j} BY <2>1, <2>2 DEF OneVoice, Heeded
  <2>4. OneVoice' BY <1>0, <2>1, <2>3 DEF OneVoice, Taking, DesktopTypes, OfVoice
  <2>5. OneFileEach' BY <1>0, <2>1, <2>2 DEF OneFileEach, Taking
  <2>. QED BY <2>4, <2>5
<1>3. CASE RecorderSteps
  <2>1. ptt \in Recorder BY <1>3 DEF RecorderSteps, RecorderStarts, RecorderEnds, RecorderIsCancelled, DesktopTypes, OfVoice
  <2>2. ptt' # None BY <1>3, <2>1, WindowNone DEF RecorderSteps, RecorderStarts, RecorderEnds, RecorderIsCancelled, Recorder
  <2>3. /\ UNCHANGED <<acts, jobs, heard, voiceBusy>> /\ ptt'.file = ptt.file
        /\ (ptt'.pc = "taken") = (ptt.pc = "taken")
    BY <1>3, <2>1 DEF RecorderSteps, RecorderStarts, RecorderEnds, RecorderIsCancelled, Recorder, window
  <2>4. ptt # None BY <2>1, WindowNone
  <2>5. OneVoice' BY <2>2, <2>3, <2>4 DEF OneVoice, Heeded, Taking
  <2>6. OneFileEach' BY <2>2, <2>3, <2>4 DEF OneFileEach, Taking
  <2>. QED BY <2>5, <2>6
<1>4. CASE VoicePolls
  <2>1. ptt \in Recorder /\ ptt # None /\ ptt.pc # "taken" BY <1>4 DEF VoicePolls, PollRecorded, PollUnrecorded, DesktopTypes, OfVoice
  <2>2. Taking /\ heard = 0 /\ Heeded = {} /\ UNCHANGED <<acts, voiceBusy>>
    BY <1>4, <2>1 DEF Taking, OneVoice, VoicePolls, PollRecorded, PollUnrecorded, window, DesktopTypes, OfVoice
  <2>3. CASE ptt' = None /\ heard' = 1 /\ jobs' = jobs
    BY <2>2, <2>3 DEF OneVoice, OneFileEach, Taking, Heeded
  <2>4. ASSUME jobs' = jobs \cup {Task("ptt", ptt.file, pttModel, "work")}, ptt' = [ptt EXCEPT !.pc = "taken"], heard' = heard
        PROVE  OneVoice' /\ OneFileEach'
    <3>. DEFINE j == Task("ptt", ptt.file, pttModel, "work")
    <3>1. j.file = ptt.file /\ j.pc = "work" BY DEF Task
    <3>2. ptt'.pc = "taken" /\ ptt'.file = ptt.file BY <2>1, <2>4 DEF Recorder
    <3>3. jobs' = jobs \cup {j} BY <2>4
    <3>. HIDE DEF j
    <3>4. Heeded' = {j} BY <2>2, <3>1, <3>3 DEF Heeded
    <3>5. OneVoice' BY <2>2, <2>4, <3>2, <3>4 DEF OneVoice, Taking
    <3>6. OneFileEach' BY <2>2, <2>4, <3>1, <3>2, <3>3 DEF OneFileEach, Taking
    <3>. QED BY <3>5, <3>6
  <2>. QED BY <1>4, <2>2, <2>3, <2>4 DEF VoicePolls, PollRecorded, PollUnrecorded, NoRecording
<1>5. ASSUME NEW j \in jobs, JobRecords(j) \/ JobWorks(j) \/ JobUnlinks(j) \/ JobCleans(j)
      PROVE OneVoice' /\ OneFileEach'
  <2>1. j \in Listening BY DEF DesktopTypes, OfVoice
  <2>2. \A pc : [j EXCEPT !.pc = pc].file = j.file /\ [j EXCEPT !.pc = pc].pc = pc BY <2>1 DEF Listening
  <2>3. UNCHANGED <<acts, voiceBusy>> /\ ptt' \in {ptt, None}
    BY <1>5 DEF JobRecords, JobWorks, JobUnlinks, JobCleans, window
  <2>4. \/ jobs' = jobs \ {j}
        \/ \E pc : jobs' = At(j, pc)
    BY <1>5 DEF JobRecords, JobWorks, JobUnlinks, JobCleans
  <2>5. OneFileEach'
    <3>1. CASE jobs' = jobs \ {j} BY <2>3, <3>1 DEF OneFileEach, Taking
    <3>2. ASSUME NEW pc, jobs' = At(j, pc) PROVE OneFileEach'
      <4>. DEFINE k == [j EXCEPT !.pc = pc]
      <4>1. jobs' = (jobs \ {j}) \cup {k} BY <3>2 DEF At
      <4>2. k.file = j.file BY <2>2
      <4>. HIDE DEF k
      <4>. QED BY <2>3, <4>1, <4>2 DEF OneFileEach, Taking
    <3>. QED BY <2>4, <3>1, <3>2
  <2>6. CASE j \in Heeded
    <3>1. Heeded = {j} /\ heard = 0 /\ ~Taking /\ voiceBusy BY <2>6 DEF OneVoice, DesktopTypes, OfVoice
    <3>2. ~Taking' BY <2>3, <3>1 DEF Taking
    <3>3. \/ \E pc : jobs' = At(j, pc) /\ heard' = heard
          \/ jobs' = At(j, "unlink") /\ heard' = 1
      <4>1. j.pc \in {"start", "record", "work"} BY <2>6 DEF Heeded
      <4>2. CASE JobRecords(j) BY <3>1, <4>2 DEF JobRecords
      <4>3. CASE JobWorks(j) BY <3>1, <4>3 DEF JobWorks
      <4>. QED BY <1>5, <4>1, <4>2, <4>3 DEF JobUnlinks, JobCleans
    <3>4. CASE \E pc : jobs' = At(j, pc) /\ heard' = heard
      <4>1. PICK pc : jobs' = At(j, pc) /\ heard' = heard BY <3>4
      <4>2. \A i \in Heeded' : i = [j EXCEPT !.pc = pc] BY <3>1, <4>1 DEF Heeded, At
      <4>. QED BY <2>3, <2>5, <3>1, <3>2, <4>1, <4>2 DEF OneVoice
    <3>5. CASE jobs' = At(j, "unlink") /\ heard' = 1
      <4>1. \A i \in jobs' : i \in Heeded \ {j} \/ i.pc = "unlink" \/ i.pc \notin {"start", "record", "work"}
        BY <2>2, <3>5 DEF Heeded, At
      <4>1a. Heeded' = {} BY <3>1, <4>1 DEF Heeded
      <4>. QED BY <2>3, <2>5, <3>1, <3>2, <3>5, <4>1a DEF OneVoice
    <3>. QED BY <3>3, <3>4, <3>5
  <2>7. CASE j \notin Heeded
    <3>1. heard' = heard /\ (jobs' = jobs \ {j} \/ \E pc \in {"unlink", "worker", "model", "path"} : jobs' = At(j, pc))
      BY <1>5, <2>7 DEF JobRecords, JobWorks, JobUnlinks, JobCleans, Heeded
    <3>2. Heeded' = Heeded BY <2>2, <2>7, <3>1 DEF Heeded, At
    <3>3. Taking' => Taking BY <2>3 DEF Taking
    <3>. QED BY <2>3, <2>5, <3>1, <3>2, <3>3 DEF OneVoice
  <2>. QED BY <2>5, <2>6, <2>7
<1>6. CASE PollVoice
  <2>1. UNCHANGED <<acts, jobs, ptt>> /\ heard = 1 /\ heard' = 0 BY <1>6 DEF PollVoice, window, DesktopTypes, OfVoice
  <2>2. OneVoice' BY <1>6, <2>1 DEF OneVoice, Taking, Heeded, PollVoice, BeReady
  <2>3. OneFileEach' BY <2>1 DEF OneFileEach, Taking
  <2>. QED BY <2>2, <2>3
<1>. QED BY <1>1, <1>2, <1>3, <1>4, <1>5, <1>6 DEF VoiceActs, JobSteps

LEMMA ActsAreNumbers ==
  ASSUME OfWindow
  PROVE  acts \in Nat /\ MaxActs \in Nat /\ acts <= MaxActs /\ Deed = 0..MaxActs
BY CostAssumption DEF OfWindow, Deed

LEMMA ActCounts ==
  ASSUME OfWindow, Act
  PROVE  phase' = phase /\ phase # "closed" /\ acts' \in Deed /\ acts' > acts /\ acts' \in Nat
BY ActsAreNumbers, CostAssumption DEF Act, Acts, Alive, Deed

\* What a stored message is.
LEMMA Messages ==
  ASSUME OfWindow, NEW c \in Present
  PROVE  chats[c] \in Seq(Entry) /\ \A i \in DOMAIN chats[c] : chats[c][i] \in Entry /\ chats[c][i].of[2] \in Nat
<1>1. chats[c] \in Seq(Entry) BY DEF OfWindow, Present
<1>2. ASSUME NEW i \in DOMAIN chats[c] PROVE chats[c][i] \in Entry /\ chats[c][i].of[2] \in Nat
  <2>1. chats[c][i] \in Entry BY <1>1
  <2>. QED BY <2>1, CostAssumption DEF Entry, Exchange, Deed
<1>. QED BY <1>1, <1>2

LEMMA EmptyIsWhole == HoldsWholes(<<>>) /\ <<>> \in Seq(Entry) /\ <<>> # None
<1>1. {i \in DOMAIN <<>> : <<>>[i].role = "user"} = {} /\ Exchanges(<<>>) = {} BY DEF Exchanges
<1>2. <<>> \in Seq(Entry) OBVIOUS
<1>3. \A i : i \notin DOMAIN <<>> OBVIOUS
<1>4. HoldsWholes(<<>>)
  <2>1. Cardinality({i \in DOMAIN <<>> : <<>>[i].role = "user"}) = Cardinality(Exchanges(<<>>)) BY <1>1
  <2>. QED BY <1>3, <2>1 DEF HoldsWholes
<1>. QED BY <1>2, <1>4, WindowNone

\* Conversations that are new, or as they were.
LEMMA ConversationsKept ==
  ASSUME OfWindow, Conversations, acts' \in Deed, acts' >= acts, polls' => polls,
         \A c \in Present' : chats'[c] = <<>> \/ (c \in Present /\ chats'[c] = chats[c])
  PROVE  Conversations'
<1>1. acts \in Nat /\ acts' \in Nat BY ActsAreNumbers, CostAssumption DEF Deed
<1>2. ASSUME NEW c \in Present', NEW i \in DOMAIN chats'[c]
      PROVE  chats'[c][i].of[1] = c /\ chats'[c][i].of[2] <= acts'
  <2>1. c \in Present /\ chats'[c] = chats[c] BY <1>2
  <2>. QED BY <1>1, <1>2, <2>1, Messages DEF Conversations
<1>3. ASSUME polls', NEW c \in Present' PROVE HoldsWholes(chats'[c])
  BY <1>3, EmptyIsWhole DEF Conversations
<1>. QED BY <1>2, <1>3 DEF Conversations

-----------------------------------------------------------------------------
(* Chats, loads and unloads.                                               *)

\* An unload takes along what is ready on the runtime.
LEMMA Unloading ==
  ASSUME OfWindow, NEW m \in Model
  PROVE  /\ Unloaded(m) \in [Model -> Memory \cup {None}]
         /\ \A n \in Model : Unloaded(m)[n] \in {servers[n], None}
         /\ \A n \in Model : BackendOf[n] = BackendOf[m] /\ servers[n] # None /\ servers[n].ready => Unloaded(m)[n] = None
BY DEF OfWindow, Unloaded

AtLoad == (work # None /\ work.pc = "load") \/ (action # None /\ action.pc = "load")

LEMMA UnloadingCurrent ==
  ASSUME DesktopInv
  PROVE  /\ ServersWithoutCurrent \in [Model -> Memory \cup {None}]
         /\ \A n \in Model : ServersWithoutCurrent[n] \in {servers[n], None}
         /\ AtLoad => loaded = None /\ ServersWithoutCurrent = servers
         /\ ~lost /\ ~AtLoad => \A n \in Model : ServersWithoutCurrent[n] = None
<1>1. OfWindow BY DEF DesktopInv, DesktopTypes
<1>2. CASE loaded = None
  <2>1. ServersWithoutCurrent = servers BY <1>2 DEF ServersWithoutCurrent
  <2>2. ~lost /\ ~AtLoad => \A n \in Model : servers[n] = None
    BY <1>2 DEF DesktopInv, Accounted, Known, AtLoad
  <2>. QED BY <1>1, <1>2, <2>1, <2>2 DEF OfWindow
<1>3. CASE loaded # None
  <2>1. loaded.model \in Model BY <1>1, <1>3 DEF OfWindow, Choice
  <2>2. ServersWithoutCurrent = Unloaded(loaded.model) BY <1>3 DEF ServersWithoutCurrent
  <2>3. ~AtLoad BY <1>3 DEF DesktopInv, Generating, Acting, AtLoad
  <2>4. \A n \in Model : ~lost /\ servers[n] # None => BackendOf[n] = BackendOf[loaded.model] /\ servers[n].ready
    BY <2>3 DEF DesktopInv, Accounted, Known, AtLoad
  <2>. QED BY <1>1, <2>1, <2>2, <2>3, <2>4, Unloading
<1>. QED BY <1>2, <1>3

WindowParts == OfWindow /\ Conversations /\ Generating /\ Remembering /\ Acting /\ Accounted

\* A change of the chat.
LEMMA ChatStep ==
  ASSUME DesktopInv, NewChat \/ SelectChat \/ DeleteChat
  PROVE  WindowParts' /\ UNCHANGED voice /\ acts' \in Deed /\ acts' >= acts
<1>. USE DEF DesktopInv, DesktopTypes
<1>1. /\ phase' = phase /\ acts' \in Deed /\ acts' > acts /\ acts' \in Nat /\ acts \in Nat
      /\ work = None /\ UnloadCurrent /\ UNCHANGED <<work, stop, polls, action, voice, lost>>
  BY ActCounts, ActsAreNumbers DEF NewChat, SelectChat, DeleteChat, ForgetCurrent, turn
<1>2. /\ chats' \in [ChatId -> Seq(Entry) \cup {None}] /\ cur' \in ChatId /\ chats'[cur'] # None
      /\ \A c \in ChatId : chats'[c] # None => chats'[c] = <<>> \/ (chats[c] # None /\ chats'[c] = chats[c])
  <2>1. CASE NewChat BY <1>1, <2>1, EmptyIsWhole DEF NewChat, OfWindow, ChatId
  <2>2. CASE SelectChat BY <1>1, <2>2 DEF SelectChat, OfWindow, Present
  <2>3. CASE DeleteChat
    <3>1. cur \in ChatId BY DEF OfWindow, Present
    <3>2. CASE Present = {cur}
      <4>1. cur' = acts' /\ chats' = [chats EXCEPT ![cur] = None, ![acts'] = <<>>] BY <2>3, <3>2 DEF DeleteChat
      <4>. QED BY <1>1, <3>1, <4>1, EmptyIsWhole DEF OfWindow, ChatId
    <3>3. CASE Present # {cur}
      <4>1. PICK c \in Present \ {cur} : cur' = c /\ chats' = [chats EXCEPT ![cur] = None] BY <2>3, <3>3 DEF DeleteChat
      <4>. QED BY <3>1, <4>1 DEF OfWindow, Present
    <3>. QED BY <3>2, <3>3
  <2>. QED BY <2>1, <2>2, <2>3
<1>3. cur' \in Present' BY <1>2 DEF Present
<1>4. loaded' = None /\ servers' = ServersWithoutCurrent BY <1>1 DEF UnloadCurrent
<1>5. OfWindow' BY <1>1, <1>2, <1>3, <1>4, UnloadingCurrent DEF OfWindow
<1>6. Conversations'
  <2>1. \A c \in Present' : chats'[c] = <<>> \/ (c \in Present /\ chats'[c] = chats[c]) BY <1>2 DEF Present
  <2>. QED BY <1>1, <2>1, ConversationsKept
<1>7. Generating' /\ Remembering' BY <1>1, <1>4 DEF Generating, Remembering
<1>8. Acting' BY <1>1, <1>4 DEF Acting
<1>9. Accounted'
  <2>1. CASE AtLoad
    <3>1. action # None /\ action.pc = "load" /\ loaded = None /\ servers' = servers BY <1>1, <1>4, <2>1, UnloadingCurrent DEF AtLoad
    <3>. QED BY <1>1, <1>4, <3>1 DEF Accounted, Known
  <2>2. CASE ~AtLoad BY <1>1, <1>4, <2>2, UnloadingCurrent DEF Accounted
  <2>. QED BY <2>1, <2>2
<1>. QED BY <1>1, <1>5, <1>6, <1>7, <1>8, <1>9 DEF WindowParts

\* What the user asks for.
LEMMA ErrandStarts ==
  ASSUME DesktopInv, Unload \/ \E m \in Model : Load(m)
  PROVE  WindowParts' /\ UNCHANGED voice /\ acts' \in Deed /\ acts' >= acts
<1>. USE DEF DesktopInv, DesktopTypes
<1>1. PICK m \in Model, kind \in {"load", "unload"} :
        /\ action' = Wanted(kind, m) /\ Act
        /\ kind = "unload" => loaded # None /\ m = loaded.model
        /\ lost' = (lost \/ (kind = "load" /\ phase = "cleaned"))
  <2>1. CASE Unload
    <3>1. loaded.model \in Model BY <2>1 DEF Unload, OfWindow, Choice
    <3>2. lost' = (lost \/ ("unload" = "load" /\ phase = "cleaned")) BY <2>1 DEF Unload, OfWindow
    <3>. QED BY <2>1, <3>1, <3>2 DEF Unload
  <2>2. ASSUME NEW m \in Model, Load(m)
        PROVE  action' = Wanted("load", m) /\ Act /\ lost' = (lost \/ ("load" = "load" /\ phase = "cleaned"))
    BY <2>2 DEF Load
  <2>. QED BY <2>1, <2>2
<1>2. /\ phase' = phase /\ phase # "closed" /\ acts' \in Deed /\ acts' > acts /\ acts' \in Nat /\ acts \in Nat
      /\ work = None /\ action = None /\ UNCHANGED <<chats, cur, loaded, servers, work, stop, polls, voice>>
  BY <1>1, ActCounts, ActsAreNumbers DEF Load, Unload, turn, store, runtime
<1>3. action' \in Errand /\ action'.pc = "begin" /\ action'.kind = kind /\ action'.model = m /\ action' # None
  BY <1>1, WindowNone DEF Errand, Wanted
<1>4. OfWindow' BY <1>1, <1>2, <1>3 DEF OfWindow, Present
<1>5. Conversations' BY <1>2, ConversationsKept DEF Present
<1>6. Generating' /\ Remembering' BY <1>2 DEF Generating, Remembering, Knows
<1>7. Acting' BY <1>1, <1>2, <1>3 DEF Acting
<1>8. Accounted'
  <2>1. \A n \in Model : Known(n) => Known(n)' BY <1>2 DEF Known
  <2>2. ~lost' /\ phase = "cleaned" => ~lost /\ kind = "unload" BY <1>1
  <2>3. ~lost' => phase # "cleaned" BY <1>1, <1>2, <2>2 DEF Accounted
  <2>. QED BY <1>1, <1>2, <2>1, <2>3 DEF Accounted
<1>. QED BY <1>2, <1>4, <1>5, <1>6, <1>7, <1>8 DEF WindowParts

LEMMA ReadyShape ==
  ASSUME NEW S \in SUBSET Exchange
  PROVE  Ready(S) \in Memory /\ Ready(S) # None /\ Ready(S).ready /\ Ready(S).knows = S
<1>1. Ready(S) = [ready |-> TRUE, knows |-> S] BY DEF Ready
<1>2. Ready(S) \in Memory BY <1>1 DEF Memory
<1>3. Ready(S).ready = TRUE /\ Ready(S).knows = S BY <1>1
<1>. QED BY <1>2, <1>3, WindowNone

\* An errand goes on.
LEMMA ErrandStep ==
  ASSUME DesktopInv, ActionSteps \/ FinishAction
  PROVE  WindowParts' /\ UNCHANGED voice /\ acts' \in Deed /\ acts' >= acts
<1>. USE DEF DesktopInv, DesktopTypes
<1>1. /\ action # None /\ action \in Errand /\ work = None
      /\ acts \in Nat /\ UNCHANGED <<phase, acts, chats, cur, work, stop, polls, voice>> /\ acts \in Deed
  BY ActsAreNumbers DEF ActionSteps, LoadBegins, LoadEnds, UnloadEnds, FinishAction, OfWindow, window, store, turn
<1>2. Conversations' BY <1>1, ConversationsKept DEF Present
<1>3. Generating' BY <1>1 DEF Generating
<1>4. action.model \in Model /\ action.pc \in {"begin", "load", "done"} BY <1>1 DEF Errand
<1>5. \A pc \in {"begin", "load", "done"} : LET a == [action EXCEPT !.pc = pc] IN
        a \in Errand /\ a.pc = pc /\ a.model = action.model /\ a.kind = action.kind /\ a # None
  BY <1>1, WindowNone DEF Errand
<1>. DEFINE m == action.model
<1>. HIDE DEF m
<1>6. CASE LoadBegins
  <2>1. /\ action.kind = "load" /\ action.pc = "begin" /\ action' = [action EXCEPT !.pc = "load"]
        /\ loaded' = None /\ lost' = lost
    BY <1>6 DEF LoadBegins
  <2>. DEFINE others == IF loaded # None /\ BackendOf[loaded.model] # BackendOf[m] THEN Unloaded(loaded.model) ELSE servers
  <2>2. servers' = [others EXCEPT ![m] = Starting] BY <1>6 DEF LoadBegins, m
  <2>3. loaded # None => loaded.model \in Model BY DEF OfWindow, Choice
  <2>4. others \in [Model -> Memory \cup {None}] BY <2>3, Unloading DEF OfWindow
  <2>5. ~lost => \A n \in Model : others[n] # None => BackendOf[n] = BackendOf[m] /\ others[n].ready
    <3>1. CASE loaded = None
      <4>1. others = servers BY <3>1
      <4>. QED BY <1>1, <2>1, <3>1, <4>1 DEF Accounted, Known
    <3>2. CASE loaded # None
      <4>1. \A n \in Model : ~lost /\ servers[n] # None => BackendOf[n] = BackendOf[loaded.model] /\ servers[n].ready
        BY <1>1, <2>1 DEF Accounted, Known
      <4>. QED BY <2>3, <3>2, <4>1, Unloading
    <3>. QED BY <3>1, <3>2
  <2>. HIDE DEF others
  <2>6. Starting \in Memory BY DEF Starting, Memory
  <2>7. OfWindow' BY <1>1, <1>4, <1>5, <2>1, <2>2, <2>4, <2>6 DEF OfWindow, Present, m
  <2>8. Remembering' /\ Acting' BY <1>5, <2>1 DEF Remembering, Acting
  <2>9. \A n \in Model : ~lost /\ servers'[n] # None => Known(n)'
    BY <1>4, <1>5, <2>1, <2>2, <2>4, <2>5 DEF Known, m
  <2>10. Accounted' BY <1>1, <2>1, <2>9 DEF Accounted
  <2>. QED BY <1>1, <1>2, <1>3, <2>7, <2>8, <2>10 DEF WindowParts
<1>7. CASE LoadEnds
  <2>1. action.kind = "load" /\ action.pc = "load" /\ action' = [action EXCEPT !.pc = "done"] /\ loaded = None
    BY <1>1, <1>7 DEF LoadEnds, Acting
  <2>2. action' # None /\ action' \in Errand /\ action'.pc = "done" BY <1>5, <2>1
  <2>3. ~lost => \A n \in Model : servers[n] # None => n = m \/ (BackendOf[n] = BackendOf[m] /\ servers[n].ready)
    BY <1>1, <2>1 DEF Accounted, Known, m
  <2>4. Acting' BY <2>2 DEF Acting
  <2>5. ~lost => phase \notin {"cleaned", "closed"} BY <1>1 DEF Accounted
  <2>6. CASE loaded' = Loaded(m, LoadKey(m), "user") /\ servers' = [servers EXCEPT ![m] = Ready({})] /\ UNCHANGED lost
    <3>1. Ready({}) \in Memory /\ Ready({}).ready /\ Ready({}).knows = {} /\ Ready({}) # None BY ReadyShape
    <3>2. loaded' \in Choice /\ loaded'.model = m /\ loaded'.by = "user" /\ loaded'.key[1] = m
      BY <1>4, <2>6 DEF Loaded, LoadKey, Choice, m
    <3>3. loaded' # None BY <3>2, WindowNone
    <3>4. servers'[m] = Ready({}) /\ \A n \in Model : n # m => servers'[n] = servers[n] BY <1>4, <2>6 DEF OfWindow, m
    <3>5. servers' \in [Model -> Memory \cup {None}] BY <2>6, <3>1 DEF OfWindow
    <3>6. OfWindow' BY <1>1, <2>2, <2>6, <3>2, <3>5 DEF OfWindow, Present
    <3>7. Remembering' BY <3>1, <3>2, <3>4 DEF Remembering, Knows
    <3>8. \A n \in Model : ~lost /\ servers'[n] # None => Known(n)' BY <2>3, <3>1, <3>2, <3>3, <3>4 DEF Known
    <3>9. Accounted' BY <1>1, <2>5, <2>6, <3>8 DEF Accounted
    <3>. QED BY <1>1, <1>2, <1>3, <2>4, <3>6, <3>7, <3>9 DEF WindowParts
  <2>7. CASE /\ loaded' = None /\ servers' = [servers EXCEPT ![m] = None]
             /\ lost' = (lost \/ \E n \in Model \ {m} : servers[n] # None)
    <3>1. OfWindow' BY <1>1, <2>2, <2>7 DEF OfWindow, Present
    <3>2. Remembering' BY <2>7 DEF Remembering
    <3>3. ~lost' => \A n \in Model : servers'[n] = None BY <2>7 DEF OfWindow
    <3>4. Accounted' BY <1>1, <2>5, <2>7, <3>3 DEF Accounted
    <3>. QED BY <1>1, <1>2, <1>3, <2>4, <3>1, <3>2, <3>4 DEF WindowParts
  <2>. QED BY <1>7, <2>6, <2>7 DEF LoadEnds, m
<1>8. CASE UnloadEnds
  <2>1. /\ action.kind = "unload" /\ action.pc = "begin" /\ action' = [action EXCEPT !.pc = "done"] /\ lost' = lost
        /\ (loaded' = None /\ servers' = Unloaded(m)) \/ UNCHANGED <<loaded, servers>>
    BY <1>8 DEF UnloadEnds, runtime, m
  <2>2. action' # None /\ action' \in Errand /\ action'.pc = "done" BY <1>5, <2>1
  <2>3. Acting' BY <2>2 DEF Acting
  <2>4. loaded # None => loaded.model = m BY <1>1, <2>1 DEF Acting, m
  <2>5. ~lost => phase \notin {"cleaned", "closed"} BY <1>1 DEF Accounted
  <2>6. CASE loaded' = None /\ servers' = Unloaded(m)
    <3>1. Unloaded(m) \in [Model -> Memory \cup {None}] BY <1>4, Unloading DEF m
    <3>2. OfWindow' BY <1>1, <2>1, <2>2, <2>6, <3>1 DEF OfWindow, Present
    <3>3. \A n \in Model : ~lost /\ servers[n] # None => loaded # None /\ BackendOf[n] = BackendOf[m] /\ servers[n].ready
      BY <1>1, <2>1, <2>4 DEF Accounted, Known
    <3>4. \A n \in Model : ~lost => servers'[n] = None BY <1>4, <2>6, <3>3, Unloading DEF m
    <3>5. Remembering' BY <2>6 DEF Remembering
    <3>6. Accounted' BY <1>1, <2>1, <2>5, <3>4 DEF Accounted
    <3>. QED BY <1>1, <1>2, <1>3, <2>3, <3>2, <3>5, <3>6 DEF WindowParts
  <2>7. CASE UNCHANGED <<loaded, servers>>
    <3>1. OfWindow' BY <1>1, <2>1, <2>2, <2>7 DEF OfWindow, Present
    <3>2. Remembering' BY <1>1, <2>7 DEF Remembering, Knows
    <3>3. \A n \in Model : Known(n) => Known(n)' BY <1>1, <2>1, <2>7 DEF Known
    <3>4. Accounted' BY <1>1, <2>1, <2>5, <2>7, <3>3 DEF Accounted
    <3>. QED BY <1>1, <1>2, <1>3, <2>3, <3>1, <3>2, <3>4 DEF WindowParts
  <2>. QED BY <2>1, <2>6, <2>7
<1>9. CASE FinishAction
  <2>1. action.pc = "done" /\ action' = None /\ lost' = lost /\ UNCHANGED <<loaded, servers>> BY <1>9 DEF FinishAction, runtime
  <2>2. OfWindow' BY <1>1, <2>1 DEF OfWindow, Present
  <2>3. Remembering' /\ Acting' BY <1>1, <2>1 DEF Remembering, Acting, Knows
  <2>4. \A n \in Model : Known(n) => Known(n)' BY <1>1, <2>1 DEF Known
  <2>5. Accounted' BY <1>1, <2>1, <2>4 DEF Accounted
  <2>. QED BY <1>1, <1>2, <1>3, <2>2, <2>3, <2>5 DEF WindowParts
<1>. QED BY <1>6, <1>7, <1>8, <1>9 DEF ActionSteps

-----------------------------------------------------------------------------
(* The generation.                                                         *)

LEMMA ExchangesOfChat ==
  ASSUME OfWindow, Conversations
  PROVE  \A x \in Exchanges(chats[cur]) : x \in Exchange /\ x[1] = cur /\ x[2] <= acts
<1>1. cur \in Present BY DEF OfWindow
<1>. QED BY <1>1, Messages DEF Conversations, Exchanges, Entry

LEMMA WorkShapes ==
  ASSUME OfWindow, work # None, NEW pc \in {"begin", "load", "ask", "check", "put", "done"},
         NEW end \in {None, "complete", "error", "cancelled"}
  PROVE  LET goes == [work EXCEPT !.pc = pc]
             ends == [work EXCEPT !.pc = pc, !.end = end]
         IN /\ goes \in Answering /\ goes # None /\ goes = [goes EXCEPT !.end = work.end]
            /\ goes.pc = pc /\ goes.end = work.end
            /\ ends \in Answering /\ ends # None /\ ends.pc = pc /\ ends.end = end
            /\ goes.chat = work.chat /\ goes.of = work.of /\ goes.model = work.model
            /\ goes.agent = work.agent /\ goes.prior = work.prior
            /\ ends.chat = work.chat /\ ends.of = work.of /\ ends.model = work.model
            /\ ends.agent = work.agent /\ ends.prior = work.prior
<1>1. work \in Answering BY DEF OfWindow
<1>. QED BY <1>1, WindowNone, ZenonT(30) DEF Answering

LEMMA SendStep ==
  ASSUME DesktopInv, NEW m \in Model, NEW agent \in BOOLEAN, Send(m, agent)
  PROVE  WindowParts' /\ UNCHANGED voice /\ acts' \in Deed /\ acts' >= acts
<1>. USE DEF DesktopInv, DesktopTypes
<1>1. /\ phase' = phase /\ phase # "closed" /\ acts' \in Deed /\ acts' > acts /\ acts' \in Nat /\ acts \in Nat
      /\ work = None /\ action = None /\ stop' = FALSE /\ lost' = (lost \/ phase = "cleaned")
      /\ UNCHANGED <<chats, cur, loaded, servers, polls, action, voice>>
  BY ActCounts, ActsAreNumbers DEF Send, Quiet, store, runtime
<1>2. work' = [chat |-> cur, of |-> <<cur, acts'>>, model |-> m, agent |-> agent, prior |-> Exchanges(chats[cur]),
               pc |-> "begin", end |-> None]
  BY DEF Send
<1>3. cur \in ChatId BY DEF OfWindow, Present
<1>4. \A x \in Exchanges(chats[cur]) : x \in Exchange /\ x[1] = cur /\ x[2] <= acts BY ExchangesOfChat
<1>5. <<cur, acts'>> \in Exchange BY <1>1, <1>3 DEF Exchange
<1>6. work' \in Answering /\ work' # None
  <2>1. Exchanges(chats[cur]) \in SUBSET Exchange BY <1>4
  <2>2. work' \in Answering BY <1>2, <1>3, <1>5, <2>1 DEF Answering
  <2>. QED BY <2>2, WindowNone
<1>7. OfWindow' BY <1>1, <1>2, <1>6 DEF OfWindow, Present
<1>8. Conversations' BY <1>1, ConversationsKept DEF Present
<1>9. Generating'
  <2>1. <<cur, acts'>> \notin Exchanges(chats[cur])
    <3>1. <<cur, acts'>>[2] = acts' OBVIOUS
    <3>2. ~(acts' <= acts) BY <1>1
    <3>. QED BY <1>4, <3>1, <3>2
  <2>2. /\ work'.of = <<cur, acts'>> /\ work'.prior = Exchanges(chats[cur]) /\ work'.pc = "begin" /\ work'.end = None
    BY <1>2
  <2>3. work'.of[1] = cur' /\ work'.of[2] <= acts' BY <1>1, <2>2
  <2>. QED BY <1>1, <1>4, <2>1, <2>2, <2>3, WindowNone DEF Generating
<1>10. Remembering' /\ Acting' BY <1>1 DEF Remembering, Acting, Knows
<1>11. Accounted'
  <2>1. \A n \in Model : Known(n) => Known(n)' BY <1>1 DEF Known
  <2>. QED BY <1>1, <2>1 DEF Accounted
<1>. QED BY <1>1, <1>7, <1>8, <1>9, <1>10, <1>11 DEF WindowParts

\* What every step of the worker leaves alone.
LEMMA WorkFrame ==
  ASSUME DesktopInv, WorkSteps
  PROVE  /\ UNCHANGED <<phase, acts, chats, cur, stop, polls, action, voice, lost>> /\ acts \in Deed /\ acts \in Nat
         /\ work # None /\ work \in Answering /\ work.model \in Model /\ action = None
         /\ Conversations' /\ Acting'
<1>. USE DEF DesktopInv, DesktopTypes
<1>1. /\ UNCHANGED <<phase, acts, chats, cur, stop, polls, action, voice, lost>> /\ acts \in Deed /\ acts \in Nat
      /\ work # None /\ work \in Answering /\ action = None
  BY ActsAreNumbers DEF WorkSteps, WorkBegins, WorkLoads, WorkAsks, WorkChecks, WorkPuts, OfWindow, window, store
<1>2. work.model \in Model BY <1>1 DEF Answering
<1>3. Conversations' BY <1>1, ConversationsKept DEF Present
<1>. QED BY <1>1, <1>2, <1>3 DEF Acting

WorkGoesOn ==
  /\ work' \in Answering /\ work' # None /\ work'.chat = work.chat /\ work'.of = work.of /\ work'.model = work.model
  /\ work'.agent = work.agent /\ work'.prior = work.prior
  /\ work'.pc \in {"check", "put", "done"} /\ (work'.end # None) = (work'.pc = "done")
  /\ work'.pc \in {"check", "put"} \/ work'.end = "complete" =>
       work.pc \in {"ask", "check", "put"} /\ (work.pc = "ask" => work.agent)

\* A step that ends the work, or only goes on with it.
LEMMA WorkOnly ==
  ASSUME DesktopInv, WorkSteps, UNCHANGED <<loaded, servers>>, work.pc # "load",
         \/ /\ \E pc \in {"check", "put"} : work' = [work EXCEPT !.pc = pc]
            /\ work.pc \in {"ask", "check"} /\ (work.pc = "ask" => work.agent)
         \/ \E end \in {"complete", "error", "cancelled"} :
              WorkOver(end) /\ (end = "complete" => work.pc = "put")
  PROVE  WindowParts'
<1>. USE DEF DesktopInv, DesktopTypes
<1>1. WorkGoesOn
  <2>1. ASSUME NEW pc \in {"check", "put"}, work' = [work EXCEPT !.pc = pc], work.pc \in {"ask", "check"}, work.pc = "ask" => work.agent
        PROVE  WorkGoesOn
    BY <2>1, WorkFrame, WorkShapes DEF Generating, WorkGoesOn
  <2>2. ASSUME NEW end \in {"complete", "error", "cancelled"}, WorkOver(end), end = "complete" => work.pc = "put"
        PROVE  WorkGoesOn
    BY <2>2, WorkFrame, WorkShapes, WindowNone DEF WorkOver, WorkGoesOn
  <2>. QED BY <2>1, <2>2
<1>2. OfWindow' BY <1>1, WorkFrame DEF OfWindow, Present, WorkGoesOn
<1>3. Generating' BY <1>1, WorkFrame DEF Generating, Knows, WorkGoesOn
<1>4. Remembering' BY WorkFrame DEF Remembering, Knows
<1>5. Accounted'
  <2>1. \A n \in Model : Known(n) => Known(n)' BY WorkFrame DEF Known
  <2>. QED BY <1>1, <2>1, WorkFrame DEF Accounted, WorkGoesOn
<1>. QED BY <1>2, <1>3, <1>4, <1>5, WorkFrame DEF WindowParts

\* The model is there, or is to be loaded.
LEMMA WorkBeginsStep ==
  ASSUME DesktopInv, WorkBegins
  PROVE  WindowParts'
<1>. USE DEF DesktopInv, DesktopTypes
<1>1. WorkSteps /\ work # None /\ work.pc = "begin" /\ work.end = None /\ ~AtLoad /\ action = None
      /\ work.model \in Model /\ phase # "closed"
  <2>1. WorkSteps /\ work.pc = "begin" /\ phase # "closed" BY DEF WorkSteps, WorkBegins, Alive
  <2>. QED BY <2>1, WorkFrame DEF Generating, AtLoad
<1>2. \A pc \in {"ask", "load"} : LET v == [work EXCEPT !.pc = pc] IN
        /\ v \in Answering /\ v # None /\ v.pc = pc /\ v.end = None
        /\ v.chat = work.chat /\ v.of = work.of /\ v.model = work.model /\ v.agent = work.agent /\ v.prior = work.prior
  BY <1>1, WorkShapes
<1>3. CASE /\ loaded # None /\ loaded.key = SendKey(work.model)
           /\ work' = [work EXCEPT !.pc = "ask"] /\ UNCHANGED <<loaded, servers>>
  <2>1. loaded.model = work.model
    <3>1. loaded.key[1] = loaded.model BY <1>3 DEF Remembering
    <3>. QED BY <1>3, <3>1 DEF SendKey
  <2>2. OfWindow' BY <1>1, <1>2, <1>3, WorkFrame DEF OfWindow, Present
  <2>3. \A x \in Knows(work.model) : x[1] = cur BY <1>3, <2>1 DEF Remembering
  <2>4. Generating' BY <1>1, <1>2, <1>3, <2>1, <2>3, WorkFrame, WindowNone DEF Generating, Knows
  <2>5. Remembering' BY <1>1, <1>3, WorkFrame DEF Remembering, Knows
  <2>6. \A n \in Model : Known(n) => Known(n)' BY <1>1, <1>3, WorkFrame DEF Known
  <2>7. Accounted' BY <1>1, <1>2, <1>3, <2>6, WorkFrame DEF Accounted
  <2>. QED BY <1>1, <2>2, <2>4, <2>5, <2>7, WorkFrame DEF WindowParts
<1>4. CASE /\ loaded' = None /\ servers' = [ServersWithoutCurrent EXCEPT ![work.model] = Starting]
           /\ work' = [work EXCEPT !.pc = "load"]
  <2>1. Starting \in Memory BY DEF Starting, Memory
  <2>2. servers' \in [Model -> Memory \cup {None}] BY <1>1, <1>4, <2>1, UnloadingCurrent
  <2>3. OfWindow' BY <1>1, <1>2, <1>4, <2>2, WorkFrame DEF OfWindow, Present
  <2>4. Generating' BY <1>1, <1>2, <1>4, WorkFrame, WindowNone DEF Generating
  <2>5. Remembering' BY <1>4 DEF Remembering
  <2>6. \A n \in Model : ~lost /\ servers'[n] # None => Known(n)' BY <1>1, <1>2, <1>4, UnloadingCurrent DEF Known
  <2>7. ~lost => phase # "cleaned" BY <1>1 DEF Accounted
  <2>8. Accounted' BY <1>1, <1>4, <2>6, <2>7, WorkFrame DEF Accounted
  <2>. QED BY <1>1, <2>3, <2>4, <2>5, <2>8, WorkFrame DEF WindowParts
<1>. QED BY <1>3, <1>4 DEF WorkBegins, runtime

\* The load succeeds, and the server is told the chat; or it fails.
LEMMA WorkLoadsStep ==
  ASSUME DesktopInv, WorkLoads
  PROVE  WindowParts'
<1>. USE DEF DesktopInv, DesktopTypes
<1>. DEFINE m == work.model
<1>1. WorkSteps /\ work # None /\ work.pc = "load" /\ work.end = None /\ loaded = None /\ action = None
      /\ m \in Model /\ work.prior \in SUBSET Exchange /\ phase # "closed"
  <2>1. WorkSteps /\ work.pc = "load" /\ phase # "closed" BY DEF WorkSteps, WorkLoads, Alive
  <2>. QED BY <2>1, WorkFrame DEF Generating, Answering
<1>. HIDE DEF m
<1>2. \A n \in Model : ~lost /\ servers[n] # None => n = m BY <1>1 DEF Accounted, Known, m
<1>3. ~lost => phase # "cleaned" BY <1>1 DEF Accounted
<1>4. CASE /\ loaded' = Loaded(m, SendKey(m), "send") /\ servers' = [servers EXCEPT ![m] = Restored]
           /\ work' = [work EXCEPT !.pc = "ask"]
  <2>1. /\ work' \in Answering /\ work' # None /\ work'.pc = "ask" /\ work'.end = None
        /\ work'.chat = work.chat /\ work'.of = work.of /\ work'.model = work.model /\ work'.agent = work.agent
        /\ work'.prior = work.prior
    BY <1>1, <1>4, WorkShapes
  <2>2. Restored \in Memory /\ Restored # None /\ Restored.ready /\ Restored.knows = work.prior
    BY <1>1, ReadyShape DEF Restored
  <2>3. loaded' \in Choice /\ loaded'.model = m /\ loaded'.by = "send" /\ loaded'.key[1] = m
    BY <1>1, <1>4 DEF Loaded, SendKey, Choice
  <2>4. loaded' # None BY <2>3, WindowNone
  <2>5. servers'[m] = Restored /\ servers' \in [Model -> Memory \cup {None}] BY <1>1, <1>4, <2>2 DEF OfWindow
  <2>6. Knows(m)' = work.prior
    <3>1. m' = m BY <2>1 DEF m
    <3>. QED BY <2>2, <2>5, <3>1 DEF Knows
  <2>7. OfWindow' BY <2>1, <2>3, <2>5, <1>1, WorkFrame DEF OfWindow, Present
  <2>8. Generating' BY <1>1, <2>1, <2>3, <2>6, WorkFrame, WindowNone DEF Generating, m
  <2>9. Remembering'
    <3>1. servers'[m] # None /\ servers'[m].ready /\ servers'[m].knows = work.prior BY <2>2, <2>5
    <3>2. \A x \in work.prior : x[1] = cur BY <1>1 DEF Generating
    <3>3. polls => work.prior = Exchanges(chats[cur]) BY <1>1 DEF Generating
    <3>4. Exchanges(chats[cur])' = Exchanges(chats[cur]) BY <1>1, WorkFrame DEF Exchanges
    <3>. QED BY <1>1, <2>3, <3>1, <3>2, <3>3, <3>4, WorkFrame DEF Remembering, Knows
  <2>10. \A n \in Model : ~lost /\ servers'[n] # None => Known(n)'
    <3>1. \A n \in Model : n # m => servers'[n] = servers[n] BY <1>1, <1>4 DEF OfWindow
    <3>. QED BY <1>2, <2>2, <2>3, <2>4, <2>5, <3>1 DEF Known
  <2>11. Accounted' BY <1>1, <1>3, <2>10, WorkFrame DEF Accounted
  <2>. QED BY <1>1, <2>7, <2>8, <2>9, <2>11, WorkFrame DEF WindowParts
<1>5. CASE loaded' = loaded /\ servers' = [servers EXCEPT ![m] = None] /\ Failed
  <2>1. /\ work' \in Answering /\ work' # None /\ work'.pc = "done" /\ work'.end \in {"error", "cancelled"}
        /\ work'.chat = work.chat /\ work'.of = work.of /\ work'.model = work.model /\ work'.agent = work.agent
        /\ work'.prior = work.prior
    <3>1. PICK end \in {"error", "cancelled"} : work' = [work EXCEPT !.pc = "done", !.end = end] BY <1>5 DEF Failed, WorkOver
    <3>2. work \in Answering BY <1>1 DEF OfWindow
    <3>3. work' \in Answering BY <3>1, <3>2 DEF Answering
    <3>. QED BY <3>1, <3>2, <3>3, WindowNone DEF Answering
  <2>2. OfWindow' BY <1>1, <1>5, <2>1, WorkFrame DEF OfWindow, Present
  <2>3. Generating' BY <1>1, <2>1, WorkFrame, WindowNone DEF Generating
  <2>4. Remembering' BY <1>1, <1>5 DEF Remembering
  <2>5. ~lost => \A n \in Model : servers'[n] = None BY <1>2, <1>5 DEF OfWindow
  <2>6. Accounted' BY <1>1, <1>3, <1>5, <2>5, WorkFrame DEF Accounted
  <2>. QED BY <1>1, <2>2, <2>3, <2>4, <2>6, WorkFrame DEF WindowParts
<1>. QED BY <1>4, <1>5 DEF WorkLoads, m

\* The server keeps the exchange; an agent keeps its own list.
LEMMA WorkAsksStep ==
  ASSUME DesktopInv, WorkAsks
  PROVE  WindowParts'
<1>. USE DEF DesktopInv, DesktopTypes
<1>1. WorkSteps /\ work # None /\ work.pc = "ask" /\ work.end = None /\ action = None /\ work.model \in Model /\ loaded' = loaded
  <2>1. WorkSteps /\ work.pc = "ask" /\ loaded' = loaded BY DEF WorkSteps, WorkAsks
  <2>. QED BY <2>1, WorkFrame DEF Generating
<1>2. CASE Failed /\ UNCHANGED servers
  <2>1. \E end \in {"error", "cancelled"} : WorkOver(end) BY <1>2 DEF Failed
  <2>. QED BY <1>1, <1>2, <2>1, WorkOnly
<1>3. CASE /\ work.agent /\ work' = [work EXCEPT !.pc = IF stop THEN "put" ELSE "check"] /\ UNCHANGED servers
  <2>1. \E pc \in {"check", "put"} : work' = [work EXCEPT !.pc = pc] BY <1>3
  <2>. QED BY <1>1, <1>3, <2>1, WorkOnly
<1>4. CASE /\ ~work.agent /\ Server # None /\ Server.ready
           /\ servers' = [servers EXCEPT ![work.model].knows = @ \union {work.of}]
           /\ work' = [work EXCEPT !.pc = "check"]
  <2>1. /\ work' \in Answering /\ work' # None /\ work'.pc = "check" /\ work'.end = None
        /\ work'.chat = work.chat /\ work'.of = work.of /\ work'.model = work.model /\ work'.agent = work.agent
        /\ work'.prior = work.prior
    BY <1>1, <1>4, WorkShapes
  <2>. DEFINE m == work.model
              after == [servers[m] EXCEPT !.knows = @ \union {work.of}]
  <2>2. servers[m] \in Memory /\ work.of \in Exchange BY <1>1, <1>4, WorkFrame DEF OfWindow, Server, Answering
  <2>3. /\ after \in Memory /\ after # None /\ after.ready = servers[m].ready /\ after.knows = servers[m].knows \cup {work.of}
    BY <2>2, WindowNone DEF Memory
  <2>4. servers' = [servers EXCEPT ![m] = after] BY <1>1, <1>4 DEF OfWindow
  <2>. HIDE DEF after
  <2>5. /\ servers' \in [Model -> Memory \cup {None}] /\ servers'[m] = after
        /\ \A n \in Model : n # m => servers'[n] = servers[n]
    BY <1>1, <2>3, <2>4 DEF OfWindow
  <2>6. \A n \in Model : (servers'[n] # None) = (servers[n] # None) /\ servers'[n].ready = servers[n].ready
    BY <1>4, <2>3, <2>5 DEF Server
  <2>7. Knows(m)' = Knows(m) \cup {work.of} /\ \A n \in Model : n # m => Knows(n)' = Knows(n)
    BY <1>1, <1>4, <2>1, <2>3, <2>5 DEF Knows, Server
  <2>8. OfWindow' BY <1>1, <2>1, <2>5, WorkFrame DEF OfWindow, Present
  <2>9. \A x \in Knows(m) \cup {work.of} : x[1] = cur BY <1>1 DEF Generating
  <2>10. Generating' BY <1>1, <2>1, <2>7, <2>9, WorkFrame, WindowNone DEF Generating
  <2>11. Remembering'
    <3>1. SUFFICES ASSUME loaded # None PROVE Remembering' BY <1>1 DEF Remembering
    <3>2. loaded.model = m /\ loaded.model \in Model BY <1>1, <3>1 DEF Generating
    <3>3. Exchanges(chats[cur])' = Exchanges(chats[cur]) BY <1>1, WorkFrame DEF Exchanges
    <3>4. Knows(loaded.model)' = Knows(m)' BY <1>1, <2>1, <3>2 DEF Knows
    <3>5. servers'[loaded'.model] # None /\ servers'[loaded'.model].ready /\ loaded'.key[1] = loaded'.model
      BY <1>1, <2>6, <3>1, <3>2 DEF Remembering
    <3>6. polls /\ loaded.by = "send" => Exchanges(chats[cur]) \subseteq Knows(m) BY <3>1, <3>2 DEF Remembering
    <3>. QED BY <1>1, <2>7, <2>9, <3>3, <3>4, <3>5, <3>6, WorkFrame DEF Remembering
  <2>12. \A n \in Model : Known(n) => Known(n)' BY <1>1, <2>6, WorkFrame DEF Known
  <2>13. Accounted' BY <1>1, <2>1, <2>6, <2>12, WorkFrame DEF Accounted
  <2>. QED BY <1>1, <2>8, <2>10, <2>11, <2>13, WorkFrame DEF WindowParts
<1>. QED BY <1>2, <1>3, <1>4 DEF WorkAsks

LEMMA WorkStep ==
  ASSUME DesktopInv, WorkSteps
  PROVE  WindowParts' /\ UNCHANGED voice /\ acts' \in Deed /\ acts' >= acts
<1>1. UNCHANGED voice /\ acts' \in Deed /\ acts' >= acts BY WorkFrame
<1>2. CASE WorkChecks \/ WorkPuts
  <2>1. UNCHANGED <<loaded, servers>> /\ work.pc \in {"check", "put"} BY <1>2 DEF WorkChecks, WorkPuts, runtime
  <2>2. CASE \E end \in {"complete", "error", "cancelled"} : WorkOver(end) /\ (end = "complete" => work.pc = "put")
    BY <1>1, <2>1, <2>2, WorkOnly
  <2>3. CASE work.pc = "check" /\ work' = [work EXCEPT !.pc = "put"]
    BY <1>1, <2>1, <2>3, WorkOnly
  <2>. QED BY <1>2, <2>2, <2>3 DEF WorkChecks, WorkPuts
<1>. QED BY <1>1, <1>2, WorkBeginsStep, WorkLoadsStep, WorkAsksStep DEF WorkSteps

-----------------------------------------------------------------------------
(* The end of a generation.                                                *)

\* Two sequences, one after the other.
LEMMA Joining ==
  ASSUME NEW S, NEW s \in Seq(S), NEW r \in Seq(S)
  PROVE  /\ s \o r \in Seq(S) /\ Len(s \o r) = Len(s) + Len(r)
         /\ Len(s) \in Nat /\ Len(r) \in Nat
         /\ DOMAIN s = 1..Len(s) /\ DOMAIN r = 1..Len(r) /\ DOMAIN (s \o r) = 1..(Len(s) + Len(r))
         /\ \A i \in 1..Len(s) : (s \o r)[i] = s[i]
         /\ \A i \in 1..Len(r) : (s \o r)[Len(s) + i] = r[i]
<1>1. /\ s \o r \in Seq(S) /\ Len(s \o r) = Len(s) + Len(r)
      /\ \A i \in 1..Len(s) + Len(r) : (s \o r)[i] = IF i <= Len(s) THEN s[i] ELSE r[i - Len(s)]
  BY ConcatProperties
<1>2. Len(s) \in Nat /\ Len(r) \in Nat OBVIOUS
<1>3. DOMAIN s = 1..Len(s) /\ DOMAIN r = 1..Len(r) /\ DOMAIN (s \o r) = 1..(Len(s) + Len(r)) BY <1>1
<1>4. ASSUME NEW i \in 1..Len(s) PROVE (s \o r)[i] = s[i]
  <2>1. i \in 1..Len(s) + Len(r) /\ i <= Len(s) BY <1>2
  <2>. QED BY <1>1, <2>1
<1>5. ASSUME NEW i \in 1..Len(r) PROVE (s \o r)[Len(s) + i] = r[i]
  <2>1. Len(s) + i \in 1..Len(s) + Len(r) /\ ~(Len(s) + i <= Len(s)) /\ (Len(s) + i) - Len(s) = i BY <1>2
  <2>. QED BY <1>1, <2>1
<1>. QED BY <1>1, <1>2, <1>3, <1>4, <1>5

\* What is saved of an exchange.
LEMMA SavedShape ==
  ASSUME NEW n \in Exchange, NEW agent \in BOOLEAN
  PROVE  LET s == Saved(n, agent) IN
         /\ s \in Seq(Entry) /\ Len(s) \in {2, 3}
         /\ s[1] = Message("user", n) /\ s[Len(s)] = Message("assistant", n)
         /\ Len(s) = 3 => s[2] = Message("system", n)
         /\ \A i \in 1..Len(s) : s[i].of = n
<1>1. \A role \in {"user", "system", "assistant"} : Message(role, n) \in Entry /\ Message(role, n).of = n
  BY DEF Message, Entry
<1>. DEFINE u == <<Message("user", n)>>
            a == <<Message("assistant", n)>>
            b == IF agent THEN <<Message("system", n)>> ELSE <<>>
            f == u \o b
            s == f \o a
<1>2. /\ u \in Seq(Entry) /\ Len(u) = 1 /\ u[1] = Message("user", n)
      /\ a \in Seq(Entry) /\ Len(a) = 1 /\ a[1] = Message("assistant", n)
  BY <1>1
<1>3. b \in Seq(Entry) /\ Len(b) \in {0, 1} /\ (Len(b) = 1 => b[1] = Message("system", n)) BY <1>1
<1>4. Saved(n, agent) = s BY DEF Saved
<1>. HIDE DEF u, a, b
<1>5. /\ f \in Seq(Entry) /\ Len(f) = 1 + Len(b)
      /\ \A i \in 1..1 : f[i] = u[i]
      /\ \A i \in 1..Len(b) : f[1 + i] = b[i]
  BY <1>2, <1>3, Joining
<1>6. f[1] = Message("user", n) /\ (Len(b) = 1 => f[2] = Message("system", n)) BY <1>2, <1>3, <1>5
<1>. HIDE DEF f
<1>7. /\ s \in Seq(Entry) /\ Len(s) = Len(f) + 1
      /\ \A i \in 1..Len(f) : s[i] = f[i]
      /\ \A i \in 1..1 : s[Len(f) + i] = a[i]
  BY <1>2, <1>5, Joining
<1>. HIDE DEF s
<1>8. Len(s) \in {2, 3} /\ Len(f) = Len(s) - 1 /\ Len(b) = Len(s) - 2 BY <1>3, <1>5, <1>7
<1>9. s[1] = Message("user", n) /\ s[Len(s)] = Message("assistant", n) /\ (Len(s) = 3 => s[2] = Message("system", n))
  BY <1>2, <1>6, <1>7, <1>8
<1>10. ASSUME NEW i \in 1..Len(s) PROVE s[i].of = n
  <2>1. i = 1 \/ i = Len(s) \/ (Len(s) = 3 /\ i = 2)
    <3>1. Len(s) = 2 \/ Len(s) = 3 BY <1>8
    <3>. DEFINE k == Len(s)
    <3>2. i \in 1..k /\ (k = 2 \/ k = 3) BY <3>1
    <3>. HIDE DEF k
    <3>3. i = 1 \/ i = k \/ (k = 3 /\ i = 2) BY <3>2
    <3>. QED BY <3>3 DEF k
  <2>. QED BY <1>1, <1>9, <2>1
<1>. QED BY <1>4, <1>7, <1>8, <1>9, <1>10

\* There are finitely many.
LEMMA ExchangesAreFew ==
  ASSUME NEW msgs \in Seq(Entry)
  PROVE  Exchanges(msgs) \subseteq Exchange /\ IsFiniteSet(Exchanges(msgs))
<1>1. Exchanges(msgs) \subseteq Exchange
  <2>1. \A i \in DOMAIN msgs : msgs[i] \in Entry OBVIOUS
  <2>. QED BY <2>1 DEF Exchanges, Entry
<1>2. IsFiniteSet(Deed) BY CostAssumption, FS_Interval DEF Deed
<1>3. IsFiniteSet(Exchange) BY <1>2, FS_Product DEF Exchange, ChatId
<1>. QED BY <1>1, <1>3, FS_Subset

\* A whole exchange that is new leaves a conversation of whole exchanges.
LEMMA WholesGrow ==
  ASSUME NEW msgs \in Seq(Entry), HoldsWholes(msgs), NEW n \in Exchange, n \notin Exchanges(msgs), NEW agent \in BOOLEAN
  PROVE  /\ HoldsWholes(msgs \o Saved(n, agent))
         /\ Exchanges(msgs \o Saved(n, agent)) = Exchanges(msgs) \cup {n}
<1>. DEFINE more == Saved(n, agent)
            all == msgs \o more
            Users(s) == {i \in DOMAIN s : s[i].role = "user"}
<1>0. /\ more \in Seq(Entry) /\ Len(more) \in {2, 3}
      /\ more[1] = Message("user", n) /\ more[Len(more)] = Message("assistant", n)
      /\ Len(more) = 3 => more[2] = Message("system", n)
  BY SavedShape
<1>. HIDE DEF more
<1>. DEFINE l == Len(msgs)
            e == Len(all)
<1>1. /\ all \in Seq(Entry) /\ l \in Nat /\ e = l + Len(more)
      /\ DOMAIN msgs = 1..l /\ DOMAIN all = 1..e
      /\ \A i \in 1..l : all[i] = msgs[i]
      /\ \A i \in 1..Len(more) : all[l + i] = more[i]
  BY <1>0, Joining
<1>2. l \in Nat /\ DOMAIN msgs = 1..l /\ DOMAIN all = 1..e BY <1>1
<1>. HIDE DEF all, l, e
<1>3. /\ \A i \in 1..l : i \in 1..e /\ all[i] = msgs[i]
      /\ l + 1 \in 1..e /\ e \in 1..e /\ e > l + 1
      /\ all[l + 1] = Message("user", n) /\ all[e] = Message("assistant", n)
      /\ \A i \in 1..e : i \in 1..l \/ i = l + 1 \/ i = e \/ all[i] = Message("system", n)
  <2>1. all[l + 1] = more[1] /\ all[l + 2] = more[2] /\ (Len(more) = 3 => all[l + 3] = more[3])
    <3>1. Len(more) = 2 \/ Len(more) = 3 BY <1>0
    <3>2. \A q : q = 2 \/ q = 3 => 1 \in 1..q /\ 2 \in 1..q /\ (q = 3 => 3 \in 1..q) OBVIOUS
    <3>3. 1 \in 1..Len(more) /\ 2 \in 1..Len(more) /\ (Len(more) = 3 => 3 \in 1..Len(more)) BY <3>1, <3>2
    <3>. QED BY <1>1, <3>3
  <2>2. (e = l + 2 /\ Len(more) = 2) \/ (e = l + 3 /\ Len(more) = 3) BY <1>0, <1>1
  <2>3. all[e] = Message("assistant", n) BY <1>0, <1>1, <2>1, <2>2
  <2>4. \A i \in 1..e : i \in 1..l \/ i = l + 1 \/ i = e \/ (i = l + 2 /\ e = l + 3) BY <1>1, <2>2
  <2>5. \A i \in 1..e : i \in 1..l \/ i = l + 1 \/ i = e \/ all[i] = Message("system", n)
    BY <1>0, <2>1, <2>2, <2>4
  <2>. QED BY <1>0, <1>1, <2>1, <2>2, <2>3, <2>5
<1>4. \A role : Message(role, n).role = role /\ Message(role, n).of = n BY DEF Message
<1>5. Users(all) = Users(msgs) \cup {l + 1} BY <1>2, <1>3, <1>4 DEF l, e
<1>6. Exchanges(all) = Exchanges(msgs) \cup {n}
  <2>1. ASSUME NEW x \in Exchanges(all) PROVE x \in Exchanges(msgs) \cup {n}
    <3>1. PICK i \in 1..e : all[i].role # "system" /\ x = all[i].of BY <1>2 DEF Exchanges, e
    <3>. QED BY <1>2, <1>3, <1>4, <3>1 DEF Exchanges, l
  <2>2. ASSUME NEW x \in Exchanges(msgs) PROVE x \in Exchanges(all)
    <3>1. PICK i \in 1..l : msgs[i].role # "system" /\ x = msgs[i].of BY <1>2 DEF Exchanges, l
    <3>. QED BY <1>2, <1>3, <3>1 DEF Exchanges, e
  <2>3. n \in Exchanges(all) BY <1>2, <1>3, <1>4 DEF Exchanges, e
  <2>. QED BY <2>1, <2>2, <2>3
<1>7. \A i \in DOMAIN all : all[i].role = "user" => \E j \in DOMAIN all : j > i /\ all[j] = Message("assistant", all[i].of)
  <2>1. SUFFICES ASSUME NEW i \in 1..e, all[i].role = "user"
                 PROVE  \E j \in 1..e : j > i /\ all[j] = Message("assistant", all[i].of)
    BY <1>2 DEF e
  <2>2. i \in 1..l \/ i = l + 1 BY <1>3, <1>4, <2>1
  <2>3. CASE i \in 1..l
    <3>1. PICK j \in 1..l : j > i /\ msgs[j] = Message("assistant", msgs[i].of)
      BY <1>2, <1>3, <2>1, <2>3 DEF HoldsWholes, l
    <3>. QED BY <1>3, <2>3, <3>1
  <2>4. CASE i = l + 1 BY <1>3, <1>4, <2>4
  <2>. QED BY <2>2, <2>3, <2>4
<1>8. Cardinality(Users(all)) = Cardinality(Exchanges(all))
  <2>1. IsFiniteSet(Users(msgs))
    <3>1. Users(msgs) \subseteq 1..l BY <1>2
    <3>2. IsFiniteSet(1..l) BY <1>2, FS_Interval
    <3>. QED BY <3>1, <3>2, FS_Subset
  <2>2. l + 1 \notin Users(msgs) BY <1>2 DEF l
  <2>3. Cardinality(Users(all)) = Cardinality(Users(msgs)) + 1 BY <1>5, <2>1, <2>2, FS_AddElement
  <2>4. Cardinality(Exchanges(all)) = Cardinality(Exchanges(msgs)) + 1 BY <1>6, ExchangesAreFew, FS_AddElement
  <2>. QED BY <2>3, <2>4 DEF HoldsWholes
<1>9. HoldsWholes(all) BY <1>7, <1>8 DEF HoldsWholes
<1>. QED BY <1>6, <1>9 DEF all, more

\* The answer is saved, or part of it.
LEMMA PollCompleteStep ==
  ASSUME DesktopInv, PollComplete
  PROVE  WindowParts' /\ UNCHANGED voice /\ acts' \in Deed /\ acts' >= acts
<1>. USE DEF DesktopInv, DesktopTypes
<1>1. /\ UNCHANGED <<phase, acts, cur, loaded, stop, action, voice, lost>> /\ acts \in Deed /\ acts \in Nat /\ acts >= acts
      /\ polls /\ work # None /\ work \in Answering /\ work.end = "complete" /\ work.chat = cur /\ action = None
      /\ work.pc = "done" /\ work.of \in Exchange /\ work.agent \in BOOLEAN /\ work.model \in Model
  <2>1. /\ UNCHANGED <<phase, acts, cur, loaded, stop, action, voice, lost>>
        /\ polls /\ work # None /\ work.end = "complete"
    BY DEF PollComplete, window
  <2>. QED BY <2>1, ActsAreNumbers, WindowNone DEF OfWindow, Generating, Answering
<1>. DEFINE all == Saved(work.of, work.agent)
            msgs == chats[cur]
<1>2. all \in Seq(Entry) /\ \A i \in 1..Len(all) : all[i].of = work.of BY <1>1, SavedShape
<1>3. cur \in ChatId /\ msgs \in Seq(Entry) /\ cur \in Present BY Messages DEF OfWindow, Present
<1>4. PICK k \in 0..Len(all) :
        /\ chats' = [chats EXCEPT ![cur] = @ \o SubSeq(all, 1, k)]
        /\ IF k = Len(all)
           THEN /\ IF work.agent /\ Server # None
                   THEN servers' = [servers EXCEPT ![work.model].knows = Exchanges(chats'[cur])]
                   ELSE UNCHANGED servers
                /\ work' = None /\ polls' = TRUE
           ELSE UNCHANGED <<servers, work>> /\ polls' = FALSE
  BY <1>1 DEF PollComplete
<1>. HIDE DEF all
<1>. DEFINE new == msgs \o SubSeq(all, 1, k)
<1>5. SubSeq(all, 1, k) \in Seq(Entry) /\ \A i \in 1..Len(SubSeq(all, 1, k)) : SubSeq(all, 1, k)[i].of = work.of
  BY <1>2, <1>4, SubSeqProperties
<1>6. /\ new \in Seq(Entry) /\ new # None
      /\ \A i \in DOMAIN new : new[i] \in Entry /\ (new[i].of = work.of \/ \E j \in DOMAIN msgs : new[i] = msgs[j])
  <2>. DEFINE tail == SubSeq(all, 1, k)
  <2>0. tail \in Seq(Entry) /\ \A i \in 1..Len(tail) : tail[i].of = work.of BY <1>5
  <2>. HIDE DEF tail, msgs
  <2>1. /\ msgs \o tail \in Seq(Entry) /\ Len(msgs) \in Nat /\ Len(tail) \in Nat
        /\ DOMAIN msgs = 1..Len(msgs) /\ DOMAIN (msgs \o tail) = 1..(Len(msgs) + Len(tail))
        /\ \A i \in 1..Len(msgs) : (msgs \o tail)[i] = msgs[i]
        /\ \A i \in 1..Len(tail) : (msgs \o tail)[Len(msgs) + i] = tail[i]
    BY <1>3, <2>0, Joining
  <2>2. new = msgs \o tail BY DEF tail
  <2>3. new \in Seq(Entry) BY <2>1, <2>2
  <2>. HIDE DEF new
  <2>4. ASSUME NEW i \in DOMAIN new PROVE new[i] \in Entry /\ (new[i].of = work.of \/ \E j \in DOMAIN msgs : new[i] = msgs[j])
    <3>1. new[i] \in Entry BY <2>3
    <3>2. CASE i \in 1..Len(msgs) BY <2>1, <2>2, <3>1, <3>2
    <3>3. CASE i \notin 1..Len(msgs)
      <4>1. i \in 1..(Len(msgs) + Len(tail)) BY <2>1, <2>2
      <4>2. i - Len(msgs) \in 1..Len(tail) /\ Len(msgs) + (i - Len(msgs)) = i BY <2>1, <3>3, <4>1
      <4>3. new[i] = tail[i - Len(msgs)] BY <2>1, <2>2, <4>2
      <4>. QED BY <2>0, <3>1, <4>2, <4>3
    <3>. QED BY <3>2, <3>3
  <2>. QED BY <2>3, <2>4, WindowNone DEF msgs
<1>7. chats' = [chats EXCEPT ![cur] = new] BY <1>4
<1>. HIDE DEF new
<1>8. /\ chats' \in [ChatId -> Seq(Entry) \cup {None}] /\ chats'[cur] = new
      /\ \A c \in ChatId : c # cur => chats'[c] = chats[c]
      /\ Present' = Present
  BY <1>3, <1>6, <1>7 DEF OfWindow, Present
<1>9. ASSUME NEW c \in Present', NEW i \in DOMAIN chats'[c]
      PROVE  chats'[c][i].of[1] = c /\ chats'[c][i].of[2] <= acts'
  <2>1. CASE c = cur
    <3>1. work.of[1] = cur /\ work.of[2] <= acts BY <1>1 DEF Generating
    <3>2. \A j \in DOMAIN msgs : msgs[j].of[1] = cur /\ msgs[j].of[2] <= acts BY <1>3 DEF Conversations
    <3>. QED BY <1>1, <1>6, <1>8, <1>9, <2>1, <3>1, <3>2
  <2>2. CASE c # cur
    <3>1. c \in Present /\ chats'[c] = chats[c] BY <1>8, <2>2 DEF Present
    <3>. QED BY <1>1, <1>9, <3>1 DEF Conversations
  <2>. QED BY <2>1, <2>2
<1>10. CASE k = Len(all)
  <2>1. work' = None /\ polls' BY <1>4, <1>10
  <2>2. new = msgs \o all
    <3>1. SubSeq(all, 1, Len(all)) = all BY <1>2
    <3>. QED BY <1>10, <3>1 DEF new
  <2>3. HoldsWholes(new) /\ Exchanges(new) = Exchanges(msgs) \cup {work.of}
    <3>1. HoldsWholes(msgs) /\ work.of \notin Exchanges(msgs) BY <1>1, <1>3 DEF Conversations, Generating
    <3>. QED BY <1>1, <1>3, <2>2, <3>1, WholesGrow DEF all
  <2>4. Conversations'
    <3>1. ASSUME NEW c \in Present' PROVE HoldsWholes(chats'[c])
      <4>1. c \in Present /\ c \in ChatId BY <1>8 DEF Present
      <4>2. HoldsWholes(chats[c]) BY <1>1, <4>1 DEF Conversations
      <4>. QED BY <1>8, <2>3, <4>1, <4>2
    <3>. QED BY <1>9, <3>1 DEF Conversations
  <2>5. Exchanges(new) \in SUBSET Exchange /\ \A x \in Exchanges(new) : x[1] = cur
    <3>1. Exchanges(new) \in SUBSET Exchange BY <1>6, ExchangesAreFew
    <3>2. \A x \in Exchanges(new) : x[1] = cur BY <1>1, <2>3, ExchangesOfChat DEF Generating
    <3>. QED BY <3>1, <3>2
  <2>. DEFINE m == work.model
  <2>6. /\ servers' \in [Model -> Memory \cup {None}]
        /\ \A n \in Model : (servers'[n] # None) = (servers[n] # None) /\ (servers[n] # None => servers'[n].ready = servers[n].ready)
        /\ servers[m] # None => servers'[m].knows = IF work.agent THEN Exchanges(new) ELSE servers[m].knows
    <3>1. CASE work.agent /\ Server # None
      <4>1. servers' = [servers EXCEPT ![m] = [servers[m] EXCEPT !.knows = Exchanges(new)]]
        BY <1>1, <1>4, <1>8, <1>10, <3>1 DEF OfWindow
      <4>2. servers[m] \in Memory BY <1>1, <3>1 DEF OfWindow, Server
      <4>3. LET s == [servers[m] EXCEPT !.knows = Exchanges(new)] IN
              s \in Memory /\ s # None /\ s.ready = servers[m].ready /\ s.knows = Exchanges(new)
        BY <2>5, <4>2, WindowNone DEF Memory
      <4>. QED BY <1>1, <3>1, <4>1, <4>2, <4>3, WindowNone DEF OfWindow
    <3>2. CASE ~(work.agent /\ Server # None)
      <4>1. servers' = servers BY <1>4, <1>10, <3>2
      <4>. QED BY <3>2, <4>1 DEF OfWindow, Server
    <3>. QED BY <3>1, <3>2
  <2>. HIDE DEF m
  <2>7. OfWindow' BY <1>1, <1>8, <2>1, <2>6 DEF OfWindow
  <2>8. Generating' /\ Acting' BY <1>1, <2>1 DEF Generating, Acting
  <2>9. Remembering'
    <3>1. SUFFICES ASSUME loaded # None PROVE Remembering' BY <1>1 DEF Remembering
    <3>2. loaded.model = m /\ m \in Model BY <1>1, <3>1 DEF Generating, m
    <3>3. servers[m] # None /\ servers[m].ready /\ loaded.key[1] = m /\ \A x \in servers[m].knows : x[1] = cur
      BY <3>1, <3>2 DEF Remembering, Knows
    <3>4. loaded.by = "send" => Exchanges(new) \subseteq servers'[m].knows
      <4>1. CASE work.agent BY <2>6, <3>3, <4>1
      <4>2. CASE ~work.agent
        <5>1. work.of \in servers[m].knows BY <1>1, <3>1, <3>3, <4>2 DEF Generating, Knows, m
        <5>2. loaded.by = "send" => Exchanges(msgs) \subseteq servers[m].knows BY <1>1, <3>1, <3>2, <3>3 DEF Remembering, Knows
        <5>. QED BY <2>3, <2>6, <3>3, <4>2, <5>1, <5>2
      <4>. QED BY <4>1, <4>2
    <3>5. servers'[m] # None /\ servers'[m].ready /\ \A x \in servers'[m].knows : x[1] = cur
      BY <2>5, <2>6, <3>2, <3>3
    <3>6. Exchanges(chats[cur])' = Exchanges(new) BY <1>1, <1>8 DEF Exchanges
    <3>. QED BY <1>1, <3>2, <3>3, <3>4, <3>5, <3>6 DEF Remembering, Knows
  <2>10. Accounted'
    <3>1. \A n \in Model : servers[n] # None /\ Known(n) => Known(n)' BY <1>1, <2>6 DEF Known
    <3>. QED BY <1>1, <2>1, <2>6, <3>1 DEF Accounted
  <2>. QED BY <1>1, <2>4, <2>7, <2>8, <2>9, <2>10 DEF WindowParts
<1>11. CASE k # Len(all)
  <2>1. servers' = servers /\ work' = work /\ polls' = FALSE BY <1>4, <1>11
  <2>2. OfWindow' BY <1>1, <1>8, <2>1 DEF OfWindow
  <2>3. Conversations' BY <1>9, <2>1 DEF Conversations
  <2>4. Generating' BY <1>1, <2>1 DEF Generating, Knows
  <2>5. Remembering' BY <1>1, <2>1 DEF Remembering, Knows
  <2>6. Acting' BY <1>1 DEF Acting
  <2>7. Accounted' BY <1>1, <2>1 DEF Accounted, Known
  <2>. QED BY <1>1, <2>2, <2>3, <2>4, <2>5, <2>6, <2>7 DEF WindowParts
<1>. QED BY <1>10, <1>11

LEMMA PollFailedStep ==
  ASSUME DesktopInv, PollFailed
  PROVE  WindowParts' /\ UNCHANGED voice /\ acts' \in Deed /\ acts' >= acts
<1>. USE DEF DesktopInv, DesktopTypes
<1>1. /\ UNCHANGED <<phase, acts, chats, cur, stop, polls, action, voice, lost>> /\ acts \in Deed /\ acts \in Nat /\ acts >= acts
      /\ work # None /\ work.pc = "done" /\ work' = None /\ ~AtLoad /\ action = None
  <2>1. /\ UNCHANGED <<phase, acts, chats, cur, stop, polls, action, voice, lost>>
        /\ work # None /\ work.end \in {"error", "cancelled"} /\ work' = None
    BY DEF PollFailed, window, store
  <2>. QED BY <2>1, ActsAreNumbers, WindowNone DEF OfWindow, Generating, AtLoad
<1>2. Conversations' BY <1>1, ConversationsKept DEF Present
<1>3. Generating' /\ Acting' BY <1>1 DEF Generating, Acting
<1>4. CASE UNCHANGED <<loaded, servers>>
  <2>1. OfWindow' BY <1>1, <1>4 DEF OfWindow, Present
  <2>2. Remembering' BY <1>1, <1>4 DEF Remembering, Knows
  <2>3. \A n \in Model : Known(n) => Known(n)' BY <1>1, <1>4 DEF Known
  <2>4. Accounted' BY <1>1, <1>4, <2>3 DEF Accounted
  <2>. QED BY <1>1, <1>2, <1>3, <2>1, <2>2, <2>4 DEF WindowParts
<1>5. CASE UnloadCurrent
  <2>1. loaded' = None /\ servers' = ServersWithoutCurrent BY <1>5 DEF UnloadCurrent
  <2>2. OfWindow' BY <1>1, <2>1, UnloadingCurrent DEF OfWindow, Present
  <2>3. Remembering' BY <2>1 DEF Remembering
  <2>4. Accounted' BY <1>1, <2>1, UnloadingCurrent DEF Accounted
  <2>. QED BY <1>1, <1>2, <1>3, <2>2, <2>3, <2>4 DEF WindowParts
<1>. QED BY <1>4, <1>5 DEF PollFailed, runtime

LEMMA StopStep ==
  ASSUME DesktopInv, Stop
  PROVE  WindowParts' /\ UNCHANGED voice /\ acts' \in Deed /\ acts' >= acts
<1>. USE DEF DesktopInv, DesktopTypes
<1>1. /\ phase' = phase /\ acts' \in Deed /\ acts' > acts /\ acts' \in Nat /\ acts \in Nat /\ stop' \in BOOLEAN
      /\ UNCHANGED <<chats, cur, loaded, servers, work, polls, action, voice, lost>>
  BY ActCounts, ActsAreNumbers DEF Stop, store, runtime
<1>2. OfWindow' BY <1>1 DEF OfWindow, Present
<1>3. Conversations' BY <1>1, ConversationsKept DEF Present
<1>4. work # None => work.of[2] \in Nat BY CostAssumption DEF OfWindow, Answering, Exchange, Deed
<1>5. Generating' BY <1>1, <1>4 DEF Generating, Knows
<1>6. Remembering' /\ Acting' BY <1>1 DEF Remembering, Acting, Knows
<1>7. Accounted' BY <1>1 DEF Accounted, Known
<1>. QED BY <1>1, <1>2, <1>3, <1>5, <1>6, <1>7 DEF WindowParts

-----------------------------------------------------------------------------
(* The window closes.                                                      *)

LEMMA CloseStep ==
  ASSUME DesktopInv, Close
  PROVE  DesktopInv'
<1>. USE DEF DesktopInv, DesktopTypes
<1>1. /\ phase = "open" /\ phase' = "closing" /\ stop' \in BOOLEAN /\ wavs' \subseteq wavs
      /\ UNCHANGED <<acts, chats, cur, loaded, servers, work, polls, action, voiceBusy, pttModel, pttPath, jobs, heard, mute, lost>>
      /\ acts \in Deed /\ acts \in Nat /\ acts >= acts
  BY ActsAreNumbers DEF Close, store, runtime, OfWindow
<1>2. (ptt' = ptt) \/ (ptt # None /\ ptt' = [ptt EXCEPT !.cancel = "asked"]) BY DEF Close, Recording
<1>3. /\ ptt' \in Recorder \cup {None} /\ (ptt' # None) = (ptt # None)
      /\ ptt # None => ptt'.file = ptt.file /\ ptt'.pc = ptt.pc
  BY <1>2, WindowNone DEF OfVoice, Recorder
<1>4. OfWindow' /\ OfVoice' BY <1>1, <1>3 DEF OfWindow, OfVoice, Present
<1>5. OneVoice' BY <1>1, <1>3 DEF OneVoice, Taking, Heeded
<1>6. OneFileEach' BY <1>1, <1>3 DEF OneFileEach, Taking
<1>7. Conversations' BY <1>1, ConversationsKept DEF Present
<1>8. Generating' BY <1>1 DEF Generating, Knows
<1>9. Remembering' /\ Acting' BY <1>1 DEF Remembering, Acting, Knows
<1>10. Accounted' BY <1>1 DEF Accounted, Known
<1>. QED BY <1>4, <1>5, <1>6, <1>7, <1>8, <1>9, <1>10

LEMMA CleanupStep ==
  ASSUME DesktopInv, Cleanup
  PROVE  WindowParts' /\ UNCHANGED voice /\ acts' \in Deed /\ acts' >= acts
<1>. USE DEF DesktopInv, DesktopTypes
<1>1. /\ phase = "closing" /\ phase' = "cleaned" /\ action = None
      /\ loaded' = None /\ servers' = ServersWithoutCurrent
      /\ lost' = (lost \/ (work # None /\ work.pc \in {"begin", "load"}))
      /\ UNCHANGED <<acts, chats, cur, work, stop, polls, action, voice>>
      /\ acts \in Deed /\ acts \in Nat /\ acts >= acts
  BY ActsAreNumbers DEF Cleanup, Settled, UnloadCurrent, store, turn, OfWindow
<1>2. OfWindow' BY <1>1, UnloadingCurrent DEF OfWindow, Present
<1>3. Conversations' BY <1>1, ConversationsKept DEF Present
<1>4. Generating'
  <2>1. SUFFICES ASSUME work # None PROVE Generating' BY <1>1 DEF Generating
  <2>2. work.model \in Model BY <2>1 DEF OfWindow, Answering
  <2>3. ServersWithoutCurrent[work.model] \in {servers[work.model], None} BY <2>2, UnloadingCurrent
  <2>4. Knows(work.model)' \in {Knows(work.model), {}} BY <1>1, <2>3 DEF Knows
  <2>. QED BY <1>1, <2>1, <2>4 DEF Generating
<1>5. Remembering' /\ Acting' BY <1>1 DEF Remembering, Acting
<1>6. Accounted'
  <2>1. SUFFICES ASSUME ~lost' PROVE Accounted' BY DEF Accounted
  <2>2. ~lost /\ (work # None => work.pc \notin {"begin", "load"}) /\ ~AtLoad BY <1>1, <2>1 DEF AtLoad
  <2>3. \A n \in Model : servers'[n] = None BY <1>1, <2>2, UnloadingCurrent
  <2>. QED BY <1>1, <2>2, <2>3 DEF Accounted
<1>. QED BY <1>1, <1>2, <1>3, <1>4, <1>5, <1>6 DEF WindowParts

LEMMA DestroyStep ==
  ASSUME DesktopInv, Destroy
  PROVE  DesktopInv'
<1>. USE DEF DesktopInv, DesktopTypes
<1>1. /\ phase = "cleaned" /\ phase' = "closed" /\ work' = None /\ action' = None /\ jobs' = {} /\ ptt' = None /\ polls' = FALSE
      /\ UNCHANGED <<acts, chats, cur, loaded, servers, stop, voiceBusy, pttModel, pttPath, heard, mute, wavs, lost>>
      /\ acts \in Deed /\ acts \in Nat /\ acts >= acts
  BY ActsAreNumbers DEF Destroy, store, runtime, OfWindow
<1>2. OfWindow' /\ OfVoice' BY <1>1 DEF OfWindow, OfVoice, Present
<1>3. OneVoice' /\ OneFileEach'
  <2>1. ~Taking' /\ Heeded' = {} BY <1>1 DEF Taking, Heeded
  <2>. QED BY <1>1, <2>1 DEF OneVoice, OneFileEach
<1>4. Conversations' BY <1>1, ConversationsKept DEF Present
<1>5. Generating' /\ Acting' BY <1>1 DEF Generating, Acting
<1>6. Remembering' BY <1>1 DEF Remembering, Knows
<1>7. Accounted'
  <2>1. SUFFICES ASSUME ~lost PROVE Accounted' BY <1>1 DEF Accounted
  <2>2. loaded = None /\ \A n \in Model : servers[n] = None BY <1>1, <2>1 DEF Accounted, Known
  <2>. QED BY <1>1, <2>2 DEF Accounted
<1>. QED BY <1>2, <1>3, <1>4, <1>5, <1>6, <1>7

LEMMA DesktopInvInit == WindowInit => DesktopInv
<1>. SUFFICES ASSUME WindowInit PROVE DesktopInv OBVIOUS
<1>. USE DEF WindowInit
<1>1. 0 \in Deed /\ 0 \in Nat BY CostAssumption DEF Deed
<1>2. Present = {0} BY <1>1, EmptyIsWhole DEF Present, ChatId
<1>3. OfWindow BY <1>1, <1>2, EmptyIsWhole DEF OfWindow, ChatId
<1>4. OfVoice BY DEF OfVoice
<1>5. OneVoice /\ OneFileEach
  <2>1. Heeded = {} /\ ~Taking BY DEF Heeded, Taking
  <2>. QED BY <2>1 DEF OneVoice, OneFileEach
<1>6. Conversations
  <2>1. chats[0] = <<>> BY <1>1 DEF ChatId
  <2>. QED BY <1>2, <2>1, EmptyIsWhole DEF Conversations
<1>7. Generating /\ Remembering /\ Acting BY DEF Generating, Remembering, Acting
<1>8. Accounted BY DEF Accounted
<1>. QED BY <1>3, <1>4, <1>5, <1>6, <1>7, <1>8 DEF DesktopInv, DesktopTypes

LEMMA PartsMakeInv ==
  ASSUME DesktopInv, WindowParts', UNCHANGED voice, acts' \in Deed, acts' >= acts
  PROVE  DesktopInv'
<1>1. OfVoice' BY DEF DesktopInv, DesktopTypes, OfVoice, voice
<1>. QED BY <1>1, VoiceLater DEF DesktopInv, DesktopTypes, WindowParts

LEMMA DesktopInvStep == DesktopInv /\ [WindowNext]_desktop => DesktopInv'
<1>. SUFFICES ASSUME DesktopInv, [WindowNext]_desktop PROVE DesktopInv' OBVIOUS
<1>1. CASE VoiceActs
  <2>1. OfWindow BY DEF DesktopInv, DesktopTypes
  <2>. QED BY <1>1, <2>1, VoiceTypes, VoiceStep, WindowLater, RestLater DEF DesktopInv, DesktopTypes
<1>2. CASE NewChat \/ SelectChat \/ DeleteChat BY <1>2, ChatStep, PartsMakeInv
<1>3. CASE Unload \/ \E m \in Model : Load(m) BY <1>3, ErrandStarts, PartsMakeInv
<1>4. CASE ActionSteps \/ FinishAction BY <1>4, ErrandStep, PartsMakeInv
<1>5. CASE \E m \in Model, agent \in BOOLEAN : Send(m, agent) BY <1>5, SendStep, PartsMakeInv
<1>6. CASE WorkSteps BY <1>6, WorkStep, PartsMakeInv
<1>7. CASE Polls BY <1>7, PollCompleteStep, PollFailedStep, PartsMakeInv DEF Polls
<1>8. CASE Stop \/ Cleanup BY <1>8, StopStep, CleanupStep, PartsMakeInv
<1>9. CASE Close \/ Destroy BY <1>9, CloseStep, DestroyStep
<1>10. CASE UNCHANGED desktop
  <2>1. OfWindow /\ acts \in Deed /\ acts >= acts BY ActsAreNumbers DEF DesktopInv, DesktopTypes, OfWindow
  <2>2. UNCHANGED <<phase, acts, store, runtime, turn, action, voice, lost>> BY <1>10 DEF desktop, window
  <2>3. OfVoice' BY <2>2 DEF DesktopInv, DesktopTypes, OfVoice, voice
  <2>. QED BY <2>1, <2>2, <2>3, VoiceLater, WindowLater, RestLater DEF DesktopInv, DesktopTypes
<1>. QED BY <1>1, <1>2, <1>3, <1>4, <1>5, <1>6, <1>7, <1>8, <1>9, <1>10 DEF WindowNext, UserActs, VoiceActs

\* As many jobs as there were acts, at most.
LEMMA JobsAreFew ==
  ASSUME DesktopInv
  PROVE  Cardinality(jobs) <= MaxActs
<1>. USE DEF DesktopInv, DesktopTypes
<1>. DEFINE file == [j \in jobs |-> j.file]
<1>1. acts \in Nat /\ MaxActs \in Nat /\ acts <= MaxActs BY ActsAreNumbers
<1>2. IsFiniteSet(1..acts) /\ Cardinality(1..acts) = acts BY <1>1, FS_Interval
<1>3. file \in Injection(jobs, 1..acts) BY DEF OneFileEach, Injection, IsInjective
<1>4. Cardinality(jobs) <= Cardinality(1..acts) /\ IsFiniteSet(jobs)
  BY <1>2, <1>3, FS_Injection
<1>. QED BY <1>1, <1>2, <1>4, FS_CardinalityType

LEMMA DesktopInvSays == DesktopInv => ServersFollowTheWindow
<1>. SUFFICES ASSUME DesktopInv PROVE ServersFollowTheWindow OBVIOUS
<1>. USE DEF DesktopInv, DesktopTypes
<1>1. WindowTypeOK
  <2>1. acts \in 0..MaxActs /\ MaxActs \in Nat BY ActsAreNumbers DEF OfWindow, Deed
  <2>2. heard \in 0..MaxActs BY <2>1 DEF OfVoice, OneVoice
  <2>. QED BY <2>2, JobsAreFew DEF OfWindow, OfVoice, Conversations, WindowTypeOK
<1>2. ModelKnowsItsChat
  <2>1. work # None => work.chat = cur BY DEF OfWindow
  <2>. QED BY <2>1 DEF Generating, Remembering, ModelKnowsItsChat
<1>3. ClosedLeavesNoServer
  <2>1. SUFFICES ASSUME phase = "closed", ~lost PROVE \A m \in Model : servers[m] = None BY DEF ClosedLeavesNoServer
  <2>. QED BY <2>1 DEF Accounted, Known
<1>. QED BY <1>1, <1>2, <1>3 DEF ServersFollowTheWindow

\* The theorem: whatever the user clicks while models load, answers are
\* generated and recordings run, a model that answers knows no chat but its
\* own, one that a message has loaded knows all its chat has saved, exchanges
\* are saved whole while the window polls, and no server outlives the window
\* but one the code has lost.
THEOREM WindowTheorem == WindowSpec => []ServersFollowTheWindow
<1>1. DesktopInv /\ [WindowNext]_desktop => DesktopInv' BY DesktopInvStep
<1>. QED BY <1>1, DesktopInvInit, DesktopInvSays, PTL DEF WindowSpec

=============================================================================
