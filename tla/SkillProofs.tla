---------------------------- MODULE SkillProofs ----------------------------
(***************************************************************************)
(* The life of a run of a skill, from its plan to its report.              *)
(*                                                                         *)
(* What SkillExecution promises for every plan, however many skills it     *)
(* nests, and every limit: RoutesAreCovered, NodesDecide, ReportIsOrderly. *)
(* The inductive invariant IInv has one part per question: who holds the   *)
(* slots (Tokens), the leases (Leased) and the threads (Placed), which     *)
(* frames are in use (Frames, Nested), and where cancelled nodes are       *)
(* (Reported). Ordered, the invariant of the order, rests on it and on the *)
(* layers: that Rank is what its recursive equation says is proved. Story  *)
(* says of every frame, also of the nested ones, that its report is in     *)
(* order and tells what has happened to its nodes, and nothing else.       *)
(*                                                                         *)
(* What Planning promises for every set of models and skills:              *)
(* PlansAreSound, ReviewsDecide, CatalogAndPlannerAgree. PlanningInv says  *)
(* of everything that is drafted, seen, started or run from which worlds   *)
(* it was made, and that these are the present one if nothing has moved.   *)
(***************************************************************************)
EXTENDS SkillExecution, Planning, KeepingProofs

\* The nodes that a frame works on.
Members(s) == ToSet(frame[s].batch)

\* A frame between two batches has none; from its reservation until its release
\* it has a slot for every route; its nodes start when the threads do.
FrameOk(s) ==
  LET f == frame[s] IN
  /\ Members(s) \subseteq Nodes(s)
  /\ f.phase \in {"off", "next", "ended"} => f.batch = <<>> /\ f.taken = 0
  /\ f.phase = "off" => f = Off
  /\ f.phase \in {"start", "wait", "release"} => f.taken = Cardinality(Routed(f.batch))
  /\ f.phase \in {"slots", "start"} => \A n \in Members(s) : node[n] = "idle"
  /\ f.phase = "release" => f.exit # "ok"
  /\ f.phase = "ended" => f.exit # "none"
  /\ f.phase \notin {"release", "ended"} => f.exit = "none"
Frames == \A s \in Skill : FrameOk(s)

\* Every slot that is not free belongs to one frame.
Owned(busy, own, s) == {i \in busy : own[i] = s}
Shared(busy, own) ==
  /\ slots = Limit[Root] - Cardinality(busy)
  /\ \A s \in Skill : Cardinality(Owned(busy, own, s)) = frame[s].taken
Tokens == \E busy \in SUBSET (1..Limit[Root]) : \E own \in [busy -> Skill] : Shared(busy, own)

\* Threads work for a frame that waits for them.
Placed ==
  \A n \in Node : node[n] \in {"pending", "running"} =>
    \E s \in Skill : frame[s].phase = "wait" /\ n \in Members(s)

\* The leases are those of the routes of reserved batches.
Reserved(s) == frame[s].phase \in {"start", "wait", "release"}
Leased == leases = {n \in Node : Kind[n] = "route" /\ \E s \in Skill : Reserved(s) /\ n \in Members(s)}

\* A frame is in use while the node that called it runs, and not before.
Nested ==
  /\ \A s \in Skill \ {Root} : frame[s].phase \notin {"off", "ended"} =>
       \E n \in Node : Kind[n] = "skill" /\ Child[n] = s /\ node[n] = "running"
  /\ \A n \in Node : Kind[n] = "skill" /\ node[n] \in {"idle", "pending"} =>
       frame[Child[n]].phase = "off"

\* A cancelled node is still to be reported, or has been.
Reported ==
  \A s \in Skill : \A n \in Nodes(s) : node[n] = "cancelled" =>
    \/ frame[s].phase = "wait" /\ n \in Members(s)
    \/ frame[s].phase = "release" /\ frame[s].exit = "cancelled"
    \/ frame[s].phase = "ended" /\ (frame[s].exit = "cancelled" \/ frame[s].torn)

IInv == TypeOK /\ Frames /\ Tokens /\ Placed /\ Leased /\ Nested /\ Reported

-----------------------------------------------------------------------------
(* What the operators return.                                              *)

\* The limits are numbers, and the plan is finite.
LEMMA PlanShape ==
  /\ IsFiniteSet(Node) /\ Root \in Skill /\ Limit[Root] \in Nat
  /\ \A s \in Skill : Graph[s] \in Seq(Node) /\ Nodes(s) \subseteq Node /\ Width(s) \in Nat
  /\ \A n \in Node : Kind[n] = "skill" => Child[n] \in Skill \ {Root}
<1>1. \A s \in Skill : Graph[s] \in Seq(Node) /\ Limit[s] \in Nat /\ Limit[Root] \in Nat
  BY GraphAssumption, LimitAssumption
<1>2. \A s \in Skill : Nodes(s) \subseteq Node  BY <1>1, ToSetOfSeq DEF Nodes
<1>. QED  BY <1>1, <1>2, GraphAssumption DEF Width

\* A prefix of a sequence is one over the same set.
LEMMA Prefix ==
  ASSUME NEW T, NEW t \in Seq(T), NEW k \in Nat, k < Len(t)
  PROVE  SubSeq(t, 1, k) \in Seq(T) /\ ToSet(SubSeq(t, 1, k)) \subseteq ToSet(t)
<1>1. /\ SubSeq(t, 1, k) \in Seq(T) /\ Len(SubSeq(t, 1, k)) = k
      /\ \A i \in 1..k : SubSeq(t, 1, k)[i] = t[i] /\ i \in 1..Len(t)
  OBVIOUS
<1>. DEFINE u == SubSeq(t, 1, k)
<1>. HIDE DEF u
<1>2. u \in Seq(T) /\ Len(u) = k /\ \A i \in 1..k : u[i] = t[i] /\ i \in 1..Len(t)  BY <1>1 DEF u
<1>3. ToSet(u) \subseteq ToSet(t)  BY <1>2 DEF ToSet
<1>. QED  BY <1>2, <1>3 DEF u

\* A batch consists of idle nodes of one layer.
LEMMA BatchFacts ==
  ASSUME NEW s \in Skill
  PROVE  /\ ToSet(Idle(s)) = {n \in Nodes(s) : node[n] = "idle"}
         /\ Idle(s) \in Seq(Node) /\ Batch(s) \in Seq(Node)
         /\ \A n \in ToSet(Batch(s)) : /\ n \in ToSet(Idle(s))
                                       /\ Rank[n] = Min({Rank[m] : m \in ToSet(Idle(s))})
<1>. DEFINE idle == Idle(s)
            first == Min({Rank[m] : m \in ToSet(idle)})
            S == {n \in Node : Rank[n] = first}
            layer == Keep(idle, S)
<1>1. Graph[s] \in Seq(Node) /\ Nodes(s) \subseteq Node /\ Width(s) \in Nat  BY PlanShape
<1>2. idle \in Seq(Node) /\ ToSet(idle) = Nodes(s) \cap {n \in Node : node[n] = "idle"}
  BY <1>1, KeepInS DEF Idle, Nodes
<1>. HIDE DEF idle
<1>3. layer \in Seq(Node) /\ ToSet(layer) = ToSet(idle) \cap S
  <2>. HIDE DEF S
  <2>. QED  BY <1>2, KeepInS
<1>. HIDE DEF layer
<1>4. Batch(s) = IF Len(layer) > Width(s) THEN SubSeq(layer, 1, Width(s)) ELSE layer
  BY DEF Batch, layer, idle
<1>5. Batch(s) \in Seq(Node) /\ ToSet(Batch(s)) \subseteq ToSet(layer)
  <2>1. CASE Len(layer) > Width(s)
    <3>1. Width(s) < Len(layer)  BY <1>1, <1>3, <2>1
    <3>2. SubSeq(layer, 1, Width(s)) \in Seq(Node) /\ ToSet(SubSeq(layer, 1, Width(s))) \subseteq ToSet(layer)
      BY <1>1, <1>3, <3>1, Prefix
    <3>. QED  BY <1>4, <2>1, <3>2
  <2>2. CASE ~(Len(layer) > Width(s))  BY <1>3, <1>4, <2>2
  <2>. QED  BY <2>1, <2>2
<1>6. ToSet(idle) = {n \in Nodes(s) : node[n] = "idle"}  BY <1>1, <1>2
<1>. QED  BY <1>2, <1>3, <1>5, <1>6 DEF idle

\* What a frame reports is a sequence of events.
EventType == {"started", "completed", "failed"} \X Node

\* What a frame says about its nodes is a list of events.
LEMMA ToldType ==
  ASSUME NEW batch \in Seq(Node), NEW what \in {"started", "completed", "failed"}
  PROVE  Told(what, batch) \in Seq(EventType)
BY DEF Told, EventType

\* An event that comes after another.
Earlier(r, x, y) == \E i, j \in DOMAIN r : i < j /\ r[i] = x /\ r[j] = y

(* Reports that are put together.                                          *)

\* A report and what follows it.
LEMMA Joins ==
  ASSUME NEW E, NEW u \in Seq(E), NEW v \in Seq(E)
  PROVE  /\ u \o v \in Seq(E) /\ ToSet(u \o v) = ToSet(u) \cup ToSet(v)
         /\ \A x, y : Earlier(u, x, y) \/ Earlier(v, x, y) => Earlier(u \o v, x, y)
         /\ \A x \in ToSet(u), y \in ToSet(v) : Earlier(u \o v, x, y)
         /\ IsInjective(u) /\ IsInjective(v) /\ ToSet(u) \cap ToSet(v) = {}
              => IsInjective(u \o v)
<1>. DEFINE w == u \o v
            L == Len(u)
            M == Len(v)
<1>1. /\ w \in Seq(E) /\ Len(w) = L + M /\ L \in Nat /\ M \in Nat
      /\ \A i \in 1..L : w[i] = u[i]
      /\ \A i \in 1..M : w[L + i] = v[i]
      /\ DOMAIN u = 1..L /\ DOMAIN v = 1..M
  OBVIOUS
<1>2. DOMAIN w = 1..L + M  BY <1>1
<1>. HIDE DEF w, L, M
<1>3. \A i \in 1..L + M : i \in 1..L \/ (i - L \in 1..M /\ i = L + (i - L))  BY <1>1
<1>4. \A i \in 1..L + M : w[i] \in ToSet(u) \cup ToSet(v)
  <2>. SUFFICES ASSUME NEW i \in 1..L + M PROVE w[i] \in ToSet(u) \cup ToSet(v)  OBVIOUS
  <2>1. CASE i \in 1..L  BY <1>1, <2>1 DEF ToSet
  <2>2. CASE i \notin 1..L
    <3>1. PICK k \in 1..M : i = L + k  BY <1>3, <2>2
    <3>. QED  BY <1>1, <3>1 DEF ToSet
  <2>. QED  BY <2>1, <2>2
<1>5. \A i \in 1..L : i \in 1..L + M  BY <1>1
<1>6. \A i \in 1..M : L + i \in 1..L + M  BY <1>1
<1>7. ToSet(w) = ToSet(u) \cup ToSet(v)
  <2>1. ToSet(w) \subseteq ToSet(u) \cup ToSet(v)  BY <1>2, <1>4 DEF ToSet
  <2>2. ToSet(u) \subseteq ToSet(w)  BY <1>1, <1>2, <1>5 DEF ToSet
  <2>3. ToSet(v) \subseteq ToSet(w)  BY <1>1, <1>2, <1>6 DEF ToSet
  <2>. QED  BY <2>1, <2>2, <2>3
<1>8. ASSUME NEW x, NEW y, Earlier(u, x, y) PROVE Earlier(w, x, y)
  BY <1>1, <1>2, <1>5, <1>8 DEF Earlier
<1>9. ASSUME NEW x, NEW y, Earlier(v, x, y) PROVE Earlier(w, x, y)
  <2>1. PICK i \in 1..M, j \in 1..M : i < j /\ v[i] = x /\ v[j] = y  BY <1>1, <1>9 DEF Earlier
  <2>2. L + i < L + j /\ w[L + i] = x /\ w[L + j] = y  BY <1>1, <2>1
  <2>. QED  BY <1>2, <1>6, <2>2 DEF Earlier
<1>10. ASSUME NEW x \in ToSet(u), NEW y \in ToSet(v) PROVE Earlier(w, x, y)
  <2>1. PICK i \in 1..L : u[i] = x  BY <1>1 DEF ToSet
  <2>2. PICK j \in 1..M : v[j] = y  BY <1>1 DEF ToSet
  <2>3. i < L + j /\ w[i] = x /\ w[L + j] = y  BY <1>1, <2>1, <2>2
  <2>. QED  BY <1>2, <1>5, <1>6, <2>3 DEF Earlier
<1>11. ASSUME IsInjective(u), IsInjective(v), ToSet(u) \cap ToSet(v) = {}
       PROVE  IsInjective(w)
  <2>. SUFFICES ASSUME NEW i \in 1..L + M, NEW j \in 1..L + M, w[i] = w[j] PROVE i = j
    BY <1>2 DEF IsInjective
  <2>1. \A k \in 1..L : w[k] \in ToSet(u)  BY <1>1 DEF ToSet
  <2>2. \A k \in 1..M : w[L + k] \in ToSet(v)  BY <1>1 DEF ToSet
  <2>3. CASE i \in 1..L /\ j \in 1..L  BY <1>1, <1>11, <2>3 DEF IsInjective
  <2>4. CASE i \notin 1..L /\ j \notin 1..L
    <3>1. PICK a \in 1..M : i = L + a  BY <1>3, <2>4
    <3>2. PICK b \in 1..M : j = L + b  BY <1>3, <2>4
    <3>3. v[a] = v[b]  BY <1>1, <3>1, <3>2
    <3>4. a = b  BY <1>1, <1>11, <3>3 DEF IsInjective
    <3>. QED  BY <3>1, <3>2, <3>4
  <2>5. CASE i \in 1..L /\ j \notin 1..L
    <3>1. PICK b \in 1..M : j = L + b  BY <1>3, <2>5
    <3>. QED  BY <1>11, <2>1, <2>2, <2>5, <3>1
  <2>6. CASE i \notin 1..L /\ j \in 1..L
    <3>1. PICK b \in 1..M : i = L + b  BY <1>3, <2>6
    <3>. QED  BY <1>11, <2>1, <2>2, <2>6, <3>1
  <2>. QED  BY <2>3, <2>4, <2>5, <2>6
<1>. QED  BY <1>1, <1>7, <1>8, <1>9, <1>10, <1>11 DEF w

\* One element at the end of nothing.
LEMMA Single ==
  ASSUME NEW E, NEW x \in E
  PROVE  <<x>> \in Seq(E) /\ ToSet(<<x>>) = {x} /\ IsInjective(<<x>>)
<1>1. <<x>> \in Seq(E) /\ Len(<<x>>) = 1 /\ DOMAIN <<x>> = {1} /\ <<x>>[1] = x  OBVIOUS
<1>. QED  BY <1>1 DEF ToSet, IsInjective

\* r has the first n of the reports ss, in their order.
Collects(r, ss, n) ==
  /\ ToSet(r) = UNION {ToSet(ss[i]) : i \in 1..n}
  /\ \A i \in 1..n : \A x, y : Earlier(ss[i], x, y) => Earlier(r, x, y)
  /\ \A i, j \in 1..n : i < j => \A x \in ToSet(ss[i]), y \in ToSet(ss[j]) : Earlier(r, x, y)
  /\ (\A i, j \in 1..n : IsInjective(ss[i]) /\ (i # j => ToSet(ss[i]) \cap ToSet(ss[j]) = {}))
       => IsInjective(r)

\* The next report comes after the ones before.
LEMMA CollectsMore ==
  ASSUME NEW E, NEW ss \in Seq(Seq(E)), NEW n \in Nat, n + 1 <= Len(ss),
         NEW r \in Seq(E), Collects(r, ss, n)
  PROVE  r \o ss[n+1] \in Seq(E) /\ Collects(r \o ss[n+1], ss, n + 1)
<1>1. n + 1 \in 1..Len(ss)  OBVIOUS
<1>2. PICK v \in Seq(E) : v = ss[n+1]  BY <1>1
<1>. DEFINE q == r \o v
<1>3. /\ q \in Seq(E) /\ ToSet(q) = ToSet(r) \cup ToSet(v)
      /\ \A x, y : Earlier(r, x, y) \/ Earlier(v, x, y) => Earlier(q, x, y)
      /\ \A x \in ToSet(r), y \in ToSet(v) : Earlier(q, x, y)
      /\ IsInjective(r) /\ IsInjective(v) /\ ToSet(r) \cap ToSet(v) = {} => IsInjective(q)
  BY Joins
<1>. HIDE DEF q
<1>4. \A i \in 1..n + 1 : i \in 1..n \/ i = n + 1  OBVIOUS
<1>5. \A i \in 1..n : i \in 1..n + 1 /\ i < n + 1 /\ i # n + 1  OBVIOUS
<1>6. n + 1 \in 1..n + 1  OBVIOUS
<1>7. ToSet(q) = UNION {ToSet(ss[i]) : i \in 1..n + 1}
  BY <1>2, <1>3, <1>4, <1>5, <1>6 DEF Collects
<1>8. \A i \in 1..n : ToSet(ss[i]) \subseteq ToSet(r)  BY DEF Collects
<1>9. ASSUME NEW i \in 1..n + 1, NEW x, NEW y, Earlier(ss[i], x, y) PROVE Earlier(q, x, y)
  BY <1>2, <1>3, <1>4, <1>9 DEF Collects
<1>10. ASSUME NEW i \in 1..n + 1, NEW j \in 1..n + 1, i < j,
              NEW x \in ToSet(ss[i]), NEW y \in ToSet(ss[j])
       PROVE  Earlier(q, x, y)
  <2>1. CASE j \in 1..n
    <3>1. i \in 1..n  BY <1>4, <1>10, <2>1
    <3>2. Earlier(r, x, y)  BY <1>10, <2>1, <3>1 DEF Collects
    <3>. QED  BY <1>3, <3>2
  <2>2. CASE j = n + 1
    <3>1. i \in 1..n  BY <1>10, <2>2
    <3>. QED  BY <1>2, <1>3, <1>8, <2>2, <3>1
  <2>. QED  BY <1>4, <2>1, <2>2
<1>11. ASSUME \A i, j \in 1..n + 1 :
                IsInjective(ss[i]) /\ (i # j => ToSet(ss[i]) \cap ToSet(ss[j]) = {})
       PROVE  IsInjective(q)
  <2>1. \A i, j \in 1..n : IsInjective(ss[i]) /\ (i # j => ToSet(ss[i]) \cap ToSet(ss[j]) = {})
    BY <1>5, <1>11
  <2>2. IsInjective(r) /\ IsInjective(v)  BY <1>2, <1>6, <1>11, <2>1 DEF Collects
  <2>3. ToSet(r) \cap ToSet(v) = {}
    <3>1. \A i \in 1..n : ToSet(ss[i]) \cap ToSet(v) = {}  BY <1>2, <1>5, <1>6, <1>11
    <3>. QED  BY <3>1 DEF Collects
  <2>. QED  BY <1>3, <2>2, <2>3
<1>. QED  BY <1>2, <1>3, <1>7, <1>9, <1>10, <1>11 DEF q, Collects

\* FlattenSeq returns a sequence over the same set, with all the reports.
LEMMA FlattenCollects ==
  ASSUME NEW T, NEW ss \in Seq(Seq(T))
  PROVE  FlattenSeq(ss) \in Seq(T) /\ Collects(FlattenSeq(ss), ss, Len(ss))
<1>0. <<>> \in Seq(T) /\ Collects(<<>>, ss, 0)
  <2>1. ToSet(<<>>) = {} /\ IsInjective(<<>>) /\ 1..0 = {}  BY DEF ToSet, IsInjective
  <2>2. UNION {ToSet(ss[i]) : i \in 1..0} = {}  BY <2>1
  <2>. QED  BY <2>1, <2>2 DEF Collects
<1>1. CASE Len(ss) = 0
  <2>1. ss = <<>>  BY <1>1
  <2>2. FlattenSeq(ss) = <<>>  BY <1>1, <2>1 DEF FlattenSeq
  <2>. QED  BY <1>0, <1>1, <2>2
<1>2. CASE Len(ss) # 0
  <2>. DEFINE X == Seq(T)
              N == Len(ss)
              g == [p \in X \X (1..N) |-> p[1] \o ss[p[2]]]
              Eq(f) == f = [i \in 1..Len(ss) |-> IF i = 1 THEN ss[i] ELSE f[i-1] \o ss[i]]
  <2>1. \A i \in 1..N : ss[i] \in X  OBVIOUS
  <2>2. g \in [X \X (1..N) -> X]
    <3>1. \A x \in X, i \in 1..N : x \o ss[i] \in X  OBVIOUS
    <3>. HIDE DEF X
    <3>. QED  BY <3>1
  <2>3. PICK f \in [0..N -> X] : f[0] = <<>> /\ \A i \in 1..N : f[i] = g[<<f[i-1], i>>]
    <3>. DEFINE b == <<>>
    <3>1. b \in X /\ N \in Nat  OBVIOUS
    <3>. HIDE DEF X, N, g, b
    <3>2. \E f \in [0..N -> X] : Iterates(f, N, b, g)  BY <2>2, <3>1, Recursion
    <3>. QED  BY <3>2 DEF b, Iterates
  <2>4. N \in Nat /\ (\A x \in X : <<>> \o x = x) /\ \A x, y \in X : x \o y \in X  OBVIOUS
  <2>. HIDE DEF N
  <2>5. ASSUME NEW i \in 1..N PROVE f[i] = IF i = 1 THEN ss[i] ELSE f[i-1] \o ss[i]
    <3>1. i - 1 \in 0..N  BY <2>4
    <3>2. f[i-1] \in X  BY <3>1
    <3>3. f[i] = f[i-1] \o ss[i]  BY <2>3, <3>2
    <3>4. CASE i = 1
      <4>1. f[i-1] = <<>>  BY <2>3, <3>4
      <4>2. ss[i] \in X  BY <2>1
      <4>3. <<>> \o ss[i] = ss[i]  BY <2>4, <4>2
      <4>4. f[i] = ss[i]  BY <3>3, <4>1, <4>3
      <4>. QED  BY <3>4, <4>4
    <3>. QED  BY <3>3, <3>4
  <2>. DEFINE h == [i \in 1..N |-> f[i]]
  <2>6. Eq(h)
    <3>1. ASSUME NEW i \in 1..N PROVE h[i] = IF i = 1 THEN ss[i] ELSE h[i-1] \o ss[i]
      <4>1. i # 1 => i - 1 \in 1..N  BY <2>4
      <4>2. i # 1 => h[i-1] = f[i-1]  BY <4>1
      <4>. QED  BY <2>5, <4>2
    <3>. QED  BY <3>1 DEF N
  <2>7. FlattenSeq(ss) = (CHOOSE k : Eq(k))[N]  BY <1>2 DEF FlattenSeq, N
  <2>. DEFINE k == CHOOSE k : Eq(k)
  <2>. HIDE DEF Eq, h
  <2>8. Eq(k)  BY <2>6
  <2>. HIDE DEF k
  <2>9. k = [i \in 1..N |-> IF i = 1 THEN ss[i] ELSE k[i-1] \o ss[i]]  BY <2>8 DEF Eq, N
  <2>10. \A i \in 1..N : k[i] = IF i = 1 THEN ss[i] ELSE k[i-1] \o ss[i]
    <3>. DEFINE u == [i \in 1..N |-> IF i = 1 THEN ss[i] ELSE k[i-1] \o ss[i]]
    <3>1. \A i \in 1..N : u[i] = IF i = 1 THEN ss[i] ELSE k[i-1] \o ss[i]  OBVIOUS
    <3>2. k = u  BY <2>9
    <3>. HIDE DEF u
    <3>. QED  BY <3>1, <3>2
  <2>. HIDE DEF X
  <2>. DEFINE Good(i) == k[i] \in X /\ Collects(k[i], ss, i)
              S == {i \in Nat : i + 1 <= N => Good(i+1)}
  <2>11. 0 \in S
    <3>1. 1 \in 1..N  BY <1>2, <2>4 DEF N
    <3>2. k[1] = ss[1] /\ k[1] \in X  BY <2>1, <2>10, <3>1
    <3>3. <<>> \o ss[1] = ss[1]  BY <2>4, <3>2
    <3>4. 0 + 1 <= Len(ss)  BY <1>2
    <3>5. Collects(<<>> \o ss[0+1], ss, 0 + 1)  BY <1>0, <3>4, CollectsMore
    <3>6. Collects(k[1], ss, 1)  BY <3>2, <3>3, <3>5
    <3>. QED  BY <3>2, <3>6
  <2>12. ASSUME NEW i \in Nat, i \in S PROVE i + 1 \in S
    <3>1. CASE i + 2 <= N
      <4>1. i + 2 \in 1..N /\ (i + 2) - 1 = i + 1 /\ i + 2 # 1 /\ i + 1 <= N  BY <2>4, <3>1
      <4>2. k[i+2] = k[i+1] \o ss[i+2]  BY <2>10, <4>1
      <4>3. Good(i+1)  BY <2>12, <4>1
      <4>4. PICK m \in Nat : m = i + 1  OBVIOUS
      <4>5. k[m] \in Seq(T) /\ Collects(k[m], ss, m) /\ m + 1 = i + 2 /\ m + 1 <= Len(ss)
        BY <3>1, <4>3, <4>4 DEF X, N
      <4>6. k[m] \o ss[m+1] \in Seq(T) /\ Collects(k[m] \o ss[m+1], ss, m + 1)
        BY <4>5, CollectsMore
      <4>7. Good(i+2)  BY <4>2, <4>4, <4>5, <4>6 DEF X
      <4>8. (i + 1) + 1 = i + 2  OBVIOUS
      <4>. QED  BY <4>7, <4>8
    <3>2. CASE ~(i + 2 <= N)  BY <2>4, <3>2
    <3>. QED  BY <3>1, <3>2
  <2>. HIDE DEF S, Good
  <2>13. N - 1 \in Nat /\ N # 0  BY <1>2, <2>4 DEF N
  <2>14. N - 1 \in S
    <3>1. \A i \in Nat : i \in S => i + 1 \in S  BY <2>12
    <3>2. Nat \subseteq S  BY <2>11, <3>1, Induction
    <3>. QED  BY <2>13, <3>2
  <2>15. Good(N)
    <3>1. (N - 1) + 1 = N  BY <2>4
    <3>. QED  BY <2>4, <2>14, <3>1 DEF S
  <2>. QED  BY <2>7, <2>15 DEF k, X, N, Good
<1>. QED  BY <1>1, <1>2

\* The reports of a batch, those of nested skills included, are events too.
LEMMA ReportsType ==
  ASSUME TypeOK, NEW s \in Skill
  PROVE  Reports(frame[s].batch) \in Seq(EventType)
<1>. DEFINE batch == frame[s].batch
            ss == [i \in DOMAIN batch |-> Report(batch[i])]
<1>1. batch \in Seq(Node)  BY DEF TypeOK, Frame
<1>2. ASSUME NEW n \in Node PROVE Report(n) \in Seq(EventType)
  <2>1. (IF Kind[n] = "skill" THEN said[Child[n]] ELSE <<>>) \in Seq(EventType)
    <3>1. \A t \in Skill : said[t] \in Seq(EventType)  BY DEF TypeOK, EventType
    <3>2. Kind[n] = "skill" => Child[n] \in Skill  BY PlanShape
    <3>. QED  BY <3>1, <3>2
  <2>2. <<<<IF node[n] = "ok" THEN "completed" ELSE "failed", n>>>> \in Seq(EventType)
    BY DEF EventType
  <2>. QED  BY <2>1, <2>2 DEF Report
<1>3. ss \in Seq(Seq(EventType))
  <2>1. \A i \in DOMAIN batch : batch[i] \in Node /\ Report(batch[i]) \in Seq(EventType)
    BY <1>1, <1>2
  <2>2. DOMAIN batch = 1..Len(batch) /\ Len(batch) \in Nat  BY <1>1
  <2>. HIDE DEF batch
  <2>. DEFINE Q == Seq(EventType)
  <2>3. \A i \in 1..Len(batch) : Report(batch[i]) \in Q  BY <2>1, <2>2
  <2>. HIDE DEF Q
  <2>4. ss \in [1..Len(batch) -> Q]  BY <2>2, <2>3
  <2>. QED  BY <2>2, <2>4 DEF Q
<1>. QED  BY <1>3, FlattenCollects DEF Reports

\* The slots of a frame are not free.
LEMMA TokenBounds ==
  ASSUME Tokens
  PROVE  /\ slots \in 0..Limit[Root]
         /\ \A s \in Skill : frame[s].taken \in Nat /\ slots + frame[s].taken <= Limit[Root]
<1>0. PICK busy \in SUBSET (1..Limit[Root]) : \E own \in [busy -> Skill] : Shared(busy, own)
  BY DEF Tokens
<1>1. PICK own \in [busy -> Skill] : Shared(busy, own)  BY <1>0
<1>2. PICK L \in Nat : L = Limit[Root]  BY PlanShape
<1>3. IsFiniteSet(1..Limit[Root]) /\ Cardinality(1..Limit[Root]) = Limit[Root]
  <2>1. IsFiniteSet(1..L) /\ Cardinality(1..L) = L  BY FS_Interval
  <2>. QED  BY <1>2, <2>1
<1>4. IsFiniteSet(busy) /\ Cardinality(busy) \in Nat /\ Cardinality(busy) <= Limit[Root]
  BY <1>3, FS_Subset, FS_CardinalityType
<1>5. ASSUME NEW s \in Skill
      PROVE  Cardinality(Owned(busy, own, s)) \in Nat
             /\ Cardinality(Owned(busy, own, s)) <= Cardinality(busy)
  <2>1. Owned(busy, own, s) \in SUBSET busy  BY DEF Owned
  <2>. QED  BY <1>4, <2>1, FS_Subset, FS_CardinalityType
<1>. QED  BY <1>1, <1>2, <1>4, <1>5 DEF Shared

-----------------------------------------------------------------------------
(* Types.                                                                  *)

\* A frame is a record of its type, and works on nodes.
LEMMA FrameType ==
  ASSUME TypeOK, NEW s \in Skill
  PROVE  frame[s] \in Frame /\ frame[s].batch \in Seq(Node) /\ Members(s) \subseteq Node
BY ToSetOfSeq DEF TypeOK, Frame, Members

\* A frame that is not in use, or has just been opened, is one.
LEMMA OffType == Off \in Frame /\ [Off EXCEPT !.phase = "next"] \in Frame
<1>1. 0 \in 0..Limit[Root] /\ <<>> \in Seq(Node)  BY PlanShape
<1>. QED  BY <1>1 DEF Off, Frame

\* The variables have their types at the start.
LEMMA InitType == Init => TypeOK
<1>. SUFFICES ASSUME Init PROVE TypeOK  OBVIOUS
<1>1. Limit[Root] \in 0..Limit[Root]  BY PlanShape
<1>2. frame \in [Skill -> Frame]  BY OffType DEF Init
<1>3. said \in [Skill -> Seq({"started", "completed", "failed"} \X Node)]  BY DEF Init
<1>. QED  BY <1>1, <1>2, <1>3 DEF Init, TypeOK

\* One frame changes.
LEMMA FrameChanges ==
  ASSUME TypeOK, NEW s \in Skill, NEW f \in Frame, frame' = [frame EXCEPT ![s] = f]
  PROVE  /\ frame' \in [Skill -> Frame] /\ frame'[s] = f
         /\ \A t \in Skill \ {s} : frame'[t] = frame[t]
BY DEF TypeOK

\* What a step of a frame makes of it.
LEMMA EndedType ==
  ASSUME NEW f \in Frame, NEW exit \in {"none", "ok", "failed", "cancelled"}
  PROVE  /\ Ended(f, exit) \in Frame /\ [Ended(f, exit) EXCEPT !.torn = TRUE] \in Frame
         /\ Ended(f, exit).phase = "ended" /\ Ended(f, exit).exit = exit
         /\ Ended(f, exit).batch = <<>> /\ Ended(f, exit).taken = 0
<1>1. 0 \in 0..Limit[Root] /\ <<>> \in Seq(Node)  BY PlanShape
<1>. QED  BY <1>1 DEF Ended, Frame

-----------------------------------------------------------------------------
(* What every step of a frame keeps.                                       *)

\* A frame that is not touched is as good as before.
LEMMA OtherFrame ==
  ASSUME NEW t \in Skill, FrameOk(t), frame'[t] = frame[t],
         \A n \in Members(t) : node[n] = "idle" => node'[n] = "idle"
  PROVE  FrameOk(t)'
<1>1. Members(t)' = Members(t)  BY DEF Members
<1>. QED  BY <1>1 DEF FrameOk

\* Slots that stay where they are.
LEMMA TokensStay ==
  ASSUME Tokens, slots' = slots, \A s \in Skill : frame'[s].taken = frame[s].taken
  PROVE  Tokens'
<1>0. PICK busy \in SUBSET (1..Limit[Root]) : \E own \in [busy -> Skill] : Shared(busy, own)
  BY DEF Tokens
<1>1. PICK own \in [busy -> Skill] : Shared(busy, own)  BY <1>0
<1>2. Shared(busy, own)'  BY <1>1 DEF Shared
<1>. QED  BY <1>2 DEF Tokens

\* A slot that is free is taken.
LEMMA TokenTaken ==
  ASSUME Tokens, NEW s \in Skill, slots > 0, slots' = slots - 1,
         frame'[s].taken = frame[s].taken + 1,
         \A t \in Skill \ {s} : frame'[t].taken = frame[t].taken
  PROVE  Tokens'
<1>0. PICK busy \in SUBSET (1..Limit[Root]) : \E own \in [busy -> Skill] : Shared(busy, own)
  BY DEF Tokens
<1>1. PICK own \in [busy -> Skill] : Shared(busy, own)  BY <1>0
<1>. DEFINE L == Limit[Root]
<1>2. L \in Nat /\ IsFiniteSet(1..L) /\ Cardinality(1..L) = L
  <2>1. L \in Nat  BY PlanShape
  <2>. HIDE DEF L
  <2>. QED  BY <2>1, FS_Interval
<1>3. IsFiniteSet(busy) /\ Cardinality(busy) \in Nat  BY <1>2, FS_Subset, FS_CardinalityType
<1>4. slots = L - Cardinality(busy)  BY <1>1 DEF Shared
<1>5. busy # 1..L  BY <1>2, <1>3, <1>4
<1>6. PICK i \in 1..L : i \notin busy  BY <1>5
<1>. DEFINE more == busy \cup {i}
            o == [j \in more |-> IF j = i THEN s ELSE own[j]]
<1>7. more \in SUBSET (1..L) /\ o \in [more -> Skill]  BY <1>6
<1>8. Cardinality(more) = Cardinality(busy) + 1  BY <1>3, <1>6, FS_AddElement
<1>9. Owned(more, o, s) = Owned(busy, own, s) \cup {i}  BY <1>6 DEF Owned
<1>10. \A t \in Skill \ {s} : Owned(more, o, t) = Owned(busy, own, t)  BY <1>6 DEF Owned
<1>11. Cardinality(Owned(more, o, s)) = Cardinality(Owned(busy, own, s)) + 1
  <2>1. Owned(busy, own, s) \in SUBSET busy /\ i \notin Owned(busy, own, s)  BY <1>6 DEF Owned
  <2>2. IsFiniteSet(Owned(busy, own, s))  BY <1>3, <2>1, FS_Subset
  <2>. QED  BY <1>9, <2>1, <2>2, FS_AddElement
<1>. HIDE DEF more, o
<1>12. slots' = L - Cardinality(more)  BY <1>2, <1>3, <1>4, <1>8
<1>13. ASSUME NEW t \in Skill PROVE Cardinality(Owned(more, o, t)) = frame'[t].taken
  <2>1. CASE t = s  BY <1>1, <1>11, <2>1 DEF Shared
  <2>2. CASE t # s  BY <1>1, <1>10, <2>2 DEF Shared
  <2>. QED  BY <2>1, <2>2
<1>14. Shared(more, o)'  BY <1>12, <1>13 DEF Shared, Owned
<1>. QED  BY <1>7, <1>14 DEF Tokens

\* A frame gives its slots back.
LEMMA TokensReturned ==
  ASSUME Tokens, NEW s \in Skill, slots' = slots + frame[s].taken, frame'[s].taken = 0,
         \A t \in Skill \ {s} : frame'[t].taken = frame[t].taken
  PROVE  Tokens'
<1>0. PICK busy \in SUBSET (1..Limit[Root]) : \E own \in [busy -> Skill] : Shared(busy, own)
  BY DEF Tokens
<1>1. PICK own \in [busy -> Skill] : Shared(busy, own)  BY <1>0
<1>. DEFINE L == Limit[Root]
            mine == Owned(busy, own, s)
            less == busy \ mine
            o == [j \in less |-> own[j]]
<1>2. L \in Nat /\ IsFiniteSet(1..L)
  <2>1. L \in Nat  BY PlanShape
  <2>. HIDE DEF L
  <2>. QED  BY <2>1, FS_Interval
<1>3. IsFiniteSet(busy) /\ Cardinality(busy) \in Nat  BY <1>2, FS_Subset, FS_CardinalityType
<1>4. slots = L - Cardinality(busy) /\ Cardinality(mine) = frame[s].taken  BY <1>1 DEF Shared
<1>5. mine \in SUBSET busy  BY DEF Owned
<1>6. less \in SUBSET (1..L) /\ o \in [less -> Skill]  OBVIOUS
<1>7. Cardinality(less) = Cardinality(busy) - Cardinality(mine) /\ Cardinality(mine) \in Nat
  <2>. HIDE DEF mine
  <2>1. IsFiniteSet(mine) /\ Cardinality(mine) \in Nat  BY <1>3, <1>5, FS_Subset, FS_CardinalityType
  <2>2. busy \cap mine = mine  BY <1>5
  <2>3. Cardinality(busy \ mine) = Cardinality(busy) - Cardinality(busy \cap mine)
    BY <1>3, <2>1, FS_Difference
  <2>. QED  BY <2>1, <2>2, <2>3
<1>8. Owned(less, o, s) = {}  BY DEF Owned
<1>9. \A t \in Skill \ {s} : Owned(less, o, t) = Owned(busy, own, t)  BY DEF Owned
<1>. HIDE DEF mine, less, o
<1>10. slots' = L - Cardinality(less)  BY <1>2, <1>3, <1>4, <1>7
<1>11. ASSUME NEW t \in Skill PROVE Cardinality(Owned(less, o, t)) = frame'[t].taken
  <2>1. CASE t = s
    <3>1. Cardinality({}) = 0  BY FS_EmptySet
    <3>. QED  BY <1>8, <2>1, <3>1
  <2>2. CASE t # s  BY <1>1, <1>9, <2>2 DEF Shared
  <2>. QED  BY <2>1, <2>2
<1>12. Shared(less, o)'  BY <1>10, <1>11 DEF Shared, Owned
<1>. QED  BY <1>6, <1>12 DEF Tokens

\* A frame that is in use and stays so, and has no threads, goes on.
LEMMA FrameGoesOn ==
  ASSUME TypeOK, Placed, Nested, NEW s \in Skill,
         frame[s].phase \notin {"off", "ended"}, frame'[s].phase # "off",
         \A t \in Skill \ {s} : frame'[t] = frame[t],
         UNCHANGED node,
         frame[s].phase = "wait" => \A n \in Members(s) : node[n] \in Settled
  PROVE  Placed' /\ Nested'
<1>1. ASSUME NEW n \in Node, node[n] \in {"pending", "running"}
      PROVE  \E t \in Skill : frame'[t].phase = "wait" /\ n \in Members(t)'
  <2>1. PICK t \in Skill : frame[t].phase = "wait" /\ n \in Members(t)  BY <1>1 DEF Placed
  <2>2. t # s  BY <1>1, <2>1 DEF Settled
  <2>. QED  BY <2>1, <2>2 DEF Members
<1>2. Placed'  BY <1>1 DEF Placed
<1>3. Nested'
  <2>1. ASSUME NEW t \in Skill \ {Root}, frame'[t].phase \notin {"off", "ended"}
        PROVE  \E n \in Node : Kind[n] = "skill" /\ Child[n] = t /\ node[n] = "running"
    BY <2>1 DEF Nested
  <2>2. ASSUME NEW n \in Node, Kind[n] = "skill", node[n] \in {"idle", "pending"}
        PROVE  frame'[Child[n]].phase = "off"
    <3>1. frame[Child[n]].phase = "off" /\ Child[n] \in Skill  BY <2>2, PlanShape DEF Nested
    <3>. QED  BY <3>1
  <2>. QED  BY <2>1, <2>2 DEF Nested
<1>. QED  BY <1>2, <1>3

\* Nothing was cancelled before a batch has been started.
LEMMA NothingReported ==
  ASSUME Reported, NEW s \in Skill, frame[s].phase \in {"off", "next", "slots", "start"},
         \A t \in Skill \ {s} : frame'[t] = frame[t], UNCHANGED node
  PROVE  Reported'
<1>1. \A n \in Nodes(s) : node[n] # "cancelled"  BY DEF Reported
<1>2. \A t \in Skill : Nodes(t)' = Nodes(t) /\ (t # s => Members(t)' = Members(t))
  BY DEF Nodes, Members
<1>. QED  BY <1>1, <1>2 DEF Reported

\* The leases stay when the reserved batches do.
LEMMA LeasesStay ==
  ASSUME Leased, NEW s \in Skill, \A t \in Skill \ {s} : frame'[t] = frame[t], UNCHANGED leases,
         \A n \in Node : Kind[n] = "route" =>
           (Reserved(s)' /\ n \in Members(s)' <=> Reserved(s) /\ n \in Members(s))
  PROVE  Leased'
<1>1. \A t \in Skill \ {s} : Members(t)' = Members(t) /\ Reserved(t)' = Reserved(t)
  BY DEF Members, Reserved
<1>2. \A n \in Node : Kind[n] = "route" =>
        ((\E t \in Skill : Reserved(t)' /\ n \in Members(t)')
           <=> \E t \in Skill : Reserved(t) /\ n \in Members(t))
  BY <1>1
<1>. QED  BY <1>2 DEF Leased

-----------------------------------------------------------------------------
(* The steps of a frame.                                                   *)

\* The next batch, or the end of the frame.
LEMMA NextBatchFrame ==
  ASSUME IInv, NEW s \in Skill, NextBatch(s)
  PROVE  \E f \in Frame :
        /\ frame' = [frame EXCEPT ![s] = f] /\ f.taken = 0 /\ f.phase \in {"start", "slots", "ended"}
        /\ f.phase = "ended" => f.batch = <<>> /\ f.exit # "none"
        /\ f.phase # "ended" => f.batch = Batch(s) /\ f.exit = "none"
        /\ f.phase = "start" => Routed(f.batch) = {}
<1>1. TypeOK /\ Frames  BY DEF IInv
<1>2. frame[s] \in Frame /\ FrameOk(s)  BY <1>1, FrameType DEF Frames
<1>3. frame[s].phase = "next"  BY DEF NextBatch
<1>4. frame[s].batch = <<>> /\ frame[s].taken = 0 /\ frame[s].exit = "none"
  BY <1>2, <1>3 DEF FrameOk
<1>5. CASE frame' = [frame EXCEPT ![s] =
           [@ EXCEPT !.batch = Batch(s),
                     !.phase = IF Routed(Batch(s)) = {} THEN "start" ELSE "slots"]]
  <2>. DEFINE f == [frame[s] EXCEPT !.batch = Batch(s),
                      !.phase = IF Routed(Batch(s)) = {} THEN "start" ELSE "slots"]
  <2>1. Batch(s) \in Seq(Node)  BY BatchFacts
  <2>2. f \in Frame  BY <1>2, <2>1 DEF Frame
  <2>3. f.batch = Batch(s) /\ f.exit = "none" /\ f.taken = 0
        /\ f.phase = (IF Routed(Batch(s)) = {} THEN "start" ELSE "slots")
    BY <1>2, <1>4 DEF Frame
  <2>4. frame' = [frame EXCEPT ![s] = f]  BY <1>5
  <2>. HIDE DEF f
  <2>. QED  BY <2>2, <2>3, <2>4
<1>6. ASSUME NEW exit \in {"cancelled", "ok"}, frame' = [frame EXCEPT ![s] = Ended(@, exit)]
      PROVE  frame' = [frame EXCEPT ![s] = Ended(frame[s], exit)]
  BY <1>6
<1>. QED  BY <1>2, <1>5, <1>6, EndedType DEF NextBatch

\* A frame takes its next batch: a new reservation begins with no slot.
LEMMA NextBatchStep == ASSUME IInv, NEW s \in Skill, NextBatch(s) PROVE IInv'
<1>1. TypeOK /\ Frames /\ Tokens /\ Placed /\ Leased /\ Nested /\ Reported  BY DEF IInv
<1>2. frame[s] \in Frame /\ FrameOk(s)  BY <1>1, FrameType DEF Frames
<1>3. frame[s].phase = "next" /\ UNCHANGED <<node, slots, leases, cancel, said>>  BY DEF NextBatch
<1>4. frame[s].batch = <<>> /\ frame[s].taken = 0 /\ frame[s].exit = "none"
  BY <1>2, <1>3 DEF FrameOk
<1>5. PICK f \in Frame :
        /\ frame' = [frame EXCEPT ![s] = f] /\ f.taken = 0 /\ f.phase \in {"start", "slots", "ended"}
        /\ f.phase = "ended" => f.batch = <<>> /\ f.exit # "none"
        /\ f.phase # "ended" => f.batch = Batch(s) /\ f.exit = "none"
        /\ f.phase = "start" => Routed(f.batch) = {}
  BY NextBatchFrame
<1>6. /\ frame' \in [Skill -> Frame] /\ frame'[s] = f
      /\ \A t \in Skill \ {s} : frame'[t] = frame[t]
  BY <1>1, <1>5, FrameChanges
<1>7. TypeOK'  BY <1>1, <1>3, <1>6 DEF TypeOK
<1>8. FrameOk(s)'
  <2>1. Members(s)' = ToSet(f.batch)  BY <1>6 DEF Members
  <2>2. CASE f.phase = "ended"
    <3>1. ToSet(<<>>) = {}  BY DEF ToSet
    <3>. QED  BY <1>5, <1>6, <2>1, <2>2, <3>1 DEF FrameOk
  <2>3. CASE f.phase # "ended"
    <3>1. /\ ToSet(f.batch) \subseteq Nodes(s)
          /\ \A n \in ToSet(f.batch) : node'[n] = "idle"
      BY <1>3, <1>5, <2>3, BatchFacts
    <3>2. Cardinality({}) = 0  BY FS_EmptySet
    <3>. QED  BY <1>5, <1>6, <2>1, <2>3, <3>1, <3>2 DEF FrameOk, Nodes
  <2>. QED  BY <2>2, <2>3
<1>9. Frames'  BY <1>1, <1>3, <1>6, <1>8, OtherFrame DEF Frames
<1>10. Tokens'  BY <1>1, <1>3, <1>4, <1>5, <1>6, TokensStay
<1>11. Placed' /\ Nested'  BY <1>1, <1>3, <1>5, <1>6, FrameGoesOn
<1>12. Reported'  BY <1>1, <1>3, <1>6, NothingReported
<1>13. Leased'
  <2>1. ~Reserved(s)  BY <1>3 DEF Reserved
  <2>2. ASSUME NEW n \in Node, Kind[n] = "route", Reserved(s)', n \in Members(s)' PROVE FALSE
    <3>1. f.phase = "start" /\ n \in ToSet(f.batch)
      BY <1>5, <1>6, <2>2 DEF Reserved, Members
    <3>. QED  BY <1>5, <2>2, <3>1 DEF Routed
  <2>. QED  BY <1>1, <1>3, <1>6, <2>1, <2>2, LeasesStay
<1>. QED  BY <1>7, <1>9, <1>10, <1>11, <1>12, <1>13 DEF IInv

\* A frame takes a slot: a free slot gets an owner.
LEMMA TakeSlotStep == ASSUME IInv, NEW s \in Skill, TakeSlot(s) PROVE IInv'
<1>1. TypeOK /\ Frames /\ Tokens /\ Placed /\ Leased /\ Nested /\ Reported  BY DEF IInv
<1>2. frame[s] \in Frame /\ FrameOk(s)  BY <1>1, FrameType DEF Frames
<1>3. /\ frame[s].phase = "slots" /\ slots > 0 /\ slots' = slots - 1
      /\ frame' = [frame EXCEPT ![s].taken = @ + 1]
      /\ UNCHANGED <<node, leases, cancel, said>>
  BY DEF TakeSlot
<1>. DEFINE f == [frame[s] EXCEPT !.taken = @ + 1]
<1>4. slots \in Nat /\ frame[s].taken + 1 \in 0..Limit[Root] /\ slots - 1 \in 0..Limit[Root]
  BY <1>1, <1>3, PlanShape, TokenBounds, SMTT(30)
<1>5. f \in Frame /\ f.taken = frame[s].taken + 1 /\ f.phase = "slots" /\ f.batch = frame[s].batch
      /\ f.exit = frame[s].exit
  BY <1>2, <1>3, <1>4 DEF Frame
<1>6. frame' = [frame EXCEPT ![s] = f]  BY <1>3
<1>. HIDE DEF f
<1>7. /\ frame' \in [Skill -> Frame] /\ frame'[s] = f
      /\ \A t \in Skill \ {s} : frame'[t] = frame[t]
  BY <1>1, <1>5, <1>6, FrameChanges
<1>8. TypeOK'  BY <1>1, <1>3, <1>4, <1>7 DEF TypeOK
<1>9. Members(s)' = Members(s)  BY <1>5, <1>7 DEF Members
<1>10. FrameOk(s)'  BY <1>2, <1>3, <1>5, <1>7, <1>9 DEF FrameOk, Nodes
<1>11. Frames'  BY <1>1, <1>3, <1>7, <1>10, OtherFrame DEF Frames
<1>12. Tokens'  BY <1>1, <1>3, <1>5, <1>7, TokenTaken
<1>13. Placed' /\ Nested'  BY <1>1, <1>3, <1>5, <1>7, FrameGoesOn
<1>14. Reported'  BY <1>1, <1>3, <1>7, NothingReported
<1>15. Leased'
  <2>1. ~Reserved(s) /\ ~Reserved(s)'  BY <1>3, <1>5, <1>7 DEF Reserved
  <2>. QED  BY <1>1, <1>3, <1>7, <2>1, LeasesStay
<1>. QED  BY <1>8, <1>11, <1>12, <1>13, <1>14, <1>15 DEF IInv

\* A frame that gets no reservation ends, and gives its slots back.
LEMMA Dissolved ==
  ASSUME IInv, NEW s \in Skill, NEW exit \in {"cancelled", "failed"}, frame[s].phase = "slots",
         slots' = slots + frame[s].taken, frame' = [frame EXCEPT ![s] = Ended(@, exit)],
         UNCHANGED <<node, leases, cancel, said>>
  PROVE  IInv'
<1>1. TypeOK /\ Frames /\ Tokens /\ Placed /\ Leased /\ Nested /\ Reported  BY DEF IInv
<1>2. frame[s] \in Frame /\ FrameOk(s)  BY <1>1, FrameType DEF Frames
<1>. DEFINE f == Ended(frame[s], exit)
<1>3. f \in Frame /\ f.phase = "ended" /\ f.exit = exit /\ f.batch = <<>> /\ f.taken = 0
  <2>1. exit \in {"none", "ok", "failed", "cancelled"}  OBVIOUS
  <2>. QED  BY <1>2, <2>1, EndedType
<1>4. frame' = [frame EXCEPT ![s] = f]  OBVIOUS
<1>. HIDE DEF f
<1>5. /\ frame' \in [Skill -> Frame] /\ frame'[s] = f
      /\ \A t \in Skill \ {s} : frame'[t] = frame[t]
  BY <1>1, <1>3, <1>4, FrameChanges
<1>6. slots' \in 0..Limit[Root]  BY <1>1, TokenBounds, PlanShape
<1>7. TypeOK'  BY <1>1, <1>5, <1>6 DEF TypeOK
<1>8. Members(s)' = {}  BY <1>3, <1>5 DEF Members, ToSet
<1>9. FrameOk(s)'  BY <1>3, <1>5, <1>8 DEF FrameOk
<1>10. Frames'  BY <1>1, <1>5, <1>9, OtherFrame DEF Frames
<1>11. Tokens'  BY <1>1, <1>3, <1>5, TokensReturned
<1>12. Placed' /\ Nested'  BY <1>1, <1>3, <1>5, FrameGoesOn
<1>13. Reported'  BY <1>1, <1>5, NothingReported
<1>14. Leased'
  <2>1. ~Reserved(s) /\ ~Reserved(s)'  BY <1>3, <1>5 DEF Reserved
  <2>. QED  BY <1>1, <1>5, <2>1, LeasesStay
<1>. QED  BY <1>7, <1>10, <1>11, <1>12, <1>13, <1>14 DEF IInv

\* The leases of a batch are granted, all or none; if none, its slots are freed.
LEMMA ReserveStep == ASSUME IInv, NEW s \in Skill, Reserve(s) PROVE IInv'
<1>1. TypeOK /\ Frames /\ Tokens /\ Placed /\ Leased /\ Nested /\ Reported  BY DEF IInv
<1>2. frame[s] \in Frame /\ FrameOk(s) /\ Members(s) \subseteq Node  BY <1>1, FrameType DEF Frames
<1>3. frame[s].phase = "slots" /\ Missing(s) = 0 /\ UNCHANGED <<node, cancel, said>>
  BY DEF Reserve
<1>4. CASE /\ slots' = slots + frame[s].taken
           /\ frame' = [frame EXCEPT ![s] = Ended(@, "failed")]
           /\ UNCHANGED leases
  BY <1>3, <1>4, Dissolved
<1>5. CASE /\ leases' = leases \cup Routed(frame[s].batch)
           /\ frame' = [frame EXCEPT ![s].phase = "start"]
           /\ UNCHANGED slots
  <2>. DEFINE f == [frame[s] EXCEPT !.phase = "start"]
  <2>1. f \in Frame /\ f.phase = "start" /\ f.batch = frame[s].batch
        /\ f.taken = frame[s].taken /\ f.exit = frame[s].exit
    BY <1>2 DEF Frame
  <2>2. frame' = [frame EXCEPT ![s] = f]  BY <1>5
  <2>. HIDE DEF f
  <2>3. /\ frame' \in [Skill -> Frame] /\ frame'[s] = f
        /\ \A t \in Skill \ {s} : frame'[t] = frame[t]
    BY <1>1, <2>1, <2>2, FrameChanges
  <2>4. Routed(frame[s].batch) = {n \in Members(s) : Kind[n] = "route"}  BY DEF Routed, Members
  <2>5. frame[s].taken = Cardinality(Routed(frame[s].batch))
    <3>1. IsFiniteSet(Routed(frame[s].batch))
      <4>1. Routed(frame[s].batch) \in SUBSET Node  BY <1>2, <2>4
      <4>. QED  BY <4>1, PlanShape, FS_Subset
    <3>2. Cardinality(Routed(frame[s].batch)) \in Nat /\ frame[s].taken \in Nat
      BY <1>1, <3>1, FS_CardinalityType, TokenBounds
    <3>. QED  BY <1>3, <3>2 DEF Missing
  <2>6. TypeOK'
    <3>1. leases' \subseteq Node  BY <1>1, <1>2, <1>5, <2>4 DEF TypeOK
    <3>. QED  BY <1>1, <1>3, <1>5, <2>3, <3>1 DEF TypeOK
  <2>7. Members(s)' = Members(s)  BY <2>1, <2>3 DEF Members
  <2>8. FrameOk(s)'  BY <1>2, <1>3, <2>1, <2>3, <2>5, <2>7 DEF FrameOk, Nodes, Routed
  <2>9. Frames'  BY <1>1, <1>3, <2>3, <2>8, OtherFrame DEF Frames
  <2>10. Tokens'  BY <1>1, <1>5, <2>1, <2>3, TokensStay
  <2>11. Placed' /\ Nested'  BY <1>1, <1>3, <2>1, <2>3, FrameGoesOn
  <2>12. Reported'  BY <1>1, <1>3, <2>3, NothingReported
  <2>13. Leased'
    <3>1. ~Reserved(s) /\ Reserved(s)'  BY <1>3, <2>1, <2>3 DEF Reserved
    <3>2. \A t \in Skill \ {s} : Members(t)' = Members(t) /\ Reserved(t)' = Reserved(t)
      BY <2>3 DEF Members, Reserved
    <3>3. ASSUME NEW n \in Node, Kind[n] = "route"
          PROVE  n \in leases' <=> \E t \in Skill : Reserved(t)' /\ n \in Members(t)'
      <4>1. n \in leases <=> \E t \in Skill : Reserved(t) /\ n \in Members(t)
        BY <1>1, <3>3 DEF Leased
      <4>2. n \in leases' <=> n \in leases \/ n \in Members(s)  BY <1>5, <2>4, <3>3
      <4>. QED  BY <2>7, <3>1, <3>2, <4>1, <4>2
    <3>4. \A n \in leases' : n \in Node /\ Kind[n] = "route"
      BY <1>1, <1>2, <1>5, <2>4 DEF Leased
    <3>. QED  BY <3>3, <3>4 DEF Leased
  <2>. QED  BY <2>6, <2>9, <2>10, <2>11, <2>12, <2>13 DEF IInv
<1>. QED  BY <1>4, <1>5 DEF Reserve

\* A batch of another skill has other nodes.
LEMMA Apart ==
  ASSUME Frames, NEW s \in Skill, NEW t \in Skill, s # t
  PROVE  Members(s) \cap Members(t) = {} /\ Members(s) \cap Nodes(t) = {}
<1>1. Members(s) \subseteq Nodes(s) /\ Members(t) \subseteq Nodes(t)  BY DEF Frames, FrameOk
<1>2. Nodes(s) \cap Nodes(t) = {}  BY ShapeAssumption DEF Nodes
<1>. QED  BY <1>1, <1>2

\* The threads of a batch start, for a frame that waits for them.
LEMMA LaunchStep == ASSUME IInv, NEW s \in Skill, Launch(s) PROVE IInv'
<1>1. TypeOK /\ Frames /\ Tokens /\ Placed /\ Leased /\ Nested /\ Reported  BY DEF IInv
<1>2. frame[s] \in Frame /\ FrameOk(s) /\ Members(s) \subseteq Node  BY <1>1, FrameType DEF Frames
<1>3. /\ frame[s].phase = "start" /\ UNCHANGED <<slots, leases, cancel>>
      /\ frame' = [frame EXCEPT ![s].phase = "wait"]
      /\ node' = [n \in Node |-> IF n \in Members(s) THEN "pending" ELSE node[n]]
      /\ said' = [said EXCEPT ![s] = @ \o Told("started", frame[s].batch)]
  BY DEF Launch, Members
<1>. DEFINE f == [frame[s] EXCEPT !.phase = "wait"]
<1>4. f \in Frame /\ f.phase = "wait" /\ f.batch = frame[s].batch
      /\ f.taken = frame[s].taken /\ f.exit = frame[s].exit
  BY <1>2 DEF Frame
<1>5. frame' = [frame EXCEPT ![s] = f]  BY <1>3
<1>. HIDE DEF f
<1>6. /\ frame' \in [Skill -> Frame] /\ frame'[s] = f
      /\ \A t \in Skill \ {s} : frame'[t] = frame[t]
  BY <1>1, <1>4, <1>5, FrameChanges
<1>7. TypeOK'
  <2>1. said' \in [Skill -> Seq(EventType)]
    <3>1. said \in [Skill -> Seq(EventType)] /\ frame[s].batch \in Seq(Node)
      BY <1>1, <1>2 DEF TypeOK, EventType, Frame
    <3>2. Told("started", frame[s].batch) \in Seq(EventType)  BY <3>1, ToldType
    <3>3. said[s] \o Told("started", frame[s].batch) \in Seq(EventType)  BY <3>1, <3>2
    <3>. QED  BY <1>3, <3>1, <3>3
  <2>2. node' \in [Node -> {"idle", "pending", "running"} \cup Settled]
    BY <1>1, <1>3 DEF TypeOK
  <2>. QED  BY <1>1, <1>3, <1>6, <2>1, <2>2 DEF TypeOK, EventType
<1>8. \A t \in Skill : Members(t)' = Members(t)  BY <1>4, <1>6 DEF Members
<1>9. FrameOk(s)'  BY <1>2, <1>3, <1>4, <1>6, <1>8 DEF FrameOk, Nodes, Routed
<1>10. ASSUME NEW t \in Skill \ {s} PROVE FrameOk(t)'
  <2>1. Members(t) \cap Members(s) = {} /\ Members(t) \subseteq Node
    BY <1>1, Apart, FrameType
  <2>2. \A n \in Members(t) : node'[n] = node[n]  BY <1>3, <2>1
  <2>. QED  BY <1>1, <1>6, <2>2, OtherFrame DEF Frames
<1>11. Frames'  BY <1>9, <1>10 DEF Frames
<1>12. Tokens'  BY <1>1, <1>3, <1>4, <1>6, TokensStay
<1>13. Placed'
  <2>1. ASSUME NEW n \in Node, node'[n] \in {"pending", "running"}
        PROVE  \E t \in Skill : frame'[t].phase = "wait" /\ n \in Members(t)'
    <3>1. CASE n \in Members(s)  BY <1>4, <1>6, <1>8, <3>1
    <3>2. CASE n \notin Members(s)
      <4>1. node[n] \in {"pending", "running"}  BY <1>3, <2>1, <3>2
      <4>2. PICK t \in Skill : frame[t].phase = "wait" /\ n \in Members(t)
        BY <1>1, <4>1 DEF Placed
      <4>. QED  BY <1>3, <1>6, <1>8, <4>2
    <3>. QED  BY <3>1, <3>2
  <2>. QED  BY <2>1 DEF Placed
<1>14. \A n \in Node : node[n] # "idle" => node'[n] = node[n]
  BY <1>2, <1>3 DEF FrameOk
<1>15. Nested'
  <2>1. ASSUME NEW t \in Skill \ {Root}, frame'[t].phase \notin {"off", "ended"}
        PROVE  \E n \in Node : Kind[n] = "skill" /\ Child[n] = t /\ node'[n] = "running"
    <3>1. frame[t].phase \notin {"off", "ended"}  BY <1>3, <1>6, <2>1
    <3>2. PICK n \in Node : Kind[n] = "skill" /\ Child[n] = t /\ node[n] = "running"
      BY <1>1, <3>1 DEF Nested
    <3>. QED  BY <1>14, <3>2
  <2>2. ASSUME NEW n \in Node, Kind[n] = "skill", node'[n] \in {"idle", "pending"}
        PROVE  frame'[Child[n]].phase = "off"
    <3>1. node[n] \in {"idle", "pending"}  BY <1>2, <1>3, <1>14, <2>2 DEF FrameOk
    <3>2. frame[Child[n]].phase = "off" /\ Child[n] \in Skill  BY <1>1, <2>2, <3>1, PlanShape DEF Nested
    <3>. QED  BY <1>3, <1>6, <3>2
  <2>. QED  BY <2>1, <2>2 DEF Nested
<1>16. Reported'
  <2>1. ASSUME NEW t \in Skill, NEW n \in Nodes(t), node'[n] = "cancelled"
        PROVE  node[n] = "cancelled" /\ t # s
    <3>1. n \in Node  BY PlanShape
    <3>2. node[n] = "cancelled"  BY <1>3, <2>1, <3>1
    <3>. QED  BY <1>1, <1>3, <3>2 DEF Reported
  <2>. QED  BY <1>1, <1>6, <1>8, <2>1 DEF Reported, Nodes
<1>17. Leased'
  <2>1. Reserved(s) /\ Reserved(s)'  BY <1>3, <1>4, <1>6 DEF Reserved
  <2>. QED  BY <1>1, <1>3, <1>6, <1>8, <2>1, LeasesStay
<1>. QED  BY <1>7, <1>11, <1>12, <1>13, <1>15, <1>16, <1>17 DEF IInv

\* The batch is reported, and its outcome kept until the release.
LEMMA MergeStep == ASSUME IInv, NEW s \in Skill, Merge(s) PROVE IInv'
<1>1. TypeOK /\ Frames /\ Tokens /\ Placed /\ Leased /\ Nested /\ Reported  BY DEF IInv
<1>2. frame[s] \in Frame /\ FrameOk(s) /\ Members(s) \subseteq Node  BY <1>1, FrameType DEF Frames
<1>. DEFINE err == Error(frame[s].batch)
            f == [frame[s] EXCEPT !.phase = "release", !.exit = err]
<1>3. /\ frame[s].phase = "wait" /\ UNCHANGED <<node, slots, leases, cancel>>
      /\ \A n \in Members(s) : node[n] \in Settled
      /\ frame' = [frame EXCEPT ![s].phase = "release", ![s].exit = err]
      /\ said' = [said EXCEPT ![s] = @ \o Reports(frame[s].batch)]
  BY DEF Merge, Joined, Members
<1>4. err \in {"none", "cancelled", "failed"}
      /\ ((\E n \in Members(s) : node[n] = "cancelled") => err = "cancelled")
  BY DEF Error, Members
<1>. HIDE DEF err
<1>5. f \in Frame /\ f.phase = "release" /\ f.batch = frame[s].batch
      /\ f.taken = frame[s].taken /\ f.exit = err
  BY <1>2, <1>4 DEF Frame
<1>6. frame' = [frame EXCEPT ![s] = f]
  BY <1>1, <1>3 DEF TypeOK
<1>. HIDE DEF f
<1>7. /\ frame' \in [Skill -> Frame] /\ frame'[s] = f
      /\ \A t \in Skill \ {s} : frame'[t] = frame[t]
  BY <1>1, <1>5, <1>6, FrameChanges
<1>8. TypeOK'
  <2>1. said \in [Skill -> Seq(EventType)]  BY <1>1 DEF TypeOK, EventType
  <2>2. Reports(frame[s].batch) \in Seq(EventType)  BY <1>1, ReportsType
  <2>3. said[s] \o Reports(frame[s].batch) \in Seq(EventType)  BY <2>1, <2>2
  <2>4. said' \in [Skill -> Seq(EventType)]  BY <1>3, <2>1, <2>3
  <2>. QED  BY <1>1, <1>3, <1>7, <2>4 DEF TypeOK, EventType
<1>9. \A t \in Skill : Members(t)' = Members(t)  BY <1>5, <1>7 DEF Members
<1>10. FrameOk(s)'  BY <1>2, <1>3, <1>4, <1>5, <1>7, <1>9 DEF FrameOk, Nodes, Routed
<1>11. Frames'  BY <1>1, <1>3, <1>7, <1>10, OtherFrame DEF Frames
<1>12. Tokens'  BY <1>1, <1>3, <1>5, <1>7, TokensStay
<1>13. Placed' /\ Nested'  BY <1>1, <1>3, <1>5, <1>7, FrameGoesOn
<1>14. Reported'
  <2>1. ASSUME NEW n \in Nodes(s), node[n] = "cancelled" PROVE err = "cancelled"
    BY <1>1, <1>3, <1>4, <2>1 DEF Reported
  <2>. QED  BY <1>1, <1>3, <1>5, <1>7, <1>9, <2>1 DEF Reported, Nodes
<1>15. Leased'
  <2>1. Reserved(s) /\ Reserved(s)'  BY <1>3, <1>5, <1>7 DEF Reserved
  <2>. QED  BY <1>1, <1>3, <1>7, <1>9, <2>1, LeasesStay
<1>. QED  BY <1>8, <1>11, <1>12, <1>13, <1>14, <1>15 DEF IInv

\* After a release the frame goes on, or it ends.
LEMMA ReleaseFrame ==
  ASSUME IInv, NEW s \in Skill, Release(s)
  PROVE  \E f \in Frame :
        /\ frame' = [frame EXCEPT ![s] = f] /\ f.batch = <<>> /\ f.taken = 0
        /\ \/ frame[s].exit = "none" /\ f.phase = "next" /\ f.exit = "none"
           \/ /\ f.phase = "ended" /\ f.exit # "none"
              /\ f.exit = frame[s].exit \/ f.torn
<1>0. frame[s] \in Frame  BY FrameType DEF IInv
<1>1. frame[s].exit \in {"none", "ok", "failed", "cancelled"}  BY <1>0 DEF Frame
<1>2. CASE frame[s].exit = "none"
           /\ frame' = [frame EXCEPT ![s] = [@ EXCEPT !.phase = "next", !.batch = <<>>, !.taken = 0]]
  <2>. DEFINE f == [frame[s] EXCEPT !.phase = "next", !.batch = <<>>, !.taken = 0]
  <2>1. 0 \in 0..Limit[Root] /\ <<>> \in Seq(Node)  BY PlanShape
  <2>2. f \in Frame /\ f.phase = "next" /\ f.exit = "none" /\ f.batch = <<>> /\ f.taken = 0
    BY <1>0, <1>2, <2>1 DEF Frame
  <2>3. frame' = [frame EXCEPT ![s] = f]  BY <1>2
  <2>. HIDE DEF f
  <2>. QED  BY <1>2, <2>2, <2>3
<1>3. CASE frame[s].exit # "none" /\ frame' = [frame EXCEPT ![s] = Ended(@, @.exit)]
  <2>. DEFINE f == Ended(frame[s], frame[s].exit)
  <2>1. frame' = [frame EXCEPT ![s] = f]  BY <1>3
  <2>2. f \in Frame /\ f.phase = "ended" /\ f.exit = frame[s].exit /\ f.batch = <<>> /\ f.taken = 0
    BY <1>0, <1>1, EndedType
  <2>. HIDE DEF f
  <2>. QED  BY <1>3, <2>1, <2>2
<1>4. CASE frame' = [frame EXCEPT ![s] = [Ended(@, "failed") EXCEPT !.torn = TRUE]]
  <2>. DEFINE g == Ended(frame[s], "failed")
              f == [g EXCEPT !.torn = TRUE]
  <2>1. g \in Frame /\ f \in Frame /\ g.phase = "ended" /\ g.exit = "failed"
        /\ g.batch = <<>> /\ g.taken = 0
    BY <1>0, EndedType
  <2>2. frame' = [frame EXCEPT ![s] = f]  BY <1>4
  <2>. HIDE DEF g
  <2>3. f.phase = "ended" /\ f.exit = "failed" /\ f.batch = <<>> /\ f.taken = 0 /\ f.torn
    BY <2>1 DEF Frame
  <2>. HIDE DEF f
  <2>. QED  BY <2>1, <2>2, <2>3
<1>5. \/ frame' = [frame EXCEPT ![s] =
            IF @.exit = "none" THEN [@ EXCEPT !.phase = "next", !.batch = <<>>, !.taken = 0]
            ELSE Ended(@, @.exit)]
      \/ frame' = [frame EXCEPT ![s] = [Ended(@, "failed") EXCEPT !.torn = TRUE]]
  BY DEF Release
<1>. QED  BY <1>2, <1>3, <1>4, <1>5

\* A frame gives back its slots, and the leases of no other frame.
LEMMA ReleaseStep == ASSUME IInv, NEW s \in Skill, Release(s) PROVE IInv'
<1>1. TypeOK /\ Frames /\ Tokens /\ Placed /\ Leased /\ Nested /\ Reported  BY DEF IInv
<1>2. frame[s] \in Frame /\ FrameOk(s) /\ Members(s) \subseteq Node  BY <1>1, FrameType DEF Frames
<1>3. /\ frame[s].phase = "release" /\ frame[s].exit # "ok"
      /\ leases' = leases \ Members(s) /\ slots' = slots + frame[s].taken
      /\ UNCHANGED <<node, cancel, said>>
  BY <1>2 DEF Release, Members, FrameOk
<1>4. PICK f \in Frame :
        /\ frame' = [frame EXCEPT ![s] = f] /\ f.batch = <<>> /\ f.taken = 0
        /\ \/ frame[s].exit = "none" /\ f.phase = "next" /\ f.exit = "none"
           \/ /\ f.phase = "ended" /\ f.exit # "none"
              /\ f.exit = frame[s].exit \/ f.torn
  BY ReleaseFrame
<1>5. /\ frame' \in [Skill -> Frame] /\ frame'[s] = f
      /\ \A t \in Skill \ {s} : frame'[t] = frame[t]
  BY <1>1, <1>4, FrameChanges
<1>6. slots' \in 0..Limit[Root]  BY <1>1, <1>3, TokenBounds, PlanShape
<1>7. TypeOK'  BY <1>1, <1>3, <1>5, <1>6 DEF TypeOK
<1>8. Members(s)' = {}  BY <1>4, <1>5 DEF Members, ToSet
<1>9. FrameOk(s)'  BY <1>4, <1>5, <1>8 DEF FrameOk
<1>10. Frames'  BY <1>1, <1>3, <1>5, <1>9, OtherFrame DEF Frames
<1>11. Tokens'  BY <1>1, <1>3, <1>4, <1>5, TokensReturned
<1>12. Placed' /\ Nested'
  <2>1. frame[s].phase \notin {"off", "ended", "wait"} /\ frame'[s].phase # "off"
    BY <1>3, <1>4, <1>5
  <2>. QED  BY <1>1, <1>3, <1>5, <2>1, FrameGoesOn
<1>13. Reported'
  <2>1. ASSUME NEW n \in Nodes(s), node[n] = "cancelled" PROVE frame[s].exit = "cancelled"
    BY <1>1, <1>3, <2>1 DEF Reported
  <2>2. \A t \in Skill \ {s} : Members(t)' = Members(t)  BY <1>5 DEF Members
  <2>. QED  BY <1>1, <1>3, <1>4, <1>5, <2>1, <2>2 DEF Reported, Nodes
<1>14. Leased'
  <2>1. \A t \in Skill \ {s} : Members(t)' = Members(t) /\ Reserved(t)' = Reserved(t)
    BY <1>5 DEF Members, Reserved
  <2>2. Reserved(s) /\ ~Reserved(s)'  BY <1>3, <1>4, <1>5 DEF Reserved
  <2>3. ASSUME NEW n \in Node, Kind[n] = "route"
        PROVE  n \in leases' <=> \E t \in Skill : Reserved(t)' /\ n \in Members(t)'
    <3>1. n \in leases <=> \E t \in Skill : Reserved(t) /\ n \in Members(t)
      BY <1>1, <2>3 DEF Leased
    <3>2. n \in leases' <=> n \in leases /\ n \notin Members(s)  BY <1>3
    <3>3. \A t \in Skill \ {s} : n \in Members(t) => n \notin Members(s)  BY <1>1, Apart
    <3>. QED  BY <2>1, <2>2, <3>1, <3>2, <3>3
  <2>4. \A n \in leases' : n \in Node /\ Kind[n] = "route"  BY <1>1, <1>3 DEF Leased
  <2>. QED  BY <2>3, <2>4 DEF Leased
<1>. QED  BY <1>7, <1>10, <1>11, <1>12, <1>13, <1>14 DEF IInv

-----------------------------------------------------------------------------
(* The steps of the threads.                                               *)

\* Threads go on, and no frame changes: who was waiting is told so, or runs;
\* who was running has an outcome, a skill that of its frame.
LEMMA ThreadsGoOn ==
  ASSUME IInv, UNCHANGED <<frame, slots, leases, said>>, cancel' \in BOOLEAN,
         node' \in [Node -> {"idle", "pending", "running"} \cup Settled],
         \A n \in Node :
           \/ node'[n] = node[n]
           \/ node[n] = "pending" /\ node'[n] \in {"cancelled", "dropped"}
           \/ node[n] = "pending" /\ node'[n] = "running" /\ Kind[n] # "skill"
           \/ /\ node[n] = "running" /\ node'[n] \in {"ok", "failed", "cancelled"}
              /\ Kind[n] = "skill" => frame[Child[n]].phase = "ended"
  PROVE  IInv'
<1>1. TypeOK /\ Frames /\ Tokens /\ Placed /\ Leased /\ Nested /\ Reported  BY DEF IInv
<1>2. TypeOK'  BY <1>1 DEF TypeOK
<1>3. \A t \in Skill : Members(t)' = Members(t) /\ Reserved(t)' = Reserved(t)
  BY DEF Members, Reserved
<1>4. Frames'
  <2>1. ASSUME NEW t \in Skill PROVE FrameOk(t)'
    <3>1. Members(t) \subseteq Node  BY <1>1, FrameType
    <3>2. \A n \in Members(t) : node[n] = "idle" => node'[n] = "idle"  BY <3>1
    <3>. QED  BY <1>1, <3>2, OtherFrame DEF Frames
  <2>. QED  BY <2>1 DEF Frames
<1>5. Tokens'  BY <1>1, TokensStay
<1>6. Placed'
  <2>1. \A n \in Node : node'[n] \in {"pending", "running"} => node[n] \in {"pending", "running"}
    OBVIOUS
  <2>. QED  BY <1>1, <1>3, <2>1 DEF Placed
<1>7. Leased'  BY <1>1, <1>3 DEF Leased
<1>8. Nested'
  <2>1. ASSUME NEW t \in Skill \ {Root}, frame[t].phase \notin {"off", "ended"}
        PROVE  \E n \in Node : Kind[n] = "skill" /\ Child[n] = t /\ node'[n] = "running"
    <3>1. PICK n \in Node : Kind[n] = "skill" /\ Child[n] = t /\ node[n] = "running"
      BY <1>1, <2>1 DEF Nested
    <3>. QED  BY <2>1, <3>1
  <2>2. \A n \in Node : node'[n] \in {"idle", "pending"} => node[n] \in {"idle", "pending"}
    OBVIOUS
  <2>. QED  BY <1>1, <2>1, <2>2 DEF Nested
<1>9. Reported'
  <2>1. ASSUME NEW t \in Skill, NEW n \in Nodes(t), node[n] # "cancelled", node'[n] = "cancelled"
        PROVE  frame[t].phase = "wait" /\ n \in Members(t)
    <3>1. n \in Node  BY PlanShape
    <3>2. node[n] \in {"pending", "running"}  BY <2>1, <3>1
    <3>3. PICK s \in Skill : frame[s].phase = "wait" /\ n \in Members(s)
      BY <1>1, <3>1, <3>2 DEF Placed
    <3>4. s = t  BY <1>1, <3>3, Apart
    <3>. QED  BY <3>3, <3>4
  <2>. QED  BY <1>1, <1>3, <2>1 DEF Reported, Nodes
<1>. QED  BY <1>2, <1>4, <1>5, <1>6, <1>7, <1>8, <1>9 DEF IInv

\* A cancelled branch cancels the run: nodes that have not started never do.
LEMMA ObserveStep == ASSUME IInv, NEW s \in Skill, Observe(s) PROVE IInv'
<1>1. TypeOK  BY DEF IInv
<1>2. PICK dropped : /\ \A n \in dropped : node[n] = "pending"
                     /\ node' = [n \in Node |-> IF n \in dropped THEN "dropped" ELSE node[n]]
  BY DEF Observe
<1>3. UNCHANGED <<frame, slots, leases, said>> /\ cancel' \in BOOLEAN  BY DEF Observe
<1>4. node' \in [Node -> {"idle", "pending", "running"} \cup Settled]
  BY <1>1, <1>2 DEF TypeOK, Settled
<1>5. \A n \in Node : node'[n] = node[n] \/ (node[n] = "pending" /\ node'[n] = "dropped")
  BY <1>2
<1>. QED  BY <1>3, <1>4, <1>5, ThreadsGoOn

\* One thread goes on.
LEMMA OneThread ==
  ASSUME IInv, NEW n \in Node, NEW x \in {"running"} \cup Settled, node' = [node EXCEPT ![n] = x],
         UNCHANGED <<frame, slots, leases, cancel, said>>,
         \/ node[n] = "pending" /\ x = "cancelled"
         \/ node[n] = "pending" /\ x = "running" /\ Kind[n] # "skill"
         \/ /\ node[n] = "running" /\ x \in {"ok", "failed", "cancelled"}
            /\ Kind[n] = "skill" => frame[Child[n]].phase = "ended"
  PROVE  IInv'
<1>1. TypeOK  BY DEF IInv
<1>2. node' \in [Node -> {"idle", "pending", "running"} \cup Settled] /\ cancel' \in BOOLEAN
  BY <1>1 DEF TypeOK
<1>3. node'[n] = x /\ \A m \in Node \ {n} : node'[m] = node[m]  BY <1>1 DEF TypeOK
<1>. QED  BY <1>2, <1>3, ThreadsGoOn

\* A thread returns; that of a skill after the frame of the skill.
LEMMA ReturnStep == ASSUME IInv, NEW n \in Node, Return(n) \/ SkillReturns(n) PROVE IInv'
<1>1. CASE Return(n)
  <2>1. PICK x \in {"ok", "failed", "cancelled"} : node' = [node EXCEPT ![n] = x]
    BY <1>1 DEF Return
  <2>. QED  BY <1>1, <2>1, OneThread DEF Return, Settled
<1>2. CASE SkillReturns(n)
  <2>1. Child[n] \in Skill  BY <1>2, PlanShape DEF SkillReturns
  <2>2. frame[Child[n]].exit \in {"ok", "failed", "cancelled"}
    BY <1>2, <2>1, FrameType DEF SkillReturns, IInv, Frames, FrameOk, Frame
  <2>. QED  BY <1>2, <2>2, OneThread DEF SkillReturns, Settled
<1>. QED  BY <1>1, <1>2

\* A thread starts: it finds the run cancelled, or runs its node; that of a
\* skill starts a frame.
LEMMA EnterStep == ASSUME IInv, NEW n \in Node, Enter(n) PROVE IInv'
<1>1. CASE cancel \/ Kind[n] # "skill"
  <2>. DEFINE x == IF cancel THEN "cancelled" ELSE "running"
  <2>1. /\ node[n] = "pending" /\ node' = [node EXCEPT ![n] = x]
        /\ UNCHANGED <<frame, slots, leases, cancel, said>>
    BY <1>1 DEF Enter
  <2>2. x = "cancelled" \/ (x = "running" /\ Kind[n] # "skill")  BY <1>1
  <2>. HIDE DEF x
  <2>. QED  BY <2>1, <2>2, OneThread DEF Settled
<1>2. CASE ~cancel /\ Kind[n] = "skill"
  <2>. DEFINE c == Child[n]
              f == [frame[c] EXCEPT !.phase = "next"]
  <2>1. /\ node[n] = "pending" /\ node' = [node EXCEPT ![n] = "running"]
        /\ frame' = [frame EXCEPT ![c].phase = "next"]
        /\ UNCHANGED <<slots, leases, cancel, said>>
    BY <1>2 DEF Enter
  <2>2. TypeOK /\ Frames /\ Tokens /\ Placed /\ Leased /\ Nested /\ Reported  BY DEF IInv
  <2>3. c \in Skill \ {Root}  BY <1>2, PlanShape
  <2>4. frame[c] = Off
    <3>1. frame[c].phase = "off"  BY <1>2, <2>1, <2>2 DEF Nested
    <3>. QED  BY <2>2, <2>3, <3>1 DEF Frames, FrameOk
  <2>5. f \in Frame /\ f.phase = "next" /\ f.batch = <<>> /\ f.taken = 0 /\ f.exit = "none"
    BY <2>4, OffType DEF Off
  <2>6. frame' = [frame EXCEPT ![c] = f]  BY <2>1
  <2>. HIDE DEF c, f
  <2>7. /\ frame' \in [Skill -> Frame] /\ frame'[c] = f
        /\ \A t \in Skill \ {c} : frame'[t] = frame[t]
    BY <2>2, <2>3, <2>5, <2>6, FrameChanges
  <2>8. node'[n] = "running" /\ \A m \in Node \ {n} : node'[m] = node[m]
        /\ node' \in [Node -> {"idle", "pending", "running"} \cup Settled]
    BY <2>1, <2>2 DEF TypeOK
  <2>9. TypeOK'  BY <2>1, <2>2, <2>7, <2>8 DEF TypeOK
  <2>10. \A t \in Skill : Members(t)' = Members(t)
    BY <2>4, <2>5, <2>7 DEF Members, Off
  <2>11. Frames'
    <3>1. FrameOk(c)'
      <4>1. Members(c)' = {}  BY <2>5, <2>7 DEF Members, ToSet
      <4>. QED  BY <2>5, <2>7, <4>1 DEF FrameOk
    <3>2. ASSUME NEW t \in Skill \ {c} PROVE FrameOk(t)'
      <4>1. Members(t) \subseteq Node  BY <2>2, FrameType
      <4>2. \A m \in Members(t) : node[m] = "idle" => node'[m] = "idle"  BY <2>1, <2>8, <4>1
      <4>. QED  BY <2>2, <2>7, <4>2, OtherFrame DEF Frames
    <3>. QED  BY <3>1, <3>2 DEF Frames
  <2>12. Tokens'
    <3>1. \A t \in Skill : frame'[t].taken = frame[t].taken  BY <2>4, <2>5, <2>7 DEF Off
    <3>. QED  BY <2>1, <2>2, <3>1, TokensStay
  <2>13. Placed'
    <3>1. ASSUME NEW m \in Node, node'[m] \in {"pending", "running"}
          PROVE  \E t \in Skill : frame'[t].phase = "wait" /\ m \in Members(t)'
      <4>1. node[m] \in {"pending", "running"}  BY <2>1, <2>8, <3>1
      <4>2. PICK t \in Skill : frame[t].phase = "wait" /\ m \in Members(t)
        BY <2>2, <4>1 DEF Placed
      <4>3. t # c  BY <2>4, <4>2 DEF Off
      <4>. QED  BY <2>7, <2>10, <4>2, <4>3
    <3>. QED  BY <3>1 DEF Placed
  <2>14. Leased'
    <3>1. ~Reserved(c) /\ ~Reserved(c)'  BY <2>4, <2>5, <2>7 DEF Reserved, Off
    <3>. QED  BY <2>1, <2>2, <2>3, <2>7, <3>1, LeasesStay
  <2>15. Nested'
    <3>1. ASSUME NEW t \in Skill \ {Root}, frame'[t].phase \notin {"off", "ended"}
          PROVE  \E m \in Node : Kind[m] = "skill" /\ Child[m] = t /\ node'[m] = "running"
      <4>1. CASE t = c  BY <1>2, <2>8, <4>1 DEF c
      <4>2. CASE t # c
        <5>1. PICK m \in Node : Kind[m] = "skill" /\ Child[m] = t /\ node[m] = "running"
          BY <2>2, <2>7, <3>1, <4>2 DEF Nested
        <5>. QED  BY <2>8, <5>1
      <4>. QED  BY <4>1, <4>2
    <3>2. ASSUME NEW m \in Node, Kind[m] = "skill", node'[m] \in {"idle", "pending"}
          PROVE  frame'[Child[m]].phase = "off"
      <4>1. m # n /\ node[m] \in {"idle", "pending"}  BY <2>8, <3>2
      <4>2. frame[Child[m]].phase = "off" /\ Child[m] \in Skill  BY <2>2, <3>2, <4>1, PlanShape DEF Nested
      <4>3. Child[m] # c  BY <1>2, <3>2, <4>1, ShapeAssumption DEF c
      <4>. QED  BY <2>7, <4>2, <4>3
    <3>. QED  BY <3>1, <3>2 DEF Nested
  <2>16. Reported'
    <3>1. ASSUME NEW t \in Skill, NEW m \in Nodes(t), node'[m] = "cancelled"
          PROVE  node[m] = "cancelled" /\ t # c
      <4>1. m \in Node  BY PlanShape
      <4>2. node[m] = "cancelled"  BY <2>8, <3>1, <4>1
      <4>3. frame[t].phase # "off"  BY <2>2, <4>2 DEF Reported
      <4>. QED  BY <2>4, <4>2, <4>3 DEF Off
    <3>. QED  BY <2>2, <2>7, <2>10, <3>1 DEF Reported, Nodes
  <2>. QED  BY <2>9, <2>11, <2>12, <2>13, <2>14, <2>15, <2>16 DEF IInv
<1>. QED  BY <1>1, <1>2

-----------------------------------------------------------------------------
(* The beginning, and the whole.                                           *)

\* Every frame is off but that of the root, which takes its first batch next.
LEMMA AtFirst ==
  ASSUME NEW s \in Skill,
         frame = [t \in Skill |-> IF t = Root THEN [Off EXCEPT !.phase = "next"] ELSE Off]
  PROVE  /\ frame[s].phase = IF s = Root THEN "next" ELSE "off"
         /\ frame[s].batch = <<>> /\ frame[s].taken = 0 /\ frame[s].exit = "none"
         /\ s # Root => frame[s] = Off
BY DEF Off

\* At the start every slot is free and no frame but the root is in use.
LEMMA InitIInv == Init => IInv
<1>. SUFFICES ASSUME Init PROVE IInv  OBVIOUS
<1>1. /\ node = [n \in Node |-> "idle"] /\ slots = Limit[Root] /\ leases = {}
      /\ frame = [s \in Skill |-> IF s = Root THEN [Off EXCEPT !.phase = "next"] ELSE Off]
  BY DEF Init
<1>2. \A s \in Skill : Members(s) = {}  BY <1>1, AtFirst DEF Members, ToSet
<1>3. Frames
  <2>1. ASSUME NEW s \in Skill PROVE FrameOk(s)
    <3>1. /\ frame[s].phase \in {"next", "off"} /\ frame[s].batch = <<>> /\ frame[s].taken = 0
          /\ frame[s].exit = "none"
          /\ frame[s].phase = "off" => frame[s] = Off
      BY <1>1, AtFirst
    <3>. QED  BY <1>2, <3>1 DEF FrameOk
  <2>. QED  BY <2>1 DEF Frames
<1>4. Tokens
  <2>. DEFINE own == [i \in {} |-> Root]
  <2>1. own \in [{} -> Skill] /\ {} \in SUBSET (1..Limit[Root])  OBVIOUS
  <2>2. Cardinality({}) = 0 /\ Limit[Root] \in Nat  BY PlanShape, FS_EmptySet
  <2>3. \A s \in Skill : Owned({}, own, s) = {} /\ frame[s].taken = 0  BY <1>1, AtFirst DEF Owned
  <2>. HIDE DEF own
  <2>4. Limit[Root] - 0 = Limit[Root]  BY <2>2
  <2>5. slots = Limit[Root] - Cardinality({})  BY <1>1, <2>2, <2>4, Zenon
  <2>6. \A s \in Skill : Cardinality(Owned({}, own, s)) = frame[s].taken  BY <2>2, <2>3, Zenon
  <2>7. Shared({}, own)  BY <2>5, <2>6 DEF Shared
  <2>. QED  BY <2>1, <2>7 DEF Tokens
<1>5. Placed  BY <1>1 DEF Placed
<1>6. Leased  BY <1>1, <1>2 DEF Leased
<1>7. Nested
  <2>1. \A t \in Skill \ {Root} : frame[t].phase = "off"  BY <1>1, AtFirst
  <2>. QED  BY <2>1, PlanShape DEF Nested
<1>8. Reported
  <2>1. \A s \in Skill : \A n \in Nodes(s) : node[n] = "idle"  BY <1>1, PlanShape
  <2>. QED  BY <2>1 DEF Reported
<1>. QED  BY <1>3, <1>4, <1>5, <1>6, <1>7, <1>8, InitType DEF IInv

\* Cancel sets the event, which the invariant does not speak of.
LEMMA CancelStep == ASSUME IInv, Cancel \/ UNCHANGED vars PROVE IInv'
<1>1. UNCHANGED <<node, frame, slots, leases, said>> /\ cancel' \in BOOLEAN
  BY DEF Cancel, vars, IInv, TypeOK
<1>2. node' \in [Node -> {"idle", "pending", "running"} \cup Settled]  BY <1>1 DEF IInv, TypeOK
<1>. QED  BY <1>1, <1>2, ThreadsGoOn

\* Every step keeps the invariant.
LEMMA IInvStep == IInv /\ [Next]_vars => IInv'
<1>. SUFFICES ASSUME IInv, [Next]_vars PROVE IInv'  OBVIOUS
<1>1. CASE Again
  <2>1. Init'  BY <1>1 DEF Again, Init
  <2>. QED  BY <2>1, InitIInv, PTL
<1>2. ASSUME NEW s \in Skill, FrameStep(s) \/ TakeSlot(s) \/ GiveUp(s) PROVE IInv'
  <2>1. CASE GiveUp(s)  BY <2>1, Dissolved DEF GiveUp
  <2>. QED  BY <1>2, <2>1, NextBatchStep, ReserveStep, LaunchStep, ObserveStep, MergeStep,
               ReleaseStep, TakeSlotStep DEF FrameStep
<1>3. ASSUME NEW n \in Node, Thread(n) PROVE IInv'
  BY <1>3, EnterStep, ReturnStep DEF Thread
<1>. QED  BY <1>1, <1>2, <1>3, CancelStep DEF Next

\* As many routes run as there are slots, or fewer: each running route holds
\* one of the slots of its frame.
LEMMA Budget == IInv => RoutesWithinBudget
<1>. SUFFICES ASSUME IInv PROVE Cardinality({n \in Routes : Running(n)}) <= Limit[Root]
  BY DEF RoutesWithinBudget
<1>. DEFINE L == Limit[Root]
            R == {n \in Routes : Running(n)}
            M(s) == Routed(frame[s].batch)
<1>1. TypeOK /\ Frames /\ Tokens /\ Placed  BY DEF IInv
<1>2. PICK busy \in SUBSET (1..Limit[Root]) : \E own \in [busy -> Skill] : Shared(busy, own)
  BY <1>1 DEF Tokens
<1>3. PICK own \in [busy -> Skill] : Shared(busy, own)  BY <1>2
<1>4. L \in Nat /\ IsFiniteSet(1..L) /\ Cardinality(1..L) = L
  <2>1. L \in Nat  BY PlanShape
  <2>. HIDE DEF L
  <2>. QED  BY <2>1, FS_Interval
<1>5. IsFiniteSet(busy) /\ Cardinality(busy) <= L  BY <1>4, FS_Subset
<1>6. ASSUME NEW s \in Skill, frame[s].phase = "wait"
      PROVE  \E f : f \in Injection(M(s), Owned(busy, own, s))
  <2>1. M(s) \in SUBSET Node  BY <1>1, FrameType DEF Routed, Members
  <2>2. IsFiniteSet(M(s))  BY <2>1, PlanShape, FS_Subset
  <2>3. Owned(busy, own, s) \in SUBSET busy  BY DEF Owned
  <2>4. IsFiniteSet(Owned(busy, own, s))  BY <1>5, <2>3, FS_Subset
  <2>5. Cardinality(M(s)) = Cardinality(Owned(busy, own, s))
    BY <1>1, <1>3, <1>6 DEF Shared, Frames, FrameOk
  <2>. DEFINE A == M(s)
              B == Owned(busy, own, s)
  <2>. HIDE DEF A, B
  <2>6. ExistsBijection(A, B)  BY <2>2, <2>4, <2>5, FS_SameCardinalityBij DEF A, B
  <2>. QED  BY <2>6 DEF ExistsBijection, Bijection, A, B
<1>7. \A s \in Skill : \E f : frame[s].phase = "wait" => f \in Injection(M(s), Owned(busy, own, s))
  BY <1>6
<1>. DEFINE pick == [s \in Skill |->
               CHOOSE f : frame[s].phase = "wait" => f \in Injection(M(s), Owned(busy, own, s))]
<1>8. \A s \in Skill : frame[s].phase = "wait" => pick[s] \in Injection(M(s), Owned(busy, own, s))
  BY <1>7
<1>. HIDE DEF pick
<1>9. \A n \in R : \E s \in Skill : frame[s].phase = "wait" /\ n \in M(s)
  BY <1>1 DEF Placed, Routes, Running, Routed, Members
<1>. DEFINE home == [n \in R |-> CHOOSE s \in Skill : frame[s].phase = "wait" /\ n \in M(s)]
<1>10. \A n \in R : /\ home[n] \in Skill /\ frame[home[n]].phase = "wait" /\ n \in M(home[n])
  BY <1>9
<1>. HIDE DEF home, M, R
<1>. DEFINE token == [n \in R |-> pick[home[n]][n]]
<1>11. ASSUME NEW n \in R PROVE token[n] \in busy /\ own[token[n]] = home[n]
  <2>1. pick[home[n]] \in [M(home[n]) -> Owned(busy, own, home[n])]  BY <1>8, <1>10 DEF Injection
  <2>2. token[n] \in Owned(busy, own, home[n])  BY <1>10, <2>1
  <2>. QED  BY <2>2 DEF Owned
<1>12. ASSUME NEW m \in R, NEW n \in R, token[m] = token[n] PROVE m = n
  <2>1. home[m] = home[n]  BY <1>11, <1>12
  <2>2. pick[home[n]] \in Injection(M(home[n]), Owned(busy, own, home[n]))  BY <1>8, <1>10
  <2>3. m \in M(home[n]) /\ n \in M(home[n])  BY <1>10, <2>1
  <2>4. pick[home[n]][m] = pick[home[n]][n]  BY <1>12, <2>1
  <2>. QED  BY <2>2, <2>3, <2>4 DEF Injection, IsInjective
<1>13. token \in Injection(R, busy)
  <2>1. token \in [R -> busy]  BY <1>11
  <2>. HIDE DEF token
  <2>2. IsInjective(token)  BY <1>12, <2>1 DEF IsInjective
  <2>. QED  BY <2>1, <2>2 DEF Injection
<1>14. IsFiniteSet(R) /\ Cardinality(R) <= Cardinality(busy)
  <2>. HIDE DEF token
  <2>. QED  BY <1>5, <1>13, FS_Injection
<1>15. Cardinality(R) \in Nat /\ Cardinality(busy) \in Nat  BY <1>5, <1>14, FS_CardinalityType
<1>16. Cardinality(R) <= L  BY <1>4, <1>5, <1>14, <1>15
<1>. QED  BY <1>16 DEF R

\* A route that runs belongs to a batch that has its leases.
LEMMA Hold == IInv => RoutesHoldLeases
<1>. SUFFICES ASSUME IInv, NEW n \in Routes, Running(n) PROVE n \in leases
  BY DEF RoutesHoldLeases
<1>1. PICK s \in Skill : frame[s].phase = "wait" /\ n \in Members(s)
  BY DEF IInv, Placed, Routes, Running
<1>. QED  BY <1>1 DEF IInv, Leased, Reserved, Routes

\* When the root has ended, no frame is in use: the frame of an outermost skill
\* among those in use would have been called by another one in use.
LEMMA NoneInUse ==
  ASSUME IInv, frame[Root].phase = "ended"
  PROVE  \A s \in Skill : frame[s].phase \in {"off", "ended"}
<1>. DEFINE S == {s \in Skill : frame[s].phase \notin {"off", "ended"}}
<1>. SUFFICES ASSUME S # {} PROVE FALSE  OBVIOUS
<1>1. PICK s \in S : \A t \in S : \A n \in Nodes(t) : Kind[n] = "skill" => Child[n] # s
  <2>1. S \in SUBSET Skill  OBVIOUS
  <2>. HIDE DEF S
  <2>. QED  BY <2>1, ShapeAssumption DEF Nodes
<1>2. s # Root  OBVIOUS
<1>3. PICK n \in Node : Kind[n] = "skill" /\ Child[n] = s /\ node[n] = "running"
  BY <1>1, <1>2 DEF IInv, Nested
<1>4. PICK t \in Skill : frame[t].phase = "wait" /\ n \in Members(t)
  BY <1>3 DEF IInv, Placed
<1>5. n \in Nodes(t) /\ t \in S  BY <1>4 DEF IInv, Frames, FrameOk
<1>. QED  BY <1>1, <1>3, <1>5

\* When the root has ended no thread runs (Placed, Nested), so nothing is held.
LEMMA NoLeaks == IInv => NothingLeaks
<1>. SUFFICES ASSUME IInv, frame[Root].phase = "ended"
     PROVE  /\ leases = {} /\ slots = Limit[Root]
            /\ \A n \in Node : node[n] \in {"idle"} \cup Settled
            /\ \A s \in Skill : frame[s].phase \in {"off", "ended"}
  BY DEF NothingLeaks
<1>1. \A s \in Skill : frame[s].phase \in {"off", "ended"}  BY NoneInUse
<1>2. leases = {}  BY <1>1 DEF IInv, Leased, Reserved
<1>3. \A n \in Node : node[n] \in {"idle"} \cup Settled
  BY <1>1 DEF IInv, Placed, TypeOK
<1>4. slots = Limit[Root]
  <2>1. PICK busy \in SUBSET (1..Limit[Root]) : \E own \in [busy -> Skill] : Shared(busy, own)
    BY DEF IInv, Tokens
  <2>2. PICK own \in [busy -> Skill] : Shared(busy, own)  BY <2>1
  <2>3. Limit[Root] \in Nat /\ IsFiniteSet(1..Limit[Root])  BY PlanShape, FS_Interval
  <2>4. IsFiniteSet(busy)  BY <2>3, FS_Subset
  <2>5. ASSUME NEW i \in busy PROVE FALSE
    <3>1. own[i] \in Skill /\ i \in Owned(busy, own, own[i])  BY DEF Owned
    <3>2. Cardinality(Owned(busy, own, own[i])) = 0
      BY <1>1, <2>2, <3>1 DEF Shared, IInv, Frames, FrameOk
    <3>3. Owned(busy, own, own[i]) \in SUBSET busy  BY DEF Owned
    <3>4. IsFiniteSet(Owned(busy, own, own[i]))  BY <2>4, <3>3, FS_Subset
    <3>5. Owned(busy, own, own[i]) = {}  BY <3>2, <3>4, FS_EmptySet
    <3>. QED  BY <3>1, <3>5
  <2>6. busy = {}  BY <2>5
  <2>7. Cardinality(busy) = 0  BY <2>6, FS_EmptySet
  <2>. QED  BY <2>2, <2>3, <2>7 DEF Shared
<1>. QED  BY <1>1, <1>2, <1>3, <1>4

\* A run of a plan never uses more slots than its root allows, and no route
\* without its lease; however it ends, it gives everything back.
THEOREM Covered == Spec => []RoutesAreCovered
<1>1. IInv => RoutesAreCovered
  BY Budget, Hold, NoLeaks DEF RoutesAreCovered, IInv
<1>. QED  BY <1>1, InitIInv, IInvStep, PTL DEF Spec

\* A cancelled node makes its skill end as cancelled, unless a lease could not
\* be released, whatever its siblings did.
THEOREM CancellationTheorem == Spec => []CancellationWins
<1>1. IInv => CancellationWins  BY DEF IInv, Reported, CancellationWins
<1>. QED  BY <1>1, InitIInv, IInvStep, PTL DEF Spec

-----------------------------------------------------------------------------
(* The layers of a graph.                                                  *)

\* A finite set of numbers that is not empty has a largest element.
LEMMA Largest ==
  ASSUME NEW S \in SUBSET Nat, IsFiniteSet(S), S # {}
  PROVE  Max(S) \in S /\ \A x \in S : x <= Max(S)
<1>. DEFINE Top(T) == \E x \in T : \A y \in T : x >= y
            G == {k \in Nat : \A T \in SUBSET Nat :
                    IsFiniteSet(T) /\ Cardinality(T) = k /\ T # {} => Top(T)}
<1>1. 0 \in G  BY FS_EmptySet
<1>2. ASSUME NEW k \in Nat, k \in G PROVE k + 1 \in G
  <2>. SUFFICES ASSUME NEW T \in SUBSET Nat, IsFiniteSet(T), Cardinality(T) = k + 1, T # {}
       PROVE  Top(T)
    OBVIOUS
  <2>1. PICK t : t \in T  OBVIOUS
  <2>. DEFINE U == T \ {t}
  <2>2. IsFiniteSet(U) /\ Cardinality(U) = k
    <3>1. IsFiniteSet(U) /\ Cardinality(U) = Cardinality(T) - 1  BY <2>1, FS_RemoveElement
    <3>2. (k + 1) - 1 = k  OBVIOUS
    <3>. QED  BY <3>1, <3>2
  <2>3. CASE U = {}  BY <2>1, <2>3
  <2>4. CASE U # {}
    <3>1. Top(U)
      <4>1. U \in SUBSET Nat  OBVIOUS
      <4>. HIDE DEF U, Top
      <4>. QED  BY <1>2, <2>2, <2>4, <4>1
    <3>2. PICK x \in U : \A y \in U : x >= y  BY <3>1
    <3>3. x \in T /\ x \in Nat /\ t \in Nat /\ \A y \in T : y = t \/ y \in U  BY <2>1, <3>2
    <3>4. CASE x >= t  BY <3>2, <3>3, <3>4
    <3>5. CASE ~(x >= t)
      <4>1. ASSUME NEW y \in T PROVE t >= y
        <5>1. CASE y = t  BY <3>3, <5>1
        <5>2. CASE y \in U
          <6>1. x >= y /\ y \in Nat  BY <3>2, <5>2
          <6>. QED  BY <3>3, <3>5, <6>1
        <5>. QED  BY <3>3, <5>1, <5>2
      <4>. QED  BY <2>1, <4>1
    <3>. QED  BY <3>4, <3>5
  <2>. QED  BY <2>3, <2>4
<1>. HIDE DEF G
<1>3. \A k \in Nat : k \in G => k + 1 \in G  BY <1>2
<1>4. Nat \subseteq G  BY <1>1, <1>3, Induction
<1>5. Cardinality(S) \in G  BY <1>4, FS_CardinalityType
<1>6. Top(S)  BY <1>5 DEF G
<1>7. Max(S) \in S /\ \A x \in S : Max(S) >= x  BY <1>6 DEF Max
<1>. QED  BY <1>7

\* The equation of Rank, on the nodes of a set that has what they need.
Closed(D) == \A n \in D : Needs[n] \subseteq D
Layer(r, n) == IF Needs[n] = {} THEN 0 ELSE 1 + Max({r[m] : m \in Needs[n]})
Solves(r, D) == \A n \in D : r[n] = Layer(r, n)

\* It has one solution at most.
LEMMA LayersAreUnique ==
  ASSUME NEW D \in SUBSET Node, NEW E \in SUBSET Node, Closed(D), Closed(E),
         NEW r, NEW q, Solves(r, D), Solves(q, E)
  PROVE  \A n \in D \cap E : r[n] = q[n]
<1>. DEFINE S == {n \in D \cap E : r[n] # q[n]}
<1>. SUFFICES ASSUME S # {} PROVE FALSE  OBVIOUS
<1>1. PICK n \in S : Needs[n] \cap S = {}
  <2>1. S \in SUBSET Node  OBVIOUS
  <2>. HIDE DEF S
  <2>. QED  BY <2>1, ShapeAssumption
<1>2. n \in D \cap E /\ r[n] # q[n]  OBVIOUS
<1>3. \A m \in Needs[n] : m \in D \cap E  BY <1>2 DEF Closed
<1>4. \A m \in Needs[n] : r[m] = q[m]  BY <1>1, <1>3
<1>5. {r[m] : m \in Needs[n]} = {q[m] : m \in Needs[n]}  BY <1>4
<1>6. Layer(r, n) = Layer(q, n)  BY <1>5 DEF Layer
<1>. QED  BY <1>2, <1>6 DEF Solves

\* A layer is a number, later than those of the nodes that are needed.
LEMMA LayerIsLater ==
  ASSUME NEW D \in SUBSET Node, NEW r \in [D -> Nat], NEW n \in Node, Needs[n] \subseteq D
  PROVE  Layer(r, n) \in Nat /\ \A m \in Needs[n] : r[m] < Layer(r, n)
<1>. DEFINE S == {r[m] : m \in Needs[n]}
<1>1. CASE Needs[n] = {}  BY <1>1 DEF Layer
<1>2. CASE Needs[n] # {}
  <2>1. Needs[n] \in SUBSET Node  BY GraphAssumption
  <2>2. IsFiniteSet(Needs[n])  BY <2>1, PlanShape, FS_Subset
  <2>3. IsFiniteSet(S)
    <3>. DEFINE f == [m \in Needs[n] |-> r[m]]
    <3>1. f \in Surjection(Needs[n], S)  BY DEF Surjection
    <3>. HIDE DEF f, S
    <3>. QED  BY <2>2, <3>1, FS_Surjection
  <2>4. S \in SUBSET Nat /\ S # {}  BY <1>2
  <2>. HIDE DEF S
  <2>5. Max(S) \in S /\ \A x \in S : x <= Max(S)  BY <2>3, <2>4, Largest
  <2>6. Layer(r, n) = 1 + Max(S)  BY <1>2 DEF Layer, S
  <2>7. Max(S) \in Nat  BY <2>4, <2>5
  <2>8. \A m \in Needs[n] : r[m] \in S /\ r[m] \in Nat  BY <2>4 DEF S
  <2>. QED  BY <2>5, <2>6, <2>7, <2>8
<1>. QED  BY <1>1, <1>2

\* A node that is in a set on which the equation has a solution.
Layered(n, v) ==
  \E D \in SUBSET Node : Closed(D) /\ n \in D /\ \E r \in [D -> Nat] : Solves(r, D) /\ v = r[n]

\* Every acyclic graph has layers: a smallest node without one would need others
\* without one.
LEMMA LayersExist == \E r \in [Node -> Nat] : Solves(r, Node)
<1>. DEFINE V == {n \in Node : \E v : Layered(n, v)}
            R == [n \in V |-> CHOOSE v : Layered(n, v)]
<1>1. ASSUME NEW D \in SUBSET Node, Closed(D), NEW r \in [D -> Nat], Solves(r, D)
      PROVE  D \subseteq V /\ \A n \in D : R[n] = r[n]
  <2>1. \A n \in D : Layered(n, r[n])  BY <1>1 DEF Layered
  <2>2. D \subseteq V  BY <2>1
  <2>3. ASSUME NEW n \in D PROVE R[n] = r[n]
    <3>1. Layered(n, R[n])  BY <2>2, <2>3
    <3>. HIDE DEF R, V
    <3>2. PICK E \in SUBSET Node : /\ Closed(E) /\ n \in E
                                   /\ \E q \in [E -> Nat] : Solves(q, E) /\ R[n] = q[n]
      BY <3>1 DEF Layered
    <3>3. PICK q \in [E -> Nat] : Solves(q, E) /\ R[n] = q[n]  BY <3>2
    <3>. QED  BY <1>1, <3>2, <3>3, LayersAreUnique
  <2>. QED  BY <2>2, <2>3
<1>2. ASSUME NEW n \in V
      PROVE  Needs[n] \subseteq V /\ R[n] \in Nat /\ R[n] = Layer(R, n)
  <2>1. \E v : Layered(n, v)  OBVIOUS
  <2>. HIDE DEF V, R
  <2>2. PICK v : Layered(n, v)  BY <2>1
  <2>3. PICK D \in SUBSET Node : Closed(D) /\ n \in D /\ \E r \in [D -> Nat] : Solves(r, D) /\ v = r[n]
    BY <2>2 DEF Layered
  <2>4. PICK r \in [D -> Nat] : Solves(r, D)  BY <2>3
  <2>5. D \subseteq V /\ \A m \in D : R[m] = r[m]  BY <1>1, <2>3, <2>4
  <2>6. \A m \in Needs[n] : m \in D /\ R[m] = r[m]  BY <2>3, <2>5 DEF Closed
  <2>7. {R[m] : m \in Needs[n]} = {r[m] : m \in Needs[n]}  BY <2>6
  <2>8. Layer(R, n) = Layer(r, n)  BY <2>7 DEF Layer
  <2>. QED  BY <2>3, <2>4, <2>5, <2>6, <2>8 DEF Solves
<1>. HIDE DEF R
<1>3. V \in SUBSET Node /\ Closed(V) /\ R \in [V -> Nat] /\ Solves(R, V)
  <2>1. R = [n \in V |-> R[n]]  BY DEF R
  <2>. HIDE DEF V
  <2>2. R \in [V -> Nat]  BY <1>2, <2>1
  <2>3. V \in SUBSET Node  BY DEF V
  <2>. QED  BY <1>2, <2>2, <2>3 DEF Closed, Solves
<1>4. V = Node
  <2>. DEFINE S == Node \ V
  <2>. SUFFICES ASSUME S # {} PROVE FALSE  OBVIOUS
  <2>1. PICK n \in S : Needs[n] \cap S = {}
    <3>1. S \in SUBSET Node  OBVIOUS
    <3>. HIDE DEF S
    <3>. QED  BY <3>1, ShapeAssumption
  <2>2. n \in Node /\ n \notin V /\ Needs[n] \subseteq Node  BY GraphAssumption
  <2>3. Needs[n] \subseteq V  BY <2>1, <2>2
  <2>. HIDE DEF V, S
  <2>. DEFINE D == V \cup {n}
              r == [m \in D |-> IF m = n THEN Layer(R, n) ELSE R[m]]
  <2>4. Layer(R, n) \in Nat  BY <1>3, <2>2, <2>3, LayerIsLater
  <2>5. D \in SUBSET Node /\ Closed(D)  BY <1>3, <2>2, <2>3 DEF Closed
  <2>6. r \in [D -> Nat]  BY <1>3, <2>4
  <2>7. \A m \in V : r[m] = R[m]  BY <2>2
  <2>8. ASSUME NEW m \in D PROVE r[m] = Layer(r, m)
    <3>1. Needs[m] \subseteq V  BY <1>3, <2>3 DEF Closed
    <3>2. {r[k] : k \in Needs[m]} = {R[k] : k \in Needs[m]}  BY <2>7, <3>1
    <3>3. Layer(r, m) = Layer(R, m)  BY <3>2 DEF Layer
    <3>4. r[m] = Layer(R, m)  BY <1>3 DEF Solves
    <3>. QED  BY <3>3, <3>4
  <2>. HIDE DEF r, D
  <2>9. Solves(r, D)  BY <2>8 DEF Solves
  <2>10. n \in V  BY <1>1, <2>5, <2>6, <2>9 DEF D
  <2>. QED  BY <2>2, <2>10
<1>. QED  BY <1>3, <1>4

\* A node is in a later layer than the nodes it needs.
THEOREM RankIsLater ==
  ASSUME NEW n \in Node
  PROVE  Rank[n] \in Nat /\ \A m \in Needs[n] : Rank[m] \in Nat /\ Rank[m] < Rank[n]
<1>. DEFINE Eq(r) == r = [k \in Node |->
               IF Needs[k] = {} THEN 0 ELSE 1 + Max({r[j] : j \in Needs[k]})]
<1>1. PICK r \in [Node -> Nat] : Solves(r, Node)  BY LayersExist
<1>2. Eq(r)
  <2>1. \A k \in Node : r[k] = IF Needs[k] = {} THEN 0 ELSE 1 + Max({r[j] : j \in Needs[k]})
    BY <1>1 DEF Solves, Layer
  <2>2. r = [k \in Node |-> r[k]]  OBVIOUS
  <2>. QED  BY <2>1, <2>2
<1>3. Rank = CHOOSE q : Eq(q)  BY DEF Rank
<1>. HIDE DEF Eq
<1>4. Eq(Rank)  BY <1>2, <1>3
<1>5. Rank = [k \in Node |-> Layer(Rank, k)]  BY <1>4 DEF Eq, Layer
<1>6. Solves(Rank, Node)
  <2>. DEFINE q == Rank
  <2>1. q = [k \in Node |-> Layer(q, k)]  BY <1>5
  <2>. HIDE DEF q
  <2>2. Solves(q, Node)  BY <2>1 DEF Solves
  <2>. QED  BY <2>2 DEF q
<1>7. Closed(Node)  BY GraphAssumption DEF Closed
<1>8. \A k \in Node : Rank[k] = r[k]  BY <1>1, <1>6, <1>7, LayersAreUnique
<1>9. Needs[n] \subseteq Node  BY GraphAssumption
<1>10. \A m \in Needs[n] : m \in Node /\ r[m] < Layer(r, n)  BY <1>9, LayerIsLater
<1>11. r[n] = Layer(r, n)  BY <1>1 DEF Solves
<1>. QED  BY <1>8, <1>9, <1>10, <1>11

-----------------------------------------------------------------------------
(* The order of the nodes.                                                 *)

\* Nothing has gone wrong with n so far, or it is still at work.
Fine(n) == node[n] \in {"idle", "ok"}

\* A frame goes on only after a batch whose nodes have all succeeded, and a
\* batch that is about to start has what it needs.
Calm(s) ==
  /\ frame[s].phase \in {"off", "next", "slots", "start"} => \A n \in Nodes(s) : Fine(n)
  /\ frame[s].phase = "wait" => \A n \in Nodes(s) \ Members(s) : Fine(n)
  /\ frame[s].phase = "release" /\ frame[s].exit = "none" => \A n \in Nodes(s) : Fine(n)
  /\ frame[s].phase \in {"slots", "start"} =>
       \A n \in Members(s) : \A m \in Needs[n] : node[m] = "ok"
Ordered == (\A s \in Skill : Calm(s)) /\ ProducersFirst

\* A frame whose nodes have not changed, and which goes on as it was.
LEMMA CalmStays ==
  ASSUME NEW s \in Skill, Calm(s), frame'[s] = frame[s], UNCHANGED node
  PROVE  Calm(s)'
BY DEF Calm, Fine, Members, Nodes

\* The steps of a frame that change no node.
LEMMA FrameOrder ==
  ASSUME IInv, Ordered, NEW s \in Skill, UNCHANGED node,
         \A t \in Skill \ {s} : frame'[t] = frame[t], Calm(s)'
  PROVE  Ordered'
<1>1. \A t \in Skill : Calm(t)'  BY CalmStays DEF Ordered
<1>2. ProducersFirst'  BY DEF Ordered, ProducersFirst
<1>. QED  BY <1>1, <1>2 DEF Ordered

\* The first batch that a frame can take: whatever its nodes need has succeeded.
LEMMA BatchHasInputs ==
  ASSUME NEW s \in Skill, \A n \in Nodes(s) : Fine(n), NEW n \in ToSet(Batch(s)), NEW m \in Needs[n]
  PROVE  node[m] = "ok"
<1>. DEFINE S == {Rank[k] : k \in ToSet(Idle(s))}
<1>1. ToSet(Idle(s)) = {k \in Nodes(s) : node[k] = "idle"}
      /\ n \in ToSet(Idle(s)) /\ Rank[n] = Min(S)
  BY BatchFacts
<1>2. n \in Nodes(s) /\ n \in Node  BY <1>1, PlanShape
<1>3. m \in Nodes(s)  BY <1>2, ShapeAssumption DEF Nodes
<1>4. Rank[m] \in Nat /\ Rank[n] \in Nat /\ Rank[m] < Rank[n]  BY <1>2, RankIsLater
<1>5. ASSUME node[m] = "idle" PROVE FALSE
  <2>1. m \in ToSet(Idle(s))  BY <1>1, <1>3, <1>5
  <2>2. Rank[m] \in S /\ Rank[n] \in S  BY <1>1, <2>1
  <2>3. S \in SUBSET Nat
    <3>1. \A k \in ToSet(Idle(s)) : Rank[k] \in Nat
      <4>1. ASSUME NEW k \in ToSet(Idle(s)) PROVE Rank[k] \in Nat
        <5>1. k \in Node  BY <1>1, PlanShape
        <5>. QED  BY <5>1, RankIsLater
      <4>. QED  BY <4>1
    <3>. QED  BY <3>1
  <2>. HIDE DEF S
  <2>4. PICK x \in S : \A y \in S : x <= y  BY <2>2, <2>3, Smallest
  <2>5. Min(S) \in S /\ \A y \in S : Min(S) <= y  BY <2>4 DEF Min
  <2>6. Rank[n] <= Rank[m]  BY <1>1, <2>2, <2>5 DEF S
  <2>. QED  BY <1>4, <2>6
<1>. QED  BY <1>3, <1>5 DEF Fine

\* A new batch has what it needs: it is the first layer that is not done.
LEMMA NextBatchOrder == ASSUME IInv, Ordered, NEW s \in Skill, NextBatch(s) PROVE Ordered'
<1>1. TypeOK /\ frame[s] \in Frame  BY FrameType DEF IInv
<1>2. frame[s].phase = "next" /\ UNCHANGED node  BY DEF NextBatch
<1>3. \A n \in Nodes(s) : Fine(n)  BY <1>2 DEF Ordered, Calm
<1>4. /\ \A t \in Skill \ {s} : frame'[t] = frame[t]
      /\ frame'[s].phase = "ended" \/ frame'[s].batch = Batch(s)
      /\ frame'[s].phase \in {"slots", "start", "ended"}
  <2>1. PICK f \in Frame :
          /\ frame' = [frame EXCEPT ![s] = f] /\ f.phase \in {"start", "slots", "ended"}
          /\ f.phase # "ended" => f.batch = Batch(s)
    BY NextBatchFrame
  <2>2. frame'[s] = f /\ \A t \in Skill \ {s} : frame'[t] = frame[t]  BY <1>1, <2>1, FrameChanges
  <2>. QED  BY <2>1, <2>2
<1>5. Calm(s)'
  <2>1. CASE frame'[s].phase = "ended"  BY <2>1 DEF Calm
  <2>2. CASE frame'[s].phase # "ended"
    <3>1. Members(s)' = ToSet(Batch(s))  BY <1>4, <2>2 DEF Members
    <3>2. \A n \in ToSet(Batch(s)) : \A m \in Needs[n] : node[m] = "ok"  BY <1>3, BatchHasInputs
    <3>. QED  BY <1>2, <1>3, <1>4, <2>2, <3>1, <3>2 DEF Calm, Fine, Nodes
  <2>. QED  BY <2>1, <2>2
<1>. QED  BY <1>2, <1>4, <1>5, FrameOrder

\* A frame that takes slots or leases keeps its batch, or ends.
LEMMA ReserveOrder ==
  ASSUME IInv, Ordered, NEW s \in Skill, TakeSlot(s) \/ GiveUp(s) \/ Reserve(s)
  PROVE  Ordered'
<1>1. TypeOK /\ frame[s] \in Frame  BY FrameType DEF IInv
<1>2. frame[s].phase = "slots" /\ UNCHANGED node  BY DEF TakeSlot, GiveUp, Reserve
<1>3. /\ \A t \in Skill \ {s} : frame'[t] = frame[t]
      /\ \/ frame'[s].phase = "ended"
         \/ frame'[s].phase \in {"slots", "start"} /\ frame'[s].batch = frame[s].batch
  <2>1. ASSUME NEW exit \in {"cancelled", "failed"}, frame' = [frame EXCEPT ![s] = Ended(@, exit)]
        PROVE  frame'[s].phase = "ended" /\ \A t \in Skill \ {s} : frame'[t] = frame[t]
    <3>. DEFINE f == Ended(frame[s], exit)
    <3>0. exit \in {"none", "ok", "failed", "cancelled"}  OBVIOUS
    <3>1. f \in Frame /\ f.phase = "ended"  BY <1>1, <3>0, EndedType
    <3>2. frame' = [frame EXCEPT ![s] = f]  BY <2>1
    <3>. HIDE DEF f
    <3>. QED  BY <1>1, <3>1, <3>2, FrameChanges
  <2>2. CASE TakeSlot(s)  BY <1>1, <1>2, <2>2 DEF TakeSlot, TypeOK, Frame
  <2>3. CASE frame' = [frame EXCEPT ![s].phase = "start"]  BY <1>1, <2>3 DEF TypeOK, Frame
  <2>. QED  BY <2>1, <2>2, <2>3 DEF GiveUp, Reserve
<1>4. Calm(s)'
  <2>1. Calm(s)  BY DEF Ordered
  <2>2. CASE frame'[s].phase = "ended"  BY <2>2 DEF Calm
  <2>3. CASE frame'[s].phase \in {"slots", "start"} /\ frame'[s].batch = frame[s].batch
    BY <1>2, <2>1, <2>3 DEF Calm, Fine, Members, Nodes
  <2>. QED  BY <1>3, <2>2, <2>3
<1>. QED  BY <1>2, <1>3, <1>4, FrameOrder

\* Nodes start only with their batch, which has what it needs.
LEMMA LaunchOrder == ASSUME IInv, Ordered, NEW s \in Skill, Launch(s) PROVE Ordered'
<1>1. TypeOK /\ Frames /\ frame[s] \in Frame /\ FrameOk(s)  BY FrameType DEF IInv, Frames
<1>2. /\ frame[s].phase = "start" /\ frame'[s].phase = "wait" /\ frame'[s].batch = frame[s].batch
      /\ \A t \in Skill \ {s} : frame'[t] = frame[t]
      /\ node' = [n \in Node |-> IF n \in Members(s) THEN "pending" ELSE node[n]]
  BY <1>1 DEF Launch, Members, TypeOK, Frame
<1>3. \A t \in Skill : Members(t)' = Members(t) /\ Nodes(t)' = Nodes(t) /\ Nodes(t) \subseteq Node
  BY <1>2, PlanShape DEF Members, Nodes
<1>4. \A n \in Members(s) : node[n] = "idle"  BY <1>1, <1>2 DEF FrameOk
<1>5. \A n \in Node : node[n] = "ok" => node'[n] = "ok"  BY <1>2, <1>4
<1>6. \A n \in Node \ Members(s) : node'[n] = node[n]  BY <1>2
<1>7. ASSUME NEW t \in Skill PROVE Calm(t)'
  <2>1. CASE t = s  BY <1>2, <1>3, <1>6, <2>1 DEF Ordered, Calm, Fine
  <2>2. CASE t # s
    <3>1. \A n \in Nodes(t) : n \in Node /\ n \notin Members(s)  BY <1>1, <1>3, <2>2, Apart
    <3>2. \A n \in Nodes(t) : node'[n] = node[n]  BY <1>6, <3>1
    <3>3. \A n \in Members(t) : \A m \in Needs[n] : m \in Nodes(t)
      BY <1>1, ShapeAssumption DEF Frames, FrameOk, Nodes
    <3>. QED  BY <1>2, <1>3, <2>2, <3>2, <3>3 DEF Ordered, Calm, Fine
  <2>. QED  BY <2>1, <2>2
<1>8. ProducersFirst'
  <2>1. ASSUME NEW n \in Node, node'[n] # "idle", NEW m \in Needs[n] PROVE node'[m] = "ok"
    <3>1. m \in Node  BY GraphAssumption
    <3>2. CASE n \in Members(s)  BY <1>2, <1>5, <3>1, <3>2 DEF Ordered, Calm
    <3>3. CASE n \notin Members(s)  BY <1>5, <1>6, <2>1, <3>1, <3>3 DEF Ordered, ProducersFirst
    <3>. QED  BY <3>2, <3>3
  <2>. QED  BY <2>1 DEF ProducersFirst
<1>. QED  BY <1>7, <1>8 DEF Ordered

\* A frame that reports no error has a batch whose nodes have all succeeded.
LEMMA MergeOrder == ASSUME IInv, Ordered, NEW s \in Skill, Merge(s) PROVE Ordered'
<1>1. TypeOK /\ frame[s] \in Frame  BY FrameType DEF IInv
<1>2. /\ frame[s].phase = "wait" /\ UNCHANGED node
      /\ frame'[s].phase = "release" /\ frame'[s].exit = Error(frame[s].batch)
      /\ \A t \in Skill \ {s} : frame'[t] = frame[t]
  BY <1>1 DEF Merge, TypeOK, Frame
<1>3. Error(frame[s].batch) = "none" => \A n \in Members(s) : node[n] = "ok"
  BY DEF Error, Members
<1>4. Calm(s)'  BY <1>2, <1>3 DEF Ordered, Calm, Fine, Nodes
<1>. QED  BY <1>2, <1>4, FrameOrder

\* Only a frame that has reported no error goes on.
LEMMA ReleaseOrder == ASSUME IInv, Ordered, NEW s \in Skill, Release(s) PROVE Ordered'
<1>1. TypeOK /\ frame[s] \in Frame  BY FrameType DEF IInv
<1>2. /\ frame[s].phase = "release" /\ UNCHANGED node
      /\ \A t \in Skill \ {s} : frame'[t] = frame[t]
      /\ frame'[s].phase = "ended" \/ (frame[s].exit = "none" /\ frame'[s].phase = "next")
  <2>1. PICK f \in Frame :
          /\ frame' = [frame EXCEPT ![s] = f]
          /\ f.phase = "ended" \/ (frame[s].exit = "none" /\ f.phase = "next")
    BY ReleaseFrame
  <2>2. frame'[s] = f /\ \A t \in Skill \ {s} : frame'[t] = frame[t]  BY <1>1, <2>1, FrameChanges
  <2>. QED  BY <2>1, <2>2 DEF Release
<1>3. Calm(s)'  BY <1>2 DEF Ordered, Calm, Fine, Nodes
<1>. QED  BY <1>2, <1>3, FrameOrder

\* The threads of a batch change its nodes only, and none that is idle.
LEMMA ThreadsOrder ==
  ASSUME IInv, Ordered,
         \A t \in Skill : frame'[t].phase = frame[t].phase \/ (frame[t] = Off /\ frame'[t].phase = "next"),
         \A t \in Skill : frame'[t].batch = frame[t].batch /\ frame'[t].exit = frame[t].exit,
         \A n \in Node : \/ node'[n] = node[n]
                         \/ node[n] \in {"pending", "running"} /\ node'[n] # "idle"
  PROVE  Ordered'
<1>1. TypeOK /\ Frames /\ Placed  BY DEF IInv
<1>2. \A t \in Skill : Members(t)' = Members(t) /\ Nodes(t)' = Nodes(t) /\ Nodes(t) \subseteq Node
  BY PlanShape DEF Members, Nodes
<1>3. ASSUME NEW t \in Skill, NEW n \in Nodes(t), node'[n] # node[n]
      PROVE  frame[t].phase = "wait" /\ n \in Members(t)
  <2>1. n \in Node /\ node[n] \in {"pending", "running"}  BY <1>2, <1>3
  <2>2. PICK s \in Skill : frame[s].phase = "wait" /\ n \in Members(s)  BY <1>1, <2>1 DEF Placed
  <2>3. s = t  BY <1>1, <2>2, Apart
  <2>. QED  BY <2>2, <2>3
<1>4. \A n \in Node : node[n] = "ok" => node'[n] = "ok"  OBVIOUS
<1>5. ASSUME NEW t \in Skill PROVE Calm(t)'
  <2>1. \A n \in Members(t) : n \in Node /\ \A m \in Needs[n] : m \in Node
    BY <1>1, <1>2, GraphAssumption, FrameType
  <2>2. frame[t] = Off => frame[t].phase = "off"  BY DEF Off
  <2>. QED  BY <1>2, <1>3, <1>4, <2>1, <2>2 DEF Ordered, Calm, Fine
<1>6. ProducersFirst'
  <2>1. \A n \in Node : \A m \in Needs[n] : m \in Node  BY GraphAssumption
  <2>. QED  BY <1>4, <2>1 DEF Ordered, ProducersFirst
<1>. QED  BY <1>5, <1>6 DEF Ordered

\* A thread changes its own node, and may open the frame of a skill.
LEMMA ThreadOrder ==
  ASSUME IInv, Ordered, NEW n \in Node, Thread(n)
  PROVE  Ordered'
<1>1. TypeOK /\ Nested  BY DEF IInv
<1>2. node[n] \in {"pending", "running"}  BY DEF Thread, Enter, Return, SkillReturns
<1>3. \A m \in Node \ {n} : node'[m] = node[m]
  BY <1>1 DEF Thread, Enter, Return, SkillReturns, TypeOK
<1>4. node'[n] # "idle"
  <2>1. CASE Enter(n)  BY <1>1, <2>1 DEF Enter, TypeOK
  <2>2. CASE Return(n)  BY <1>1, <2>2 DEF Return, TypeOK
  <2>3. CASE SkillReturns(n)
    <3>1. Child[n] \in Skill  BY <2>3, PlanShape DEF SkillReturns
    <3>2. frame[Child[n]].exit # "idle"  BY <1>1, <3>1, FrameType DEF Frame
    <3>. QED  BY <1>1, <2>3, <3>2 DEF SkillReturns, TypeOK
  <2>. QED  BY <2>1, <2>2, <2>3 DEF Thread
<1>5. CASE frame' = frame
  BY <1>2, <1>3, <1>4, <1>5, ThreadsOrder
<1>6. CASE frame' # frame
  <2>1. Kind[n] = "skill" /\ node[n] = "pending" /\ frame' = [frame EXCEPT ![Child[n]].phase = "next"]
    BY <1>6 DEF Thread, Enter, Return, SkillReturns
  <2>2. Child[n] \in Skill /\ frame[Child[n]].phase = "off"  BY <1>1, <2>1, PlanShape DEF Nested
  <2>3. frame[Child[n]] = Off  BY <2>2 DEF IInv, Frames, FrameOk
  <2>4. frame[Child[n]] \in Frame  BY <1>1, <2>2, FrameType
  <2>5. /\ frame'[Child[n]] = [frame[Child[n]] EXCEPT !.phase = "next"]
        /\ \A t \in Skill \ {Child[n]} : frame'[t] = frame[t]
    BY <1>1, <2>1, <2>2 DEF TypeOK
  <2>6. \A t \in Skill : frame'[t].batch = frame[t].batch /\ frame'[t].exit = frame[t].exit
    BY <2>4, <2>5 DEF Frame
  <2>7. \A t \in Skill : frame'[t].phase = frame[t].phase \/ (frame[t] = Off /\ frame'[t].phase = "next")
    BY <2>3, <2>4, <2>5 DEF Frame
  <2>. QED  BY <1>2, <1>3, <1>4, <2>6, <2>7, ThreadsOrder
<1>. QED  BY <1>5, <1>6

\* Before the first batch nothing has started.
LEMMA InitOrdered == Init => Ordered
<1>. SUFFICES ASSUME Init PROVE Ordered  OBVIOUS
<1>1. \A n \in Node : node[n] = "idle"  BY DEF Init
<1>2. \A s \in Skill : frame[s].phase \in {"off", "next"}  BY DEF Init, Off
<1>3. \A s \in Skill : Nodes(s) \subseteq Node  BY PlanShape
<1>4. \A s \in Skill : Calm(s)  BY <1>1, <1>2, <1>3 DEF Calm, Fine
<1>. QED  BY <1>1, <1>4 DEF Ordered, ProducersFirst

\* Every step keeps the order of the nodes.
LEMMA OrderedStep == IInv /\ Ordered /\ [Next]_vars => Ordered'
<1>. SUFFICES ASSUME IInv, Ordered, [Next]_vars PROVE Ordered'  OBVIOUS
<1>1. CASE Again
  <2>1. Init'  BY <1>1 DEF Again, Init
  <2>. QED  BY <2>1, InitOrdered, PTL
<1>2. CASE Cancel \/ UNCHANGED vars
  <2>1. UNCHANGED <<node, frame>>  BY <1>2 DEF Cancel, vars
  <2>. QED  BY <2>1, ThreadsOrder
<1>3. ASSUME NEW s \in Skill, Observe(s) PROVE Ordered'
  <2>1. UNCHANGED frame  BY <1>3 DEF Observe
  <2>2. PICK dropped : /\ \A n \in dropped : node[n] = "pending"
                       /\ node' = [n \in Node |-> IF n \in dropped THEN "dropped" ELSE node[n]]
    BY <1>3 DEF Observe
  <2>3. \A n \in Node : node'[n] = node[n] \/ (node[n] = "pending" /\ node'[n] = "dropped")
    BY <2>2
  <2>. QED  BY <2>1, <2>3, ThreadsOrder
<1>4. ASSUME NEW s \in Skill, FrameStep(s) \/ TakeSlot(s) \/ GiveUp(s) PROVE Ordered'
  BY <1>3, <1>4, NextBatchOrder, ReserveOrder, LaunchOrder, MergeOrder, ReleaseOrder DEF FrameStep
<1>. QED  BY <1>1, <1>2, <1>4, ThreadOrder DEF Next

\* A node starts when everything it refers to has succeeded, in whatever order
\* the manifest lists the nodes, however they are cut into batches, and
\* whatever became of the others (_execution_layers).
THEOREM ProducersTheorem == Spec => []ProducersFirst
<1>1. Init => IInv /\ Ordered  BY InitIInv, InitOrdered
<1>2. IInv /\ Ordered /\ [Next]_vars => (IInv /\ Ordered)'  BY IInvStep, OrderedStep
<1>3. Ordered => ProducersFirst  BY DEF Ordered
<1>. QED  BY <1>1, <1>2, <1>3, PTL DEF Spec

\* Nodes begin after those they refer to, and decide how their skill ends.
THEOREM NodesTheorem == Spec => []NodesDecide
<1>1. ProducersFirst /\ CancellationWins => NodesDecide  BY DEF NodesDecide
<1>. QED  BY <1>1, ProducersTheorem, CancellationTheorem, PTL

-----------------------------------------------------------------------------
(* The report.                                                             *)

\* The skills that s calls, those that these call, and s itself.
Closes(S) == \A t \in S : \A n \in Nodes(t) : Kind[n] = "skill" => Child[n] \in S
Under(s)  == {t \in Skill : \A S \in SUBSET Skill : s \in S /\ Closes(S) => t \in S}

\* A node, and all that may run inside it.
Span(n) == {n} \cup (IF Kind[n] = "skill" THEN UNION {Nodes(t) : t \in Under(Child[n])} ELSE {})

\* How a node is reported when it has ended, and the nodes that have been.
Endings == {"completed", "failed"}
Sign   == {"started"} \cup Endings
Outcome(n) == IF node[n] = "ok" THEN "completed" ELSE "failed"
Through(s) ==
  {n \in Nodes(s) : node[n] # "idle" /\ ~(frame[s].phase = "wait" /\ n \in Members(s))}

\* What r says is in order, where r is the report of s: a node ends once, and
\* after its start, whatever runs inside a node is reported between the two, and
\* what has ended comes after the nodes of its layer that the manifest lists
\* before it.
EndsOnce(r) ==
  \A m \in Node : ~(<<"completed", m>> \in ToSet(r) /\ <<"failed", m>> \in ToSet(r))
EndsAfterStart(r) ==
  \A m \in Node, e \in Endings : <<e, m>> \in ToSet(r) => Earlier(r, <<"started", m>>, <<e, m>>)
Inside(s, r) ==
  \A n \in Node : Kind[n] = "skill" /\ Child[n] # s =>
    \A m \in Nodes(Child[n]), k \in Sign : <<k, m>> \in ToSet(r) =>
      /\ Earlier(r, <<"started", n>>, <<k, m>>)
      /\ \E e \in Endings : Earlier(r, <<k, m>>, <<e, n>>)
InLayers(r) ==
  \A t \in Skill : \A i, j \in DOMAIN Graph[t] : \A e \in Endings :
    i < j /\ Rank[Graph[t][i]] = Rank[Graph[t][j]] /\ <<e, Graph[t][j]>> \in ToSet(r) =>
      \E f \in Endings : Earlier(r, <<f, Graph[t][i]>>, <<e, Graph[t][j]>>)
Orderly(s, r) ==
  IsInjective(r) /\ EndsOnce(r) /\ EndsAfterStart(r) /\ Inside(s, r) /\ InLayers(r)

\* What the report of s says is what has happened to its nodes.
Tally(s) ==
  /\ \A n \in Nodes(s) : <<"started", n>> \in ToSet(said[s]) <=> node[n] # "idle"
  /\ \A n \in Nodes(s), e \in Endings :
       <<e, n>> \in ToSet(said[s]) <=> n \in Through(s) /\ e = Outcome(n)
  /\ \A m \in Node, k \in Sign : <<k, m>> \in ToSet(said[s]) =>
       \E n \in Nodes(s) : m \in Span(n) /\ (m = n \/ n \in Through(s))
  /\ \A m \in Node : <<"started", m>> \in ToSet(said[s]) =>
       \/ \E e \in Endings : <<e, m>> \in ToSet(said[s])
       \/ frame[s].phase = "wait" /\ m \in Members(s)
  /\ frame[s].phase = "off" => said[s] = <<>>

\* u has its elements in the order of g.
InOrder(u, g) ==
  \A a, b \in DOMAIN u, i, j \in DOMAIN g : u[a] = g[i] /\ u[b] = g[j] /\ a < b => i < j

\* The nodes of a layer begin in the order of the manifest.
Lined(s) ==
  /\ IsInjective(frame[s].batch) /\ InOrder(frame[s].batch, Graph[s])
  /\ \A i, j \in DOMAIN Graph[s] : i < j /\ Rank[Graph[s][i]] = Rank[Graph[s][j]] =>
       /\ node[Graph[s][j]] # "idle" => node[Graph[s][i]] # "idle"
       /\ Graph[s][j] \in Members(s) => node[Graph[s][i]] # "idle" \/ Graph[s][i] \in Members(s)

Story == \A s \in Skill : Orderly(s, said[s]) /\ Tally(s) /\ Lined(s)

-----------------------------------------------------------------------------
(* The tree of the skills.                                                 *)

\* Below s is what closes over the calls, and nothing more.
LEMMA UnderFacts ==
  ASSUME NEW s \in Skill
  PROVE  /\ s \in Under(s) /\ Under(s) \in SUBSET Skill /\ Closes(Under(s))
         /\ \A S \in SUBSET Skill : s \in S /\ Closes(S) => Under(s) \subseteq S
         /\ \A t \in Under(s) : t = s \/
              \E u \in Under(s) : \E n \in Nodes(u) : Kind[n] = "skill" /\ Child[n] = t
<1>1. s \in Under(s) /\ Under(s) \in SUBSET Skill
      /\ \A S \in SUBSET Skill : s \in S /\ Closes(S) => Under(s) \subseteq S
  BY DEF Under
<1>2. Closes(Under(s))
  <2>. SUFFICES ASSUME NEW t \in Under(s), NEW n \in Nodes(t), Kind[n] = "skill"
                PROVE  Child[n] \in Under(s)
    BY DEF Closes
  <2>1. Child[n] \in Skill  BY <1>1, PlanShape
  <2>2. ASSUME NEW S \in SUBSET Skill, s \in S, Closes(S) PROVE Child[n] \in S
    <3>1. t \in S  BY <1>1, <2>2
    <3>. QED  BY <2>2, <3>1 DEF Closes
  <2>. QED  BY <2>1, <2>2 DEF Under
<1>3. ASSUME NEW t \in Under(s), t # s,
             ~ \E u \in Under(s) : \E n \in Nodes(u) : Kind[n] = "skill" /\ Child[n] = t
      PROVE  FALSE
  <2>. DEFINE S == Under(s) \ {t}
  <2>1. S \in SUBSET Skill /\ s \in S  BY <1>1, <1>3
  <2>2. Closes(S)  BY <1>2, <1>3 DEF Closes
  <2>3. Under(s) \subseteq S
    <3>. HIDE DEF S
    <3>. QED  BY <1>1, <2>1, <2>2
  <2>. QED  BY <2>3
<1>. QED  BY <1>1, <1>2, <1>3

\* A skill is not below what it calls.
LEMMA UnderNested ==
  ASSUME NEW s \in Skill, NEW n \in Nodes(s), Kind[n] = "skill"
  PROVE  /\ Child[n] \in Skill /\ Under(Child[n]) \subseteq Under(s)
         /\ s \notin Under(Child[n])
<1>1. n \in Node /\ Child[n] \in Skill  BY PlanShape
<1>. DEFINE c == Child[n]
<1>2. PICK U \in SUBSET Skill : U = Under(c)  BY <1>1, UnderFacts
<1>3. /\ c \in U /\ Closes(U)
      /\ \A t \in U : t = c \/ \E u \in U : \E m \in Nodes(u) : Kind[m] = "skill" /\ Child[m] = t
  BY <1>1, <1>2, UnderFacts
<1>4. U \subseteq Under(s)
  <2>1. c \in Under(s)  BY UnderFacts DEF Closes
  <2>. QED  BY <1>1, <1>2, <2>1, UnderFacts
<1>5. ASSUME s \in U PROVE FALSE
  <2>1. PICK z \in U : \A t \in U : \A m \in Nodes(t) : Kind[m] = "skill" => Child[m] # z
    BY <1>3, ShapeAssumption DEF Nodes
  <2>2. z = c  BY <1>3, <2>1
  <2>. QED  BY <1>5, <2>1, <2>2
<1>. QED  BY <1>1, <1>2, <1>4, <1>5

\* A node belongs to one skill.
LEMMA OneHome ==
  ASSUME NEW s \in Skill, NEW t \in Skill, NEW n \in Nodes(s), n \in Nodes(t)
  PROVE  s = t
BY ShapeAssumption DEF Nodes

\* What two nodes of a skill call has nothing in common.
LEMMA UnderApart ==
  ASSUME NEW s \in Skill, NEW m \in Nodes(s), NEW n \in Nodes(s), m # n,
         Kind[m] = "skill", Kind[n] = "skill"
  PROVE  Under(Child[m]) \cap Under(Child[n]) = {}
<1>1. m \in Node /\ n \in Node /\ Child[m] \in Skill /\ Child[n] \in Skill  BY PlanShape
<1>2. PICK c \in Skill, d \in Skill : c = Child[m] /\ d = Child[n]  BY <1>1
<1>3. c # d  BY <1>1, <1>2, ShapeAssumption
<1>4. PICK C \in SUBSET Skill, D \in SUBSET Skill : C = Under(c) /\ D = Under(d)
  BY UnderFacts
<1>5. s \notin C /\ s \notin D  BY <1>2, <1>4, UnderNested
<1>. DEFINE X == C \cap D
<1>6. ASSUME X # {} PROVE FALSE
  <2>1. PICK z \in X : \A t \in X : \A k \in Nodes(t) : Kind[k] = "skill" => Child[k] # z
    BY <1>6, ShapeAssumption, ZenonT(30) DEF Nodes
  <2>2. z = c \/ \E u \in C : \E k \in Nodes(u) : Kind[k] = "skill" /\ Child[k] = z
    BY <1>4, <2>1, UnderFacts
  <2>3. z = d \/ \E u \in D : \E k \in Nodes(u) : Kind[k] = "skill" /\ Child[k] = z
    BY <1>4, <2>1, UnderFacts
  <2>4. \A u, v \in Skill : \A k \in Nodes(u), l \in Nodes(v) :
          Kind[k] = "skill" /\ Kind[l] = "skill" /\ Child[k] = Child[l] => k = l /\ u = v
    <3>. SUFFICES ASSUME NEW u \in Skill, NEW v \in Skill, NEW k \in Nodes(u), NEW l \in Nodes(v),
                         Kind[k] = "skill", Kind[l] = "skill", Child[k] = Child[l]
                  PROVE  k = l /\ u = v
      OBVIOUS
    <3>1. k \in Node /\ l \in Node  BY PlanShape
    <3>2. k = l  BY <3>1, ShapeAssumption
    <3>. QED  BY <3>2, OneHome
  <2>5. CASE z = c
    <3>1. PICK u \in D : \E k \in Nodes(u) : Kind[k] = "skill" /\ Child[k] = z
      BY <1>3, <2>3, <2>5
    <3>2. u = s  BY <1>2, <2>4, <2>5, <3>1
    <3>. QED  BY <1>5, <3>2
  <2>6. CASE z = d
    <3>1. PICK u \in C : \E k \in Nodes(u) : Kind[k] = "skill" /\ Child[k] = z
      BY <1>3, <2>2, <2>6
    <3>2. u = s  BY <1>2, <2>4, <2>6, <3>1
    <3>. QED  BY <1>5, <3>2
  <2>7. CASE z # c /\ z # d
    <3>1. PICK u \in C : \E k \in Nodes(u) : Kind[k] = "skill" /\ Child[k] = z  BY <2>2, <2>7
    <3>2. PICK v \in D : \E k \in Nodes(v) : Kind[k] = "skill" /\ Child[k] = z  BY <2>3, <2>7
    <3>3. u = v  BY <2>4, <3>1, <3>2
    <3>. QED  BY <2>1, <3>1, <3>3
  <2>. QED  BY <2>5, <2>6, <2>7
<1>. QED  BY <1>2, <1>4, <1>6

\* What runs inside two nodes of a skill has nothing in common, and what runs
\* inside a node of a called skill runs inside the node that calls it.
LEMMA SpanFacts ==
  ASSUME NEW s \in Skill, NEW n \in Nodes(s)
  PROVE  /\ n \in Span(n) /\ Span(n) \subseteq Node
         /\ \A m \in Nodes(s) : m \in Span(n) => m = n
         /\ \A m \in Nodes(s) : m # n => Span(m) \cap Span(n) = {}
         /\ Kind[n] = "skill" => \A k \in Nodes(Child[n]) :
              Span(k) \subseteq Span(n) /\ Span(k) \cap Nodes(s) = {}
<1>. DEFINE Inner(m) == IF Kind[m] = "skill" THEN UNION {Nodes(t) : t \in Under(Child[m])} ELSE {}
<1>1. ASSUME NEW m \in Nodes(s) PROVE Inner(m) \cap Nodes(s) = {} /\ Inner(m) \subseteq Node
  <2>1. CASE Kind[m] # "skill"  BY <2>1
  <2>2. CASE Kind[m] = "skill"
    <3>1. Under(Child[m]) \in SUBSET Skill /\ s \notin Under(Child[m])
      BY <2>2, UnderNested, UnderFacts
    <3>2. \A t \in Under(Child[m]) : Nodes(t) \cap Nodes(s) = {} /\ Nodes(t) \subseteq Node
      BY <3>1, OneHome, PlanShape
    <3>. QED  BY <2>2, <3>2
  <2>. QED  BY <2>1, <2>2
<1>2. ASSUME NEW m \in Nodes(s), m # n PROVE Inner(m) \cap Inner(n) = {}
  <2>1. CASE Kind[m] # "skill" \/ Kind[n] # "skill"  BY <2>1
  <2>2. CASE Kind[m] = "skill" /\ Kind[n] = "skill"
    <3>1. Under(Child[m]) \in SUBSET Skill /\ Under(Child[n]) \in SUBSET Skill
      BY <2>2, UnderNested, UnderFacts
    <3>2. Under(Child[m]) \cap Under(Child[n]) = {}  BY <1>2, <2>2, UnderApart
    <3>3. \A t \in Under(Child[m]), u \in Under(Child[n]) : Nodes(t) \cap Nodes(u) = {}
      BY <3>1, <3>2, OneHome
    <3>. QED  BY <2>2, <3>3
  <2>. QED  BY <2>1, <2>2
<1>3. \A m \in Nodes(s) : Span(m) = {m} \cup Inner(m)  BY DEF Span
<1>4. Nodes(s) \subseteq Node  BY PlanShape
<1>5. ASSUME Kind[n] = "skill", NEW k \in Nodes(Child[n])
      PROVE  Span(k) \subseteq Span(n) /\ Span(k) \cap Nodes(s) = {}
  <2>1. Child[n] \in Skill /\ Child[n] \in Under(Child[n])  BY <1>5, UnderNested, UnderFacts
  <2>2. Kind[k] = "skill" => Under(Child[k]) \subseteq Under(Child[n])
    BY <1>5, <2>1, UnderNested
  <2>3. k \in Inner(n)  BY <1>5, <2>1
  <2>4. Inner(k) \subseteq Inner(n)  BY <1>5, <2>2
  <2>5. Span(k) = {k} \cup Inner(k)  BY DEF Span
  <2>. HIDE DEF Inner
  <2>. QED  BY <1>1, <1>3, <2>3, <2>4, <2>5
<1>. HIDE DEF Inner
<1>. QED  BY <1>1, <1>2, <1>3, <1>4, <1>5

-----------------------------------------------------------------------------
(* The order of the manifest.                                              *)

\* What is kept of a sequence stays in its order.
LEMMA KeepInOrder ==
  ASSUME NEW T, NEW g \in Seq(T), NEW S, IsInjective(g)
  PROVE  InOrder(Keep(g, S), g)
<1>1. PICK t \in Seq(T) : t = Keep(g, S)  BY KeepEmbeds
<1>2. PICK f : Embeds(f, t, g, Len(g), S)  BY <1>1, KeepEmbeds
<1>3. /\ DOMAIN t = 1..Len(t) /\ DOMAIN g = 1..Len(g)
      /\ f \in [1..Len(t) -> 1..Len(g)]
      /\ \A a, b \in 1..Len(t) : a < b => f[a] < f[b]
      /\ \A a \in 1..Len(t) : t[a] = g[f[a]]
  BY <1>2 DEF Embeds
<1>4. ASSUME NEW a \in 1..Len(t), NEW i \in 1..Len(g), t[a] = g[i] PROVE f[a] = i
  BY <1>3, <1>4, SMTT(30) DEF IsInjective
<1>5. InOrder(t, g)  BY <1>3, <1>4 DEF InOrder
<1>. QED  BY <1>1, <1>5

\* A batch has nodes of a layer in the order of the manifest, the first that
\* have not begun.
LEMMA BatchInOrder ==
  ASSUME NEW s \in Skill
  PROVE  /\ IsInjective(Batch(s)) /\ InOrder(Batch(s), Graph[s])
         /\ \A i, j \in DOMAIN Graph[s] :
              i < j /\ Rank[Graph[s][i]] = Rank[Graph[s][j]] /\ node[Graph[s][i]] = "idle"
                /\ Graph[s][j] \in ToSet(Batch(s)) => Graph[s][i] \in ToSet(Batch(s))
<1>1. PICK g \in Seq(Node) : g = Graph[s]  BY PlanShape
<1>2. IsInjective(g) /\ Nodes(s) = ToSet(g) /\ Width(s) \in Nat
  BY <1>1, ShapeAssumption, PlanShape DEF Nodes
<1>3. PICK I : I = {n \in Node : node[n] = "idle"}  OBVIOUS
<1>4. PICK idle \in Seq(Node) : idle = Keep(g, I)  BY KeepInS
<1>5. idle = Idle(s)  BY <1>1, <1>3, <1>4 DEF Idle
<1>6. IsInjective(idle) /\ ToSet(idle) = ToSet(g) \cap I /\ InOrder(idle, g)
  BY <1>2, <1>4, KeepInS, KeepInjective, KeepInOrder
<1>7. PICK S : S = {n \in Node : Rank[n] = Min({Rank[m] : m \in ToSet(idle)})}  OBVIOUS
<1>8. PICK layer \in Seq(Node) : layer = Keep(idle, S)  BY KeepInS
<1>9. IsInjective(layer) /\ ToSet(layer) = ToSet(idle) \cap S /\ InOrder(layer, idle)
  BY <1>6, <1>8, KeepInS, KeepInjective, KeepInOrder
<1>10. InOrder(layer, g)
  <2>. SUFFICES ASSUME NEW a \in DOMAIN layer, NEW b \in DOMAIN layer,
                       NEW i \in DOMAIN g, NEW j \in DOMAIN g,
                       layer[a] = g[i], layer[b] = g[j], a < b
                PROVE  i < j
    BY DEF InOrder
  <2>1. layer[a] \in ToSet(idle) /\ layer[b] \in ToSet(idle)  BY <1>9 DEF ToSet
  <2>2. PICK x \in DOMAIN idle : idle[x] = layer[a]  BY <2>1 DEF ToSet
  <2>3. PICK y \in DOMAIN idle : idle[y] = layer[b]  BY <2>1 DEF ToSet
  <2>4. x < y  BY <1>9, <2>2, <2>3 DEF InOrder
  <2>. QED  BY <1>6, <2>2, <2>3, <2>4 DEF InOrder
<1>11. Batch(s) = IF Len(layer) > Width(s) THEN SubSeq(layer, 1, Width(s)) ELSE layer
  BY <1>5, <1>7, <1>8 DEF Batch
<1>12. PICK k \in Nat, u \in Seq(Node) :
         /\ u = Batch(s) /\ Len(u) = k /\ k <= Len(layer)
         /\ \A a \in 1..k : u[a] = layer[a]
  <2>1. CASE Len(layer) > Width(s)
    <3>1. /\ SubSeq(layer, 1, Width(s)) \in Seq(Node) /\ Len(SubSeq(layer, 1, Width(s))) = Width(s)
          /\ \A a \in 1..Width(s) : SubSeq(layer, 1, Width(s))[a] = layer[a]
      BY <1>2, <2>1
    <3>2. PICK v \in Seq(Node) : v = SubSeq(layer, 1, Width(s))  BY <3>1
    <3>3. Width(s) <= Len(layer) /\ v = Batch(s)  BY <1>2, <1>11, <2>1, <3>2
    <3>. QED  BY <1>2, <3>1, <3>2, <3>3
  <2>2. CASE ~(Len(layer) > Width(s))  BY <1>11, <2>2
  <2>. QED  BY <2>1, <2>2
<1>13. DOMAIN u = 1..k /\ DOMAIN layer = 1..Len(layer) /\ 1..k \subseteq 1..Len(layer)  BY <1>12
<1>14. IsInjective(u)  BY <1>9, <1>12, <1>13 DEF IsInjective
<1>15. InOrder(u, g)  BY <1>10, <1>12, <1>13 DEF InOrder
<1>16. ASSUME NEW i \in DOMAIN g, NEW j \in DOMAIN g, i < j, Rank[g[i]] = Rank[g[j]],
              node[g[i]] = "idle", g[j] \in ToSet(u)
       PROVE  g[i] \in ToSet(u)
  <2>1. PICK b \in 1..k : u[b] = g[j]  BY <1>13, <1>16 DEF ToSet
  <2>2. g[j] \in ToSet(layer)  BY <1>12, <1>13, <2>1 DEF ToSet
  <2>3. g[i] \in Node /\ g[i] \in ToSet(g) /\ g[i] \in I
    BY <1>3, <1>16 DEF ToSet
  <2>4. g[i] \in S  BY <1>7, <1>9, <1>16, <2>2, <2>3
  <2>5. PICK a \in 1..Len(layer) : layer[a] = g[i]
    BY <1>6, <1>9, <1>13, <2>3, <2>4 DEF ToSet
  <2>6. a < b
    <3>1. layer[b] = g[j] /\ b \in 1..Len(layer)  BY <1>12, <1>13, <2>1
    <3>2. a # b  BY <1>2, <1>16, <2>5, <3>1 DEF IsInjective
    <3>3. b < a => j < i
      <4>1. a \in DOMAIN layer /\ b \in DOMAIN layer  BY <1>13, <2>5, <3>1
      <4>. QED  BY <1>10, <1>16, <2>5, <3>1, <4>1 DEF InOrder
    <3>4. i \in Nat /\ j \in Nat /\ a \in Nat /\ b \in Nat  BY <1>1, <2>5, <2>1
    <3>. QED  BY <1>16, <3>2, <3>3, <3>4
  <2>7. a \in 1..k /\ u[a] = g[i]  BY <1>12, <2>1, <2>5, <2>6
  <2>. QED  BY <1>13, <2>7 DEF ToSet
<1>. QED  BY <1>1, <1>12, <1>14, <1>15, <1>16

-----------------------------------------------------------------------------
(* What a node reports.                                                    *)

EndOf(n) == <<Outcome(n), n>>

\* What a node of s reports: everything that happened inside it, in order, and
\* then how it ended.
Piece(s, n, p) ==
  /\ p \in Seq(EventType) /\ IsInjective(p) /\ EndOf(n) \in ToSet(p)
  /\ \A m \in Node, k \in Sign : <<k, m>> \in ToSet(p) /\ <<k, m>> # EndOf(n) =>
       m \in Span(n) /\ m \notin Nodes(s) /\ Earlier(p, <<k, m>>, EndOf(n))
  /\ EndsOnce(p)
  /\ \A m \in Node, e \in Endings : <<e, m>> \in ToSet(p) /\ m # n =>
       Earlier(p, <<"started", m>>, <<e, m>>)
  /\ \A m \in Node : <<"started", m>> \in ToSet(p) => \E e \in Endings : <<e, m>> \in ToSet(p)
  /\ \A h \in Node : Kind[h] = "skill" /\ h # n /\ Child[h] # s =>
       \A m \in Nodes(Child[h]), k \in Sign : <<k, m>> \in ToSet(p) =>
         /\ Earlier(p, <<"started", h>>, <<k, m>>)
         /\ \E e \in Endings : Earlier(p, <<k, m>>, <<e, h>>)
  /\ \A t \in Skill \ {s} : \A i, j \in DOMAIN Graph[t] : \A e \in Endings :
       i < j /\ Rank[Graph[t][i]] = Rank[Graph[t][j]] /\ <<e, Graph[t][j]>> \in ToSet(p) =>
         \E f \in Endings : Earlier(p, <<f, Graph[t][i]>>, <<e, Graph[t][j]>>)

\* Events and their parts.
LEMMA Events ==
  /\ \A x \in EventType : \E k \in Sign, m \in Node : x = <<k, m>>
  /\ \A k \in Sign, m \in Node : <<k, m>> \in EventType
  /\ Endings \subseteq Sign /\ "started" \in Sign /\ "started" \notin Endings
  /\ \A n \in Node : Outcome(n) \in Endings
BY DEF EventType, Sign, Endings, Outcome

\* A node without a skill reports how it ended.
LEMMA PlainPiece ==
  ASSUME NEW s \in Skill, NEW n \in Nodes(s), Kind[n] # "skill"
  PROVE  Piece(s, n, Report(n))
<1>. DEFINE p == <<EndOf(n)>>
<1>1. n \in Node  BY PlanShape
<1>2. EndOf(n) \in EventType  BY <1>1, Events DEF EndOf
<1>3. p \in Seq(EventType) /\ ToSet(p) = {EndOf(n)} /\ IsInjective(p)  BY <1>2, Single
<1>4. Report(n) = p
  <2>1. <<>> \o p = p  BY <1>3
  <2>2. Report(n) = <<>> \o p  BY DEF Report, EndOf, Outcome
  <2>. QED  BY <2>1, <2>2
<1>. HIDE DEF p
<1>5. \A k, m : <<k, m>> \in ToSet(p) => m = n /\ k = Outcome(n)  BY <1>3 DEF EndOf
<1>6. EndsOnce(p)  BY <1>5 DEF EndsOnce
<1>7. ASSUME NEW t \in Skill \ {s}, NEW j \in DOMAIN Graph[t], NEW e
      PROVE  <<e, Graph[t][j]>> \notin ToSet(p)
  <2>1. Graph[t][j] \in Nodes(t)  BY DEF Nodes, ToSet
  <2>2. n \notin Nodes(t)  BY OneHome
  <2>. QED  BY <1>5, <2>1, <2>2
<1>8. ASSUME NEW h \in Node, Kind[h] = "skill", Child[h] # s, NEW m \in Nodes(Child[h]), NEW k
      PROVE  <<k, m>> \notin ToSet(p)
  <2>1. Child[h] \in Skill  BY <1>8, PlanShape
  <2>2. n \notin Nodes(Child[h])  BY <1>8, <2>1, OneHome
  <2>. QED  BY <1>5, <1>8, <2>2
<1>9. \A m \in Node : <<"started", m>> \notin ToSet(p)  BY <1>1, <1>5, Events
<1>10. \A m \in Node, k \in Sign : <<k, m>> \in ToSet(p) => <<k, m>> = EndOf(n)  BY <1>5 DEF EndOf
<1>. QED  BY <1>3, <1>4, <1>5, <1>6, <1>7, <1>8, <1>9, <1>10 DEF Piece

\* The frame of a skill whose node is done is not in use.
LEMMA SkillIsDone ==
  ASSUME IInv, NEW n \in Node, Kind[n] = "skill", node[n] \in Settled
  PROVE  frame[Child[n]].phase \in {"off", "ended"}
<1>1. Child[n] \in Skill \ {Root} /\ Nested  BY PlanShape DEF IInv
<1>2. ASSUME frame[Child[n]].phase \notin {"off", "ended"} PROVE FALSE
  <2>1. PICK m \in Node : Kind[m] = "skill" /\ Child[m] = Child[n] /\ node[m] = "running"
    BY <1>1, <1>2 DEF Nested
  <2>2. m = n  BY <2>1, ShapeAssumption
  <2>. QED  BY <2>1, <2>2 DEF Settled
<1>. QED  BY <1>2

\* A node that calls a skill reports what the skill does, and then how it ended.
LEMMA SkillPiece ==
  ASSUME IInv, Story, NEW s \in Skill, NEW n \in Nodes(s), Kind[n] = "skill", node[n] \in Settled
  PROVE  Piece(s, n, Report(n))
<1>1. n \in Node /\ Child[n] \in Skill  BY PlanShape
<1>2. PICK c \in Skill : c = Child[n]  BY <1>1
<1>3. said[c] \in Seq(EventType)  BY DEF IInv, TypeOK, EventType
<1>4. PICK q \in Seq(EventType) : q = said[c]  BY <1>3
<1>5. PICK l \in EventType : l = EndOf(n)  BY <1>1, Events DEF EndOf
<1>6. PICK p : p = q \o <<l>>  OBVIOUS
<1>7. <<l>> \in Seq(EventType) /\ ToSet(<<l>>) = {l} /\ IsInjective(<<l>>)  BY <1>5, Single
<1>8. PICK v \in Seq(EventType) : v = <<l>>  BY <1>7
<1>9. p = q \o v /\ ToSet(v) = {l} /\ IsInjective(v)  BY <1>6, <1>7, <1>8
<1>10. p = Report(n)
  BY <1>2, <1>4, <1>5, <1>6 DEF Report, EndOf, Outcome
<1>11. /\ p \in Seq(EventType) /\ ToSet(p) = ToSet(q) \cup {l}
       /\ \A x, y : Earlier(q, x, y) => Earlier(p, x, y)
       /\ \A x \in ToSet(q) : Earlier(p, x, l)
       /\ IsInjective(q) /\ l \notin ToSet(q) => IsInjective(p)
  BY <1>9, Joins
<1>12. Orderly(c, q) /\ Tally(c)  BY <1>4 DEF Story
<1>13. frame[c].phase # "wait"  BY <1>1, <1>2, SkillIsDone
<1>14. ASSUME NEW m \in Node, NEW k \in Sign, <<k, m>> \in ToSet(q)
       PROVE  m \in Span(n) /\ m \notin Nodes(s)
  <2>1. PICK h \in Nodes(c) : m \in Span(h)  BY <1>4, <1>12, <1>14 DEF Tally
  <2>2. Span(h) \subseteq Span(n) /\ Span(h) \cap Nodes(s) = {}  BY <1>2, <2>1, SpanFacts
  <2>. QED  BY <2>1, <2>2
<1>15. \A m \in Node : <<"started", m>> \in ToSet(q) => \E e \in Endings : <<e, m>> \in ToSet(q)
  BY <1>4, <1>12, <1>13 DEF Tally
<1>16. l \notin ToSet(q)
  <2>1. Outcome(n) \in Sign  BY <1>1, Events
  <2>. QED  BY <1>1, <1>5, <1>14, <2>1 DEF EndOf
<1>17. IsInjective(q) /\ EndsOnce(q) /\ EndsAfterStart(q) /\ Inside(c, q) /\ InLayers(q)
  BY <1>12 DEF Orderly
<1>18. l = <<Outcome(n), n>> /\ Outcome(n) \in Endings  BY <1>1, <1>5, Events DEF EndOf
<1>19. EndsOnce(p)
  <2>1. ASSUME NEW m \in Node, <<"completed", m>> \in ToSet(p), <<"failed", m>> \in ToSet(p)
        PROVE  FALSE
    <3>1. CASE m = n
      <4>1. \A k \in Sign : <<k, m>> \notin ToSet(q)  BY <1>1, <1>14, <3>1
      <4>2. "completed" \in Sign /\ "failed" \in Sign  BY DEF Sign, Endings
      <4>3. <<"completed", m>> = l /\ <<"failed", m>> = l  BY <1>11, <2>1, <4>1, <4>2
      <4>. QED  BY <1>18, <4>3
    <3>2. CASE m # n
      <4>1. <<"completed", m>> # l /\ <<"failed", m>> # l  BY <1>18, <3>2
      <4>. QED  BY <1>11, <1>17, <2>1, <4>1 DEF EndsOnce
    <3>. QED  BY <3>1, <3>2
  <2>. QED  BY <2>1 DEF EndsOnce
<1>20. \A k, m : <<k, m>> \in ToSet(p) /\ m # n => <<k, m>> \in ToSet(q)
  <2>1. \A k, m : m # n => <<k, m>> # l  BY <1>18
  <2>. QED  BY <1>11, <2>1
<1>21. \A m \in Node, e \in Endings : <<e, m>> \in ToSet(p) /\ m # n =>
         Earlier(p, <<"started", m>>, <<e, m>>)
  BY <1>11, <1>17, <1>20 DEF EndsAfterStart
<1>22. \A m \in Node : <<"started", m>> \in ToSet(p) => \E e \in Endings : <<e, m>> \in ToSet(p)
  <2>1. \A m \in Node : <<"started", m>> # l  BY <1>18, Events
  <2>. QED  BY <1>11, <1>15, <2>1
<1>23. ASSUME NEW h \in Node, Kind[h] = "skill", h # n, Child[h] # s,
              NEW m \in Nodes(Child[h]), NEW k \in Sign, <<k, m>> \in ToSet(p)
       PROVE  /\ Earlier(p, <<"started", h>>, <<k, m>>)
              /\ \E e \in Endings : Earlier(p, <<k, m>>, <<e, h>>)
  <2>1. Child[h] \in Skill /\ m \in Node  BY <1>23, PlanShape
  <2>2. Child[h] # c  BY <1>1, <1>2, <1>23, ShapeAssumption
  <2>3. m # n  BY <1>23, <2>1, OneHome
  <2>4. <<k, m>> \in ToSet(q)  BY <1>20, <1>23, <2>3
  <2>5. /\ Earlier(q, <<"started", h>>, <<k, m>>)
        /\ \E e \in Endings : Earlier(q, <<k, m>>, <<e, h>>)
    BY <1>17, <1>23, <2>2, <2>4 DEF Inside
  <2>. QED  BY <1>11, <2>5
<1>24. ASSUME NEW t \in Skill \ {s}, NEW i \in DOMAIN Graph[t], NEW j \in DOMAIN Graph[t],
              NEW e \in Endings, i < j, Rank[Graph[t][i]] = Rank[Graph[t][j]],
              <<e, Graph[t][j]>> \in ToSet(p)
       PROVE  \E f \in Endings : Earlier(p, <<f, Graph[t][i]>>, <<e, Graph[t][j]>>)
  <2>1. Graph[t][j] \in Nodes(t)  BY DEF Nodes, ToSet
  <2>2. Graph[t][j] # n  BY <2>1, OneHome
  <2>3. <<e, Graph[t][j]>> \in ToSet(q)  BY <1>20, <1>24, <2>2
  <2>4. \E f \in Endings : Earlier(q, <<f, Graph[t][i]>>, <<e, Graph[t][j]>>)
    BY <1>17, <1>24, <2>3 DEF InLayers
  <2>. QED  BY <1>11, <2>4
<1>25. \A m \in Node, k \in Sign : <<k, m>> \in ToSet(p) /\ <<k, m>> # EndOf(n) =>
         m \in Span(n) /\ m \notin Nodes(s) /\ Earlier(p, <<k, m>>, EndOf(n))
  BY <1>5, <1>11, <1>14
<1>26. p \in Seq(EventType) /\ IsInjective(p) /\ EndOf(n) \in ToSet(p)
  BY <1>5, <1>11, <1>16, <1>17
<1>. QED  BY <1>10, <1>19, <1>21, <1>22, <1>23, <1>24, <1>25, <1>26 DEF Piece

\* What a frame knows of the reports of its batch: each is a piece, and they
\* come one after another.
LEMMA Pieces ==
  ASSUME IInv, Story, NEW s \in Skill, \A n \in Members(s) : node[n] \in Settled
  PROVE  \E b \in Seq(Node), ss \in Seq(Seq(EventType)), F \in Seq(EventType) :
           /\ b = frame[s].batch /\ F = Reports(b)
           /\ Len(ss) = Len(b) /\ IsInjective(b)
           /\ \A i \in 1..Len(b) : b[i] \in Members(s) /\ b[i] \in Nodes(s) /\ Piece(s, b[i], ss[i])
           /\ Collects(F, ss, Len(b))
<1>1. frame[s].batch \in Seq(Node) /\ FrameOk(s)  BY FrameType DEF IInv, Frames
<1>2. PICK b \in Seq(Node) : b = frame[s].batch  BY <1>1
<1>3. \A i \in 1..Len(b) : b[i] \in Members(s) /\ b[i] \in Nodes(s)
  BY <1>1, <1>2, ToSetOfSeq DEF Members, FrameOk
<1>4. ASSUME NEW i \in 1..Len(b) PROVE Piece(s, b[i], Report(b[i]))
  BY <1>3, PlainPiece, SkillPiece
<1>5. \A i \in 1..Len(b) : Report(b[i]) \in Seq(EventType)  BY <1>4 DEF Piece
<1>6. PICK ss : ss = [i \in DOMAIN b |-> Report(b[i])]  OBVIOUS
<1>7. DOMAIN b = 1..Len(b) /\ Len(b) \in Nat  BY <1>2
<1>8. ss \in Seq(Seq(EventType)) /\ Len(ss) = Len(b)
  <2>1. PICK Q : Q = Seq(EventType)  OBVIOUS
  <2>2. ss \in [1..Len(b) -> Q]  BY <1>5, <1>6, <1>7, <2>1
  <2>. QED  BY <1>7, <2>1, <2>2
<1>9. PICK F \in Seq(EventType) : F = FlattenSeq(ss)  BY <1>8, FlattenCollects
<1>10. Collects(F, ss, Len(b))  BY <1>8, <1>9, FlattenCollects
<1>11. F = Reports(b)  BY <1>6, <1>9 DEF Reports
<1>12. IsInjective(b)  BY <1>2 DEF Story, Lined
<1>13. \A i \in 1..Len(b) : Piece(s, b[i], ss[i])  BY <1>4, <1>6, <1>7
<1>. QED  BY <1>2, <1>3, <1>8, <1>10, <1>11, <1>12, <1>13

\* What a report of s says when the nodes T have ended: what has begun has.
Accounts(s, r, T) ==
  /\ \A n \in Nodes(s) : <<"started", n>> \in ToSet(r) <=> node[n] # "idle"
  /\ \A n \in Nodes(s), e \in Endings : <<e, n>> \in ToSet(r) <=> n \in T /\ e = Outcome(n)
  /\ \A m \in Node, k \in Sign : <<k, m>> \in ToSet(r) =>
       \E n \in Nodes(s) : m \in Span(n) /\ (m = n \/ n \in T)
  /\ \A m \in Node : <<"started", m>> \in ToSet(r) => \E e \in Endings : <<e, m>> \in ToSet(r)

\* A report with the pieces of the batch added is in order, and says what has
\* happened to the nodes of the batch as well.
LEMMA MergedReport ==
  ASSUME IInv, Story, NEW s \in Skill, frame[s].phase = "wait",
         \A n \in Members(s) : node[n] \in Settled,
         NEW R, R = said[s] \o Reports(frame[s].batch)
  PROVE  Orderly(s, R) /\ Accounts(s, R, Through(s) \cup Members(s))
<1>1. said[s] \in Seq(EventType)  BY DEF IInv, TypeOK, EventType
<1>2. PICK r \in Seq(EventType) : r = said[s]  BY <1>1
<1>3. PICK b \in Seq(Node), ss \in Seq(Seq(EventType)), F \in Seq(EventType) :
           /\ b = frame[s].batch /\ F = Reports(b)
           /\ Len(ss) = Len(b) /\ IsInjective(b)
           /\ \A i \in 1..Len(b) : b[i] \in Members(s) /\ b[i] \in Nodes(s) /\ Piece(s, b[i], ss[i])
           /\ Collects(F, ss, Len(b))
  <2>1. \E b \in Seq(Node), ss \in Seq(Seq(EventType)), F \in Seq(EventType) :
           /\ b = frame[s].batch /\ F = Reports(b)
           /\ Len(ss) = Len(b) /\ IsInjective(b)
           /\ \A i \in 1..Len(b) : b[i] \in Members(s) /\ b[i] \in Nodes(s) /\ Piece(s, b[i], ss[i])
           /\ Collects(F, ss, Len(b))
    BY Pieces
  <2>. QED  BY <2>1
<1>. DEFINE D == 1..Len(b)
<1>4. R = r \o F  BY <1>2, <1>3
<1>5. /\ R \in Seq(EventType) /\ ToSet(R) = ToSet(r) \cup ToSet(F)
      /\ \A x, y : Earlier(r, x, y) \/ Earlier(F, x, y) => Earlier(R, x, y)
      /\ \A x \in ToSet(r), y \in ToSet(F) : Earlier(R, x, y)
      /\ IsInjective(r) /\ IsInjective(F) /\ ToSet(r) \cap ToSet(F) = {} => IsInjective(R)
  BY <1>4, Joins
<1>6. /\ ToSet(F) = UNION {ToSet(ss[i]) : i \in D}
      /\ \A i \in D : \A x, y : Earlier(ss[i], x, y) => Earlier(R, x, y)
      /\ \A i, j \in D : i < j => \A x \in ToSet(ss[i]), y \in ToSet(ss[j]) : Earlier(R, x, y)
      /\ (\A i, j \in D : IsInjective(ss[i]) /\ (i # j => ToSet(ss[i]) \cap ToSet(ss[j]) = {}))
           => IsInjective(F)
  BY <1>3, <1>5 DEF Collects
<1>7. Orderly(s, r) /\ Tally(s) /\ Lined(s)  BY <1>2 DEF Story
<1>8. /\ IsInjective(r) /\ EndsOnce(r) /\ EndsAfterStart(r) /\ Inside(s, r) /\ InLayers(r)
  BY <1>7 DEF Orderly
<1>9. /\ \A n \in Nodes(s) : <<"started", n>> \in ToSet(r) <=> node[n] # "idle"
      /\ \A n \in Nodes(s), e \in Endings : <<e, n>> \in ToSet(r) <=> n \in Through(s) /\ e = Outcome(n)
      /\ \A m \in Node, k \in Sign : <<k, m>> \in ToSet(r) =>
           \E n \in Nodes(s) : m \in Span(n) /\ (m = n \/ n \in Through(s))
      /\ \A m \in Node : <<"started", m>> \in ToSet(r) =>
           (\E e \in Endings : <<e, m>> \in ToSet(r)) \/ m \in Members(s)
  BY <1>2, <1>7 DEF Tally
<1>10. \A i \in D : /\ b[i] \in Members(s) /\ b[i] \in Nodes(s) /\ b[i] \in Node
                    /\ Piece(s, b[i], ss[i]) /\ ss[i] \in Seq(EventType)
  BY <1>3, PlanShape
<1>11. \A n \in Members(s) : n \in Nodes(s) /\ n \notin Through(s) /\ node[n] # "idle"
                            /\ \E i \in D : b[i] = n
  <2>1. \A n \in Members(s) : n \in Nodes(s) /\ node[n] # "idle"  BY DEF IInv, Frames, FrameOk, Settled
  <2>2. \A n \in Members(s) : n \notin Through(s)  BY DEF Through
  <2>3. \A n \in Members(s) : \E i \in D : b[i] = n  BY <1>3 DEF Members, ToSet
  <2>. QED  BY <2>1, <2>2, <2>3
<1>12. \A i, j \in D : i # j => b[i] # b[j]  BY <1>3 DEF IsInjective
\* An event of a piece is about something inside the node of the piece.
<1>13. ASSUME NEW i \in D, NEW m \in Node, NEW k \in Sign, <<k, m>> \in ToSet(ss[i])
       PROVE  m \in Span(b[i]) /\ (m \in Nodes(s) => <<k, m>> = EndOf(b[i]) /\ m = b[i] /\ k = Outcome(m))
  <2>1. CASE <<k, m>> = EndOf(b[i])
    <3>1. m = b[i] /\ k = Outcome(b[i])  BY <2>1 DEF EndOf
    <3>2. m \in Span(b[i])  BY <1>10, <3>1, SpanFacts
    <3>. QED  BY <2>1, <3>1, <3>2
  <2>2. CASE <<k, m>> # EndOf(b[i])  BY <1>10, <1>13, <2>2 DEF Piece
  <2>. QED  BY <2>1, <2>2
\* An event of the report so far that is about something inside such a node is
\* its start.
<1>14. ASSUME NEW i \in D, NEW m \in Node, NEW k \in Sign, <<k, m>> \in ToSet(r), m \in Span(b[i])
       PROVE  m = b[i] /\ k = "started"
  <2>1. PICK n \in Nodes(s) : m \in Span(n) /\ (m = n \/ n \in Through(s))  BY <1>9, <1>14
  <2>2. n = b[i]  BY <1>10, <1>14, <2>1, SpanFacts
  <2>3. n \notin Through(s)  BY <1>10, <1>11, <2>2
  <2>4. m = n  BY <2>1, <2>3
  <2>5. k \notin Endings  BY <1>9, <1>14, <2>3, <2>4
  <2>. QED  BY <2>2, <2>4, <2>5 DEF Sign
<1>15. ASSUME NEW i \in D, NEW j \in D, i # j PROVE Span(b[i]) \cap Span(b[j]) = {}
  BY <1>10, <1>12, <1>15, SpanFacts
<1>16. \A i, j \in D : IsInjective(ss[i]) /\ (i # j => ToSet(ss[i]) \cap ToSet(ss[j]) = {})
  <2>1. ASSUME NEW i \in D, NEW j \in D, i # j, NEW x \in ToSet(ss[i]), x \in ToSet(ss[j])
        PROVE  FALSE
    <3>1. x \in EventType  BY <1>10, ToSetOfSeq
    <3>2. PICK k \in Sign, m \in Node : x = <<k, m>>  BY <3>1, Events
    <3>3. m \in Span(b[i]) /\ m \in Span(b[j])  BY <1>13, <2>1, <3>2
    <3>. QED  BY <1>15, <2>1, <3>3
  <2>2. \A i \in D : IsInjective(ss[i])  BY <1>10 DEF Piece
  <2>. QED  BY <2>1, <2>2
<1>17. ASSUME NEW i \in D, NEW m \in Node, NEW k \in Sign, <<k, m>> \in ToSet(ss[i])
       PROVE  <<k, m>> \notin ToSet(r)
  <2>1. ASSUME <<k, m>> \in ToSet(r) PROVE FALSE
    <3>1. m = b[i] /\ k = "started"  BY <1>13, <1>14, <1>17, <2>1
    <3>2. Outcome(m) = "started"  BY <1>10, <1>13, <1>17, <3>1
    <3>. QED  BY <3>2, Events
  <2>. QED  BY <2>1
<1>18. ToSet(r) \cap ToSet(F) = {}
  <2>1. ASSUME NEW i \in D, NEW x \in ToSet(ss[i]), x \in ToSet(r) PROVE FALSE
    <3>1. x \in EventType  BY <1>10, ToSetOfSeq
    <3>2. PICK k \in Sign, m \in Node : x = <<k, m>>  BY <3>1, Events
    <3>. QED  BY <1>17, <2>1, <3>2
  <2>. QED  BY <1>6, <2>1
<1>19. IsInjective(R)  BY <1>5, <1>6, <1>8, <1>16, <1>18
<1>20. \A x : x \in ToSet(R) <=> x \in ToSet(r) \/ \E i \in D : x \in ToSet(ss[i])  BY <1>5, <1>6
<1>21. \A i \in D : \A x \in ToSet(r), y \in ToSet(ss[i]) : Earlier(R, x, y)  BY <1>5, <1>6
<1>. HIDE DEF D
<1>22. Endings \subseteq Sign /\ "completed" \in Endings /\ "failed" \in Endings
       /\ "started" \in Sign /\ "started" \notin Endings
  BY DEF Sign, Endings
<1>23. EndsOnce(R)
  <2>1. ASSUME NEW m \in Node, <<"completed", m>> \in ToSet(R), <<"failed", m>> \in ToSet(R)
        PROVE  FALSE
    <3>1. CASE \E i \in D : m \in Span(b[i])
      <4>1. PICK i \in D : m \in Span(b[i])  BY <3>1
      <4>2. \A e \in Endings : <<e, m>> \notin ToSet(r)  BY <1>14, <1>22, <4>1
      <4>3. \A e \in Endings : <<e, m>> \in ToSet(R) => <<e, m>> \in ToSet(ss[i])
        <5>1. ASSUME NEW e \in Endings, <<e, m>> \in ToSet(R) PROVE <<e, m>> \in ToSet(ss[i])
          <6>1. <<e, m>> \notin ToSet(r)  BY <4>2
          <6>2. PICK j \in D : <<e, m>> \in ToSet(ss[j])  BY <1>20, <5>1, <6>1
          <6>3. m \in Span(b[j])  BY <1>13, <1>22, <6>2
          <6>4. i = j  BY <1>15, <4>1, <6>3
          <6>. QED  BY <6>2, <6>4
        <5>. QED  BY <5>1
      <4>. QED  BY <1>10, <1>22, <2>1, <4>3 DEF Piece, EndsOnce
    <3>2. CASE ~\E i \in D : m \in Span(b[i])
      <4>1. \A e \in Endings : <<e, m>> \in ToSet(R) => <<e, m>> \in ToSet(r)
        BY <1>13, <1>20, <1>22, <3>2
      <4>. QED  BY <1>8, <1>22, <2>1, <4>1 DEF EndsOnce
    <3>. QED  BY <3>1, <3>2
  <2>. QED  BY <2>1 DEF EndsOnce
<1>24. EndsAfterStart(R)
  <2>1. ASSUME NEW m \in Node, NEW e \in Endings, <<e, m>> \in ToSet(R)
        PROVE  Earlier(R, <<"started", m>>, <<e, m>>)
    <3>1. CASE <<e, m>> \in ToSet(r)  BY <1>5, <1>8, <3>1 DEF EndsAfterStart
    <3>2. CASE <<e, m>> \notin ToSet(r)
      <4>1. PICK i \in D : <<e, m>> \in ToSet(ss[i])  BY <1>20, <2>1, <3>2
      <4>2. CASE m # b[i]  BY <1>6, <1>10, <4>1, <4>2 DEF Piece
      <4>3. CASE m = b[i]
        <5>1. <<"started", m>> \in ToSet(r)  BY <1>9, <1>10, <1>11, <4>3
        <5>. QED  BY <1>21, <4>1, <5>1
      <4>. QED  BY <4>2, <4>3
    <3>. QED  BY <3>1, <3>2
  <2>. QED  BY <2>1 DEF EndsAfterStart
<1>25. Inside(s, R)
  <2>1. ASSUME NEW h \in Node, Kind[h] = "skill", Child[h] # s,
               NEW m \in Nodes(Child[h]), NEW k \in Sign, <<k, m>> \in ToSet(R)
        PROVE  /\ Earlier(R, <<"started", h>>, <<k, m>>)
               /\ \E e \in Endings : Earlier(R, <<k, m>>, <<e, h>>)
    <3>1. Child[h] \in Skill /\ m \in Node  BY <2>1, PlanShape
    <3>2. CASE <<k, m>> \in ToSet(r)  BY <1>5, <1>8, <2>1, <3>2 DEF Inside
    <3>3. CASE <<k, m>> \notin ToSet(r)
      <4>1. PICK i \in D : <<k, m>> \in ToSet(ss[i])  BY <1>20, <2>1, <3>3
      <4>2. m \notin Nodes(s)  BY <2>1, <3>1, OneHome
      <4>3. CASE h # b[i]
        <5>1. Piece(s, b[i], ss[i])  BY <1>10
        <5>2. /\ Earlier(ss[i], <<"started", h>>, <<k, m>>)
              /\ \E e \in Endings : Earlier(ss[i], <<k, m>>, <<e, h>>)
          BY <2>1, <4>1, <4>3, <5>1 DEF Piece
        <5>. QED  BY <1>6, <5>2
      <4>4. CASE h = b[i]
        <5>1. <<"started", h>> \in ToSet(r)  BY <1>9, <1>10, <1>11, <4>4
        <5>2. <<k, m>> # EndOf(h)  BY <1>10, <4>2, <4>4 DEF EndOf
        <5>3. Earlier(ss[i], <<k, m>>, EndOf(h))  BY <1>10, <3>1, <4>1, <4>4, <5>2 DEF Piece
        <5>4. Earlier(R, <<k, m>>, EndOf(h))  BY <1>6, <5>3
        <5>5. Outcome(h) \in Endings /\ EndOf(h) = <<Outcome(h), h>>  BY Events DEF EndOf
        <5>6. \E e \in Endings : Earlier(R, <<k, m>>, <<e, h>>)  BY <5>4, <5>5
        <5>. QED  BY <1>21, <4>1, <5>1, <5>6
      <4>. QED  BY <4>3, <4>4
    <3>. QED  BY <3>2, <3>3
  <2>. QED  BY <2>1 DEF Inside
<1>26. InLayers(R)
  <2>1. ASSUME NEW t \in Skill, NEW i \in DOMAIN Graph[t], NEW j \in DOMAIN Graph[t], NEW e \in Endings,
               i < j, Rank[Graph[t][i]] = Rank[Graph[t][j]], <<e, Graph[t][j]>> \in ToSet(R)
        PROVE  \E f \in Endings : Earlier(R, <<f, Graph[t][i]>>, <<e, Graph[t][j]>>)
    <3>1. PICK x \in Node, y \in Node : x = Graph[t][i] /\ y = Graph[t][j]
      <4>1. Graph[t] \in Seq(Node)  BY PlanShape
      <4>. QED  BY <4>1
    <3>2. x \in Nodes(t) /\ y \in Nodes(t)  BY <3>1 DEF Nodes, ToSet
    <3>3. CASE <<e, y>> \in ToSet(r)  BY <1>5, <1>8, <2>1, <3>1, <3>3 DEF InLayers
    <3>4. CASE <<e, y>> \notin ToSet(r)
      <4>1. PICK l \in D : <<e, y>> \in ToSet(ss[l])  BY <1>20, <2>1, <3>1, <3>4
      <4>2. CASE t # s
        <5>1. Piece(s, b[l], ss[l]) /\ t \in Skill \ {s}  BY <1>10, <4>2
        <5>2. \E f \in Endings : Earlier(ss[l], <<f, Graph[t][i]>>, <<e, Graph[t][j]>>)
          BY <2>1, <3>1, <4>1, <5>1 DEF Piece
        <5>. QED  BY <1>6, <5>2
      <4>3. CASE t = s
        <5>1. y = b[l]  BY <1>13, <1>22, <3>2, <4>1, <4>3
        <5>2. node[x] # "idle"  BY <1>7, <1>10, <1>11, <2>1, <3>1, <4>3, <5>1 DEF Lined
        <5>3. CASE x \in Through(s)
          <6>1. <<Outcome(x), x>> \in ToSet(r)  BY <1>9, <3>2, <4>3, <5>3, Events
          <6>. QED  BY <1>21, <3>1, <4>1, <6>1, Events
        <5>4. CASE x \notin Through(s)
          <6>1. x \in Members(s)  BY <3>2, <4>3, <5>2, <5>4 DEF Through
          <6>2. PICK a \in D : b[a] = x  BY <1>11, <6>1
          <6>3. a < l
            <7>1. a \in Nat /\ l \in Nat /\ i \in Nat /\ j \in Nat
              <8>1. Graph[t] \in Seq(Node)  BY PlanShape
              <8>. QED  BY <8>1 DEF D
            <7>2. InOrder(b, Graph[s]) /\ IsInjective(Graph[s])
              BY <1>3, <1>7, ShapeAssumption DEF Lined
            <7>3. x # y  BY <2>1, <3>1, <4>3, <7>1, <7>2 DEF IsInjective
            <7>4. a # l  BY <5>1, <6>2, <7>3
            <7>5. D = DOMAIN b  BY DEF D
            <7>6. l < a => j < i  BY <3>1, <4>3, <5>1, <6>2, <7>2, <7>5 DEF InOrder
            <7>. QED  BY <2>1, <7>1, <7>4, <7>6
          <6>4. EndOf(x) \in ToSet(ss[a])  BY <1>10, <6>2 DEF Piece
          <6>5. Earlier(R, EndOf(x), <<e, y>>)  BY <1>6, <4>1, <6>3, <6>4
          <6>6. EndOf(x) = <<Outcome(x), x>> /\ Outcome(x) \in Endings  BY Events DEF EndOf
          <6>. QED  BY <3>1, <6>5, <6>6
        <5>. QED  BY <5>3, <5>4
      <4>. QED  BY <4>2, <4>3
    <3>. QED  BY <3>3, <3>4
  <2>. QED  BY <2>1 DEF InLayers
<1>27. Orderly(s, R)  BY <1>19, <1>23, <1>24, <1>25, <1>26 DEF Orderly
<1>28. ASSUME NEW n \in Nodes(s) PROVE <<"started", n>> \in ToSet(R) <=> node[n] # "idle"
  <2>1. n \in Node  BY PlanShape
  <2>2. \A i \in D : <<"started", n>> \notin ToSet(ss[i])
    <3>1. Outcome(n) # "started"  BY <2>1, Events
    <3>. QED  BY <1>13, <1>22, <2>1, <3>1
  <2>. QED  BY <1>9, <1>20, <2>2
<1>29. ASSUME NEW n \in Nodes(s), NEW e \in Endings
       PROVE  <<e, n>> \in ToSet(R) <=> n \in Through(s) \cup Members(s) /\ e = Outcome(n)
  <2>1. n \in Node  BY PlanShape
  <2>2. \A i \in D : <<e, n>> \in ToSet(ss[i]) => b[i] = n /\ e = Outcome(n)
    BY <1>13, <1>22, <2>1
  <2>3. \A i \in D : b[i] = n => EndOf(n) \in ToSet(ss[i])  BY <1>10 DEF Piece
  <2>4. EndOf(n) = <<Outcome(n), n>>  BY DEF EndOf
  <2>5. n \in Members(s) <=> \E i \in D : b[i] = n  BY <1>10, <1>11
  <2>. QED  BY <1>9, <1>20, <2>2, <2>3, <2>4, <2>5
<1>30. ASSUME NEW m \in Node, NEW k \in Sign, <<k, m>> \in ToSet(R)
       PROVE  \E n \in Nodes(s) : m \in Span(n) /\ (m = n \/ n \in Through(s) \cup Members(s))
  <2>1. CASE <<k, m>> \in ToSet(r)  BY <1>9, <2>1
  <2>2. CASE <<k, m>> \notin ToSet(r)
    <3>1. PICK i \in D : <<k, m>> \in ToSet(ss[i])  BY <1>20, <1>30, <2>2
    <3>. QED  BY <1>10, <1>13, <3>1
  <2>. QED  BY <2>1, <2>2
<1>31. ASSUME NEW m \in Node, <<"started", m>> \in ToSet(R)
       PROVE  \E e \in Endings : <<e, m>> \in ToSet(R)
  <2>1. CASE m \in Members(s)  BY <1>11, <1>29, <2>1, Events
  <2>2. CASE m \notin Members(s)
    <3>1. CASE <<"started", m>> \in ToSet(r)  BY <1>9, <1>20, <2>2, <3>1
    <3>2. CASE <<"started", m>> \notin ToSet(r)
      <4>1. PICK i \in D : <<"started", m>> \in ToSet(ss[i])  BY <1>20, <1>31, <3>2
      <4>. QED  BY <1>10, <1>20, <4>1 DEF Piece
    <3>. QED  BY <3>1, <3>2
  <2>. QED  BY <2>1, <2>2
<1>. QED  BY <1>27, <1>28, <1>29, <1>30, <1>31 DEF Accounts

-----------------------------------------------------------------------------
(* What every step keeps.                                                  *)

\* The report of a frame after a step.
LEMMA OrderlyNext ==
  ASSUME NEW s \in Skill, NEW r, Orderly(s, r), said'[s] = r
  PROVE  Orderly(s, said[s])'
BY DEF Orderly, IsInjective, EndsOnce, EndsAfterStart, Inside, InLayers, Earlier, Nodes

\* A frame whose report is the one before, and none of whose nodes has begun, or
\* ended for it, in this step.
LEMMA TallyStays ==
  ASSUME NEW t \in Skill, Orderly(t, said[t]), Tally(t), said'[t] = said[t],
         frame'[t].phase = "wait" <=> frame[t].phase = "wait",
         frame[t].phase = "wait" => frame'[t].batch = frame[t].batch,
         frame'[t].phase = "off" => frame[t].phase = "off",
         \A n \in Nodes(t) :
           \/ node'[n] = node[n]
           \/ /\ frame[t].phase = "wait" /\ n \in Members(t)
              /\ node[n] # "idle" /\ node'[n] # "idle"
  PROVE  Orderly(t, said[t])' /\ Tally(t)'
<1>1. PICK r : r = said[t]  OBVIOUS
<1>2. said'[t] = r  BY <1>1
<1>3. Orderly(t, said[t])'  BY <1>1, <1>2, OrderlyNext
<1>4. Through(t)' = Through(t) /\ Nodes(t)' = Nodes(t) /\ \A n : Span(n)' = Span(n)
  BY DEF Through, Members, Nodes, Span, Under, Closes
<1>5. \A n \in Through(t) : Outcome(n)' = Outcome(n)
  BY DEF Through, Outcome
<1>6. \A n \in Nodes(t) : node[n] # "idle" <=> node'[n] # "idle"  OBVIOUS
<1>7. frame[t].phase = "wait" => Members(t)' = Members(t)  BY DEF Members
<1>8. Tally(t)'
  BY <1>1, <1>2, <1>4, <1>5, <1>6, <1>7 DEF Tally
<1>. QED  BY <1>3, <1>8

\* A frame that keeps its batch, or has none.
LEMMA ListedStays ==
  ASSUME NEW t \in Skill, Lined(t), frame'[t].batch = frame[t].batch \/ frame'[t].batch = <<>>,
         \A n \in Nodes(t) : node[n] = "idle" <=> node'[n] = "idle"
  PROVE  Lined(t)'
<1>1. \A i \in DOMAIN Graph[t] : Graph[t][i] \in Nodes(t)  BY DEF Nodes, ToSet
<1>2. CASE frame'[t].batch = frame[t].batch
  <2>1. Members(t)' = Members(t)  BY <1>2 DEF Members
  <2>. QED  BY <1>1, <1>2, <2>1 DEF Lined, IsInjective, InOrder
<1>3. CASE frame'[t].batch = <<>>
  <2>1. Members(t)' = {}  BY <1>3 DEF Members, ToSet
  <2>2. DOMAIN frame'[t].batch = {}  BY <1>3
  <2>. QED  BY <1>1, <2>1, <2>2 DEF Lined, IsInjective, InOrder
<1>. QED  BY <1>2, <1>3

\* Steps that tell nothing.
LEMMA Silence ==
  ASSUME Story, UNCHANGED said,
         \A t \in Skill :
           /\ frame'[t].phase = "wait" <=> frame[t].phase = "wait"
           /\ frame'[t].batch = frame[t].batch \/ (frame'[t].batch = <<>> /\ frame[t].phase # "wait")
           /\ frame'[t].phase = "off" => frame[t].phase = "off",
         \A t \in Skill : \A n \in Nodes(t) :
           \/ node'[n] = node[n]
           \/ /\ frame[t].phase = "wait" /\ n \in Members(t)
              /\ node[n] # "idle" /\ node'[n] # "idle"
  PROVE  Story'
<1>1. ASSUME NEW t \in Skill PROVE Orderly(t, said[t])' /\ Tally(t)' /\ Lined(t)'
  <2>1. Orderly(t, said[t]) /\ Tally(t) /\ Lined(t)  BY DEF Story
  <2>2. Orderly(t, said[t])' /\ Tally(t)'  BY <2>1, TallyStays
  <2>3. Lined(t)'
    <3>1. \A n \in Nodes(t) : node[n] = "idle" <=> node'[n] = "idle"  OBVIOUS
    <3>. QED  BY <2>1, <3>1, ListedStays
  <2>. QED  BY <2>2, <2>3
<1>. QED  BY <1>1 DEF Story

\* A step of one frame: the others go on as they were.
LEMMA OthersTellNothing ==
  ASSUME Story, NEW s \in Skill,
         \A t \in Skill \ {s} : frame'[t] = frame[t] /\ said'[t] = said[t],
         \A t \in Skill \ {s} : \A n \in Nodes(t) : node'[n] = node[n],
         (Orderly(s, said[s]) /\ Tally(s) /\ Lined(s))'
  PROVE  Story'
<1>1. ASSUME NEW t \in Skill \ {s} PROVE Orderly(t, said[t])' /\ Tally(t)' /\ Lined(t)'
  <2>1. Orderly(t, said[t]) /\ Tally(t) /\ Lined(t)  BY DEF Story
  <2>2. frame'[t] = frame[t] /\ said'[t] = said[t] /\ \A n \in Nodes(t) : node'[n] = node[n]
    OBVIOUS
  <2>3. Orderly(t, said[t])' /\ Tally(t)'  BY <2>1, <2>2, TallyStays
  <2>4. Lined(t)'  BY <2>1, <2>2, ListedStays
  <2>. QED  BY <2>3, <2>4
<1>. QED  BY <1>1 DEF Story

\* A new batch is in the order of the manifest.
LEMMA NextBatchStory == ASSUME IInv, Story, NEW s \in Skill, NextBatch(s) PROVE Story'
<1>1. TypeOK /\ frame[s] \in Frame  BY FrameType DEF IInv
<1>2. frame[s].phase = "next" /\ UNCHANGED <<node, said>>  BY DEF NextBatch
<1>3. PICK f \in Frame :
        /\ frame' = [frame EXCEPT ![s] = f] /\ f.phase \in {"start", "slots", "ended"}
        /\ f.phase = "ended" => f.batch = <<>>
        /\ f.phase # "ended" => f.batch = Batch(s)
  BY NextBatchFrame
<1>4. frame'[s] = f /\ \A t \in Skill \ {s} : frame'[t] = frame[t]  BY <1>1, <1>3, FrameChanges
<1>5. Orderly(s, said[s]) /\ Tally(s) /\ Lined(s)  BY DEF Story
<1>6. Orderly(s, said[s])' /\ Tally(s)'  BY <1>2, <1>3, <1>4, <1>5, TallyStays
<1>7. Lined(s)'
  <2>1. CASE f.phase = "ended"  BY <1>2, <1>3, <1>4, <1>5, <2>1, ListedStays
  <2>2. CASE f.phase # "ended"
    <3>1. PICK b : b = Batch(s)  OBVIOUS
    <3>2. /\ IsInjective(b) /\ InOrder(b, Graph[s])
          /\ \A i, j \in DOMAIN Graph[s] :
               i < j /\ Rank[Graph[s][i]] = Rank[Graph[s][j]] /\ node[Graph[s][i]] = "idle"
                 /\ Graph[s][j] \in ToSet(b) => Graph[s][i] \in ToSet(b)
      BY <3>1, BatchInOrder
    <3>3. frame'[s].batch = b /\ Members(s)' = ToSet(b)
      BY <1>3, <1>4, <2>2, <3>1 DEF Members
    <3>. QED  BY <1>2, <1>5, <3>2, <3>3 DEF Lined, IsInjective, InOrder
  <2>. QED  BY <2>1, <2>2
<1>. QED  BY <1>2, <1>4, <1>6, <1>7, OthersTellNothing

\* A frame that takes slots or leases keeps its batch, or ends.
LEMMA ReserveStory ==
  ASSUME IInv, Story, NEW s \in Skill, TakeSlot(s) \/ GiveUp(s) \/ Reserve(s)
  PROVE  Story'
<1>1. TypeOK /\ frame[s] \in Frame  BY FrameType DEF IInv
<1>2. frame[s].phase = "slots" /\ UNCHANGED <<node, said>>  BY DEF TakeSlot, GiveUp, Reserve
<1>3. /\ \A t \in Skill \ {s} : frame'[t] = frame[t]
      /\ \/ frame'[s].phase = "ended" /\ frame'[s].batch = <<>>
         \/ frame'[s].phase \in {"slots", "start"} /\ frame'[s].batch = frame[s].batch
  <2>1. ASSUME NEW exit \in {"cancelled", "failed"}, frame' = [frame EXCEPT ![s] = Ended(@, exit)]
        PROVE  /\ frame'[s].phase = "ended" /\ frame'[s].batch = <<>>
               /\ \A t \in Skill \ {s} : frame'[t] = frame[t]
    <3>. DEFINE f == Ended(frame[s], exit)
    <3>0. exit \in {"none", "ok", "failed", "cancelled"}  OBVIOUS
    <3>1. f \in Frame /\ f.phase = "ended" /\ f.batch = <<>>  BY <1>1, <3>0, EndedType
    <3>2. frame' = [frame EXCEPT ![s] = f]  BY <2>1
    <3>. HIDE DEF f
    <3>. QED  BY <1>1, <3>1, <3>2, FrameChanges
  <2>2. CASE TakeSlot(s)  BY <1>1, <1>2, <2>2 DEF TakeSlot, TypeOK, Frame
  <2>3. CASE frame' = [frame EXCEPT ![s].phase = "start"]  BY <1>1, <2>3 DEF TypeOK, Frame
  <2>. QED  BY <2>1, <2>2, <2>3 DEF GiveUp, Reserve
<1>. QED  BY <1>2, <1>3, Silence

\* A frame that gives its batch back has told everything.
LEMMA ReleaseStory == ASSUME IInv, Story, NEW s \in Skill, Release(s) PROVE Story'
<1>1. TypeOK /\ frame[s] \in Frame  BY FrameType DEF IInv
<1>2. frame[s].phase = "release" /\ UNCHANGED <<node, said>>  BY DEF Release
<1>3. PICK f \in Frame :
        frame' = [frame EXCEPT ![s] = f] /\ f.batch = <<>> /\ f.phase \in {"next", "ended"}
  BY ReleaseFrame
<1>4. frame'[s] = f /\ \A t \in Skill \ {s} : frame'[t] = frame[t]  BY <1>1, <1>3, FrameChanges
<1>. QED  BY <1>2, <1>3, <1>4, Silence

\* The nodes of a batch are told to start, in the order of the manifest.
LEMMA LaunchStory == ASSUME IInv, Story, NEW s \in Skill, Launch(s) PROVE Story'
<1>1. TypeOK /\ Frames /\ FrameOk(s) /\ frame[s] \in Frame  BY FrameType DEF IInv, Frames
<1>2. /\ frame[s].phase = "start" /\ frame'[s].phase = "wait" /\ frame'[s].batch = frame[s].batch
      /\ \A t \in Skill \ {s} : frame'[t] = frame[t]
      /\ node' = [n \in Node |-> IF n \in Members(s) THEN "pending" ELSE node[n]]
      /\ said' = [said EXCEPT ![s] = @ \o Told("started", frame[s].batch)]
  BY <1>1 DEF Launch, Members, TypeOK, Frame
<1>3. said \in [Skill -> Seq(EventType)]  BY <1>1 DEF TypeOK, EventType
<1>4. PICK r \in Seq(EventType) : r = said[s]  BY <1>3
<1>5. PICK b \in Seq(Node) : b = frame[s].batch  BY <1>1, FrameType
<1>6. PICK u \in Seq(EventType) : u = Told("started", b)  BY <1>5, ToldType
<1>7. PICK R : R = r \o u  OBVIOUS
<1>8. said'[s] = R /\ \A t \in Skill \ {s} : said'[t] = said[t]
  BY <1>2, <1>3, <1>4, <1>5, <1>6, <1>7
<1>9. Orderly(s, r) /\ Tally(s) /\ Lined(s)  BY <1>4 DEF Story
<1>10. IsInjective(b)  BY <1>5, <1>9 DEF Lined
<1>11. DOMAIN u = DOMAIN b /\ \A i \in DOMAIN b : u[i] = <<"started", b[i]>>  BY <1>6 DEF Told
<1>12. IsInjective(u)  BY <1>10, <1>11 DEF IsInjective
<1>13. ToSet(u) = {<<"started", n>> : n \in Members(s)}
  BY <1>5, <1>11 DEF ToSet, Members
<1>14. \A n \in Members(s) : n \in Nodes(s) /\ n \in Node /\ node[n] = "idle"
  BY <1>1, <1>2, PlanShape DEF FrameOk
<1>15. ToSet(r) \cap ToSet(u) = {}
  <2>1. \A n \in Members(s) : <<"started", n>> \notin ToSet(r)  BY <1>4, <1>9, <1>14 DEF Tally
  <2>. QED  BY <1>13, <2>1
<1>16. /\ R \in Seq(EventType) /\ ToSet(R) = ToSet(r) \cup ToSet(u)
       /\ \A x, y : Earlier(r, x, y) => Earlier(R, x, y)
       /\ IsInjective(r) /\ IsInjective(u) /\ ToSet(r) \cap ToSet(u) = {} => IsInjective(R)
  BY <1>7, Joins
<1>17. \A k, m : <<k, m>> \in ToSet(R) <=> <<k, m>> \in ToSet(r) \/ (k = "started" /\ m \in Members(s))
  BY <1>13, <1>16
<1>18. /\ IsInjective(r) /\ EndsOnce(r) /\ EndsAfterStart(r) /\ Inside(s, r) /\ InLayers(r)
  BY <1>9 DEF Orderly
<1>19. \A e \in Endings : \A m : <<e, m>> \in ToSet(R) <=> <<e, m>> \in ToSet(r)  BY <1>17, Events
<1>20. Orderly(s, R)
  <2>1. EndsOnce(R)  BY <1>18, <1>19 DEF EndsOnce, Endings
  <2>2. EndsAfterStart(R)  BY <1>16, <1>18, <1>19 DEF EndsAfterStart
  <2>3. Inside(s, R)
    <3>1. ASSUME NEW n \in Node, Kind[n] = "skill", Child[n] # s, NEW m \in Nodes(Child[n]),
                 NEW k \in Sign, <<k, m>> \in ToSet(R)
          PROVE  /\ Earlier(R, <<"started", n>>, <<k, m>>)
                 /\ \E e \in Endings : Earlier(R, <<k, m>>, <<e, n>>)
      <4>1. Child[n] \in Skill  BY <3>1, PlanShape
      <4>2. m \notin Members(s)  BY <1>14, <3>1, <4>1, OneHome
      <4>3. <<k, m>> \in ToSet(r)  BY <1>17, <3>1, <4>2
      <4>4. /\ Earlier(r, <<"started", n>>, <<k, m>>)
            /\ \E e \in Endings : Earlier(r, <<k, m>>, <<e, n>>)
        BY <1>18, <3>1, <4>3 DEF Inside
      <4>. QED  BY <1>16, <4>4
    <3>. QED  BY <3>1 DEF Inside
  <2>4. InLayers(R)  BY <1>16, <1>18, <1>19 DEF InLayers
  <2>. QED  BY <1>12, <1>15, <1>16, <1>18, <2>1, <2>2, <2>3, <2>4 DEF Orderly
<1>21. Orderly(s, said[s])'  BY <1>8, <1>20, OrderlyNext
<1>22. /\ Members(s)' = Members(s) /\ Nodes(s)' = Nodes(s) /\ Nodes(s) \subseteq Node
       /\ \A n : Span(n)' = Span(n)
  BY <1>2, PlanShape DEF Members, Nodes, Span, Under, Closes
<1>23. \A n \in Nodes(s) : node'[n] # "idle" <=> node[n] # "idle" \/ n \in Members(s)
  BY <1>2, <1>22
<1>24. Through(s)' = Through(s) /\ \A n \in Through(s) : n \notin Members(s) /\ Outcome(n)' = Outcome(n)
  <2>1. Through(s) = {n \in Nodes(s) : node[n] # "idle"}  BY <1>2 DEF Through
  <2>2. Through(s)' = {n \in Nodes(s) : node'[n] # "idle" /\ n \notin Members(s)}
    BY <1>2, <1>22 DEF Through
  <2>3. \A n \in Through(s) : n \in Node /\ n \notin Members(s)  BY <1>14, <1>22, <2>1
  <2>4. \A n \in Through(s) : node'[n] = node[n]  BY <1>2, <2>3
  <2>. QED  BY <1>14, <1>23, <2>1, <2>2, <2>3, <2>4 DEF Outcome
<1>25. Tally(s)'
  <2>1. \A n \in Nodes(s) : <<"started", n>> \in ToSet(R) <=> node'[n] # "idle"
    BY <1>4, <1>9, <1>17, <1>23 DEF Tally
  <2>2. \A n \in Nodes(s), e \in Endings :
          <<e, n>> \in ToSet(R) <=> n \in Through(s)' /\ e = Outcome(n)'
    <3>1. \A n \in Nodes(s), e \in Endings : <<e, n>> \in ToSet(r) <=> n \in Through(s) /\ e = Outcome(n)
      BY <1>4, <1>9 DEF Tally
    <3>2. \A n \in Nodes(s) : n \in Through(s)' <=> n \in Through(s)  BY <1>24
    <3>3. \A n \in Through(s) : Outcome(n)' = Outcome(n)  BY <1>24
    <3>. QED  BY <1>19, <3>1, <3>2, <3>3
  <2>3. \A m \in Node, k \in Sign : <<k, m>> \in ToSet(R) =>
          \E n \in Nodes(s) : m \in Span(n) /\ (m = n \/ n \in Through(s))
    <3>1. \A m \in Members(s) : m \in Nodes(s) /\ m \in Span(m)  BY <1>14, SpanFacts
    <3>. QED  BY <1>4, <1>9, <1>17, <3>1 DEF Tally
  <2>4. \A m \in Node : <<"started", m>> \in ToSet(R) =>
          (\E e \in Endings : <<e, m>> \in ToSet(R)) \/ m \in Members(s)
    BY <1>2, <1>4, <1>9, <1>17 DEF Tally
  <2>. QED  BY <1>2, <1>8, <1>22, <1>24, <2>1, <2>2, <2>3, <2>4 DEF Tally
<1>26. Lined(s)'
  <2>1. \A i \in DOMAIN Graph[s] : Graph[s][i] \in Nodes(s)  BY DEF Nodes, ToSet
  <2>. QED  BY <1>2, <1>9, <1>22, <1>23, <2>1 DEF Lined, IsInjective, InOrder
<1>27. ASSUME NEW t \in Skill \ {s}, NEW n \in Nodes(t) PROVE node'[n] = node[n]
  <2>1. n \in Node /\ n \notin Members(s)  BY <1>1, PlanShape, Apart
  <2>. QED  BY <1>2, <2>1
<1>. QED  BY <1>2, <1>8, <1>21, <1>25, <1>26, <1>27, OthersTellNothing

\* What a batch has done is reported, in the order of the manifest.
LEMMA MergeStory == ASSUME IInv, Story, NEW s \in Skill, Merge(s) PROVE Story'
<1>1. TypeOK /\ FrameOk(s) /\ frame[s] \in Frame  BY FrameType DEF IInv, Frames
<1>2. /\ frame[s].phase = "wait" /\ UNCHANGED node
      /\ frame'[s].phase = "release" /\ frame'[s].batch = frame[s].batch
      /\ \A t \in Skill \ {s} : frame'[t] = frame[t]
      /\ said' = [said EXCEPT ![s] = @ \o Reports(frame[s].batch)]
      /\ \A n \in Members(s) : node[n] \in Settled
  BY <1>1 DEF Merge, Joined, Members, TypeOK, Frame
<1>3. PICK R : R = said[s] \o Reports(frame[s].batch)  OBVIOUS
<1>4. said'[s] = R /\ \A t \in Skill \ {s} : said'[t] = said[t]
  BY <1>1, <1>2, <1>3 DEF TypeOK
<1>5. Orderly(s, R) /\ Accounts(s, R, Through(s) \cup Members(s))
  BY <1>2, <1>3, MergedReport
<1>6. Orderly(s, said[s])'  BY <1>4, <1>5, OrderlyNext
<1>7. /\ Nodes(s)' = Nodes(s) /\ \A n : Span(n)' = Span(n) /\ Outcome(n)' = Outcome(n)
      /\ Through(s)' = Through(s) \cup Members(s)
  <2>1. \A n \in Members(s) : n \in Nodes(s) /\ node[n] # "idle"  BY <1>1, <1>2 DEF FrameOk, Settled
  <2>2. Through(s)' = {n \in Nodes(s) : node[n] # "idle"}  BY <1>2 DEF Through, Nodes
  <2>3. Through(s) = {n \in Nodes(s) : node[n] # "idle" /\ n \notin Members(s)}  BY <1>2 DEF Through
  <2>. QED  BY <1>2, <2>1, <2>2, <2>3 DEF Nodes, Span, Under, Closes, Outcome
<1>8. Tally(s)'  BY <1>2, <1>4, <1>5, <1>7 DEF Tally, Accounts
<1>9. Lined(s)'
  <2>1. Lined(s)  BY DEF Story
  <2>. QED  BY <1>2, <2>1, ListedStays
<1>. QED  BY <1>2, <1>4, <1>6, <1>8, <1>9, OthersTellNothing

\* A thread changes its own node, which its frame waits for.
LEMMA ThreadsStory ==
  ASSUME IInv, Story, UNCHANGED said,
         \A t \in Skill :
           /\ frame'[t].phase = frame[t].phase \/ (frame[t].phase = "off" /\ frame'[t].phase = "next")
           /\ frame'[t].batch = frame[t].batch,
         \A n \in Node : \/ node'[n] = node[n]
                         \/ node[n] \in {"pending", "running"} /\ node'[n] # "idle"
  PROVE  Story'
<1>1. Placed /\ Frames  BY DEF IInv
<1>2. ASSUME NEW t \in Skill, NEW n \in Nodes(t), node'[n] # node[n]
      PROVE  frame[t].phase = "wait" /\ n \in Members(t) /\ node[n] # "idle" /\ node'[n] # "idle"
  <2>1. n \in Node  BY PlanShape
  <2>2. node[n] \in {"pending", "running"} /\ node'[n] # "idle"  BY <1>2, <2>1
  <2>3. PICK s \in Skill : frame[s].phase = "wait" /\ n \in Members(s)
    BY <1>1, <2>1, <2>2 DEF Placed
  <2>4. s = t  BY <1>1, <1>2, <2>3, Apart
  <2>. QED  BY <2>2, <2>3, <2>4
<1>. QED  BY <1>2, Silence

\* What a thread does is told when its frame reports it.
LEMMA ThreadStory == ASSUME IInv, Story, NEW n \in Node, Thread(n) PROVE Story'
<1>1. TypeOK /\ Nested  BY DEF IInv
<1>2. node[n] \in {"pending", "running"} /\ UNCHANGED said
  BY DEF Thread, Enter, Return, SkillReturns
<1>3. \A m \in Node \ {n} : node'[m] = node[m]
  BY <1>1 DEF Thread, Enter, Return, SkillReturns, TypeOK
<1>4. node'[n] # "idle"
  <2>1. CASE Enter(n)  BY <1>1, <2>1 DEF Enter, TypeOK
  <2>2. CASE Return(n)  BY <1>1, <2>2 DEF Return, TypeOK
  <2>3. CASE SkillReturns(n)
    <3>1. Child[n] \in Skill  BY <2>3, PlanShape DEF SkillReturns
    <3>2. frame[Child[n]].exit # "idle"  BY <1>1, <3>1, FrameType DEF Frame
    <3>. QED  BY <1>1, <2>3, <3>2 DEF SkillReturns, TypeOK
  <2>. QED  BY <2>1, <2>2, <2>3 DEF Thread
<1>5. CASE frame' = frame  BY <1>2, <1>3, <1>4, <1>5, ThreadsStory
<1>6. CASE frame' # frame
  <2>1. Kind[n] = "skill" /\ node[n] = "pending" /\ frame' = [frame EXCEPT ![Child[n]].phase = "next"]
    BY <1>6 DEF Thread, Enter, Return, SkillReturns
  <2>2. Child[n] \in Skill /\ frame[Child[n]].phase = "off"  BY <1>1, <2>1, PlanShape DEF Nested
  <2>3. frame[Child[n]] \in Frame  BY <1>1, <2>2, FrameType
  <2>4. /\ frame'[Child[n]] = [frame[Child[n]] EXCEPT !.phase = "next"]
        /\ \A t \in Skill \ {Child[n]} : frame'[t] = frame[t]
    BY <1>1, <2>1, <2>2 DEF TypeOK
  <2>5. frame'[Child[n]].batch = frame[Child[n]].batch /\ frame'[Child[n]].phase = "next"
    BY <2>3, <2>4 DEF Frame
  <2>6. \A t \in Skill :
          /\ frame'[t].phase = frame[t].phase \/ (frame[t].phase = "off" /\ frame'[t].phase = "next")
          /\ frame'[t].batch = frame[t].batch
    BY <2>2, <2>4, <2>5
  <2>. QED  BY <1>2, <1>3, <1>4, <2>6, ThreadsStory
<1>. QED  BY <1>5, <1>6

\* At the start there is nothing to tell.
LEMMA InitStory == Init => Story
<1>. SUFFICES ASSUME Init, NEW s \in Skill PROVE Orderly(s, said[s]) /\ Tally(s) /\ Lined(s)
  BY DEF Story
<1>1. /\ \A n \in Node : node[n] = "idle"
      /\ frame[s].batch = <<>> /\ said[s] = <<>>
  BY AtFirst DEF Init
<1>2. \A n \in Nodes(s) : n \in Node /\ node[n] = "idle"  BY <1>1, PlanShape
<1>3. \A i \in DOMAIN Graph[s] : Graph[s][i] \in Nodes(s)  BY DEF Nodes, ToSet
<1>4. Members(s) = {} /\ ToSet(said[s]) = {} /\ DOMAIN frame[s].batch = {} /\ DOMAIN said[s] = {}
  BY <1>1 DEF Members, ToSet
<1>5. Orderly(s, said[s])
  BY <1>4 DEF Orderly, IsInjective, EndsOnce, EndsAfterStart, Inside, InLayers
<1>6. Through(s) = {}  BY <1>2 DEF Through
<1>7. Tally(s)  BY <1>1, <1>2, <1>4, <1>6 DEF Tally
<1>8. Lined(s)  BY <1>2, <1>3, <1>4 DEF Lined, IsInjective, InOrder
<1>. QED  BY <1>5, <1>7, <1>8

\* Every step goes on with the story.
LEMMA StoryStep == IInv /\ Story /\ [Next]_vars => Story'
<1>. SUFFICES ASSUME IInv, Story, [Next]_vars PROVE Story'  OBVIOUS
<1>1. CASE Again
  <2>1. Init'  BY <1>1 DEF Again, Init
  <2>. QED  BY <2>1, InitStory, PTL
<1>2. CASE Cancel \/ UNCHANGED vars
  <2>1. UNCHANGED <<node, frame, said>>  BY <1>2 DEF Cancel, vars
  <2>. QED  BY <2>1, ThreadsStory
<1>3. ASSUME NEW s \in Skill, Observe(s) PROVE Story'
  <2>1. UNCHANGED <<frame, said>>  BY <1>3 DEF Observe
  <2>2. PICK dropped : /\ \A n \in dropped : node[n] = "pending"
                       /\ node' = [n \in Node |-> IF n \in dropped THEN "dropped" ELSE node[n]]
    BY <1>3 DEF Observe
  <2>3. \A n \in Node : node'[n] = node[n] \/ (node[n] = "pending" /\ node'[n] = "dropped")
    BY <2>2
  <2>. QED  BY <2>1, <2>3, ThreadsStory
<1>4. ASSUME NEW s \in Skill, FrameStep(s) \/ TakeSlot(s) \/ GiveUp(s) PROVE Story'
  BY <1>3, <1>4, NextBatchStory, ReserveStory, LaunchStory, MergeStory, ReleaseStory DEF FrameStep
<1>. QED  BY <1>1, <1>2, <1>4, ThreadStory DEF Next

-----------------------------------------------------------------------------
(* Where the events are.                                                   *)

\* An event that is in the report has one place there.
LEMMA Places ==
  ASSUME said[Root] \in Seq(EventType), IsInjective(said[Root])
  PROVE  /\ \A k, m : Place(k, m) \in Nat
         /\ \A k, m : Place(k, m) > 0 <=> <<k, m>> \in ToSet(said[Root])
         /\ \A k, m, l, n : Earlier(said[Root], <<k, m>>, <<l, n>>) =>
              0 < Place(k, m) /\ Place(k, m) < Place(l, n)
<1>1. PICK r \in Seq(EventType) : r = said[Root]  OBVIOUS
<1>2. DOMAIN r = 1..Len(r) /\ Len(r) \in Nat /\ IsInjective(r)  BY <1>1
<1>3. ASSUME NEW k, NEW m, NEW i \in DOMAIN r, r[i] = <<k, m>> PROVE Place(k, m) = i
  <2>1. {j \in DOMAIN r : r[j] = <<k, m>>} = {i}  BY <1>2, <1>3 DEF IsInjective
  <2>2. Min({i}) = i
    <3>1. \A x \in {i} : x = i  OBVIOUS
    <3>2. i <= i  BY <1>2
    <3>. QED  BY <3>1, <3>2 DEF Min
  <2>. QED  BY <1>1, <2>1, <2>2 DEF Place
<1>4. ASSUME NEW k, NEW m, <<k, m>> \notin ToSet(r) PROVE Place(k, m) = 0
  <2>1. {j \in DOMAIN r : r[j] = <<k, m>>} = {}  BY <1>4 DEF ToSet
  <2>. QED  BY <1>1, <2>1 DEF Place
<1>5. \A k, m : <<k, m>> \in ToSet(r) => \E i \in 1..Len(r) : r[i] = <<k, m>>  BY <1>2 DEF ToSet
<1>6. ASSUME NEW k, NEW m
      PROVE  Place(k, m) \in Nat /\ (Place(k, m) > 0 <=> <<k, m>> \in ToSet(r))
  <2>1. CASE <<k, m>> \in ToSet(r)
    <3>1. PICK i \in 1..Len(r) : r[i] = <<k, m>>  BY <1>5, <2>1
    <3>2. Place(k, m) = i  BY <1>2, <1>3, <3>1
    <3>. QED  BY <1>2, <2>1, <3>2
  <2>2. CASE <<k, m>> \notin ToSet(r)
    <3>1. Place(k, m) = 0  BY <1>4, <2>2
    <3>. QED  BY <2>2, <3>1
  <2>. QED  BY <2>1, <2>2
<1>7. ASSUME NEW k, NEW m, NEW l, NEW n, Earlier(r, <<k, m>>, <<l, n>>)
      PROVE  0 < Place(k, m) /\ Place(k, m) < Place(l, n)
  <2>1. PICK i \in DOMAIN r, j \in DOMAIN r : i < j /\ r[i] = <<k, m>> /\ r[j] = <<l, n>>
    BY <1>7 DEF Earlier
  <2>2. Place(k, m) = i /\ Place(l, n) = j  BY <1>3, <2>1
  <2>. QED  BY <1>2, <2>1, <2>2
<1>. QED  BY <1>1, <1>6, <1>7

\* A node that has ended has one end.
LEMMA Ends ==
  ASSUME said[Root] \in Seq(EventType), IsInjective(said[Root]), EndsOnce(said[Root]), NEW n \in Node
  PROVE  /\ Done(n) \in Nat
         /\ Done(n) > 0 => \E e \in Endings : Done(n) = Place(e, n) /\ <<e, n>> \in ToSet(said[Root])
         /\ \A e \in Endings : <<e, n>> \in ToSet(said[Root]) => Done(n) = Place(e, n)
<1>1. PICK a \in Nat, b \in Nat : a = Place("completed", n) /\ b = Place("failed", n)  BY Places
<1>2. (a > 0 <=> <<"completed", n>> \in ToSet(said[Root]))
      /\ (b > 0 <=> <<"failed", n>> \in ToSet(said[Root]))
  BY <1>1, Places
<1>3. ~(a > 0 /\ b > 0)  BY <1>2 DEF EndsOnce
<1>4. Done(n) = IF a > b THEN a ELSE b
  <2>1. Done(n) = Max({a, b})  BY <1>1 DEF Done
  <2>2. Max({a, b}) \in {a, b} /\ \A x \in {a, b} : x <= Max({a, b})
    <3>1. \E m \in {a, b} : \A x \in {a, b} : x <= m  OBVIOUS
    <3>2. \E m \in {a, b} : \A x \in {a, b} : m >= x  BY <3>1
    <3>. QED  BY <3>1, <3>2 DEF Max
  <2>. QED  BY <2>1, <2>2
<1>5. \A e \in Endings : e = "completed" \/ e = "failed"  BY DEF Endings
<1>6. "completed" \in Endings /\ "failed" \in Endings  BY DEF Endings
<1>7. \A e \in Endings : <<e, n>> \in ToSet(said[Root]) => Done(n) = Place(e, n)
  BY <1>1, <1>2, <1>3, <1>4, <1>5
<1>8. ASSUME Done(n) > 0
      PROVE  \E e \in Endings : Done(n) = Place(e, n) /\ <<e, n>> \in ToSet(said[Root])
  <2>1. CASE a > b
    <3>1. Done(n) = Place("completed", n) /\ <<"completed", n>> \in ToSet(said[Root])
      BY <1>1, <1>2, <1>4, <1>8, <2>1
    <3>. QED  BY <1>6, <3>1
  <2>2. CASE ~(a > b)
    <3>1. Done(n) = Place("failed", n) /\ <<"failed", n>> \in ToSet(said[Root])
      BY <1>1, <1>2, <1>4, <1>8, <2>2
    <3>. QED  BY <1>6, <3>1
  <2>. QED  BY <2>1, <2>2
<1>. QED  BY <1>4, <1>7, <1>8

\* The report of the root is in order.
LEMMA StoryIsOrderly == IInv /\ Story => ReportIsOrderly
<1>. SUFFICES ASSUME IInv, Story PROVE ReportIsOrderly  OBVIOUS
<1>1. Root \in Skill /\ said[Root] \in Seq(EventType)  BY PlanShape DEF IInv, TypeOK, EventType
<1>2. PICK r \in Seq(EventType) : r = said[Root]  BY <1>1
<1>3. Orderly(Root, r) /\ Tally(Root)  BY <1>1, <1>2 DEF Story
<1>4. IsInjective(r) /\ EndsOnce(r) /\ EndsAfterStart(r) /\ Inside(Root, r) /\ InLayers(r)
  BY <1>3 DEF Orderly
<1>5. /\ \A k, m : Place(k, m) \in Nat
      /\ \A k, m : Place(k, m) > 0 <=> <<k, m>> \in ToSet(r)
      /\ \A k, m, l, n : Earlier(r, <<k, m>>, <<l, n>>) => 0 < Place(k, m) /\ Place(k, m) < Place(l, n)
  BY <1>1, <1>2, <1>4, Places
<1>6. ASSUME NEW n \in Node
      PROVE  /\ Done(n) \in Nat
             /\ Done(n) > 0 => \E e \in Endings : Done(n) = Place(e, n) /\ <<e, n>> \in ToSet(r)
             /\ \A e \in Endings : <<e, n>> \in ToSet(r) => Done(n) = Place(e, n)
  BY <1>1, <1>2, <1>4, Ends
<1>7. "started" \in Sign /\ Endings \subseteq Sign  BY Events
<1>8. ASSUME NEW n \in Node, Done(n) > 0 PROVE 0 < Begun(n) /\ Begun(n) < Done(n)
  <2>1. PICK e \in Endings : Done(n) = Place(e, n) /\ <<e, n>> \in ToSet(r)  BY <1>6, <1>8
  <2>2. Earlier(r, <<"started", n>>, <<e, n>>)  BY <1>4, <2>1 DEF EndsAfterStart
  <2>. QED  BY <1>5, <2>1, <2>2 DEF Begun
<1>9. ASSUME NEW n \in Node, frame[Root].phase = "ended", Begun(n) > 0 PROVE Done(n) > 0
  <2>1. <<"started", n>> \in ToSet(r)  BY <1>5, <1>9 DEF Begun
  <2>2. PICK e \in Endings : <<e, n>> \in ToSet(r)  BY <1>2, <1>3, <1>9, <2>1 DEF Tally
  <2>. QED  BY <1>5, <1>6, <2>2
<1>10. ASSUME NEW n \in Node, Kind[n] = "skill", NEW m \in Nodes(Child[n]), Begun(m) > 0
       PROVE  Begun(n) < Begun(m) /\ Done(m) < Done(n)
  <2>1. m \in Node /\ Child[n] # Root  BY <1>10, PlanShape
  <2>2. <<"started", m>> \in ToSet(r)  BY <1>5, <1>10 DEF Begun
  <2>3. Earlier(r, <<"started", n>>, <<"started", m>>)
    BY <1>4, <1>7, <1>10, <2>1, <2>2 DEF Inside
  <2>4. \A k \in Sign : <<k, m>> \in ToSet(r) => Place(k, m) < Done(n)
    <3>1. ASSUME NEW k \in Sign, <<k, m>> \in ToSet(r) PROVE Place(k, m) < Done(n)
      <4>1. PICK e \in Endings : Earlier(r, <<k, m>>, <<e, n>>)
        BY <1>4, <1>10, <2>1, <3>1 DEF Inside
      <4>2. 0 < Place(k, m) /\ Place(k, m) < Place(e, n)  BY <1>5, <4>1
      <4>3. Place(e, n) > 0  BY <1>5, <4>2
      <4>4. Done(n) = Place(e, n)  BY <1>5, <1>6, <4>3
      <4>. QED  BY <4>2, <4>4
    <3>. QED  BY <3>1
  <2>5. Done(m) < Done(n)
    <3>1. CASE Done(m) > 0
      <4>1. PICK e \in Endings : Done(m) = Place(e, m) /\ <<e, m>> \in ToSet(r)  BY <1>6, <2>1, <3>1
      <4>. QED  BY <1>7, <2>4, <4>1
    <3>2. CASE ~(Done(m) > 0)
      <4>1. Done(m) \in Nat /\ Done(n) \in Nat  BY <1>6, <2>1
      <4>2. Place("started", m) < Done(n) /\ Place("started", m) \in Nat  BY <1>5, <1>7, <2>2, <2>4
      <4>. QED  BY <3>2, <4>1, <4>2
    <3>. QED  BY <3>1, <3>2
  <2>. QED  BY <1>5, <2>3, <2>5 DEF Begun
<1>11. ASSUME NEW s \in Skill, NEW i \in DOMAIN Graph[s], NEW j \in DOMAIN Graph[s],
              i < j, Rank[Graph[s][i]] = Rank[Graph[s][j]], Done(Graph[s][j]) > 0
       PROVE  0 < Done(Graph[s][i]) /\ Done(Graph[s][i]) < Done(Graph[s][j])
  <2>1. PICK x \in Node, y \in Node : x = Graph[s][i] /\ y = Graph[s][j]
    <3>1. Graph[s] \in Seq(Node)  BY PlanShape
    <3>. QED  BY <3>1
  <2>2. PICK e \in Endings : Done(y) = Place(e, y) /\ <<e, y>> \in ToSet(r)  BY <1>6, <1>11, <2>1
  <2>3. PICK f \in Endings : Earlier(r, <<f, x>>, <<e, y>>)  BY <1>4, <1>11, <2>1, <2>2 DEF InLayers
  <2>4. 0 < Place(f, x) /\ Place(f, x) < Place(e, y)  BY <1>5, <2>3
  <2>5. Place(f, x) > 0  BY <1>5, <2>4
  <2>6. Done(x) = Place(f, x)  BY <1>5, <1>6, <2>5
  <2>. QED  BY <2>1, <2>2, <2>4, <2>6
<1>. QED  BY <1>2, <1>4, <1>8, <1>9, <1>10, <1>11 DEF ReportIsOrderly

\* What a run reports does not depend on the threads: every node that started
\* has ended when the run ends, once, whatever happens in a skill is reported
\* between the start and the end of the node that calls it, and the nodes of a
\* layer end in the order of the manifest (child_trace, outcomes).
THEOREM ReportTheorem == Spec => []ReportIsOrderly
<1>1. Init => IInv /\ Story  BY InitIInv, InitStory
<1>2. IInv /\ Story /\ [Next]_vars => (IInv /\ Story)'  BY IInvStep, StoryStep
<1>. QED  BY <1>1, <1>2, StoryIsOrderly, PTL DEF Spec

-----------------------------------------------------------------------------
(* Planning: the worlds, and the routes of a world.                        *)

World ==
  [models : SUBSET Model, images : SUBSET ImageModel, verified : SUBSET (Capability \X Model),
   profile : {None} \cup [model : Model, purpose : SUBSET Capability, load : {1, 2}],
   mode : {"auto", "manual"}, policy : {"allow", "reject"}, preferVerified : BOOLEAN,
   saved : [Capability -> Model \cup {None}], free : Memory]

\* What users ask for, and what a draft makes of it.
Asks ==
  [skill : DOMAIN Installed, mode : {None, "auto", "manual"}, model : Model \cup {None},
   profile : {None, Profile}, pins : {None} \cup [cap : Capability, model : Model \cup ImageModel]]
Unpinned(q) == [q EXCEPT !.model = None, !.profile = None]

LEMMA AsksFacts ==
  ASSUME NEW q \in Requests
  PROVE  /\ q \in Asks /\ Unpinned(q) \in Asks /\ Unpinned(q).skill = q.skill
         /\ q.skill \in DOMAIN Installed
BY RequestAssumption DEF Asks, Unpinned

\* The route of a capability, a model and a profile.
RouteAt(w, c, m, p) == IF IsText(c) THEN TextRoute(w, c, m, p) ELSE ImageRoute(w, m)

\* The routes of a world are images of keys.
LEMMA RoutesHaveKeys ==
  ASSUME NEW w \in World, NEW r \in Snapshot(w)
  PROVE  \E c \in Capability, m \in Model \cup ImageModel, p \in {0, Profile} :
           r = RouteAt(w, c, m, p) /\ m \in (IF IsText(c) THEN w.models ELSE w.images)
<1>1. CASE r \in TextRoutes(w)
  <2>1. PICK c \in {d \in Capability : IsText(d)}, m \in w.models : r \in Variants(w, c, m)
    BY <1>1 DEF TextRoutes
  <2>2. PICK p \in Profiles(w, c, m) : r = TextRoute(w, c, m, p) BY <2>1 DEF Variants
  <2>3. c \in Capability /\ m \in Model BY DEF World
  <2>4. p \in {0, Profile} BY DEF Profiles
  <2>5. r = RouteAt(w, c, m, p) BY <2>2 DEF RouteAt
  <2>. QED BY <2>3, <2>4, <2>5
<1>2. CASE r \in {ImageRoute(w, m) : m \in w.images}
  <2>1. PICK m \in w.images : r = ImageRoute(w, m) BY <1>2
  <2>2. m \in ImageModel /\ "image.generate" \in Capability BY DEF World, Capability
  <2>3. r = RouteAt(w, "image.generate", m, 0) /\ ~IsText("image.generate") BY <2>1 DEF RouteAt, IsText
  <2>. QED BY <2>2, <2>3
<1>. QED BY <1>1, <1>2 DEF Snapshot

LEMMA KeysAreFinite == IsFiniteSet((Capability \X (Model \cup ImageModel)) \X {0, Profile})
<1>1. IsFiniteSet(Capability)
  <2>1. Capability = {"text.chat"} \cup ({"text.generate"} \cup {"image.generate"}) BY DEF Capability
  <2>2. IsFiniteSet({"text.generate"} \cup {"image.generate"}) BY FS_Singleton, FS_Union
  <2>. QED BY <2>1, <2>2, FS_Singleton, FS_Union
<1>2. IsFiniteSet({0, Profile})
  <2>1. {0, Profile} = {0} \cup {Profile} OBVIOUS
  <2>2. IsFiniteSet({0}) /\ IsFiniteSet({Profile}) BY FS_Singleton
  <2>. QED BY <2>1, <2>2, FS_Union
<1>3. IsFiniteSet(Model \cup ImageModel) BY ModelAssumption, FS_Union
<1>4. IsFiniteSet(Capability \X (Model \cup ImageModel)) BY <1>1, <1>3, FS_Product
<1>. QED BY <1>2, <1>4, FS_Product

\* A world has finitely many routes.
LEMMA RoutesAreFinite ==
  ASSUME NEW w \in World
  PROVE  IsFiniteSet(Snapshot(w))
<1>. DEFINE keys == (Capability \X (Model \cup ImageModel)) \X {0, Profile}
            f == [k \in keys |-> RouteAt(w, k[1][1], k[1][2], k[2])]
            T == {f[k] : k \in keys}
<1>1. f \in Surjection(keys, T) BY DEF Surjection
<1>2. IsFiniteSet(keys) BY KeysAreFinite
<1>3. IsFiniteSet(T)
  <2>. HIDE DEF f, T, keys
  <2>. QED BY <1>1, <1>2, FS_Surjection
<1>4. ASSUME NEW r \in Snapshot(w) PROVE r \in T
  <2>1. PICK c \in Capability, m \in Model \cup ImageModel, p \in {0, Profile} : r = RouteAt(w, c, m, p)
    BY RoutesHaveKeys
  <2>2. <<<<c, m>>, p>> \in keys OBVIOUS
  <2>3. f[<<<<c, m>>, p>>] = RouteAt(w, c, m, p) BY <2>2
  <2>. QED BY <2>1, <2>2, <2>3
<1>. HIDE DEF T
<1>. QED BY <1>3, <1>4, FS_Subset

\* What a route is.
LEMMA RouteFacts ==
  ASSUME NEW w \in World, NEW r \in Snapshot(w)
  PROVE  /\ r.model \in Nat /\ r.profile \in {0, Profile} /\ r.cap \in Capability
         /\ IsText(r.cap) => r.model \in w.models /\ r.need = None /\ r.free = None
         /\ ~IsText(r.cap) => r.model \in w.images /\ r.need = Need[r.model] /\ r.free = w.free
         /\ r.need \in Nat \cup {None} /\ r.free \in Nat \cup {None}
<1>1. PICK c \in Capability, m \in Model \cup ImageModel, p \in {0, Profile} :
        r = RouteAt(w, c, m, p) /\ m \in (IF IsText(c) THEN w.models ELSE w.images)
  BY RoutesHaveKeys
<1>2. w.models \subseteq Model /\ w.images \subseteq ImageModel /\ w.free \in Nat \cup {None}
  BY MemoryAssumption DEF World
<1>3. CASE IsText(c)
  <2>1. r.cap = c /\ r.model = m /\ r.profile = p /\ r.need = None /\ r.free = None
    BY <1>1, <1>3 DEF RouteAt, TextRoute, ImageRoute, Route
  <2>. QED BY <1>1, <1>2, <1>3, <2>1, ModelAssumption
<1>4. CASE ~IsText(c)
  <2>1. r.cap = "image.generate" /\ r.model = m /\ r.profile = 0 /\ r.need = Need[m] /\ r.free = w.free
    BY <1>1, <1>4 DEF RouteAt, TextRoute, ImageRoute, Route
  <2>2. ~IsText("image.generate") /\ "image.generate" \in Capability BY DEF IsText, Capability
  <2>. QED BY <1>1, <1>2, <1>4, <2>1, <2>2, ModelAssumption, MemoryAssumption
<1>. QED BY <1>3, <1>4

-----------------------------------------------------------------------------
(* Planning: the resolver.                                                 *)

\* A route without a reason against it.
LEMMA NoReason ==
  ASSUME NEW req, NEW r
  PROVE  Reasons(req, r) = {} <=>
           /\ r.status # "failed"
           /\ req.profile # None => r.profile = req.profile
           /\ req.ins \subseteq Accepts(r.cap) /\ req.outs \subseteq Produces(r.cap)
           /\ ~((r.need = None \/ r.free = None) /\ req.policy = "reject")
           /\ ~(r.need # None /\ r.free # None /\ WithHeadroom(r.need) > r.free)
           /\ req.mode = "manual" => r.model = req.model
<1>. DEFINE whys == {"failed", "profile", "input", "output", "unknown", "resources", "model"}
            A == r.status = "failed"
            B == req.profile # None /\ r.profile # req.profile
            C == ~(req.ins \subseteq Accepts(r.cap))
            D == ~(req.outs \subseteq Produces(r.cap))
            E == (r.need = None \/ r.free = None) /\ req.policy = "reject"
            F == r.need # None /\ r.free # None /\ WithHeadroom(r.need) > r.free
            G == req.mode = "manual" /\ r.model # req.model
            Why(why) ==
              \/ why = "failed" /\ A
              \/ why = "profile" /\ B
              \/ why = "input" /\ C
              \/ why = "output" /\ D
              \/ why = "unknown" /\ E
              \/ why = "resources" /\ F
              \/ why = "model" /\ G
<1>1. Reasons(req, r) = {why \in whys : Why(why)} BY DEF Reasons
<1>2. (\A why \in whys : ~Why(why)) <=> ~A /\ ~B /\ ~C /\ ~D /\ ~E /\ ~F /\ ~G
  <2>. HIDE DEF A, B, C, D, E, F, G
  <2>. QED OBVIOUS
<1>3. Reasons(req, r) = {} <=> \A why \in whys : ~Why(why) BY <1>1
<1>. HIDE DEF whys, Why
<1>. QED BY <1>2, <1>3

\* Where a rank is first better.
LEMMA Ranks ==
  ASSUME NEW req, NEW w \in World, NEW r \in Snapshot(w)
  PROVE  /\ RankOf(req, r)[1] \in Nat /\ RankOf(req, r)[2] \in Nat /\ RankOf(req, r)[3] \in Nat
         /\ RankOf(req, r)[4] \in Nat
<1>1. IdOf(r) \in Nat
  <2>1. r.profile \in {0, Profile} /\ (IsText(r.cap) => r.model \in w.models) /\ (~IsText(r.cap) => r.model \in w.images)
    BY RouteFacts
  <2>2. w.models \subseteq Model /\ w.images \subseteq ImageModel BY DEF World
  <2>3. <<r.model, r.profile>> \in Hashed BY <2>1, <2>2 DEF Hashed
  <2>. QED BY <2>3, IdAssumption DEF IdOf
<1>2. DEFINE x == IF req.verified /\ r.status = "verified" THEN 0 ELSE 1
             y == IF req.prefer # None /\ r.model = req.prefer THEN 0 ELSE 1
             z == IF req.preferProfile # None /\ r.profile = req.preferProfile THEN 0 ELSE 1
<1>3. x \in Nat /\ y \in Nat /\ z \in Nat OBVIOUS
<1>4. RankOf(req, r) = <<x, y, z, IdOf(r)>> BY DEF RankOf
<1>. HIDE DEF x, y, z
<1>. QED BY <1>1, <1>3, <1>4

\* The members of a set that are minimal for a number.
LEMMA Least ==
  ASSUME NEW S, S # {}, NEW f, \A x \in S : f[x] \in Nat
  PROVE  \E x \in S : \A y \in S : f[x] <= f[y]
<1>. DEFINE N == {f[x] : x \in S}
<1>1. N \in SUBSET Nat /\ N # {} OBVIOUS
<1>2. PICK n \in N : \A m \in N : n <= m
  <2>. HIDE DEF N
  <2>. QED BY <1>1, Smallest
<1>. QED BY <1>2

\* Of routes that are eligible one is the best: no other is better.
LEMMA BestExists ==
  ASSUME NEW req, NEW w \in World, Eligible(req, Snapshot(w)) # {}
  PROVE  \E r \in Eligible(req, Snapshot(w)) : Better(req, r, Snapshot(w)) = {}
<1>. DEFINE E == Eligible(req, Snapshot(w))
            f(k) == [r \in E |-> RankOf(req, r)[k]]
            Lowest(S, k) == {x \in S : \A y \in S : f(k)[x] <= f(k)[y]}
            E1 == Lowest(E, 1)
            E2 == Lowest(E1, 2)
            E3 == Lowest(E2, 3)
            E4 == Lowest(E3, 4)
<1>1. \A r \in E : f(1)[r] \in Nat /\ f(2)[r] \in Nat /\ f(3)[r] \in Nat /\ f(4)[r] \in Nat
  BY Ranks DEF Eligible
<1>2. ASSUME NEW S \in SUBSET E, S # {}, NEW k \in 1..4 PROVE Lowest(S, k) # {} /\ Lowest(S, k) \subseteq S
  <2>1. \A x \in S : f(k)[x] \in Nat BY <1>1
  <2>. DEFINE g == f(k)
  <2>. HIDE DEF f
  <2>2. \E x \in S : \A y \in S : g[x] <= g[y]
    <3>. HIDE DEF g
    <3>. QED BY <1>2, <2>1, Least DEF g
  <2>. QED BY <2>2
<1>3. E1 # {} /\ E1 \subseteq E
  <2>. HIDE DEF Lowest, E
  <2>1. E # {} BY DEF E
  <2>. QED BY <2>1, <1>2
<1>4. E2 # {} /\ E2 \subseteq E1
  <2>. HIDE DEF Lowest, E, E1
  <2>. QED BY <1>3, <1>2
<1>5. E3 # {} /\ E3 \subseteq E2
  <2>. HIDE DEF Lowest, E, E1, E2
  <2>. QED BY <1>3, <1>4, <1>2
<1>6. E4 # {} /\ E4 \subseteq E3
  <2>. HIDE DEF Lowest, E, E1, E2, E3
  <2>. QED BY <1>3, <1>4, <1>5, <1>2
<1>. HIDE DEF E4
<1>7. PICK r \in E4 : TRUE BY <1>6
<1>8. r \in E3 /\ r \in E2 /\ r \in E1 /\ r \in E BY <1>3, <1>4, <1>5, <1>6, <1>7
<1>9. ASSUME NEW e \in E, Before(RankOf(req, e), RankOf(req, r)) PROVE FALSE
  <2>. DEFINE a == RankOf(req, e)
              b == RankOf(req, r)
  <2>1. a[1] \in Nat /\ a[2] \in Nat /\ a[3] \in Nat /\ a[4] \in Nat
    <3>. QED BY Ranks DEF Eligible
  <2>2. b[1] \in Nat /\ b[2] \in Nat /\ b[3] \in Nat /\ b[4] \in Nat
    BY <1>8, Ranks DEF Eligible
  <2>3. b[1] <= a[1] BY <1>8
  <2>4. a[1] = b[1] => e \in E1
    <3>1. ASSUME a[1] = b[1], NEW y \in E PROVE f(1)[e] <= f(1)[y]
      BY <1>8, <3>1
    <3>. QED BY <3>1
  <2>5. a[1] = b[1] => b[2] <= a[2] BY <1>8, <2>4
  <2>6. a[1] = b[1] /\ a[2] = b[2] => e \in E2
    <3>1. ASSUME a[1] = b[1], a[2] = b[2], NEW y \in E1 PROVE f(2)[e] <= f(2)[y]
      BY <1>8, <3>1
    <3>. QED BY <3>1, <2>4
  <2>7. a[1] = b[1] /\ a[2] = b[2] => b[3] <= a[3] BY <1>8, <2>6
  <2>8. a[1] = b[1] /\ a[2] = b[2] /\ a[3] = b[3] => e \in E3
    <3>1. ASSUME a[1] = b[1], a[2] = b[2], a[3] = b[3], NEW y \in E2 PROVE f(3)[e] <= f(3)[y]
      BY <1>8, <3>1
    <3>. QED BY <3>1, <2>6
  <2>9. a[1] = b[1] /\ a[2] = b[2] /\ a[3] = b[3] => b[4] <= a[4]
    BY <1>7, <1>8, <2>8 DEF E4
  <2>10. PICK k \in DOMAIN a : a[k] < b[k] /\ \A j \in 1..(k - 1) : a[j] = b[j]
    BY <1>9 DEF Before
  <2>11. k \in 1..4 BY <2>10 DEF RankOf
  <2>. HIDE DEF a, b, E, f, E1, E2, E3
  <2>12. CASE k = 1 BY <2>1, <2>2, <2>3, <2>10, <2>12
  <2>13. CASE k = 2
    <3>1. a[1] = b[1] BY <2>10, <2>13
    <3>. QED BY <3>1, <2>1, <2>2, <2>5, <2>10, <2>13
  <2>14. CASE k = 3
    <3>1. a[1] = b[1] /\ a[2] = b[2] BY <2>10, <2>14
    <3>. QED BY <3>1, <2>1, <2>2, <2>7, <2>10, <2>14
  <2>15. CASE k = 4
    <3>1. a[1] = b[1] /\ a[2] = b[2] /\ a[3] = b[3] BY <2>10, <2>15
    <3>. QED BY <3>1, <2>1, <2>2, <2>9, <2>10, <2>15
  <2>. QED BY <2>11, <2>12, <2>13, <2>14, <2>15
<1>10. Better(req, r, Snapshot(w)) = {} BY <1>9 DEF Better
<1>. QED BY <1>8, <1>10

\* A request has a route if one is eligible, and its first route is.
LEMMA Resolves ==
  ASSUME NEW req, NEW w \in World
  PROVE  LET E == Eligible(req, Snapshot(w))
             found == Resolve(req, Snapshot(w))
         IN /\ found # <<>> <=> E # {}
            /\ found # <<>> => 1 \in DOMAIN found /\ found[1] \in E
<1>. DEFINE E == Eligible(req, Snapshot(w))
            found == Resolve(req, Snapshot(w))
<1>1. IsFiniteSet(E)
  <2>1. E \in SUBSET Snapshot(w) BY DEF Eligible
  <2>. HIDE DEF E
  <2>. QED BY <2>1, RoutesAreFinite, FS_Subset
<1>. DEFINE n == Cardinality(E)
<1>2. n \in Nat /\ (n = 0 <=> E = {})
  <2>. HIDE DEF E
  <2>. QED BY <1>1, FS_CardinalityType, FS_EmptySet
<1>3. found = [k \in 1..n |-> CHOOSE r \in E : Cardinality(Better(req, r, Snapshot(w))) = k - 1]
  BY DEF Resolve
<1>4. found # <<>> <=> E # {}
  <2>. DEFINE pick(k) == CHOOSE r \in E : Cardinality(Better(req, r, Snapshot(w))) = k - 1
  <2>1. found = [k \in 1..n |-> pick(k)] BY <1>3
  <2>. HIDE DEF pick, E, found, n
  <2>2. CASE n = 0
    <3>1. 1..n = {} BY <2>2
    <3>2. found = <<>> BY <2>1, <3>1
    <3>. QED BY <3>2, <2>2, <1>2
  <2>3. CASE n # 0
    <3>1. 1 \in 1..n BY <1>2, <2>3
    <3>2. DOMAIN found = 1..n BY <2>1
    <3>3. DOMAIN <<>> = {} OBVIOUS
    <3>. QED BY <3>1, <3>2, <3>3, <2>3, <1>2
  <2>. QED BY <2>2, <2>3
<1>5. ASSUME E # {} PROVE 1 \in DOMAIN found /\ found[1] \in E
  <2>1. 1 \in 1..n
    <3>. HIDE DEF E, n
    <3>. QED BY <1>2, <1>5
  <2>2. found[1] = CHOOSE r \in E : Cardinality(Better(req, r, Snapshot(w))) = 1 - 1
    <3>. HIDE DEF E, n, found
    <3>. QED BY <2>1, <1>3
  <2>3. \E r \in E : Cardinality(Better(req, r, Snapshot(w))) = 0
    BY <1>5, BestExists, FS_EmptySet
  <2>. QED BY <2>1, <2>2, <2>3, <1>3
<1>. QED BY <1>4, <1>5

-----------------------------------------------------------------------------
(* Planning: plans.                                                        *)

\* What a plan has for a node: its routes, the best first, and the reasons
\* against all others.
Found(q, n, v, w) == Resolve(RequestOf(q, n, w), Snapshot(v))
Against(q, n, v, w) ==
  {<<[r EXCEPT !.load = 0], Reasons(RequestOf(q, n, w), r)>> : r \in {x \in Snapshot(v) : x.cap = n.cap}}
Feasible(q, v, w) ==
  \A n \in RouteNodes[q.skill] :
    /\ n.ins # {} /\ \E r \in Snapshot(v) : r.cap = n.cap
    /\ RequestOf(q, n, w).mode \in {"auto", "manual"}
    /\ RequestOf(q, n, w).mode = "manual" => PinOf(q, n, w) # None
    /\ Found(q, n, v, w) # <<>>
Chosen(q, v, w) ==
  [routes |-> {<<n.id, Found(q, n, v, w)[1]>> : n \in RouteNodes[q.skill]},
   id |-> [skill |-> q.skill, mode |-> First(q.mode, w.mode), preferences |-> Preferences(w),
           routes |-> {<<n.id, [k \in DOMAIN Found(q, n, v, w) |-> [Found(q, n, v, w)[k] EXCEPT !.load = 0]],
                         Against(q, n, v, w)>> : n \in RouteNodes[q.skill]}]]

LEMMA PlanIsChosen ==
  ASSUME NEW q, NEW v, NEW w
  PROVE  Plan(q, Snapshot(v), w) = IF Feasible(q, v, w) THEN Chosen(q, v, w) ELSE None
BY DEF Plan, Feasible, Chosen, Found, Against

\* A plan, taken from the routes of v with the preferences of w.
Made(plan, q, v, w) == plan = Plan(q, Snapshot(v), w) /\ plan # None

LEMMA MadeFacts ==
  ASSUME NEW q, NEW v, NEW w, NEW plan, Made(plan, q, v, w)
  PROVE  plan = Chosen(q, v, w) /\ Feasible(q, v, w)
BY PlanIsChosen DEF Made

\* The route of a node is eligible.
LEMMA BestIsEligible ==
  ASSUME NEW q, NEW v \in World, NEW w, Feasible(q, v, w), NEW n \in RouteNodes[q.skill]
  PROVE  /\ 1 \in DOMAIN Found(q, n, v, w)
         /\ Found(q, n, v, w)[1] \in Snapshot(v)
         /\ Found(q, n, v, w)[1].cap = n.cap
         /\ Reasons(RequestOf(q, n, w), Found(q, n, v, w)[1]) = {}
<1>1. Found(q, n, v, w) # <<>> BY DEF Feasible
<1>2. 1 \in DOMAIN Found(q, n, v, w) /\ Found(q, n, v, w)[1] \in Eligible(RequestOf(q, n, w), Snapshot(v))
  BY <1>1, Resolves DEF Found
<1>. DEFINE r == Found(q, n, v, w)[1]
<1>3. r \in Eligible(RequestOf(q, n, w), Snapshot(v)) BY <1>2
<1>4. RequestOf(q, n, w).cap = n.cap BY DEF RequestOf
<1>. HIDE DEF r
<1>5. r \in Snapshot(v) /\ r.cap = RequestOf(q, n, w).cap /\ Reasons(RequestOf(q, n, w), r) = {}
  BY <1>3 DEF Eligible
<1>. QED BY <1>2, <1>4, <1>5 DEF r

\* What is compared tells what runs: with the same id the same routes.
LEMMA SameIdSameRoutes ==
  ASSUME NEW q, NEW v \in World, NEW w, NEW plan, Made(plan, q, v, w),
         NEW p, NEW t \in World, NEW u, NEW other, Made(other, p, t, u), plan.id = other.id
  PROVE  Summaries(plan) = Summaries(other)
<1>. DEFINE Heads(d) == {<<y[1], y[2][1]>> : y \in d.routes}
<1>1. ASSUME NEW a, NEW b \in World, NEW c, NEW x, Made(x, a, b, c) PROVE Summaries(x) = Heads(x.id)
  <2>1. x = Chosen(a, b, c) /\ Feasible(a, b, c) BY <1>1, MadeFacts
  <2>. DEFINE found(n) == Found(a, n, b, c)
              outline(n) == [k \in DOMAIN found(n) |-> [found(n)[k] EXCEPT !.load = 0]]
              against(n) == Against(a, n, b, c)
              N == RouteNodes[a.skill]
  <2>2. x.routes = {<<n.id, found(n)[1]>> : n \in N}
        /\ x.id.routes = {<<n.id, outline(n), against(n)>> : n \in N}
    BY <2>1 DEF Chosen
  <2>3. ASSUME NEW n \in N PROVE outline(n)[1] = [found(n)[1] EXCEPT !.load = 0]
    <3>1. 1 \in DOMAIN found(n) BY <2>1, BestIsEligible
    <3>. QED BY <3>1
  <2>. HIDE DEF found, outline, against, N
  <2>4. ASSUME NEW y \in Summaries(x) PROVE y \in Heads(x.id)
    <3>1. PICK z \in x.routes : y = <<z[1], [z[2] EXCEPT !.load = 0]>> BY <2>4 DEF Summaries
    <3>2. PICK n \in N : z = <<n.id, found(n)[1]>> BY <2>2, <3>1
    <3>3. y = <<n.id, [found(n)[1] EXCEPT !.load = 0]>> BY <3>1, <3>2
    <3>4. y = <<n.id, outline(n)[1]>> BY <3>3, <2>3
    <3>5. <<n.id, outline(n), against(n)>> \in x.id.routes BY <2>2
    <3>. DEFINE e == <<n.id, outline(n), against(n)>>
    <3>6. y = <<e[1], e[2][1]>> BY <3>4
    <3>. QED BY <3>5, <3>6
  <2>5. ASSUME NEW y \in Heads(x.id) PROVE y \in Summaries(x)
    <3>1. PICK z \in x.id.routes : y = <<z[1], z[2][1]>> BY <2>5
    <3>2. PICK n \in N : z = <<n.id, outline(n), against(n)>> BY <2>2, <3>1
    <3>3. y = <<n.id, outline(n)[1]>> BY <3>1, <3>2
    <3>4. y = <<n.id, [found(n)[1] EXCEPT !.load = 0]>> BY <3>3, <2>3
    <3>. DEFINE e == <<n.id, found(n)[1]>>
    <3>5. e \in x.routes BY <2>2
    <3>6. y = <<e[1], [e[2] EXCEPT !.load = 0]>> BY <3>4
    <3>. HIDE DEF e
    <3>. QED BY <3>5, <3>6 DEF Summaries
  <2>. HIDE DEF Heads
  <2>. QED BY <2>4, <2>5
<1>2. Summaries(plan) = Heads(plan.id) BY <1>1
<1>3. Summaries(other) = Heads(other.id) BY <1>1
<1>. QED BY <1>2, <1>3

\* What a request asks of a route in the name of a node: the pin, if there is
\* one, and the profile.
LEMMA RequestFacts ==
  ASSUME NEW q, NEW n, NEW w
  PROVE  LET req == RequestOf(q, n, w) IN
         /\ req.cap = n.cap /\ req.model = PinOf(q, n, w) /\ req.ins = n.ins /\ req.outs = n.outs
         /\ req.policy = w.policy
         /\ req.profile = IF IsText(n.cap) THEN q.profile ELSE None
         /\ req.mode = IF PinOf(q, n, w) # None THEN "manual" ELSE First(q.mode, w.mode)
BY DEF RequestOf

\* The strongest of the pins of a node is its pin; without any it is what is
\* saved, in manual mode.
LEMMA StrongestPin ==
  ASSUME NEW q, NEW n, NEW w
  PROVE  LET pins == PinsFor(q, n)
             Strongest(k) == pins[k] # None /\ \A j \in 1..(k - 1) : pins[j] = None
         IN /\ DOMAIN pins = 1..3
            /\ \A k \in DOMAIN pins : Strongest(k) => PinOf(q, n, w) = pins[k] /\ pins[k] # None
            /\ (\A k \in DOMAIN pins : pins[k] = None) /\ First(q.mode, w.mode) = "manual"
                 => PinOf(q, n, w) = w.saved[n.cap]
<1>. DEFINE a == IF IsText(n.cap) THEN q.model ELSE None
            b == IF q.pins # None /\ q.pins.cap = n.cap THEN q.pins.model ELSE None
            c == n.model
            pin == First(a, First(b, c))
            Strongest(k) == PinsFor(q, n)[k] # None /\ \A j \in 1..(k - 1) : PinsFor(q, n)[j] = None
<1>1. PinsFor(q, n) = <<a, b, c>> BY DEF PinsFor
<1>2. PinOf(q, n, w) = IF pin = None /\ First(q.mode, w.mode) = "manual" THEN w.saved[n.cap] ELSE pin
  BY DEF PinOf
<1>. HIDE DEF a, b, c
<1>3. DOMAIN PinsFor(q, n) = 1..3 /\ PinsFor(q, n)[1] = a /\ PinsFor(q, n)[2] = b /\ PinsFor(q, n)[3] = c
  BY <1>1
<1>4. ASSUME NEW k \in 1..3, Strongest(k) PROVE PinOf(q, n, w) = PinsFor(q, n)[k]
  <2>1. CASE k = 1
    <3>1. a # None BY <1>3, <1>4, <2>1
    <3>. QED BY <3>1, <2>1, <1>2, <1>3 DEF First
  <2>2. CASE k = 2
    <3>1. 1 \in 1..(k - 1) BY <2>2
    <3>2. a = None /\ b # None BY <1>3, <1>4, <2>2, <3>1
    <3>. QED BY <3>2, <2>2, <1>2, <1>3 DEF First
  <2>3. CASE k = 3
    <3>1. 1 \in 1..(k - 1) /\ 2 \in 1..(k - 1) BY <2>3
    <3>2. a = None /\ b = None /\ c # None BY <1>3, <1>4, <2>3, <3>1
    <3>. QED BY <3>2, <2>3, <1>2, <1>3 DEF First
  <2>. QED BY <2>1, <2>2, <2>3
<1>5. ASSUME \A k \in 1..3 : PinsFor(q, n)[k] = None, First(q.mode, w.mode) = "manual"
      PROVE  PinOf(q, n, w) = w.saved[n.cap]
  <2>1. a = None /\ b = None /\ c = None BY <1>3, <1>5
  <2>2. pin = None BY <2>1 DEF First
  <2>. QED BY <2>2, <1>2, <1>5
<1>6. ASSUME NEW k \in 1..3, Strongest(k) PROVE PinsFor(q, n)[k] # None BY <1>6
<1>. QED BY <1>3, <1>4, <1>5, <1>6

\* A margin that is rounded up is a margin.
LEMMA Margin ==
  ASSUME NEW need \in Nat, NEW free \in Nat, ~(WithHeadroom(need) > free)
  PROVE  need * (100 + Headroom) <= 100 * free
<1>. DEFINE z == need * (100 + Headroom)
<1>1. z \in Nat BY HeadroomAssumption
<1>2. WithHeadroom(need) = (z + 99) \div 100 BY DEF WithHeadroom
<1>. HIDE DEF z
<1>3. (z + 99) \div 100 <= free BY <1>1, <1>2
<1>4. z <= 100 * free BY <1>1, <1>3
<1>. QED BY <1>4 DEF z

\* Plans keep the pins of their request, fit the memory that was free and route
\* every node once.
LEMMA PlanKeepsPins ==
  ASSUME NEW q \in Asks, NEW v \in World, NEW w \in World, NEW plan, Made(plan, q, v, w)
  PROVE  KeepsPins(plan, q)
<1>. DEFINE N == RouteNodes[q.skill]
            best(n) == Found(q, n, v, w)[1]
<1>1. plan = Chosen(q, v, w) /\ Feasible(q, v, w) BY MadeFacts
<1>2. plan.routes = {<<n.id, best(n)>> : n \in N} /\ plan.id.mode = First(q.mode, w.mode)
      /\ plan.id.preferences.saved = w.saved
  BY <1>1 DEF Chosen, Preferences
<1>3. ASSUME NEW x \in plan.routes, NEW n \in N, x[1] = n.id PROVE x[2] = best(n)
  <2>1. PICK m \in N : x = <<m.id, best(m)>> BY <1>2
  <2>2. q.skill \in DOMAIN Installed BY DEF Asks
  <2>3. m = n BY <1>3, <2>1, <2>2, NodeAssumption
  <2>. HIDE DEF best
  <2>. QED BY <2>1, <2>3
<1>4. ASSUME NEW n \in N, PinOf(q, n, w) # None PROVE best(n).model = PinOf(q, n, w)
  <2>1. Reasons(RequestOf(q, n, w), best(n)) = {} BY <1>1, BestIsEligible
  <2>2. RequestOf(q, n, w).mode = "manual" => best(n).model = RequestOf(q, n, w).model
    BY <2>1, NoReason
  <2>. QED BY <2>2, <1>4, RequestFacts
<1>5. ASSUME NEW n \in N, IsText(n.cap), q.profile # None PROVE best(n).profile = q.profile
  <2>1. Reasons(RequestOf(q, n, w), best(n)) = {} BY <1>1, BestIsEligible
  <2>2. RequestOf(q, n, w).profile # None => best(n).profile = RequestOf(q, n, w).profile
    BY <2>1, NoReason
  <2>. QED BY <2>2, <1>5, RequestFacts
<1>6. ASSUME NEW n \in N, First(q.mode, w.mode) = "manual" PROVE PinOf(q, n, w) # None
  <2>1. RequestOf(q, n, w).mode = "manual" BY <1>6, RequestFacts
  <2>. QED BY <2>1, <1>1 DEF Feasible
<1>7. ASSUME NEW x \in plan.routes, NEW n \in N, x[1] = n.id
      PROVE  LET pins == PinsFor(q, n)
                 Strongest(k) == pins[k] # None /\ \A j \in 1..(k - 1) : pins[j] = None
             IN /\ \A k \in DOMAIN pins : Strongest(k) => x[2].model = pins[k]
                /\ (\A k \in DOMAIN pins : pins[k] = None) /\ plan.id.mode = "manual"
                     => x[2].model = plan.id.preferences.saved[n.cap]
                /\ IsText(n.cap) /\ q.profile # None => x[2].profile = q.profile
  <2>. DEFINE pins == PinsFor(q, n)
              Strongest(k) == pins[k] # None /\ \A j \in 1..(k - 1) : pins[j] = None
  <2>1. x[2] = best(n) BY <1>3, <1>7
  <2>2. ASSUME NEW k \in DOMAIN pins, Strongest(k) PROVE x[2].model = pins[k]
    <3>1. PinOf(q, n, w) = pins[k] /\ pins[k] # None BY <2>2, StrongestPin
    <3>. HIDE DEF best, pins
    <3>. QED BY <3>1, <2>1, <1>4
  <2>3. ASSUME \A k \in DOMAIN pins : pins[k] = None, plan.id.mode = "manual"
        PROVE  x[2].model = plan.id.preferences.saved[n.cap]
    <3>1. First(q.mode, w.mode) = "manual" BY <2>3, <1>2
    <3>2. PinOf(q, n, w) = w.saved[n.cap] BY <2>3, <3>1, StrongestPin
    <3>3. PinOf(q, n, w) # None BY <3>1, <1>6
    <3>. HIDE DEF best
    <3>. QED BY <3>2, <3>3, <2>1, <1>2, <1>4
  <2>4. IsText(n.cap) /\ q.profile # None => x[2].profile = q.profile
    <3>. HIDE DEF best
    <3>. QED BY <2>1, <1>5
  <2>. QED BY <2>2, <2>3, <2>4
<1>. QED BY <1>7 DEF KeepsPins

LEMMA PlanFits ==
  ASSUME NEW q \in Asks, NEW v \in World, NEW w \in World, NEW plan, Made(plan, q, v, w)
  PROVE  FitsMemory(plan)
<1>1. plan = Chosen(q, v, w) /\ Feasible(q, v, w) BY MadeFacts
<1>2. ASSUME NEW x \in plan.routes, x[2].need # None, x[2].free # None
      PROVE  x[2].need * (100 + Headroom) <= 100 * x[2].free
  <2>1. PICK n \in RouteNodes[q.skill] : x = <<n.id, Found(q, n, v, w)[1]>> BY <1>1 DEF Chosen
  <2>. DEFINE r == Found(q, n, v, w)[1]
  <2>2. r \in Snapshot(v) /\ Reasons(RequestOf(q, n, w), r) = {} BY <1>1, BestIsEligible
  <2>. HIDE DEF r
  <2>3. x[2] = r BY <2>1 DEF r
  <2>4. r.need \in Nat /\ r.free \in Nat BY <1>2, <2>2, <2>3, RouteFacts
  <2>5. ~(WithHeadroom(r.need) > r.free) BY <1>2, <2>2, <2>3, NoReason
  <2>. QED BY <2>3, <2>4, <2>5, Margin
<1>. QED BY <1>2 DEF FitsMemory

LEMMA PlanRoutesOnce ==
  ASSUME NEW q \in Asks, NEW v \in World, NEW w \in World, NEW plan, Made(plan, q, v, w)
  PROVE  IsPlan(plan, q.skill)
<1>. DEFINE N == RouteNodes[q.skill]
            best(n) == Found(q, n, v, w)[1]
            f == [n \in N |-> <<n.id, best(n)>>]
<1>1. plan = Chosen(q, v, w) BY MadeFacts
<1>2. plan.routes = {<<n.id, best(n)>> : n \in N} BY <1>1 DEF Chosen
<1>3. q.skill \in DOMAIN Installed BY DEF Asks
<1>4. IsFiniteSet(N) /\ \A n, m \in N : n.id = m.id => n = m BY <1>3, NodeAssumption
<1>. HIDE DEF N, best
<1>5. f \in Surjection(N, plan.routes) BY <1>2 DEF Surjection
<1>6. f \in Injection(N, plan.routes)
  <2>1. ASSUME NEW n \in N, NEW m \in N, f[n] = f[m] PROVE n = m
    <3>1. <<n.id, best(n)>> = <<m.id, best(m)>> BY <2>1
    <3>2. n.id = m.id BY <3>1
    <3>. QED BY <3>2, <1>4
  <2>2. f \in [N -> plan.routes] BY <1>2
  <2>. HIDE DEF f
  <2>. QED BY <2>1, <2>2 DEF Injection, IsInjective
<1>7. Cardinality(plan.routes) = Cardinality(N)
  <2>. HIDE DEF f
  <2>. QED BY <1>4, <1>5, <1>6, FS_Surjection
<1>8. {x[1] : x \in plan.routes} = {n.id : n \in N}
  <2>1. ASSUME NEW x \in plan.routes PROVE x[1] \in {n.id : n \in N} BY <1>2
  <2>2. ASSUME NEW n \in N PROVE \E x \in plan.routes : x[1] = n.id
    <3>1. <<n.id, best(n)>> \in plan.routes BY <1>2
    <3>. QED BY <3>1
  <2>. QED BY <2>1, <2>2
<1>. QED BY <1>7, <1>8 DEF IsPlan, N

-----------------------------------------------------------------------------
(* Planning: the catalog.                                                  *)

\* The margin of the catalog is that of the resolver.
LEMMA SmallIsSmall ==
  ASSUME NEW c, NEW m, NEW w
  PROVE  TooSmall(c, m, w) <=>
           ~IsText(c) /\ Need[m] # None /\ w.free # None /\ WithHeadroom(Need[m]) > w.free
BY DEF TooSmall, WithHeadroom

\* What can be planned is ready.
LEMMA PlannedIsReady ==
  ASSUME NEW q \in Asks, NEW w \in World, NEW plan, Made(plan, q, w, w)
  PROVE  Ready(q.skill, w)
<1>1. Feasible(q, w, w) BY MadeFacts
<1>2. ASSUME NEW n \in RouteNodes[q.skill]
      PROVE  Supported(n.cap, w) /\ \E m \in Listed(n.cap, w) : ~TooSmall(n.cap, m, w)
  <2>. DEFINE r == Found(q, n, w, w)[1]
  <2>1. r \in Snapshot(w) /\ r.cap = n.cap /\ Reasons(RequestOf(q, n, w), r) = {} BY <1>1, BestIsEligible
  <2>. HIDE DEF r
  <2>2. r.model \in Listed(n.cap, w) BY <2>1, RouteFacts DEF Listed
  <2>3. ~TooSmall(n.cap, r.model, w)
    <3>1. CASE IsText(n.cap) BY <3>1, SmallIsSmall
    <3>2. CASE ~IsText(n.cap)
      <4>1. r.need = Need[r.model] /\ r.free = w.free BY <3>2, <2>1, RouteFacts
      <4>2. ~(r.need # None /\ r.free # None /\ WithHeadroom(r.need) > r.free) BY <2>1, NoReason
      <4>. QED BY <4>1, <4>2, SmallIsSmall
    <3>. QED BY <3>1, <3>2
  <2>. QED BY <2>2, <2>3 DEF Supported
<1>. QED BY <1>2 DEF Ready

\* The nodes of skills take and give what their capability does; None is not a
\* plan.
NodesFit ==
  \A s \in DOMAIN Installed : \A n \in RouteNodes[s] :
    n.ins # {} /\ n.ins \subseteq Accepts(n.cap) /\ n.outs \subseteq Produces(n.cap)
NoneIsNoPlan == \A routes, id : None # [routes |-> routes, id |-> id]

\* What is listed has a route.
LEMMA ListedHasRoute ==
  ASSUME NEW w \in World, NEW c \in Capability, NEW m \in Listed(c, w)
  PROVE  LET r == IF IsText(c) THEN TextRoute(w, c, m, 0) ELSE ImageRoute(w, m)
         IN r \in Snapshot(w) /\ r.cap = c /\ r.model = m /\ r.status # "failed"
            /\ r.need = (IF IsText(c) THEN None ELSE Need[m]) /\ r.free = (IF IsText(c) THEN None ELSE w.free)
<1>1. CASE IsText(c)
  <2>1. m \in w.models BY <1>1 DEF Listed
  <2>2. 0 \in Profiles(w, c, m) BY DEF Profiles
  <2>3. TextRoute(w, c, m, 0) \in Variants(w, c, m) BY <2>2 DEF Variants
  <2>4. TextRoute(w, c, m, 0) \in TextRoutes(w) BY <1>1, <2>1, <2>3 DEF TextRoutes
  <2>. QED BY <1>1, <2>4 DEF Snapshot, TextRoute, Route
<1>2. CASE ~IsText(c)
  <2>1. m \in w.images /\ c = "image.generate" BY <1>2 DEF Listed, Capability, IsText
  <2>. QED BY <1>2, <2>1 DEF Snapshot, ImageRoute, Route
<1>. QED BY <1>1, <1>2

\* What is ready can be planned.
LEMMA ReadyIsPlanned ==
  ASSUME NodesFit, NoneIsNoPlan, NEW w \in World, NEW s \in DOMAIN Installed,
         Ready(s, w), w.mode = "auto", w.policy = "allow", PinsNothing(s)
  PROVE  Plan(Plain(s), Snapshot(w), w) # None
<1>. DEFINE q == Plain(s)
<1>1. q.skill = s /\ q.mode = None /\ q.model = None /\ q.profile = None /\ q.pins = None BY DEF Plain
<1>. HIDE DEF q
<1>2. ASSUME NEW n \in RouteNodes[s]
      PROVE  /\ n.ins # {} /\ \E r \in Snapshot(w) : r.cap = n.cap
             /\ RequestOf(q, n, w).mode = "auto"
             /\ Found(q, n, w, w) # <<>>
  <2>1. n.cap \in Capability BY NodeAssumption
  <2>2. PICK m \in Listed(n.cap, w) : ~TooSmall(n.cap, m, w) BY DEF Ready
  <2>. DEFINE r == IF IsText(n.cap) THEN TextRoute(w, n.cap, m, 0) ELSE ImageRoute(w, m)
              req == RequestOf(q, n, w)
  <2>3. r \in Snapshot(w) /\ r.cap = n.cap /\ r.model = m /\ r.status # "failed"
        /\ r.need = (IF IsText(n.cap) THEN None ELSE Need[m]) /\ r.free = (IF IsText(n.cap) THEN None ELSE w.free)
    BY <2>1, ListedHasRoute
  <2>. HIDE DEF r
  <2>4. PinOf(q, n, w) = None
    <3>1. n.model = None BY DEF PinsNothing
    <3>2. First(q.mode, w.mode) = "auto" BY <1>1 DEF First
    <3>. QED BY <1>1, <3>1, <3>2 DEF PinOf, First
  <2>5. First(q.mode, w.mode) = "auto" BY <1>1 DEF First
  <2>6. req.mode = "auto" /\ req.profile = None /\ req.policy = "allow" /\ req.cap = n.cap
        /\ req.ins = n.ins /\ req.outs = n.outs
    BY <1>1, <2>4, <2>5, RequestFacts
  <2>7. n.ins # {} /\ n.ins \subseteq Accepts(n.cap) /\ n.outs \subseteq Produces(n.cap) BY DEF NodesFit
  <2>8. ~(r.need # None /\ r.free # None /\ WithHeadroom(r.need) > r.free)
    <3>1. CASE IsText(n.cap) BY <3>1, <2>3
    <3>2. CASE ~IsText(n.cap) BY <3>2, <2>2, <2>3, SmallIsSmall
    <3>. QED BY <3>1, <3>2
  <2>9. Reasons(req, r) = {}
    <3>. HIDE DEF req
    <3>. QED BY <2>3, <2>6, <2>7, <2>8, NoReason
  <2>10. r \in Eligible(req, Snapshot(w)) BY <2>3, <2>6, <2>9 DEF Eligible
  <2>11. Found(q, n, w, w) # <<>> BY <2>10, Resolves DEF Found
  <2>. QED BY <2>3, <2>6, <2>7, <2>11
<1>3. Feasible(q, w, w) BY <1>1, <1>2 DEF Feasible
<1>4. Plan(q, Snapshot(w), w) = Chosen(q, w, w) BY <1>3, PlanIsChosen
<1>5. Chosen(q, w, w) # None BY DEF NoneIsNoPlan, Chosen
<1>. QED BY <1>4, <1>5 DEF q

LEMMA Agreement ==
  ASSUME NodesFit, NoneIsNoPlan, world \in World
  PROVE  CatalogAndPlannerAgree
<1>1. ASSUME NEW s \in DOMAIN Installed
      PROVE  LET planned == Plan(Plain(s), Snapshot(world), world) # None
             IN /\ planned => Ready(s, world)
                /\ Ready(s, world) /\ world.mode = "auto" /\ world.policy = "allow" /\ PinsNothing(s) => planned
  <2>1. Plain(s) \in Asks /\ Plain(s).skill = s BY DEF Plain, Asks
  <2>. DEFINE plan == Plan(Plain(s), Snapshot(world), world)
  <2>2. ASSUME plan # None PROVE Ready(s, world)
    <3>1. Made(plan, Plain(s), world, world) BY <2>2 DEF Made
    <3>. HIDE DEF plan
    <3>2. Ready(Plain(s).skill, world) BY <2>1, <3>1, PlannedIsReady
    <3>. QED BY <3>2, <2>1
  <2>3. ASSUME Ready(s, world), world.mode = "auto", world.policy = "allow", PinsNothing(s) PROVE plan # None
    BY <2>3, ReadyIsPlanned
  <2>. QED BY <2>2, <2>3
<1>. QED BY <1>1 DEF CatalogAndPlannerAgree

-----------------------------------------------------------------------------
(* Planning: the invariant.                                                *)

\* A draft has the routes of a world, of this one if nothing has moved.
Drafted ==
  draft # None =>
    /\ start = None /\ reviewed = None
    /\ \E q \in Requests, v \in World, b \in BOOLEAN :
         /\ draft = [request |-> q, routes |-> Snapshot(v), moved |-> b]
         /\ ~b => v = world

\* What a user has seen: a plan for the request or, after a draft, for it
\* without its pins, of the routes of one world and the preferences of another.
Asked(q) == {q, Unpinned(q)}
Seen(r) ==
  \E q \in Requests, v \in World, w \in World, b \in BOOLEAN : \E a \in Asked(q) :
    Made(r.plan, a, v, w) /\ r = Review(q, r.plan, a, b)
Reviewed ==
  reviewed # None =>
    /\ Seen(reviewed)
    /\ ~reviewed.moved => Made(reviewed.plan, reviewed.asked, world, world)

\* What is started is a plan for the request itself, of one world: this one, if
\* nothing has moved since.
Resolved(plan, review, v) == Made(plan, review.request, v, v) /\ plan.id = review.plan.id
Starting ==
  start # None =>
    /\ Seen(start.review)
    /\ start.refused \in {"", "unresolved", "changed", "not ready"}
    /\ \E b \in BOOLEAN : start = Started(start.plan, start.review, start.refused, b)
    /\ start.refused \in {"unresolved", "changed"} =>
         start.review.moved \/ start.review.asked # start.review.request
    /\ start.refused = "not ready" => start.moved
    /\ start.refused = "" =>
         \E v \in World : Resolved(start.plan, start.review, v) /\ (~start.moved => v = world)

Created ==
  run # None =>
    /\ Seen(run.review)
    /\ \E st \in {"queued", "loaded"} : run = [plan |-> run.plan, review |-> run.review, state |-> st]
    /\ \E v \in World : Resolved(run.plan, run.review, v)

PlanningInv ==
  /\ world \in World /\ changes \in 0..MaxChanges
  /\ Drafted /\ Reviewed /\ Starting /\ Created

LEMMA SeenFacts ==
  ASSUME NEW r, Seen(r)
  PROVE  /\ r.request \in Requests /\ r.asked \in Asked(r.request) /\ r.moved \in BOOLEAN
         /\ r = Review(r.request, r.plan, r.asked, r.moved)
         /\ r.asked \in Asks /\ r.asked.skill = r.request.skill
         /\ \E v \in World, w \in World : Made(r.plan, r.asked, v, w)
<1>1. PICK q \in Requests, v \in World, w \in World, b \in BOOLEAN : \E a \in Asked(q) :
        Made(r.plan, a, v, w) /\ r = Review(q, r.plan, a, b)
  BY DEF Seen
<1>2. PICK a \in Asked(q) : Made(r.plan, a, v, w) /\ r = Review(q, r.plan, a, b) BY <1>1
<1>3. r.request = q /\ r.asked = a /\ r.moved = b BY <1>2 DEF Review
<1>4. a \in Asks /\ a.skill = q.skill BY <1>2, AsksFacts DEF Asked
<1>. QED BY <1>2, <1>3, <1>4

\* What is started and seen, with its own fields as parameters.
LEMMA Shapes ==
  ASSUME NEW n
  PROVE  /\ \A f, b : n = Started(n.plan, n.review, f, b) =>
               \E p, r : n = Started(p, r, f, b) /\ p = n.plan /\ r = n.review
         /\ \A q, a, b : n = Review(q, n.plan, a, b) =>
               \E p : n = Review(q, p, a, b) /\ p = n.plan
<1>1. ASSUME NEW f, NEW b, n = Started(n.plan, n.review, f, b)
      PROVE  \E p, r : n = Started(p, r, f, b) /\ p = n.plan /\ r = n.review
  BY <1>1, Zenon
<1>2. ASSUME NEW q, NEW a, NEW b, n = Review(q, n.plan, a, b)
      PROVE  \E p : n = Review(q, p, a, b) /\ p = n.plan
  BY <1>2, Zenon
<1>. QED BY <1>1, <1>2

\* The changes of the world.
LEMMA WorldChanges ==
  ASSUME world \in World, CatalogChanges \/ ProfileChanges \/ Verify \/ PreferencesChange \/ MemoryChanges
  PROVE  \E u \in World : Change(u)
<1>1. CASE CatalogChanges
  <2>1. ASSUME NEW m \in Model PROVE [world EXCEPT !.models = IF m \in @ THEN @ \ {m} ELSE @ \union {m}] \in World
    BY <2>1 DEF World
  <2>2. ASSUME NEW m \in ImageModel PROVE [world EXCEPT !.images = IF m \in @ THEN @ \ {m} ELSE @ \union {m}] \in World
    BY <2>2 DEF World
  <2>. QED BY <1>1, <2>1, <2>2 DEF CatalogChanges
<1>2. CASE ProfileChanges
  <2>1. ASSUME NEW m \in Model, NEW p \in {{"text.chat"}, {"text.chat", "text.generate"}}
        PROVE  [world EXCEPT !.profile = [model |-> m, purpose |-> p, load |-> 1]] \in World
    <3>1. p \in SUBSET Capability BY DEF Capability
    <3>2. [model |-> m, purpose |-> p, load |-> 1] \in [model : Model, purpose : SUBSET Capability, load : {1, 2}]
      BY <3>1
    <3>. QED BY <3>2 DEF World
  <2>2. ASSUME world.profile # None PROVE [world EXCEPT !.profile.load = 3 - @] \in World
    <3>1. world.profile \in [model : Model, purpose : SUBSET Capability, load : {1, 2}] BY <2>2 DEF World
    <3>2. [world.profile EXCEPT !.load = 3 - @] \in [model : Model, purpose : SUBSET Capability, load : {1, 2}]
      BY <3>1
    <3>3. [world EXCEPT !.profile.load = 3 - @] = [world EXCEPT !.profile = [world.profile EXCEPT !.load = 3 - @]]
      BY <3>1 DEF World
    <3>. DEFINE p == [world.profile EXCEPT !.load = 3 - @]
    <3>. HIDE DEF p
    <3>4. [world EXCEPT !.profile = p] \in World BY <3>2 DEF World, p
    <3>. QED BY <3>3, <3>4 DEF p
  <2>3. [world EXCEPT !.profile = None] \in World BY DEF World
  <2>. QED BY <1>2, <2>1, <2>2, <2>3 DEF ProfileChanges
<1>3. CASE Verify
  <2>1. ASSUME NEW m \in Model PROVE [world EXCEPT !.verified = @ \union {<<"text.chat", m>>}] \in World
    <3>1. <<"text.chat", m>> \in Capability \X Model BY DEF Capability
    <3>. QED BY <3>1 DEF World
  <2>. QED BY <1>3, <2>1 DEF Verify
<1>4. CASE PreferencesChange
  <2>1. ASSUME NEW mode \in {"auto", "manual"} PROVE [world EXCEPT !.mode = mode] \in World BY DEF World
  <2>2. ASSUME NEW policy \in {"allow", "reject"} PROVE [world EXCEPT !.policy = policy] \in World BY DEF World
  <2>3. ASSUME NEW m \in Model \cup {None} PROVE [world EXCEPT !.saved["text.chat"] = m] \in World
    <3>1. [world.saved EXCEPT !["text.chat"] = m] \in [Capability -> Model \cup {None}]
      BY DEF World, Capability
    <3>2. [world EXCEPT !.saved["text.chat"] = m] = [world EXCEPT !.saved = [world.saved EXCEPT !["text.chat"] = m]]
      BY DEF World
    <3>. DEFINE p == [world.saved EXCEPT !["text.chat"] = m]
    <3>. HIDE DEF p
    <3>3. [world EXCEPT !.saved = p] \in World BY <3>1 DEF World, p
    <3>. QED BY <3>2, <3>3 DEF p
  <2>. QED BY <1>4, <2>1, <2>2, <2>3 DEF PreferencesChange
<1>5. CASE MemoryChanges
  <2>1. ASSUME NEW free \in Memory PROVE [world EXCEPT !.free = free] \in World BY DEF World
  <2>. QED BY <1>5, <2>1 DEF MemoryChanges
<1>. QED BY <1>1, <1>2, <1>3, <1>4, <1>5

\* A change moves what was made in another world.
LEMMA ChangeStep ==
  ASSUME PlanningInv, NEW u \in World, Change(u)
  PROVE  PlanningInv'
<1>1. world' \in World /\ changes' \in 0..MaxChanges
  BY HeadroomAssumption DEF PlanningInv, Change
<1>2. Drafted'
  <2>1. ASSUME draft' # None PROVE Drafted'
    <3>1. draft # None /\ draft' = [draft EXCEPT !.moved = TRUE] BY <2>1 DEF Change, Moved
    <3>2. start = None /\ reviewed = None BY <3>1 DEF PlanningInv, Drafted
    <3>3. start' = None /\ reviewed' = None BY <3>2 DEF Change, Moved
    <3>4. PICK q \in Requests, v \in World, b \in BOOLEAN :
            draft = [request |-> q, routes |-> Snapshot(v), moved |-> b]
      BY <3>1 DEF PlanningInv, Drafted
    <3>5. draft' = [request |-> q, routes |-> Snapshot(v), moved |-> TRUE] BY <3>1, <3>4
    <3>. QED BY <3>3, <3>4, <3>5 DEF Drafted
  <2>. QED BY <2>1 DEF Drafted
<1>3. Reviewed'
  <2>1. ASSUME reviewed' # None PROVE Seen(reviewed') /\ reviewed'.moved
    <3>1. reviewed # None /\ reviewed' = [reviewed EXCEPT !.moved = TRUE] BY <2>1 DEF Change, Moved
    <3>2. Seen(reviewed) BY <3>1 DEF PlanningInv, Reviewed
    <3>3. PICK q \in Requests, v \in World, w \in World, b \in BOOLEAN : \E a \in Asked(q) :
            Made(reviewed.plan, a, v, w) /\ reviewed = Review(q, reviewed.plan, a, b)
      BY <3>2 DEF Seen
    <3>4. PICK a \in Asked(q) : Made(reviewed.plan, a, v, w) /\ reviewed = Review(q, reviewed.plan, a, b)
      BY <3>3
    <3>5. reviewed' = Review(q, reviewed.plan, a, TRUE)
      <4>1. PICK p : reviewed = Review(q, p, a, b) /\ p = reviewed.plan BY <3>4, Shapes
      <4>2. reviewed = Review(q, p, a, b) BY <4>1, Zenon
      <4>3. reviewed' = Review(q, p, a, TRUE) BY <3>1, <4>2 DEF Review
      <4>. QED BY <4>1, <4>3, Zenon
    <3>6. reviewed'.plan = reviewed.plan /\ reviewed'.moved = TRUE BY <3>5 DEF Review
    <3>7. Made(reviewed'.plan, a, v, w) /\ reviewed' = Review(q, reviewed'.plan, a, TRUE)
      BY <3>4, <3>5, <3>6
    <3>. QED BY <3>4, <3>6, <3>7 DEF Seen
  <2>. QED BY <2>1 DEF Reviewed
<1>4. Starting'
  <2>1. ASSUME start' # None PROVE Starting'
    <3>1. start # None /\ start' = [start EXCEPT !.moved = TRUE] BY <2>1 DEF Change, Moved
    <3>2. PICK b \in BOOLEAN : start = Started(start.plan, start.review, start.refused, b)
      BY <3>1 DEF PlanningInv, Starting
    <3>3. start' = Started(start.plan, start.review, start.refused, TRUE) BY <3>1, <3>2 DEF Started
    <3>4. start'.plan = start.plan /\ start'.review = start.review /\ start'.refused = start.refused
          /\ start'.moved = TRUE
      BY <3>3 DEF Started
    <3>5. Starting BY DEF PlanningInv
    <3>6. start' = Started(start'.plan, start'.review, start'.refused, TRUE) BY <3>3, <3>4
    <3>7. start'.refused = "" => \E v \in World : Resolved(start'.plan, start'.review, v)
      BY <3>1, <3>4, <3>5 DEF Starting
    <3>. QED BY <3>1, <3>4, <3>5, <3>6, <3>7 DEF Starting
  <2>. QED BY <2>1 DEF Starting
<1>5. Created' BY DEF PlanningInv, Change, Created
<1>. QED BY <1>1, <1>2, <1>3, <1>4, <1>5 DEF PlanningInv

LEMMA PreviewStep ==
  ASSUME PlanningInv, NEW q \in Requests, Preview(q)
  PROVE  PlanningInv'
<1>1. world' = world /\ changes' = changes /\ draft' = draft /\ start' = start /\ run' = run /\ draft = None
  BY DEF Preview
<1>2. Reviewed'
  <2>. DEFINE plan == Fresh(q)
  <2>1. ASSUME reviewed' # None
        PROVE  Seen(reviewed') /\ Made(reviewed'.plan, reviewed'.asked, world, world)
    <3>1. plan # None /\ reviewed' = Review(q, plan, q, FALSE) BY <2>1 DEF Preview
    <3>2. Made(plan, q, world, world) BY <3>1 DEF Made, Fresh
    <3>. HIDE DEF plan
    <3>3. reviewed'.plan = plan /\ reviewed'.asked = q BY <3>1 DEF Review
    <3>4. q \in Asked(q) /\ world \in World BY DEF Asked, PlanningInv
    <3>. QED BY <3>1, <3>2, <3>3, <3>4 DEF Seen
  <2>. QED BY <1>1, <2>1 DEF Reviewed
<1>. QED BY <1>1, <1>2 DEF PlanningInv, Drafted, Starting, Created

LEMMA DraftBeginStep ==
  ASSUME PlanningInv, NEW q \in Requests, DraftBegin(q)
  PROVE  PlanningInv'
<1>1. world' = world /\ changes' = changes /\ start' = start /\ run' = run /\ start = None /\ reviewed' = None
      /\ draft' = [request |-> q, routes |-> Snapshot(world), moved |-> FALSE]
  BY DEF DraftBegin
<1>2. Drafted' BY <1>1 DEF Drafted, PlanningInv
<1>. QED BY <1>1, <1>2 DEF PlanningInv, Reviewed, Starting, Created

LEMMA DraftEndStep == ASSUME PlanningInv, DraftEnd PROVE PlanningInv'
<1>1. world' = world /\ changes' = changes /\ start' = start /\ run' = run /\ draft' = None /\ draft # None
  BY DEF DraftEnd
<1>2. PICK q \in Requests, v \in World, b \in BOOLEAN :
        draft = [request |-> q, routes |-> Snapshot(v), moved |-> b] /\ (~b => v = world)
  BY <1>1 DEF PlanningInv, Drafted
<1>. DEFINE a == Unpinned(q)
            plan == Plan(a, Snapshot(v), world)
<1>3. draft.request = q /\ draft.routes = Snapshot(v) /\ draft.moved = b BY <1>2
<1>4. reviewed' = None \/ (plan # None /\ reviewed' = Review(q, plan, a, b))
  BY <1>3 DEF DraftEnd, Unpinned
<1>5. ASSUME reviewed' # None
      PROVE  Seen(reviewed') /\ (~reviewed'.moved => Made(reviewed'.plan, reviewed'.asked, world, world))
  <2>1. plan # None /\ reviewed' = Review(q, plan, a, b) BY <1>4, <1>5
  <2>2. Made(plan, a, v, world) BY <2>1 DEF Made
  <2>. HIDE DEF plan, a
  <2>3. reviewed'.plan = plan /\ reviewed'.asked = a /\ reviewed'.moved = b BY <2>1 DEF Review
  <2>4. a \in Asked(q) /\ world \in World BY DEF Asked, PlanningInv, a
  <2>5. Seen(reviewed') BY <2>1, <2>2, <2>3, <2>4 DEF Seen
  <2>. QED BY <2>2, <2>3, <2>5, <1>2
<1>6. Reviewed' BY <1>1, <1>5 DEF Reviewed
<1>. QED BY <1>1, <1>6 DEF PlanningInv, Drafted, Starting, Created

LEMMA StartResolveStep == ASSUME PlanningInv, StartResolve PROVE PlanningInv'
<1>. DEFINE q == reviewed.request
            plan == Fresh(q)
<1>1. world' = world /\ changes' = changes /\ draft' = draft /\ run' = run /\ reviewed' = None
      /\ reviewed # None /\ draft = None
  BY DEF StartResolve
<1>2. \/ plan = None /\ start' = Started(None, reviewed, "unresolved", FALSE)
      \/ plan # None /\ plan.id # reviewed.plan.id /\ start' = Started(None, reviewed, "changed", FALSE)
      \/ plan # None /\ plan.id = reviewed.plan.id /\ start' = Started(plan, reviewed, "", FALSE)
  BY DEF StartResolve, SamePlan
<1>3. Seen(reviewed) /\ (~reviewed.moved => Made(reviewed.plan, reviewed.asked, world, world))
  BY <1>1 DEF PlanningInv, Reviewed
<1>4. ASSUME ~reviewed.moved, reviewed.asked = q PROVE plan # None /\ plan.id = reviewed.plan.id
  <2>1. Made(reviewed.plan, q, world, world) BY <1>3, <1>4
  <2>. QED BY <2>1 DEF Made, Fresh
<1>5. plan # None => Made(plan, q, world, world) BY DEF Made, Fresh
<1>. HIDE DEF plan, q
<1>6. world \in World BY DEF PlanningInv
<1>7. Starting'
  <2>1. CASE plan = None /\ start' = Started(None, reviewed, "unresolved", FALSE)
    <3>1. start'.review = reviewed /\ start'.refused = "unresolved" /\ start'.plan = None BY <2>1 DEF Started
    <3>2. reviewed.moved \/ reviewed.asked # reviewed.request BY <1>4, <2>1 DEF q
    <3>. QED BY <1>3, <2>1, <3>1, <3>2 DEF Starting
  <2>2. CASE plan # None /\ plan.id # reviewed.plan.id /\ start' = Started(None, reviewed, "changed", FALSE)
    <3>1. start'.review = reviewed /\ start'.refused = "changed" /\ start'.plan = None BY <2>2 DEF Started
    <3>2. reviewed.moved \/ reviewed.asked # reviewed.request BY <1>4, <2>2 DEF q
    <3>. QED BY <1>3, <2>2, <3>1, <3>2 DEF Starting
  <2>3. CASE plan # None /\ plan.id = reviewed.plan.id /\ start' = Started(plan, reviewed, "", FALSE)
    <3>1. start'.review = reviewed /\ start'.refused = "" /\ start'.plan = plan BY <2>3 DEF Started
    <3>2. Resolved(start'.plan, start'.review, world) BY <1>5, <2>3, <3>1 DEF Resolved, q
    <3>. QED BY <1>1, <1>3, <1>6, <2>3, <3>1, <3>2 DEF Starting
  <2>. QED BY <1>2, <2>1, <2>2, <2>3
<1>. QED BY <1>1, <1>7 DEF PlanningInv, Drafted, Reviewed, Created

\* A start is refused because its skill is not ready only if the world moved:
\* what was planned in this world is ready in it.
LEMMA StartReadyStep == ASSUME PlanningInv, StartReady PROVE PlanningInv'
<1>. DEFINE ready == Ready(start.review.request.skill, world)
<1>1. world' = world /\ changes' = changes /\ draft' = draft /\ reviewed' = reviewed
      /\ start # None /\ start.refused = ""
  BY DEF StartReady
<1>2. PICK b \in BOOLEAN : start = Started(start.plan, start.review, "", b)
  BY <1>1 DEF PlanningInv, Starting
<1>3. PICK v \in World : Resolved(start.plan, start.review, v) /\ (~start.moved => v = world)
  BY <1>1 DEF PlanningInv, Starting
<1>4. Seen(start.review) BY <1>1 DEF PlanningInv, Starting
<1>5. world \in World BY DEF PlanningInv
<1>6. ~start.moved => ready
  <2>1. ASSUME ~start.moved PROVE ready
    <3>1. Made(start.plan, start.review.request, world, world) BY <1>3, <2>1 DEF Resolved
    <3>2. start.review.request \in Asks BY <1>4, SeenFacts, AsksFacts
    <3>. QED BY <1>5, <3>1, <3>2, PlannedIsReady
  <2>. QED BY <2>1
<1>7. Starting' /\ Created'
  <2>1. CASE ready
    <3>1. start' = None /\ run' = [plan |-> start.plan, review |-> start.review, state |-> "queued"]
      BY <2>1 DEF StartReady
    <3>2. run'.plan = start.plan /\ run'.review = start.review BY <3>1
    <3>3. Created' BY <1>3, <1>4, <3>1, <3>2 DEF Created
    <3>. QED BY <3>1, <3>3 DEF Starting
  <2>2. CASE ~ready
    <3>1. start' = [start EXCEPT !.refused = "not ready"] /\ run' = run BY <2>2 DEF StartReady
    <3>0. PICK p, r : start = Started(p, r, "", b) /\ p = start.plan /\ r = start.review BY <1>2, Shapes
    <3>9. start = Started(p, r, "", b) BY <3>0, Zenon
    <3>2. start' = Started(p, r, "not ready", b) BY <3>9, <3>1 DEF Started
    <3>3. start'.review = start.review /\ start'.plan = start.plan /\ start'.refused = "not ready"
          /\ start'.moved = b
      
      <4>1. start'.plan = p /\ start'.review = r /\ start'.refused = "not ready" /\ start'.moved = b
        BY <3>2 DEF Started
      <4>. QED BY <4>1, <3>0, Zenon
    <3>4. start.moved = b BY <3>9 DEF Started
    <3>5. b BY <1>6, <2>2, <3>4
    <3>8. start' = Started(start'.plan, start'.review, "not ready", b)
      <4>1. p = start'.plan /\ r = start'.review BY <3>0, <3>3, Zenon
      <4>. QED BY <4>1, <3>2, Zenon
    <3>6. Starting' BY <1>4, <3>8, <3>3, <3>5 DEF Starting
    <3>7. Created' BY <3>1 DEF PlanningInv, Created
    <3>. QED BY <3>6, <3>7
  <2>. QED BY <2>1, <2>2
<1>8. start' = None \/ draft = None BY <1>1 DEF PlanningInv, Drafted
<1>. QED BY <1>1, <1>7, <1>8 DEF PlanningInv, Drafted, Reviewed

LEMMA RunStep ==
  ASSUME PlanningInv, Execute \/ Finish
  PROVE  PlanningInv'
<1>1. world' = world /\ changes' = changes /\ draft' = draft /\ reviewed' = reviewed /\ start' = start
  BY DEF Execute, Finish
<1>2. run # None /\ (run' = None \/ run' = [run EXCEPT !.state = "loaded"]) BY DEF Execute, Finish
<1>3. Created'
  <2>1. CASE run' = None BY <2>1 DEF Created
  <2>2. CASE run' = [run EXCEPT !.state = "loaded"]
    <3>1. Created BY DEF PlanningInv
    <3>2. PICK st \in {"queued", "loaded"} : run = [plan |-> run.plan, review |-> run.review, state |-> st]
      BY <1>2, <3>1 DEF Created
    <3>3. run' = [plan |-> run.plan, review |-> run.review, state |-> "loaded"] BY <2>2, <3>2
    <3>4. run'.plan = run.plan /\ run'.review = run.review BY <3>3
    <3>. QED BY <1>2, <3>1, <3>3, <3>4 DEF Created
  <2>. QED BY <1>2, <2>1, <2>2
<1>. QED BY <1>1, <1>3 DEF PlanningInv, Drafted, Reviewed, Starting

LEMMA AcknowledgeStep == ASSUME PlanningInv, Acknowledge PROVE PlanningInv'
BY DEF Acknowledge, PlanningInv, Drafted, Reviewed, Starting, Created

LEMMA IdleStep == ASSUME PlanningInv, UNCHANGED planning PROVE PlanningInv'
BY DEF planning, PlanningInv, Drafted, Reviewed, Starting, Created

LEMMA InitPlanningInv == PlanningInit => PlanningInv
<1>. SUFFICES ASSUME PlanningInit PROVE PlanningInv OBVIOUS
<1>1. (CHOOSE f \in Memory : f # None) \in Memory BY MemoryAssumption
<1>2. world \in World BY <1>1 DEF PlanningInit, World
<1>. QED BY <1>2, HeadroomAssumption DEF PlanningInit, PlanningInv, Drafted, Reviewed, Starting, Created

LEMMA PlanningStep == PlanningInv /\ [PlanningNext]_planning => PlanningInv'
<1>. SUFFICES ASSUME PlanningInv, [PlanningNext]_planning PROVE PlanningInv' OBVIOUS
<1>1. CASE CatalogChanges \/ ProfileChanges \/ Verify \/ PreferencesChange \/ MemoryChanges
  <2>1. world \in World BY DEF PlanningInv
  <2>. QED BY <1>1, <2>1, WorldChanges, ChangeStep
<1>2. ASSUME NEW q \in Requests, Preview(q) \/ DraftBegin(q) PROVE PlanningInv'
  BY <1>2, PreviewStep, DraftBeginStep
<1>3. CASE DraftEnd BY <1>3, DraftEndStep
<1>4. CASE StartResolve BY <1>4, StartResolveStep
<1>5. CASE StartReady BY <1>5, StartReadyStep
<1>6. CASE Acknowledge BY <1>6, AcknowledgeStep
<1>7. CASE Execute \/ Finish BY <1>7, RunStep
<1>8. CASE UNCHANGED planning BY <1>8, IdleStep
<1>. QED BY <1>1, <1>2, <1>3, <1>4, <1>5, <1>6, <1>7, <1>8 DEF PlanningNext

LEMMA PlanningInvariant == PlanningSpec => []PlanningInv
BY InitPlanningInv, PlanningStep, PTL DEF PlanningSpec

LEMMA PlansSound == PlanningInv => PlansAreSound
<1>. SUFFICES ASSUME PlanningInv PROVE PlansAreSound OBVIOUS
<1>1. ASSUME reviewed # None
      PROVE  /\ reviewed.request \in Requests /\ IsPlan(reviewed.plan, reviewed.request.skill)
             /\ KeepsPins(reviewed.plan, reviewed.asked) /\ FitsMemory(reviewed.plan)
  <2>1. Seen(reviewed) BY <1>1 DEF PlanningInv, Reviewed
  <2>2. PICK v \in World, w \in World : Made(reviewed.plan, reviewed.asked, v, w) BY <2>1, SeenFacts
  <2>3. reviewed.asked \in Asks /\ reviewed.asked.skill = reviewed.request.skill /\ reviewed.request \in Requests
    BY <2>1, SeenFacts
  <2>4. IsPlan(reviewed.plan, reviewed.asked.skill) BY <2>2, <2>3, PlanRoutesOnce
  <2>. QED BY <2>2, <2>3, <2>4, PlanKeepsPins, PlanFits
<1>2. ASSUME run # None
      PROVE  /\ run.state \in {"queued", "loaded"} /\ IsPlan(run.plan, run.review.request.skill)
             /\ KeepsPins(run.plan, run.review.request) /\ FitsMemory(run.plan)
  <2>1. Seen(run.review) BY <1>2 DEF PlanningInv, Created
  <2>2. PICK v \in World : Made(run.plan, run.review.request, v, v)
    BY <1>2 DEF PlanningInv, Created, Resolved
  <2>3. run.review.request \in Asks BY <2>1, SeenFacts, AsksFacts
  <2>4. run.state \in {"queued", "loaded"}
    <3>1. PICK st \in {"queued", "loaded"} : run = [plan |-> run.plan, review |-> run.review, state |-> st]
      BY <1>2 DEF PlanningInv, Created
    <3>2. run.state = st BY <3>1
    <3>. QED BY <3>2
  <2>. QED BY <2>2, <2>3, <2>4, PlanKeepsPins, PlanFits, PlanRoutesOnce
<1>3. draft # None => draft.request \in Requests /\ start = None /\ reviewed = None
  <2>1. ASSUME draft # None PROVE draft.request \in Requests
    <3>1. PICK q \in Requests, v \in World, b \in BOOLEAN :
            draft = [request |-> q, routes |-> Snapshot(v), moved |-> b]
      BY <2>1 DEF PlanningInv, Drafted
    <3>. QED BY <3>1
  <2>. QED BY <2>1 DEF PlanningInv, Drafted
<1>4. start # None => start.refused \in {"", "unresolved", "changed", "not ready"}
  BY DEF PlanningInv, Starting
<1>5. /\ world.models \subseteq Model /\ world.images \subseteq ImageModel
      /\ world.profile # None => world.profile.model \in Model /\ world.profile.load \in {1, 2}
      /\ world.mode \in {"auto", "manual"} /\ world.policy \in {"allow", "reject"} /\ world.free \in Memory
      /\ changes \in 0..MaxChanges
  <2>1. world \in World /\ changes \in 0..MaxChanges BY DEF PlanningInv
  <2>2. world.profile \in {None} \cup [model : Model, purpose : SUBSET Capability, load : {1, 2}]
    BY <2>1 DEF World
  <2>3. world.profile # None => world.profile.model \in Model /\ world.profile.load \in {1, 2} BY <2>2
  <2>. QED BY <2>1, <2>3 DEF World
<1>6. PlanningTypeOK BY <1>1, <1>2, <1>3, <1>4, <1>5 DEF PlanningTypeOK
<1>7. PinsAndMarginsHold BY <1>1, <1>2 DEF PinsAndMarginsHold
<1>. QED BY <1>6, <1>7 DEF PlansAreSound

LEMMA ReviewsSound == PlanningInv => ReviewsDecide
<1>. SUFFICES ASSUME PlanningInv PROVE ReviewsDecide OBVIOUS
<1>1. ASSUME run # None PROVE Summaries(run.plan) = Summaries(run.review.plan)
  <2>1. PICK v \in World : Made(run.plan, run.review.request, v, v) /\ run.plan.id = run.review.plan.id
    BY <1>1 DEF PlanningInv, Created, Resolved
  <2>2. Seen(run.review) BY <1>1 DEF PlanningInv, Created
  <2>3. PICK t \in World, u \in World : Made(run.review.plan, run.review.asked, t, u) BY <2>2, SeenFacts
  <2>. QED BY <2>1, <2>3, SameIdSameRoutes
<1>. QED BY <1>1 DEF ReviewsDecide, PlanningInv, Starting

\* PlansAreSound: every plan that is shown or run routes each node once and
\* keeps the strongest pin, the profile and the margin of memory, for every set
\* of skills and models.
THEOREM PlansTheorem == PlanningSpec => []PlansAreSound
BY PlanningInvariant, PlansSound, PTL

\* ReviewsDecide: a run uses the routes its user has reviewed, and a start is
\* refused only if something has changed.
THEOREM ReviewsTheorem == PlanningSpec => []ReviewsDecide
BY PlanningInvariant, ReviewsSound, PTL

\* CatalogAndPlannerAgree, for skills whose nodes take and give what their
\* capability does.
THEOREM AgreementTheorem ==
  ASSUME NodesFit, NoneIsNoPlan
  PROVE  PlanningSpec => []CatalogAndPlannerAgree
<1>1. PlanningInv => CatalogAndPlannerAgree BY Agreement DEF PlanningInv
<1>. QED BY <1>1, PlanningInvariant, PTL
=============================================================================
