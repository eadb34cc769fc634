--------------------------- MODULE UserDataProofs ---------------------------
(***************************************************************************)
(* What is proved of the user's data: of the files of UserFiles first, and *)
(* then of the index, the uploaded databases and the vectors of Knowledge, *)
(* which the same threads of the service keep.  The operations of          *)
(* Knowledge have the prefix K.                                            *)
(*                                                                         *)
(* UserFiles, for any number of threads, programs, records, values and     *)
(* secrets, any limit of the connections, and with failures and deaths at  *)
(* any step.  The invariant has four parts, each proved of those before    *)
(* it: Types; Exclusive, that changes which are ordered are made one at a  *)
(* time; Current, that such a change is applied to what the file holds;    *)
(* and Secrets, what the connections and the keyring owe to each other at  *)
(* every step in between.  Ordered says of which behaviours this is so: of *)
(* those of the overlay, whose lock sees to it, and of all where nothing   *)
(* overlaps, which no lock of the other stores ensures.                    *)
(*                                                                         *)
(* Knowledge, for any number of requests, databases, documents, batches    *)
(* and lengths of vectors, with failures and restarts at any step.  The    *)
(* invariant says what each thread may be doing, how near its limit the    *)
(* index is, and of every source that no failure or race has hurt that its *)
(* upload, its vectors and its deletion are as far as the threads are.     *)
(***************************************************************************)
EXTENDS UserFiles, KnowledgeStores, FiniteSetTheorems, TLAPS

-----------------------------------------------------------------------------
(* Records.                                                                *)

\* A record claims a verification only of what was verified, is a profile
\* when it does, and names a secret only as a connection.
Good(r) ==
  /\ (r.class = "verified") = (r.proof # None)
  /\ r.class = "verified" => r.data = r.proof /\ store = "profiles"
  /\ store # "providers" => r.ref = None

\* A field of a record is given a value.
LEMMA NameSet ==
  ASSUME NEW r \in Record, NEW v \in Value \cup {None}, NEW n, n = [r EXCEPT !.name = v]
  PROVE  /\ n \in Record /\ n.data = r.data /\ n.on = r.on /\ n.class = r.class
         /\ n.proof = r.proof /\ n.ref = r.ref /\ n.name = v
BY DEF Record

\* The content of a record is given a value.
LEMMA DataSet ==
  ASSUME NEW r \in Record, NEW v \in Value \cup {None}, NEW n, n = [r EXCEPT !.data = v]
  PROVE  /\ n \in Record /\ n.data = v /\ n.on = r.on /\ n.class = r.class
         /\ n.proof = r.proof /\ n.ref = r.ref /\ n.name = r.name
BY DEF Record

\* A record is enabled or disabled.
LEMMA OnSet ==
  ASSUME NEW r \in Record, NEW v \in BOOLEAN, NEW n, n = [r EXCEPT !.on = v]
  PROVE  /\ n \in Record /\ n.data = r.data /\ n.on = v /\ n.class = r.class
         /\ n.proof = r.proof /\ n.ref = r.ref /\ n.name = r.name
BY DEF Record

\* No record, and a new one.
LEMMA AbsentFacts == Absent \in Record /\ Absent.ref = None /\ ~Absent.on /\ Good(Absent)
BY DEF Absent, Record, Good

\* A new record is a sound one, which claims nothing.
LEMMA BlankFacts ==
  ASSUME NEW v \in Value
  PROVE  /\ Blank(v) \in Record /\ Blank(v).ref = None /\ Good(Blank(v))
         /\ Blank(v).class = "user" /\ Blank(v).proof = None /\ Blank(v).data = v
BY TwoValues DEF Blank, Absent, Record, Good

\* A profile that is edited gives up its verification.
LEMMA UpdatedFacts ==
  ASSUME NEW r \in Record, NEW v \in Value
  PROVE  /\ Updated(r, v) \in Record /\ Updated(r, v).class = "user" /\ Updated(r, v).proof = None
         /\ Updated(r, v).ref = r.ref
BY DEF Updated, Record

\* A profile of what was verified.
LEMMA VerifiedFacts ==
  ASSUME NEW v \in Value, NEW n, n = [Blank(v) EXCEPT !.class = "verified", !.proof = v]
  PROVE  /\ n \in Record /\ n.class = "verified" /\ n.proof = v /\ n.data = v /\ n.ref = None
BY TwoValues DEF Blank, Absent, Record

\* What a store makes of a sound record is one.
LEMMA ChangedFacts ==
  ASSUME store \in Store \ {"providers"}, NEW r \in Record, Good(r),
         NEW op \in Change, op.kind \in Kinds[store], Changed(r, op) # Refused
  PROVE  Changed(r, op) \in Record /\ Good(Changed(r, op))
<1>. DEFINE n == Changed(r, op)
<1>0. op.value \in Value /\ op.value \in Value \cup {None} /\ None \in Value \cup {None}
      /\ 1 \in Value \cup {None} /\ (op.value = 1) \in BOOLEAN
  BY TwoValues DEF Change
<1>. DEFINE named  == [r EXCEPT !.name = op.value]
            dated  == [r EXCEPT !.data = op.value]
            turned == [r EXCEPT !.on = (op.value = 1)]
<1>1. /\ named \in Record /\ named.data = r.data /\ named.class = r.class
      /\ named.proof = r.proof /\ named.ref = r.ref
  BY <1>0, NameSet
<1>2. /\ dated \in Record /\ dated.data = op.value /\ dated.class = r.class
      /\ dated.proof = r.proof /\ dated.ref = r.ref
  BY <1>0, DataSet
<1>3. /\ turned \in Record /\ turned.data = r.data /\ turned.class = r.class
      /\ turned.proof = r.proof /\ turned.ref = r.ref
  <2>. DEFINE b == op.value = 1
              x == [r EXCEPT !.on = b]
  <2>1. b \in BOOLEAN /\ turned = x  OBVIOUS
  <2>. HIDE DEF b
  <2>2. /\ x \in Record /\ x.data = r.data /\ x.class = r.class
        /\ x.proof = r.proof /\ x.ref = r.ref
    BY <2>1, OnSet
  <2>. HIDE DEF x, turned
  <2>. QED  BY <2>1, <2>2
<1>4. Blank(op.value) \in Record /\ Good(Blank(op.value))  BY <1>0, BlankFacts
<1>5. Good(named) /\ Good(turned)  BY <1>1, <1>3 DEF Good
<1>6. store # "profiles" => Good(dated)  BY <1>2 DEF Good
<1>7. CASE store = "chats"
  <2>. DEFINE asked == [r EXCEPT !.data = op.value, !.name = IF @ = 0 THEN 1 ELSE @]
  <2>1. asked \in Record /\ Good(asked)
    <3>. DEFINE t == IF r.name = 0 THEN 1 ELSE r.name
    <3>1. t \in Value \cup {None}  BY <1>0 DEF Record
    <3>. DEFINE x == [dated EXCEPT !.name = t]
    <3>2. asked = x  OBVIOUS
    <3>. HIDE DEF t, asked, dated
    <3>3. x \in Record /\ x.data = dated.data /\ x.class = dated.class
           /\ x.proof = dated.proof /\ x.ref = dated.ref
      BY <1>2, <3>1, NameSet
    <3>. HIDE DEF x
    <3>4. Good(x)  BY <1>6, <1>7, <3>3 DEF Good
    <3>. QED  BY <3>2, <3>3, <3>4
  <2>2. \/ n = Blank(op.value) \/ n = asked \/ n = dated \/ n = turned \/ n = named \/ n = Absent
    BY <1>7 DEF Changed, ChatChange, New, Existing, Kinds
  <2>. HIDE DEF n, asked, dated, turned, named
  <2>. QED  BY <1>1, <1>2, <1>3, <1>4, <1>5, <1>6, <1>7, <2>1, <2>2, AbsentFacts DEF n
<1>8. CASE store = "presets"
  <2>1. n = Blank(op.value) \/ n = named \/ n = Absent
    BY <1>8 DEF Changed, PresetChange, New, Existing, Kinds
  <2>. HIDE DEF n, named
  <2>. QED  BY <1>1, <1>4, <1>5, <2>1, AbsentFacts DEF n
<1>9. CASE store = "profiles"
  <2>. DEFINE proved == [Blank(op.value) EXCEPT !.class = "verified", !.proof = op.value]
  <2>1. \/ n = Blank(op.value) \/ n = named \/ n = Absent
        \/ n = Updated(r, op.value) \/ n = proved
    BY <1>9 DEF Changed, ProfileChange, New, Existing, Kinds
  <2>2. proved \in Record /\ Good(proved)
    <3>1. /\ proved \in Record /\ proved.class = "verified" /\ proved.proof = op.value
          /\ proved.data = op.value /\ proved.ref = None
      BY <1>0, VerifiedFacts
    <3>. HIDE DEF proved
    <3>. QED  BY <1>0, <1>9, <3>1, NoneIsNothing DEF Good
  <2>3. Updated(r, op.value) \in Record /\ Good(Updated(r, op.value))
    <3>1. r.ref = None  BY <1>9 DEF Good
    <3>. QED  BY <1>0, <3>1, UpdatedFacts DEF Good
  <2>. HIDE DEF n, named, proved
  <2>. QED  BY <1>1, <1>4, <1>5, <2>1, <2>2, <2>3, AbsentFacts DEF n
<1>10. CASE store = "settings"
  <2>1. n = Blank(op.value) \/ n = dated
    BY <1>10 DEF Changed, SettingsChange
  <2>. HIDE DEF n, dated
  <2>. QED  BY <1>2, <1>4, <1>6, <1>10, <2>1 DEF n
<1>11. CASE store = "preferences"
  <2>1. n = Blank(op.value) \/ n = dated \/ n = Absent
    BY <1>11 DEF Changed, PreferenceChange
  <2>. HIDE DEF n, dated
  <2>. QED  BY <1>2, <1>4, <1>6, <1>11, <2>1, AbsentFacts DEF n
<1>12. CASE store = "overlay"
  <2>. DEFINE base == [r EXCEPT !.on = TRUE]
              some == [base EXCEPT !.data = op.value]
              told == [base EXCEPT !.name = op.value]
              none == [base EXCEPT !.data = None]
  <2>1. /\ base \in Record /\ base.class = r.class /\ base.proof = r.proof
        /\ base.ref = r.ref /\ base.data = r.data
    BY OnSet
  <2>2. n \in {Absent, some, told, none}
    BY <1>12 DEF Changed, OverlayChange, Kinds
  <2>. HIDE DEF base
  <2>3. /\ some \in Record /\ some.class = r.class /\ some.proof = r.proof /\ some.ref = r.ref
        /\ none \in Record /\ none.class = r.class /\ none.proof = r.proof /\ none.ref = r.ref
    BY <1>0, <2>1, DataSet
  <2>4. told \in Record /\ told.class = r.class /\ told.proof = r.proof /\ told.ref = r.ref
    BY <1>0, <2>1, NameSet
  <2>. HIDE DEF some, told, none
  <2>5. r.class # "verified"  BY <1>12 DEF Good
  <2>6. Good(some) /\ Good(none) /\ Good(told)  BY <2>3, <2>4, <2>5 DEF Good
  <2>. HIDE DEF n
  <2>. QED  BY <2>2, <2>3, <2>4, <2>6, AbsentFacts DEF n
<1>13. CASE store = "installations"
  <2>1. n = Blank(op.value) \/ n = turned \/ n = dated \/ n = Absent
    BY <1>13 DEF Changed, InstallationChange, Existing, Kinds
  <2>. HIDE DEF n, turned, dated
  <2>. QED  BY <1>2, <1>3, <1>4, <1>5, <1>6, <1>13, <2>1, AbsentFacts DEF n
<1>. QED  BY <1>7, <1>8, <1>9, <1>10, <1>11, <1>12, <1>13 DEF Store

-----------------------------------------------------------------------------
(* What actors do.                                                         *)

\* A file of sound records stays one when a change is applied to it.
LEMMA ResultFacts ==
  ASSUME store \in Store \ {"providers"}, NEW f \in File, \A k \in Key : Good(f[k]),
         NEW op \in Change, op.kind \in Kinds[store], Accepts(f, op)
  PROVE  /\ Result(f, op) \in File
         /\ \A k \in Key : Good(Result(f, op)[k])
         /\ \A k \in Key \ {op.key} : Result(f, op)[k] = f[k]
<1>0. op.key \in Key /\ Record \cup {Absent} = Record  BY AbsentFacts DEF Change
<1>1. f[op.key] \in Record  BY <1>0 DEF File
<1>2. Changed(f[op.key], op) \in Record /\ Good(Changed(f[op.key], op))
  BY <1>0, <1>1, ChangedFacts DEF Accepts
<1>. QED  BY <1>0, <1>2 DEF Result, File

\* What an actor is doing, and what it has seen of the file, are sound.
Sound(d) ==
  /\ d.at # "idle" => d.op \in Change /\ d.op.kind \in Kinds[store]
  /\ d.at \in {"secret", "check", "put", "drop"} => store = "providers"
  /\ d.at = "secret" => d.fresh # None
  /\ d.at \in {"probe", "record", "undo"} => d.op.kind = "verify"
  /\ d.at = "replace" =>
       store # "providers" /\ d.seen \in File /\ Accepts(d.seen, d.op) /\ \A k \in Key : Good(d.seen[k])
  /\ Good(d.next)

Types ==
  /\ store \in Store /\ file \in File /\ lock \in Thread \cup {None}
  /\ keyring \subseteq Secret /\ evidence \in {"none", "ok", "failed"}
  /\ mishap \in BOOLEAN /\ doing \in [Actor -> Doing]
  /\ \A k \in Key : Good(file[k])
  /\ \A a \in Actor : Sound(doing[a])

\* An actor that does nothing is sound.
LEMMA IdleFacts == Idle \in Doing /\ Idle.at = "idle" /\ Idle.next = Absent /\ Sound(Idle)
BY AbsentFacts DEF Idle, Doing, Sound

\* An actor goes on; the others stay where they are.
LEMMA DoFacts ==
  ASSUME doing \in [Actor -> Doing], NEW a \in Actor, NEW d \in Doing, Do(a, d)
  PROVE  /\ doing' \in [Actor -> Doing] /\ doing'[a] = d
         /\ \A b \in Actor \ {a} : doing'[b] = doing[b]
BY DEF Do

\* The next place of an actor.
At == {"idle", "read", "replace", "secret", "check", "put", "drop", "probe", "record", "undo"}
\* An actor that is given another place keeps the rest.
LEMMA MoveFacts ==
  ASSUME NEW d \in Doing, NEW x \in At, NEW n, n = [d EXCEPT !.at = x]
  PROVE  /\ n \in Doing /\ n.at = x /\ n.op = d.op /\ n.seen = d.seen
         /\ n.next = d.next /\ n.old = d.old /\ n.fresh = d.fresh
BY DEF Doing, At

\* The store of a behaviour is one.
LEMMA GoodStays == ASSUME store' = store, NEW r, Good(r) PROVE Good(r)'
BY DEF Good

\* A change that a store accepts is accepted by it as long as it is that store.
LEMMA AcceptsStays ==
  ASSUME store' = store, NEW f, NEW op, Accepts(f, op)
  PROVE  Accepts(f, op)'
<1>1. Changed(f[op.key], op)' = Changed(f[op.key], op)  BY DEF Changed
<1>. QED  BY <1>1 DEF Accepts

\* What an actor does stays sound when something else changes.
LEMMA SoundStays ==
  ASSUME store' = store, NEW d, Sound(d)
  PROVE  Sound(d)'
<1>1. Good(d.next)'  BY GoodStays DEF Sound
<1>2. d.at = "replace" => \A k \in Key : Good(d.seen[k])'  BY GoodStays DEF Sound
<1>3. d.at = "replace" => Accepts(d.seen, d.op)'  BY AcceptsStays DEF Sound
<1>. QED  BY <1>1, <1>2, <1>3 DEF Sound

\* With an actor's step, what is sound stays sound, if the file and what this
\* actor does then are.
LEMMA TypesFrame ==
  ASSUME Types, NEW a \in Actor, NEW d \in Doing, Do(a, d), Sound(d), store' = store,
         file' \in File, \A k \in Key : Good(file'[k]),
         lock' \in Thread \cup {None}, keyring' \subseteq Secret,
         evidence' \in {"none", "ok", "failed"}, mishap' \in BOOLEAN
  PROVE  Types'
<1>1. /\ doing' \in [Actor -> Doing] /\ doing'[a] = d
      /\ \A b \in Actor \ {a} : doing'[b] = doing[b]
  BY DoFacts DEF Types
<1>2. \A b \in Actor : Sound(doing[b])' 
  <2>. SUFFICES ASSUME NEW b \in Actor PROVE Sound(doing[b])'  OBVIOUS
  <2>1. PICK e : e = doing'[b]  OBVIOUS
  <2>2. Sound(e)  BY <1>1, <2>1 DEF Types
  <2>3. Sound(e)'  BY <2>2, SoundStays
  <2>. QED  BY <2>1, <2>3 DEF Sound
<1>3. \A k \in Key : Good(file[k])' 
  <2>. SUFFICES ASSUME NEW k \in Key PROVE Good(file[k])'  OBVIOUS
  <2>1. PICK r : r = file'[k]  OBVIOUS
  <2>2. Good(r)'  BY <2>1, GoodStays
  <2>. QED  BY <2>1, <2>2 DEF Good
<1>. QED  BY <1>1, <1>2, <1>3 DEF Types

\* What a step may make of the file and the keyring.
Kept ==
  /\ store' = store /\ file' \in File /\ \A k \in Key : Good(file'[k])
  /\ keyring' \subseteq Secret /\ evidence' \in {"none", "ok", "failed"} /\ mishap' \in BOOLEAN
\* An actor answers and releases the lock, or goes on with what it was asked.
Moves(a) ==
  /\ Busy(a) /\ store' = store
  /\ \/ Answer(a)
     \/ \E d \in Doing : Do(a, d) /\ d.at # "idle" /\ d.op = doing[a].op /\ lock' = lock

\* Nothing but what the actors do has changed.
LEMMA KeptAll ==
  ASSUME Types, UNCHANGED <<store, file, keyring>>,
         evidence' \in {"none", "ok", "failed"}, mishap' \in BOOLEAN
  PROVE  Kept
BY DEF Types, Kept

\* An actor that answers leaves sound actors.
LEMMA AnswerTypes ==
  ASSUME Types, NEW a \in Actor, Busy(a), Answer(a), Kept
  PROVE  Types' /\ Moves(a)
<1>1. lock' \in Thread \cup {None} /\ Do(a, Idle)  BY DEF Answer, Types
<1>. QED  BY <1>1, IdleFacts, TypesFrame DEF Kept, Moves

\* An actor that goes on with what it was asked leaves sound actors.
LEMMA GoTypes ==
  ASSUME Types, NEW a \in Actor, Busy(a), NEW d \in Doing, Do(a, d), lock' = lock,
         d.at # "idle", d.op = doing[a].op, Sound(d), Kept
  PROVE  Types' /\ Moves(a)
<1>1. lock' \in Thread \cup {None}  BY DEF Types
<1>. QED  BY <1>1, TypesFrame DEF Kept, Moves

\* An actor that is only given another place.
LEMMA PlaceTypes ==
  ASSUME Types, NEW a \in Actor, Busy(a), NEW x \in At \ {"idle", "secret", "replace"},
         Do(a, [doing[a] EXCEPT !.at = x]), lock' = lock,
         x \in {"check", "put", "drop"} => store = "providers",
         x \in {"probe", "record", "undo"} => doing[a].op.kind = "verify", Kept
  PROVE  Types' /\ Moves(a)
<1>. DEFINE d == [doing[a] EXCEPT !.at = x]
<1>1. doing[a] \in Doing /\ Sound(doing[a])  BY DEF Types
<1>2. d \in Doing /\ d.at = x /\ d.op = doing[a].op /\ d.next = doing[a].next  BY <1>1, MoveFacts
<1>3. Do(a, d)  OBVIOUS
<1>. HIDE DEF d
<1>4. Sound(d)  BY <1>1, <1>2 DEF Sound, Busy
<1>. QED  BY <1>2, <1>3, <1>4, GoTypes

\* What an actor begins with is a change of the store.
LEMMA BeginTypes ==
  ASSUME Types, NEW a \in Actor, Begin(a)
  PROVE  Types'
<1>1. PICK kind \in Kinds[store], key \in Key, value \in Value :
        LET op == [kind |-> kind, key |-> key, value |-> value]
        IN /\ IF Locks(a, op) THEN lock = None /\ lock' = a ELSE UNCHANGED lock
           /\ Do(a, [Idle EXCEPT !.at = IF kind = "verify" THEN "probe" ELSE "read", !.op = op])
  BY DEF Begin
<1>. DEFINE op == [kind |-> kind, key |-> key, value |-> value]
            x  == IF kind = "verify" THEN "probe" ELSE "read"
            d  == [Idle EXCEPT !.at = x, !.op = op]
<1>2. op \in Change /\ op.kind \in Kinds[store]  BY DEF Types, Change
<1>3. x \in {"probe", "read"} /\ (x = "probe" => op.kind = "verify")  OBVIOUS
<1>4. Do(a, d) /\ IF Locks(a, op) THEN lock = None /\ lock' = a ELSE UNCHANGED lock  BY <1>1
<1>. HIDE DEF op, x
<1>5. d \in Doing /\ d.at = x /\ d.op = op /\ d.next = Absent
  BY <1>2, <1>3, IdleFacts DEF Idle, Doing
<1>. HIDE DEF d
<1>6. Sound(d)  BY <1>2, <1>3, <1>5, AbsentFacts DEF Sound
<1>7. lock' \in Thread \cup {None}  BY <1>4 DEF Types, Locks, Guarded
<1>. QED  BY <1>4, <1>5, <1>6, <1>7, TypesFrame DEF Begin, Types

\* The death of a program leaves the files alone.
LEMMA DieTypes ==
  ASSUME Types, NEW a \in Actor, Die(a)
  PROVE  Types'
<1>1. /\ doing' \in [Actor -> Doing]
      /\ \A b \in Actor : doing'[b] \in {Idle, doing[b]}
      /\ lock' \in Thread \cup {None} /\ mishap' \in BOOLEAN
      /\ UNCHANGED <<store, file, keyring, evidence>>
  BY IdleFacts DEF Die, Types, Hurt
<1>2. \A b \in Actor : Sound(doing[b])'
  <2>. SUFFICES ASSUME NEW b \in Actor PROVE Sound(doing[b])'  OBVIOUS
  <2>1. PICK e : e = doing'[b]  OBVIOUS
  <2>2. Sound(e)  BY <1>1, <2>1, IdleFacts DEF Types
  <2>3. Sound(e)'  BY <1>1, <2>2, SoundStays
  <2>. QED  BY <2>1, <2>3 DEF Sound
<1>3. \A k \in Key : Good(file[k])'  BY <1>1 DEF Types, Good
<1>. QED  BY <1>1, <1>2, <1>3 DEF Types

\* An actor that has read the file has a sound content to change.
LEMMA ReadMoves ==
  ASSUME Types, NEW a \in Actor, Read(a)
  PROVE  Types' /\ Moves(a)
<1>1. Busy(a) /\ Kept  BY KeptAll DEF Read, Busy, Types
<1>2. CASE Accepts(file, doing[a].op)
  <2>. DEFINE d == [doing[a] EXCEPT !.at = "replace", !.seen = file]
  <2>1. doing[a] \in Doing /\ Sound(doing[a]) /\ file \in File  BY DEF Types
  <2>2. d \in Doing /\ d.at = "replace" /\ d.seen = file /\ d.op = doing[a].op /\ d.next = doing[a].next
    BY <2>1 DEF Doing
  <2>3. Do(a, d) /\ lock' = lock /\ store # "providers"  BY <1>2 DEF Read
  <2>. HIDE DEF d
  <2>4. Sound(d)  BY <1>1, <1>2, <2>1, <2>2, <2>3 DEF Sound, Types, Busy
  <2>. QED  BY <1>1, <2>2, <2>3, <2>4, GoTypes
<1>3. CASE ~Accepts(file, doing[a].op)  BY <1>1, <1>3, AnswerTypes DEF Read
<1>. QED  BY <1>2, <1>3

\* What is put in the place of a file.
LEMMA ReplaceFacts ==
  ASSUME Types, NEW a \in Actor, Replace(a)
  PROVE  /\ Kept
         /\ \/ file' = file
            \/ file' = [k \in Key |-> IF store = "chats" /\ k # doing[a].op.key THEN file[k]
                                      ELSE Result(doing[a].seen, doing[a].op)[k]]
<1>1. Sound(doing[a]) /\ doing[a].at = "replace"  BY DEF Types, Replace
<1>. DEFINE f == Result(doing[a].seen, doing[a].op)
            g == [k \in Key |-> IF store = "chats" /\ k # doing[a].op.key THEN file[k] ELSE f[k]]
<1>2. f \in File /\ \A k \in Key : Good(f[k])
  BY <1>1, ResultFacts DEF Sound, Types
<1>3. file \in File /\ \A k \in Key : Good(file[k])  BY DEF Types
<1>4. file' = file \/ file' = g  BY DEF Replace
<1>. HIDE DEF f
<1>5. g \in File /\ \A k \in Key : Good(g[k])  BY <1>2, <1>3 DEF File
<1>6. file' \in File /\ \A k \in Key : Good(file'[k])  BY <1>3, <1>4, <1>5
<1>7. Kept  BY <1>6 DEF Replace, Kept, Types, Hurt
<1>. QED  BY <1>4, <1>7 DEF f

\* A file is replaced by a sound one; only a verification goes on after that.
LEMMA ReplaceMoves ==
  ASSUME Types, NEW a \in Actor, Replace(a)
  PROVE  Types' /\ Moves(a)
<1>1. Busy(a) /\ Kept  BY ReplaceFacts DEF Replace, Busy
<1>2. CASE Answer(a)  BY <1>1, <1>2, AnswerTypes
<1>3. CASE Do(a, [doing[a] EXCEPT !.at = "record", !.seen = None]) /\ lock' = lock
           /\ doing[a].op.kind = "verify"
  <2>. DEFINE d == [doing[a] EXCEPT !.at = "record", !.seen = None]
  <2>1. doing[a] \in Doing /\ Sound(doing[a])  BY DEF Types
  <2>2. d \in Doing /\ d.at = "record" /\ d.op = doing[a].op /\ d.next = doing[a].next
    BY <2>1 DEF Doing
  <2>3. Do(a, d) /\ lock' = lock  BY <1>3
  <2>. HIDE DEF d
  <2>4. Sound(d)  BY <1>1, <1>3, <2>1, <2>2 DEF Sound, Busy
  <2>. QED  BY <1>1, <2>2, <2>3, <2>4, GoTypes
<1>. QED  BY <1>2, <1>3 DEF Replace

\* The steps of a verification around that of its profile are steps of a profile.
LEMMA VerifyMoves ==
  ASSUME Types, NEW a \in Actor, Probe(a) \/ RecordResult(a) \/ Undo(a)
  PROVE  Types' /\ Moves(a) /\ store # "providers"
<1>0. Busy(a) /\ doing[a].op.kind = "verify"
  BY DEF Probe, RecordResult, Undo, Busy, Types, Sound
<1>4. store # "providers"
  <2>1. "verify" \in Kinds[store] /\ store \in Store  BY <1>0 DEF Types, Sound, Busy
  <2>. QED  BY <2>1 DEF Kinds, Store
<1>1. CASE Probe(a)
  <2>1. Kept  BY <1>1, KeptAll DEF Probe, Types
  <2>. QED  BY <1>0, <1>1, <1>4, <2>1, PlaceTypes, AnswerTypes DEF Probe, At
<1>2. CASE RecordResult(a)
  <2>1. Kept  BY <1>2, KeptAll DEF RecordResult, Types
  <2>. QED  BY <1>0, <1>2, <1>4, <2>1, PlaceTypes, AnswerTypes DEF RecordResult, AfterRecord, At
<1>3. CASE Undo(a)
  <2>1. file \in File /\ Absent \in Record  BY AbsentFacts DEF Types
  <2>2. file' \in File /\ \A k \in Key : file'[k] \in {file[k], Absent}
    BY <1>3, <2>1 DEF Undo, File
  <2>3. \A k \in Key : Good(file'[k])  BY <2>2, AbsentFacts DEF Types
  <2>4. Kept  BY <1>3, <2>2, <2>3 DEF Undo, Kept, Types, Hurt
  <2>. QED  BY <1>0, <1>3, <1>4, <2>4, AnswerTypes DEF Undo
<1>. QED  BY <1>1, <1>2, <1>3

-----------------------------------------------------------------------------
(* The connections and their secrets.                                      *)

\* What is to be put for a connection: with a secret that is new, or with the
\* one the connection has, or with none; and what is to be dropped then.
Planned(d, r) ==
  /\ d.fresh # None => d.at = "secret" /\ d.next.ref = d.fresh
  /\ d.fresh = None => d.at \in {"check", "put"} /\ d.next.ref \in {None, r.ref}
  /\ d.old = IF r.ref # d.next.ref THEN r.ref ELSE None
  /\ d.at = "put" => ~d.next.on

\* An actor that goes on with a connection has planned what to put and to drop.
LEMMA PrepareFacts ==
  ASSUME Types, NEW a \in Actor, Prepare(a), ~Answer(a)
  PROVE  \E d \in Doing :
           /\ Do(a, d) /\ lock' = lock /\ d.op = doing[a].op /\ Sound(d)
           /\ d.at \in {"secret", "check", "put"}
           /\ d.fresh \in FreshSecrets \cup {None}
           /\ Planned(d, file[doing[a].op.key])
<1>. DEFINE op == doing[a].op
            r  == file[op.key]
<1>0. /\ doing[a] \in Doing /\ Sound(doing[a]) /\ doing[a].at = "read" /\ store = "providers"
      /\ op \in Change /\ op.key \in Key /\ op.value \in Value
  BY DEF Types, Prepare, Sound, Change
<1>1. r \in Record /\ Good(r)  BY <1>0, AbsentFacts DEF Types, File
<1>2. PICK enabled \in BOOLEAN, key \in {"keep", "new", "clear"} :
        /\ op.kind = "connect" => key # "clear"
        /\ (op.kind = "connect" /\ enabled) => key = "new"
        /\ \E s \in IF key = "new" THEN FreshSecrets ELSE {None} :
             LET base == IF op.kind = "connect" THEN Blank(op.value)
                         ELSE [r EXCEPT !.data = op.value]
                 next == [base EXCEPT !.on  = enabled /\ key # "clear",
                                      !.ref = IF key = "keep" THEN r.ref ELSE s]
             IN Do(a, [doing[a] EXCEPT
                  !.at = IF key = "new" THEN "secret"
                         ELSE IF op.kind = "connect" THEN "put" ELSE "check",
                  !.next = next, !.fresh = s,
                  !.old = IF r.ref # next.ref THEN r.ref ELSE None])
  BY Zenon DEF Prepare
<1>. DEFINE base == IF op.kind = "connect" THEN Blank(op.value) ELSE [r EXCEPT !.data = op.value]
            on   == enabled /\ key # "clear"
            x    == IF key = "new" THEN "secret" ELSE IF op.kind = "connect" THEN "put" ELSE "check"
<1>3. PICK s \in IF key = "new" THEN FreshSecrets ELSE {None} :
        LET next == [base EXCEPT !.on = on, !.ref = IF key = "keep" THEN r.ref ELSE s]
        IN Do(a, [doing[a] EXCEPT !.at = x, !.next = next, !.fresh = s,
                                  !.old = IF r.ref # next.ref THEN r.ref ELSE None])
  BY <1>2
<1>. DEFINE ref  == IF key = "keep" THEN r.ref ELSE s
            next == [base EXCEPT !.on = on, !.ref = ref]
            old  == IF r.ref # next.ref THEN r.ref ELSE None
            d    == [doing[a] EXCEPT !.at = x, !.next = next, !.fresh = s, !.old = old]
<1>4. base \in Record /\ Good(base)
  <2>1. Blank(op.value) \in Record /\ Good(Blank(op.value))  BY <1>0, BlankFacts
  <2>. DEFINE m == [r EXCEPT !.data = op.value]
  <2>2. m \in Record /\ m.class = r.class /\ m.proof = r.proof  BY <1>0, <1>1, DataSet
  <2>. HIDE DEF m
  <2>3. Good(m)  BY <1>0, <1>1, <2>2 DEF Good
  <2>4. base = Blank(op.value) \/ base = m  BY DEF m
  <2>. QED  BY <2>1, <2>2, <2>3, <2>4
<1>5. s \in FreshSecrets \cup {None} /\ FreshSecrets \subseteq Secret  BY DEF FreshSecrets
<1>6. ref \in Secret \cup {None} /\ on \in BOOLEAN /\ x \in {"secret", "check", "put"}
  BY <1>1, <1>5 DEF Record
<1>7. Do(a, d) /\ lock' = lock  BY <1>3 DEF Prepare
<1>8. /\ s # None => x = "secret" /\ ref = s
      /\ s = None => x \in {"check", "put"} /\ ref \in {None, r.ref}
      /\ x = "put" => ~on
  BY <1>2, <1>5, NoneIsNothing
<1>. HIDE DEF base, on, x, ref
<1>9. /\ next \in Record /\ next.on = on /\ next.ref = ref
      /\ next.class = base.class /\ next.proof = base.proof /\ next.data = base.data
  BY <1>4, <1>6 DEF Record
<1>10. Good(next)  BY <1>0, <1>4, <1>9 DEF Good
<1>11. old = (IF r.ref # ref THEN r.ref ELSE None) /\ old \in Secret \cup {None}
  BY <1>1, <1>9 DEF Record
<1>. HIDE DEF next, old
<1>12. /\ d \in Doing /\ d.at = x /\ d.next = next /\ d.fresh = s /\ d.old = old /\ d.op = op
  BY <1>0, <1>5, <1>6, <1>9, <1>11, ZenonT(30) DEF Doing
<1>. HIDE DEF d
<1>13. Sound(d)  BY <1>0, <1>6, <1>8, <1>10, <1>12 DEF Sound
<1>14. Planned(d, r)  BY <1>8, <1>9, <1>11, <1>12 DEF Planned
<1>. QED  BY <1>5, <1>6, <1>7, <1>12, <1>13, <1>14

\* To prepare a change of a connection is a step of one actor.
LEMMA PrepareMoves ==
  ASSUME Types, NEW a \in Actor, Prepare(a)
  PROVE  Types' /\ Moves(a)
<1>1. Busy(a) /\ Kept  BY KeptAll DEF Prepare, Busy, Types
<1>2. CASE Answer(a)  BY <1>1, <1>2, AnswerTypes
<1>3. CASE ~Answer(a)
  <2>1. PICK d \in Doing : /\ Do(a, d) /\ lock' = lock /\ d.op = doing[a].op /\ Sound(d)
                           /\ d.at \in {"secret", "check", "put"}
    BY <1>3, PrepareFacts
  <2>. QED  BY <1>1, <2>1, GoTypes
<1>. QED  BY <1>2, <1>3

\* So are the steps that change a connection and the keyring.
LEMMA ConnectionMoves ==
  ASSUME Types, NEW a \in Actor, SetSecret(a) \/ Check(a) \/ Put(a) \/ Disconnect(a) \/ DropSecret(a)
  PROVE  Types' /\ Moves(a) /\ store = "providers"
<1>0. /\ Busy(a) /\ store = "providers" /\ doing[a] \in Doing /\ Sound(doing[a])
      /\ doing[a].op \in Change /\ doing[a].op.key \in Key
      /\ \A k \in Key : file[k] \in Record /\ Good(file[k])
  <2>1. Sound(doing[a]) /\ doing[a] \in Doing /\ doing[a].at # "idle"
    BY DEF Types, SetSecret, Check, Put, Disconnect, DropSecret
  <2>2. store = "providers"
    <3>1. CASE Disconnect(a)
      <4>1. "disconnect" \in Kinds[store] /\ store \in Store  BY <2>1, <3>1 DEF Disconnect, Sound, Types
      <4>. QED  BY <4>1 DEF Kinds, Store
    <3>2. CASE SetSecret(a) \/ Check(a) \/ Put(a) \/ DropSecret(a)
      BY <2>1, <3>2 DEF Sound, SetSecret, Check, Put, DropSecret
    <3>. QED  BY <3>1, <3>2
  <2>. QED  BY <2>1, <2>2, AbsentFacts DEF Busy, Sound, Change, Types, File
<1>1. doing[a].fresh \in Secret \cup {None} /\ doing[a].next \in Record /\ Good(doing[a].next)
  BY <1>0, AbsentFacts DEF Doing, Sound
<1>2. ASSUME NEW r \in Record, Good(r), Stored(doing[a].op.key, r)
      PROVE  file' \in File /\ \A k \in Key : Good(file'[k])
  BY <1>0, <1>2, AbsentFacts DEF Stored, Types, File
<1>3. CASE SetSecret(a)
  <2>1. store' = store /\ file' = file /\ evidence' = evidence /\ mishap' \in BOOLEAN
    BY <1>3 DEF SetSecret, Hurt, Types
  <2>2. keyring' \subseteq Secret
    <3>1. doing[a].fresh \in Secret  BY <1>0, <1>1, <1>3 DEF SetSecret, Sound
    <3>. QED  BY <1>3, <3>1 DEF SetSecret, Types
  <2>3. Kept  BY <2>1, <2>2 DEF Kept, Types
  <2>. QED  BY <1>0, <1>3, <2>3, PlaceTypes, AnswerTypes DEF SetSecret, At
<1>4. CASE Check(a)
  <2>1. Kept  BY <1>4, KeptAll DEF Check, Hurt, Types
  <2>. QED  BY <1>0, <1>4, <2>1, PlaceTypes, AnswerTypes DEF Check, At
<1>5. CASE Put(a)
  <2>1. store' = store /\ keyring' \subseteq Secret /\ evidence' = evidence /\ mishap' \in BOOLEAN
    BY <1>5 DEF Put, Hurt, Types
  <2>2. file' = file \/ Stored(doing[a].op.key, doing[a].next)  BY <1>5 DEF Put
  <2>3. file' \in File /\ \A k \in Key : Good(file'[k])  BY <1>1, <1>2, <2>2 DEF Types
  <2>4. Kept  BY <2>1, <2>3 DEF Kept, Types
  <2>. QED  BY <1>0, <1>5, <2>4, PlaceTypes, AnswerTypes DEF Put, At
<1>6. CASE Disconnect(a)
  <2>1. store' = store /\ keyring' = keyring /\ evidence' = evidence /\ mishap' \in BOOLEAN
    BY <1>6 DEF Disconnect, Hurt, Types
  <2>2. file' = file \/ Stored(doing[a].op.key, Absent)  BY <1>6 DEF Disconnect
  <2>3. file' \in File /\ \A k \in Key : Good(file'[k])  BY <1>2, <2>2, AbsentFacts DEF Types
  <2>4. Kept  BY <2>1, <2>3 DEF Kept, Types
  <2>5. CASE Answer(a)  BY <1>0, <2>4, <2>5, AnswerTypes
  <2>6. CASE Do(a, [doing[a] EXCEPT !.at = "drop", !.old = file[doing[a].op.key].ref]) /\ lock' = lock
    <3>. DEFINE x == file[doing[a].op.key].ref
                d == [doing[a] EXCEPT !.at = "drop", !.old = x]
    <3>1. x \in Secret \cup {None} /\ Do(a, d)  BY <1>0, <2>6 DEF Record
    <3>. HIDE DEF x
    <3>2. d \in Doing /\ d.at = "drop" /\ d.op = doing[a].op /\ d.next = doing[a].next
      BY <1>0, <3>1 DEF Doing
    <3>. HIDE DEF d
    <3>3. Sound(d)  BY <1>0, <3>2 DEF Sound, Busy
    <3>. QED  BY <1>0, <2>4, <2>6, <3>1, <3>2, <3>3, GoTypes
  <2>. QED  BY <1>6, <2>5, <2>6 DEF Disconnect
<1>7. CASE DropSecret(a)
  <2>1. Kept  BY <1>7 DEF DropSecret, Hurt, Types, Kept
  <2>. QED  BY <1>0, <1>7, <2>1, AnswerTypes DEF DropSecret
<1>. QED  BY <1>0, <1>3, <1>4, <1>5, <1>6, <1>7

\* Every step but the first and the death of a program moves one actor on.
Acts(a) ==
  \/ Read(a) \/ Replace(a) \/ Probe(a) \/ RecordResult(a) \/ Undo(a)
  \/ Prepare(a) \/ SetSecret(a) \/ Check(a) \/ Put(a) \/ Disconnect(a) \/ DropSecret(a)

\* What an actor does keeps the types.
LEMMA ActsMove == ASSUME Types, NEW a \in Actor, Acts(a) PROVE Types' /\ Moves(a)
BY ReadMoves, ReplaceMoves, VerifyMoves, PrepareMoves, ConnectionMoves DEF Acts

\* Every step keeps the types.
LEMMA TypesStep == Types /\ [Next]_vars => Types'
<1>. SUFFICES ASSUME Types, [Next]_vars PROVE Types'  OBVIOUS
<1>1. CASE UNCHANGED vars
  BY <1>1, ZenonT(30) DEF vars, Types, Sound, Good, Accepts, Changed
<1>2. CASE Next  BY <1>2, BeginTypes, DieTypes, ActsMove DEF Next, Acts
<1>. QED  BY <1>1, <1>2

-----------------------------------------------------------------------------
(* What is ordered.                                                        *)

\* Changes are ordered: by the lock of the overlay, or because none overlap.
Ordered == ~Together \/ store = "overlay"

\* Then one actor at a time is busy, and what a lock guards is done by who
\* holds it.
Exclusive ==
  Ordered =>
    /\ \A a, b \in Actor : Busy(a) /\ Busy(b) => a = b
    /\ \A a \in Actor : Busy(a) /\ Guarded(a, doing[a].op) => lock = a
    /\ \A a \in Actor : Busy(a) => a \in Thread \/ store \in OfDesk

\* And what a change is applied to is what the file holds.
Current == Ordered => \A a \in Actor : doing[a].at = "replace" => doing[a].seen = file

\* An actor begins when no other is busy.
LEMMA BeginFacts ==
  ASSUME Types, Exclusive, NEW a \in Actor, Begin(a)
  PROVE  /\ ~Busy(a) /\ UNCHANGED <<store, file, keyring, mishap>>
         /\ doing' \in [Actor -> Doing] /\ \A b \in Actor \ {a} : doing'[b] = doing[b]
         /\ doing'[a].at \in {"probe", "read"}
         /\ Ordered => \A b \in Actor : ~Busy(b)
         /\ Guarded(a, doing'[a].op) => lock' = a
         /\ a \in Thread \/ store \in OfDesk
<1>1. PICK kind \in Kinds[store], key \in Key, value \in Value :
        LET op == [kind |-> kind, key |-> key, value |-> value]
        IN /\ MayOverlap(a, op)
           /\ IF Locks(a, op) THEN lock = None /\ lock' = a ELSE UNCHANGED lock
           /\ Do(a, [Idle EXCEPT !.at = IF kind = "verify" THEN "probe" ELSE "read", !.op = op])
  BY DEF Begin
<1>. DEFINE op == [kind |-> kind, key |-> key, value |-> value]
            x  == IF kind = "verify" THEN "probe" ELSE "read"
            d  == [Idle EXCEPT !.at = x, !.op = op]
<1>2. op \in Change  BY DEF Types, Change
<1>3. x \in {"probe", "read"}  OBVIOUS
<1>4. /\ Do(a, d) /\ MayOverlap(a, op)
      /\ IF Locks(a, op) THEN lock = None /\ lock' = a ELSE UNCHANGED lock
  BY <1>1
<1>. HIDE DEF op, x
<1>5. d \in Doing /\ d.at = x /\ d.op = op  BY <1>2, <1>3, IdleFacts DEF Idle, Doing
<1>. HIDE DEF d
<1>6. /\ doing' \in [Actor -> Doing] /\ doing'[a] = d
      /\ \A b \in Actor \ {a} : doing'[b] = doing[b]
  BY <1>4, <1>5, DoFacts DEF Types
<1>7. ~Busy(a) /\ UNCHANGED <<store, file, keyring, mishap>>  BY DEF Begin
<1>8. Guarded(a, op) => lock = None /\ lock' = a  BY <1>4 DEF Locks
<1>9. ASSUME Ordered, NEW b \in Actor, Busy(b) PROVE FALSE
  <2>1. b # a  BY <1>7, <1>9
  <2>2. Guarded(a, op) /\ Guarded(b, doing[b].op)
    <3>1. CASE ~Together  BY <1>4, <1>9, <2>1, <3>1 DEF MayOverlap
    <3>2. CASE store = "overlay"
      <4>1. a \in Thread /\ b \in Thread  BY <1>9, <3>2 DEF Begin, Exclusive, OfDesk, Actor
      <4>. QED  BY <3>2, <4>1 DEF Guarded
    <3>. QED  BY <1>9, <3>1, <3>2 DEF Ordered
  <2>3. lock = b  BY <1>9, <2>2 DEF Exclusive
  <2>4. lock = None  BY <1>8, <2>2
  <2>5. b \in Thread  BY <2>2 DEF Guarded
  <2>. QED  BY <2>3, <2>4, <2>5, NoneIsNothing
<1>10. a \in Thread \/ store \in OfDesk  BY DEF Begin, Actor
<1>. QED  BY <1>3, <1>5, <1>6, <1>7, <1>8, <1>9, <1>10

\* What the death of a program leaves.
LEMMA DieFacts ==
  ASSUME Types, NEW a \in Actor, Die(a)
  PROVE  /\ \A b \in Actor : doing'[b] = Idle \/ (doing'[b] = doing[b] /\ (b \in Thread => lock' = lock))
         /\ UNCHANGED <<store, file, keyring>> /\ mishap'
BY DEF Die, Hurt, Types

\* Every step keeps ordered changes apart: a lock is taken when it is free, and goes
\* with the answer or the program of who holds it.
LEMMA ExclusiveStep == Types /\ Exclusive /\ [Next]_vars => Exclusive'
<1>. SUFFICES ASSUME Types, Exclusive, [Next]_vars, Ordered'
              PROVE  /\ \A a, b \in Actor : Busy(a)' /\ Busy(b)' => a = b
                     /\ \A a \in Actor : Busy(a)' /\ Guarded(a, doing[a].op)' => lock' = a
                     /\ \A a \in Actor : Busy(a)' => a \in Thread \/ store' \in OfDesk
  BY DEF Exclusive
<1>1. CASE UNCHANGED vars  BY <1>1 DEF vars, Exclusive, Ordered, Busy, Guarded
<1>2. ASSUME NEW a \in Actor, Begin(a)
      PROVE  /\ \A b, c \in Actor : Busy(b)' /\ Busy(c)' => b = c
             /\ \A b \in Actor : Busy(b)' /\ Guarded(b, doing[b].op)' => lock' = b
             /\ \A b \in Actor : Busy(b)' => b \in Thread \/ store' \in OfDesk
  <2>1. Ordered  BY <1>2, BeginFacts DEF Ordered
  <2>2. \A b \in Actor : Busy(b)' => b = a  BY <1>2, <2>1, BeginFacts DEF Busy
  <2>3. Guarded(a, doing[a].op)' => lock' = a  BY <1>2, BeginFacts DEF Guarded
  <2>4. a \in Thread \/ store' \in OfDesk  BY <1>2, BeginFacts
  <2>. QED  BY <2>2, <2>3, <2>4
<1>3. ASSUME NEW a \in Actor, Die(a)
      PROVE  /\ \A b, c \in Actor : Busy(b)' /\ Busy(c)' => b = c
             /\ \A b \in Actor : Busy(b)' /\ Guarded(b, doing[b].op)' => lock' = b
             /\ \A b \in Actor : Busy(b)' => b \in Thread \/ store' \in OfDesk
  <2>1. Ordered /\ store' = store  BY <1>3, DieFacts DEF Ordered
  <2>2. \A b \in Actor : Busy(b)' => doing'[b] = doing[b] /\ Busy(b) /\ (b \in Thread => lock' = lock)
    BY <1>3, DieFacts, IdleFacts DEF Busy
  <2>. QED  BY <2>1, <2>2 DEF Exclusive, Guarded
<1>4. ASSUME NEW a \in Actor, Moves(a)
      PROVE  /\ \A b, c \in Actor : Busy(b)' /\ Busy(c)' => b = c
             /\ \A b \in Actor : Busy(b)' /\ Guarded(b, doing[b].op)' => lock' = b
             /\ \A b \in Actor : Busy(b)' => b \in Thread \/ store' \in OfDesk
  <2>1. Ordered /\ store' = store /\ Busy(a)  BY <1>4 DEF Ordered, Moves
  <2>2. \A b \in Actor \ {a} : ~Busy(b)  BY <2>1 DEF Exclusive
  <2>3. \A b \in Actor \ {a} : doing'[b] = doing[b]  BY <1>4 DEF Moves, Answer, Do, Types
  <2>4. \A b \in Actor : Busy(b)' => b = a  BY <2>2, <2>3 DEF Busy
  <2>5. CASE Answer(a)
    <3>1. ~Busy(a)'  BY <2>5, IdleFacts, DoFacts DEF Answer, Busy, Types
    <3>. QED  BY <2>4, <3>1
  <2>6. CASE \E d \in Doing : Do(a, d) /\ d.at # "idle" /\ d.op = doing[a].op /\ lock' = lock
    <3>1. doing'[a].op = doing[a].op /\ lock' = lock  BY <2>6, DoFacts DEF Types
    <3>. QED  BY <2>1, <2>4, <3>1 DEF Exclusive, Guarded
  <2>. QED  BY <1>4, <2>5, <2>6 DEF Moves
<1>. QED  BY <1>1, <1>2, <1>3, <1>4, ActsMove DEF Next, Acts

\* Only who has read the file goes on to replace it.
LEMMA OnlyReaders ==
  ASSUME Types, NEW a \in Actor, Acts(a), doing'[a].at = "replace"
  PROVE  Read(a)
<1>. USE DEF At
<1>0. doing[a] \in Doing /\ doing \in [Actor -> Doing]  BY DEF Types
<1>1. ~Answer(a)  BY <1>0, IdleFacts, DoFacts DEF Answer
<1>2. ASSUME NEW x \in At \ {"replace"}, Do(a, [doing[a] EXCEPT !.at = x]) PROVE FALSE
  <2>. DEFINE d == [doing[a] EXCEPT !.at = x]
  <2>1. d \in Doing /\ d.at = x /\ Do(a, d)  BY <1>0, <1>2, MoveFacts
  <2>. HIDE DEF d
  <2>. QED  BY <1>0, <2>1, DoFacts
<1>3. ~Replace(a)
  <2>1. SUFFICES ASSUME Do(a, [doing[a] EXCEPT !.at = "record", !.seen = None]) PROVE FALSE
    BY <1>1 DEF Replace
  <2>. QED  BY <1>0, <2>1 DEF Do, Doing
<1>4. ~(Probe(a) \/ RecordResult(a) \/ Undo(a))
  BY <1>1, <1>2 DEF Probe, RecordResult, AfterRecord, Undo
<1>5. ~Prepare(a)
  <2>1. SUFFICES ASSUME NEW d \in Doing, Do(a, d), d.at \in {"secret", "check", "put"} PROVE FALSE
    BY <1>1, PrepareFacts
  <2>. QED  BY <1>0, <2>1, DoFacts
<1>6. ~(SetSecret(a) \/ Check(a) \/ Put(a) \/ DropSecret(a))
  BY <1>1, <1>2 DEF SetSecret, Check, Put, DropSecret
<1>7. ~Disconnect(a)
  <2>1. SUFFICES ASSUME NEW x, Do(a, [doing[a] EXCEPT !.at = "drop", !.old = x]) PROVE FALSE
    BY <1>1 DEF Disconnect
  <2>. QED  BY <1>0, <2>1 DEF Do, Doing
<1>. QED  BY <1>3, <1>4, <1>5, <1>6, <1>7 DEF Acts

\* What an actor has read of the file is what the file holds until it replaces it,
\* for no other replaces it in between.
LEMMA CurrentStep == Types /\ Exclusive /\ Current /\ [Next]_vars => Current'
<1>. SUFFICES ASSUME Types, Exclusive, Current, [Next]_vars, Ordered',
                     NEW b \in Actor, doing'[b].at = "replace"
              PROVE  doing'[b].seen = file'
  BY DEF Current
<1>1. CASE UNCHANGED vars  BY <1>1 DEF vars, Current, Ordered
<1>2. ASSUME NEW a \in Actor, Begin(a) PROVE doing'[b].seen = file'
  <2>1. Ordered  BY <1>2, BeginFacts DEF Ordered
  <2>2. b # a /\ doing'[b] = doing[b] /\ ~Busy(b)  BY <1>2, <2>1, BeginFacts
  <2>. QED  BY <2>2 DEF Busy
<1>3. ASSUME NEW a \in Actor, Die(a) PROVE doing'[b].seen = file'
  <2>1. Ordered /\ file' = file /\ doing'[b] = doing[b]  BY <1>3, DieFacts, IdleFacts DEF Ordered
  <2>. QED  BY <2>1 DEF Current
<1>4. ASSUME NEW a \in Actor, Acts(a) PROVE doing'[b].seen = file'
  <2>0. Moves(a) /\ Ordered  BY <1>4, ActsMove DEF Moves, Ordered
  <2>1. b = a
    <3>1. \A c \in Actor \ {a} : doing'[c] = doing[c] /\ ~Busy(c)
      BY <2>0 DEF Exclusive, Moves, Answer, Do, Types
    <3>. QED  BY <3>1 DEF Busy
  <2>2. Read(a)  BY <1>4, <2>1, OnlyReaders
  <2>3. ~Answer(a)  BY <2>1, IdleFacts, DoFacts DEF Answer, Types
  <2>4. Do(a, [doing[a] EXCEPT !.at = "replace", !.seen = file]) /\ file' = file  BY <2>2, <2>3 DEF Read
  <2>. QED  BY <2>1, <2>4 DEF Do, Types, Doing
<1>. QED  BY <1>1, <1>2, <1>3, <1>4 DEF Next, Acts

-----------------------------------------------------------------------------
(* Connections and the keyring.                                            *)

\* A connection finds the secret it names, which no other names.
Linked(f, ring) ==
  /\ \A k \in Key : f[k].ref \in ring \cup {None} /\ (f[k].on => f[k].ref # None)
  /\ \A j, k \in Key : j # k /\ f[j].ref = f[k].ref => f[j].ref = None

\* What an actor is about to do to connections and secrets: the secret it has
\* set is named by no connection yet, that it drops by none any more, and
\* the connection it puts has the new secret, that of its predecessor or none.
Pending(d, f, ring) ==
  /\ d.at \in {"secret", "check", "put"} =>
       /\ d.fresh # None => d.next.ref = d.fresh /\ \A k \in Key : f[k].ref # d.fresh
       /\ d.fresh = None => d.next.ref \in {None, f[d.op.key].ref}
       /\ d.old = IF f[d.op.key].ref # d.next.ref THEN f[d.op.key].ref ELSE None
  /\ d.at \in {"check", "put"} => d.fresh \in ring \cup {None}
  /\ d.at = "put" /\ d.next.on => d.next.ref # None
  /\ d.at = "drop" => d.old = None \/ \A k \in Key : f[k].ref # d.old

\* The secret that an actor has still to name or to drop.
Owes(d, x) == (d.at \in {"check", "put"} /\ x = d.fresh) \/ (d.at = "drop" /\ x = d.old)
Owned(f, ring, d) == \A x \in ring : (\E k \in Key : x = f[k].ref) \/ Owes(d, x)

Connecting == ~Together /\ store = "providers"
Secrets ==
  /\ store # "providers" => keyring = {}
  /\ Connecting =>
       /\ Linked(file, keyring)
       /\ \A a \in Actor : Pending(doing[a], file, keyring)
       /\ mishap \/ \E d \in {doing[a] : a \in Actor} \cup {Idle} : Owned(file, keyring, d)

\* What holds of the one actor that is busy.
LEMMA SecretsNow ==
  ASSUME Types, Exclusive, Secrets, Connecting, NEW a \in Actor, Busy(a)
  PROVE  /\ Linked(file, keyring) /\ Pending(doing[a], file, keyring)
         /\ mishap \/ Owned(file, keyring, doing[a])
<1>1. ASSUME NEW b \in Actor, b # a PROVE doing[b].at = "idle"
  BY <1>1 DEF Exclusive, Ordered, Connecting, Busy
<1>2. ASSUME NEW d, d.at = "idle", Owned(file, keyring, d) PROVE Owned(file, keyring, doing[a])
  BY <1>2 DEF Owned, Owes
<1>. QED  BY <1>1, <1>2, IdleFacts DEF Secrets

\* It is enough that these hold of it after its step.
LEMMA SecretsFrame ==
  ASSUME Types, Exclusive, Connecting, NEW a \in Actor, Moves(a), NEW e, e = doing'[a],
         Linked(file', keyring'), Pending(e, file', keyring'), mishap' \/ Owned(file', keyring', e)
  PROVE  Secrets'
<1>1. ASSUME NEW b \in Actor, b # a PROVE doing'[b].at = "idle"
  BY <1>1 DEF Exclusive, Ordered, Connecting, Busy, Moves, Answer, Do, Types
<1>2. ASSUME NEW b \in Actor PROVE Pending(doing'[b], file', keyring')
  BY <1>1 DEF Pending
<1>3. store' = "providers"  BY DEF Moves, Connecting
<1>4. mishap' \/ \E d \in {doing'[b] : b \in Actor} \cup {Idle} : Owned(file', keyring', d)
  OBVIOUS
<1>. QED  BY <1>2, <1>3, <1>4 DEF Secrets

\* An actor that answers leaves nothing pending.
LEMMA SecretsAnswer ==
  ASSUME Types, Exclusive, Connecting, NEW a \in Actor, Moves(a), Answer(a),
         Linked(file', keyring'), mishap' \/ Owned(file', keyring', Idle)
  PROVE  Secrets'
<1>1. doing'[a] = Idle  BY IdleFacts, DoFacts DEF Answer, Types
<1>2. Pending(Idle, file', keyring')  BY IdleFacts DEF Pending
<1>. QED  BY <1>1, <1>2, SecretsFrame

\* Preparing a change of a connection: nothing is put yet.
LEMMA PrepareSecrets ==
  ASSUME Types, Exclusive, Secrets, Connecting, NEW a \in Actor, Prepare(a)
  PROVE  Secrets'
<1>0. /\ Moves(a) /\ Busy(a) /\ doing[a].at = "read" /\ UNCHANGED <<file, keyring, mishap>>
      /\ doing[a] \in Doing /\ doing[a].op.key \in Key
  BY PrepareMoves DEF Prepare, Busy, Types, Sound, Change
<1>1. /\ Linked(file, keyring) /\ (mishap \/ Owned(file, keyring, doing[a]))  BY <1>0, SecretsNow
<1>2. mishap \/ \A d : Owned(file, keyring, d)  BY <1>0, <1>1 DEF Owned, Owes
<1>3. CASE Answer(a)  BY <1>0, <1>1, <1>2, <1>3, SecretsAnswer
<1>4. CASE ~Answer(a)
  <2>1. PICK d \in Doing : /\ Do(a, d) /\ d.op = doing[a].op /\ d.at \in {"secret", "check", "put"}
                           /\ d.fresh \in FreshSecrets \cup {None}
                           /\ Planned(d, file[doing[a].op.key])
    BY <1>4, PrepareFacts
  <2>2. doing'[a] = d  BY <2>1, DoFacts DEF Types
  <2>3. d.fresh # None => \A k \in Key : file[k].ref # d.fresh  BY <2>1 DEF FreshSecrets
  <2>4. Pending(d, file, keyring)  BY <2>1, <2>3 DEF Pending, Planned
  <2>. QED  BY <1>0, <1>1, <1>2, <2>2, <2>4, SecretsFrame
<1>. QED  BY <1>3, <1>4

\* A new secret is set before a connection names it.
LEMMA SetSecrets ==
  ASSUME Types, Exclusive, Secrets, Connecting, NEW a \in Actor, SetSecret(a)
  PROVE  Secrets'
<1>0. /\ Moves(a) /\ Busy(a) /\ doing[a].at = "secret" /\ UNCHANGED file
      /\ doing[a] \in Doing /\ doing[a].fresh # None
  BY ConnectionMoves DEF SetSecret, Busy, Types, Sound
<1>1. /\ Linked(file, keyring) /\ Pending(doing[a], file, keyring)
      /\ mishap \/ Owned(file, keyring, doing[a])
  BY <1>0, SecretsNow
<1>2. CASE Answer(a)
  <2>1. Linked(file', keyring')  BY <1>0, <1>1, <1>2 DEF SetSecret, Linked
  <2>2. mishap' \/ Owned(file', keyring', Idle)
    <3>1. CASE Hurt(TRUE)  BY <3>1 DEF Hurt
    <3>2. CASE ~Hurt(TRUE)
      <4>1. doing'[a].at # "idle"
        <5>. DEFINE x == IF doing[a].op.kind = "connect" THEN "put" ELSE "check"
                    d == [doing[a] EXCEPT !.at = x]
        <5>1. x \in At /\ x # "idle" /\ Do(a, d)  BY <3>2 DEF SetSecret, At
        <5>. HIDE DEF x
        <5>2. d \in Doing /\ d.at = x  BY <1>0, <5>1, MoveFacts
        <5>. HIDE DEF d
        <5>. QED  BY <5>1, <5>2, DoFacts DEF Types
      <4>. QED  BY <1>2, <4>1, DoFacts, IdleFacts DEF Answer, Types
    <3>. QED  BY <3>1, <3>2
  <2>. QED  BY <1>0, <1>2, <2>1, <2>2, SecretsAnswer
<1>3. CASE ~Answer(a)
  <2>. DEFINE x == IF doing[a].op.kind = "connect" THEN "put" ELSE "check"
              d == [doing[a] EXCEPT !.at = x]
  <2>1. /\ x \in At /\ x \in {"put", "check"} /\ Do(a, d)
        /\ keyring' = keyring \cup {doing[a].fresh} /\ mishap' = mishap
    BY <1>3 DEF SetSecret, At, Hurt, Types
  <2>. HIDE DEF x
  <2>2. /\ d \in Doing /\ d.at = x /\ d.op = doing[a].op
        /\ d.next = doing[a].next /\ d.old = doing[a].old /\ d.fresh = doing[a].fresh
    BY <1>0, <2>1, MoveFacts
  <2>3. Do(a, d)  BY <2>1
  <2>. HIDE DEF d
  <2>4. doing'[a] = d  BY <2>2, <2>3, DoFacts DEF Types
  <2>5. Linked(file', keyring')  BY <1>0, <1>1, <2>1 DEF Linked
  <2>6. Pending(d, file', keyring')  BY <1>0, <1>1, <2>1, <2>2 DEF Pending
  <2>7. mishap \/ Owned(file', keyring', d)  BY <1>0, <1>1, <2>1, <2>2 DEF Owned, Owes
  <2>. QED  BY <1>0, <2>1, <2>4, <2>5, <2>6, <2>7, SecretsFrame
<1>. QED  BY <1>2, <1>3

\* A connection is put enabled only with a secret that is there.
LEMMA CheckSecrets ==
  ASSUME Types, Exclusive, Secrets, Connecting, NEW a \in Actor, Check(a)
  PROVE  Secrets'
<1>0. /\ Moves(a) /\ Busy(a) /\ doing[a].at = "check" /\ UNCHANGED <<file, keyring>>
      /\ doing[a] \in Doing
  BY ConnectionMoves DEF Check, Busy, Types
<1>1. /\ Linked(file, keyring) /\ Pending(doing[a], file, keyring)
      /\ mishap \/ Owned(file, keyring, doing[a])
  BY <1>0, SecretsNow
<1>2. CASE Answer(a) /\ Hurt(TRUE)
  BY <1>0, <1>1, <1>2, SecretsAnswer DEF Hurt
<1>3. CASE ~Credential(a) /\ Answer(a) /\ Hurt(FALSE)
  <2>1. doing[a].fresh = None  BY <1>0, <1>1, <1>3 DEF Pending, Credential
  <2>2. mishap \/ Owned(file, keyring, Idle)
    BY <1>0, <1>1, <2>1, NoneIsNothing DEF Owned, Owes, Types
  <2>3. mishap' = mishap  BY <1>3 DEF Hurt, Types
  <2>. QED  BY <1>0, <1>1, <1>3, <2>2, <2>3, SecretsAnswer
<1>4. CASE Credential(a) /\ Do(a, [doing[a] EXCEPT !.at = "put"]) /\ Hurt(FALSE)
  <2>. DEFINE d == [doing[a] EXCEPT !.at = "put"]
  <2>1. /\ d \in Doing /\ d.at = "put" /\ d.op = doing[a].op
        /\ d.next = doing[a].next /\ d.old = doing[a].old /\ d.fresh = doing[a].fresh
    BY <1>0, MoveFacts DEF At
  <2>2. Do(a, d) /\ mishap' = mishap  BY <1>4 DEF Hurt, Types
  <2>. HIDE DEF d
  <2>3. doing'[a] = d  BY <2>1, <2>2, DoFacts DEF Types
  <2>4. d.next.on => d.next.ref # None
    BY <1>4, <2>1, NoneIsNothing DEF Credential, Types
  <2>5. Pending(d, file, keyring)  BY <1>0, <1>1, <2>1, <2>4 DEF Pending
  <2>6. mishap \/ Owned(file, keyring, d)  BY <1>0, <1>1, <2>1 DEF Owned, Owes
  <2>. QED  BY <1>0, <1>1, <2>2, <2>3, <2>5, <2>6, SecretsFrame
<1>. QED  BY <1>2, <1>3, <1>4 DEF Check

\* A record is put: the one it takes the place of loses its secret, which the
\* actor drops; or it could not be put, and the new secret may stay behind.
LEMMA PutSecrets ==
  ASSUME Types, Exclusive, Secrets, Connecting, NEW a \in Actor, Put(a)
  PROVE  Secrets'
<1>0. /\ Moves(a) /\ Busy(a) /\ doing[a].at = "put" /\ doing[a] \in Doing
      /\ doing[a].op.key \in Key /\ file \in File
  BY ConnectionMoves DEF Put, Busy, Types, Sound, Change
<1>1. /\ Linked(file, keyring) /\ Pending(doing[a], file, keyring)
      /\ mishap \/ Owned(file, keyring, doing[a])
  BY <1>0, SecretsNow
<1>2. CASE keyring' \in {keyring, keyring \ {doing[a].fresh}} /\ Hurt(TRUE) /\ Answer(a) /\ file' = file
  <2>1. \A k \in Key : file[k].ref # None => file[k].ref # doing[a].fresh  BY <1>0, <1>1 DEF Pending
  <2>2. Linked(file', keyring')  BY <1>1, <1>2, <2>1 DEF Linked
  <2>. QED  BY <1>0, <1>2, <2>2, SecretsAnswer DEF Hurt
<1>3. CASE /\ Stored(doing[a].op.key, doing[a].next) /\ Do(a, [doing[a] EXCEPT !.at = "drop"])
           /\ Hurt(FALSE) /\ keyring' = keyring
  <2>. DEFINE d == [doing[a] EXCEPT !.at = "drop"]
              q == doing[a].op.key
              n == doing[a].next
  <2>1. /\ d \in Doing /\ d.at = "drop" /\ d.old = doing[a].old
    BY <1>0, MoveFacts DEF At
  <2>2. Do(a, d) /\ mishap' = mishap  BY <1>3 DEF Hurt, Types
  <2>. HIDE DEF d
  <2>3. doing'[a] = d  BY <2>1, <2>2, DoFacts DEF Types
  <2>4. /\ file'[q] = n /\ \A k \in Key \ {q} : file'[k] = file[k]
    BY <1>0, <1>3 DEF Stored, File
  <2>5. /\ n.on => n.ref # None
        /\ n.ref = doing[a].fresh \/ n.ref \in {None, file[q].ref}
        /\ doing[a].fresh \in keyring \cup {None}
        /\ doing[a].fresh # None => \A k \in Key : file[k].ref # doing[a].fresh
        /\ d.old = IF file[q].ref # n.ref THEN file[q].ref ELSE None
        /\ doing[a].fresh # None => n.ref = doing[a].fresh
    BY <1>0, <1>1, <2>1 DEF Pending
  <2>. HIDE DEF q, n
  <2>6. q \in Key  BY <1>0 DEF q
  <2>7. Linked(file', keyring')
    <3>1. ASSUME NEW k \in Key
          PROVE  file'[k].ref \in keyring \cup {None} /\ (file'[k].on => file'[k].ref # None)
      <4>1. CASE k = q  BY <1>1, <2>4, <2>5, <2>6, <4>1 DEF Linked
      <4>2. CASE k # q  BY <1>1, <2>4, <4>2 DEF Linked
      <4>. QED  BY <4>1, <4>2
    <3>2. ASSUME NEW j \in Key, NEW k \in Key, j # k, file'[j].ref = file'[k].ref
          PROVE  file'[j].ref = None
      <4>1. CASE k = q  BY <1>1, <2>4, <2>5, <2>6, <3>2, <4>1 DEF Linked
      <4>2. CASE j = q  BY <1>1, <2>4, <2>5, <2>6, <3>2, <4>2 DEF Linked
      <4>3. CASE j # q /\ k # q  BY <1>1, <2>4, <3>2, <4>3 DEF Linked
      <4>. QED  BY <4>1, <4>2, <4>3
    <3>. QED  BY <1>3, <3>1, <3>2 DEF Linked
  <2>8. Pending(d, file', keyring')
    <3>1. ASSUME NEW k \in Key, d.old # None PROVE file'[k].ref # d.old
      BY <1>1, <2>4, <2>5, <2>6, <3>1 DEF Linked
    <3>. QED  BY <2>1, <3>1 DEF Pending
  <2>9. ASSUME ~mishap PROVE Owned(file', keyring', d)
    <3>. SUFFICES ASSUME NEW x \in keyring PROVE (\E k \in Key : x = file'[k].ref) \/ x = d.old
      BY <1>3, <2>1 DEF Owned, Owes
    <3>1. (\E k \in Key : x = file[k].ref) \/ x = doing[a].fresh
      BY <1>0, <1>1, <2>9 DEF Owned, Owes
    <3>2. CASE x = doing[a].fresh  BY <2>4, <2>5, <2>6, <3>2, NoneIsNothing DEF Types
    <3>3. CASE \E k \in Key : x = file[k].ref  BY <2>4, <2>5, <2>6, <3>3
    <3>. QED  BY <3>1, <3>2, <3>3
  <2>. QED  BY <1>0, <2>2, <2>3, <2>7, <2>8, <2>9, SecretsFrame
<1>. QED  BY <1>2, <1>3 DEF Put

\* A connection goes before its secret.
LEMMA DisconnectSecrets ==
  ASSUME Types, Exclusive, Secrets, Connecting, NEW a \in Actor, Disconnect(a)
  PROVE  Secrets'
<1>0. /\ Moves(a) /\ Busy(a) /\ doing[a].at = "read" /\ keyring' = keyring /\ doing[a] \in Doing
      /\ doing[a].op.key \in Key /\ file \in File
  BY ConnectionMoves DEF Disconnect, Busy, Types, Sound, Change
<1>1. Linked(file, keyring) /\ (mishap \/ Owned(file, keyring, doing[a]))  BY <1>0, SecretsNow
<1>2. mishap \/ \A d : Owned(file, keyring, d)  BY <1>0, <1>1 DEF Owned, Owes
<1>3. CASE Answer(a) /\ file' = file /\ Hurt(Readable(file) /\ file[doing[a].op.key] # Absent)
  <2>1. mishap' \/ ~mishap  BY <1>3 DEF Hurt, Types
  <2>. QED  BY <1>0, <1>1, <1>2, <1>3, <2>1, SecretsAnswer
<1>4. CASE /\ Stored(doing[a].op.key, Absent) /\ Hurt(FALSE)
           /\ Do(a, [doing[a] EXCEPT !.at = "drop", !.old = file[doing[a].op.key].ref])
  <2>. DEFINE q == doing[a].op.key
              x == file[q].ref
              d == [doing[a] EXCEPT !.at = "drop", !.old = x]
  <2>0. x \in Secret \cup {None}  BY <1>0, AbsentFacts DEF File, Record
  <2>1. Do(a, d) /\ mishap' = mishap  BY <1>4 DEF Hurt, Types
  <2>2. /\ file'[q] = Absent /\ \A k \in Key \ {q} : file'[k] = file[k]
    BY <1>0, <1>4 DEF Stored, File
  <2>. HIDE DEF x
  <2>3. d \in Doing /\ d.at = "drop" /\ d.old = x  BY <1>0, <2>0 DEF Doing
  <2>. HIDE DEF d
  <2>4. doing'[a] = d  BY <2>1, <2>3, DoFacts DEF Types
  <2>. HIDE DEF q
  <2>5. q \in Key /\ x = file[q].ref  BY <1>0 DEF q, x
  <2>6. Linked(file', keyring')  BY <1>0, <1>1, <2>2, <2>5, AbsentFacts DEF Linked
  <2>7. Pending(d, file', keyring')
    <3>1. ASSUME NEW k \in Key, x # None PROVE file'[k].ref # x
      BY <1>1, <2>2, <2>5, <3>1, AbsentFacts DEF Linked
    <3>. QED  BY <2>3, <3>1 DEF Pending
  <2>8. ASSUME ~mishap PROVE Owned(file', keyring', d)
    <3>. SUFFICES ASSUME NEW y \in keyring PROVE (\E k \in Key : y = file'[k].ref) \/ y = x
      BY <1>0, <2>3 DEF Owned, Owes
    <3>1. \E k \in Key : y = file[k].ref  BY <1>0, <1>1, <2>8 DEF Owned, Owes
    <3>. QED  BY <2>2, <2>5, <3>1
  <2>. QED  BY <1>0, <2>1, <2>4, <2>6, <2>7, <2>8, SecretsFrame
<1>. QED  BY <1>3, <1>4 DEF Disconnect

\* The secret that goes is named by no connection.
LEMMA DropSecrets ==
  ASSUME Types, Exclusive, Secrets, Connecting, NEW a \in Actor, DropSecret(a)
  PROVE  Secrets'
<1>0. /\ Moves(a) /\ Busy(a) /\ doing[a].at = "drop" /\ UNCHANGED file /\ Answer(a)
  BY ConnectionMoves DEF DropSecret, Busy
<1>1. /\ Linked(file, keyring) /\ Pending(doing[a], file, keyring)
      /\ mishap \/ Owned(file, keyring, doing[a])
  BY <1>0, SecretsNow
<1>2. CASE keyring' = keyring \ {doing[a].old} /\ Hurt(FALSE)
  <2>1. \A k \in Key : file[k].ref # None => file[k].ref # doing[a].old  BY <1>0, <1>1 DEF Pending
  <2>2. Linked(file', keyring')  BY <1>0, <1>1, <1>2, <2>1 DEF Linked
  <2>3. mishap \/ Owned(file', keyring', Idle)  BY <1>0, <1>1, <1>2 DEF Owned, Owes
  <2>4. mishap' = mishap  BY <1>2 DEF Hurt, Types
  <2>. QED  BY <1>0, <2>2, <2>3, <2>4, SecretsAnswer
<1>3. CASE keyring' = keyring /\ Hurt(TRUE)
  BY <1>0, <1>1, <1>3, SecretsAnswer DEF Hurt
<1>. QED  BY <1>2, <1>3 DEF DropSecret

\* Every step keeps the connections and the keyring in agreement.
LEMMA SecretsStep == Types /\ Exclusive /\ Secrets /\ [Next]_vars => Secrets'
<1>. SUFFICES ASSUME Types, Exclusive, Secrets, [Next]_vars PROVE Secrets'  OBVIOUS
<1>1. CASE UNCHANGED vars
  BY <1>1 DEF vars, Secrets, Connecting
<1>2. ASSUME NEW a \in Actor, Begin(a) PROVE Secrets'
  <2>1. /\ UNCHANGED <<store, file, keyring, mishap>> /\ doing'[a].at \in {"probe", "read"}
        /\ ~Busy(a) /\ doing' \in [Actor -> Doing] /\ \A b \in Actor \ {a} : doing'[b] = doing[b]
    BY <1>2, BeginFacts
  <2>2. CASE ~Connecting  BY <2>1, <2>2 DEF Secrets, Connecting
  <2>3. CASE Connecting
    <3>1. \A b \in Actor : ~Busy(b)  BY <1>2, <2>3, BeginFacts DEF Connecting, Ordered
    <3>2. \A b \in Actor : Pending(doing'[b], file, keyring)
      <4>. SUFFICES ASSUME NEW b \in Actor PROVE Pending(doing'[b], file, keyring)  OBVIOUS
      <4>1. CASE b = a  BY <2>1, <4>1 DEF Pending
      <4>2. CASE b # a  BY <2>1, <2>3, <4>2 DEF Secrets
      <4>. QED  BY <4>1, <4>2
    <3>3. mishap \/ Owned(file, keyring, Idle)
      BY <2>3, <3>1, IdleFacts DEF Secrets, Owned, Owes, Busy
    <3>. QED  BY <2>1, <2>3, <3>2, <3>3 DEF Secrets, Connecting
  <2>. QED  BY <2>2, <2>3
<1>3. ASSUME NEW a \in Actor, Die(a) PROVE Secrets'
  <2>1. /\ \A b \in Actor : doing'[b] = Idle \/ doing'[b] = doing[b]
        /\ UNCHANGED <<store, file, keyring>> /\ mishap'
    BY <1>3, DieFacts
  <2>2. CASE ~Connecting  BY <2>1, <2>2 DEF Secrets, Connecting
  <2>3. CASE Connecting
    <3>1. Pending(Idle, file, keyring)  BY IdleFacts DEF Pending
    <3>2. \A b \in Actor : Pending(doing'[b], file, keyring)  BY <2>1, <2>3, <3>1 DEF Secrets
    <3>. QED  BY <2>1, <2>3, <3>2 DEF Secrets, Connecting
  <2>. QED  BY <2>2, <2>3
<1>4. ASSUME NEW a \in Actor, Acts(a) PROVE Secrets'
  <2>1. Moves(a) /\ store' = store  BY <1>4, ActsMove DEF Moves
  <2>2. CASE store # "providers"
    <3>1. keyring' = keyring
      BY <1>4, <2>2, ConnectionMoves DEF Acts, Read, Replace, Probe, RecordResult, Undo, Prepare
    <3>. QED  BY <2>1, <2>2, <3>1 DEF Secrets, Connecting
  <2>3. CASE store = "providers" /\ Together
    BY <2>1, <2>3 DEF Secrets, Connecting
  <2>4. CASE Connecting
    <3>1. ~(Read(a) \/ Replace(a))
      BY <2>4 DEF Read, Replace, Types, Sound, Connecting
    <3>2. ~(Probe(a) \/ RecordResult(a) \/ Undo(a))  BY <2>4, VerifyMoves DEF Connecting
    <3>. QED  BY <1>4, <2>4, <3>1, <3>2, PrepareSecrets, SetSecrets, CheckSecrets, PutSecrets,
                 DisconnectSecrets, DropSecrets DEF Acts
  <2>. QED  BY <2>2, <2>3, <2>4 DEF Connecting
<1>. QED  BY <1>1, <1>2, <1>3, <1>4 DEF Next, Acts

-----------------------------------------------------------------------------
(* What holds throughout.                                                  *)

IInv == Types /\ Exclusive /\ Current /\ Secrets

\* The invariant holds at first,
LEMMA IInvInit == Init => IInv
<1>. SUFFICES ASSUME Init PROVE IInv  OBVIOUS
<1>1. /\ \A k \in Key : file[k] = Absent
      /\ \A a \in Actor : doing[a] = Idle
  BY DEF Init
<1>2. Types
  <2>1. file \in File  BY AbsentFacts DEF Init, File
  <2>2. \A k \in Key : Good(file[k])  BY <1>1, AbsentFacts
  <2>3. \A a \in Actor : Sound(doing[a])  BY <1>1, IdleFacts
  <2>4. doing \in [Actor -> Doing]  BY IdleFacts DEF Init
  <2>. QED  BY <2>1, <2>2, <2>3, <2>4 DEF Init, Types
<1>3. Exclusive /\ Current  BY <1>1, IdleFacts DEF Exclusive, Current, Busy
<1>4. Secrets
  <2>1. Linked(file, keyring)  BY <1>1, AbsentFacts DEF Linked
  <2>2. \A a \in Actor : Pending(doing[a], file, keyring)  BY <1>1, IdleFacts DEF Pending
  <2>3. Owned(file, keyring, Idle) /\ keyring = {}  BY DEF Owned, Init
  <2>. QED  BY <2>1, <2>2, <2>3 DEF Secrets
<1>. QED  BY <1>2, <1>3, <1>4 DEF IInv

\* is kept by every step,
LEMMA IInvStep == IInv /\ [Next]_vars => IInv'
BY TypesStep, ExclusiveStep, CurrentStep, SecretsStep DEF IInv

\* and so holds throughout.
LEMMA IInvAlways == Spec => []IInv
BY IInvInit, IInvStep, PTL DEF Spec

\* Between any two steps of any program, however they overlap, the files hold
\* what they may, and only a verification makes a profile a verified one, with
\* the settings that were tested (ModelProfileStore, verify_model_manifest).
THEOREM ProfilesTheorem == Spec => []ProfilesAreSound
<1>1. Types => ProfilesAreSound
  <2>. SUFFICES ASSUME Types PROVE ProfilesAreSound  OBVIOUS
  <2>1. TypeOK  BY DEF Types, TypeOK, Good
  <2>2. VerifiedIsAsVerified  BY DEF Types, VerifiedIsAsVerified, Good
  <2>. QED  BY <2>1, <2>2 DEF ProfilesAreSound
<1>. QED  BY <1>1, IInvAlways, PTL DEF IInv

\* When changes of connections follow one another, a connection finds the
\* secret it names whatever failed or died on the way, and the keyring keeps no
\* other when nothing did (ProviderConnections.create, update and delete).
THEOREM SecretsTheorem ==
  ASSUME Together = FALSE
  PROVE  Spec => []SecretsMatchConnections
<1>1. IInv => SecretsMatchConnections
  <2>. SUFFICES ASSUME IInv PROVE SecretsMatchConnections  OBVIOUS
  <2>. USE DEF IInv
  <2>1. CASE store = "providers"
    <3>1. Connecting  BY <2>1 DEF Connecting
    <3>2. CredentialsAreThere  BY <3>1 DEF Secrets, Linked, CredentialsAreThere
    <3>3. SecretsAreOwned
      <4>. SUFFICES ASSUME ~mishap, \A a \in Actor : ~Busy(a)
                    PROVE  keyring = {file[k].ref : k \in Key} \ {None}
        BY DEF SecretsAreOwned
      <4>1. PICK d \in {doing[a] : a \in Actor} \cup {Idle} : Owned(file, keyring, d)
        BY <3>1 DEF Secrets
      <4>2. d.at = "idle"  BY <4>1, IdleFacts DEF Busy
      <4>3. \A x \in keyring : \E k \in Key : x = file[k].ref  BY <4>1, <4>2 DEF Owned, Owes
      <4>4. \A k \in Key : file[k].ref \in keyring \cup {None}  BY <3>1 DEF Secrets, Linked
      <4>5. None \notin keyring  BY NoneIsNothing DEF Types
      <4>. QED  BY <4>3, <4>4, <4>5
    <3>. QED  BY <3>2, <3>3 DEF SecretsMatchConnections
  <2>2. CASE store # "providers"
    <3>1. keyring = {} /\ \A k \in Key : file[k].ref = None  BY <2>2 DEF Secrets, Types, Good
    <3>. QED  BY <2>2, <3>1 DEF SecretsMatchConnections, CredentialsAreThere, SecretsAreOwned
  <2>. QED  BY <2>1, <2>2
<1>. QED  BY <1>1, IInvAlways, PTL

\* What replaces a file is the change applied to what the file holds.
BuildsOnTheLast ==
  \A a \in Actor : (Replace(a) /\ file' # file) => file' = Result(file, doing[a].op)

\* A change that is ordered builds on the last one.
LEMMA OrderedBuilds == IInv /\ Ordered /\ [Next]_vars => BuildsOnTheLast
<1>. SUFFICES ASSUME IInv, Ordered, NEW a \in Actor, Replace(a), file' # file
              PROVE  file' = Result(file, doing[a].op)
  BY DEF BuildsOnTheLast
<1>. DEFINE op == doing[a].op
<1>1. doing[a].at = "replace" /\ Sound(doing[a]) /\ Types  BY DEF Replace, IInv, Types
<1>2. doing[a].seen = file  BY <1>1 DEF IInv, Current
<1>3. file' = [k \in Key |-> IF store = "chats" /\ k # op.key THEN file[k] ELSE Result(file, op)[k]]
  BY <1>1, <1>2, ReplaceFacts
<1>4. /\ Result(file, op) \in File
      /\ \A k \in Key \ {op.key} : Result(file, op)[k] = file[k]
  BY <1>1, <1>2, ResultFacts DEF Sound, Types
<1>. HIDE DEF op
<1>5. file' = [k \in Key |-> Result(file, op)[k]]  BY <1>3, <1>4
<1>. QED  BY <1>4, <1>5 DEF File, op

\* The lock of the overlay is enough for that, whatever overlaps: it is held
\* from the read of the file to its replacement (ManifestOverlayStore).
THEOREM OverlayTheorem == Spec => [][store = "overlay" => BuildsOnTheLast]_vars
<1>1. IInv /\ [Next]_vars => (store = "overlay" => BuildsOnTheLast)
  BY OrderedBuilds DEF Ordered
<1>. QED  BY <1>1, IInvAlways, PTL DEF Spec

\* The changes of the other files build on the last one as long as they follow
\* one another, a death between a read and a replacement included.
THEOREM ChangesTheorem ==
  ASSUME Together = FALSE
  PROVE  Spec => EveryChangeBuildsOnTheLast
<1>1. IInv /\ [Next]_vars => \A a \in Actor :
        (Replace(a) /\ file' # file) => file' = Result(file, doing[a].op)
  BY OrderedBuilds DEF Ordered, BuildsOnTheLast
<1>. QED  BY <1>1, IInvAlways, PTL DEF Spec, EveryChangeBuildsOnTheLast

\* A verification that fails after it has created its profile takes it back,
\* whatever other changes it overlaps with, unless the disk fails or the
\* program dies (verify_model_manifest).
THEOREM VerificationTheorem == Spec => FailedVerificationLeavesNoProfile
<1>1. ASSUME Types, Next, NEW a \in Actor, doing[a].at \in {"record", "undo"},
             doing'[a].at = "idle", evidence' # "ok", ~mishap'
      PROVE  file'[doing[a].op.key] = Absent
  <2>1. Busy(a) /\ ~Busy(a)'  BY <1>1 DEF Busy
  <2>2. PICK b \in Actor : Begin(b) \/ Acts(b) \/ Die(b)  BY <1>1 DEF Next, Acts
  <2>3. ~Die(b)  BY <1>1, DieFacts
  <2>4. CASE Begin(b)
    <3>1. PICK d : Do(b, d)  BY <2>4 DEF Begin
    <3>2. b # a  BY <2>1, <2>4 DEF Begin
    <3>. QED  BY <1>1, <2>1, <3>1, <3>2 DEF Do, Types, Busy
  <2>5. CASE Acts(b)
    <3>1. b = a  BY <1>1, <2>1, <2>5, ActsMove DEF Moves, Answer, Do, Types, Busy
    <3>2. RecordResult(a) \/ Undo(a)
      BY <1>1, <2>5, <3>1, PrepareMoves DEF Acts, Read, Replace, Probe, Prepare, SetSecret, Check, Put,
         Disconnect, DropSecret
    <3>3. ~RecordResult(a)
      <4>1. SUFFICES ASSUME Do(a, [doing[a] EXCEPT !.at = "undo"]) PROVE FALSE
        BY <1>1 DEF RecordResult, AfterRecord
      <4>. QED  BY <1>1, <4>1, MoveFacts, DoFacts DEF Types, At
    <3>4. Undo(a)  BY <3>2, <3>3
    <3>5. file' = [file EXCEPT ![doing[a].op.key] = Absent]  BY <1>1, <3>4 DEF Undo, Hurt
    <3>6. doing[a].op.key \in Key /\ file \in File  BY <1>1 DEF Types, Sound, Change
    <3>. QED  BY <3>5, <3>6 DEF File
  <2>. QED  BY <2>2, <2>3, <2>4, <2>5
<1>2. Types /\ [Next]_vars => \A a \in Actor :
        (doing[a].at \in {"record", "undo"} /\ doing'[a].at = "idle" /\ evidence' # "ok" /\ ~mishap') =>
          file'[doing[a].op.key] = Absent
  BY <1>1 DEF vars
<1>. QED  BY <1>2, IInvAlways, PTL DEF Spec, IInv, FailedVerificationLeavesNoProfile

-----------------------------------------------------------------------------
(* Knowledge.                                                              *)

K == INSTANCE Knowledge

\* The instance counts as this module does.
LEMMA CountsAlike == \A S : K!Cardinality(S) = Cardinality(S)
BY DEF K!Cardinality, Cardinality

\* What the names and the limits stand for: documents are not sources, what is
\* not there is neither, and only so many requests run at a time.
KnowledgeNames ==
  /\ Batches \in Nat \ {0} /\ MaxDocuments \in Nat \ {0} /\ IsFiniteSet(Thread)
  /\ None \notin Source \cup Doc \cup Dim \cup K!Meta \cup K!Vectors
  /\ Source \cap (Doc \cup {K!Documents, "new", "upload", "deleted"}) = {}

\* The phases of an upload, of the indexing and of the deletion of a source.
OfSaving    == {"copy", "count", "insert", "meta"}
OfEmbedding == {"embed", "ensure", "create", "upsert"}
OfIndexing  == OfEmbedding \cup {"read", "update"}
OfDeleting  == {"drop", "unlist", "remove"}

\* What a thread may be working on in each phase: a source is indexed or
\* deleted when it is listed, and saved before.
Fits(w) ==
  /\ w.at = "idle" => w.target = None
  /\ w.at \in OfSaving => w.target \in Source \cup {None}
  /\ w.at \in OfDeleting \cup {"copy", "meta", "read", "update"} => w.target \in Source
  /\ w.at \in OfEmbedding => w.target \in K!Target /\ w.dim \in Dim /\ w.stored < Batches
  /\ w.at \in {"read", "update"} => w.stored = Batches
  /\ w.target \in Source /\ w.at \in OfDeleting \cup OfIndexing => w.target \in known
  /\ w.target \in Source /\ w.at \in OfSaving => w.target \in dir /\ w.target \notin known

\* What a thread does with the source s.
Saves(t, s) == work[t].target = s /\ work[t].at \in OfSaving
Is(t, s, at) == work[t].target = s /\ work[t].at = at
Indexes(t, s) == work[t].target = s /\ work[t].at \in OfIndexing
Deletes(t, s) == work[t].target = s /\ work[t].at \in OfDeleting

\* One thread saves a source.
SaversApart == \A s \in Source : \A t, u \in Thread : Saves(t, s) /\ Saves(u, s) => t = u

\* The documents of the index and the threads on their way into it.
Inserting == {t \in Thread : work[t].at = "insert"}
Counted == IsFiniteSet(K!Listed) /\ Cardinality(K!Listed) + Cardinality(Inserting) < MaxDocuments + Cardinality(Thread)

\* How far the deletion of s is.
Removing(s) == \E t \in Thread : Is(t, s, "remove")
Dropped(s)  == s \in gone \/ \E t \in Thread : Is(t, s, "unlist") \/ Is(t, s, "remove")
\* The collection has a vector of the first n batches of s.
Holds(v, s, n) == v # None /\ {s} \X (1..n) \subseteq v.points
HasVectors(s, n) == Holds(memory[s], s, n) /\ Holds(disk[s], s, n)

\* Of an upload: before it is listed there is a directory at most; the card it
\* got into the index is in its metadata in the end; then all is there.
Unknown(s) == s \notin known =>
  /\ meta[s] = None /\ memory[s] = None /\ disk[s] = None
  /\ s \in dir => \E t \in Thread : Saves(t, s)
Copied(s) == \A t \in Thread : Is(t, s, "count") \/ Is(t, s, "insert") \/ Is(t, s, "meta") => s \in db
Carded(s) == \A d \in Doc : docs[d] = s =>
  \/ meta[s] # None /\ meta[s].card = d
  \/ \E t \in Thread : Is(t, s, "meta") /\ work[t].card = d
KeptWhole(s) == s \in known /\ s \notin gone => s \in dir /\ (Removing(s) \/ (meta[s] # None /\ s \in db))
\* Of a deletion: collection, card and directory go in this order, and no
\* indexing runs beside it.
Uncarded(s) == s \in gone \/ Removing(s) => \A d \in Doc : docs[d] # s
Dissolved(s) == Dropped(s) => memory[s] = None /\ disk[s] = None
Apart(s) == \A t, u \in Thread : ~(Deletes(t, s) /\ Indexes(u, s))
Gone(s) == s \in gone => s \notin dir /\ meta[s] = None /\ \A t \in Thread : ~Indexes(t, s)
\* Of the vectors: the file holds no more than the memory, both hold what the
\* indexing thread has counted, and all where the metadata says so.
Written(s) == disk[s] # None => memory[s] # None /\ disk[s].points \subseteq memory[s].points
StoredBatches(s) == \A t \in Thread : Indexes(t, s) /\ work[t].stored > 0 => HasVectors(s, work[t].stored)
Merged(s) == \A t \in Thread : Is(t, s, "update") => meta[s] # None /\ meta[s].card = work[t].card
Whole(s) == meta[s] # None /\ meta[s].indexed /\ ~Dropped(s) => HasVectors(s, Batches)

Saved(s) == Unknown(s) /\ Copied(s) /\ Carded(s) /\ KeptWhole(s)
Deleted(s) == Uncarded(s) /\ Dissolved(s) /\ Apart(s) /\ Gone(s)
Embedded(s) == Written(s) /\ StoredBatches(s) /\ Merged(s) /\ Whole(s)
SoundSource(s) == Saved(s) /\ Deleted(s) /\ Embedded(s)

\* The inductive invariant: what threads may do, how near its limit the index
\* is, and that every source no failure or race has hurt is sound.
Working == (\A t \in Thread : Fits(work[t])) /\ SaversApart
KnowledgeInv == K!StoresTypeOK /\ Working /\ Counted /\ \A s \in Source \ hurt : SoundSource(s)

-----------------------------------------------------------------------------
\* A service that has just been set up.
LEMMA InitKnowledgeInv == ASSUME KnowledgeNames, K!Init PROVE KnowledgeInv
<1>. USE DEF KnowledgeNames
<1>1. K!StoresTypeOK
  <2>1. K!Idle \in K!Work  BY DEF K!Idle, K!Work, K!Phase
  <2>. QED  BY <2>1 DEF K!Init, K!StoresTypeOK, K!Collection
<1>2. \A t \in Thread : Fits(work[t])  BY DEF K!Init, Fits, K!Idle, OfSaving, OfEmbedding, OfIndexing, OfDeleting
<1>3. SaversApart  BY DEF K!Init, SaversApart, Saves, K!Idle, OfSaving
<1>4. Counted
  <2>1. K!Listed = {} /\ Inserting = {}  BY DEF K!Init, K!Listed, Inserting, K!Idle
  <2>. QED  BY <2>1, FS_EmptySet, FS_CardinalityType DEF Counted
<1>5. ASSUME NEW s \in Source PROVE SoundSource(s)
  <2>. s # None /\ s \in K!Collection  BY DEF K!Collection
  <2>. USE DEF K!Init, K!Idle
  <2>1. Saved(s)  BY DEF Saved, Unknown, Copied, Carded, KeptWhole, Is, Saves
  <2>2. Deleted(s)  BY DEF Deleted, Uncarded, Dissolved, Apart, Gone, Removing, Dropped, Is, Deletes, Indexes
  <2>3. Embedded(s)  BY DEF Embedded, Written, StoredBatches, Merged, Whole, Is, Indexes
  <2>. QED  BY <2>1, <2>2, <2>3 DEF SoundSource
<1>. QED  BY <1>1, <1>2, <1>3, <1>4, <1>5 DEF KnowledgeInv, Working

\* A thread goes on; the others are where they were.
Turns(t, w) == work' = [work EXCEPT ![t] = w]

\* The record of one thread is replaced and no other.
LEMMA TurnFacts ==
  ASSUME K!StoresTypeOK, NEW t \in Thread, NEW w \in K!Work, Turns(t, w)
  PROVE  work' \in [Thread -> K!Work] /\ work'[t] = w /\ \A u \in Thread \ {t} : work'[u] = work[u]
BY DEF Turns, K!StoresTypeOK

\* A thread's phase is set and the rest of its record stays.
LEMMA AtSet ==
  ASSUME NEW w \in K!Work, NEW a \in K!Phase, NEW n, n = [w EXCEPT !.at = a]
  PROVE  n \in K!Work /\ n.at = a /\ n.target = w.target /\ n.card = w.card /\ n.dim = w.dim /\ n.stored = w.stored
BY DEF K!Work

\* The phase of a thread is set.
LEMMA GoFacts ==
  ASSUME K!StoresTypeOK, NEW t \in Thread, NEW a \in K!Phase, K!Go(t, a)
  PROVE  \E w \in K!Work : /\ Turns(t, w) /\ w.at = a /\ w.target = work[t].target /\ w.card = work[t].card
                         /\ w.dim = work[t].dim /\ w.stored = work[t].stored
<1>1. work[t] \in K!Work  BY DEF K!StoresTypeOK
<1>. DEFINE w == [work[t] EXCEPT !.at = a]
<1>2. w \in K!Work /\ w.at = a /\ w.target = work[t].target /\ w.card = work[t].card
      /\ w.dim = work[t].dim /\ w.stored = work[t].stored  BY <1>1, AtSet
<1>3. Turns(t, w)  BY DEF K!Go, Turns
<1>. HIDE DEF w
<1>. QED  BY <1>2, <1>3

\* A thread that serves no request.
LEMMA IdleRequest ==
  ASSUME KnowledgeNames PROVE K!Idle \in K!Work /\ K!Idle.at = "idle" /\ K!Idle.target = None /\ Fits(K!Idle)
BY DEF KnowledgeNames, K!Idle, K!Work, K!Phase, Fits, OfSaving, OfEmbedding, OfIndexing, OfDeleting

\* An answered request leaves its thread idle.
LEMMA AnswerFacts ==
  ASSUME NEW t, K!Answer(t) PROVE Turns(t, K!Idle)
BY DEF K!Answer, Turns

-----------------------------------------------------------------------------
\* What a step leaves of s when it is not about s.
Spared(s) ==
  /\ meta'[s] = meta[s] /\ memory'[s] = memory[s] /\ disk'[s] = disk[s]
  /\ (s \in dir') = (s \in dir) /\ (s \in db') = (s \in db)
  /\ (s \in known') = (s \in known) /\ (s \in gone') = (s \in gone)
  /\ \A d \in Doc : docs'[d] = s => docs[d] = s
Elsewhere(u, s) == work'[u] = work[u] \/ (work[u].target # s /\ work'[u].target # s)

\* A source no store and no thread has changed is as sound as it was.
LEMMA SparedStaysSound ==
  ASSUME NEW s \in Source, SoundSource(s), Spared(s), \A u \in Thread : Elsewhere(u, s)
  PROVE  SoundSource(s)'
<1>. USE DEF Spared, Elsewhere
<1>1. \A u \in Thread : /\ Saves(u, s)' = Saves(u, s) /\ Indexes(u, s)' = Indexes(u, s)
                        /\ Deletes(u, s)' = Deletes(u, s)
  BY DEF Saves, Indexes, Deletes
<1>2. \A u \in Thread, at \in K!Phase : Is(u, s, at)' = Is(u, s, at)  BY DEF Is
<1>3. \A u \in Thread : work[u].target = s \/ work'[u].target = s => work'[u] = work[u]  OBVIOUS
<1>4. /\ Removing(s)' = Removing(s) /\ Dropped(s)' = Dropped(s)
      /\ \A n \in 0..Batches : HasVectors(s, n)' = HasVectors(s, n)
  <2>1. "remove" \in K!Phase /\ "unlist" \in K!Phase  BY DEF K!Phase
  <2>2. Removing(s)' = Removing(s)  BY <1>2, <2>1 DEF Removing
  <2>3. Dropped(s)' = Dropped(s)  BY <1>2, <2>1 DEF Dropped
  <2>4. \A n \in 0..Batches : HasVectors(s, n)' = HasVectors(s, n)  BY DEF HasVectors, Holds
  <2>. QED  BY <2>2, <2>3, <2>4
<1>5. Saved(s)'
  <2>1. Unknown(s)'  BY <1>1 DEF Unknown, SoundSource, Saved
  <2>2. Copied(s)'  BY <1>3 DEF Copied, Is, SoundSource, Saved
  <2>3. Carded(s)'  BY <1>3 DEF Carded, Is, SoundSource, Saved
  <2>4. KeptWhole(s)'  BY <1>4 DEF KeptWhole, SoundSource, Saved
  <2>. QED  BY <2>1, <2>2, <2>3, <2>4 DEF Saved
<1>6. Deleted(s)'
  BY <1>1, <1>4 DEF SoundSource, Deleted, Uncarded, Dissolved, Apart, Gone
<1>7. Embedded(s)'
  <2>1. Written(s)'  BY DEF Written, SoundSource, Embedded
  <2>2. StoredBatches(s)'
    <3>. SUFFICES ASSUME NEW u \in Thread, Indexes(u, s)', work'[u].stored > 0 PROVE HasVectors(s, work[u].stored)'
      BY <1>3 DEF StoredBatches, Indexes
    <3>1. work'[u] = work[u] /\ Indexes(u, s)  BY <1>1, <1>3 DEF Indexes
    <3>2. HasVectors(s, work[u].stored)  BY <3>1 DEF SoundSource, Embedded, StoredBatches
    <3>. QED  BY <3>1, <3>2 DEF HasVectors, Holds
  <2>3. Merged(s)'  BY <1>3 DEF Merged, Is, SoundSource, Embedded
  <2>4. Whole(s)'
    BY <1>4 DEF Whole, SoundSource, Embedded, HasVectors, Holds
  <2>. QED  BY <2>1, <2>2, <2>3, <2>4 DEF Embedded
<1>. QED  BY <1>5, <1>6, <1>7 DEF SoundSource

\* No thread but t goes on, and t neither has to do with s nor will have.
LEMMA OthersSpared ==
  ASSUME K!StoresTypeOK, NEW t \in Thread, NEW w \in K!Work, Turns(t, w), NEW s \in Source,
         work[t].target # s, w.target # s
  PROVE  \A u \in Thread : Elsewhere(u, s)
BY TurnFacts DEF Elsewhere

\* A thread that saves no source it did not save keeps to what the threads do.
LEMMA WorkingStays ==
  ASSUME K!StoresTypeOK, Working, NEW t \in Thread, NEW w \in K!Work, Turns(t, w), Fits(w)',
         w.target \in Source /\ w.at \in OfSaving => Saves(t, w.target),
         \A u \in Thread \ {t} : Fits(work[u])'
  PROVE  Working'
<1>1. work'[t] = w /\ \A u \in Thread \ {t} : work'[u] = work[u]  BY TurnFacts
<1>2. \A u \in Thread : Fits(work[u])'
  <2>1. Fits(work[t])'  BY <1>1 DEF Fits
  <2>2. ASSUME NEW u \in Thread \ {t} PROVE Fits(work[u])'  BY <1>1, <2>2 DEF Fits
  <2>. QED  BY <2>1, <2>2
<1>3. \A s \in Source, u \in Thread : Saves(u, s)' => Saves(u, s)
  BY <1>1 DEF Saves
<1>4. SaversApart'
  <2>. SUFFICES ASSUME NEW s \in Source, NEW u \in Thread, NEW v \in Thread, Saves(u, s)', Saves(v, s)' PROVE u = v
    BY DEF SaversApart
  <2>. QED  BY <1>3 DEF SaversApart, Working
<1>. QED  BY <1>2, <1>4 DEF Working

\* The directories and the list of sources stay.
LEMMA WorkingGoesOn ==
  ASSUME K!StoresTypeOK, Working, NEW t \in Thread, NEW w \in K!Work, Turns(t, w), Fits(w),
         w.target \in Source /\ w.at \in OfSaving => Saves(t, w.target),
         known' = known, dir' = dir
  PROVE  Working'
<1>1. Fits(w)'  BY DEF Fits
<1>2. ASSUME NEW u \in Thread \ {t} PROVE Fits(work[u])'
  <2>1. Fits(work[u])  BY DEF Working
  <2>2. work'[u] = work[u]  BY TurnFacts
  <2>. QED  BY <2>1, <2>2 DEF Fits
<1>. QED  BY <1>1, <1>2, WorkingStays

\* No document is added and no thread is let in.
LEMMA CountedStays ==
  ASSUME KnowledgeNames, K!StoresTypeOK, Counted, K!Listed' \subseteq K!Listed, Inserting' \subseteq Inserting
  PROVE  Counted'
<1>1. IsFiniteSet(K!Listed') /\ Cardinality(K!Listed') <= Cardinality(K!Listed)
      /\ Cardinality(K!Listed') \in Nat /\ Cardinality(K!Listed) \in Nat
  BY FS_Subset, FS_CardinalityType DEF Counted
<1>2. IsFiniteSet(Inserting)  BY FS_Subset DEF KnowledgeNames, Inserting
<1>3. IsFiniteSet(Inserting') /\ Cardinality(Inserting') <= Cardinality(Inserting)
      /\ Cardinality(Inserting') \in Nat /\ Cardinality(Inserting) \in Nat
  BY <1>2, FS_Subset, FS_CardinalityType
<1>4. Cardinality(Thread) \in Nat /\ MaxDocuments \in Nat  BY FS_CardinalityType DEF KnowledgeNames
<1>5. Cardinality(K!Listed') + Cardinality(Inserting') < MaxDocuments + Cardinality(Thread)
  BY <1>1, <1>3, <1>4 DEF Counted
<1>. QED  BY <1>1, <1>5 DEF Counted

\* A thread that does not go on to insert lets no document in.
LEMMA CountedGoesOn ==
  ASSUME KnowledgeNames, K!StoresTypeOK, Counted, NEW t \in Thread, NEW w \in K!Work, Turns(t, w), w.at # "insert", docs' = docs
  PROVE  Counted'
<1>1. K!Listed' = K!Listed  BY DEF K!Listed
<1>2. Inserting' \subseteq Inserting  BY TurnFacts DEF Inserting
<1>. QED  BY <1>1, <1>2, CountedStays

\* The sources a step is not about, while the stores change for x at most.
LEMMA OthersStaySound ==
  ASSUME KnowledgeInv, NEW t \in Thread, NEW w \in K!Work, Turns(t, w), NEW x,
         hurt \subseteq hurt', work[t].target \in {x, None}, w.target \in {x, None}, KnowledgeNames,
         \A s \in Source \ {x} : Spared(s)
  PROVE  \A s \in Source \ (hurt' \cup {x}) : SoundSource(s)'
<1>. SUFFICES ASSUME NEW s \in Source \ (hurt' \cup {x}) PROVE SoundSource(s)'  OBVIOUS
<1>1. s # None /\ SoundSource(s)  BY DEF KnowledgeNames, KnowledgeInv
<1>2. \A u \in Thread : Elsewhere(u, s)  BY <1>1, OthersSpared DEF KnowledgeInv
<1>. QED  BY <1>1, <1>2, SparedStaysSound

\* A source that is not listed is sound if its upload keeps to its order.
LEMMA UnknownIsSound ==
  ASSUME K!StoresTypeOK', Working', NEW s \in Source, s \notin known', Unknown(s)', Copied(s)', Carded(s)'
  PROVE  SoundSource(s)'
<1>1. \A u \in Thread : ~Deletes(u, s)' /\ ~Indexes(u, s)'
  BY DEF Working, Fits, Deletes, Indexes
<1>2. s \notin gone'  BY DEF K!StoresTypeOK
<1>3. \A u \in Thread : ~Is(u, s, "unlist")' /\ ~Is(u, s, "remove")' /\ ~Is(u, s, "update")'
  BY <1>1 DEF Is, Deletes, Indexes, OfDeleting, OfIndexing
<1>4. ~Removing(s)' /\ ~Dropped(s)'  BY <1>2, <1>3 DEF Removing, Dropped
<1>5. Saved(s)'  BY DEF Saved, KeptWhole
<1>6. Deleted(s)'  BY <1>1, <1>2, <1>4 DEF Deleted, Uncarded, Dissolved, Apart, Gone
<1>7. Embedded(s)'  BY <1>1, <1>3 DEF Embedded, Written, StoredBatches, Merged, Whole, Unknown
<1>. QED  BY <1>5, <1>6, <1>7 DEF SoundSource

-----------------------------------------------------------------------------
(* The index.                                                              *)

\* All that an action owes.
LEMMA Collects ==
  ASSUME K!StoresTypeOK', Working', Counted', \A s \in Source \ hurt' : SoundSource(s)'
  PROVE  KnowledgeInv'
BY DEF KnowledgeInv

\* A request starts in an idle thread.
LEMMA StartFacts ==
  ASSUME KnowledgeNames, NEW t \in Thread, NEW w, K!Start(t, w)
  PROVE  Turns(t, w) /\ work[t] = K!Idle /\ work[t].target = None /\ work[t].at = "idle"
BY DEF K!Start, Turns, K!Idle

\* Where a request for the index goes next.
LEMMA IndexedFacts ==
  ASSUME KnowledgeNames, K!StoresTypeOK, Working, NEW t \in Thread, work[t].at \in {"count", "insert"},
         NEW card \in Doc \cup {None}, K!Indexed(t, card)
  PROVE  \E w \in K!Work :
           /\ Turns(t, w) /\ w.target = work[t].target /\ Fits(w) /\ w.at # "insert"
           /\ w.target \in Source => w.at = "meta" /\ w.card = card /\ Saves(t, w.target)
<1>1. work[t] \in K!Work /\ Fits(work[t])  BY DEF K!StoresTypeOK, Working
<1>2. work[t].target \in Source \cup {None}  BY <1>1 DEF Fits, OfSaving
<1>3. CASE work[t].target = None
  <2>1. Turns(t, K!Idle)  BY <1>3 DEF K!Indexed, Turns
  <2>. QED  BY <1>3, <2>1, IdleRequest DEF KnowledgeNames
<1>4. CASE work[t].target # None
  <2>. DEFINE w == [work[t] EXCEPT !.at = "meta", !.card = card]
  <2>1. Turns(t, w)  BY <1>4 DEF K!Indexed, Turns
  <2>2. w \in K!Work /\ w.at = "meta" /\ w.card = card /\ w.target = work[t].target  BY <1>1 DEF K!Work, K!Phase
  <2>. HIDE DEF w
  <2>3. Saves(t, w.target)  BY <2>2 DEF Saves, OfSaving
  <2>4. Fits(w)  BY <1>1, <1>2, <1>4, <2>2 DEF Fits, OfSaving, OfEmbedding, OfIndexing, OfDeleting
  <2>. QED  BY <2>1, <2>2, <2>3, <2>4
<1>. QED  BY <1>3, <1>4

\* An upload of a document starts.
LEMMA AddDocumentKeeps ==
  ASSUME KnowledgeNames, KnowledgeInv, NEW t \in Thread, K!AddDocument(t)
  PROVE  KnowledgeInv'
<1>. DEFINE w == [K!Idle EXCEPT !.at = "count"]
<1>1. w \in K!Work /\ w.at = "count" /\ w.target = None  BY IdleRequest, AtSet DEF K!Phase
<1>2. Turns(t, w) /\ work[t].target = None  BY StartFacts DEF K!AddDocument
<1>. HIDE DEF w
<1>. USE DEF KnowledgeInv
<1>3. K!StoresTypeOK'  BY <1>1, <1>2, TurnFacts DEF K!AddDocument, K!StoresTypeOK
<1>4. Working'
  <2>1. Fits(w)  BY <1>1 DEF KnowledgeNames, Fits, OfSaving, OfEmbedding, OfIndexing, OfDeleting
  <2>. QED  BY <1>1, <1>2, <2>1, WorkingGoesOn DEF K!AddDocument, KnowledgeNames
<1>5. Counted'  BY <1>1, <1>2, CountedGoesOn DEF K!AddDocument
<1>6. \A s \in Source \ {None} : Spared(s)  BY DEF K!AddDocument, Spared
<1>7. \A s \in Source \ hurt' : SoundSource(s)'
  <2>1. hurt \subseteq hurt' /\ work[t].target \in {None} /\ w.target \in {None}
    BY <1>1, <1>2 DEF K!AddDocument
  <2>2. \A s \in Source \ (hurt' \cup {None}) : SoundSource(s)'
    BY <1>1, <1>2, <1>6, <2>1, OthersStaySound
  <2>. QED  BY <2>2 DEF KnowledgeNames
<1>. QED  BY <1>3, <1>4, <1>5, <1>7, Collects

\* What an upload is of: one source, that is not listed and has no card yet.
LEMMA UploadFacts ==
  ASSUME K!StoresTypeOK, Working, NEW s \in Source, SoundSource(s), NEW t \in Thread, Saves(t, s)
  PROVE  /\ s \notin known /\ s \notin gone /\ s \in dir
         /\ meta[s] = None /\ memory[s] = None /\ disk[s] = None
         /\ \A u \in Thread \ {t} : ~Saves(u, s)
         /\ work[t].at # "meta" => \A d \in Doc : docs[d] # s
         /\ work[t].at = "meta" => \A d \in Doc : docs[d] = s => work[t].card = d
<1>1. s \notin known /\ s \in dir  BY DEF Working, Fits, Saves
<1>2. s \notin gone  BY <1>1 DEF K!StoresTypeOK
<1>3. meta[s] = None /\ memory[s] = None /\ disk[s] = None  BY <1>1 DEF SoundSource, Saved, Unknown
<1>4. \A u \in Thread \ {t} : ~Saves(u, s)  BY DEF Working, SaversApart
<1>5. ASSUME NEW d \in Doc, docs[d] = s PROVE work[t].at = "meta" /\ work[t].card = d
  <2>1. PICK u \in Thread : Is(u, s, "meta") /\ work[u].card = d  BY <1>3, <1>5 DEF SoundSource, Saved, Carded
  <2>2. Saves(u, s)  BY <2>1 DEF Is, Saves, OfSaving
  <2>. QED  BY <1>4, <2>1, <2>2 DEF Is
<1>. QED  BY <1>1, <1>2, <1>3, <1>4, <1>5

\* An upload that goes on: of its source, nothing but the card is new.
LEMMA UploadGoesOn ==
  ASSUME KnowledgeNames, K!StoresTypeOK, Working, K!StoresTypeOK', Working', NEW s \in Source, SoundSource(s), NEW t \in Thread, Saves(t, s),
         NEW w \in K!Work, Turns(t, w), w.target = s, w.at \in {"count", "insert", "meta"},
         s \in db', known' = known, meta' = meta, memory' = memory, disk' = disk,
         \A d \in Doc : docs'[d] = s => w.at = "meta" /\ w.card = d
  PROVE  SoundSource(s)'
<1>1. work'[t] = w /\ \A u \in Thread \ {t} : work'[u] = work[u]  BY TurnFacts
<1>2. s \notin known /\ meta[s] = None /\ memory[s] = None /\ disk[s] = None  BY UploadFacts
<1>3. Saves(t, s)'  BY <1>1 DEF Saves, OfSaving
<1>4. Unknown(s)'  BY <1>2, <1>3 DEF Unknown
<1>5. Copied(s)'  BY DEF Copied
<1>6. Carded(s)'  BY <1>1 DEF Carded, Is
<1>. QED  BY <1>2, <1>4, <1>5, <1>6, UnknownIsSound

\* The documents are counted: a thread goes on to insert only below the limit,
\* and no more threads than there are can be past the count.
LEMMA CountKeeps ==
  ASSUME KnowledgeNames, KnowledgeInv, NEW t \in Thread, K!Count(t)
  PROVE  KnowledgeInv'
<1>. USE DEF KnowledgeInv
<1>a. PICK x : x = work[t].target  OBVIOUS
<1>. USE <1>a
<1>0. work[t] \in K!Work /\ Fits(work[t]) /\ work[t].at = "count"  BY DEF K!Count, K!StoresTypeOK, Working
<1>1. x \in Source \cup {None}  BY <1>0 DEF Fits, OfSaving
<1>2. PICK w \in K!Work :
        /\ Turns(t, w) /\ w.target = x /\ Fits(w)
        /\ w.at = "insert" => K!Room
        /\ x \in Source => w.at \in {"insert", "meta"} /\ Saves(t, x)
  <2>1. CASE K!Room /\ K!Go(t, "insert")
    <3>1. PICK w \in K!Work : Turns(t, w) /\ w.at = "insert" /\ w.target = x  BY <2>1, GoFacts DEF K!Phase
    <3>2. Fits(w)
      BY <1>0, <3>1 DEF Fits, OfSaving, OfEmbedding, OfIndexing, OfDeleting
    <3>3. Saves(t, x)  BY <1>0 DEF Saves, OfSaving
    <3>. QED  BY <2>1, <3>1, <3>2, <3>3
  <2>2. CASE K!Indexed(t, None)
    <3>1. PICK w \in K!Work :
           /\ Turns(t, w) /\ w.target = work[t].target /\ Fits(w) /\ w.at # "insert"
           /\ w.target \in Source => w.at = "meta" /\ w.card = None /\ Saves(t, w.target)
      BY <1>0, <2>2, IndexedFacts
    <3>. QED  BY <3>1
  <2>. QED  BY <2>1, <2>2 DEF K!Count
<1>3. K!StoresTypeOK'  BY <1>2, TurnFacts DEF K!Count, K!StoresTypeOK
<1>4. Working'  BY <1>2, WorkingGoesOn DEF K!Count
<1>5. Counted'
  <2>1. K!Listed' = K!Listed  BY DEF K!Count, K!Listed
  <2>2. CASE w.at = "insert"
    <3>1. K!Room /\ IsFiniteSet(K!Listed)  BY <1>2, <2>2 DEF Counted
    <3>2. IsFiniteSet(Inserting') /\ Cardinality(Inserting') <= Cardinality(Thread)
          /\ Cardinality(Inserting') \in Nat /\ Cardinality(Thread) \in Nat
      <4>1. Inserting' \subseteq Thread  BY DEF Inserting
      <4>. QED  BY <4>1, FS_Subset, FS_CardinalityType DEF KnowledgeNames
    <3>3. Cardinality(K!Listed) \in Nat /\ MaxDocuments \in Nat  BY <3>1, FS_CardinalityType DEF KnowledgeNames
    <3>. QED  BY <2>1, <3>1, <3>2, <3>3, CountsAlike DEF Counted, K!Room
  <2>3. CASE w.at # "insert"  BY <1>2, <2>3, CountedGoesOn DEF K!Count
  <2>. QED  BY <2>2, <2>3
<1>6. \A s \in Source \ {x} : Spared(s)  BY DEF K!Count, Spared
<1>7. \A s \in Source \ (hurt' \cup {x}) : SoundSource(s)'
  BY <1>2, <1>6, OthersStaySound DEF K!Count
<1>8. ASSUME x \in Source \ hurt' PROVE SoundSource(x)'
  <2>1. SoundSource(x)  BY <1>8 DEF K!Count
  <2>2. Saves(t, x)  BY <1>2, <1>8
  <2>3. \A d \in Doc : docs[d] # x  BY <1>0, <1>8, <2>1, <2>2, UploadFacts
  <2>4. x \in db  BY <1>0, <1>8, <2>1 DEF SoundSource, Saved, Copied, Is
  <2>. QED  BY <1>2, <1>3, <1>4, <1>8, <2>1, <2>2, <2>3, <2>4, UploadGoesOn DEF K!Count
<1>9. \A s \in Source \ hurt' : SoundSource(s)'  BY <1>7, <1>8
<1>. QED  BY <1>3, <1>4, <1>5, <1>9, Collects

\* A document or a card enters the index: the thread that inserts it is one
\* less to come.
LEMMA InsertKeeps ==
  ASSUME KnowledgeNames, KnowledgeInv, NEW t \in Thread, K!Insert(t)
  PROVE  KnowledgeInv'
<1>. USE DEF KnowledgeInv
<1>a. PICK x : x = work[t].target  OBVIOUS
<1>. USE <1>a
<1>0. work[t] \in K!Work /\ Fits(work[t]) /\ work[t].at = "insert"  BY DEF K!Insert, K!StoresTypeOK, Working
<1>1. x \in Source \cup {None}  BY <1>0 DEF Fits, OfSaving
<1>2. PICK card \in Doc \cup {None} :
        /\ K!Indexed(t, card)
        /\ IF card = None THEN docs' = docs
           ELSE /\ card \in K!Fresh
                /\ docs' = [docs EXCEPT ![card] = IF x = None THEN "upload" ELSE x]
  <2>1. CASE \E d \in K!Fresh :
               /\ docs' = [docs EXCEPT ![d] = IF work[t].target = None THEN "upload"
                                              ELSE work[t].target]
               /\ K!Indexed(t, d)
    <3>1. PICK d \in K!Fresh :
               /\ docs' = [docs EXCEPT ![d] = IF work[t].target = None THEN "upload"
                                              ELSE work[t].target]
               /\ K!Indexed(t, d)  BY <2>1
    <3>2. d \in Doc /\ d # None  BY DEF K!Fresh, KnowledgeNames
    <3>. QED  BY <3>1, <3>2
  <2>2. CASE K!Indexed(t, None) /\ docs' = docs  BY <2>2
  <2>. QED  BY <2>1, <2>2 DEF K!Insert
<1>3. PICK w \in K!Work :
           /\ Turns(t, w) /\ w.target = x /\ Fits(w) /\ w.at # "insert"
           /\ x \in Source => w.at = "meta" /\ w.card = card /\ Saves(t, x)
  <2>1. PICK w \in K!Work :
           /\ Turns(t, w) /\ w.target = work[t].target /\ Fits(w) /\ w.at # "insert"
           /\ w.target \in Source => w.at = "meta" /\ w.card = card /\ Saves(t, w.target)
    BY <1>0, <1>2, IndexedFacts
  <2>. QED  BY <2>1
<1>4. docs' \in [Doc -> {"new", "upload", "deleted"} \cup Source]  BY <1>1, <1>2 DEF K!StoresTypeOK
<1>5. K!StoresTypeOK'  BY <1>3, <1>4, TurnFacts DEF K!Insert, K!StoresTypeOK
<1>6. Working'  BY <1>3, WorkingGoesOn DEF K!Insert
<1>7. Counted'
  <2>1. CASE card = None  BY <1>2, <1>3, <2>1, CountedGoesOn
  <2>2. CASE card # None
    <3>1. card \in Doc /\ card \notin K!Listed /\ docs'[card] \notin {"new", "deleted"}
      BY <1>1, <1>2, <2>2 DEF K!Fresh, K!Listed, K!StoresTypeOK, KnowledgeNames
    <3>2. K!Listed' = K!Listed \cup {card}  BY <1>2, <2>2, <3>1 DEF K!Listed, K!StoresTypeOK
    <3>3. IsFiniteSet(K!Listed) /\ Cardinality(K!Listed) \in Nat  BY FS_CardinalityType DEF Counted
    <3>4. IsFiniteSet(K!Listed') /\ Cardinality(K!Listed') = Cardinality(K!Listed) + 1
      BY <3>1, <3>2, <3>3, FS_AddElement
    <3>5. Inserting' = Inserting \ {t} /\ t \in Inserting  BY <1>0, <1>3, TurnFacts DEF Inserting
    <3>6. IsFiniteSet(Inserting)  BY FS_Subset DEF KnowledgeNames, Inserting
    <3>7. Cardinality(Inserting') = Cardinality(Inserting) - 1 /\ Cardinality(Inserting) \in Nat
      BY <3>5, <3>6, FS_RemoveElement, FS_CardinalityType
    <3>8. Cardinality(Thread) \in Nat /\ MaxDocuments \in Nat  BY FS_CardinalityType DEF KnowledgeNames
    <3>. QED  BY <3>3, <3>4, <3>7, <3>8 DEF Counted
  <2>. QED  BY <2>1, <2>2
<1>8. \A s \in Source \ {x} : Spared(s)
  <2>1. ASSUME NEW s \in Source \ {x}, NEW d \in Doc, docs'[d] = s PROVE docs[d] = s
    BY <1>2, <2>1 DEF K!StoresTypeOK, KnowledgeNames
  <2>. QED  BY <2>1 DEF K!Insert, Spared
<1>9. \A s \in Source \ (hurt' \cup {x}) : SoundSource(s)'
  BY <1>3, <1>8, OthersStaySound DEF K!Insert
<1>10. ASSUME x \in Source \ hurt' PROVE SoundSource(x)'
  <2>1. SoundSource(x)  BY <1>10 DEF K!Insert
  <2>2. Saves(t, x)  BY <1>3, <1>10
  <2>3. \A d \in Doc : docs[d] # x  BY <1>0, <1>10, <2>1, <2>2, UploadFacts
  <2>4. x \in db  BY <1>0, <1>10, <2>1 DEF SoundSource, Saved, Copied, Is
  <2>5. \A d \in Doc : docs'[d] = x => card = d  BY <1>2, <2>3 DEF K!StoresTypeOK
  <2>. QED  BY <1>3, <1>5, <1>6, <1>10, <2>1, <2>2, <2>4, <2>5, UploadGoesOn DEF K!Insert
<1>11. \A s \in Source \ hurt' : SoundSource(s)'  BY <1>9, <1>10
<1>. QED  BY <1>5, <1>6, <1>7, <1>11, Collects

\* Fewer documents, and nothing else.
LEMMA Taken ==
  ASSUME KnowledgeNames, K!StoresTypeOK, NEW d, docs' = K!Without(d)
  PROVE  /\ docs' \in [Doc -> {"new", "upload", "deleted"} \cup Source]
         /\ K!Listed' \subseteq K!Listed
         /\ \A e \in Doc, s \in Source : docs'[e] = s => docs[e] = s /\ e # d
BY DEF K!Without, K!StoresTypeOK, K!Listed, KnowledgeNames

\* A document leaves the index.
LEMMA DeleteDocumentKeeps ==
  ASSUME KnowledgeNames, KnowledgeInv, NEW t \in Thread, K!DeleteDocument(t)
  PROVE  KnowledgeInv'
<1>. USE DEF KnowledgeInv
<1>1. PICK d \in K!Listed : docs' = K!Without(d)  BY DEF K!DeleteDocument
<1>2. K!StoresTypeOK'  BY <1>1, Taken DEF K!DeleteDocument, K!StoresTypeOK
<1>3. Working'  BY DEF K!DeleteDocument, Working, Fits, SaversApart, Saves
<1>4. Counted'
  <2>1. Inserting' = Inserting  BY DEF K!DeleteDocument, Inserting
  <2>. QED  BY <1>1, <2>1, Taken, CountedStays
<1>5. ASSUME NEW s \in Source \ hurt' PROVE SoundSource(s)'
  <2>1. SoundSource(s)  BY DEF K!DeleteDocument
  <2>2. Spared(s)  BY <1>1, Taken DEF K!DeleteDocument, Spared
  <2>3. \A u \in Thread : Elsewhere(u, s)  BY DEF K!DeleteDocument, Elsewhere
  <2>. QED  BY <2>1, <2>2, <2>3, SparedStaysSound
<1>. QED  BY <1>2, <1>3, <1>4, <1>5, Collects

-----------------------------------------------------------------------------
(* Uploads of databases.                                                   *)

\* An upload of a database makes a directory of a new name.
LEMMA SaveSourceKeeps ==
  ASSUME KnowledgeNames, KnowledgeInv, NEW t \in Thread, K!SaveSource(t)
  PROVE  KnowledgeInv'
<1>. USE DEF KnowledgeInv
<1>1. PICK s \in Source \ (known \cup dir) :
        /\ ~K!Saving(s)
        /\ K!Start(t, [K!Idle EXCEPT !.at = "copy", !.target = s])
        /\ dir' = dir \cup {s}
  BY DEF K!SaveSource
<1>2. PICK w \in K!Work : Turns(t, w) /\ w.at = "copy" /\ w.target = s
  <2>. DEFINE w == [K!Idle EXCEPT !.at = "copy", !.target = s]
  <2>1. w \in K!Work /\ w.at = "copy" /\ w.target = s  BY IdleRequest DEF K!Work, K!Phase, K!Target
  <2>2. Turns(t, w)  BY <1>1, StartFacts
  <2>. HIDE DEF w
  <2>. QED  BY <2>1, <2>2
<1>3. work[t].target = None /\ work[t].at = "idle"  BY <1>1 DEF K!Start, K!Idle
<1>4. \A u \in Thread : ~Saves(u, s)  BY <1>1 DEF Saves, K!Saving, OfSaving
<1>a. work'[t] = w /\ \A u \in Thread \ {t} : work'[u] = work[u]  BY <1>2, TurnFacts
<1>5. K!StoresTypeOK'  BY <1>1, <1>2, TurnFacts DEF K!SaveSource, K!StoresTypeOK
<1>6. \A u \in Thread : Fits(work[u])'
  <2>1. Fits(work[t])'  BY <1>1, <1>2, <1>a DEF K!SaveSource, KnowledgeNames, Fits, OfSaving, OfEmbedding, OfIndexing, OfDeleting
  <2>2. ASSUME NEW u \in Thread \ {t} PROVE Fits(work[u])'
    <3>1. Fits(work[u])  BY DEF Working
    <3>. QED  BY <3>1, <1>1, <1>a DEF Fits, K!SaveSource
  <2>. QED  BY <2>1, <2>2
<1>7. Working'
  <2>1. ASSUME NEW r \in Source, NEW u \in Thread, NEW v \in Thread, Saves(u, r)', Saves(v, r)' PROVE u = v
    <3>1. \A y \in Thread \ {t} : Saves(y, r)' => Saves(y, r)  BY <1>a DEF Saves
    <3>2. Saves(t, r)' => r = s  BY <1>2, <1>a DEF Saves
    <3>. QED  BY <2>1, <3>1, <3>2, <1>4 DEF Working, SaversApart
  <2>. QED  BY <1>6, <2>1 DEF Working, SaversApart
<1>8. Counted'  BY <1>2, CountedGoesOn DEF K!SaveSource
<1>9. \A r \in Source \ {s} : Spared(r)  BY <1>1 DEF K!SaveSource, Spared
<1>10. \A r \in Source \ (hurt' \cup {s}) : SoundSource(r)'
  BY <1>2, <1>3, <1>9, OthersStaySound DEF K!SaveSource
<1>11. ASSUME s \notin hurt PROVE SoundSource(s)'
  <2>1. SoundSource(s) /\ s \notin known  BY <1>1, <1>11
  <2>2. Unknown(s)'
    <3>1. Saves(t, s)'  BY <1>2, <1>a DEF Saves, OfSaving
    <3>. QED  BY <2>1, <3>1 DEF Unknown, K!SaveSource, SoundSource, Saved
  <2>3. Copied(s)'
    <3>1. \A u \in Thread : Saves(u, s)' => u = t  BY <1>4, <1>a DEF Saves
    <3>. QED  BY <3>1, <1>2, <1>a DEF Copied, Is, Saves, OfSaving
  <2>4. \A d \in Doc : docs[d] # s
    <3>1. \A u \in Thread : ~Is(u, s, "meta")  BY <1>4 DEF Is, Saves, OfSaving
    <3>. QED  BY <2>1, <3>1 DEF SoundSource, Saved, Carded, Unknown
  <2>5. Carded(s)'  BY <2>4 DEF Carded, K!SaveSource
  <2>6. s \notin known'  BY <2>1 DEF K!SaveSource
  <2>. QED  BY <1>5, <1>7, <2>2, <2>3, <2>5, <2>6, UnknownIsSound
<1>12. \A r \in Source \ hurt' : SoundSource(r)'  BY <1>10, <1>11 DEF K!SaveSource
<1>. QED  BY <1>5, <1>7, <1>8, <1>12, Collects

\* A thread ends, or the directory of the source it uploads goes with it.
LEMMA WorkingLess ==
  ASSUME KnowledgeNames, K!StoresTypeOK, Working, NEW t \in Thread, Turns(t, K!Idle), NEW x \in Source, Saves(t, x),
         known' \in {known, known \cup {x}}, dir' \in {dir, dir \ {x}}
  PROVE  Working'
<1>1. Fits(K!Idle)'
  BY DEF KnowledgeNames, K!Idle, Fits, OfSaving, OfEmbedding, OfIndexing, OfDeleting
<1>2. ASSUME NEW u \in Thread \ {t} PROVE Fits(work[u])'
  <2>1. Fits(work[u]) /\ ~Saves(u, x)  BY DEF Working, SaversApart
  <2>2. work'[u] = work[u]  BY TurnFacts, IdleRequest
  <2>. QED  BY <2>1, <2>2 DEF Fits, Saves
<1>3. ~(K!Idle.target \in Source)  BY DEF K!Idle, KnowledgeNames
<1>. QED  BY <1>1, <1>2, <1>3, IdleRequest, WorkingStays

\* An upload that fails before it has a card leaves a source nobody knows.
LEMMA CopyKeeps ==
  ASSUME KnowledgeNames, KnowledgeInv, NEW t \in Thread, K!Copy(t)
  PROVE  KnowledgeInv'
<1>. USE DEF KnowledgeInv
<1>a. PICK x : x = work[t].target  OBVIOUS
<1>. USE <1>a
<1>0. work[t] \in K!Work /\ Fits(work[t]) /\ work[t].at = "copy"  BY DEF K!Copy, K!StoresTypeOK, Working
<1>1. x \in Source /\ Saves(t, x) /\ x \in dir  BY <1>0 DEF Fits, OfSaving, Saves
<1>2. \A s \in Source \ {x} : Spared(s)  BY DEF K!Copy, K!CleanUp, Spared
<1>3. CASE db' = db \cup {x} /\ K!Go(t, "count") /\ UNCHANGED <<dir, meta>>
  <2>1. PICK w \in K!Work : Turns(t, w) /\ w.at = "count" /\ w.target = x  BY <1>3, GoFacts DEF K!Phase
  <2>2. K!StoresTypeOK'  BY <1>1, <1>3, <2>1, TurnFacts DEF K!Copy, K!StoresTypeOK
  <2>3. Fits(w)  BY <1>0, <1>1, <2>1 DEF Fits, OfSaving, OfEmbedding, OfIndexing, OfDeleting
  <2>4. Working'  BY <1>1, <1>3, <2>1, <2>3, WorkingGoesOn DEF K!Copy
  <2>5. Counted'  BY <2>1, CountedGoesOn DEF K!Copy
  <2>6. \A s \in Source \ (hurt' \cup {x}) : SoundSource(s)'
    BY <1>2, <2>1, OthersStaySound DEF K!Copy
  <2>7. ASSUME x \notin hurt' PROVE SoundSource(x)'
    <3>1. SoundSource(x)  BY <1>1, <2>7 DEF K!Copy
    <3>2. \A d \in Doc : docs[d] # x  BY <1>0, <1>1, <3>1, UploadFacts
    <3>. QED  BY <1>1, <1>3, <2>1, <2>2, <2>4, <3>1, <3>2, UploadGoesOn DEF K!Copy
  <2>8. \A s \in Source \ hurt' : SoundSource(s)'  BY <2>6, <2>7
  <2>. QED  BY <2>2, <2>4, <2>5, <2>8, Collects
<1>4. CASE K!CleanUp(x) /\ K!Answer(t)
  <2>1. Turns(t, K!Idle) /\ K!Idle \in K!Work /\ K!Idle.at # "insert" /\ K!Idle.target = None
    BY <1>4, AnswerFacts, IdleRequest
  <2>2. K!StoresTypeOK'  BY <1>4, <2>1, TurnFacts DEF K!Copy, K!StoresTypeOK, K!CleanUp
  <2>4. Working'  BY <1>1, <1>4, <2>1, WorkingLess DEF K!Copy, K!CleanUp
  <2>5. Counted'  BY <2>1, CountedGoesOn DEF K!Copy
  <2>6. \A s \in Source \ (hurt' \cup {x}) : SoundSource(s)'
    BY <1>2, <2>1, OthersStaySound DEF K!Copy
  <2>7. ASSUME x \notin hurt' PROVE SoundSource(x)'
    <3>1. SoundSource(x)  BY <1>1, <2>7 DEF K!Copy
    <3>2. /\ \A d \in Doc : docs[d] # x
          /\ x \notin known /\ meta[x] = None /\ memory[x] = None /\ disk[x] = None
          /\ \A u \in Thread \ {t} : ~Saves(u, x)
      BY <1>0, <1>1, <3>1, UploadFacts
    <3>3. \A u \in Thread : ~Saves(u, x)'
      <4>1. work'[t] = K!Idle /\ \A u \in Thread \ {t} : work'[u] = work[u]  BY <2>1, TurnFacts
      <4>. QED  BY <3>2, <4>1, <2>1, <1>1 DEF Saves, KnowledgeNames
    <3>4. Unknown(x)'  BY <1>4, <3>2 DEF K!Copy, K!CleanUp, Unknown
    <3>5. Copied(x)'  BY <3>3 DEF Copied, Is, Saves, OfSaving
    <3>6. Carded(x)'  BY <3>2 DEF Carded, K!Copy
    <3>7. x \notin known'  BY <3>2 DEF K!Copy
    <3>. QED  BY <1>1, <2>2, <2>4, <3>4, <3>5, <3>6, <3>7, UnknownIsSound
  <2>8. \A s \in Source \ hurt' : SoundSource(s)'  BY <2>6, <2>7
  <2>. QED  BY <2>2, <2>4, <2>5, <2>8, Collects
<1>. QED  BY <1>3, <1>4 DEF K!Copy

\* An upload that ends well leaves a source that is whole.
LEMMA WriteMetaKeeps ==
  ASSUME KnowledgeNames, KnowledgeInv, NEW t \in Thread, K!WriteMeta(t)
  PROVE  KnowledgeInv'
<1>. USE DEF KnowledgeInv
<1>a. PICK x : x = work[t].target  OBVIOUS
<1>. USE <1>a
<1>0. work[t] \in K!Work /\ Fits(work[t]) /\ work[t].at = "meta"  BY DEF K!WriteMeta, K!StoresTypeOK, Working
<1>1. x \in Source /\ Saves(t, x) /\ x \in dir  BY <1>0 DEF Fits, OfSaving, Saves
<1>2. \A s \in Source \ {x} : Spared(s)  BY DEF K!WriteMeta, K!CleanUp, Spared, K!StoresTypeOK
<1>3. Turns(t, K!Idle) /\ K!Idle \in K!Work /\ K!Idle.at # "insert" /\ K!Idle.target = None
  BY AnswerFacts, IdleRequest DEF K!WriteMeta
<1>b. work'[t] = K!Idle /\ \A u \in Thread \ {t} : work'[u] = work[u]  BY <1>3, TurnFacts
<1>4. hurt \subseteq hurt' /\ docs' = docs  BY DEF K!WriteMeta
<1>5. Counted'  BY <1>3, <1>4, CountedGoesOn
<1>6. \A s \in Source \ (hurt' \cup {x}) : SoundSource(s)'
  BY <1>2, <1>3, <1>4, OthersStaySound
<1>7. Working'
  BY <1>1, <1>3, WorkingLess DEF K!WriteMeta, K!CleanUp
<1>8. K!StoresTypeOK'
  <2>1. [card |-> work[t].card, indexed |-> FALSE] \in K!Meta  BY <1>0 DEF K!Work, K!Meta
  <2>2. work' \in [Thread -> K!Work]  BY <1>3, TurnFacts
  <2>3. CASE /\ meta' = [meta EXCEPT ![x] = [card |-> work[t].card, indexed |-> FALSE]]
             /\ known' = known \cup {x}
             /\ UNCHANGED <<dir, db, hurt>>
    BY <1>1, <2>1, <2>2, <2>3 DEF K!WriteMeta, K!StoresTypeOK
  <2>4. CASE /\ K!CleanUp(x)
             /\ hurt' = hurt \cup {x}
             /\ UNCHANGED known
    BY <1>1, <2>2, <2>4 DEF K!WriteMeta, K!StoresTypeOK, K!CleanUp
  <2>. QED  BY <2>3, <2>4 DEF K!WriteMeta
<1>9. ASSUME x \notin hurt' PROVE SoundSource(x)'
  <2>1. /\ meta' = [meta EXCEPT ![x] = [card |-> work[t].card, indexed |-> FALSE]]
        /\ known' = known \cup {x}
        /\ UNCHANGED <<dir, db, docs, gone, memory, disk, hurt>>
    BY <1>9 DEF K!WriteMeta
  <2>2. SoundSource(x)  BY <1>1, <1>9, <2>1
  <2>3. /\ x \notin known /\ x \notin gone /\ x \in dir /\ meta[x] = None /\ memory[x] = None /\ disk[x] = None
        /\ \A u \in Thread \ {t} : ~Saves(u, x)
        /\ \A d \in Doc : docs[d] = x => work[t].card = d
    BY <1>0, <1>1, <2>2, UploadFacts
  <2>4. meta'[x] = [card |-> work[t].card, indexed |-> FALSE] /\ meta'[x] # None
    <3>1. [card |-> work[t].card, indexed |-> FALSE] \in K!Meta  BY <1>0 DEF K!Work, K!Meta
    <3>. QED  BY <1>1, <2>1, <3>1 DEF K!StoresTypeOK, KnowledgeNames
  <2>5. x \in db  BY <1>0, <2>2 DEF SoundSource, Saved, Copied, Is
  <2>6. \A u \in Thread : ~Saves(u, x)' /\ ~Deletes(u, x)' /\ ~Indexes(u, x)'
    <3>1. ASSUME NEW u \in Thread \ {t} PROVE ~Saves(u, x)' /\ ~Deletes(u, x)' /\ ~Indexes(u, x)'
      <4>1. Fits(work[u])  BY DEF Working
      <4>2. ~Deletes(u, x) /\ ~Indexes(u, x)  BY <1>1, <2>3, <4>1 DEF Fits, Deletes, Indexes
      <4>. QED  BY <4>2, <2>3, <1>b DEF Saves, Deletes, Indexes
    <3>2. ~Saves(t, x)' /\ ~Deletes(t, x)' /\ ~Indexes(t, x)'
      BY <1>1, <1>3, <1>b DEF Saves, Deletes, Indexes, KnowledgeNames
    <3>. QED  BY <3>1, <3>2
  <2>7. Saved(x)'
    <3>1. Unknown(x)'  BY <2>1 DEF Unknown
    <3>2. Copied(x)'  BY <2>6 DEF Copied, Is, Saves, OfSaving
    <3>3. Carded(x)'  BY <2>1, <2>3, <2>4 DEF Carded
    <3>4. KeptWhole(x)'  BY <2>1, <2>3, <2>4, <2>5 DEF KeptWhole
    <3>. QED  BY <3>1, <3>2, <3>3, <3>4 DEF Saved
  <2>8. \A u \in Thread : ~Is(u, x, "unlist")' /\ ~Is(u, x, "remove")' /\ ~Is(u, x, "update")'
    BY <2>6 DEF Is, Deletes, Indexes, OfDeleting, OfIndexing
  <2>9. Deleted(x)'
    BY <2>1, <2>3, <2>6, <2>8 DEF Deleted, Uncarded, Dissolved, Apart, Gone, Removing, Dropped
  <2>10. Embedded(x)'
    <3>1. ~meta'[x].indexed  BY <2>4
    <3>. QED  BY <2>1, <2>3, <2>6, <2>8, <3>1 DEF Embedded, Written, StoredBatches, Merged, Whole
  <2>. QED  BY <2>7, <2>9, <2>10 DEF SoundSource
<1>10. \A s \in Source \ hurt' : SoundSource(s)'  BY <1>6, <1>9
<1>. QED  BY <1>5, <1>7, <1>8, <1>10, Collects

-----------------------------------------------------------------------------
(* Indexing.                                                               *)

\* Indexing of a source starts with no batch stored; a source that is being
\* deleted is hurt by it.
LEMMA IndexSourceKeeps ==
  ASSUME KnowledgeNames, KnowledgeInv, NEW t \in Thread, K!IndexSource(t)
  PROVE  KnowledgeInv'
<1>. USE DEF KnowledgeInv
<1>1. PICK s \in known \cap db, d \in Dim :
        /\ K!Start(t, [K!Idle EXCEPT !.at = "embed", !.target = s, !.dim = d])
        /\ hurt' = hurt \cup IF K!Deleting(s) THEN {s} ELSE {}
  BY DEF K!IndexSource
<1>0. s \in Source  BY DEF K!StoresTypeOK
<1>2. PICK w \in K!Work : Turns(t, w) /\ w.at = "embed" /\ w.target = s /\ w.dim = d /\ w.stored = 0
  <2>. DEFINE w == [K!Idle EXCEPT !.at = "embed", !.target = s, !.dim = d]
  <2>1. w \in K!Work /\ w.at = "embed" /\ w.target = s /\ w.dim = d /\ w.stored = 0
    <3>1. K!Idle \in K!Work /\ K!Idle.stored = 0  BY IdleRequest DEF K!Idle
    <3>. QED  BY <1>0, <3>1 DEF K!Work, K!Phase, K!Target
  <2>2. Turns(t, w)  BY <1>1, StartFacts
  <2>. HIDE DEF w
  <2>. QED  BY <2>1, <2>2
<1>3. work[t].target = None /\ work[t].at = "idle"  BY <1>1 DEF K!Start, K!Idle
<1>a. work'[t] = w /\ \A u \in Thread \ {t} : work'[u] = work[u]  BY <1>2, TurnFacts
<1>5. K!StoresTypeOK'  BY <1>0, <1>1, <1>2, TurnFacts DEF K!IndexSource, K!StoresTypeOK
<1>6. Fits(w)  BY <1>0, <1>2 DEF KnowledgeNames, Fits, OfSaving, OfEmbedding, OfIndexing, OfDeleting, K!Target
<1>7. Working'  BY <1>2, <1>6, WorkingGoesOn DEF K!IndexSource, OfSaving
<1>8. Counted'  BY <1>2, CountedGoesOn DEF K!IndexSource
<1>9. \A r \in Source \ {s} : Spared(r)  BY DEF K!IndexSource, Spared
<1>10. \A r \in Source \ (hurt' \cup {s}) : SoundSource(r)'
  BY <1>1, <1>2, <1>3, <1>9, OthersStaySound
<1>11. ASSUME s \notin hurt' PROVE SoundSource(s)'
  <2>1. SoundSource(s)  BY <1>0, <1>1, <1>11
  <2>2. \A u \in Thread : ~Deletes(u, s)
    <3>1. ~K!Deleting(s)  BY <1>1, <1>11
    <3>. QED  BY <3>1 DEF K!Deleting, Deletes, OfDeleting
  <2>3. s \notin gone  BY <2>1 DEF SoundSource, Deleted, Gone, K!StoresTypeOK
  <2>4. \A u \in Thread : /\ ~Deletes(u, s)' /\ Saves(u, s)' = Saves(u, s)
                          /\ \A at \in {"count", "insert", "meta", "unlist", "remove", "update"} :
                               Is(u, s, at)' = Is(u, s, at)
    <3>0. s # None  BY <1>0 DEF KnowledgeNames
    <3>. QED  BY <1>2, <1>3, <1>a, <2>2, <3>0 DEF Deletes, Saves, Is, OfDeleting, OfSaving
  <2>a. \A u \in Thread : work'[u].at = "meta" /\ work[u].at = "meta" => work'[u].card = work[u].card
    BY <1>2, <1>3, <1>a
  <2>5. Saved(s)'
    <3>1. Unknown(s)'  BY <2>1, <2>4 DEF Unknown, SoundSource, Saved, K!IndexSource
    <3>2. Copied(s)'  BY <2>1, <2>4 DEF Copied, SoundSource, Saved, K!IndexSource
    <3>3. Carded(s)'
      <4>1. \A u \in Thread : Is(u, s, "meta")' = Is(u, s, "meta")  BY <2>4
      <4>2. \A u \in Thread : Is(u, s, "meta") => work'[u].card = work[u].card
        BY <4>1, <2>a DEF Is
      <4>. QED  BY <2>1, <4>1, <4>2 DEF Carded, SoundSource, Saved, K!IndexSource
    <3>4. KeptWhole(s)'  BY <2>1, <2>4 DEF KeptWhole, Removing, SoundSource, Saved, K!IndexSource
    <3>. QED  BY <3>1, <3>2, <3>3, <3>4 DEF Saved
  <2>6. \A u \in Thread : ~Is(u, s, "unlist")' /\ ~Is(u, s, "remove")'
    BY <2>2, <2>4 DEF Is, Deletes, OfDeleting
  <2>7. Deleted(s)'
    BY <2>1, <2>3, <2>4, <2>6 DEF Deleted, Uncarded, Dissolved, Apart, Gone, Removing, Dropped, K!IndexSource
  <2>8. Embedded(s)'
    <3>1. Written(s)'  BY <2>1 DEF Written, SoundSource, Embedded, K!IndexSource
    <3>2. StoredBatches(s)'
      <4>. SUFFICES ASSUME NEW u \in Thread, Indexes(u, s)', work'[u].stored > 0 PROVE HasVectors(s, work[u].stored)'
        BY DEF StoredBatches
      <4>1. u # t  BY <1>2, <1>a
      <4>2. Indexes(u, s) /\ work'[u] = work[u]  BY <4>1, <1>a DEF Indexes
      <4>3. HasVectors(s, work[u].stored)  BY <2>1, <4>2 DEF SoundSource, Embedded, StoredBatches
      <4>. QED  BY <4>2, <4>3 DEF HasVectors, Holds, K!IndexSource
    <3>3. Merged(s)'
      <4>. SUFFICES ASSUME NEW u \in Thread, Is(u, s, "update")' PROVE meta'[s] # None /\ meta'[s].card = work'[u].card
        BY DEF Merged
      <4>1. u # t  BY <1>2, <1>a DEF Is
      <4>2. Is(u, s, "update") /\ work'[u] = work[u]  BY <4>1, <1>a DEF Is
      <4>. QED  BY <2>1, <4>2 DEF SoundSource, Embedded, Merged, K!IndexSource
    <3>4. Whole(s)'
      <4>1. \A u \in Thread : ~Is(u, s, "unlist") /\ ~Is(u, s, "remove")  BY <2>4, <2>6
      <4>. QED  BY <2>1, <2>3, <4>1 DEF SoundSource, Embedded, Whole, Dropped, HasVectors, Holds, K!IndexSource
    <3>. QED  BY <3>1, <3>2, <3>3, <3>4 DEF Embedded
  <2>. QED  BY <2>5, <2>7, <2>8 DEF SoundSource
<1>12. \A r \in Source \ hurt' : SoundSource(r)'  BY <1>10, <1>11
<1>. QED  BY <1>5, <1>7, <1>8, <1>12, Collects

\* Indexing of a document is about no source.
LEMMA IndexDocumentKeeps ==
  ASSUME KnowledgeNames, KnowledgeInv, NEW t \in Thread, K!IndexDocument(t)
  PROVE  KnowledgeInv'
<1>. USE DEF KnowledgeInv
<1>1. PICK x \in K!Listed, d \in Dim : K!Start(t, [K!Idle EXCEPT !.at = "embed", !.target = x, !.dim = d])
  BY DEF K!IndexDocument
<1>0. x \in Doc /\ x \notin Source /\ x # None  BY DEF K!Listed, KnowledgeNames
<1>2. PICK w \in K!Work : Turns(t, w) /\ w.at = "embed" /\ w.target = x /\ w.dim = d /\ w.stored = 0
  <2>. DEFINE w == [K!Idle EXCEPT !.at = "embed", !.target = x, !.dim = d]
  <2>1. w \in K!Work /\ w.at = "embed" /\ w.target = x /\ w.dim = d /\ w.stored = 0
    <3>1. K!Idle \in K!Work /\ K!Idle.stored = 0  BY IdleRequest DEF K!Idle
    <3>. QED  BY <1>0, <3>1 DEF K!Work, K!Phase, K!Target
  <2>2. Turns(t, w)  BY <1>1, StartFacts
  <2>. HIDE DEF w
  <2>. QED  BY <2>1, <2>2
<1>3. work[t].target = None /\ work[t].at = "idle"  BY <1>1 DEF K!Start, K!Idle
<1>5. K!StoresTypeOK'  BY <1>2, TurnFacts DEF K!IndexDocument, K!StoresTypeOK
<1>6. Fits(w)  BY <1>0, <1>2 DEF KnowledgeNames, Fits, OfSaving, OfEmbedding, OfIndexing, OfDeleting, K!Target
<1>7. Working'  BY <1>2, <1>6, WorkingGoesOn DEF K!IndexDocument, OfSaving
<1>8. Counted'  BY <1>2, CountedGoesOn DEF K!IndexDocument
<1>9. \A r \in Source \ {x} : Spared(r)  BY DEF K!IndexDocument, Spared
<1>10. \A r \in Source \ (hurt' \cup {x}) : SoundSource(r)'
  BY <1>2, <1>3, <1>9, OthersStaySound DEF K!IndexDocument
<1>11. \A r \in Source \ hurt' : SoundSource(r)'  BY <1>0, <1>10
<1>. QED  BY <1>5, <1>7, <1>8, <1>11, Collects

\* While a source is indexed nobody deletes it, and its upload is over.
LEMMA IndexingFacts ==
  ASSUME K!StoresTypeOK, Working, NEW s \in Source, SoundSource(s), NEW t \in Thread, Indexes(t, s)
  PROVE  /\ s \in known /\ s \notin gone /\ \A u \in Thread : ~Deletes(u, s)
         /\ ~Removing(s) /\ ~Dropped(s) /\ meta[s] # None /\ s \in dir
<1>1. s \in known  BY DEF Working, Fits, Indexes
<1>2. s \notin gone /\ \A u \in Thread : ~Deletes(u, s)  BY DEF SoundSource, Deleted, Gone, Apart
<1>3. \A u \in Thread : ~Is(u, s, "unlist") /\ ~Is(u, s, "remove")  BY <1>2 DEF Is, Deletes, OfDeleting
<1>4. ~Removing(s) /\ ~Dropped(s)  BY <1>2, <1>3 DEF Removing, Dropped
<1>5. meta[s] # None /\ s \in dir  BY <1>1, <1>2, <1>4 DEF SoundSource, Saved, KeptWhole
<1>. QED  BY <1>1, <1>2, <1>4, <1>5

\* A step of an indexing thread leaves the upload and the deletion of its
\* source as they are.
LEMMA IndexingGoesOn ==
  ASSUME KnowledgeNames, K!StoresTypeOK, Working, NEW s \in Source, SoundSource(s), NEW t \in Thread, Indexes(t, s),
         NEW w \in K!Work, Turns(t, w), w = K!Idle \/ (w.target = s /\ w.at \in OfIndexing),
         UNCHANGED <<docs, dir, db, known, gone>>, meta'[s] # None, meta'[s].card = meta[s].card
  PROVE  /\ Saved(s)' /\ Deleted(s)' /\ ~Dropped(s)'
         /\ \A u \in Thread : Indexes(u, s)' => Indexes(u, s)
<1>1. work'[t] = w /\ \A u \in Thread \ {t} : work'[u] = work[u]  BY TurnFacts
<1>2. /\ s \in known /\ s \notin gone /\ \A u \in Thread : ~Deletes(u, s)
      /\ ~Removing(s) /\ ~Dropped(s) /\ meta[s] # None /\ s \in dir
  BY IndexingFacts
<1>3. s # None /\ K!Idle.target = None  BY DEF KnowledgeNames, K!Idle
<1>4. \A u \in Thread : ~Deletes(u, s)' /\ (Indexes(u, s)' => Indexes(u, s))
  BY <1>1, <1>2, <1>3 DEF Deletes, Indexes, OfIndexing, OfEmbedding, OfDeleting
<1>5. \A u \in Thread : ~Is(u, s, "unlist")' /\ ~Is(u, s, "remove")'  BY <1>4 DEF Is, Deletes, OfDeleting
<1>6. ~Removing(s)' /\ ~Dropped(s)'  BY <1>2, <1>5 DEF Removing, Dropped
<1>7. Saved(s)'
  <2>1. Unknown(s)'  BY <1>2 DEF Unknown
  <2>2. s \in db  BY <1>2 DEF SoundSource, Saved, KeptWhole
  <2>3. Copied(s)'  BY <2>2 DEF Copied
  <2>4. Carded(s)'
    <3>. SUFFICES ASSUME NEW d \in Doc, docs[d] = s PROVE meta'[s].card = d
      BY DEF Carded
    <3>1. \A u \in Thread : ~Is(u, s, "meta")  BY <1>2 DEF Working, Fits, Is, OfSaving
    <3>2. meta[s].card = d  BY <3>1 DEF SoundSource, Saved, Carded
    <3>. QED  BY <3>2
  <2>5. KeptWhole(s)'  BY <1>2, <2>2 DEF KeptWhole
  <2>. QED  BY <2>1, <2>3, <2>4, <2>5 DEF Saved
<1>8. Deleted(s)'  BY <1>2, <1>4, <1>6 DEF Deleted, Uncarded, Dissolved, Apart, Gone
<1>. QED  BY <1>4, <1>6, <1>7, <1>8

\* Vectors are only added, to the program's before the file's.
\* The vectors of s grow in memory first, and its metadata keeps its card.
Grows(s) ==
  /\ memory[s] # None => memory'[s] # None /\ memory[s].points \subseteq memory'[s].points
  /\ disk'[s] \in {disk[s], memory'[s]}
  /\ meta'[s] # None /\ meta'[s].card = meta[s].card
  /\ meta'[s].indexed => meta[s].indexed \/ HasVectors(s, Batches)'
\* A thread counts as stored what is, and merges into what it has read.
\* The thread goes on to w with as many batches as both collections hold.
Counts(t, w, s) ==
  /\ w # K!Idle => w.stored = work[t].stored \/ HasVectors(s, w.stored)'
  /\ w.at = "update" => w.card = meta[s].card

\* What a collection holds it holds with more points in it.
LEMMA VectorsGrow ==
  ASSUME NEW s \in Source, Written(s), Grows(s), NEW n, HasVectors(s, n)
  PROVE  HasVectors(s, n)'
BY DEF Written, Grows, HasVectors, Holds

\* A source whose vectors only grow stays embedded while its indexing goes on.
LEMMA EmbeddedGrows ==
  ASSUME KnowledgeNames, K!StoresTypeOK, Working, NEW s \in Source, SoundSource(s), NEW t \in Thread, Indexes(t, s),
         NEW w \in K!Work, Turns(t, w), w = K!Idle \/ (w.target = s /\ w.at \in OfIndexing),
         ~Dropped(s)', Grows(s), Counts(t, w, s)
  PROVE  Embedded(s)'
<1>1. work'[t] = w /\ \A u \in Thread \ {t} : work'[u] = work[u]  BY TurnFacts
<1>2. s # None /\ K!Idle.target = None /\ ~Dropped(s)  BY IndexingFacts DEF KnowledgeNames, K!Idle
<1>3. Written(s)
  BY DEF SoundSource, Embedded
<1>4. Written(s)'  BY <1>3 DEF Written, Grows
<1>5. StoredBatches(s)'
  <2>. SUFFICES ASSUME NEW u \in Thread, Indexes(u, s)', work'[u].stored > 0 PROVE HasVectors(s, work[u].stored)'
    BY DEF StoredBatches
  <2>a. PICK n : n = work'[u].stored  OBVIOUS
  <2>1. CASE HasVectors(s, n)'  BY <2>a, <2>1 DEF HasVectors, Holds
  <2>2. CASE n = work[u].stored /\ Indexes(u, s)
    <3>1. HasVectors(s, n)  BY <2>a, <2>2 DEF SoundSource, Embedded, StoredBatches
    <3>2. HasVectors(s, n)'  BY <1>3, <3>1, VectorsGrow
    <3>. QED  BY <3>2, <2>a DEF HasVectors, Holds
  <2>3. CASE u = t
    <3>1. w # K!Idle  BY <1>1, <1>2, <2>3 DEF Indexes
    <3>2. n = w.stored /\ (w.stored = work[t].stored \/ HasVectors(s, w.stored)')  BY <1>1, <2>a, <2>3, <3>1 DEF Counts
    <3>3. CASE w.stored = work[t].stored  BY <2>2, <2>3, <3>2, <3>3
    <3>4. CASE HasVectors(s, w.stored)'  BY <2>1, <3>2, <3>4 DEF HasVectors, Holds
    <3>. QED  BY <3>2, <3>3, <3>4
  <2>4. CASE u # t  BY <1>1, <2>2, <2>4, <2>a DEF Indexes
  <2>. QED  BY <2>3, <2>4
<1>6. Merged(s)'
  <2>. SUFFICES ASSUME NEW u \in Thread, Is(u, s, "update")' PROVE meta'[s] # None /\ meta'[s].card = work'[u].card
    BY DEF Merged
  <2>1. \A v \in Thread : work[v].target = s /\ work[v].at = "update" => meta[s].card = work[v].card
    BY DEF SoundSource, Embedded, Merged, Is
  <2>2. CASE u = t  BY <1>1, <2>1, <2>2 DEF Counts, Grows, Is, Indexes
  <2>3. CASE u # t  BY <1>1, <2>1, <2>3 DEF Grows, Is
  <2>. QED  BY <2>2, <2>3
<1>7. Whole(s)'
  <2>. SUFFICES ASSUME meta'[s].indexed PROVE HasVectors(s, Batches)'  BY DEF Whole
  <2>1. CASE meta[s].indexed
    <3>1. HasVectors(s, Batches)  BY <1>2, <2>1, IndexingFacts DEF SoundSource, Embedded, Whole
    <3>. QED  BY <1>3, <3>1, VectorsGrow
  <2>. QED  BY <2>1 DEF Grows
<1>. QED  BY <1>4, <1>5, <1>6, <1>7 DEF Embedded

\* All that a step of an indexing thread owes.
LEMMA IndexingKeeps ==
  ASSUME KnowledgeNames, KnowledgeInv, K!StoresTypeOK', NEW t \in Thread, NEW x, x = work[t].target, work[t].at \in OfIndexing,
         NEW w \in K!Work, Turns(t, w), Fits(w), w = K!Idle \/ (w.target = x /\ w.at \in OfIndexing),
         UNCHANGED <<docs, dir, db, known, gone, hurt>>, \A s \in Source \ {x} : Spared(s),
         x \in Source \ hurt /\ Indexes(t, x) /\ SoundSource(x) => Grows(x) /\ Counts(t, w, x)
  PROVE  KnowledgeInv'
<1>. USE DEF KnowledgeInv
<1>1. w.at \notin OfSaving /\ w.target \in {x, None}  BY DEF K!Idle, OfSaving, OfIndexing, OfEmbedding
<1>2. Working'  BY <1>1, WorkingGoesOn
<1>3. Counted'  BY <1>1, CountedGoesOn DEF OfSaving
<1>4. \A s \in Source \ (hurt' \cup {x}) : SoundSource(s)'
  BY <1>1, OthersStaySound
<1>5. ASSUME x \in Source \ hurt' PROVE SoundSource(x)'
  <2>1. SoundSource(x) /\ Indexes(t, x)  BY <1>5 DEF Indexes
  <2>2. Grows(x) /\ Counts(t, w, x)  BY <1>5, <2>1
  <2>3. Saved(x)' /\ Deleted(x)' /\ ~Dropped(x)'
    BY <1>5, <2>1, <2>2, IndexingGoesOn DEF Grows
  <2>4. Embedded(x)'  BY <1>5, <2>1, <2>2, <2>3, EmbeddedGrows
  <2>. QED  BY <2>3, <2>4 DEF SoundSource
<1>6. \A s \in Source \ hurt' : SoundSource(s)'  BY <1>4, <1>5
<1>. QED  BY <1>2, <1>3, <1>6, Collects

\* What an indexing thread brings to a step.
LEMMA IndexerFacts ==
  ASSUME KnowledgeInv, NEW t \in Thread, work[t].at \in OfIndexing
  PROVE  /\ work[t] \in K!Work /\ Fits(work[t]) /\ work[t].target \in K!Target
         /\ work[t].at \in OfEmbedding => work[t].dim \in Dim /\ work[t].stored < Batches
         /\ work[t].at \in {"read", "update"} => work[t].target \in Source /\ work[t].stored = Batches
BY DEF KnowledgeInv, K!StoresTypeOK, Working, Fits, OfIndexing, K!Target

\* The stores stay; the thread goes on as it is, or ends.
LEMMA IndexerMoves ==
  ASSUME KnowledgeNames, KnowledgeInv, NEW t \in Thread, work[t].at \in OfEmbedding,
         K!Answer(t) \/ \E a \in OfEmbedding : K!Go(t, a),
         UNCHANGED <<topic, docs, dir, db, meta, known, gone, memory, disk, hurt>>
  PROVE  KnowledgeInv'
<1>a. PICK x : x = work[t].target  OBVIOUS
<1>0. /\ work[t].at \in OfIndexing /\ work[t] \in K!Work /\ Fits(work[t])
      /\ work[t].target \in K!Target /\ work[t].dim \in Dim /\ work[t].stored < Batches
  BY IndexerFacts DEF OfIndexing
<1>1. PICK w \in K!Work : /\ Turns(t, w) /\ Fits(w)
                        /\ \/ w = K!Idle
                           \/ w.target = x /\ w.at \in OfEmbedding /\ w.stored = work[t].stored
  <2>1. CASE K!Answer(t)  BY <2>1, AnswerFacts, IdleRequest
  <2>2. ASSUME NEW a \in OfEmbedding, K!Go(t, a)
        PROVE \E w \in K!Work : /\ Turns(t, w) /\ Fits(w)
                              /\ w.target = x /\ w.at \in OfEmbedding /\ w.stored = work[t].stored
    <3>1. a \in K!Phase  BY DEF OfEmbedding, K!Phase
    <3>2. PICK w \in K!Work : /\ Turns(t, w) /\ w.at = a /\ w.target = work[t].target
                            /\ w.dim = work[t].dim /\ w.stored = work[t].stored
      BY <2>2, <3>1, GoFacts DEF KnowledgeInv
    <3>3. Fits(w)  BY <1>0, <3>2 DEF Fits, OfSaving, OfEmbedding, OfIndexing, OfDeleting
    <3>. QED  BY <1>a, <3>2, <3>3
  <2>. QED  BY <2>1, <2>2
<1>2. K!StoresTypeOK'  BY <1>1, TurnFacts DEF KnowledgeInv, K!StoresTypeOK
<1>3. \A s \in Source \ {x} : Spared(s)  BY DEF Spared
<1>4. w = K!Idle \/ (w.target = x /\ w.at \in OfIndexing)  BY <1>1 DEF OfIndexing
<1>5. ASSUME x \in Source \ hurt, Indexes(t, x), SoundSource(x) PROVE Grows(x) /\ Counts(t, w, x)
  <2>1. meta[x] # None  BY <1>5, IndexingFacts DEF KnowledgeInv
  <2>2. Grows(x)  BY <2>1 DEF Grows
  <2>3. w.at # "update"  BY <1>1 DEF K!Idle, OfEmbedding
  <2>. QED  BY <1>1, <2>2, <2>3 DEF Counts
<1>. QED  BY <1>a, <1>0, <1>1, <1>2, <1>3, <1>4, <1>5, IndexingKeeps

\* A batch is embedded, or the provider fails.
LEMMA EmbedKeeps ==
  ASSUME KnowledgeNames, KnowledgeInv, NEW t \in Thread, K!Embed(t)
  PROVE  KnowledgeInv'
BY IndexerMoves DEF K!Embed, OfEmbedding

\* The collection is looked up.
LEMMA EnsureKeeps ==
  ASSUME KnowledgeNames, KnowledgeInv, NEW t \in Thread, K!Ensure(t)
  PROVE  KnowledgeInv'
<1>1. K!Answer(t) \/ \E a \in OfEmbedding : K!Go(t, a)  BY DEF K!Ensure, OfEmbedding
<1>. QED  BY <1>1, IndexerMoves DEF K!Ensure, OfEmbedding

\* What Store makes of the collection c, and of no other.
LEMMA StoreFacts ==
  ASSUME K!StoresTypeOK, NEW c \in K!Collection, NEW v \in K!Vectors, memory' = [memory EXCEPT ![c] = v],
         disk' = [disk EXCEPT ![c] = v] \/ disk' = disk
  PROVE  /\ memory' \in [K!Collection -> K!Vectors \cup {None}] /\ disk' \in [K!Collection -> K!Vectors \cup {None}]
         /\ memory'[c] = v /\ disk'[c] \in {disk[c], v}
         /\ \A e \in K!Collection \ {c} : memory'[e] = memory[e] /\ disk'[e] = disk[e]
         /\ disk' = [disk EXCEPT ![c] = v] => disk'[c] = v
BY DEF K!StoresTypeOK

\* A collection is created in memory, and in its file unless that fails.
LEMMA CreateKeeps ==
  ASSUME KnowledgeNames, KnowledgeInv, NEW t \in Thread, K!Create(t)
  PROVE  KnowledgeInv'
<1>a. PICK x : x = work[t].target  OBVIOUS
<1>b. PICK c : c = K!Home(x)  OBVIOUS
<1>0. /\ work[t].at \in OfEmbedding /\ work[t].at \in OfIndexing /\ work[t] \in K!Work /\ Fits(work[t])
      /\ x \in K!Target /\ work[t].dim \in Dim /\ work[t].stored < Batches
  BY <1>a, IndexerFacts DEF K!Create, OfIndexing, OfEmbedding
<1>c. c \in K!Collection /\ (x \in Source => c = x) /\ (x \notin Source => c \notin Source)
  BY <1>b DEF K!Home, K!Collection, KnowledgeNames
<1>1. CASE memory[c] # None
  <2>1. K!Go(t, "upsert") /\ UNCHANGED <<memory, disk>>  BY <1>1, <1>a, <1>b DEF K!Create
  <2>. QED  BY <1>0, <2>1, IndexerMoves DEF K!Create, OfEmbedding
<1>2. CASE memory[c] = None
  <2>. DEFINE v == [dim |-> work[t].dim, points |-> {}]
  <2>1. v \in K!Vectors /\ v # None  BY <1>0 DEF K!Vectors, KnowledgeNames
  <2>2. /\ memory' = [memory EXCEPT ![c] = v]
        /\ disk' = [disk EXCEPT ![c] = v] \/ disk' = disk
        /\ K!Go(t, "upsert") \/ K!Answer(t)
    BY <1>2, <1>a, <1>b DEF K!Create, K!Store
  <2>. HIDE DEF v
  <2>3. /\ memory' \in [K!Collection -> K!Vectors \cup {None}] /\ disk' \in [K!Collection -> K!Vectors \cup {None}]
        /\ memory'[c] = v /\ disk'[c] \in {disk[c], v}
        /\ \A e \in K!Collection \ {c} : memory'[e] = memory[e] /\ disk'[e] = disk[e]
    BY <1>c, <2>1, <2>2, StoreFacts DEF KnowledgeInv
  <2>4. PICK w \in K!Work : /\ Turns(t, w) /\ Fits(w)
                          /\ \/ w = K!Idle
                             \/ w.target = x /\ w.at = "upsert" /\ w.stored = work[t].stored
    <3>1. CASE K!Answer(t)  BY <3>1, AnswerFacts, IdleRequest
    <3>2. CASE K!Go(t, "upsert")
      <4>2. PICK w \in K!Work : /\ Turns(t, w) /\ w.at = "upsert" /\ w.target = work[t].target
                              /\ w.dim = work[t].dim /\ w.stored = work[t].stored
        BY <3>2, GoFacts DEF KnowledgeInv, K!Phase
      <4>3. Fits(w)  BY <1>a, <1>0, <4>2 DEF Fits, OfSaving, OfEmbedding, OfIndexing, OfDeleting
      <4>. QED  BY <1>a, <4>2, <4>3
    <3>. QED  BY <2>2, <3>1, <3>2
  <2>5. K!StoresTypeOK'  BY <2>3, <2>4, TurnFacts DEF KnowledgeInv, K!StoresTypeOK, K!Create
  <2>6. \A s \in Source \ {x} : Spared(s)  BY <1>c, <2>3 DEF K!Create, Spared, K!Collection
  <2>7. w = K!Idle \/ (w.target = x /\ w.at \in OfIndexing)  BY <2>4 DEF OfIndexing, OfEmbedding
  <2>8. ASSUME x \in Source \ hurt, Indexes(t, x), SoundSource(x) PROVE Grows(x) /\ Counts(t, w, x)
    <3>1. meta[x] # None /\ meta' = meta  BY <2>8, IndexingFacts DEF KnowledgeInv, K!Create
    <3>2. Grows(x)  BY <1>2, <1>c, <2>3, <2>8, <3>1 DEF Grows
    <3>3. w.at # "update"  BY <2>4 DEF K!Idle
    <3>. QED  BY <2>4, <3>2, <3>3 DEF Counts
  <2>. QED  BY <1>a, <1>0, <2>4, <2>5, <2>6, <2>7, <2>8, IndexingKeeps DEF K!Create
<1>. QED  BY <1>1, <1>2

\* A batch of points is stored in memory and then in the file.
LEMMA UpsertKeeps ==
  ASSUME KnowledgeNames, KnowledgeInv, NEW t \in Thread, K!Upsert(t)
  PROVE  KnowledgeInv'
<1>a. PICK x : x = work[t].target  OBVIOUS
<1>b. PICK c : c = K!Home(x)  OBVIOUS
<1>n. PICK n : n = work[t].stored + 1  OBVIOUS
<1>0. /\ work[t].at \in OfEmbedding /\ work[t].at \in OfIndexing /\ work[t] \in K!Work /\ Fits(work[t])
      /\ x \in K!Target /\ work[t].dim \in Dim /\ work[t].stored < Batches
  BY <1>a, IndexerFacts DEF K!Upsert, OfIndexing, OfEmbedding
<1>c. c \in K!Collection /\ (x \in Source => c = x) /\ (x \notin Source => c \notin Source)
  BY <1>b DEF K!Home, K!Collection, KnowledgeNames
<1>d. n \in K!Batch /\ work[t].stored \in Nat /\ n \in 0..Batches  BY <1>0, <1>n DEF K!Work, K!Batch, KnowledgeNames
<1>1. CASE memory[c] = None \/ (memory[c] # None /\ memory[c].dim # work[t].dim)
  <2>1. K!Answer(t) /\ UNCHANGED <<memory, disk>>  BY <1>1, <1>a, <1>b DEF K!Upsert
  <2>. QED  BY <1>0, <2>1, IndexerMoves DEF K!Upsert
<1>2. CASE ~(memory[c] = None \/ (memory[c] # None /\ memory[c].dim # work[t].dim))
  <2>. DEFINE v == [memory[c] EXCEPT !.points = @ \cup {<<x, n>>}]
              go == work' = [work EXCEPT ![t] =
                          IF K!AfterBatch(x, n) = "idle" THEN K!Idle
                          ELSE [@ EXCEPT !.at = K!AfterBatch(x, n), !.stored = n]]
  <2>1. memory[c] \in K!Vectors  BY <1>2, <1>c DEF KnowledgeInv, K!StoresTypeOK
  <2>2. v \in K!Vectors /\ v.points = memory[c].points \cup {<<x, n>>} /\ v # None
    BY <1>0, <1>d, <2>1 DEF K!Vectors, KnowledgeNames
  <2>3. /\ memory' = [memory EXCEPT ![c] = v]
        /\ (disk' = [disk EXCEPT ![c] = v] /\ go) \/ (disk' = disk /\ K!Answer(t))
    BY <1>2, <1>a, <1>b, <1>n DEF K!Upsert, K!Store
  <2>. HIDE DEF v
  <2>4. /\ memory' \in [K!Collection -> K!Vectors \cup {None}] /\ disk' \in [K!Collection -> K!Vectors \cup {None}]
        /\ memory'[c] = v /\ disk'[c] \in {disk[c], v}
        /\ \A e \in K!Collection \ {c} : memory'[e] = memory[e] /\ disk'[e] = disk[e]
        /\ (disk'[c] = v /\ go) \/ K!Answer(t)
    <3>. HIDE DEF go
    <3>1. disk' = [disk EXCEPT ![c] = v] \/ disk' = disk  BY <2>3
    <3>. QED  BY <1>c, <2>2, <2>3, <3>1, StoreFacts DEF KnowledgeInv
  <2>5. PICK w \in K!Work : /\ Turns(t, w) /\ Fits(w)
                          /\ \/ w = K!Idle
                             \/ /\ w.target = x /\ w.at \in {"embed", "read"} /\ w.stored = n
                                /\ disk'[c] = v
    <3>1. CASE K!Answer(t)  BY <3>1, AnswerFacts, IdleRequest
    <3>2. CASE disk'[c] = v /\ go /\ K!AfterBatch(x, n) = "idle"
      <4>1. Turns(t, K!Idle)  BY <3>2 DEF Turns
      <4>. QED  BY <4>1, IdleRequest
    <3>3. CASE disk'[c] = v /\ go /\ K!AfterBatch(x, n) # "idle"
      <4>. DEFINE w == [work[t] EXCEPT !.at = K!AfterBatch(x, n), !.stored = n]
      <4>1. \/ K!AfterBatch(x, n) = "embed" /\ n < Batches
            \/ K!AfterBatch(x, n) = "read" /\ n = Batches /\ x \in Source
        BY <1>d, <3>3 DEF K!AfterBatch
      <4>2. K!AfterBatch(x, n) \in K!Phase  BY <4>1 DEF K!Phase
      <4>3. w \in K!Work /\ w.at = K!AfterBatch(x, n) /\ w.stored = n /\ w.target = x /\ w.dim = work[t].dim
        BY <1>a, <1>0, <1>d, <4>2 DEF K!Work
      <4>4. Turns(t, w)  BY <3>3 DEF Turns
      <4>. HIDE DEF w
      <4>5. Fits(w)  BY <1>a, <1>0, <4>1, <4>3 DEF Fits, OfSaving, OfEmbedding, OfIndexing, OfDeleting
      <4>. QED  BY <3>3, <4>1, <4>3, <4>4, <4>5
    <3>. QED  BY <2>4, <3>1, <3>2, <3>3
  <2>6. K!StoresTypeOK'  BY <2>4, <2>5, TurnFacts DEF KnowledgeInv, K!StoresTypeOK, K!Upsert
  <2>7. \A s \in Source \ {x} : Spared(s)  BY <1>c, <2>4 DEF K!Upsert, Spared, K!Collection
  <2>8. w = K!Idle \/ (w.target = x /\ w.at \in OfIndexing)  BY <2>5 DEF OfIndexing, OfEmbedding
  <2>9. ASSUME x \in Source \ hurt, Indexes(t, x), SoundSource(x) PROVE Grows(x) /\ Counts(t, w, x)
    <3>1. meta[x] # None /\ meta' = meta  BY <2>9, IndexingFacts DEF KnowledgeInv, K!Upsert
    <3>2. Grows(x)  BY <1>c, <2>2, <2>4, <2>9, <3>1 DEF Grows
    <3>3. w.at # "update"  BY <2>5 DEF K!Idle
    <3>4. ASSUME w # K!Idle PROVE HasVectors(x, n)'
      <4>1. memory'[x] = v /\ disk'[x] = v  BY <1>c, <2>4, <2>5, <2>9, <3>4
      <4>2. ASSUME NEW m \in 1..n PROVE <<x, m>> \in v.points
        <5>1. CASE m = n  BY <2>2, <5>1
        <5>2. CASE m # n
          <6>1. m \in 1..work[t].stored /\ work[t].stored > 0  BY <1>n, <1>d, <5>2
          <6>2. HasVectors(x, work[t].stored)  BY <2>9, <6>1 DEF SoundSource, Embedded, StoredBatches
          <6>. QED  BY <1>c, <2>2, <2>9, <6>1, <6>2 DEF HasVectors, Holds
        <5>. QED  BY <5>1, <5>2
      <4>. QED  BY <2>2, <4>1, <4>2 DEF HasVectors, Holds
    <3>5. w # K!Idle => w.stored = n  BY <2>5
    <3>. QED  BY <3>2, <3>3, <3>4, <3>5 DEF Counts
  <2>. QED  BY <1>a, <1>0, <2>5, <2>6, <2>7, <2>8, <2>9, IndexingKeeps DEF K!Upsert
<1>. QED  BY <1>1, <1>2

\* The metadata is read for the update that marks a source as indexed.
LEMMA ReadMetaKeeps ==
  ASSUME KnowledgeNames, KnowledgeInv, NEW t \in Thread, K!ReadMeta(t)
  PROVE  KnowledgeInv'
<1>a. PICK x : x = work[t].target  OBVIOUS
<1>0. /\ work[t].at \in OfIndexing /\ work[t] \in K!Work /\ Fits(work[t]) /\ x \in Source /\ work[t].stored = Batches
  BY <1>a, IndexerFacts DEF K!ReadMeta, OfIndexing
<1>1. PICK w \in K!Work : /\ Turns(t, w) /\ Fits(w)
                        /\ \/ w = K!Idle
                           \/ /\ w.target = x /\ w.at = "update" /\ w.stored = work[t].stored
                              /\ w.card = meta[x].card
  <2>1. CASE meta[x] = None
    <3>1. K!Answer(t)  BY <1>a, <2>1 DEF K!ReadMeta
    <3>. QED  BY <3>1, AnswerFacts, IdleRequest
  <2>2. CASE meta[x] # None
    <3>. DEFINE w == [work[t] EXCEPT !.at = "update", !.card = meta[x].card]
    <3>1. meta[x].card \in Doc \cup {None}  BY <1>0, <2>2 DEF KnowledgeInv, K!StoresTypeOK, K!Meta
    <3>2. w \in K!Work /\ w.at = "update" /\ w.card = meta[x].card /\ w.target = x /\ w.stored = work[t].stored
      BY <1>a, <1>0, <3>1 DEF K!Work, K!Phase
    <3>3. Turns(t, w)  BY <1>a, <1>0, <2>2 DEF Turns, K!ReadMeta, KnowledgeInv, K!StoresTypeOK
    <3>. HIDE DEF w
    <3>4. x \in known  BY <1>a, <1>0 DEF Fits
    <3>5. Fits(w)  BY <1>0, <3>2, <3>4 DEF Fits, OfSaving, OfEmbedding, OfIndexing, OfDeleting
    <3>. QED  BY <3>2, <3>3, <3>5
  <2>. QED  BY <2>1, <2>2
<1>2. K!StoresTypeOK'  BY <1>1, TurnFacts DEF KnowledgeInv, K!StoresTypeOK, K!ReadMeta
<1>3. \A s \in Source \ {x} : Spared(s)  BY DEF Spared, K!ReadMeta
<1>4. w = K!Idle \/ (w.target = x /\ w.at \in OfIndexing)  BY <1>1 DEF OfIndexing
<1>5. ASSUME x \in Source \ hurt, Indexes(t, x), SoundSource(x) PROVE Grows(x) /\ Counts(t, w, x)
  <2>1. meta[x] # None  BY <1>5, IndexingFacts DEF KnowledgeInv
  <2>2. Grows(x)  BY <2>1 DEF Grows, K!ReadMeta
  <2>. QED  BY <1>1, <2>2 DEF Counts, K!Idle
<1>. QED  BY <1>a, <1>0, <1>1, <1>2, <1>3, <1>4, <1>5, IndexingKeeps DEF K!ReadMeta

\* The metadata is replaced by what was read, marked as indexed.
LEMMA UpdateMetaKeeps ==
  ASSUME KnowledgeNames, KnowledgeInv, NEW t \in Thread, K!UpdateMeta(t)
  PROVE  KnowledgeInv'
<1>a. PICK x : x = work[t].target  OBVIOUS
<1>0. /\ work[t].at \in OfIndexing /\ work[t] \in K!Work /\ Fits(work[t]) /\ x \in Source /\ work[t].stored = Batches
  BY <1>a, IndexerFacts DEF K!UpdateMeta, OfIndexing
<1>1. Turns(t, K!Idle) /\ Fits(K!Idle) /\ K!Idle \in K!Work  BY AnswerFacts, IdleRequest DEF K!UpdateMeta
<1>2. PICK m : m = [card |-> work[t].card, indexed |-> TRUE]  OBVIOUS
<1>3. m \in K!Meta /\ m # None /\ m.card = work[t].card
  <2>1. [card |-> work[t].card, indexed |-> TRUE] \in K!Meta  BY <1>0 DEF K!Meta, K!Work
  <2>. QED  BY <1>2, <2>1 DEF KnowledgeNames
<1>4. meta' \in {meta, [meta EXCEPT ![x] = m]}  BY <1>a, <1>2 DEF K!UpdateMeta
<1>5. K!StoresTypeOK'  BY <1>0, <1>1, <1>3, <1>4, TurnFacts DEF KnowledgeInv, K!StoresTypeOK, K!UpdateMeta
<1>6. \A s \in Source \ {x} : Spared(s)  BY <1>4 DEF Spared, K!UpdateMeta, KnowledgeInv, K!StoresTypeOK
<1>7. ASSUME x \in Source \ hurt, Indexes(t, x), SoundSource(x) PROVE Grows(x) /\ Counts(t, K!Idle, x)
  <2>1. meta[x] # None  BY <1>7, IndexingFacts DEF KnowledgeInv
  <2>2. meta[x].card = work[t].card  BY <1>a, <1>7 DEF SoundSource, Embedded, Merged, Is, K!UpdateMeta
  <2>3. HasVectors(x, Batches)  BY <1>0, <1>7 DEF SoundSource, Embedded, StoredBatches, KnowledgeNames
  <2>4. HasVectors(x, Batches)'  BY <2>3 DEF HasVectors, Holds, K!UpdateMeta
  <2>5. meta'[x] = meta[x] \/ meta'[x] = m  BY <1>4, <1>0 DEF KnowledgeInv, K!StoresTypeOK
  <2>6. Grows(x)  BY <1>3, <2>1, <2>2, <2>4, <2>5 DEF Grows, K!UpdateMeta
  <2>. QED  BY <2>6 DEF Counts, K!Idle
<1>. QED  BY <1>a, <1>0, <1>1, <1>5, <1>6, <1>7, IndexingKeeps DEF K!UpdateMeta

-----------------------------------------------------------------------------
(* Deletion.                                                               *)

\* The deletion of a listed source starts; one that is indexed is hurt by it.
LEMMA DeleteSourceKeeps ==
  ASSUME KnowledgeNames, KnowledgeInv, NEW t \in Thread, K!DeleteSource(t)
  PROVE  KnowledgeInv'
<1>. USE DEF KnowledgeInv
<1>1. PICK s \in known :
        /\ K!Start(t, [K!Idle EXCEPT !.at = "drop", !.target = s])
        /\ hurt' = hurt \cup IF K!Indexing(s) THEN {s} ELSE {}
  BY DEF K!DeleteSource
<1>0. s \in Source  BY DEF K!StoresTypeOK
<1>2. PICK w \in K!Work : Turns(t, w) /\ w.at = "drop" /\ w.target = s
  <2>. DEFINE w == [K!Idle EXCEPT !.at = "drop", !.target = s]
  <2>1. w \in K!Work /\ w.at = "drop" /\ w.target = s  BY <1>0, IdleRequest DEF K!Work, K!Phase, K!Target
  <2>2. Turns(t, w)  BY <1>1, StartFacts
  <2>. HIDE DEF w
  <2>. QED  BY <2>1, <2>2
<1>3. work[t].target = None /\ work[t].at = "idle"  BY <1>1 DEF K!Start, K!Idle
<1>a. work'[t] = w /\ \A u \in Thread \ {t} : work'[u] = work[u]  BY <1>2, TurnFacts
<1>5. K!StoresTypeOK'  BY <1>0, <1>1, <1>2, TurnFacts DEF K!DeleteSource, K!StoresTypeOK
<1>6. Fits(w)  BY <1>0, <1>2 DEF KnowledgeNames, Fits, OfSaving, OfEmbedding, OfIndexing, OfDeleting
<1>7. Working'  BY <1>2, <1>6, WorkingGoesOn DEF K!DeleteSource, OfSaving
<1>8. Counted'  BY <1>2, CountedGoesOn DEF K!DeleteSource
<1>9. \A r \in Source \ {s} : Spared(r)  BY DEF K!DeleteSource, Spared
<1>10. \A r \in Source \ (hurt' \cup {s}) : SoundSource(r)'
  BY <1>1, <1>2, <1>3, <1>9, OthersStaySound
<1>11. ASSUME s \notin hurt' PROVE SoundSource(s)'
  <2>1. SoundSource(s)  BY <1>0, <1>1, <1>11
  <2>2. \A u \in Thread : ~Indexes(u, s)
    <3>1. ~K!Indexing(s)  BY <1>1, <1>11
    <3>. QED  BY <3>1 DEF K!Indexing, Indexes, OfIndexing, OfEmbedding
  <2>4. \A u \in Thread : ~Indexes(u, s)' /\ ~Saves(u, s)' /\ ~Saves(u, s)
    <3>1. \A u \in Thread : ~Saves(u, s)  BY <1>0 DEF Working, Fits, Saves
    <3>. QED  BY <1>2, <1>a, <2>2, <3>1 DEF Indexes, Saves, OfIndexing, OfEmbedding, OfSaving
  <2>5. \A u \in Thread : /\ ~Is(u, s, "count")' /\ ~Is(u, s, "insert")' /\ ~Is(u, s, "meta")'
                          /\ ~Is(u, s, "meta") /\ ~Is(u, s, "update")'
    BY <2>4 DEF Is, Saves, Indexes, OfSaving, OfIndexing
  <2>6. \A u \in Thread : Is(u, s, "remove")' = Is(u, s, "remove") /\ Is(u, s, "unlist")' = Is(u, s, "unlist")
    BY <1>2, <1>3, <1>a DEF Is
  <2>7. Removing(s)' = Removing(s) /\ Dropped(s)' = Dropped(s)  BY <2>6 DEF Removing, Dropped, K!DeleteSource
  <2>8. Saved(s)'
    <3>1. Unknown(s)'  BY <1>1 DEF Unknown, K!DeleteSource
    <3>2. Copied(s)'  BY <2>5 DEF Copied
    <3>3. Carded(s)'  BY <2>1, <2>5 DEF Carded, SoundSource, Saved, K!DeleteSource
    <3>4. KeptWhole(s)'  BY <2>1, <2>7 DEF KeptWhole, SoundSource, Saved, K!DeleteSource
    <3>. QED  BY <3>1, <3>2, <3>3, <3>4 DEF Saved
  <2>9. Deleted(s)'
    BY <2>1, <2>4, <2>7 DEF Deleted, SoundSource, Uncarded, Dissolved, Apart, Gone, K!DeleteSource
  <2>10. Embedded(s)'
    BY <2>1, <2>4, <2>5, <2>7 DEF Embedded, SoundSource, Written, StoredBatches, Merged, Whole, HasVectors, Holds, K!DeleteSource
  <2>. QED  BY <2>8, <2>9, <2>10 DEF SoundSource
<1>12. \A r \in Source \ hurt' : SoundSource(r)'  BY <1>10, <1>11
<1>. QED  BY <1>5, <1>7, <1>8, <1>12, Collects

\* What a deleting thread brings to a step.
LEMMA DeleterFacts ==
  ASSUME KnowledgeInv, NEW t \in Thread, work[t].at \in OfDeleting, NEW x, x = work[t].target
  PROVE  /\ work[t] \in K!Work /\ Fits(work[t]) /\ x \in Source /\ x \in known /\ Deletes(t, x)
         /\ \A u \in Thread : ~Saves(u, x)
         /\ x \notin hurt => SoundSource(x) /\ \A u \in Thread : ~Indexes(u, x)
<1>1. work[t] \in K!Work /\ Fits(work[t]) /\ x \in Source /\ x \in known /\ Deletes(t, x)
  BY DEF KnowledgeInv, K!StoresTypeOK, Working, Fits, Deletes
<1>2. \A u \in Thread : ~Saves(u, x)  BY <1>1 DEF KnowledgeInv, Working, Fits, Saves
<1>3. x \notin hurt => SoundSource(x)  BY <1>1 DEF KnowledgeInv
<1>4. x \notin hurt => \A u \in Thread : ~Indexes(u, x)  BY <1>1, <1>3 DEF SoundSource, Deleted, Apart
<1>. QED  BY <1>1, <1>2, <1>3, <1>4

\* Where a thread that deletes goes next.
LEMMA DeleterMoves ==
  ASSUME KnowledgeNames, KnowledgeInv, NEW t \in Thread, work[t].at \in OfDeleting, NEW a \in OfDeleting, K!Answer(t) \/ K!Go(t, a)
  PROVE  \E w \in K!Work : /\ Turns(t, w) /\ Fits(w)
                         /\ \/ K!Answer(t) /\ w = K!Idle
                            \/ K!Go(t, a) /\ w.at = a /\ w.target = work[t].target
<1>1. CASE K!Answer(t)  BY <1>1, AnswerFacts, IdleRequest
<1>2. CASE K!Go(t, a)
  <2>1. a \in K!Phase  BY DEF OfDeleting, K!Phase
  <2>2. PICK w \in K!Work : Turns(t, w) /\ w.at = a /\ w.target = work[t].target
    BY <1>2, <2>1, GoFacts DEF KnowledgeInv
  <2>3. Fits(w)
    <3>1. w.target \in Source /\ w.target \in known  BY <2>2, DeleterFacts
    <3>. QED  BY <2>2, <3>1 DEF KnowledgeNames, Fits, OfSaving, OfEmbedding, OfIndexing, OfDeleting
  <2>. QED  BY <1>2, <2>2, <2>3
<1>. QED  BY <1>1, <1>2

\* What becomes of the threads when one of them deletes.
LEMMA DeletersOnly ==
  ASSUME KnowledgeNames, KnowledgeInv, NEW t \in Thread, NEW x, x = work[t].target, work[t].at \in OfDeleting, x \notin hurt,
         NEW w \in K!Work, Turns(t, w), w = K!Idle \/ (w.target = x /\ w.at \in OfDeleting)
  PROVE  /\ \A u \in Thread : ~Saves(u, x)' /\ ~Indexes(u, x)'
         /\ \A u \in Thread : /\ ~Is(u, x, "count")' /\ ~Is(u, x, "insert")' /\ ~Is(u, x, "meta")'
                              /\ ~Is(u, x, "meta") /\ ~Is(u, x, "update")'
<1>1. work'[t] = w /\ \A u \in Thread \ {t} : work'[u] = work[u]  BY TurnFacts DEF KnowledgeInv
<1>2. \A u \in Thread : ~Saves(u, x) /\ ~Indexes(u, x)  BY DeleterFacts
<1>3. x # None /\ K!Idle.target = None  BY DeleterFacts DEF KnowledgeNames, K!Idle
<1>4. \A u \in Thread : ~Saves(u, x)' /\ ~Indexes(u, x)'
  BY <1>1, <1>2, <1>3 DEF Saves, Indexes, OfSaving, OfIndexing, OfEmbedding, OfDeleting
<1>5. \A u \in Thread : /\ ~Is(u, x, "count")' /\ ~Is(u, x, "insert")' /\ ~Is(u, x, "meta")'
                        /\ ~Is(u, x, "meta") /\ ~Is(u, x, "update")'
  BY <1>2, <1>4 DEF Is, Saves, Indexes, OfSaving, OfIndexing
<1>. QED  BY <1>4, <1>5

\* All that a step of a deleting thread owes.
LEMMA DeletingKeeps ==
  ASSUME KnowledgeNames, KnowledgeInv, K!StoresTypeOK', NEW t \in Thread, NEW x, x = work[t].target, work[t].at \in OfDeleting,
         NEW w \in K!Work, Turns(t, w), Fits(w), w = K!Idle \/ (w.target = x /\ w.at \in OfDeleting),
         dir' \in {dir, dir \ {x}}, known' = known, hurt \subseteq hurt', K!Listed' \subseteq K!Listed,
         \A s \in Source \ {x} : Spared(s),
         x \notin hurt' => SoundSource(x)'
  PROVE  KnowledgeInv'
<1>. USE DEF KnowledgeInv
<1>0. x \in Source /\ x \in known  BY DeleterFacts
<1>1. w.at \notin OfSaving /\ w.target \in {x, None} /\ w.at # "insert"  BY DEF K!Idle, OfSaving, OfDeleting
<1>2. Working'
  <2>1. Fits(w)'  BY <1>1 DEF Fits
  <2>2. ASSUME NEW u \in Thread \ {t} PROVE Fits(work[u])'
    <3>1. Fits(work[u]) /\ work'[u] = work[u]  BY TurnFacts DEF Working
    <3>. QED  BY <1>0, <3>1 DEF Fits
  <2>. QED  BY <1>1, <2>1, <2>2, WorkingStays
<1>3. Counted'
  <2>1. Inserting' \subseteq Inserting  BY <1>1, TurnFacts DEF Inserting
  <2>. QED  BY <2>1, CountedStays
<1>4. \A s \in Source \ (hurt' \cup {x}) : SoundSource(s)'
  BY <1>1, OthersStaySound
<1>5. \A s \in Source \ hurt' : SoundSource(s)'  BY <1>4
<1>. QED  BY <1>2, <1>3, <1>5, Collects

\* The collection of a source is dropped; a file that stays hurts the source.
LEMMA DropKeeps ==
  ASSUME KnowledgeNames, KnowledgeInv, NEW t \in Thread, K!Drop(t)
  PROVE  KnowledgeInv'
<1>. USE DEF KnowledgeInv
<1>a. PICK x : x = work[t].target  OBVIOUS
<1>0. work[t].at = "drop" /\ work[t].at \in OfDeleting  BY DEF K!Drop, OfDeleting
<1>1. x \in Source /\ x \in known /\ x \in K!Collection  BY <1>a, <1>0, DeleterFacts DEF K!Collection
<1>2. PICK w \in K!Work : Turns(t, w) /\ Fits(w) /\ w.at = "unlist" /\ w.target = x
  <2>1. K!Go(t, "unlist") /\ ~K!Answer(t)
    <3>1. K!Go(t, "unlist")  BY DEF K!Drop
    <3>2. work'[t].at = "unlist"
      <4>1. "unlist" \in K!Phase  BY DEF K!Phase
      <4>2. PICK w \in K!Work : Turns(t, w) /\ w.at = "unlist"  BY <3>1, <4>1, GoFacts
      <4>. QED  BY <4>2, TurnFacts
    <3>3. K!Answer(t) => work'[t].at = "idle"  BY AnswerFacts, IdleRequest, TurnFacts
    <3>. QED  BY <3>1, <3>2, <3>3
  <2>2. "unlist" \in OfDeleting  BY DEF OfDeleting
  <2>3. "unlist" \in K!Phase  BY DEF K!Phase
  <2>4. PICK w \in K!Work : Turns(t, w) /\ w.at = "unlist" /\ w.target = work[t].target
    BY <2>1, <2>3, GoFacts
  <2>5. Fits(w)
    BY <1>a, <1>1, <2>4 DEF KnowledgeNames, Fits, OfSaving, OfEmbedding, OfIndexing, OfDeleting
  <2>. QED  BY <1>a, <2>4, <2>5
<1>b. work'[t] = w /\ \A u \in Thread \ {t} : work'[u] = work[u]  BY <1>2, TurnFacts
<1>3. /\ memory' = [memory EXCEPT ![x] = None] /\ hurt' \in {hurt, hurt \cup {x}}
      /\ disk' \in {disk, [disk EXCEPT ![x] = None]}
      /\ x \notin hurt' => (memory[x] = None /\ disk' = disk) \/ disk' = [disk EXCEPT ![x] = None]
  BY <1>a DEF K!Drop, K!Unlinked
<1>4. K!StoresTypeOK'  BY <1>1, <1>2, <1>3, TurnFacts DEF K!Drop, K!StoresTypeOK
<1>5. \A s \in Source \ {x} : Spared(s)  BY <1>3 DEF K!Drop, Spared, K!StoresTypeOK, K!Collection
<1>6. w = K!Idle \/ (w.target = x /\ w.at \in OfDeleting)  BY <1>2 DEF OfDeleting
<1>7. ASSUME x \notin hurt' PROVE SoundSource(x)'
  <2>0. x \notin hurt  BY <1>3, <1>7
  <2>1. SoundSource(x)  BY <1>1, <2>0
  <2>2. /\ \A u \in Thread : ~Saves(u, x)' /\ ~Indexes(u, x)'
        /\ \A u \in Thread : /\ ~Is(u, x, "count")' /\ ~Is(u, x, "insert")' /\ ~Is(u, x, "meta")'
                             /\ ~Is(u, x, "meta") /\ ~Is(u, x, "update")'
    BY <1>a, <1>0, <1>2, <1>6, <2>0, DeletersOnly
  <2>3. Removing(x)' = Removing(x) /\ Dropped(x)'
    BY <1>0, <1>2, <1>b DEF Removing, Dropped, Is
  <2>4. memory'[x] = None /\ disk'[x] = None
    <3>1. memory[x] = None => disk[x] = None  BY <2>1 DEF SoundSource, Embedded, Written
    <3>. QED  BY <1>1, <1>3, <1>7, <3>1 DEF K!StoresTypeOK
  <2>5. Saved(x)'
    <3>1. Unknown(x)'  BY <1>1 DEF Unknown, K!Drop
    <3>2. Copied(x)'  BY <2>2 DEF Copied
    <3>3. Carded(x)'  BY <2>1, <2>2 DEF Carded, SoundSource, Saved, K!Drop
    <3>4. KeptWhole(x)'  BY <2>1, <2>3 DEF KeptWhole, SoundSource, Saved, K!Drop
    <3>. QED  BY <3>1, <3>2, <3>3, <3>4 DEF Saved
  <2>6. Deleted(x)'
    BY <2>1, <2>2, <2>3, <2>4 DEF Deleted, SoundSource, Uncarded, Dissolved, Apart, Gone, K!Drop
  <2>7. Embedded(x)'
    BY <2>2, <2>3, <2>4 DEF Embedded, Written, StoredBatches, Merged, Whole
  <2>. QED  BY <2>5, <2>6, <2>7 DEF SoundSource
<1>8. K!Listed' \subseteq K!Listed /\ hurt \subseteq hurt'  BY <1>3 DEF K!Listed, K!Drop
<1>. QED  BY <1>a, <1>0, <1>2, <1>4, <1>5, <1>6, <1>7, <1>8, DeletingKeeps DEF K!Drop

\* The card of a source leaves the index; one passed over hurts the source.
LEMMA UnlistKeeps ==
  ASSUME KnowledgeNames, KnowledgeInv, NEW t \in Thread, K!Unlist(t)
  PROVE  KnowledgeInv'
<1>. USE DEF KnowledgeInv
<1>a. PICK x : x = work[t].target  OBVIOUS
<1>0. work[t].at = "unlist" /\ work[t].at \in OfDeleting  BY DEF K!Unlist, OfDeleting
<1>1. x \in Source /\ x \in known /\ x \in K!Collection /\ x # None
  BY <1>a, <1>0, DeleterFacts DEF K!Collection, KnowledgeNames
<1>2. \/ x \notin dir /\ K!Answer(t) /\ UNCHANGED <<docs, hurt>>
      \/ x \in dir /\ K!Go(t, "remove") /\ docs' = K!CardTaken(x) /\ hurt' = hurt
      \/ x \in dir /\ K!Go(t, "remove") /\ docs' = docs /\ hurt' = hurt \cup {x}
  BY <1>a DEF K!Unlist
<1>3. PICK w \in K!Work :
        /\ Turns(t, w) /\ Fits(w)
        /\ \/ w = K!Idle /\ x \notin dir /\ docs' = docs
           \/ w.at = "remove" /\ w.target = x
  <2>1. "remove" \in OfDeleting /\ "remove" \in K!Phase  BY DEF OfDeleting, K!Phase
  <2>2. PICK w \in K!Work : /\ Turns(t, w) /\ Fits(w)
                          /\ \/ K!Answer(t) /\ w = K!Idle
                             \/ K!Go(t, "remove") /\ w.at = "remove" /\ w.target = work[t].target
    BY <1>0, <1>2, <2>1, DeleterMoves
  <2>3. CASE w = K!Idle
    <3>1. ~K!Go(t, "remove")
      <4>1. ASSUME K!Go(t, "remove") PROVE work'[t].at = "remove"
        <5>1. PICK v \in K!Work : Turns(t, v) /\ v.at = "remove"  BY <2>1, <4>1, GoFacts
        <5>. QED  BY <5>1, TurnFacts
      <4>. QED  BY <2>2, <2>3, <4>1, TurnFacts, IdleRequest
    <3>. QED  BY <1>2, <2>2, <2>3, <3>1
  <2>4. CASE w # K!Idle
    <3>1. w.at = "remove" /\ w.target = x  BY <1>a, <2>2, <2>4
    <3>. QED  BY <2>2, <3>1
  <2>. QED  BY <2>3, <2>4
<1>b. work'[t] = w /\ \A u \in Thread \ {t} : work'[u] = work[u]  BY <1>3, TurnFacts
<1>4. docs' = docs \/ (meta[x] # None /\ docs' = K!Without(meta[x].card))
  BY <1>2 DEF K!CardTaken
<1>5. /\ docs' \in [Doc -> {"new", "upload", "deleted"} \cup Source] /\ K!Listed' \subseteq K!Listed
      /\ \A d \in Doc, s \in Source : docs'[d] = s => docs[d] = s
  BY <1>4, Taken DEF K!StoresTypeOK, K!Listed
<1>6. hurt \subseteq hurt' /\ hurt' \in {hurt, hurt \cup {x}}  BY <1>2
<1>7. K!StoresTypeOK'  BY <1>1, <1>3, <1>5, <1>6, TurnFacts DEF K!Unlist, K!StoresTypeOK
<1>8. \A s \in Source \ {x} : Spared(s)  BY <1>5 DEF K!Unlist, Spared
<1>9. w = K!Idle \/ (w.target = x /\ w.at \in OfDeleting)  BY <1>3 DEF OfDeleting
<1>10. ASSUME x \notin hurt' PROVE SoundSource(x)'
  <2>0. x \notin hurt  BY <1>6, <1>10
  <2>1. SoundSource(x)  BY <1>1, <2>0
  <2>2. /\ \A u \in Thread : ~Saves(u, x)' /\ ~Indexes(u, x)'
        /\ \A u \in Thread : /\ ~Is(u, x, "count")' /\ ~Is(u, x, "insert")' /\ ~Is(u, x, "meta")'
                             /\ ~Is(u, x, "meta") /\ ~Is(u, x, "update")'
    BY <1>a, <1>0, <1>3, <1>9, <2>0, DeletersOnly
  <2>3. w = K!Idle => x \in gone  BY <1>1, <1>3, <2>1 DEF SoundSource, Saved, KeptWhole, K!Idle
  <2>4. Removing(x) => Removing(x)'
    <3>1. \A u \in Thread : Is(u, x, "remove") => Is(u, x, "remove")'  BY <1>0, <1>b DEF Is
    <3>. QED  BY <3>1 DEF Removing
  <2>5. (w # K!Idle => Removing(x)') /\ Dropped(x) /\ Dropped(x)'
    <3>1. Dropped(x)  BY <1>a, <1>0 DEF Dropped, Is
    <3>2. w # K!Idle => Is(t, x, "remove")'  BY <1>3, <1>b DEF Is
    <3>3. w = K!Idle => x \in gone'  BY <2>3 DEF K!Unlist
    <3>. QED  BY <3>1, <3>2, <3>3 DEF Removing, Dropped
  <2>6. \A d \in Doc : docs[d] = x => meta[x] # None /\ meta[x].card = d
    BY <2>1, <2>2 DEF SoundSource, Saved, Carded
  <2>7. Saved(x)'
    <3>1. Unknown(x)'  BY <1>1 DEF Unknown, K!Unlist
    <3>2. Copied(x)'  BY <2>2 DEF Copied
    <3>3. Carded(x)'  BY <1>1, <1>5, <2>6 DEF Carded, K!Unlist
    <3>4. KeptWhole(x)'  BY <2>1, <2>3, <2>4, <2>5 DEF KeptWhole, SoundSource, Saved, K!Unlist
    <3>. QED  BY <3>1, <3>2, <3>3, <3>4 DEF Saved
  <2>8. Uncarded(x)'
    <3>1. CASE w = K!Idle
      <4>1. \A d \in Doc : docs[d] # x  BY <2>1, <2>3, <3>1 DEF SoundSource, Deleted, Uncarded
      <4>. QED  BY <1>1, <1>5, <4>1 DEF Uncarded
    <3>2. CASE w # K!Idle
      <4>1. docs' = K!CardTaken(x)
        <5>1. ~K!Answer(t)  BY <1>b, <3>2, AnswerFacts, IdleRequest, TurnFacts
        <5>. QED  BY <1>1, <1>2, <1>10, <5>1
      <4>2. ASSUME NEW d \in Doc, docs'[d] = x PROVE FALSE
        <5>1. docs[d] = x  BY <1>1, <1>5, <4>2
        <5>2. meta[x] # None /\ meta[x].card = d /\ d # None  BY <2>6, <5>1 DEF KnowledgeNames
        <5>3. docs' = K!Without(d)  BY <4>1, <5>2 DEF K!CardTaken
        <5>. QED  BY <1>1, <4>2, <5>3, Taken
      <4>. QED  BY <4>2 DEF Uncarded
    <3>. QED  BY <3>1, <3>2
  <2>9. Deleted(x)'
    <3>1. memory[x] = None /\ disk[x] = None  BY <2>1, <2>5 DEF SoundSource, Deleted, Dissolved
    <3>. QED  BY <2>1, <2>2, <2>8, <3>1 DEF Deleted, SoundSource, Dissolved, Apart, Gone, K!Unlist
  <2>10. Embedded(x)'
    <3>1. memory[x] = None /\ disk[x] = None  BY <2>1, <2>5 DEF SoundSource, Deleted, Dissolved
    <3>. QED  BY <2>2, <2>5, <3>1 DEF Embedded, Written, StoredBatches, Merged, Whole, K!Unlist
  <2>. QED  BY <2>7, <2>9, <2>10 DEF SoundSource
<1>. QED  BY <1>a, <1>0, <1>3, <1>5, <1>6, <1>7, <1>8, <1>9, <1>10, DeletingKeeps DEF K!Unlist

\* The directory of a source is removed file by file.
LEMMA RemoveKeeps ==
  ASSUME KnowledgeNames, KnowledgeInv, NEW t \in Thread, K!Remove(t)
  PROVE  KnowledgeInv'
<1>. USE DEF KnowledgeInv
<1>a. PICK x : x = work[t].target  OBVIOUS
<1>0. work[t].at = "remove" /\ work[t].at \in OfDeleting  BY DEF K!Remove, OfDeleting
<1>1. x \in Source /\ x \in known /\ x \in K!Collection /\ x # None /\ work[t] \in K!Work /\ Fits(work[t])
  BY <1>a, <1>0, DeleterFacts DEF K!Collection, KnowledgeNames
<1>2. /\ UNCHANGED <<topic, docs, known, memory, disk>>
      /\ \/ /\ db' = db \ {x} /\ UNCHANGED <<dir, meta, gone, hurt, work>>
         \/ /\ meta' = [meta EXCEPT ![x] = None] /\ UNCHANGED <<dir, db, gone, hurt, work>>
         \/ /\ x \notin db /\ meta[x] = None
            /\ dir' = dir \ {x} /\ gone' = gone \cup {x} /\ K!Answer(t)
            /\ UNCHANGED <<db, meta, hurt>>
         \/ /\ hurt' = hurt \cup {x} /\ gone' = gone \cup {x} /\ K!Answer(t)
            /\ UNCHANGED <<dir, db, meta>>
  BY <1>a DEF K!Remove
<1>3. PICK w \in K!Work : /\ Turns(t, w) /\ Fits(w)
                        /\ \/ w = K!Idle /\ gone' = gone \cup {x}
                           \/ w = work[t] /\ gone' = gone /\ dir' = dir /\ hurt' = hurt
  <2>1. CASE UNCHANGED <<work, gone, dir, hurt>>
    <3>1. Turns(t, work[t])  BY <2>1 DEF Turns, K!StoresTypeOK
    <3>. QED  BY <1>1, <2>1, <3>1
  <2>2. CASE K!Answer(t) /\ gone' = gone \cup {x}  BY <2>2, AnswerFacts, IdleRequest
  <2>. QED  BY <1>2, <2>1, <2>2
<1>b. work'[t] = w /\ \A u \in Thread \ {t} : work'[u] = work[u]  BY <1>3, TurnFacts
<1>4. /\ hurt \subseteq hurt' /\ hurt' \in {hurt, hurt \cup {x}} /\ dir' \in {dir, dir \ {x}}
      /\ db' \in {db, db \ {x}} /\ meta' \in {meta, [meta EXCEPT ![x] = None]}
      /\ gone' \in {gone, gone \cup {x}} /\ (dir' # dir => x \notin db')
  BY <1>2
<1>5. K!StoresTypeOK'
  <2>1. work' \in [Thread -> K!Work]  BY <1>3, TurnFacts
  <2>. QED  BY <1>1, <1>2, <1>4, <2>1 DEF K!StoresTypeOK
<1>6. \A s \in Source \ {x} : Spared(s)  BY <1>2, <1>4 DEF Spared, K!StoresTypeOK
<1>7. w = K!Idle \/ (w.target = x /\ w.at \in OfDeleting)  BY <1>a, <1>0, <1>3 DEF OfDeleting
<1>8. ASSUME x \notin hurt' PROVE SoundSource(x)'
  <2>0. x \notin hurt  BY <1>4, <1>8
  <2>1. SoundSource(x)  BY <1>1, <2>0
  <2>2. /\ \A u \in Thread : ~Saves(u, x)' /\ ~Indexes(u, x)'
        /\ \A u \in Thread : /\ ~Is(u, x, "count")' /\ ~Is(u, x, "insert")' /\ ~Is(u, x, "meta")'
                             /\ ~Is(u, x, "meta") /\ ~Is(u, x, "update")'
    BY <1>a, <1>0, <1>3, <1>7, <2>0, DeletersOnly
  <2>3. Removing(x) /\ Dropped(x)  BY <1>a, <1>0 DEF Removing, Dropped, Is
  <2>4. (x \in gone' \/ Removing(x)') /\ Dropped(x)'
    <3>1. w # K!Idle => Is(t, x, "remove")'  BY <1>a, <1>0, <1>3, <1>b DEF Is
    <3>2. w = K!Idle => x \in gone'  BY <1>0, <1>3 DEF K!Idle
    <3>. QED  BY <3>1, <3>2 DEF Removing, Dropped
  <2>5. memory[x] = None /\ disk[x] = None /\ \A d \in Doc : docs[d] # x
    BY <2>1, <2>3 DEF SoundSource, Deleted, Dissolved, Uncarded
  <2>6. x \in gone' => x \notin dir' /\ meta'[x] = None
    <3>1. CASE x \in gone
      <4>1. x \notin dir /\ meta[x] = None  BY <2>1, <3>1 DEF SoundSource, Deleted, Gone
      <4>. QED  BY <1>1, <1>4, <4>1 DEF K!StoresTypeOK
    <3>2. CASE x \notin gone
      <4>1. ASSUME x \in gone' PROVE meta[x] = None /\ dir' = dir \ {x} /\ meta' = meta
        BY <1>2, <1>8, <3>2, <4>1
      <4>. QED  BY <4>1
    <3>. QED  BY <3>1, <3>2
  <2>7. Saved(x)'
    <3>1. Unknown(x)'  BY <1>1, <1>2 DEF Unknown
    <3>2. Copied(x)'  BY <2>2 DEF Copied
    <3>3. Carded(x)'  BY <1>2, <2>5 DEF Carded
    <3>4. KeptWhole(x)'
      <4>1. ASSUME x \notin gone' PROVE x \in dir'
        <5>1. x \notin gone /\ dir' = dir  BY <1>3, <1>4, <4>1
        <5>. QED  BY <1>1, <2>1, <5>1 DEF SoundSource, Saved, KeptWhole
      <4>. QED  BY <2>4, <4>1 DEF KeptWhole
    <3>. QED  BY <3>1, <3>2, <3>3, <3>4 DEF Saved
  <2>8. Deleted(x)'
    BY <1>2, <2>2, <2>5, <2>6 DEF Deleted, Uncarded, Dissolved, Apart, Gone
  <2>9. Embedded(x)'
    BY <1>2, <2>2, <2>4, <2>5 DEF Embedded, Written, StoredBatches, Merged, Whole
  <2>. QED  BY <2>7, <2>8, <2>9 DEF SoundSource
<1>9. K!Listed' \subseteq K!Listed  BY <1>2 DEF K!Listed
<1>. QED  BY <1>a, <1>0, <1>2, <1>3, <1>4, <1>5, <1>6, <1>7, <1>8, <1>9, DeletingKeeps

-----------------------------------------------------------------------------
(* Restarts, and the theorems.                                             *)

\* The program ends and starts again: threads and memory are lost, the files
\* are read, and sources that were being saved or deleted are hurt.
LEMMA RestartKeeps ==
  ASSUME KnowledgeNames, KnowledgeInv, K!Restart
  PROVE  KnowledgeInv'
<1>. USE DEF KnowledgeInv
<1>1. \A u \in Thread : work'[u] = K!Idle  BY DEF K!Restart
<1>2. K!StoresTypeOK'  BY IdleRequest DEF K!Restart, K!StoresTypeOK
<1>3. Working'
  <2>1. \A u \in Thread : Fits(work[u])'
    BY <1>1 DEF Fits, K!Idle, KnowledgeNames, OfSaving, OfEmbedding, OfIndexing, OfDeleting
  <2>2. SaversApart'  BY <1>1 DEF SaversApart, Saves, K!Idle, OfSaving
  <2>. QED  BY <2>1, <2>2 DEF Working
<1>4. Counted'
  <2>1. K!Listed' = K!Listed  BY DEF K!Restart, K!Listed
  <2>2. Inserting' = {}  BY <1>1 DEF Inserting, K!Idle
  <2>. QED  BY <2>1, <2>2, CountedStays
<1>5. ASSUME NEW s \in Source \ hurt' PROVE SoundSource(s)'
  <2>1. SoundSource(s) /\ ~K!Deleting(s) /\ ~K!Saving(s)  BY DEF K!Restart
  <2>2. \A u \in Thread : ~Deletes(u, s) /\ ~Saves(u, s)
    BY <2>1 DEF K!Deleting, K!Saving, Deletes, Saves, OfDeleting, OfSaving
  <2>3. \A u \in Thread : /\ ~Is(u, s, "unlist") /\ ~Is(u, s, "remove") /\ ~Is(u, s, "meta")
    BY <2>2 DEF Is, Deletes, Saves, OfDeleting, OfSaving
  <2>4. s # None  BY DEF KnowledgeNames
  <2>5. \A u \in Thread : /\ ~Deletes(u, s)' /\ ~Saves(u, s)' /\ ~Indexes(u, s)'
                          /\ \A at \in K!Phase : ~Is(u, s, at)'
    BY <1>1, <2>4 DEF Deletes, Saves, Indexes, Is, K!Idle
  <2>6. {"count", "insert", "meta", "unlist", "remove", "update"} \subseteq K!Phase  BY DEF K!Phase
  <2>7. memory' = disk /\ UNCHANGED <<docs, dir, db, meta, known, gone, disk>> /\ s \in K!Collection
    BY DEF K!Restart, K!Collection
  <2>8. ~Removing(s) /\ ~Removing(s)' /\ (Dropped(s) = (s \in gone)) /\ (Dropped(s)' = (s \in gone'))
    BY <2>3, <2>5, <2>6 DEF Removing, Dropped
  <2>9. Saved(s)'
    <3>1. Unknown(s)'  BY <2>1, <2>2, <2>7 DEF Unknown, SoundSource, Saved
    <3>2. Copied(s)'  BY <2>5, <2>6 DEF Copied
    <3>3. Carded(s)'  BY <2>1, <2>3, <2>7 DEF Carded, SoundSource, Saved
    <3>4. KeptWhole(s)'  BY <2>1, <2>7, <2>8 DEF KeptWhole, SoundSource, Saved
    <3>. QED  BY <3>1, <3>2, <3>3, <3>4 DEF Saved
  <2>10. Deleted(s)'
    BY <2>1, <2>5, <2>7, <2>8 DEF Deleted, SoundSource, Uncarded, Dissolved, Apart, Gone
  <2>11. Embedded(s)'
    <3>1. Written(s)'  BY <2>7 DEF Written
    <3>2. StoredBatches(s)' /\ Merged(s)'  BY <2>5, <2>6 DEF StoredBatches, Merged
    <3>3. Whole(s)'  BY <2>1, <2>7, <2>8 DEF Whole, SoundSource, Embedded, HasVectors, Holds
    <3>. QED  BY <3>1, <3>2, <3>3 DEF Embedded
  <2>. QED  BY <2>9, <2>10, <2>11 DEF SoundSource
<1>. QED  BY <1>2, <1>3, <1>4, <1>5, Collects

\* A step in which nothing happens.
LEMMA NothingKeeps ==
  ASSUME KnowledgeInv, UNCHANGED K!vars
  PROVE  KnowledgeInv'
<1>. USE DEF KnowledgeInv, K!vars
<1>1. K!StoresTypeOK'  BY DEF K!StoresTypeOK
<1>2. Working'  BY DEF Working, Fits, SaversApart, Saves
<1>3. Counted'  BY DEF Counted, K!Listed, Inserting
<1>4. ASSUME NEW s \in Source \ hurt' PROVE SoundSource(s)'
  <2>1. Spared(s) /\ \A u \in Thread : Elsewhere(u, s)  BY DEF Spared, Elsewhere
  <2>. QED  BY <2>1, SparedStaysSound
<1>. QED  BY <1>1, <1>2, <1>3, <1>4, Collects

\* The invariant holds at every step of every behaviour.
LEMMA KnowledgeInvAlways ==
  ASSUME KnowledgeNames
  PROVE  K!Spec => []KnowledgeInv
<1>1. K!Init => KnowledgeInv  BY InitKnowledgeInv
<1>2. KnowledgeInv /\ [K!Next]_K!vars => KnowledgeInv'
  <2>. SUFFICES ASSUME KnowledgeInv, [K!Next]_K!vars PROVE KnowledgeInv'  OBVIOUS
  <2>1. CASE UNCHANGED K!vars  BY <2>1, NothingKeeps
  <2>2. CASE K!Restart  BY <2>2, RestartKeeps
  <2>3. ASSUME NEW t \in Thread,
          \/ K!AddDocument(t) \/ K!Count(t) \/ K!Insert(t) \/ K!DeleteDocument(t)
          \/ K!SaveSource(t) \/ K!Copy(t) \/ K!WriteMeta(t)
          \/ K!IndexSource(t) \/ K!IndexDocument(t) \/ K!Embed(t) \/ K!Ensure(t)
          \/ K!Create(t) \/ K!Upsert(t) \/ K!ReadMeta(t) \/ K!UpdateMeta(t)
          \/ K!DeleteSource(t) \/ K!Drop(t) \/ K!Unlist(t) \/ K!Remove(t)
        PROVE  KnowledgeInv'
    BY <2>3, AddDocumentKeeps, CountKeeps, InsertKeeps, DeleteDocumentKeeps, SaveSourceKeeps, CopyKeeps,
       WriteMetaKeeps, IndexSourceKeeps, IndexDocumentKeeps, EmbedKeeps, EnsureKeeps, CreateKeeps,
       UpsertKeeps, ReadMetaKeeps, UpdateMetaKeeps, DeleteSourceKeeps, DropKeeps, UnlistKeeps, RemoveKeeps
  <2>. QED  BY <2>1, <2>2, <2>3 DEF K!Next
<1>. QED  BY <1>1, <1>2, PTL DEF K!Spec

\* What is assumed of the constants is what the proof needs.
LEMMA KnowledgeNamesHold == KnowledgeNames
BY SomeBatch, SomeDocument, FewThreads, NoneOfThese, SourcesApart
   DEF KnowledgeNames, K!Meta, Meta, K!Vectors, Vectors, K!Target, Target, K!Batch, Batch, K!Documents, Documents

\* The index, the directories and the metadata files describe the same
\* sources, however the requests that write them one after the other overlap,
\* fail and are cut short; requests that count together pass the limit of the
\* index by less than there are of them (save_sqlite_source, add_document).
THEOREM IndexTheorem == K!Spec => []IndexIsSound
<1>1. KnowledgeInv => IndexIsSound
  <2>. SUFFICES ASSUME KnowledgeInv PROVE IndexIsSound  OBVIOUS
  <2>. USE DEF KnowledgeInv
  <2>1. ASSUME NEW s \in Source \ hurt, ~Saving(s), ~Deleting(s)
        PROVE  /\ meta[s] # None <=> s \in db
               /\ \A d \in Doc : docs[d] = s => meta[s] # None /\ meta[s].card = d
    <3>0. SoundSource(s)  OBVIOUS
    <3>1. \A u \in Thread : ~Saves(u, s) /\ ~Is(u, s, "remove") /\ ~Is(u, s, "meta")
      BY <2>1 DEF Saving, Deleting, Saves, Is, OfSaving
    <3>2. ~Removing(s)  BY <3>1 DEF Removing
    <3>3. CASE s \notin known  BY <3>0, <3>1, <3>3 DEF SoundSource, Saved, Unknown, Carded, K!StoresTypeOK
    <3>4. CASE s \in known /\ s \notin gone
      BY <3>0, <3>1, <3>2, <3>4 DEF SoundSource, Saved, KeptWhole, Carded
    <3>5. CASE s \in gone
      BY <3>0, <3>5 DEF SoundSource, Deleted, Gone, Uncarded, K!StoresTypeOK
    <3>. QED  BY <3>3, <3>4, <3>5
  <2>2. IndexStaysNearItsLimit
    <3>1. IsFiniteSet(Inserting)  BY FewThreads, FS_Subset DEF Inserting
    <3>2. Cardinality(Listed) \in Nat /\ Cardinality(Inserting) \in Nat /\ Cardinality(Thread) \in Nat /\ MaxDocuments \in Nat
      BY <3>1, FewThreads, SomeDocument, FS_CardinalityType DEF Counted, K!Listed, Listed
    <3>. QED  BY <3>2 DEF Counted, IndexStaysNearItsLimit, K!Listed, Listed
  <2>3. StoresTypeOK
    BY DEF K!StoresTypeOK, StoresTypeOK, K!Meta, Meta, K!Collection, Collection, K!Documents, Documents,
           K!Vectors, Vectors, K!Target, Target, K!Batch, Batch, K!Work, Work, K!Phase, Phase
  <2>. QED  BY <2>1, <2>2, <2>3 DEF IndexIsSound, SourcesAreWhole
<1>. QED  BY <1>1, KnowledgeNamesHold, KnowledgeInvAlways, PTL

\* A source whose metadata says it is indexed has a vector of every batch, in
\* memory and in its file, unless it is being deleted or was hurt: batches,
\* files, the update of the metadata and restarts in between change nothing
\* about it (index_sqlite_source_semantic).
THEOREM VectorsTheorem == K!Spec => []IndexedSourcesHaveTheirVectors
<1>1. KnowledgeInv => IndexedSourcesHaveTheirVectors
  <2>. SUFFICES ASSUME KnowledgeInv, NEW s \in Source \ hurt, ~Deleting(s), meta[s] # None, meta[s].indexed,
                       NEW c \in {memory[s], disk[s]}
                PROVE  c # None /\ {s} \X Batch \subseteq c.points
    BY DEF IndexedSourcesHaveTheirVectors
  <2>1. SoundSource(s)  BY DEF KnowledgeInv
  <2>2. \A u \in Thread : ~Is(u, s, "unlist") /\ ~Is(u, s, "remove")  BY DEF Deleting, Is
  <2>3. s \notin gone  BY <2>1 DEF SoundSource, Deleted, Gone
  <2>4. ~Dropped(s)  BY <2>2, <2>3 DEF Dropped
  <2>. QED  BY <2>1, <2>4 DEF SoundSource, Embedded, Whole, HasVectors, Holds, Batch
<1>. QED  BY <1>1, KnowledgeNamesHold, KnowledgeInvAlways, PTL

\* Of a source whose deletion was answered with success nothing is left and
\* nothing comes back - directory, collection, card - unless it was hurt
\* (delete_sqlite_source).
THEOREM DeletionTheorem == K!Spec => []DeletedSourcesAreGone
<1>1. KnowledgeInv => DeletedSourcesAreGone
  <2>. SUFFICES ASSUME KnowledgeInv, NEW s \in gone \ hurt
                PROVE  /\ s \notin dir /\ memory[s] = None /\ disk[s] = None
                       /\ \A d \in Doc : docs[d] # s
    BY DEF DeletedSourcesAreGone
  <2>1. SoundSource(s)  BY DEF KnowledgeInv, K!StoresTypeOK
  <2>. QED  BY <2>1 DEF SoundSource, Deleted, Gone, Dissolved, Uncarded, Dropped
<1>. QED  BY <1>1, KnowledgeNamesHold, KnowledgeInvAlways, PTL
=============================================================================
