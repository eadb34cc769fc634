------------------------ MODULE ModelSchedulerProofs ------------------------
(***************************************************************************)
(* Proofs about ModelScheduler, for every set of keys, runtimes, owners,   *)
(* threads and requests: first that variables keep their types, then the   *)
(* safety properties, then that it implements LeaseService: every step is  *)
(* a step of the service or changes nothing its users see.                 *)
(***************************************************************************)
EXTENDS ModelScheduler, FiniteSetTheorems, SequenceTheorems, TLAPS

\* What the request loop relies on: a request is there while acquire runs,
\* and it has an owner.
RequestOK ==
  op = "acquire" => todo # <<>> /\ tx.owner \in Owner

TypeInv == TypeOK /\ RequestOK

-----------------------------------------------------------------------------
(* Types.                                                                  *)

LEMMA SequenceTail ==
  ASSUME NEW S, NEW s \in Seq(S), s # <<>>
  PROVE  Head(s) \in S /\ Tail(s) \in Seq(S) /\ (Len(s) # 1 => Tail(s) # <<>>)
<1>1. Head(s) \in S /\ Tail(s) \in Seq(S) /\ Len(Tail(s)) = Len(s) - 1
  BY HeadTailProperties
<1>2. Len(s) \in Nat  BY LenProperties
<1>3. Len(s) # 1 => Len(Tail(s)) # 0  BY <1>1, <1>2
<1>. QED  BY <1>1, <1>3, EmptySeq

LEMMA LeaseFields ==
  ASSUME NEW l \in Lease PROVE l.key \in Key /\ l.owner \in Owner
BY DEF Lease

LEMMA TouchedType ==
  ASSUME TypeOK, NEW k \in Key
  PROVE  Touched(k) \in [Key -> Nat]
BY DEF TypeOK, Touched

LEMMA ForgottenType ==
  ASSUME TypeOK, NEW k \in Key
  PROVE  Forgotten(k) \in [Key -> Nat]
<1>1. age \in [Key -> Nat]  BY DEF TypeOK
<1>2. ASSUME NEW j \in Key, age[j] > age[k] PROVE age[j] - 1 \in Nat
  BY <1>1, <1>2
<1>. QED  BY <1>1, <1>2 DEF Forgotten

RecordsOK ==
  /\ state \in [Key -> {"absent", "idle", "busy", "failed"}]
  /\ pinned \in SUBSET Key
  /\ owned \in SUBSET Key
  /\ age \in [Key -> Nat]
  /\ live \in SUBSET Key

HolderOK ==
  /\ op \in {"idle", "acquire", "undo", "discard", "restore", "drop", "drain"}
  /\ todo \in Seq(Request)
  /\ tx \in Tx
  /\ cur \in Owner \cup {None}
  /\ visit \in SUBSET Owner
  /\ RequestOK

LEMMA TypeInvNext ==
  ASSUME RecordsOK', HolderOK', calls' \in [Key -> Int],
         leases' \in SUBSET Lease, deferred' \in SUBSET Owner,
         policy' \in {"lru", "never"}, inflight' \in SUBSET Call
  PROVE  TypeInv'
BY DEF TypeInv, TypeOK, RecordsOK, HolderOK

\* A step that leaves the call and policy variables alone.
LEMMA TypeInvFrame ==
  ASSUME TypeInv, RecordsOK', HolderOK', leases' \in SUBSET Lease,
         UNCHANGED <<calls, deferred, policy, inflight>>
  PROVE  TypeInv'
<1>1. /\ calls' \in [Key -> Int] /\ deferred' \in SUBSET Owner
      /\ policy' \in {"lru", "never"} /\ inflight' \in SUBSET Call
  BY DEF TypeInv, TypeOK
<1>. QED  BY <1>1, TypeInvNext

LEMMA RecordsFrame ==
  ASSUME TypeInv, UNCHANGED records PROVE RecordsOK'
BY DEF TypeInv, TypeOK, records, RecordsOK

LEMMA HolderFrame ==
  ASSUME TypeInv, UNCHANGED holder PROVE HolderOK'
BY DEF TypeInv, TypeOK, holder, HolderOK, RequestOK

LEMMA LeasesFrame ==
  ASSUME TypeInv, UNCHANGED leases PROVE leases' \in SUBSET Lease
BY DEF TypeInv, TypeOK

LEMMA UnloadTypes ==
  ASSUME TypeOK, NEW k \in Key, Unloaded(k) \/ UnloadRaised(k)
  PROVE  RecordsOK'
BY ForgottenType DEF TypeOK, RecordsOK, Unloaded, UnloadRaised

LEMMA LoadTypes ==
  ASSUME TypeOK, NEW k \in Key, NEW s \in {"idle", "busy"},
         NEW p \in BOOLEAN, NEW o \in BOOLEAN, Loaded(k, s, p, o)
  PROVE  RecordsOK'
BY TouchedType DEF TypeOK, RecordsOK, Loaded

LEMMA ReleaseTypes ==
  ASSUME TypeOK, NEW l \in Lease, NEW raised \in BOOLEAN,
         ReleaseLocked(l, raised)
  PROVE  RecordsOK' /\ leases' \in SUBSET Lease
<1>1. l.key \in Key  BY LeaseFields
<1>2. leases' \in SUBSET Lease  BY DEF TypeOK, ReleaseLocked
<1>3. \/ Unloaded(l.key)
      \/ UnloadRaised(l.key)
      \/ /\ state' = [state EXCEPT ![l.key] =
                       IF LeasesOn(l.key) = {l} THEN "idle" ELSE "busy"]
         /\ age' = Touched(l.key)
         /\ UNCHANGED <<pinned, owned, live>>
  BY DEF ReleaseLocked
<1>4. ASSUME /\ state' = [state EXCEPT ![l.key] =
                       IF LeasesOn(l.key) = {l} THEN "idle" ELSE "busy"]
             /\ age' = Touched(l.key)
             /\ UNCHANGED <<pinned, owned, live>>
      PROVE  RecordsOK'
  BY <1>1, <1>4, TouchedType DEF TypeOK, RecordsOK
<1>5. Unloaded(l.key) \/ UnloadRaised(l.key) => RecordsOK'
  BY <1>1, UnloadTypes
<1>. QED  BY <1>2, <1>3, <1>4, <1>5

LEMMA NoTxType == NoTx \in Tx
BY DEF NoTx, Tx

LEMMA TxErrors ==
  ASSUME NEW t \in Tx, NEW b \in BOOLEAN PROVE [t EXCEPT !.errors = b] \in Tx
BY DEF Tx

LEMMA TxGot ==
  ASSUME NEW t \in Tx, NEW g \in SUBSET Lease
  PROVE  [t EXCEPT !.got = g] \in Tx /\ [t EXCEPT !.got = g].owner = t.owner
BY DEF Tx

LEMMA TxFields ==
  ASSUME NEW t \in Tx
  PROVE  /\ t.batch \in BOOLEAN /\ t.got \in SUBSET Lease
         /\ t.errors \in BOOLEAN /\ t.resident \in SUBSET Key
         /\ t.owned \in SUBSET Key /\ t.discard \in SUBSET Key
BY DEF Tx

LEMMA UnlockTypes ==
  ASSUME Unlock PROVE HolderOK'
BY EmptySeq, NoTxType DEF Unlock, HolderOK, RequestOK

LEMMA RequestFailsTypes ==
  ASSUME TypeInv, RequestFails, op = "restore" => todo # <<>>
  PROVE  HolderOK'
<1>. USE DEF TypeInv, TypeOK
<1>1. CASE op = "acquire" /\ ~tx.batch
  <2>1. tx' \in Tx  BY <1>1, NoTxType DEF RequestFails
  <2>2. todo' \in Seq(Request)  BY <1>1, EmptySeq DEF RequestFails
  <2>. QED  BY <1>1, <2>1, <2>2 DEF RequestFails, HolderOK, RequestOK
<1>2. CASE op = "acquire" /\ tx.batch
  <2>1. op' = "undo" /\ todo' = <<>> /\ UNCHANGED <<tx, cur, visit>>
    BY <1>2 DEF RequestFails
  <2>2. todo' \in Seq(Request)  BY <2>1, EmptySeq
  <2>. QED  BY <2>1, <2>2 DEF HolderOK, RequestOK
<1>3. CASE op = "restore"
  <2>1. /\ todo' = Tail(todo) /\ tx' = [tx EXCEPT !.errors = TRUE]
        /\ UNCHANGED <<op, cur, visit>>
    BY <1>3 DEF RequestFails
  <2>2. todo' \in Seq(Request)
    <3>1. todo \in Seq(Request) /\ todo # <<>>  BY <1>3
    <3>. QED  BY <3>1, <2>1, SequenceTail
  <2>3. tx' \in Tx
    <3>1. tx \in Tx  OBVIOUS
    <3>. QED  BY <3>1, <2>1, TxErrors
  <2>. QED  BY <1>3, <2>1, <2>2, <2>3 DEF HolderOK, RequestOK
<1>. QED  BY <1>1, <1>2, <1>3 DEF RequestFails

LEMMA GrantedTypes ==
  ASSUME TypeInv, op = "acquire", NEW l \in Lease, Granted(l)
  PROVE  HolderOK' /\ leases' \in SUBSET Lease
<1>. USE DEF TypeInv, TypeOK
<1>1. leases' \in SUBSET Lease  BY DEF Granted
<1>2. CASE Len(todo) = 1
  BY <1>1, <1>2, UnlockTypes DEF Granted
<1>3. CASE Len(todo) # 1
  <2>1. todo \in Seq(Request) /\ todo # <<>> /\ tx.owner \in Owner
    BY DEF RequestOK
  <2>2. todo' \in Seq(Request) /\ todo' # <<>>
    <3>1. todo' = Tail(todo)  BY <1>3 DEF Granted
    <3>. QED  BY <1>3, <2>1, <3>1, SequenceTail
  <2>3. tx' \in Tx /\ tx'.owner = tx.owner
    <3>1. tx' = [tx EXCEPT !.got = tx.got \cup {l}]  BY <1>3 DEF Granted
    <3>2. tx \in Tx /\ tx.got \cup {l} \in SUBSET Lease
      <4>1. tx \in Tx  OBVIOUS
      <4>. QED  BY <4>1, TxFields
    <3>. QED  BY <3>1, <3>2, TxGot
  <2>4. UNCHANGED <<op, cur, visit>>  BY <1>3 DEF Granted
  <2>. QED  BY <1>1, <2>1, <2>2, <2>3, <2>4 DEF HolderOK, RequestOK
<1>. QED  BY <1>2, <1>3

LEMMA HeadTypes ==
  ASSUME TypeInv, todo # <<>>
  PROVE  /\ Head(todo) \in Request
         /\ Head(todo).key \in Key
         /\ Head(todo).pin \in BOOLEAN
         /\ Head(todo).orch \in BOOLEAN
<1>1. todo \in Seq(Request)  BY DEF TypeInv, TypeOK
<1>2. Head(todo) \in Request  BY <1>1, SequenceTail
<1>. QED  BY <1>2 DEF Request

LEMMA NewLease ==
  ASSUME NEW i \in LeaseId, NEW k \in Key, NEW o \in Owner
  PROVE  [id |-> i, key |-> k, owner |-> o] \in Lease
BY DEF Lease

LEMMA CallFields ==
  ASSUME NEW d \in Call
  PROVE  /\ d.caller \in Caller /\ d.kind \in {"invoke", "cancel"}
         /\ d.lease \in Lease /\ d.lease.key \in Key
BY DEF Call, Lease

LEMMA TxDiscard ==
  ASSUME NEW t \in Tx, NEW d \in SUBSET Key, NEW b \in BOOLEAN
  PROVE  [t EXCEPT !.discard = d] \in Tx /\ [t EXCEPT !.discard = d, !.errors = b] \in Tx
BY DEF Tx

LEMMA TxUndo ==
  ASSUME NEW t \in Tx, NEW g \in SUBSET Lease, NEW b \in BOOLEAN
  PROVE  /\ [t EXCEPT !.got = g, !.errors = b] \in Tx
         /\ [t EXCEPT !.got = g, !.errors = b].got = g
BY DEF Tx

\* Every order in which the rollback may restore the evicted residents is a
\* sequence of requests.
LEMMA RestoreTypes ==
  ASSUME TypeInv, NEW S \in SUBSET Key, NEW s \in Orderings(S)
  PROVE  [i \in DOMAIN s |-> RestoreRequest(s[i])] \in Seq(Request)
<1>1. IsFiniteSet(S)  BY FS_Subset, KeyAssumption
<1>2. Cardinality(S) \in Nat  BY <1>1, FS_CardinalityType
<1>3. s \in [1..Cardinality(S) -> S]  BY DEF Orderings
<1>4. DOMAIN s = 1..Cardinality(S)  BY <1>3
<1>5. \A i \in DOMAIN s : s[i] \in Key  BY <1>3, <1>4
<1>6. \A k \in Key : RestoreRequest(k) \in Request
  BY DEF RestoreRequest, Request
<1>7. \A i \in 1..Cardinality(S) : RestoreRequest(s[i]) \in Request
  BY <1>4, <1>5, <1>6
<1>8. [i \in 1..Cardinality(S) |-> RestoreRequest(s[i])] \in [1..Cardinality(S) -> Request]
  BY <1>7
<1>. QED  BY <1>2, <1>4, <1>8

LEMMA AcquiringTypes ==
  ASSUME TypeInv, Acquiring PROVE TypeInv'
<1>. USE TypeInvFrame, RecordsFrame, HolderFrame, LeasesFrame
<1>1. ASSUME NEW i \in FreeIds, ReuseResident(i) PROVE TypeInv'
  <2>. DEFINE k == Head(todo).key
  <2>. DEFINE l == [id |-> i, key |-> k, owner |-> tx.owner]
  <2>1. op = "acquire" /\ todo # <<>> /\ tx.owner \in Owner
    BY <1>1 DEF ReuseResident, TypeInv, RequestOK
  <2>2. k \in Key  BY <2>1, HeadTypes
  <2>3. l \in Lease  BY <2>1, <2>2, NewLease DEF FreeIds
  <2>4. Granted(l)  BY <1>1 DEF ReuseResident
  <2>5. HolderOK' /\ leases' \in SUBSET Lease
    BY <2>1, <2>3, <2>4, GrantedTypes
  <2>6. RecordsOK'
    <3>1. Touched(k) \in [Key -> Nat]  BY <2>2, TouchedType DEF TypeInv
    <3>. QED  BY <1>1, <2>2, <3>1 DEF ReuseResident, TypeInv, TypeOK, RecordsOK
  <2>. QED  BY <2>4, <2>5, <2>6 DEF Granted
<1>2. ASSUME NEW i \in FreeIds, LoadRequested(i) PROVE TypeInv'
  <2>. DEFINE k == Head(todo).key
  <2>. DEFINE l == [id |-> i, key |-> k, owner |-> tx.owner]
  <2>1. op = "acquire" /\ todo # <<>> /\ tx.owner \in Owner
    BY <1>2 DEF LoadRequested, TypeInv, RequestOK
  <2>2. k \in Key /\ Head(todo).pin \in BOOLEAN /\ Head(todo).orch \in BOOLEAN
    BY <2>1, HeadTypes
  <2>3. l \in Lease  BY <2>1, <2>2, NewLease DEF FreeIds
  <2>4. Granted(l)  BY <1>2 DEF LoadRequested
  <2>5. HolderOK' /\ leases' \in SUBSET Lease
    BY <2>1, <2>3, <2>4, GrantedTypes
  <2>6. RecordsOK'
    BY <1>2, <2>2, LoadTypes DEF LoadRequested, TypeInv
  <2>. QED  BY <2>4, <2>5, <2>6 DEF Granted
<1>3. CASE RefuseResident
  <2>1. HolderOK'  BY <1>3, RequestFailsTypes DEF RefuseResident
  <2>. QED  BY <1>3, <2>1 DEF RefuseResident
<1>4. CASE RefuseLoad
  <2>1. HolderOK'  BY <1>4, RequestFailsTypes DEF RefuseLoad, Loading
  <2>. QED  BY <1>4, <2>1 DEF RefuseLoad
<1>5. ASSUME NEW j \in Key, Evict(j) PROVE TypeInv'
  <2>1. RecordsOK'  BY <1>5, UnloadTypes DEF Evict, TypeInv
  <2>2. CASE RequestFails
    <3>1. HolderOK'  BY <1>5, <2>2, RequestFailsTypes DEF Evict, Loading
    <3>. QED  BY <1>5, <2>1, <3>1 DEF Evict
  <2>3. CASE UNCHANGED holder
    BY <1>5, <2>1, <2>3 DEF Evict
  <2>. QED  BY <1>5, <2>2, <2>3 DEF Evict
<1>. QED  BY <1>1, <1>2, <1>3, <1>4, <1>5 DEF Acquiring

LEMMA RollingBackTypes ==
  ASSUME TypeInv, RollingBack PROVE TypeInv'
<1>. USE TypeInvFrame, RecordsFrame, HolderFrame, LeasesFrame
<1>0. tx \in Tx  BY DEF TypeInv, TypeOK
<1>1. ASSUME NEW l \in tx.got, UndoLease(l) PROVE TypeInv'
  <2>1. l \in Lease  BY <1>0, TxFields
  <2>2. tx.got \ {l} \in SUBSET Lease /\ tx.errors \in BOOLEAN  BY <1>0, TxFields
  <2>3. RecordsOK' /\ leases' \in SUBSET Lease
    <3>1. CASE UNCHANGED <<records, leases>>
      BY <3>1
    <3>2. ASSUME NEW raised \in BOOLEAN, ReleaseLocked(l, raised)
          PROVE  RecordsOK' /\ leases' \in SUBSET Lease
      BY <2>1, <3>2, ReleaseTypes DEF TypeInv
    <3>. QED  BY <1>1, <3>1, <3>2 DEF UndoLease
  <2>4. PICK b \in BOOLEAN : tx' = [tx EXCEPT !.got = tx.got \ {l}, !.errors = b]
    BY <1>1, <2>2 DEF UndoLease
  <2>5. tx' \in Tx  BY <1>0, <2>2, <2>4, TxUndo
  <2>6. UNCHANGED <<calls, deferred, policy, inflight, op, todo, cur, visit>> /\ op = "undo"
    BY <1>1 DEF UndoLease
  <2>7. HolderOK'  BY <2>5, <2>6 DEF HolderOK, RequestOK, TypeInv, TypeOK
  <2>. QED  BY <2>3, <2>6, <2>7
<1>2. CASE UndoneLeases
  <2>1. tx' = [tx EXCEPT !.discard = Resident \ tx.resident] /\ op' = "discard"
    BY <1>2 DEF UndoneLeases
  <2>2. tx' \in Tx  BY <1>0, <2>1, TxDiscard DEF Resident
  <2>3. UNCHANGED <<records, calls, leases, deferred, policy, inflight, todo, cur, visit>>
    BY <1>2 DEF UndoneLeases
  <2>4. HolderOK'  BY <2>1, <2>2, <2>3 DEF TypeInv, TypeOK, HolderOK, RequestOK
  <2>. QED  BY <2>3, <2>4
<1>3. ASSUME NEW k \in Key, DiscardLoaded(k) PROVE TypeInv'
  <2>1. RecordsOK'  BY <1>3, UnloadTypes DEF DiscardLoaded, TypeInv
  <2>2. tx.discard \ {k} \in SUBSET Key  BY <1>0, TxFields
  <2>3. \/ tx' = [tx EXCEPT !.discard = tx.discard \ {k}]
        \/ tx' = [tx EXCEPT !.discard = tx.discard \ {k}, !.errors = TRUE]
    BY <1>3 DEF DiscardLoaded
  <2>4. tx' \in Tx  BY <1>0, <2>2, <2>3, TxDiscard
  <2>5. UNCHANGED <<calls, leases, deferred, policy, inflight, op, todo, cur, visit>> /\ op = "discard"
    BY <1>3 DEF DiscardLoaded
  <2>6. HolderOK'  BY <2>4, <2>5 DEF TypeInv, TypeOK, HolderOK, RequestOK
  <2>. QED  BY <2>1, <2>5, <2>6
<1>4. CASE Discarded
  <2>1. PICK s \in Orderings(tx.resident \ Resident) :
          todo' = [i \in DOMAIN s |-> RestoreRequest(s[i])]
    BY <1>4 DEF Discarded
  <2>2. tx.resident \ Resident \in SUBSET Key  BY <1>0, TxFields
  <2>3. todo' \in Seq(Request)  BY <2>1, <2>2, RestoreTypes
  <2>4. op' = "restore" /\ UNCHANGED <<records, calls, leases, deferred, policy, inflight, tx, cur, visit>>
    BY <1>4 DEF Discarded
  <2>5. HolderOK'  BY <2>3, <2>4 DEF TypeInv, TypeOK, HolderOK, RequestOK
  <2>. QED  BY <2>4, <2>5
<1>5. CASE Restore
  <2>. DEFINE k == Head(todo).key
  <2>1. todo # <<>> /\ op = "restore" /\ todo' = Tail(todo)
    BY <1>5 DEF Restore, Loading
  <2>2. k \in Key /\ Head(todo).orch \in BOOLEAN  BY <2>1, HeadTypes
  <2>3. todo' \in Seq(Request)
    <3>1. todo \in Seq(Request)  BY DEF TypeInv, TypeOK
    <3>. QED  BY <2>1, <3>1, SequenceTail
  <2>4. \/ Loaded(k, "idle", FALSE, Head(todo).orch) /\ UNCHANGED tx
        \/ UNCHANGED <<records, tx>>
        \/ /\ state' = [state EXCEPT ![k] = "failed"]
           /\ owned' = IF Head(todo).orch THEN owned \cup {k} ELSE owned
           /\ age' = Touched(k)
           /\ tx' = [tx EXCEPT !.errors = TRUE]
           /\ UNCHANGED <<pinned, live>>
    BY <1>5 DEF Restore
  <2>5. tx' \in Tx  BY <1>0, <2>4, TxErrors
  <2>6. RecordsOK'
    <3>1. CASE Loaded(k, "idle", FALSE, Head(todo).orch)
      BY <2>2, <3>1, LoadTypes DEF TypeInv
    <3>2. CASE UNCHANGED <<records, tx>>
      BY <3>2
    <3>3. CASE /\ state' = [state EXCEPT ![k] = "failed"]
               /\ owned' = IF Head(todo).orch THEN owned \cup {k} ELSE owned
               /\ age' = Touched(k)
               /\ UNCHANGED <<pinned, live>>
      <4>1. Touched(k) \in [Key -> Nat]  BY <2>2, TouchedType DEF TypeInv
      <4>. QED  BY <2>2, <3>3, <4>1 DEF TypeInv, TypeOK, RecordsOK
    <3>. QED  BY <2>4, <3>1, <3>2, <3>3
  <2>7. UNCHANGED <<calls, leases, deferred, policy, inflight, op, cur, visit>>
    BY <1>5 DEF Restore
  <2>8. HolderOK'  BY <2>1, <2>3, <2>5, <2>7 DEF TypeInv, TypeOK, HolderOK, RequestOK
  <2>. QED  BY <2>6, <2>7, <2>8
<1>6. CASE Restored
  <2>1. HolderOK'  BY <1>6, UnlockTypes DEF Restored
  <2>. QED  BY <1>6, <2>1 DEF Restored
<1>7. RollingBack => \/ \E l \in tx.got : UndoLease(l)
                     \/ UndoneLeases
                     \/ \E k \in Key : DiscardLoaded(k)
                     \/ Discarded \/ Restore \/ Restored
  BY DEF RollingBack
<1>. QED  BY <1>1, <1>2, <1>3, <1>4, <1>5, <1>6, <1>7

LEMMA DroppingTypes ==
  ASSUME TypeInv, Dropping PROVE TypeInv'
<1>. USE TypeInvFrame, RecordsFrame, HolderFrame, LeasesFrame
<1>1. ASSUME NEW l \in leases, DropLease(l) PROVE TypeInv'
  <2>1. l \in Lease  BY DEF TypeInv, TypeOK
  <2>2. \E raised \in BOOLEAN : ReleaseLocked(l, raised)  BY <1>1 DEF DropLease
  <2>3. RecordsOK' /\ leases' \in SUBSET Lease
    BY <2>1, <2>2, ReleaseTypes DEF TypeInv
  <2>4. HolderOK'  BY <1>1, UnlockTypes DEF DropLease
  <2>. QED  BY <1>1, <2>3, <2>4 DEF DropLease
<1>2. CASE OwnerDropped
  <2>1. HolderOK'  BY <1>2 DEF OwnerDropped, HolderOK, RequestOK, TypeInv, TypeOK
  <2>2. RecordsOK' /\ leases' \in SUBSET Lease  BY <1>2 DEF OwnerDropped
  <2>. QED  BY <1>2, <2>1, <2>2, TypeInvNext DEF OwnerDropped, TypeInv, TypeOK
<1>3. ASSUME NEW o \in Owner, VisitOwner(o) PROVE TypeInv'
  <2>1. HolderOK'  BY <1>3 DEF VisitOwner, HolderOK, RequestOK, TypeInv, TypeOK
  <2>. QED  BY <1>3, <2>1 DEF VisitOwner
<1>. QED  BY <1>1, <1>2, <1>3 DEF Dropping

LEMMA StartTypes ==
  ASSUME TypeInv, NEW o \in Owner,
         \/ \E r \in Single : StartAcquire(o, r)
         \/ \E rs \in Batch : StartBatch(o, rs)
  PROVE  TypeInv'
<1>. USE TypeInvFrame, RecordsFrame, HolderFrame, LeasesFrame
<1>1. ASSUME NEW r \in Single, StartAcquire(o, r) PROVE TypeInv'
  <2>1. r \in Request  BY RequestAssumption
  <2>2. <<r>> \in Seq(Request) /\ <<r>> # <<>>  BY <2>1
  <2>3. [NoTx EXCEPT !.owner = o] \in Tx /\ [NoTx EXCEPT !.owner = o].owner = o
    BY DEF NoTx, Tx
  <2>4. HolderOK'
    BY <1>1, <2>2, <2>3 DEF StartAcquire, HolderOK, RequestOK, TypeInv, TypeOK
  <2>. QED  BY <1>1, <2>4 DEF StartAcquire
<1>2. ASSUME NEW rs \in Batch, StartBatch(o, rs) PROVE TypeInv'
  <2>. DEFINE t == [NoTx EXCEPT !.batch = TRUE, !.owner = o, !.leases = leases,
                                !.resident = Resident, !.owned = owned]
  <2>1. rs \in Seq(Request)  BY RequestAssumption
  <2>2. leases \in SUBSET Lease /\ Resident \in SUBSET Key /\ owned \in SUBSET Key
    BY DEF TypeInv, TypeOK, Resident
  <2>3. t \in Tx /\ t.owner = o  BY <2>2 DEF NoTx, Tx
  <2>4. /\ op' = "acquire" /\ todo' = rs /\ rs # <<>> /\ tx' = t
        /\ UNCHANGED <<records, calls, leases, deferred, policy, inflight, cur, visit>>
    BY <1>2 DEF StartBatch
  <2>5. HolderOK'
    BY <2>1, <2>3, <2>4 DEF HolderOK, RequestOK, TypeInv, TypeOK
  <2>. QED  BY <2>4, <2>5
<1>. QED  BY <1>1, <1>2

LEMMA ArrivalTypes ==
  ASSUME TypeInv, Arrival PROVE TypeInv'
<1>. USE TypeInvFrame, RecordsFrame, HolderFrame, LeasesFrame
<1>1. ASSUME NEW o \in Owner, ReleaseOwner(o) PROVE TypeInv'
  <2>1. HolderOK'  BY <1>1 DEF ReleaseOwner, HolderOK, RequestOK, TypeInv, TypeOK
  <2>. QED  BY <1>1, <2>1 DEF ReleaseOwner
<1>2. ASSUME NEW o \in Owner, ReleaseOwnerAfterCalls(o) PROVE TypeInv'
  <2>1. HolderOK' /\ deferred' \in SUBSET Owner
    BY <1>2 DEF ReleaseOwnerAfterCalls, HolderOK, RequestOK, TypeInv, TypeOK
  <2>. QED  BY <1>2, <2>1, TypeInvNext DEF ReleaseOwnerAfterCalls, TypeInv, TypeOK
<1>3. ASSUME NEW l \in leases, Release(l) PROVE TypeInv'
  <2>1. l \in Lease  BY DEF TypeInv, TypeOK
  <2>2. RecordsOK' /\ leases' \in SUBSET Lease
    BY <1>3, <2>1, ReleaseTypes DEF Release, TypeInv
  <2>. QED  BY <1>3, <2>2 DEF Release
<1>4. ASSUME NEW l \in leases, NEW c \in Caller, NEW kind \in {"invoke", "cancel"},
             BeginCall(c, kind, l)
      PROVE  TypeInv'
  <2>1. l \in Lease /\ l.key \in Key  BY LeaseFields DEF TypeInv, TypeOK
  <2>2. [caller |-> c, kind |-> kind, lease |-> l] \in Call  BY <2>1 DEF Call
  <2>3. inflight' \in SUBSET Call  BY <1>4, <2>2 DEF BeginCall, TypeInv, TypeOK
  <2>4. calls' \in [Key -> Int]  BY <1>4, <2>1 DEF BeginCall, TypeInv, TypeOK
  <2>5. state' \in [Key -> {"absent", "idle", "busy", "failed"}]
    BY <1>4, <2>1 DEF BeginCall, TypeInv, TypeOK
  <2>6. RecordsOK'  BY <1>4, <2>5 DEF BeginCall, RecordsOK, TypeInv, TypeOK
  <2>. QED  BY <1>4, <2>3, <2>4, <2>6, TypeInvNext DEF BeginCall, TypeInv, TypeOK
<1>5. ASSUME NEW d \in inflight, EndCall(d) PROVE TypeInv'
  <2>1. d.lease.key \in Key  BY CallFields DEF TypeInv, TypeOK
  <2>2. inflight' \in SUBSET Call  BY <1>5 DEF EndCall, TypeInv, TypeOK
  <2>3. calls' \in [Key -> Int]  BY <1>5, <2>1 DEF EndCall, TypeInv, TypeOK
  <2>4. HolderOK'  BY <1>5 DEF EndCall, HolderOK, RequestOK, TypeInv, TypeOK
  <2>. QED  BY <1>5, <2>2, <2>3, <2>4, TypeInvNext DEF EndCall, TypeInv, TypeOK
<1>6. ASSUME NEW k \in Key, Pin(k) PROVE TypeInv'
  <2>1. RecordsOK'  BY <1>6 DEF Pin, RecordsOK, TypeInv, TypeOK
  <2>. QED  BY <1>6, <2>1 DEF Pin
<1>7. ASSUME NEW k \in Key, NEW force \in BOOLEAN, Unload(k, force) PROVE TypeInv'
  <2>1. RecordsOK'  BY <1>7, UnloadTypes DEF Unload, TypeInv
  <2>. QED  BY <1>7, <2>1 DEF Unload
<1>8. ASSUME NEW p \in {"lru", "never"}, SetEvictionPolicy(p) PROVE TypeInv'
  BY <1>8, TypeInvNext DEF SetEvictionPolicy, TypeInv, TypeOK
<1>9. \A k : ApplyResidencyAction(k) => Pin(k) \/ Unload(k, FALSE)
  BY DEF ApplyResidencyAction, SetOrchestrationPin, UnloadOrchestrationResident
<1>. QED
  BY <1>1, <1>2, <1>3, <1>4, <1>5, <1>6, <1>7, <1>8, <1>9, StartTypes DEF Arrival

\* What holds in every state satisfies TypeInv after every step.
LEMMA TypeStep == TypeInv /\ [Next]_vars => TypeInv'
<1>1. TypeInv /\ UNCHANGED vars => TypeInv'
  BY TypeInvFrame, RecordsFrame, HolderFrame, LeasesFrame DEF vars
<1>. QED
  BY <1>1, AcquiringTypes, RollingBackTypes, DroppingTypes, ArrivalTypes
  DEF Next, HolderStep

LEMMA TypeInit == Init => TypeInv
<1>. SUFFICES ASSUME Init PROVE TypeInv  OBVIOUS
<1>1. todo \in Seq(Request) /\ tx \in Tx  BY EmptySeq, NoTxType DEF Init
<1>. QED  BY <1>1 DEF Init, TypeInv, TypeOK, RequestOK

\* Whatever the keys, owners, threads and requests are, the variables keep
\* their types: in particular no record is ever left in the transient states
\* of a load or an unload (ModelScheduler).
THEOREM TypeCorrect == Spec => []TypeOK
<1>1. TypeInv => TypeOK  BY DEF TypeInv
<1>. QED  BY <1>1, TypeInit, TypeStep, PTL DEF Spec

-----------------------------------------------------------------------------
(* Safety.  No property is inductive alone: a call is safe because its     *)
(* lease stays, the lease stays because active_calls counts the call, and  *)
(* the loops that release without looking at active_calls rely on what     *)
(* their guard saw before.                                                 *)

CallsHaveLeases == \A c \in inflight : c.lease \in leases

Calling   == CallsHaveLeases /\ IsFiniteSet(inflight) /\ CallsAreCounted

\* What the holder of the lock relies on between two steps of a loop.
Holding ==
  /\ op \in {"acquire", "undo"} => tx.got \subseteq leases
  /\ op = "discard" => tx.discard \subseteq Resident
  /\ op = "drop" => ~OwnerBusy(cur)

IInv == TypeInv /\ Residency /\ Calling /\ Holding

-----------------------------------------------------------------------------
(* Residency: the steps that shrink the residents or the leases, the steps *)
(* that load a model, and the steps that lease a resident one.             *)

LEMMA LeaseTypes ==
  ASSUME TypeInv, NEW l \in leases
  PROVE  l \in Lease /\ l.key \in Key /\ l.owner \in Owner
BY LeaseFields DEF TypeInv, TypeOK

LEMMA Shrinks ==
  ASSUME Residency, leases' \subseteq leases, Resident' \subseteq Resident,
         \A l \in leases' : l.key \in Resident'
  PROVE  Residency'
BY DEF Residency, LeasesAreResident, OneModelPerRuntime, SharingIsAdvertised

LEMMA Grows ==
  ASSUME Residency, NEW k \in Key, k \notin Resident, Siblings(k) = {},
         Resident' \subseteq Resident \cup {k},
         NEW N, \A l \in N : l.key = k, \A l, m \in N : l = m,
         leases' = leases \cup N,
         Resident \subseteq Resident', N # {} => k \in Resident'
  PROVE  Residency'
<1>1. LeasesAreResident'  BY DEF Residency, LeasesAreResident
<1>2. \A j \in Resident : RuntimeOf[j] = RuntimeOf[k] /\ RuntimeOf[j] \notin MultiResident
        => ModelOf[j] = ModelOf[k]
  BY DEF Siblings
<1>3. OneModelPerRuntime'  BY <1>2 DEF Residency, OneModelPerRuntime
<1>4. \A l \in leases : l.key # k  BY DEF Residency, LeasesAreResident
<1>5. SharingIsAdvertised'  BY <1>4 DEF Residency, SharingIsAdvertised
<1>. QED  BY <1>1, <1>3, <1>5 DEF Residency

LEMMA Shares ==
  ASSUME Residency, Resident' = Resident, NEW l,
         leases' = leases \cup {l}, l.key \in Resident,
         LeasesOn(l.key) = {} \/ RuntimeOf[l.key] \in Concurrent
  PROVE  Residency'
<1>1. LeasesAreResident'  BY DEF Residency, LeasesAreResident
<1>2. OneModelPerRuntime'  BY DEF Residency, OneModelPerRuntime
<1>3. \A m \in leases : m.key = l.key => RuntimeOf[l.key] \in Concurrent
  BY DEF LeasesOn
<1>4. SharingIsAdvertised'  BY <1>3 DEF Residency, SharingIsAdvertised
<1>. QED  BY <1>1, <1>2, <1>4 DEF Residency

LEMMA Unloads ==
  ASSUME TypeInv, NEW k \in Resident, Unloaded(k) \/ UnloadRaised(k)
  PROVE  Resident' \subseteq Resident /\ Resident \ {k} \subseteq Resident'
<1>1. k \in Key /\ state \in [Key -> {"absent", "idle", "busy", "failed"}]
  BY DEF Resident, TypeInv, TypeOK
<1>. QED  BY <1>1 DEF Resident, Unloaded, UnloadRaised

LEMMA UnloadsIdle ==
  ASSUME TypeInv, Residency, NEW k \in Resident, LeasesOn(k) = {},
         Unloaded(k) \/ UnloadRaised(k), UNCHANGED leases
  PROVE  Residency' /\ Resident' \subseteq Resident /\ Resident \ {k} \subseteq Resident'
<1>1. Resident' \subseteq Resident /\ Resident \ {k} \subseteq Resident'  BY Unloads
<1>2. \A l \in leases : l.key # k  BY DEF LeasesOn
<1>3. \A l \in leases' : l.key \in Resident'
  BY <1>1, <1>2 DEF Residency, LeasesAreResident
<1>. QED  BY <1>1, <1>3, Shrinks

LEMMA Loads ==
  ASSUME TypeInv, NEW k \in Key, NEW s \in {"idle", "busy"},
         NEW p \in BOOLEAN, NEW o \in BOOLEAN, Loaded(k, s, p, o)
  PROVE  Resident' = Resident \cup {k}
<1>1. state' = [state EXCEPT ![k] = s] /\ s # "absent"  BY DEF Loaded
<1>. QED  BY <1>1 DEF Resident, TypeInv, TypeOK

LEMMA SameRecords ==
  ASSUME UNCHANGED state PROVE Resident' = Resident
BY DEF Resident

-----------------------------------------------------------------------------
(* Calls.                                                                  *)

LEMMA Uncalled ==
  ASSUME Calling, NEW k \in Key, calls[k] = 0
  PROVE  CallsOn(k) = {}
<1>1. IsFiniteSet(CallsOn(k))  BY FS_Subset DEF Calling, CallsOn
<1>2. Cardinality(CallsOn(k)) = 0  BY DEF Calling, CallsAreCounted
<1>. QED  BY <1>1, <1>2, FS_EmptySet

LEMMA CallingFrame ==
  ASSUME Calling, UNCHANGED <<calls, inflight>>,
         \A c \in inflight : c.lease \in leases'
  PROVE  Calling'
BY DEF Calling, CallsHaveLeases, CallsAreCounted, CallsOn

\* A release that looked at active_calls, under the lock, is safe.
LEMMA Releases ==
  ASSUME TypeInv, Residency, Calling, NEW l \in leases, calls[l.key] = 0,
         NEW raised \in BOOLEAN, ReleaseLocked(l, raised),
         UNCHANGED <<calls, inflight>>
  PROVE  /\ leases' = leases \ {l}
         /\ Resident' \subseteq Resident
         /\ Residency' /\ Calling'
<1>1. l.key \in Key /\ l.key \in Resident
  BY LeaseTypes DEF Residency, LeasesAreResident
<1>2. leases' = leases \ {l}  BY DEF ReleaseLocked
<1>3. \A c \in inflight : c.lease # l
  BY <1>1, Uncalled DEF CallsOn
<1>4. Calling'
  BY <1>2, <1>3, CallingFrame DEF Calling, CallsHaveLeases
<1>5. \/ /\ LeasesOn(l.key) = {l}
         /\ Unloaded(l.key) \/ UnloadRaised(l.key)
      \/ \E s \in {"idle", "busy"} : state' = [state EXCEPT ![l.key] = s]
  BY DEF ReleaseLocked, Retained
<1>6. CASE \E s \in {"idle", "busy"} : state' = [state EXCEPT ![l.key] = s]
  <2>1. Resident' = Resident
    BY <1>1, <1>6 DEF Resident, TypeInv, TypeOK
  <2>2. \A m \in leases' : m.key \in Resident'
    BY <1>2, <2>1 DEF Residency, LeasesAreResident
  <2>. QED  BY <1>2, <1>4, <2>1, <2>2, Shrinks
<1>7. CASE LeasesOn(l.key) = {l} /\ (Unloaded(l.key) \/ UnloadRaised(l.key))
  <2>1. Resident' \subseteq Resident /\ Resident \ {l.key} \subseteq Resident'
    BY <1>1, <1>7, Unloads
  <2>2. \A m \in leases' : m.key # l.key  BY <1>2, <1>7 DEF LeasesOn
  <2>3. \A m \in leases' : m.key \in Resident'
    BY <1>2, <2>1, <2>2 DEF Residency, LeasesAreResident
  <2>. QED  BY <1>2, <1>4, <2>1, <2>3, Shrinks
<1>. QED  BY <1>5, <1>6, <1>7

LEMMA BeginsCall ==
  ASSUME TypeInv, Calling, NEW l \in leases, NEW c \in Caller,
         NEW kind \in {"invoke", "cancel"}, BeginCall(c, kind, l)
  PROVE  Calling'
<1>. DEFINE d == [caller |-> c, kind |-> kind, lease |-> l]
<1>1. l.key \in Key  BY LeaseTypes
<1>2. d.lease = l /\ d.caller = c  OBVIOUS
<1>3. d \notin inflight  BY <1>2 DEF BeginCall, Free
<1>4. inflight' = inflight \cup {d} /\ leases' = leases
      /\ calls' = [calls EXCEPT ![l.key] = calls[l.key] + 1]
  BY DEF BeginCall
<1>5. IsFiniteSet(inflight')  BY <1>4, FS_AddElement DEF Calling
<1>6. CallsHaveLeases'  BY <1>2, <1>4 DEF Calling, CallsHaveLeases
<1>7. ASSUME NEW k \in Key PROVE calls'[k] = Cardinality(CallsOn(k)')
  <2>1. IsFiniteSet(CallsOn(k)) /\ calls[k] = Cardinality(CallsOn(k))
    BY FS_Subset DEF Calling, CallsAreCounted, CallsOn
  <2>2. CASE k = l.key
    <3>1. CallsOn(k)' = CallsOn(k) \cup {d}  BY <1>2, <1>4, <2>2 DEF CallsOn
    <3>2. d \notin CallsOn(k)  BY <1>3 DEF CallsOn
    <3>3. Cardinality(CallsOn(k)') = Cardinality(CallsOn(k)) + 1
      BY <2>1, <3>1, <3>2, FS_AddElement
    <3>4. calls'[k] = calls[k] + 1  BY <1>1, <1>4, <2>2 DEF TypeInv, TypeOK
    <3>. QED  BY <2>1, <3>3, <3>4
  <2>3. CASE k # l.key
    <3>1. CallsOn(k)' = CallsOn(k)  BY <1>2, <1>4, <2>3 DEF CallsOn
    <3>2. calls'[k] = calls[k]  BY <1>1, <1>4, <2>3 DEF TypeInv, TypeOK
    <3>. QED  BY <2>1, <3>1, <3>2
  <2>. QED  BY <2>2, <2>3
<1>. QED  BY <1>5, <1>6, <1>7 DEF Calling, CallsAreCounted

LEMMA EndsCall ==
  ASSUME TypeInv, Calling, NEW d \in inflight, EndCall(d)
  PROVE  Calling'
<1>1. d.lease.key \in Key  BY CallFields DEF TypeInv, TypeOK
<1>2. inflight' = inflight \ {d} /\ leases' = leases
      /\ calls' = [calls EXCEPT ![d.lease.key] = calls[d.lease.key] - 1]
  BY DEF EndCall
<1>3. IsFiniteSet(inflight')  BY <1>2, FS_RemoveElement DEF Calling
<1>4. CallsHaveLeases'  BY <1>2 DEF Calling, CallsHaveLeases
<1>5. ASSUME NEW k \in Key PROVE calls'[k] = Cardinality(CallsOn(k)')
  <2>1. IsFiniteSet(CallsOn(k)) /\ calls[k] = Cardinality(CallsOn(k))
    BY FS_Subset DEF Calling, CallsAreCounted, CallsOn
  <2>2. CASE k = d.lease.key
    <3>1. CallsOn(k)' = CallsOn(k) \ {d}  BY <1>2 DEF CallsOn
    <3>2. d \in CallsOn(k)  BY <2>2 DEF CallsOn
    <3>3. Cardinality(CallsOn(k)') = Cardinality(CallsOn(k)) - 1
      BY <2>1, <3>1, <3>2, FS_RemoveElement
    <3>4. calls'[k] = calls[k] - 1  BY <1>1, <1>2, <2>2 DEF TypeInv, TypeOK
    <3>. QED  BY <2>1, <3>3, <3>4
  <2>3. CASE k # d.lease.key
    <3>1. CallsOn(k)' = CallsOn(k)  BY <1>2, <2>3 DEF CallsOn
    <3>2. calls'[k] = calls[k]  BY <1>1, <1>2, <2>3 DEF TypeInv, TypeOK
    <3>. QED  BY <2>1, <3>1, <3>2
  <2>. QED  BY <2>2, <2>3
<1>. QED  BY <1>3, <1>4, <1>5 DEF Calling, CallsAreCounted

-----------------------------------------------------------------------------
(* One lemma per group of actions.                                         *)

\* A step that only moves the lock or the bookkeeping of its holder.
LEMMA Moves ==
  ASSUME IInv, UNCHANGED <<state, leases, calls, inflight>>
  PROVE  Residency' /\ Calling' /\ Resident' = Resident
<1>1. Resident' = Resident  BY SameRecords
<1>2. Residency'
  BY <1>1, Shrinks DEF IInv, Residency, LeasesAreResident
<1>3. Calling'  BY CallingFrame DEF IInv, Calling, CallsHaveLeases
<1>. QED  BY <1>1, <1>2, <1>3

LEMMA FailedRequestHolds ==
  ASSUME IInv, RequestFails, UNCHANGED leases PROVE Holding'
BY DEF IInv, RequestFails, Holding

LEMMA Grants ==
  ASSUME IInv, op = "acquire", NEW l \in Lease, Granted(l)
  PROVE  /\ leases' = leases \cup {l} /\ UNCHANGED <<calls, inflight>>
         /\ Calling' /\ Holding'
<1>1. leases' = leases \cup {l} /\ UNCHANGED <<calls, inflight>>  BY DEF Granted
<1>2. Calling'  BY <1>1, CallingFrame DEF IInv, Calling, CallsHaveLeases
<1>3. Holding'
  <2>1. CASE Len(todo) = 1
    BY <2>1 DEF Granted, Unlock, Holding
  <2>2. CASE Len(todo) # 1
    <3>1. tx' = [tx EXCEPT !.got = tx.got \cup {l}] /\ op' = "acquire"
      BY <2>2 DEF Granted
    <3>2. tx \in Tx  BY DEF IInv, TypeInv, TypeOK
    <3>3. tx'.got = tx.got \cup {l}  BY <3>1, <3>2 DEF Tx
    <3>4. tx'.got \subseteq leases'  BY <1>1, <3>3 DEF IInv, Holding
    <3>. QED  BY <3>1, <3>4 DEF Holding
  <2>. QED  BY <2>1, <2>2
<1>. QED  BY <1>1, <1>2, <1>3

LEMMA AcquiringStep ==
  ASSUME IInv, Acquiring PROVE Residency' /\ Calling' /\ Holding'
<1>. USE DEF IInv
<1>1. ASSUME NEW i \in FreeIds, ReuseResident(i)
      PROVE  Residency' /\ Calling' /\ Holding'
  <2>. DEFINE k == Head(todo).key
  <2>. DEFINE l == [id |-> i, key |-> k, owner |-> tx.owner]
  <2>1. op = "acquire" /\ todo # <<>> /\ tx.owner \in Owner
    BY <1>1 DEF ReuseResident, TypeInv, RequestOK
  <2>2. k \in Key /\ k \in Resident  BY <1>1, <2>1, HeadTypes DEF ReuseResident
  <2>3. l \in Lease /\ l.key = k  BY <2>1, <2>2, NewLease DEF FreeIds
  <2>4. leases' = leases \cup {l} /\ Calling' /\ Holding'
    BY <1>1, <2>1, <2>3, Grants DEF ReuseResident
  <2>5. LeasesOn(k) = {} \/ RuntimeOf[k] \in Concurrent
    BY <1>1 DEF ReuseResident, MayShare
  <2>6. Resident' = Resident
    BY <1>1, <2>2 DEF ReuseResident, Resident, TypeInv, TypeOK
  <2>7. Residency'  BY <2>2, <2>3, <2>4, <2>5, <2>6, Shares
  <2>. QED  BY <2>4, <2>7
<1>2. ASSUME NEW i \in FreeIds, LoadRequested(i)
      PROVE  Residency' /\ Calling' /\ Holding'
  <2>. DEFINE k == Head(todo).key
  <2>. DEFINE l == [id |-> i, key |-> k, owner |-> tx.owner]
  <2>1. op = "acquire" /\ todo # <<>> /\ tx.owner \in Owner
    BY <1>2 DEF LoadRequested, TypeInv, RequestOK
  <2>2. /\ k \in Key /\ k \notin Resident /\ Siblings(k) = {}
        /\ Head(todo).pin \in BOOLEAN /\ Head(todo).orch \in BOOLEAN
    BY <1>2, <2>1, HeadTypes DEF LoadRequested, Loading
  <2>3. l \in Lease /\ l.key = k  BY <2>1, <2>2, NewLease DEF FreeIds
  <2>4. leases' = leases \cup {l} /\ Calling' /\ Holding'
    BY <1>2, <2>1, <2>3, Grants DEF LoadRequested
  <2>5. Resident' = Resident \cup {k}
    BY <1>2, <2>2, Loads DEF LoadRequested
  <2>6. \A m \in {l} : m.key = k  BY <2>3
  <2>7. Residency'  BY <2>2, <2>4, <2>5, <2>6, Grows
  <2>. QED  BY <2>4, <2>7
<1>3. CASE RefuseResident
  BY <1>3, Moves, FailedRequestHolds DEF RefuseResident, records
<1>4. CASE RefuseLoad
  BY <1>4, Moves, FailedRequestHolds DEF RefuseLoad, records
<1>5. ASSUME NEW j \in Key, Evict(j) PROVE Residency' /\ Calling' /\ Holding'
  <2>1. /\ Unloaded(j) \/ UnloadRaised(j)
        /\ LeasesOn(j) = {}
        /\ UNCHANGED <<calls, leases, deferred, policy, inflight>>
    BY <1>5 DEF Evict, CanUnload
  <2>2. j \in Resident  BY <1>5 DEF Evict, EvictFor, Idle, Oldest
  <2>3. Residency'  BY <2>1, <2>2, UnloadsIdle
  <2>4. Calling'  BY <2>1, CallingFrame DEF Calling, CallsHaveLeases
  <2>5. Holding'
    <3>1. CASE RequestFails  BY <2>1, <3>1, FailedRequestHolds
    <3>2. CASE UNCHANGED holder
      <4>1. op' = op /\ tx' = tx /\ leases' = leases /\ op # "discard" /\ op # "drop"
        BY <1>5, <2>1, <3>2 DEF holder, Evict, Loading
      <4>. QED  BY <4>1 DEF Holding
    <3>. QED  BY <1>5, <3>1, <3>2 DEF Evict
  <2>. QED  BY <2>3, <2>4, <2>5
<1>. QED  BY <1>1, <1>2, <1>3, <1>4, <1>5 DEF Acquiring

LEMMA RollingBackStep ==
  ASSUME IInv, RollingBack PROVE Residency' /\ Calling' /\ Holding'
<1>. USE DEF IInv
<1>0. tx \in Tx  BY DEF TypeInv, TypeOK
<1>1. ASSUME NEW l \in tx.got, UndoLease(l)
      PROVE  Residency' /\ Calling' /\ Holding'
  <2>1. l \in leases /\ tx.got \subseteq leases /\ op' = "undo"
    BY <1>1 DEF UndoLease, Holding
  <2>2. tx'.got = tx.got \ {l}
    <3>1. tx.errors \in BOOLEAN /\ tx.got \ {l} \in SUBSET Lease
      BY <1>0, TxFields
    <3>2. PICK b \in BOOLEAN : tx' = [tx EXCEPT !.got = tx.got \ {l}, !.errors = b]
      BY <1>1, <3>1 DEF UndoLease
    <3>. QED  BY <1>0, <3>1, <3>2, TxUndo
  <2>3. CASE UNCHANGED <<records, leases>>
    <3>1. Residency' /\ Calling'
      BY <1>1, <2>3, Moves DEF UndoLease, records
    <3>. QED  BY <2>1, <2>2, <2>3, <3>1 DEF Holding
  <2>4. ASSUME NEW raised \in BOOLEAN, calls[l.key] = 0, ReleaseLocked(l, raised)
        PROVE  Residency' /\ Calling' /\ Holding'
    <3>1. leases' = leases \ {l} /\ Residency' /\ Calling'
      BY <1>1, <2>1, <2>4, Releases DEF UndoLease
    <3>. QED  BY <2>1, <2>2, <3>1 DEF Holding
  <2>. QED  BY <1>1, <2>3, <2>4 DEF UndoLease
<1>2. CASE UndoneLeases
  <2>1. Residency' /\ Calling' /\ Resident' = Resident
    BY <1>2, Moves DEF UndoneLeases, records
  <2>2. op' = "discard" /\ tx'.discard = Resident \ tx.resident
    BY <1>0, <1>2 DEF UndoneLeases, Tx
  <2>. QED  BY <2>1, <2>2 DEF Holding
<1>3. ASSUME NEW k \in Key, DiscardLoaded(k)
      PROVE  Residency' /\ Calling' /\ Holding'
  <2>1. /\ k \in tx.discard /\ LeasesOn(k) = {} /\ op = "discard" /\ op' = op
        /\ Unloaded(k) \/ UnloadRaised(k)
        /\ UNCHANGED <<calls, leases, inflight>>
    BY <1>3 DEF DiscardLoaded, CanUnload
  <2>2. k \in Resident /\ tx.discard \subseteq Resident  BY <2>1 DEF Holding
  <2>3. Residency' /\ Resident \ {k} \subseteq Resident'
    BY <2>1, <2>2, UnloadsIdle
  <2>4. Calling'  BY <2>1, CallingFrame DEF Calling, CallsHaveLeases
  <2>5. tx'.discard = tx.discard \ {k}
    <3>1. \/ tx' = [tx EXCEPT !.discard = tx.discard \ {k}]
          \/ tx' = [tx EXCEPT !.discard = tx.discard \ {k}, !.errors = TRUE]
      BY <1>3 DEF DiscardLoaded
    <3>. QED  BY <1>0, <3>1 DEF Tx
  <2>. QED  BY <2>1, <2>2, <2>3, <2>4, <2>5 DEF Holding
<1>4. CASE Discarded
  BY <1>4, Moves DEF Discarded, records, Holding
<1>5. CASE Restore
  <2>. DEFINE k == Head(todo).key
  <2>1. /\ todo # <<>> /\ op = "restore" /\ op' = op
        /\ k \notin Resident /\ Siblings(k) = {}
        /\ UNCHANGED <<calls, leases, deferred, policy, inflight>>
    BY <1>5 DEF Restore, Loading
  <2>2. k \in Key /\ Head(todo).orch \in BOOLEAN  BY <2>1, HeadTypes
  <2>3. Resident \subseteq Resident' /\ Resident' \subseteq Resident \cup {k}
    <3>1. CASE Loaded(k, "idle", FALSE, Head(todo).orch)
      BY <2>2, <3>1, Loads
    <3>2. CASE UNCHANGED <<records, tx>>
      BY <3>2 DEF records, Resident
    <3>3. CASE state' = [state EXCEPT ![k] = "failed"]
      BY <2>2, <3>3 DEF Resident, TypeInv, TypeOK
    <3>. QED  BY <1>5, <3>1, <3>2, <3>3 DEF Restore
  <2>4. Residency'
    <3>. DEFINE N == {}
    <3>1. leases' = leases \cup N  BY <2>1
    <3>. HIDE DEF k
    <3>. QED  BY <2>1, <2>2, <2>3, <3>1, Grows
  <2>5. Calling'  BY <2>1, CallingFrame DEF Calling, CallsHaveLeases
  <2>. QED  BY <2>1, <2>4, <2>5 DEF Holding
<1>6. CASE Restored
  BY <1>6, Moves DEF Restored, records, Unlock, Holding
<1>7. RollingBack => \/ \E l \in tx.got : UndoLease(l)
                     \/ UndoneLeases
                     \/ \E k \in Key : DiscardLoaded(k)
                     \/ Discarded \/ Restore \/ Restored
  BY DEF RollingBack
<1>. QED  BY <1>1, <1>2, <1>3, <1>4, <1>5, <1>6, <1>7

LEMMA DroppingStep ==
  ASSUME IInv, Dropping PROVE Residency' /\ Calling' /\ Holding'
<1>. USE DEF IInv
<1>1. ASSUME NEW l \in leases, DropLease(l)
      PROVE  Residency' /\ Calling' /\ Holding'
  <2>1. PICK raised \in BOOLEAN : ReleaseLocked(l, raised)  BY <1>1 DEF DropLease
  <2>2. op = "drop" /\ l.owner = cur /\ UNCHANGED <<calls, inflight>>
    BY <1>1 DEF DropLease
  <2>3. calls[l.key] = 0  BY <2>2 DEF Holding, OwnerBusy, LeasesOf
  <2>4. leases' = leases \ {l} /\ Residency' /\ Calling'
    BY <2>1, <2>2, <2>3, Releases
  <2>5. Holding'
    <3>1. CASE Unlock  BY <3>1 DEF Unlock, Holding
    <3>2. CASE UNCHANGED holder
      BY <2>2, <2>4, <3>2 DEF holder, Holding, OwnerBusy, LeasesOf
    <3>. QED  BY <1>1, <3>1, <3>2 DEF DropLease
  <2>. QED  BY <2>4, <2>5
<1>2. CASE OwnerDropped
  BY <1>2, Moves DEF OwnerDropped, records, Holding
<1>3. ASSUME NEW o \in Owner, VisitOwner(o)
      PROVE  Residency' /\ Calling' /\ Holding'
  BY <1>3, Moves DEF VisitOwner, records, Holding, OwnerBusy, LeasesOf
<1>. QED  BY <1>1, <1>2, <1>3 DEF Dropping

LEMMA ArrivalStep ==
  ASSUME IInv, Arrival PROVE Residency' /\ Calling' /\ Holding'
<1>. USE DEF IInv
<1>1. ASSUME NEW o \in Owner,
             \/ \E r \in Single : StartAcquire(o, r)
             \/ \E rs \in Batch : StartBatch(o, rs)
      PROVE  Residency' /\ Calling' /\ Holding'
  <2>1. Residency' /\ Calling'
    BY <1>1, Moves DEF StartAcquire, StartBatch, records
  <2>2. op' = "acquire" /\ tx'.got = {}
    BY <1>1 DEF StartAcquire, StartBatch, NoTx
  <2>. QED  BY <2>1, <2>2 DEF Holding
<1>2. ASSUME NEW o \in Owner, ReleaseOwner(o)
      PROVE  Residency' /\ Calling' /\ Holding'
  BY <1>2, Moves DEF ReleaseOwner, records, Holding, OwnerBusy, LeasesOf
<1>3. ASSUME NEW o \in Owner, ReleaseOwnerAfterCalls(o)
      PROVE  Residency' /\ Calling' /\ Holding'
  BY <1>3, Moves DEF ReleaseOwnerAfterCalls, records, Holding, OwnerBusy, LeasesOf
<1>4. ASSUME NEW l \in leases, Release(l) PROVE Residency' /\ Calling' /\ Holding'
  <2>1. op = "idle" /\ op' = "idle"  BY <1>4 DEF Release, holder
  <2>2. Residency' /\ Calling'  BY <1>4, Releases DEF Release
  <2>. QED  BY <2>1, <2>2 DEF Holding
<1>5. ASSUME NEW l \in leases, NEW c \in Caller, NEW kind \in {"invoke", "cancel"},
             BeginCall(c, kind, l)
      PROVE  Residency' /\ Calling' /\ Holding'
  <2>1. Calling'  BY <1>5, BeginsCall
  <2>2. l.key \in Key /\ l.key \in Resident /\ UNCHANGED leases /\ op' = "idle"
    BY <1>5, LeaseTypes DEF BeginCall, holder, Residency, LeasesAreResident
  <2>3. Resident' = Resident
    <3>1. \/ state' = [state EXCEPT ![l.key] = "busy"]
          \/ state' = [state EXCEPT ![l.key] = state[l.key]]
      BY <1>5 DEF BeginCall
    <3>. QED  BY <2>2, <3>1 DEF Resident, TypeInv, TypeOK
  <2>4. Residency'  BY <2>2, <2>3, Shrinks DEF Residency, LeasesAreResident
  <2>. QED  BY <2>1, <2>2, <2>4 DEF Holding
<1>6. ASSUME NEW d \in inflight, EndCall(d) PROVE Residency' /\ Calling' /\ Holding'
  <2>1. Calling'  BY <1>6, EndsCall
  <2>2. UNCHANGED leases /\ op' \in {"idle", "drain"} /\ Resident' = Resident
    BY <1>6, SameRecords DEF EndCall, records
  <2>3. Residency'  BY <2>2, Shrinks DEF Residency, LeasesAreResident
  <2>. QED  BY <2>1, <2>2, <2>3 DEF Holding
<1>7. ASSUME NEW k \in Key, Pin(k) PROVE Residency' /\ Calling' /\ Holding'
  BY <1>7, Moves DEF Pin, holder, Holding
<1>8. ASSUME NEW k \in Key, NEW force \in BOOLEAN, Unload(k, force)
      PROVE  Residency' /\ Calling' /\ Holding'
  <2>1. /\ k \in Resident /\ LeasesOn(k) = {} /\ op' = "idle"
        /\ Unloaded(k) \/ UnloadRaised(k)
        /\ UNCHANGED <<calls, leases, inflight>>
    BY <1>8 DEF Unload, CanUnload, holder
  <2>2. Residency'  BY <2>1, UnloadsIdle
  <2>3. Calling'  BY <2>1, CallingFrame DEF Calling, CallsHaveLeases
  <2>. QED  BY <2>1, <2>2, <2>3 DEF Holding
<1>9. ASSUME NEW p \in {"lru", "never"}, SetEvictionPolicy(p)
      PROVE  Residency' /\ Calling' /\ Holding'
  BY <1>9, Moves DEF SetEvictionPolicy, records, holder, Holding
<1>10. \A k : ApplyResidencyAction(k) => Pin(k) \/ Unload(k, FALSE)
  BY DEF ApplyResidencyAction, SetOrchestrationPin, UnloadOrchestrationResident
<1>. QED
  BY <1>1, <1>2, <1>3, <1>4, <1>5, <1>6, <1>7, <1>8, <1>9, <1>10 DEF Arrival

LEMMA SafetyInit == Init => IInv
<1>. SUFFICES ASSUME Init PROVE IInv  OBVIOUS
<1>1. Residency
  BY DEF Init, Residency, LeasesAreResident, OneModelPerRuntime,
         SharingIsAdvertised, Resident
<1>2. Calling
  <2>1. \A k \in Key : CallsOn(k) = {}  BY DEF Init, CallsOn
  <2>. QED  BY <2>1, FS_EmptySet DEF Init, Calling, CallsHaveLeases, CallsAreCounted
<1>3. Holding  BY DEF Init, Holding
<1>. QED  BY <1>1, <1>2, <1>3, TypeInit DEF IInv

LEMMA SafetyStep == IInv /\ [Next]_vars => IInv'
<1>. SUFFICES ASSUME IInv, [Next]_vars PROVE IInv'  OBVIOUS
<1>1. TypeInv'  BY TypeStep DEF IInv
<1>2. CASE UNCHANGED vars
  <2>1. Residency' /\ Calling' /\ Resident' = Resident
    BY <1>2, Moves DEF vars, records
  <2>2. UNCHANGED <<op, tx, cur, calls, leases>>  BY <1>2 DEF vars, holder
  <2>3. Holding'  BY <2>1, <2>2 DEF IInv, Holding, OwnerBusy, LeasesOf
  <2>. QED  BY <1>1, <2>1, <2>3 DEF IInv
<1>3. CASE Next
  BY <1>1, <1>3, AcquiringStep, RollingBackStep, DroppingStep, ArrivalStep
  DEF Next, HolderStep, IInv
<1>. QED  BY <1>2, <1>3

LEMMA Inductive == Spec => []IInv
BY SafetyInit, SafetyStep, PTL DEF Spec

-----------------------------------------------------------------------------
(* The theorems.                                                           *)

\* Every lease refers to a record, a one-model runtime never holds two models,
\* and leases share a resident only where requests.concurrent is advertised,
\* through evictions, rollbacks and failed unloads (acquire, acquire_many,
\* _make_runtime_exclusive, _make_room).
THEOREM ResidencyHolds == Spec => []Residency
<1>1. IInv => Residency  BY DEF IInv
<1>. QED  BY <1>1, Inductive, PTL

\* No interleaving of evictions, rollbacks, releases and unloads tears down
\* the handle of a thread that is inside adapter.invoke or adapter.cancel,
\* and active_calls is the number of those threads (begin_call, end_call,
\* cancel, _unload_record).
THEOREM CallsStaySafe == Spec => []CallsAreSafe
<1>1. IInv => HandleInUseStays
  BY DEF IInv, Residency, Calling, CallsHaveLeases, LeasesAreResident, HandleInUseStays
<1>2. IInv => CallsAreCounted  BY DEF IInv, Calling
<1>3. IInv => CallsAreSafe  BY <1>1, <1>2 DEF CallsAreSafe
<1>. QED  BY <1>3, Inductive, PTL

\* Once the release of an owner is deferred, no call starts under its leases
\* (begin_call).
THEOREM DeferredOwnersStayQuiet == Spec => DeferredOwnersStartNothing
<1>. DEFINE A == \A c \in inflight' \ inflight : c.lease.owner \notin deferred
<1>1. UNCHANGED inflight => A  OBVIOUS
<1>2. ASSUME NEW l, NEW c, NEW kind, BeginCall(c, kind, l) PROVE A
  <2>. DEFINE d == [caller |-> c, kind |-> kind, lease |-> l]
  <2>1. d.lease = l  OBVIOUS
  <2>2. inflight' = inflight \cup {d} /\ l.owner \notin deferred
    BY <1>2 DEF BeginCall
  <2>. QED  BY <2>1, <2>2
<1>3. ASSUME NEW d, EndCall(d) PROVE A
  BY <1>3 DEF EndCall
<1>4. HolderStep => UNCHANGED inflight
  BY DEF HolderStep, Acquiring, RollingBack, Dropping, ReuseResident,
         LoadRequested, Granted, RefuseResident, RefuseLoad, Evict, UndoLease,
         UndoneLeases, DiscardLoaded, Discarded, Restore, Restored, DropLease,
         OwnerDropped, VisitOwner
<1>5. Arrival => \/ UNCHANGED inflight
                 \/ \E l, c, kind : BeginCall(c, kind, l)
                 \/ \E d : EndCall(d)
  BY DEF Arrival, StartAcquire, StartBatch, ReleaseOwner, ReleaseOwnerAfterCalls,
         Release, Pin, ApplyResidencyAction, SetOrchestrationPin, Unload,
         UnloadOrchestrationResident, SetEvictionPolicy
<1>6. [Next]_vars => [A]_vars
  BY <1>1, <1>2, <1>3, <1>4, <1>5 DEF Next
<1>. QED  BY <1>6, PTL DEF Spec, DeferredOwnersStartNothing

-----------------------------------------------------------------------------
(* Owners whose release was deferred, when unloads do not fail.            *)

\* An owner on the deferred list is busy, or the loop that the end of a call
\* started has still to look at it, or is releasing it.
Draining ==
  /\ \A o \in deferred : OwnerBusy(o) \/ o \in visit \/ (op = "drop" /\ cur = o)
  /\ visit # {} => op \in {"drop", "drain"}

\* A step that ends no call, and releases only leases that no call uses,
\* leaves busy owners busy.
LEMMA StaysBusy ==
  ASSUME NEW o, OwnerBusy(o), UNCHANGED calls,
         \A l \in leases \ leases' : calls[l.key] = 0
  PROVE  OwnerBusy(o)'
BY DEF OwnerBusy, LeasesOf

LEMMA DrainingFrame ==
  ASSUME Draining, UNCHANGED <<calls, deferred, cur, visit>>,
         op' = op \/ op \notin {"drop", "drain"},
         \A l \in leases \ leases' : calls[l.key] = 0
  PROVE  Draining'
<1>1. \A o \in deferred : OwnerBusy(o) => OwnerBusy(o)'  BY StaysBusy
<1>. QED  BY <1>1 DEF Draining

LEMMA DrainingUnlocked ==
  ASSUME Draining, op \notin {"drop", "drain"}, UNCHANGED <<calls, deferred>>,
         visit' = {}, leases \subseteq leases'
  PROVE  Draining'
<1>1. \A o \in deferred : OwnerBusy(o) => OwnerBusy(o)'  BY StaysBusy
<1>. QED  BY <1>1 DEF Draining

LEMMA Steady == FlakyUnload = {} => \A l : ~ReleaseLocked(l, TRUE)
BY DEF ReleaseLocked, UnloadRaised

LEMMA ReleasedOnly ==
  ASSUME NEW l, NEW raised \in BOOLEAN, ReleaseLocked(l, raised), calls[l.key] = 0
  PROVE  \A m \in leases \ leases' : calls[m.key] = 0
BY DEF ReleaseLocked

LEMMA DrainingHolder ==
  ASSUME IInv, Draining, FlakyUnload = {}, HolderStep
  PROVE  Draining'
<1>1. ASSUME NEW i, ReuseResident(i) \/ LoadRequested(i) PROVE Draining'
  <2>1. PICK l : Granted(l) /\ op = "acquire"
    BY <1>1 DEF ReuseResident, LoadRequested
  <2>2. visit = {}  BY <2>1 DEF Draining
  <2>3. visit' = {} /\ leases \subseteq leases' /\ UNCHANGED <<calls, deferred>>
    BY <2>1, <2>2 DEF Granted, Unlock
  <2>. QED  BY <2>1, <2>3, DrainingUnlocked
<1>2. CASE RefuseResident \/ RefuseLoad \/ \E j \in Key : Evict(j)
  <2>1. op \notin {"drop", "drain"} /\ UNCHANGED <<calls, deferred, leases, cur, visit>>
    BY <1>2 DEF RefuseResident, RefuseLoad, Evict, RequestFails, Loading, holder
  <2>. QED  BY <2>1, DrainingFrame
<1>3. ASSUME NEW l \in tx.got, UndoLease(l) PROVE Draining'
  <2>1. \A m \in leases \ leases' : calls[m.key] = 0
    BY <1>3, ReleasedOnly DEF UndoLease
  <2>. QED  BY <1>3, <2>1, DrainingFrame DEF UndoLease
<1>4. CASE UndoneLeases \/ (\E k \in Key : DiscardLoaded(k)) \/ Discarded \/ Restore
  <2>1. op \notin {"drop", "drain"} /\ UNCHANGED <<calls, deferred, leases, cur, visit>>
    BY <1>4 DEF UndoneLeases, DiscardLoaded, Discarded, Restore
  <2>. QED  BY <2>1, DrainingFrame
<1>5. CASE Restored
  BY <1>5, DrainingUnlocked DEF Restored, Unlock
<1>6. ASSUME NEW l \in leases, DropLease(l) PROVE Draining'
  <2>1. ReleaseLocked(l, FALSE) /\ UNCHANGED <<calls, deferred, op, cur, visit>>
    BY <1>6, Steady DEF DropLease, holder
  <2>2. calls[l.key] = 0
    BY <1>6 DEF DropLease, IInv, Holding, OwnerBusy, LeasesOf
  <2>. QED  BY <2>1, <2>2, ReleasedOnly, DrainingFrame
<1>7. CASE OwnerDropped
  <2>1. /\ deferred' = deferred \ {cur} /\ visit' = visit
        /\ op = "drop" /\ (visit # {} => op' = "drain")
        /\ UNCHANGED <<calls, leases>>
    BY <1>7 DEF OwnerDropped
  <2>2. \A o \in deferred : OwnerBusy(o) => OwnerBusy(o)'
    BY <2>1, StaysBusy
  <2>. QED  BY <2>1, <2>2 DEF Draining
<1>8. ASSUME NEW o \in Owner, VisitOwner(o) PROVE Draining'
  <2>1. UNCHANGED <<calls, leases, deferred>>  BY <1>8 DEF VisitOwner
  <2>2. \A p \in deferred : OwnerBusy(p) => OwnerBusy(p)'
    BY <2>1, StaysBusy
  <2>. QED  BY <1>8, <2>1, <2>2 DEF VisitOwner, Draining
<1>. QED
  BY <1>1, <1>2, <1>3, <1>4, <1>5, <1>6, <1>7, <1>8
  DEF HolderStep, Acquiring, RollingBack, Dropping

LEMMA DrainingArrival ==
  ASSUME IInv, Draining, FlakyUnload = {}, Arrival
  PROVE  Draining'
<1>0. op = "idle" /\ visit = {}
  BY DEF Draining, Arrival, StartAcquire, StartBatch, ReleaseOwner,
         ReleaseOwnerAfterCalls, Release, BeginCall, EndCall, Pin,
         ApplyResidencyAction, SetOrchestrationPin, Unload,
         UnloadOrchestrationResident, SetEvictionPolicy
<1>1. ASSUME NEW o \in Owner,
             \/ \E r \in Single : StartAcquire(o, r)
             \/ \E rs \in Batch : StartBatch(o, rs)
             \/ ReleaseOwner(o)
      PROVE  Draining'
  <2>1. UNCHANGED <<calls, deferred, leases, visit>>
    BY <1>1 DEF StartAcquire, StartBatch, ReleaseOwner
  <2>. QED  BY <1>0, <2>1, DrainingUnlocked
<1>2. ASSUME NEW o \in Owner, ReleaseOwnerAfterCalls(o) PROVE Draining'
  <2>1. UNCHANGED <<calls, leases, visit>>  BY <1>2 DEF ReleaseOwnerAfterCalls
  <2>2. \A p : OwnerBusy(p) => OwnerBusy(p)'  BY <2>1, StaysBusy
  <2>. QED  BY <1>0, <1>2, <2>1, <2>2 DEF ReleaseOwnerAfterCalls, Draining
<1>3. ASSUME NEW l \in leases, Release(l) PROVE Draining'
  <2>1. \A m \in leases \ leases' : calls[m.key] = 0
    BY <1>3, ReleasedOnly DEF Release
  <2>. QED  BY <1>3, <2>1, DrainingFrame DEF Release, holder
<1>4. ASSUME NEW l \in leases, NEW c \in Caller, NEW kind \in {"invoke", "cancel"},
             BeginCall(c, kind, l)
      PROVE  Draining'
  <2>1. UNCHANGED <<leases, deferred, visit>> /\ l.owner \notin deferred
    BY <1>4 DEF BeginCall, holder
  <2>2. l.key \in Key /\ calls \in [Key -> Int]
    BY LeaseTypes DEF IInv, TypeInv, TypeOK
  <2>3. \A k \in Key : calls[k] >= 0
    <3>1. ASSUME NEW k \in Key PROVE calls[k] \in Nat
      <4>1. IsFiniteSet(CallsOn(k))  BY FS_Subset DEF IInv, Calling, CallsOn
      <4>. QED  BY <4>1, FS_CardinalityType DEF IInv, Calling, CallsAreCounted
    <3>. QED  BY <3>1
  <2>4. \A k \in Key : calls[k] # 0 => calls'[k] # 0
    BY <1>4, <2>2, <2>3 DEF BeginCall
  <2>5. \A m \in leases : m.key \in Key  BY LeaseTypes DEF IInv
  <2>6. \A o : OwnerBusy(o) => OwnerBusy(o)'
    BY <2>1, <2>4, <2>5 DEF OwnerBusy, LeasesOf
  <2>. QED  BY <1>0, <2>1, <2>6 DEF Draining
<1>5. ASSUME NEW d \in inflight, EndCall(d) PROVE Draining'
  BY <1>5 DEF EndCall, Draining
<1>6. ASSUME NEW k \in Key, Pin(k) \/ \E force \in BOOLEAN : Unload(k, force)
      PROVE  Draining'
  <2>1. UNCHANGED <<calls, deferred, leases, visit>>
    BY <1>6 DEF Pin, Unload, holder
  <2>. QED  BY <1>0, <2>1, DrainingUnlocked
<1>7. ASSUME NEW p, SetEvictionPolicy(p) PROVE Draining'
  <2>1. UNCHANGED <<calls, deferred, leases, visit>>
    BY <1>7 DEF SetEvictionPolicy, holder
  <2>. QED  BY <1>0, <2>1, DrainingUnlocked
<1>8. \A k : ApplyResidencyAction(k) => Pin(k) \/ Unload(k, FALSE)
  BY DEF ApplyResidencyAction, SetOrchestrationPin, UnloadOrchestrationResident
<1>. QED
  BY <1>1, <1>2, <1>3, <1>4, <1>5, <1>6, <1>7, <1>8 DEF Arrival

\* When no unload fails, an owner whose release was deferred always has a
\* call to wait for, whose end will release it (release_owner_after_calls,
\* _release_deferred_owners_locked).
THEOREM OwnersAreNotStranded ==
  ASSUME FlakyUnload = {}
  PROVE  Spec => []NoStrandedOwner
<1>1. Init => Draining  BY DEF Init, Draining
<1>2. IInv /\ Draining /\ [Next]_vars => Draining'
  <2>1. IInv /\ Draining /\ UNCHANGED vars => Draining'
    BY DrainingFrame DEF vars, holder
  <2>. QED  BY <2>1, DrainingHolder, DrainingArrival DEF Next
<1>3. Draining => NoStrandedOwner  BY DEF Draining, NoStrandedOwner
<1>. QED  BY <1>1, <1>2, <1>3, Inductive, PTL DEF Spec

-----------------------------------------------------------------------------
(* What a step does to the residents and their handles.                    *)

\* A record without a handle is one whose unload may raise.
Handles == \A k \in Resident : k \in live \cup FlakyUnload

\* k is unloaded, or should be, by a step that may do it.
TakenBack(k) == op = "discard" /\ k \in tx.discard
Leaving(k) ==
  /\ Unloaded(k) \/ UnloadRaised(k)
  /\ LeasesOn(k)' = {} /\ CallsOn(k) = {}
  /\ k \in pinned => Unload(k, TRUE) \/ TakenBack(k)
  /\ policy = "never" => TakenBack(k) \/ \E force \in BOOLEAN : Unload(k, force)

Staying == Resident' = Resident /\ UNCHANGED live

Entering ==
  \E k \in Key : /\ Resident' = Resident \cup {k}
                 /\ live' = live \cup {k} \/ (k \in FlakyUnload /\ UNCHANGED live)

RecordsMove == Staying \/ Entering \/ \E k \in Resident : Leaving(k)

LEMMA ReleaseMoves ==
  ASSUME IInv, NEW l \in leases, calls[l.key] = 0,
         NEW raised \in BOOLEAN, ReleaseLocked(l, raised)
  PROVE  RecordsMove
<1>. USE DEF IInv
<1>1. l.key \in Key /\ l.key \in Resident
  BY LeaseTypes DEF Residency, LeasesAreResident
<1>2. CallsOn(l.key) = {}  BY <1>1, Uncalled
<1>3. CASE Retained(l) /\ ~raised
  <2>1. \E s \in {"idle", "busy"} : state' = [state EXCEPT ![l.key] = s]
    BY <1>3 DEF ReleaseLocked
  <2>2. Resident' = Resident
    BY <1>1, <2>1 DEF Resident, TypeInv, TypeOK
  <2>. QED  BY <1>3, <2>2 DEF ReleaseLocked, RecordsMove, Staying
<1>4. CASE ~Retained(l)
  <2>1. leases' = leases \ {l} /\ (Unloaded(l.key) \/ UnloadRaised(l.key))
    BY <1>4 DEF ReleaseLocked
  <2>2. policy # "never" /\ l.key \notin pinned /\ LeasesOn(l.key) = {l}
    BY <1>4 DEF Retained
  <2>3. LeasesOn(l.key)' = {}  BY <2>1, <2>2 DEF LeasesOn
  <2>4. Leaving(l.key)  BY <1>2, <2>1, <2>2, <2>3 DEF Leaving
  <2>. QED  BY <1>1, <2>4 DEF RecordsMove
<1>. QED  BY <1>3, <1>4 DEF ReleaseLocked

LEMMA IdleMoves ==
  ASSUME IInv, NEW k \in Resident, CanUnload(k, FALSE) \/ CanUnload(k, TRUE),
         UNCHANGED leases, Unloaded(k) \/ UnloadRaised(k),
         k \in pinned => Unload(k, TRUE) \/ TakenBack(k),
         policy = "never" => TakenBack(k) \/ \E force \in BOOLEAN : Unload(k, force)
  PROVE  RecordsMove
<1>1. k \in Key  BY DEF Resident
<1>2. CallsOn(k) = {}  BY <1>1, Uncalled DEF IInv, CanUnload
<1>3. LeasesOn(k)' = {}  BY DEF LeasesOn, CanUnload
<1>. QED  BY <1>2, <1>3 DEF Leaving, RecordsMove

LEMMA HolderMoves ==
  ASSUME IInv, HolderStep PROVE RecordsMove
<1>. USE DEF IInv
<1>1. ASSUME NEW i \in FreeIds, ReuseResident(i) PROVE RecordsMove
  <2>. DEFINE k == Head(todo).key
  <2>1. state' = [state EXCEPT ![k] = "busy"] /\ k \in Resident /\ UNCHANGED live
    BY <1>1 DEF ReuseResident
  <2>2. Resident' = Resident  BY <2>1 DEF Resident, TypeInv, TypeOK
  <2>. QED  BY <2>1, <2>2 DEF RecordsMove, Staying
<1>2. ASSUME NEW i \in FreeIds, LoadRequested(i) PROVE RecordsMove
  <2>. DEFINE r == Head(todo)
  <2>1. todo # <<>> /\ Loaded(r.key, "busy", r.pin, r.orch)
    BY <1>2 DEF LoadRequested, Loading
  <2>2. r.key \in Key /\ r.pin \in BOOLEAN /\ r.orch \in BOOLEAN
    BY <2>1, HeadTypes
  <2>3. Resident' = Resident \cup {r.key}  BY <2>1, <2>2, Loads
  <2>4. live' = live \cup {r.key}  BY <2>1 DEF Loaded
  <2>. QED  BY <2>2, <2>3, <2>4 DEF RecordsMove, Entering
<1>3. CASE RefuseResident \/ RefuseLoad \/ UndoneLeases \/ Discarded \/ Restored
           \/ OwnerDropped \/ \E o \in Owner : VisitOwner(o)
  <2>1. UNCHANGED <<state, live>>
    BY <1>3 DEF RefuseResident, RefuseLoad, UndoneLeases, Discarded, Restored,
                OwnerDropped, VisitOwner, records
  <2>. QED  BY <2>1, SameRecords DEF RecordsMove, Staying
<1>4. ASSUME NEW j \in Key, Evict(j) PROVE RecordsMove
  <2>1. /\ CanUnload(j, FALSE) /\ policy = "lru" /\ UNCHANGED leases
        /\ Unloaded(j) \/ UnloadRaised(j)
    BY <1>4 DEF Evict
  <2>2. j \in Resident /\ j \notin pinned
    BY <1>4 DEF Evict, EvictFor, Idle, Oldest
  <2>. QED  BY <2>1, <2>2, IdleMoves
<1>5. ASSUME NEW l \in tx.got, UndoLease(l) PROVE RecordsMove
  <2>1. l \in leases  BY <1>5 DEF UndoLease, Holding
  <2>2. CASE UNCHANGED <<records, leases>>
    BY <2>2, SameRecords DEF RecordsMove, Staying, records
  <2>. QED  BY <1>5, <2>1, <2>2, ReleaseMoves DEF UndoLease
<1>6. ASSUME NEW k \in Key, DiscardLoaded(k) PROVE RecordsMove
  <2>1. /\ TakenBack(k) /\ CanUnload(k, TRUE) /\ UNCHANGED leases
        /\ Unloaded(k) \/ UnloadRaised(k)
    BY <1>6 DEF DiscardLoaded, TakenBack
  <2>2. k \in Resident  BY <2>1 DEF TakenBack, Holding
  <2>. QED  BY <2>1, <2>2, IdleMoves
<1>7. CASE Restore
  <2>. DEFINE k == Head(todo).key
  <2>1. todo # <<>>  BY <1>7 DEF Restore, Loading
  <2>2. k \in Key /\ Head(todo).orch \in BOOLEAN  BY <2>1, HeadTypes
  <2>3. CASE Loaded(k, "idle", FALSE, Head(todo).orch)
    <3>1. Resident' = Resident \cup {k}  BY <2>2, <2>3, Loads
    <3>2. live' = live \cup {k}  BY <2>3 DEF Loaded
    <3>. QED  BY <2>2, <3>1, <3>2 DEF RecordsMove, Entering
  <2>4. CASE UNCHANGED <<records, tx>>
    BY <2>4, SameRecords DEF RecordsMove, Staying, records
  <2>5. CASE k \in FlakyUnload /\ state' = [state EXCEPT ![k] = "failed"] /\ UNCHANGED live
    <3>1. Resident' = Resident \cup {k}
      BY <2>2, <2>5 DEF Resident, TypeInv, TypeOK
    <3>. QED  BY <2>2, <2>5, <3>1 DEF RecordsMove, Entering
  <2>. QED  BY <1>7, <2>3, <2>4, <2>5 DEF Restore
<1>8. ASSUME NEW l \in leases, DropLease(l) PROVE RecordsMove
  <2>1. PICK raised \in BOOLEAN : ReleaseLocked(l, raised)  BY <1>8 DEF DropLease
  <2>2. calls[l.key] = 0  BY <1>8 DEF DropLease, Holding, OwnerBusy, LeasesOf
  <2>. QED  BY <2>1, <2>2, ReleaseMoves
<1>. QED
  BY <1>1, <1>2, <1>3, <1>4, <1>5, <1>6, <1>7, <1>8
  DEF HolderStep, Acquiring, RollingBack, Dropping

LEMMA ArrivalMoves ==
  ASSUME IInv, Arrival PROVE RecordsMove
<1>. USE DEF IInv
<1>1. ASSUME NEW o \in Owner,
             \/ \E r \in Single : StartAcquire(o, r)
             \/ \E rs \in Batch : StartBatch(o, rs)
             \/ ReleaseOwner(o) \/ ReleaseOwnerAfterCalls(o)
      PROVE  RecordsMove
  <2>1. UNCHANGED <<state, live>>
    BY <1>1 DEF StartAcquire, StartBatch, ReleaseOwner, ReleaseOwnerAfterCalls, records
  <2>. QED  BY <2>1, SameRecords DEF RecordsMove, Staying
<1>2. ASSUME NEW l \in leases, Release(l) PROVE RecordsMove
  BY <1>2, ReleaseMoves DEF Release
<1>3. ASSUME NEW l \in leases, NEW c \in Caller, NEW kind \in {"invoke", "cancel"},
             BeginCall(c, kind, l)
      PROVE  RecordsMove
  <2>1. l.key \in Key /\ l.key \in Resident /\ UNCHANGED live
    BY <1>3, LeaseTypes DEF BeginCall, Residency, LeasesAreResident
  <2>2. \/ state' = [state EXCEPT ![l.key] = "busy"]
        \/ state' = [state EXCEPT ![l.key] = state[l.key]]
    BY <1>3 DEF BeginCall
  <2>3. Resident' = Resident  BY <2>1, <2>2 DEF Resident, TypeInv, TypeOK
  <2>. QED  BY <2>1, <2>3 DEF RecordsMove, Staying
<1>4. CASE \/ \E d \in inflight : EndCall(d)
           \/ \E k \in Key : Pin(k)
           \/ \E p \in {"lru", "never"} : SetEvictionPolicy(p)
  <2>1. UNCHANGED <<state, live>>
    BY <1>4 DEF EndCall, Pin, SetEvictionPolicy, records
  <2>. QED  BY <2>1, SameRecords DEF RecordsMove, Staying
<1>5. ASSUME NEW k \in Key, NEW force \in BOOLEAN, Unload(k, force) PROVE RecordsMove
  <2>1. /\ k \in Resident /\ CanUnload(k, force) /\ UNCHANGED leases
        /\ Unloaded(k) \/ UnloadRaised(k)
    BY <1>5 DEF Unload
  <2>2. k \in pinned => force  BY <2>1 DEF CanUnload
  <2>3. k \in pinned => Unload(k, TRUE)  BY <1>5, <2>2
  <2>. QED  BY <1>5, <2>1, <2>3, IdleMoves
<1>6. \A k : ApplyResidencyAction(k) => Pin(k) \/ Unload(k, FALSE)
  BY DEF ApplyResidencyAction, SetOrchestrationPin, UnloadOrchestrationResident
<1>. QED  BY <1>1, <1>2, <1>3, <1>4, <1>5, <1>6 DEF Arrival

LEMMA Moving == IInv /\ Next => RecordsMove
BY HolderMoves, ArrivalMoves DEF Next

LEMMA HandlesStep == IInv /\ Handles /\ [Next]_vars => Handles'
<1>. SUFFICES ASSUME IInv, Handles, [Next]_vars PROVE Handles'  OBVIOUS
<1>1. CASE UNCHANGED vars
  BY <1>1, SameRecords DEF vars, records, Handles
<1>2. CASE Staying  BY <1>2 DEF Staying, Handles
<1>3. CASE Entering  BY <1>3 DEF Entering, Handles
<1>4. ASSUME NEW k \in Resident, Leaving(k) PROVE Handles'
  <2>1. k \in Key /\ state \in [Key -> {"absent", "idle", "busy", "failed"}]
    BY DEF Resident, IInv, TypeInv, TypeOK
  <2>2. CASE Unloaded(k)
    <3>1. Resident' = Resident \ {k}  BY <2>1, <2>2 DEF Unloaded, Resident
    <3>. QED  BY <2>2, <3>1 DEF Unloaded, Handles
  <2>3. CASE UnloadRaised(k)
    <3>1. Resident' = Resident  BY <2>1, <2>3 DEF UnloadRaised, Resident
    <3>. QED  BY <2>3, <3>1 DEF UnloadRaised, Handles
  <2>. QED  BY <1>4, <2>2, <2>3 DEF Leaving
<1>. QED  BY <1>1, <1>2, <1>3, <1>4, Moving DEF RecordsMove

\* Whoever holds a lease has a handle that the adapter still knows, unless the
\* unload of that model may raise (_unload_record, acquire).
THEOREM LeasesKeepTheirHandles == Spec => []LeasesAreLive
<1>1. Init => Handles  BY DEF Init, Handles, Resident
<1>2. IInv /\ Handles => LeasesAreLive
  BY DEF IInv, Residency, LeasesAreResident, Handles, LeasesAreLive
<1>. QED  BY <1>1, <1>2, HandlesStep, Inductive, PTL DEF Spec

-----------------------------------------------------------------------------
(* What a batch remembers, and what is left of it while it is rolled back. *)

\* The leases are those the batch found and those it got, until an error of
\* the rollback is noted.
Collecting ==
  op \in {"acquire", "undo"} /\ tx.batch
    => \/ tx.errors
       \/ tx.got \cap tx.leases = {} /\ leases = tx.leases \cup tx.got

\* Only a batch is rolled back.
UndoingBatch == op = "undo" => tx.batch

\* The leases are back; what the batch loaded has still to go.
Discarding ==
  op = "discard" =>
    /\ tx.errors \/ leases = tx.leases
    /\ tx.discard \cap tx.resident = {}
    /\ tx.errors \/ Resident \subseteq tx.resident \cup tx.discard

\* Everything the batch loaded is gone, and only what was resident returns.
Restoring ==
  op = "restore" =>
    /\ tx.errors \/ (leases = tx.leases /\ Resident \subseteq tx.resident)
    /\ \A i \in 1..Len(todo) : todo[i].key \in tx.resident

History == Collecting /\ UndoingBatch /\ Discarding /\ Restoring

LEMMA TxKeeps ==
  ASSUME NEW t \in Tx, NEW g, NEW b, NEW d
  PROVE  LET u == [t EXCEPT !.got = g]
             v == [t EXCEPT !.got = g, !.errors = b]
             w == [t EXCEPT !.discard = d]
             x == [t EXCEPT !.discard = d, !.errors = b]
             y == [t EXCEPT !.errors = b]
         IN /\ u.batch = t.batch /\ u.got = g /\ u.leases = t.leases /\ u.errors = t.errors
            /\ v.batch = t.batch /\ v.got = g /\ v.leases = t.leases /\ v.errors = b
            /\ w.resident = t.resident /\ w.discard = d /\ w.leases = t.leases /\ w.errors = t.errors
            /\ x.resident = t.resident /\ x.discard = d /\ x.leases = t.leases /\ x.errors = b
            /\ y.resident = t.resident /\ y.leases = t.leases /\ y.errors = b
BY DEF Tx

LEMMA KeysOfTail ==
  ASSUME NEW s \in Seq(Request), s # <<>>, NEW S,
         \A i \in 1..Len(s) : s[i].key \in S
  PROVE  /\ Head(s).key \in S
         /\ \A i \in 1..Len(Tail(s)) : Tail(s)[i].key \in S
<1>1. Len(s) \in Nat /\ Len(s) # 0  BY EmptySeq, LenProperties
<1>2. Head(s) = s[1]  BY <1>1
<1>3. Len(Tail(s)) = Len(s) - 1  BY HeadTailProperties
<1>4. ASSUME NEW i \in 1..Len(Tail(s)) PROVE Tail(s)[i].key \in S
  <2>1. i + 1 \in 1..Len(s)  BY <1>1, <1>3
  <2>2. Tail(s)[i] = s[i + 1]  BY <1>1, <1>3
  <2>. QED  BY <2>1, <2>2
<1>. QED  BY <1>1, <1>2, <1>4

LEMMA HistoryElsewhere ==
  ASSUME op' \in {"idle", "drop", "drain"} PROVE History'
BY DEF History, Collecting, UndoingBatch, Discarding, Restoring

LEMMA FailedRequestRemembers ==
  ASSUME IInv, History, RequestFails, UNCHANGED leases,
         op = "restore" => todo # <<>>
  PROVE  History'
<1>. USE DEF IInv, TypeInv, TypeOK
<1>1. CASE op' = "idle"  BY <1>1, HistoryElsewhere
<1>2. CASE op = "acquire" /\ tx.batch /\ op' = "undo" /\ UNCHANGED tx
  BY <1>2 DEF History, Collecting, UndoingBatch, Discarding, Restoring
<1>3. CASE /\ op = "restore" /\ op' = op /\ todo' = Tail(todo)
           /\ tx' = [tx EXCEPT !.errors = TRUE]
  <2>1. tx \in Tx /\ todo \in Seq(Request) /\ todo # <<>>  BY <1>3
  <2>2. tx'.errors /\ tx'.resident = tx.resident  BY <1>3, <2>1, TxKeeps
  <2>3. \A i \in 1..Len(todo) : todo[i].key \in tx.resident
    BY <1>3 DEF History, Restoring
  <2>4. \A i \in 1..Len(todo') : todo'[i].key \in tx'.resident
    BY <1>3, <2>1, <2>2, <2>3, KeysOfTail
  <2>. QED
    BY <1>3, <2>2, <2>4 DEF History, Collecting, UndoingBatch, Discarding, Restoring
<1>. QED  BY <1>1, <1>2, <1>3 DEF RequestFails

LEMMA GrantRemembers ==
  ASSUME IInv, History, op = "acquire", NEW l, l \notin leases, Granted(l)
  PROVE  History'
<1>. USE DEF IInv, TypeInv, TypeOK
<1>1. CASE Len(todo) = 1
  BY <1>1, HistoryElsewhere DEF Granted, Unlock
<1>2. CASE Len(todo) # 1
  <2>1. /\ op' = "acquire" /\ leases' = leases \cup {l}
        /\ tx' = [tx EXCEPT !.got = tx.got \cup {l}]
    BY <1>2 DEF Granted
  <2>2. /\ tx'.batch = tx.batch /\ tx'.got = tx.got \cup {l}
        /\ tx'.leases = tx.leases /\ tx'.errors = tx.errors
    <3>1. tx \in Tx  OBVIOUS
    <3>. QED  BY <2>1, <3>1, TxKeeps
  <2>3. Collecting'  BY <2>1, <2>2 DEF History, Collecting
  <2>. QED  BY <2>1, <2>3 DEF History, UndoingBatch, Discarding, Restoring
<1>. QED  BY <1>1, <1>2

LEMMA AcquiringRemembers ==
  ASSUME IInv, History, Acquiring PROVE History'
<1>1. ASSUME NEW i \in FreeIds, ReuseResident(i) \/ LoadRequested(i) PROVE History'
  <2>. DEFINE l == [id |-> i, key |-> Head(todo).key, owner |-> tx.owner]
  <2>1. l.id = i  OBVIOUS
  <2>2. l \notin leases  BY <2>1 DEF FreeIds
  <2>3. op = "acquire" /\ Granted(l)  BY <1>1 DEF ReuseResident, LoadRequested
  <2>. HIDE DEF l
  <2>. QED  BY <2>2, <2>3, GrantRemembers
<1>2. CASE RefuseResident
  BY <1>2, FailedRequestRemembers DEF RefuseResident
<1>3. CASE RefuseLoad
  BY <1>3, FailedRequestRemembers DEF RefuseLoad, Loading
<1>4. ASSUME NEW j \in Key, Evict(j) PROVE History'
  <2>1. UNCHANGED leases /\ todo # <<>> /\ op \in {"acquire", "restore"}
    BY <1>4 DEF Evict, Loading
  <2>2. CASE RequestFails  BY <2>1, <2>2, FailedRequestRemembers
  <2>3. CASE Unloaded(j) /\ UNCHANGED holder
    <3>1. j \in Resident  BY <1>4 DEF Evict, EvictFor, Idle, Oldest
    <3>2. Resident' \subseteq Resident  BY <2>3, <3>1, Unloads DEF IInv
    <3>3. UNCHANGED <<op, todo, tx>>  BY <2>3 DEF holder
    <3>. QED
      BY <2>1, <3>2, <3>3 DEF History, Collecting, UndoingBatch, Discarding, Restoring
  <2>. QED  BY <1>4, <2>2, <2>3 DEF Evict
<1>. QED  BY <1>1, <1>2, <1>3, <1>4 DEF Acquiring

LEMMA RollingBackRemembers ==
  ASSUME IInv, History, RollingBack PROVE History'
<1>. USE DEF IInv
<1>0. tx \in Tx /\ todo \in Seq(Request)  BY DEF TypeInv, TypeOK
<1>1. ASSUME NEW l \in tx.got, UndoLease(l) PROVE History'
  <2>1. op = "undo" /\ op' = "undo"  BY <1>1 DEF UndoLease
  <2>2. tx.batch /\ (\/ tx.errors
                     \/ tx.got \cap tx.leases = {} /\ leases = tx.leases \cup tx.got)
    BY <2>1 DEF History, Collecting, UndoingBatch
  <2>3. CASE tx' = [tx EXCEPT !.got = tx.got \ {l}, !.errors = TRUE]
    <3>1. tx'.batch = tx.batch /\ tx'.errors  BY <1>0, <2>3, TxKeeps
    <3>. QED
      BY <2>1, <2>2, <3>1 DEF History, Collecting, UndoingBatch, Discarding, Restoring
  <2>4. ASSUME NEW raised \in BOOLEAN, ReleaseLocked(l, raised),
               tx' = [tx EXCEPT !.got = tx.got \ {l}, !.errors = tx.errors \/ raised]
        PROVE  History'
    <3>1. leases' = leases \ {l}  BY <2>4 DEF ReleaseLocked
    <3>2. /\ tx'.batch = tx.batch /\ tx'.got = tx.got \ {l}
          /\ tx'.leases = tx.leases /\ tx'.errors = (tx.errors \/ raised)
      BY <1>0, <2>4, TxKeeps
    <3>3. Collecting'  BY <2>2, <3>1, <3>2 DEF Collecting
    <3>. QED
      BY <2>1, <2>2, <3>2, <3>3 DEF History, UndoingBatch, Discarding, Restoring
  <2>. QED  BY <1>1, <2>3, <2>4 DEF UndoLease
<1>2. CASE UndoneLeases
  <2>1. /\ op = "undo" /\ tx.got = {} /\ op' = "discard"
        /\ tx' = [tx EXCEPT !.discard = Resident \ tx.resident]
        /\ UNCHANGED <<state, leases>>
    BY <1>2 DEF UndoneLeases, records
  <2>2. Resident' = Resident  BY <2>1, SameRecords
  <2>3. /\ tx'.resident = tx.resident /\ tx'.discard = Resident \ tx.resident
        /\ tx'.leases = tx.leases /\ tx'.errors = tx.errors
    BY <1>0, <2>1, TxKeeps
  <2>4. tx.errors \/ leases = tx.leases
    BY <2>1 DEF History, Collecting, UndoingBatch
  <2>5. Discarding'  BY <2>1, <2>2, <2>3, <2>4 DEF Discarding
  <2>. QED  BY <2>1, <2>5 DEF History, Collecting, UndoingBatch, Restoring
<1>3. ASSUME NEW k \in Key, DiscardLoaded(k) PROVE History'
  <2>1. op = "discard" /\ op' = op /\ k \in tx.discard /\ UNCHANGED leases
    BY <1>3 DEF DiscardLoaded
  <2>2. CASE Unloaded(k) /\ tx' = [tx EXCEPT !.discard = tx.discard \ {k}]
    <3>1. Resident' = Resident \ {k}
      BY <2>2 DEF Unloaded, Resident, TypeInv, TypeOK
    <3>2. /\ tx'.resident = tx.resident /\ tx'.discard = tx.discard \ {k}
          /\ tx'.leases = tx.leases /\ tx'.errors = tx.errors
      BY <1>0, <2>2, TxKeeps
    <3>3. Discarding'  BY <2>1, <3>1, <3>2 DEF History, Discarding
    <3>. QED  BY <2>1, <3>3 DEF History, Collecting, UndoingBatch, Restoring
  <2>3. CASE tx' = [tx EXCEPT !.discard = tx.discard \ {k}, !.errors = TRUE]
    <3>1. /\ tx'.resident = tx.resident /\ tx'.discard = tx.discard \ {k} /\ tx'.errors
      BY <1>0, <2>3, TxKeeps
    <3>2. Discarding'  BY <2>1, <3>1 DEF History, Discarding
    <3>. QED  BY <2>1, <3>2 DEF History, Collecting, UndoingBatch, Restoring
  <2>. QED  BY <1>3, <2>2, <2>3 DEF DiscardLoaded
<1>4. CASE Discarded
  <2>1. /\ op = "discard" /\ tx.discard = {} /\ op' = "restore"
        /\ UNCHANGED <<state, leases, tx>>
    BY <1>4 DEF Discarded, records
  <2>2. Resident' = Resident  BY <2>1, SameRecords
  <2>3. PICK s \in Orderings(tx.resident \ Resident) :
          todo' = [i \in DOMAIN s |-> RestoreRequest(s[i])]
    BY <1>4 DEF Discarded
  <2>4. \A i \in 1..Len(todo') : todo'[i].key \in tx.resident
    <3>. DEFINE n == Cardinality(tx.resident \ Resident)
    <3>1. n \in Nat
      BY <1>0, TxFields, FS_Subset, FS_CardinalityType, KeyAssumption
    <3>2. s \in [1..n -> tx.resident \ Resident]  BY DEF Orderings
    <3>3. todo' = [i \in 1..n |-> RestoreRequest(s[i])]  BY <2>3, <3>2
    <3>. HIDE DEF n
    <3>4. Len(todo') = n  BY <3>1, <3>3
    <3>. QED  BY <3>2, <3>3, <3>4 DEF RestoreRequest
  <2>5. Restoring'  BY <2>1, <2>2, <2>4 DEF History, Discarding, Restoring
  <2>. QED  BY <2>1, <2>5 DEF History, Collecting, UndoingBatch, Discarding
<1>5. CASE Restore
  <2>. DEFINE k == Head(todo).key
  <2>1. /\ todo # <<>> /\ op = "restore" /\ op' = op /\ todo' = Tail(todo)
        /\ UNCHANGED leases
    BY <1>5 DEF Restore, Loading
  <2>2. k \in Key /\ Head(todo).orch \in BOOLEAN  BY <2>1, HeadTypes
  <2>3. \A i \in 1..Len(todo) : todo[i].key \in tx.resident
    BY <2>1 DEF History, Restoring
  <2>4. k \in tx.resident /\ \A i \in 1..Len(todo') : todo'[i].key \in tx.resident
    BY <1>0, <2>1, <2>3, KeysOfTail
  <2>5. CASE Resident' \subseteq Resident \cup {k} /\ UNCHANGED tx
    <3>1. Restoring'  BY <2>1, <2>4, <2>5 DEF History, Restoring
    <3>. QED  BY <2>1, <3>1 DEF History, Collecting, UndoingBatch, Discarding
  <2>6. CASE tx' = [tx EXCEPT !.errors = TRUE]
    <3>1. tx'.resident = tx.resident /\ tx'.errors  BY <1>0, <2>6, TxKeeps
    <3>2. Restoring'  BY <2>1, <2>4, <3>1 DEF Restoring
    <3>. QED  BY <2>1, <3>2 DEF History, Collecting, UndoingBatch, Discarding
  <2>7. CASE Loaded(k, "idle", FALSE, Head(todo).orch) /\ UNCHANGED tx
    <3>1. Resident' = Resident \cup {k}  BY <2>2, <2>7, Loads
    <3>. QED  BY <2>5, <2>7, <3>1
  <2>8. CASE UNCHANGED <<records, tx>>
    <3>1. Resident' = Resident  BY <2>8, SameRecords DEF records
    <3>. QED  BY <2>5, <2>8, <3>1
  <2>. QED  BY <1>5, <2>6, <2>7, <2>8 DEF Restore
<1>6. CASE Restored
  BY <1>6, HistoryElsewhere DEF Restored, Unlock
<1>7. RollingBack => \/ \E l \in tx.got : UndoLease(l)
                     \/ UndoneLeases
                     \/ \E k \in Key : DiscardLoaded(k)
                     \/ Discarded \/ Restore \/ Restored
  BY DEF RollingBack
<1>. QED  BY <1>1, <1>2, <1>3, <1>4, <1>5, <1>6, <1>7

LEMMA StartRemembers ==
  ASSUME IInv, NEW o \in Owner,
         \/ \E r \in Single : StartAcquire(o, r)
         \/ \E rs \in Batch : StartBatch(o, rs)
  PROVE  History'
<1>1. op' = "acquire" /\ UNCHANGED leases  BY DEF StartAcquire, StartBatch
<1>2. CASE tx' = [NoTx EXCEPT !.owner = o]
  <2>1. ~tx'.batch  BY <1>2 DEF NoTx
  <2>. QED
    BY <1>1, <2>1 DEF History, Collecting, UndoingBatch, Discarding, Restoring
<1>3. CASE tx' = [NoTx EXCEPT !.batch = TRUE, !.owner = o, !.leases = leases,
                              !.resident = Resident, !.owned = owned]
  <2>1. tx'.got = {} /\ tx'.leases = leases  BY <1>3 DEF NoTx
  <2>. QED
    BY <1>1, <2>1 DEF History, Collecting, UndoingBatch, Discarding, Restoring
<1>. QED  BY <1>2, <1>3 DEF StartAcquire, StartBatch

LEMMA HistoryStep == IInv /\ History /\ [Next]_vars => History'
<1>. SUFFICES ASSUME IInv, History, [Next]_vars PROVE History'  OBVIOUS
<1>1. CASE UNCHANGED vars
  <2>1. UNCHANGED <<op, todo, tx, leases, state>>  BY <1>1 DEF vars, records, holder
  <2>2. Resident' = Resident  BY <2>1, SameRecords
  <2>. QED
    BY <2>1, <2>2 DEF History, Collecting, UndoingBatch, Discarding, Restoring
<1>2. CASE Dropping
  BY <1>2, HistoryElsewhere
  DEF Dropping, DropLease, OwnerDropped, VisitOwner, Unlock, holder
<1>3. CASE Arrival
  <2>1. \/ op' \in {"idle", "drop", "drain"}
        \/ \E o \in Owner : \/ \E r \in Single : StartAcquire(o, r)
                            \/ \E rs \in Batch : StartBatch(o, rs)
    BY <1>3 DEF Arrival, ReleaseOwner, ReleaseOwnerAfterCalls, Release, BeginCall,
                EndCall, Pin, ApplyResidencyAction, SetOrchestrationPin, Unload,
                UnloadOrchestrationResident, SetEvictionPolicy, holder
  <2>. QED  BY <2>1, HistoryElsewhere, StartRemembers
<1>. QED
  BY <1>1, <1>2, <1>3, AcquiringRemembers, RollingBackRemembers DEF Next, HolderStep

LEMMA HistoryHolds == Spec => []History
<1>1. Init => History
  BY DEF Init, History, Collecting, UndoingBatch, Discarding, Restoring
<1>. QED  BY <1>1, HistoryStep, Inductive, PTL DEF Spec

\* A record leaves only when it has no lease and no adapter call, a pinned one
\* only by a forced unload or with the batch that loaded it, and under the
\* policy never only at a user's wish or with its batch (_unload_record,
\* _release_locked, acquire_many).
THEOREM OnlyIdleRecordsLeave == Spec => OnlyIdleLeaves
<1>. DEFINE A == \A k \in Resident \ Resident' :
       LET takenBack == op = "discard" /\ k \notin tx.resident IN
       /\ LeasesOn(k)' = {} /\ CallsOn(k) = {}
       /\ k \in pinned => Unload(k, TRUE) \/ takenBack
       /\ policy = "never" => takenBack \/ \E force \in BOOLEAN : Unload(k, force)
<1>1. \A k : History /\ TakenBack(k) => op = "discard" /\ k \notin tx.resident
  BY DEF History, Discarding, TakenBack
<1>2. ASSUME IInv, History, NEW j \in Resident, Leaving(j) PROVE A
  <2>1. Resident \ {j} \subseteq Resident'
    BY <1>2, Unloads DEF Leaving, IInv
  <2>. QED  BY <1>1, <1>2, <2>1 DEF Leaving
<1>3. Staying \/ Entering => A  BY DEF Staying, Entering
<1>4. IInv /\ History /\ Next => A
  <2>. HIDE DEF A
  <2>. QED  BY <1>2, <1>3, Moving DEF RecordsMove
<1>5. IInv /\ History /\ [Next]_vars => [A]_vars  BY <1>4
<1>. QED  BY <1>5, Inductive, HistoryHolds, PTL DEF Spec, OnlyIdleLeaves

\* A batch that fails and whose rollback notes no error leaves the leases it
\* found and no model that was not resident before (acquire_many).
THEOREM FailedBatchesLeaveNothing == Spec => FailedBatchLeavesNothing
<1>. DEFINE A == op = "restore" /\ op' = "idle" /\ ~tx.errors
                   => leases' = tx.leases /\ Resident' \subseteq tx.resident
<1>1. Next /\ op = "restore" /\ op' = "idle" => Restored
  BY DEF Next, HolderStep, Acquiring, RollingBack, Dropping, Arrival,
         ReuseResident, LoadRequested, RefuseResident, RefuseLoad, Evict, RequestFails,
         UndoLease, UndoneLeases, DiscardLoaded, Discarded, Restore,
         DropLease, OwnerDropped, VisitOwner, StartAcquire, StartBatch, ReleaseOwner,
         ReleaseOwnerAfterCalls, Release, BeginCall, EndCall, Pin,
         ApplyResidencyAction, SetOrchestrationPin, Unload,
         UnloadOrchestrationResident, SetEvictionPolicy, holder
<1>2. Restored => UNCHANGED leases /\ Resident' = Resident
  BY SameRecords DEF Restored, records
<1>3. History /\ Next => A
  BY <1>1, <1>2 DEF History, Restoring
<1>4. History /\ [Next]_vars => [A]_vars  BY <1>3
<1>. QED  BY <1>4, HistoryHolds, PTL DEF Spec, FailedBatchLeavesNothing

-----------------------------------------------------------------------------
(* Refinement.                                                             *)

Seen   == <<Resident, leases, deferred, inflight>>
Served == [LeaseService!Next]_Seen

-----------------------------------------------------------------------------
(* The steps of the service, in the words of the scheduler.                *)

LEMMA ServeNothing ==
  ASSUME UNCHANGED <<Resident, leases, deferred, inflight>> PROVE Served
BY DEF Served, Seen

LEMMA ServeStart ==
  ASSUME NEW k \in Key, Resident' = Resident \cup {k},
         UNCHANGED <<leases, deferred, inflight>>
  PROVE  Served
<1>1. LeaseService!Start(k)  BY DEF LeaseService!Start
<1>. QED  BY <1>1 DEF Served, LeaseService!Next

LEMMA ServeStop ==
  ASSUME NEW k \in Key, LeasesOn(k) = {}, Resident' = Resident \ {k},
         UNCHANGED <<leases, deferred, inflight>>
  PROVE  Served
<1>1. LeaseService!Stop(k)
  BY DEF LeaseService!Stop, LeaseService!HeldOn, LeasesOn
<1>. QED  BY <1>1 DEF Served, LeaseService!Next

LEMMA ServeGrant ==
  ASSUME NEW l \in Lease,
         LeasesOn(l.key) = {} \/ RuntimeOf[l.key] \in Concurrent,
         leases' = leases \cup {l}, Resident' = Resident \cup {l.key},
         UNCHANGED <<deferred, inflight>>
  PROVE  Served
<1>1. l.key \in Key  BY LeaseFields
<1>2. LeaseService!Grant(l)
  BY <1>1 DEF LeaseService!Grant, LeaseService!HeldOn, LeasesOn
<1>. QED  BY <1>2 DEF Served, LeaseService!Next

LEMMA ServeReturn ==
  ASSUME NEW l \in Lease, \A u \in inflight : u.lease # l,
         leases' = leases \ {l},
         \/ Resident' = Resident
         \/ LeasesOn(l.key) = {l} /\ Resident' = Resident \ {l.key},
         UNCHANGED <<deferred, inflight>>
  PROVE  Served
<1>1. LeaseService!Return(l)
  BY DEF LeaseService!Return, LeaseService!HeldOn, LeasesOn
<1>. QED  BY <1>1 DEF Served, LeaseService!Next

-----------------------------------------------------------------------------
(* What the pieces of actions do to the residents.                         *)

LEMMA UnloadServed ==
  ASSUME TypeInv, NEW k \in Resident, LeasesOn(k) = {},
         Unloaded(k) \/ UnloadRaised(k),
         UNCHANGED <<leases, deferred, inflight>>
  PROVE  Served
<1>1. k \in Key /\ state \in [Key -> {"absent", "idle", "busy", "failed"}]
  BY DEF Resident, TypeInv, TypeOK
<1>2. CASE Unloaded(k)
  <2>1. Resident' = Resident \ {k}  BY <1>1, <1>2 DEF Unloaded, Resident
  <2>. QED  BY <1>1, <2>1, ServeStop
<1>3. CASE UnloadRaised(k)
  <2>1. Resident' = Resident  BY <1>1, <1>3 DEF UnloadRaised, Resident
  <2>. QED  BY <2>1, ServeNothing
<1>. QED  BY <1>2, <1>3

LEMMA ReleaseServed ==
  ASSUME IInv, NEW l \in leases, calls[l.key] = 0,
         NEW raised \in BOOLEAN, ReleaseLocked(l, raised),
         UNCHANGED <<calls, deferred, inflight>>
  PROVE  Served
<1>. USE DEF IInv
<1>1. l \in Lease /\ l.key \in Key /\ l.key \in Resident
  BY LeaseTypes DEF Residency, LeasesAreResident
<1>2. leases' = leases \ {l}  BY DEF ReleaseLocked
<1>3. \A u \in inflight : u.lease # l  BY <1>1, Uncalled DEF CallsOn
<1>4. state \in [Key -> {"absent", "idle", "busy", "failed"}]
  BY DEF TypeInv, TypeOK
<1>5. \/ LeasesOn(l.key) = {l} /\ Unloaded(l.key)
      \/ \E s \in {"idle", "busy", "failed"} : state' = [state EXCEPT ![l.key] = s]
  BY DEF ReleaseLocked, Retained, UnloadRaised
<1>6. CASE LeasesOn(l.key) = {l} /\ Unloaded(l.key)
  <2>1. Resident' = Resident \ {l.key}
    BY <1>1, <1>4, <1>6 DEF Unloaded, Resident
  <2>. QED  BY <1>1, <1>2, <1>3, <1>6, <2>1, ServeReturn
<1>7. CASE \E s \in {"idle", "busy", "failed"} : state' = [state EXCEPT ![l.key] = s]
  <2>1. Resident' = Resident  BY <1>1, <1>4, <1>7 DEF Resident
  <2>. QED  BY <1>1, <1>2, <1>3, <2>1, ServeReturn
<1>. QED  BY <1>5, <1>6, <1>7

\* An owner is busy exactly when something it holds is in use.
LEMMA BusyOwner ==
  ASSUME IInv, NEW o \in Owner, OwnerBusy(o)
  PROVE  \E u \in inflight, l \in leases : l.owner = o /\ l.key = u.lease.key
<1>1. PICK l \in leases : l.owner = o /\ calls[l.key] # 0
  BY DEF OwnerBusy, LeasesOf
<1>2. l.key \in Key  BY LeaseTypes DEF IInv
<1>3. calls[l.key] = Cardinality(CallsOn(l.key))
  BY <1>2 DEF IInv, Calling, CallsAreCounted
<1>4. CallsOn(l.key) # {}  BY <1>1, <1>3, FS_EmptySet
<1>5. PICK u \in inflight : u.lease.key = l.key  BY <1>4 DEF CallsOn
<1>. QED  BY <1>1, <1>5

LEMMA QuietOwner ==
  ASSUME IInv, NEW o, ~OwnerBusy(o)
  PROVE  \A u \in inflight : u.lease.owner # o
<1>. SUFFICES ASSUME NEW u \in inflight, u.lease.owner = o PROVE FALSE
  OBVIOUS
<1>1. u.lease \in leases  BY DEF IInv, Calling, CallsHaveLeases
<1>2. calls[u.lease.key] = 0  BY <1>1 DEF OwnerBusy, LeasesOf
<1>3. u.lease.key \in Key  BY <1>1, LeaseTypes DEF IInv
<1>. QED  BY <1>2, <1>3, Uncalled DEF IInv, CallsOn

LEMMA SettleServed ==
  ASSUME IInv, NEW o, ~OwnerBusy(o), deferred' = deferred \ {o},
         UNCHANGED <<state, leases, inflight>>
  PROVE  Served
<1>1. Resident' = Resident  BY SameRecords
<1>2. CASE o \in Owner
  <2>1. LeaseService!Settle(o)
    BY <1>1, QuietOwner DEF LeaseService!Settle
  <2>. QED  BY <1>2, <2>1 DEF Served, LeaseService!Next
<1>3. CASE o \notin Owner
  <2>1. deferred' = deferred  BY <1>3 DEF IInv, TypeInv, TypeOK
  <2>. QED  BY <1>1, <2>1, ServeNothing
<1>. QED  BY <1>2, <1>3

-----------------------------------------------------------------------------
(* The actions.                                                            *)

LEMMA AcquiringServed ==
  ASSUME IInv, Acquiring PROVE Served
<1>. USE DEF IInv
<1>1. ASSUME NEW i \in FreeIds, ReuseResident(i) PROVE Served
  <2>. DEFINE k == Head(todo).key
  <2>. DEFINE l == [id |-> i, key |-> k, owner |-> tx.owner]
  <2>1. op = "acquire" /\ todo # <<>> /\ tx.owner \in Owner
    BY <1>1 DEF ReuseResident, TypeInv, RequestOK
  <2>2. k \in Key /\ k \in Resident  BY <1>1, <2>1, HeadTypes DEF ReuseResident
  <2>3. l \in Lease /\ l.key = k  BY <2>1, <2>2, NewLease DEF FreeIds
  <2>4. leases' = leases \cup {l} /\ UNCHANGED <<deferred, inflight>>
    BY <1>1 DEF ReuseResident, Granted
  <2>5. LeasesOn(k) = {} \/ RuntimeOf[k] \in Concurrent
    BY <1>1 DEF ReuseResident, MayShare
  <2>6. Resident' = Resident \cup {k}
    BY <1>1, <2>2 DEF ReuseResident, Resident, TypeInv, TypeOK
  <2>. HIDE DEF l
  <2>. QED  BY <2>3, <2>4, <2>5, <2>6, ServeGrant
<1>2. ASSUME NEW i \in FreeIds, LoadRequested(i) PROVE Served
  <2>. DEFINE k == Head(todo).key
  <2>. DEFINE l == [id |-> i, key |-> k, owner |-> tx.owner]
  <2>1. op = "acquire" /\ todo # <<>> /\ tx.owner \in Owner
    BY <1>2 DEF LoadRequested, TypeInv, RequestOK
  <2>2. /\ k \in Key /\ k \notin Resident
        /\ Head(todo).pin \in BOOLEAN /\ Head(todo).orch \in BOOLEAN
    BY <1>2, <2>1, HeadTypes DEF LoadRequested, Loading
  <2>3. l \in Lease /\ l.key = k  BY <2>1, <2>2, NewLease DEF FreeIds
  <2>4. leases' = leases \cup {l} /\ UNCHANGED <<deferred, inflight>>
    BY <1>2 DEF LoadRequested, Granted
  <2>5. Resident' = Resident \cup {k}
    BY <1>2, <2>2, Loads DEF LoadRequested
  <2>6. LeasesOn(k) = {}
    BY <2>2 DEF LeasesOn, Residency, LeasesAreResident
  <2>. HIDE DEF l
  <2>. QED  BY <2>3, <2>4, <2>5, <2>6, ServeGrant
<1>3. CASE RefuseResident \/ RefuseLoad
  BY <1>3, SameRecords, ServeNothing DEF RefuseResident, RefuseLoad, records
<1>4. ASSUME NEW j \in Key, Evict(j) PROVE Served
  <2>1. /\ Unloaded(j) \/ UnloadRaised(j)
        /\ LeasesOn(j) = {}
        /\ UNCHANGED <<leases, deferred, inflight>>
    BY <1>4 DEF Evict, CanUnload
  <2>2. j \in Resident  BY <1>4 DEF Evict, EvictFor, Idle, Oldest
  <2>. QED  BY <2>1, <2>2, UnloadServed
<1>. QED  BY <1>1, <1>2, <1>3, <1>4 DEF Acquiring

LEMMA RollingBackServed ==
  ASSUME IInv, RollingBack PROVE Served
<1>. USE DEF IInv
<1>1. ASSUME NEW l \in tx.got, UndoLease(l) PROVE Served
  <2>1. l \in leases /\ UNCHANGED <<calls, deferred, inflight>>
    BY <1>1 DEF UndoLease, Holding
  <2>2. CASE UNCHANGED <<records, leases>>
    BY <2>1, <2>2, SameRecords, ServeNothing DEF records
  <2>3. ASSUME NEW raised \in BOOLEAN, calls[l.key] = 0, ReleaseLocked(l, raised)
        PROVE  Served
    BY <2>1, <2>3, ReleaseServed
  <2>. QED  BY <1>1, <2>2, <2>3 DEF UndoLease
<1>2. CASE UndoneLeases \/ Discarded \/ Restored
  BY <1>2, SameRecords, ServeNothing DEF UndoneLeases, Discarded, Restored, records
<1>3. ASSUME NEW k \in Key, DiscardLoaded(k) PROVE Served
  <2>1. /\ k \in tx.discard /\ LeasesOn(k) = {} /\ op = "discard"
        /\ Unloaded(k) \/ UnloadRaised(k)
        /\ UNCHANGED <<leases, deferred, inflight>>
    BY <1>3 DEF DiscardLoaded, CanUnload
  <2>2. k \in Resident  BY <2>1 DEF Holding
  <2>. QED  BY <2>1, <2>2, UnloadServed
<1>4. CASE Restore
  <2>. DEFINE k == Head(todo).key
  <2>1. todo # <<>> /\ UNCHANGED <<leases, deferred, inflight>>
    BY <1>4 DEF Restore, Loading
  <2>2. k \in Key /\ Head(todo).orch \in BOOLEAN  BY <2>1, HeadTypes
  <2>3. CASE Loaded(k, "idle", FALSE, Head(todo).orch)
    <3>1. Resident' = Resident \cup {k}  BY <2>2, <2>3, Loads
    <3>. QED  BY <2>1, <2>2, <3>1, ServeStart
  <2>4. CASE UNCHANGED <<records, tx>>
    BY <2>1, <2>4, SameRecords, ServeNothing DEF records
  <2>5. CASE state' = [state EXCEPT ![k] = "failed"]
    <3>1. Resident' = Resident \cup {k}
      BY <2>2, <2>5 DEF Resident, TypeInv, TypeOK
    <3>. QED  BY <2>1, <2>2, <3>1, ServeStart
  <2>. QED  BY <1>4, <2>3, <2>4, <2>5 DEF Restore
<1>5. RollingBack => \/ \E l \in tx.got : UndoLease(l)
                     \/ UndoneLeases \/ Discarded \/ Restored
                     \/ \E k \in Key : DiscardLoaded(k)
                     \/ Restore
  BY DEF RollingBack
<1>. QED  BY <1>1, <1>2, <1>3, <1>4, <1>5

LEMMA DroppingServed ==
  ASSUME IInv, Dropping PROVE Served
<1>. USE DEF IInv
<1>1. ASSUME NEW l \in leases, DropLease(l) PROVE Served
  <2>1. PICK raised \in BOOLEAN : ReleaseLocked(l, raised)  BY <1>1 DEF DropLease
  <2>2. op = "drop" /\ l.owner = cur /\ UNCHANGED <<calls, deferred, inflight>>
    BY <1>1 DEF DropLease
  <2>3. calls[l.key] = 0  BY <2>2 DEF Holding, OwnerBusy, LeasesOf
  <2>. QED  BY <2>1, <2>2, <2>3, ReleaseServed
<1>2. CASE OwnerDropped
  <2>1. ~OwnerBusy(cur)  BY <1>2 DEF OwnerDropped, Holding
  <2>. QED  BY <1>2, <2>1, SettleServed DEF OwnerDropped, records
<1>3. ASSUME NEW o \in Owner, VisitOwner(o) PROVE Served
  BY <1>3, SameRecords, ServeNothing DEF VisitOwner, records
<1>. QED  BY <1>1, <1>2, <1>3 DEF Dropping

LEMMA ArrivalServed ==
  ASSUME IInv, Arrival PROVE Served
<1>. USE DEF IInv
<1>1. ASSUME NEW o \in Owner,
             \/ \E r \in Single : StartAcquire(o, r)
             \/ \E rs \in Batch : StartBatch(o, rs)
             \/ ReleaseOwner(o)
      PROVE  Served
  BY <1>1, SameRecords, ServeNothing
  DEF StartAcquire, StartBatch, ReleaseOwner, records
<1>2. ASSUME NEW o \in Owner, ReleaseOwnerAfterCalls(o) PROVE Served
  <2>1. UNCHANGED <<state, leases, inflight>>
    BY <1>2 DEF ReleaseOwnerAfterCalls, records
  <2>2. CASE OwnerBusy(o) /\ deferred' = deferred \cup {o}
    <3>1. Resident' = Resident  BY <2>1, SameRecords
    <3>2. LeaseService!Retire(o)
      BY <2>1, <2>2, <3>1, BusyOwner DEF LeaseService!Retire
    <3>. QED  BY <3>2 DEF Served, LeaseService!Next
  <2>3. CASE ~OwnerBusy(o) /\ deferred' = deferred \ {o}
    BY <2>1, <2>3, SettleServed
  <2>. QED  BY <1>2, <2>2, <2>3 DEF ReleaseOwnerAfterCalls
<1>3. ASSUME NEW l \in leases, Release(l) PROVE Served
  BY <1>3, ReleaseServed DEF Release
<1>4. ASSUME NEW l \in leases, NEW c \in Caller, NEW kind \in {"invoke", "cancel"},
             BeginCall(c, kind, l)
      PROVE  Served
  <2>. DEFINE d == [caller |-> c, kind |-> kind, lease |-> l]
  <2>1. l \in Lease /\ l.key \in Key /\ l.key \in Resident
    BY LeaseTypes DEF Residency, LeasesAreResident
  <2>2. /\ l.owner \notin deferred /\ inflight' = inflight \cup {d}
        /\ UNCHANGED <<leases, deferred>>
    BY <1>4 DEF BeginCall
  <2>3. Resident' = Resident
    <3>1. \/ state' = [state EXCEPT ![l.key] = "busy"]
          \/ state' = [state EXCEPT ![l.key] = state[l.key]]
      BY <1>4 DEF BeginCall
    <3>. QED  BY <2>1, <3>1 DEF Resident, TypeInv, TypeOK
  <2>4. d \in Call /\ d.lease = l  BY <2>1 DEF Call
  <2>. HIDE DEF d
  <2>5. LeaseService!Begin(d)  BY <2>2, <2>3, <2>4 DEF LeaseService!Begin
  <2>. QED  BY <2>4, <2>5 DEF Served, LeaseService!Next
<1>5. ASSUME NEW d \in inflight, EndCall(d) PROVE Served
  <2>1. /\ inflight' = inflight \ {d} /\ Resident' = Resident
        /\ UNCHANGED <<leases, deferred>>
    BY <1>5, SameRecords DEF EndCall, records
  <2>2. LeaseService!End(d)  BY <2>1 DEF LeaseService!End
  <2>3. d \in Call  BY DEF TypeInv, TypeOK
  <2>. QED  BY <2>2, <2>3 DEF Served, LeaseService!Next
<1>6. ASSUME NEW k \in Key, Pin(k) PROVE Served
  BY <1>6, SameRecords, ServeNothing DEF Pin
<1>7. ASSUME NEW k \in Key, NEW force \in BOOLEAN, Unload(k, force) PROVE Served
  BY <1>7, UnloadServed DEF Unload, CanUnload
<1>8. ASSUME NEW p \in {"lru", "never"}, SetEvictionPolicy(p) PROVE Served
  BY <1>8, SameRecords, ServeNothing DEF SetEvictionPolicy, records
<1>9. \A k : ApplyResidencyAction(k) => Pin(k) \/ Unload(k, FALSE)
  BY DEF ApplyResidencyAction, SetOrchestrationPin, UnloadOrchestrationResident
<1>. QED
  BY <1>1, <1>2, <1>3, <1>4, <1>5, <1>6, <1>7, <1>8, <1>9 DEF Arrival

LEMMA ServedInit == Init => LeaseService!Init
BY DEF Init, Resident, LeaseService!Init

LEMMA ServedStep == IInv /\ [Next]_vars => Served
<1>. SUFFICES ASSUME IInv, [Next]_vars PROVE Served  OBVIOUS
<1>1. CASE UNCHANGED vars
  BY <1>1, SameRecords, ServeNothing DEF vars, records
<1>2. CASE Next
  BY <1>2, AcquiringServed, RollingBackServed, DroppingServed, ArrivalServed
  DEF Next, HolderStep
<1>. QED  BY <1>1, <1>2

-----------------------------------------------------------------------------
\* Whatever the scheduler evicts, rolls back or puts off, its users see
\* leases that are granted, used and returned as LeaseService says (acquire,
\* acquire_many, release, begin_call, cancel, _unload_record).
THEOREM SchedulerServesLeases == Spec => ServesLeases
<1>1. Served => [LeaseService!Next]_(LeaseService!svars)
  BY DEF Served, Seen, LeaseService!svars
<1>. QED
  BY <1>1, ServedInit, ServedStep, Inductive, PTL
  DEF Spec, ServesLeases, LeaseService!Spec

=============================================================================
