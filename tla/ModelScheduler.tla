--------------------------- MODULE ModelScheduler ---------------------------
(***************************************************************************)
(* The residency and lease scheduler of aidream/model_scheduler.py.        *)
(*                                                                         *)
(* One RLock, _mutation_lock, protects every record, and adapter.load and  *)
(* adapter.unload run under it.  The methods that do one thing under the   *)
(* lock are one action here; the ones that loop (acquire, acquire_many,    *)
(* the release of all the leases of an owner) are a sequence of steps with *)
(* op naming what the holder of the lock is doing, so that an adapter that *)
(* raises in the middle of a loop leaves exactly what the code leaves.     *)
(* Only adapter.invoke and adapter.cancel run outside the lock: inflight   *)
(* is the set of those calls, a fact about the threads of the program that *)
(* the scheduler itself only knows through the counter active_calls.       *)
(***************************************************************************)
EXTENDS Integers, Sequences, FiniteSets

CONSTANTS
  Key,            \* (model, runtime, profile) triples
  ModelOf,        \* the model of a key
  RuntimeOf,      \* the runtime of a key
  MultiResident,  \* runtimes that advertise models.multi_resident
  Concurrent,     \* runtimes that advertise requests.concurrent
  LeaseId,        \* ids a lease may get (bounds the leases held at once)
  Owner,          \* owner ids: a run, or a direct chat
  None,           \* no owner
  Caller,         \* threads that may be inside adapter.invoke or cancel
  Single,         \* requests made through acquire
  Batch,          \* sequences of requests made through acquire_many
  KeepLast,       \* keep_last_model_loaded
  FlakyUnload,    \* keys whose adapter.unload may raise
  Allowlist       \* residents the orchestration controls may touch

Request == [key : Key, conc : BOOLEAN, pin : BOOLEAN, orch : BOOLEAN]
Lease   == [id : LeaseId, key : Key, owner : Owner]
Call    == [caller : Caller, kind : {"invoke", "cancel"}, lease : Lease]

ASSUME KeyAssumption ==
  /\ IsFiniteSet(Key)
  /\ FlakyUnload \subseteq Key
  /\ Allowlist \subseteq Key
ASSUME CallerAssumption == IsFiniteSet(Caller)
ASSUME RequestAssumption ==
  /\ Single \subseteq Request
  /\ Batch \subseteq Seq(Request)
ASSUME OwnerAssumption == None \notin Owner
ASSUME PolicyAssumption == KeepLast \in BOOLEAN

VARIABLES
  state,     \* record.state, "absent" when no record has the key
  pinned,    \* keys whose record is pinned
  owned,     \* keys whose record is orchestration_owned
  age,       \* 0 for the most recently used record, 1 for the one before ...
  calls,     \* record.active_calls
  live,      \* keys whose handle the runtime adapter still knows
  leases,    \* the dictionary _leases
  deferred,  \* _deferred_release_owners
  policy,    \* eviction_policy
  inflight,  \* adapter calls some thread is executing outside the lock
  op,        \* what the holder of _mutation_lock is doing
  todo,      \* requests acquire, acquire_many or its rollback still serves
  tx,        \* what acquire_many remembers in order to roll back
  cur,       \* the owner whose leases are being released
  visit      \* owners the deferred release loop has still to look at

records  == <<state, pinned, owned, age, live>>
holder   == <<op, todo, tx, cur, visit>>
vars     == <<records, calls, leases, deferred, policy, inflight, holder>>

-----------------------------------------------------------------------------
(* Reading the records.                                                    *)

Resident      == {k \in Key : state[k] # "absent"}
LeasesOn(k)   == {l \in leases : l.key = k}
LeasesOf(o)   == {l \in leases : l.owner = o}
CallsOn(k)    == {c \in inflight : c.lease.key = k}
OwnerBusy(o)  == \E l \in LeasesOf(o) : calls[l.key] # 0
Idle          == {k \in Resident : LeasesOn(k) = {} /\ k \notin pinned}
Oldest(S)     == {k \in S : \A j \in S : age[j] <= age[k]}
FreeIds       == {i \in LeaseId : \A l \in leases : l.id # i}

\* Models that must leave before k can be loaded on a one-model runtime.
Siblings(k) ==
  {j \in Resident : /\ RuntimeOf[k] \notin MultiResident
                    /\ RuntimeOf[j] = RuntimeOf[k]
                    /\ ModelOf[j] # ModelOf[k]}

\* last_used_at of k becomes the latest; a key new to the records enters.
Touched(k) ==
  [j \in Key |->
     IF j = k THEN 0
     ELSE IF j \in Resident /\ (k \notin Resident \/ age[j] < age[k])
          THEN age[j] + 1 ELSE age[j]]
\* k leaves the records.
Forgotten(k) ==
  [j \in Key |->
     IF j = k THEN 0
     ELSE IF age[j] > age[k] THEN age[j] - 1 ELSE age[j]]

NoTx == [batch |-> FALSE, owner |-> None, got |-> {}, errors |-> FALSE,
         resident |-> {}, owned |-> {}, leases |-> {}, discard |-> {}]

-----------------------------------------------------------------------------
(* Pieces of actions.                                                      *)

CanUnload(k, force) ==
  LeasesOn(k) = {} /\ calls[k] = 0 /\ (force \/ k \notin pinned)

\* Mutant: the record of an unloaded model is not popped.
UnloadedNotPopped(k) ==
  /\ state' = [state EXCEPT ![k] = "idle"]
  /\ live' = live \ {k}
  /\ UNCHANGED <<pinned, owned, age>>

\* _unload_record when adapter.unload returns.
Unloaded(k) ==
  /\ state' = [state EXCEPT ![k] = "absent"]
  /\ pinned' = pinned \ {k}
  /\ owned' = owned \ {k}
  /\ live' = live \ {k}
  /\ age' = Forgotten(k)

\* Mutant: the record is left in the state "unloading".
UnloadRaisedUnmarked(k) ==
  /\ k \in FlakyUnload
  /\ state' = [state EXCEPT ![k] = "unloading"]
  /\ live' = live \ {k}
  /\ UNCHANGED <<pinned, owned, age>>

\* ... and when it raises: the record stays, but the adapter has already
\* dropped the handle (runtime_adapters.py pops it before backend.unload).
UnloadRaised(k) ==
  /\ k \in FlakyUnload
  /\ state' = [state EXCEPT ![k] = "failed"]
  /\ live' = live \ {k}
  /\ UNCHANGED <<pinned, owned, age>>

\* adapter.load returned a handle for k; the record enters in state s.
Loaded(k, s, pin, orch) ==
  /\ state' = [state EXCEPT ![k] = s]
  /\ pinned' = IF pin THEN pinned \cup {k} ELSE pinned
  /\ owned' = IF orch THEN owned \cup {k} ELSE owned
  /\ live' = live \cup {k}
  /\ age' = Touched(k)

\* Mutant: a release unloads a pinned model.
RetainedUnlessIdle(l) == KeepLast \/ policy # "lru" \/ LeasesOn(l.key) # {l}

\* Does a release of l leave its record resident?
Retained(l) ==
  \/ KeepLast
  \/ policy # "lru"
  \/ l.key \in pinned
  \/ LeasesOn(l.key) # {l}

\* _release_locked past its guards.
ReleaseLocked(l, raised) ==
  /\ leases' = leases \ {l}
  /\ \/ /\ Retained(l) /\ ~raised
        /\ state' = [state EXCEPT ![l.key] =
                       IF LeasesOn(l.key) = {l} THEN "idle" ELSE "busy"]
        /\ age' = Touched(l.key)
        /\ UNCHANGED <<pinned, owned, live>>
     \/ ~Retained(l) /\ ~raised /\ Unloaded(l.key)
     \/ ~Retained(l) /\ raised /\ UnloadRaised(l.key)

Unlock == /\ op' = "idle"
          /\ todo' = <<>>
          /\ tx' = NoTx
          /\ cur' = None
          /\ visit' = {}

\* The head of todo cannot be served: acquire raises, acquire_many starts its
\* rollback, and the rollback notes the error and goes on with the next one.
RequestFails ==
  /\ UNCHANGED <<cur, visit>>
  /\ \/ op = "acquire" /\ ~tx.batch /\ op' = "idle" /\ todo' = <<>> /\ tx' = NoTx
     \/ op = "acquire" /\ tx.batch /\ op' = "undo" /\ todo' = <<>> /\ UNCHANGED tx
     \/ /\ op = "restore"
        /\ todo' = Tail(todo)
        /\ tx' = [tx EXCEPT !.errors = TRUE]
        /\ UNCHANGED op

Init ==
  /\ state = [k \in Key |-> "absent"]
  /\ pinned = {} /\ owned = {} /\ live = {}
  /\ age = [k \in Key |-> 0]
  /\ calls = [k \in Key |-> 0]
  /\ leases = {} /\ deferred = {} /\ inflight = {}
  /\ policy \in {"lru", "never"}
  /\ op = "idle" /\ todo = <<>> /\ tx = NoTx /\ cur = None /\ visit = {}

-----------------------------------------------------------------------------
(* acquire and acquire_many.                                               *)

StartAcquire(o, r) ==
  /\ op = "idle" /\ FreeIds # {}
  /\ op' = "acquire"
  /\ todo' = <<r>>
  /\ tx' = [NoTx EXCEPT !.owner = o]
  /\ UNCHANGED <<records, calls, leases, deferred, policy, inflight, cur, visit>>

\* Past the preflight, which may refuse the batch before anything changes.
StartBatch(o, rs) ==
  /\ op = "idle" /\ Cardinality(FreeIds) >= Len(rs) /\ rs # <<>>
  /\ op' = "acquire"
  /\ todo' = rs
  /\ tx' = [NoTx EXCEPT !.batch = TRUE, !.owner = o, !.leases = leases,
                        !.resident = Resident, !.owned = owned]
  /\ UNCHANGED <<records, calls, leases, deferred, policy, inflight, cur, visit>>

\* The request at the head of todo is answered with lease l.
Granted(l) ==
  /\ leases' = leases \cup {l}
  /\ UNCHANGED <<calls, deferred, policy, inflight>>
  /\ IF Len(todo) = 1
     THEN Unlock
     ELSE /\ todo' = Tail(todo)
          /\ tx' = [tx EXCEPT !.got = @ \cup {l}]
          /\ UNCHANGED <<op, cur, visit>>

\* Mutant: the caller's wish to share is enough.
MayShareOnRequest(r) == LeasesOn(r.key) = {} \/ r.conc

MayShare(r) ==
  LeasesOn(r.key) = {} \/ (r.conc /\ RuntimeOf[r.key] \in Concurrent)

\* acquire finds a record for the key and leases it.
ReuseResident(i) ==
  /\ op = "acquire"
  /\ Head(todo).key \in Resident
  /\ MayShare(Head(todo))
  /\ LET k == Head(todo).key IN
       /\ Granted([id |-> i, key |-> k, owner |-> tx.owner])
       /\ state' = [state EXCEPT ![k] = "busy"]
       /\ pinned' = IF Head(todo).pin THEN pinned \cup {k} ELSE pinned
       /\ age' = Touched(k)
       /\ UNCHANGED <<owned, live>>

RefuseResident ==
  /\ op = "acquire"
  /\ Head(todo).key \in Resident
  /\ ~MayShare(Head(todo))
  /\ RequestFails
  /\ UNCHANGED <<records, calls, leases, deferred, policy, inflight>>

Loading == op \in {"acquire", "restore"} /\ todo # <<>> /\ Head(todo).key \notin Resident

\* The runtime is unavailable, the model incompatible, a sibling is busy or
\* pinned, the policy forbids the eviction, nothing idle is left to evict,
\* or prepare or load raised.
RefuseLoad ==
  /\ Loading
  /\ RequestFails
  /\ UNCHANGED <<records, calls, leases, deferred, policy, inflight>>

\* _make_runtime_exclusive, then _make_room: the oldest goes first.
EvictFor(k, j) ==
  \/ j \in Oldest(Siblings(k)) /\ j \in Idle
  \/ Siblings(k) = {} /\ j \in Oldest(Idle)

Evict(j) ==
  /\ Loading /\ policy = "lru"
  /\ EvictFor(Head(todo).key, j)
  /\ CanUnload(j, FALSE)
  /\ \/ Unloaded(j) /\ UNCHANGED holder
     \/ UnloadRaised(j) /\ RequestFails
  /\ UNCHANGED <<calls, leases, deferred, policy, inflight>>

LoadRequested(i) ==
  /\ op = "acquire" /\ Loading
  /\ Siblings(Head(todo).key) = {}
  /\ LET r == Head(todo) IN
       /\ Loaded(r.key, "busy", r.pin, r.orch)
       /\ Granted([id |-> i, key |-> r.key, owner |-> tx.owner])

-----------------------------------------------------------------------------
(* The rollback of acquire_many.                                           *)

\* Release what the batch holds.  active_calls is counted on the record, so
\* a call made under another lease on it makes the release BUSY.
UndoLease(l) ==
  /\ op = "undo" /\ l \in tx.got
  /\ \/ /\ calls[l.key] # 0
        /\ tx' = [tx EXCEPT !.got = @ \ {l}, !.errors = TRUE]
        /\ UNCHANGED <<records, leases>>
     \/ /\ calls[l.key] = 0
        /\ \E raised \in BOOLEAN :
             /\ ReleaseLocked(l, raised)
             /\ tx' = [tx EXCEPT !.got = @ \ {l}, !.errors = @ \/ raised]
  /\ UNCHANGED <<calls, deferred, policy, inflight, op, todo, cur, visit>>

\* Mutant: what the batch loaded is forgotten.
UndoneLeasesOnly ==
  /\ op = "undo" /\ tx.got = {}
  /\ op' = "discard"
  /\ UNCHANGED <<records, calls, leases, deferred, policy, inflight, todo, tx, cur, visit>>

UndoneLeases ==
  /\ op = "undo" /\ tx.got = {}
  /\ op' = "discard"
  /\ tx' = [tx EXCEPT !.discard = Resident \ tx.resident]
  /\ UNCHANGED <<records, calls, leases, deferred, policy, inflight, todo, cur, visit>>

\* Unload, by force, what the batch loaded.
DiscardLoaded(k) ==
  /\ op = "discard" /\ k \in tx.discard
  /\ CanUnload(k, TRUE)
  /\ \/ Unloaded(k) /\ tx' = [tx EXCEPT !.discard = @ \ {k}]
     \/ UnloadRaised(k) /\ tx' = [tx EXCEPT !.discard = @ \ {k}, !.errors = TRUE]
  /\ UNCHANGED <<calls, leases, deferred, policy, inflight, op, todo, cur, visit>>

\* The orders in which the elements of S may be visited.
Orderings(S) ==
  {s \in [1..Cardinality(S) -> S] :
     \A i, j \in 1..Cardinality(S) : s[i] = s[j] => i = j}
RestoreRequest(k) ==
  [key |-> k, conc |-> FALSE, pin |-> FALSE, orch |-> k \in tx.owned]

Discarded ==
  /\ op = "discard" /\ tx.discard = {}
  /\ op' = "restore"
  /\ \E s \in Orderings(tx.resident \ Resident) :
       todo' = [i \in DOMAIN s |-> RestoreRequest(s[i])]
  /\ UNCHANGED <<records, calls, leases, deferred, policy, inflight, tx, cur, visit>>

\* Load an evicted resident again and release it at once, which unloads it
\* when the scheduler does not keep idle models.
Restore ==
  /\ op = "restore" /\ Loading
  /\ Siblings(Head(todo).key) = {}
  /\ todo' = Tail(todo)
  /\ LET k == Head(todo).key
         keep == KeepLast \/ policy # "lru"
     IN \/ keep /\ Loaded(k, "idle", FALSE, Head(todo).orch) /\ UNCHANGED tx
        \/ ~keep /\ UNCHANGED <<records, tx>>
        \/ /\ ~keep /\ k \in FlakyUnload
           /\ state' = [state EXCEPT ![k] = "failed"]
           /\ owned' = IF Head(todo).orch THEN owned \cup {k} ELSE owned
           /\ age' = Touched(k)
           /\ tx' = [tx EXCEPT !.errors = TRUE]
           /\ UNCHANGED <<pinned, live>>
  /\ UNCHANGED <<calls, leases, deferred, policy, inflight, op, cur, visit>>

Restored ==
  /\ op = "restore" /\ todo = <<>>
  /\ Unlock
  /\ UNCHANGED <<records, calls, leases, deferred, policy, inflight>>

-----------------------------------------------------------------------------
(* release, release_owner, release_owner_after_calls.                      *)

\* Mutant: the guard against active calls is missing.
ReleaseDuringCall(l) ==
  /\ op = "idle"
  /\ \E raised \in BOOLEAN : ReleaseLocked(l, raised)
  /\ UNCHANGED <<calls, deferred, policy, inflight, holder>>

Release(l) ==
  /\ op = "idle" /\ calls[l.key] = 0
  /\ \E raised \in BOOLEAN : ReleaseLocked(l, raised)
  /\ UNCHANGED <<calls, deferred, policy, inflight, holder>>

ReleaseOwner(o) ==
  /\ op = "idle" /\ ~OwnerBusy(o)
  /\ op' = "drop" /\ cur' = o
  /\ UNCHANGED <<records, calls, leases, deferred, policy, inflight, todo, tx, visit>>

ReleaseOwnerAfterCalls(o) ==
  /\ op = "idle"
  /\ \/ /\ OwnerBusy(o)
        /\ deferred' = deferred \cup {o}
        /\ UNCHANGED <<op, cur>>
     \/ /\ ~OwnerBusy(o)
        /\ deferred' = deferred \ {o}
        /\ op' = "drop" /\ cur' = o
  /\ UNCHANGED <<records, calls, leases, policy, inflight, todo, tx, visit>>

\* One turn of _release_owner_locked; an unload that raises ends the loop.
DropLease(l) ==
  /\ op = "drop" /\ l.owner = cur
  /\ \/ ReleaseLocked(l, FALSE) /\ UNCHANGED holder
     \/ ReleaseLocked(l, TRUE) /\ Unlock
  /\ UNCHANGED <<calls, deferred, policy, inflight>>

OwnerDropped ==
  /\ op = "drop" /\ LeasesOf(cur) = {}
  /\ deferred' = deferred \ {cur}
  /\ op' = IF visit = {} THEN "idle" ELSE "drain"
  /\ cur' = None
  /\ UNCHANGED <<records, calls, leases, policy, inflight, todo, tx, visit>>

\* One turn of _release_deferred_owners_locked.
VisitOwner(o) ==
  /\ op = "drain" /\ o \in visit
  /\ visit' = visit \ {o}
  /\ \/ ~OwnerBusy(o) /\ op' = "drop" /\ cur' = o
     \/ /\ OwnerBusy(o)
        /\ op' = IF visit = {o} THEN "idle" ELSE "drain"
        /\ UNCHANGED cur
  /\ UNCHANGED <<records, calls, leases, deferred, policy, inflight, todo, tx>>

-----------------------------------------------------------------------------
(* begin_call, end_call and cancel.                                        *)

Free(c) == \A d \in inflight : d.caller # c

\* Mutant: a call may start while the owner's release is pending.
BeginCallDeferred(c, kind, l) ==
  /\ op = "idle" /\ Free(c)
  /\ calls' = [calls EXCEPT ![l.key] = @ + 1]
  /\ inflight' = inflight \cup {[caller |-> c, kind |-> kind, lease |-> l]}
  /\ UNCHANGED <<records, leases, deferred, policy, holder>>

\* A thread enters adapter.invoke (after begin_call) or adapter.cancel.
BeginCall(c, kind, l) ==
  /\ op = "idle" /\ Free(c)
  /\ l.owner \notin deferred
  /\ calls' = [calls EXCEPT ![l.key] = @ + 1]
  /\ inflight' = inflight \cup {[caller |-> c, kind |-> kind, lease |-> l]}
  /\ state' = [state EXCEPT ![l.key] = IF kind = "invoke" THEN "busy" ELSE @]
  /\ UNCHANGED <<pinned, owned, age, live, leases, deferred, policy, holder>>

\* The call is over: end_call, or the finally block of cancel.  end_call
\* refuses a lease that is gone; cancel goes through its record.
EndCall(d) ==
  /\ op = "idle" /\ d \in inflight
  /\ d.kind = "invoke" => d.lease \in leases /\ calls[d.lease.key] > 0
  /\ calls' = [calls EXCEPT ![d.lease.key] = @ - 1]
  /\ inflight' = inflight \ {d}
  /\ op' = IF deferred = {} THEN "idle" ELSE "drain"
  /\ visit' = deferred
  /\ UNCHANGED <<records, leases, deferred, policy, todo, tx, cur>>

-----------------------------------------------------------------------------
(* pin, unload, the orchestration controls and the policy.                 *)

Pin(k) ==
  /\ op = "idle" /\ k \in Resident
  /\ pinned' \in {pinned \cup {k}, pinned \ {k}}
  /\ UNCHANGED <<state, owned, age, live, calls, leases, deferred, policy, inflight, holder>>

\* What the controls may touch: a resident on a route of the allowlist that an
\* orchestration has loaded.
Controlled == Allowlist \cap owned

SetOrchestrationPin(k) == k \in Controlled /\ Pin(k)

Unload(k, force) ==
  /\ op = "idle" /\ k \in Resident
  /\ CanUnload(k, force)
  /\ Unloaded(k) \/ UnloadRaised(k)
  /\ UNCHANGED <<calls, leases, deferred, policy, inflight, holder>>

UnloadOrchestrationResident(k) == k \in Controlled /\ Unload(k, FALSE)

\* apply_residency_action, while no chat turn and no run has the chat lock.
ApplyResidencyAction(k) == SetOrchestrationPin(k) \/ UnloadOrchestrationResident(k)

SetEvictionPolicy(p) ==
  /\ op = "idle"
  /\ policy' = p
  /\ UNCHANGED <<records, calls, leases, deferred, inflight, holder>>

-----------------------------------------------------------------------------

Acquiring == \/ \E i \in FreeIds : ReuseResident(i) \/ LoadRequested(i)
             \/ RefuseResident
             \/ RefuseLoad
             \/ \E j \in Key : Evict(j)

RollingBack == \/ \E l \in tx.got : UndoLease(l)
               \/ UndoneLeases
               \/ \E k \in Key : DiscardLoaded(k)
               \/ Discarded
               \/ Restore
               \/ Restored

Dropping == \/ \E l \in leases : DropLease(l)
            \/ OwnerDropped
            \/ \E o \in Owner : VisitOwner(o)

\* A step of the thread that holds the lock.
HolderStep == Acquiring \/ RollingBack \/ Dropping

\* A step that takes the lock.
Arrival ==
  \/ \E o \in Owner : \/ \E r \in Single : StartAcquire(o, r)
                      \/ \E rs \in Batch : StartBatch(o, rs)
                      \/ ReleaseOwner(o)
                      \/ ReleaseOwnerAfterCalls(o)
  \/ \E l \in leases : \/ Release(l)
                       \/ \E c \in Caller, kind \in {"invoke", "cancel"} : BeginCall(c, kind, l)
  \/ \E d \in inflight : EndCall(d)
  \/ \E k \in Key : \/ Pin(k)
                    \/ \E force \in BOOLEAN : Unload(k, force)
                    \/ ApplyResidencyAction(k)
  \/ \E p \in {"lru", "never"} : SetEvictionPolicy(p)

Next == HolderStep \/ Arrival

Spec == Init /\ [][Next]_vars

-----------------------------------------------------------------------------
(* Types.                                                                  *)

Tx == [batch : BOOLEAN, owner : Owner \cup {None}, got : SUBSET Lease,
       errors : BOOLEAN, resident : SUBSET Key, owned : SUBSET Key,
       leases : SUBSET Lease, discard : SUBSET Key]

\* The types of the variables.
TypeOK ==
  /\ state \in [Key -> {"absent", "idle", "busy", "failed"}]
  /\ pinned \in SUBSET Key
  /\ owned \in SUBSET Key
  /\ age \in [Key -> Nat]
  /\ calls \in [Key -> Int]
  /\ live \in SUBSET Key
  /\ leases \in SUBSET Lease
  /\ deferred \in SUBSET Owner
  /\ policy \in {"lru", "never"}
  /\ inflight \in SUBSET Call
  /\ op \in {"idle", "acquire", "undo", "discard", "restore", "drop", "drain"}
  /\ todo \in Seq(Request)
  /\ tx \in Tx
  /\ cur \in Owner \cup {None}
  /\ visit \in SUBSET Owner

-----------------------------------------------------------------------------
(* Safety.                                                                 *)

\* A thread inside adapter.invoke or adapter.cancel holds a lease that is
\* still in _leases, on a model that is still resident: whatever evictions,
\* rollbacks, releases and unloads other threads made since it entered, its
\* handle was not torn down under it (begin_call, cancel, _unload_record).
HandleInUseStays ==
  \A c \in inflight : c.lease \in leases /\ c.lease.key \in Resident

\* A lease in _leases always refers to a record in _records: acquire_many and
\* _make_room never evict a member they have just reserved.
LeasesAreResident == \A l \in leases : l.key \in Resident

\* active_calls is exactly the number of threads that are inside the adapter
\* with a handle of that record, so "no active calls" can be relied on.
CallsAreCounted == \A k \in Key : calls[k] = Cardinality(CallsOn(k))

\* A runtime that supports one resident model never has two, through every
\* acquire, batch, failed unload and rollback (_make_runtime_exclusive).
OneModelPerRuntime ==
  \A j, k \in Resident :
    RuntimeOf[j] = RuntimeOf[k] /\ RuntimeOf[j] \notin MultiResident
      => ModelOf[j] = ModelOf[k]

\* Two leases share a resident only on a runtime that advertises concurrent
\* requests (acquire), also when one batch asks twice for the same route.
SharingIsAdvertised ==
  \A l, m \in leases : l # m /\ l.key = m.key => RuntimeOf[l.key] \in Concurrent

\* The records and the leases fit each other.
Residency == LeasesAreResident /\ OneModelPerRuntime /\ SharingIsAdvertised

\* A handle is not torn down under the threads that use it, because their
\* number is known.
CallsAreSafe == HandleInUseStays /\ CallsAreCounted

\* An owner whose release was deferred still has an adapter call to wait for:
\* the end of that call is what releases it, so an owner with no such call
\* would keep its leases for good (release_owner_after_calls,
\* _release_deferred_owners_locked).
NoStrandedOwner ==
  op = "idle" => \A o \in deferred : OwnerBusy(o)

\* A lease refers to a handle the runtime adapter knows, unless the unload of its
\* model may fail: the record then stays without a handle, to be leased again.
LeasesAreLive == \A l \in leases : l.key \in live \cup FlakyUnload

\* No step removes a record that has a lease or an adapter call.  A pinned
\* one leaves only by a user's forced unload or the rollback of the load that
\* set the pin (_unload_record); under the policy "never" any other one leaves
\* only by a user's unload or such a rollback.
OnlyIdleLeaves ==
  [][\A k \in Resident \ Resident' :
       LET takenBack == op = "discard" /\ k \notin tx.resident IN
       /\ LeasesOn(k)' = {} /\ CallsOn(k) = {}
       /\ k \in pinned => Unload(k, TRUE) \/ takenBack
       /\ policy = "never" => takenBack \/ \E force \in BOOLEAN : Unload(k, force)]_vars

\* A batch that fails and reports the original error, not a failed rollback,
\* leaves the leases as it found them, and no model resident that was not
\* resident before (acquire_many).
FailedBatchLeavesNothing ==
  [][op = "restore" /\ op' = "idle" /\ ~tx.errors
       => leases' = tx.leases /\ Resident' \subseteq tx.resident]_vars

\* Once an owner's release is deferred, no new call starts under its leases.
DeferredOwnersStartNothing ==
  [][\A c \in inflight' \ inflight : c.lease.owner \notin deferred]_vars

-----------------------------------------------------------------------------
(* Refinement.                                                             *)

LeaseService ==
  INSTANCE LeaseService WITH
    Model    <- Key,
    Sharing  <- {k \in Key : RuntimeOf[k] \in Concurrent},
    Use      <- Call,
    up       <- Resident,
    held     <- leases,
    retiring <- deferred,
    using    <- inflight

\* Through evictions, rollbacks and deferred releases, whoever asks for leases
\* sees each of them granted, used and returned as LeaseService says: no model
\* leaves under a lease, no lease ends or is granted anew under a use of it,
\* and a retiring owner starts nothing.
ServesLeases == LeaseService!Spec

=============================================================================
