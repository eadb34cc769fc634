--------------------------- MODULE LeaseService ---------------------------
(***************************************************************************)
(* What the users of ModelScheduler rely on: models that are up or not,    *)
(* leases on models that are up, and uses of a model under a lease.  How   *)
(* room is made, in which order a batch is reserved and undone, and who    *)
(* waits for which lock are the scheduler's own affair.                    *)
(***************************************************************************)
CONSTANTS
  Model,    \* what can be leased
  Sharing,  \* models that more than one may hold
  Owner,    \* whom leases belong to
  Lease,    \* records with the fields key and owner
  Use       \* records with the field lease

VARIABLES
  up,       \* models that are loaded
  held,     \* leases that have been granted and not returned
  retiring, \* owners whose leases are to be returned once their uses end
  using     \* uses going on

svars == <<up, held, retiring, using>>

HeldOn(m) == {l \in held : l.key = m}

Init == up = {} /\ held = {} /\ retiring = {} /\ using = {}

Start(m) ==
  /\ up' = up \cup {m}
  /\ UNCHANGED <<held, retiring, using>>

\* A model that somebody holds stays.
Stop(m) ==
  /\ HeldOn(m) = {}
  /\ up' = up \ {m}
  /\ UNCHANGED <<held, retiring, using>>

Grant(l) ==
  /\ HeldOn(l.key) = {} \/ l.key \in Sharing
  /\ held' = held \cup {l}
  /\ up' = up \cup {l.key}
  /\ UNCHANGED <<retiring, using>>

\* Nobody uses the lease; the last one may take the model with it.
Return(l) ==
  /\ \A u \in using : u.lease # l
  /\ held' = held \ {l}
  /\ \/ up' = up
     \/ HeldOn(l.key) \subseteq {l} /\ up' = up \ {l.key}
  /\ UNCHANGED <<retiring, using>>

\* An owner retires while something it holds is in use, and until its own uses
\* are over.
Retire(o) ==
  /\ \E u \in using, l \in held : l.owner = o /\ l.key = u.lease.key
  /\ retiring' = retiring \cup {o}
  /\ UNCHANGED <<up, held, using>>

Settle(o) ==
  /\ \A u \in using : u.lease.owner # o
  /\ retiring' = retiring \ {o}
  /\ UNCHANGED <<up, held, using>>

Begin(u) ==
  /\ u.lease \in held
  /\ u.lease.owner \notin retiring
  /\ using' = using \cup {u}
  /\ UNCHANGED <<up, held, retiring>>

End(u) ==
  /\ using' = using \ {u}
  /\ UNCHANGED <<up, held, retiring>>

Next ==
  \/ \E m \in Model : Start(m) \/ Stop(m)
  \/ \E l \in Lease : Grant(l) \/ Return(l)
  \/ \E o \in Owner : Retire(o) \/ Settle(o)
  \/ \E u \in Use : Begin(u) \/ End(u)

Spec == Init /\ [][Next]_svars

=============================================================================
