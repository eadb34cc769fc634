------------------------------ MODULE UserFiles ------------------------------
(***************************************************************************)
(* The JSON files of the user and who changes them: chats, presets, model  *)
(* profiles with the verification records, application settings,           *)
(* capability preferences, manifest overrides, runtime installations, and  *)
(* provider connections with the secrets of the system's keyring.          *)
(*                                                                         *)
(* Every store reads a file, computes a new content and replaces the file  *)
(* by it.  A step reads or replaces; what happens in between, a crash      *)
(* included, leaves the file alone.  Init picks the store, so that the     *)
(* behaviours of each are checked apart.  A file is a set of records told  *)
(* by a key; for the settings and the preferences, a key is a field.       *)
(***************************************************************************)
EXTENDS Naturals, FiniteSets, Threads

CONSTANTS
  Desk,      \* other programs: the desktop window, the command line
  Key,       \* records of a file
  Value,     \* what a field may hold
  Secret,    \* references to secrets
  Limit,     \* MAX_CONNECTIONS
  Together   \* changes of a store that nothing orders may overlap

ASSUME TwoValues     == Value \subseteq Nat /\ {0, 1} \subseteq Value
ASSUME LimitPositive == Limit \in Nat \ {0}
ASSUME NoActorTwice  == Thread \cap Desk = {} /\ Together \in BOOLEAN
ASSUME NoneIsNothing == None \notin Key \cup Value \cup Secret \cup Thread

Actor == Thread \cup Desk
Store == {"chats", "presets", "profiles", "settings", "preferences",
          "overlay", "installations", "providers"}
Kinds == [chats         |-> {"create", "ask", "answer", "settings", "rename",
                             "delete"},
          presets       |-> {"create", "rename", "delete"},
          profiles      |-> {"create", "rename", "update", "delete",
                             "verify"},
          settings      |-> {"patch"},
          preferences   |-> {"patch", "unset"},
          overlay       |-> {"patch", "describe", "unset", "reset"},
          installations |-> {"register", "enable", "probe", "delete"},
          providers     |-> {"connect", "change", "disconnect"}]
\* Stores the other programs change as well.
OfDesk == {"chats", "presets", "profiles", "installations"}

Record == [name  : Value \cup {None}, \* a title, a description
           data  : Value \cup {None}, \* messages, settings, probe results
           on    : BOOLEAN,           \* enabled; the settings of a chat
           class : {"user", "verified"},
           proof : Value \cup {None}, \* the data that was verified
           ref   : Secret \cup {None}]
Absent == [name |-> None, data |-> None, on |-> FALSE, class |-> "user",
           proof |-> None, ref |-> None]
File   == [Key -> Record \cup {Absent}]
Change == [kind : UNION {Kinds[s] : s \in Store}, key : Key, value : Value]

VARIABLES
  store,    \* the store of this behaviour
  file,     \* what is on the disk
  lock,     \* who holds the lock of the store, or of the chats
  keyring,  \* secrets of the system's keyring
  evidence, \* the verification record of the manifest
  mishap,   \* a program has died, or the keyring or the disk has failed
  doing     \* what every actor is doing

vars == <<store, file, lock, keyring, evidence, mishap, doing>>

Doing == [at    : {"idle", "read", "replace", "secret", "check", "put",
                   "drop", "probe", "record", "undo"},
          op    : Change \cup {None},
          seen  : File \cup {None},       \* the content it has read
          next  : Record \cup {Absent},   \* the connection to be put
          old   : Secret \cup {None},     \* the secret to be dropped
          fresh : Secret \cup {None}]     \* the secret it has set
Idle == [at |-> "idle", op |-> None, seen |-> None, next |-> Absent,
         old |-> None, fresh |-> None]

-----------------------------------------------------------------------------
(* One change to the content of a file.                                    *)

Present(f)  == {k \in Key : f[k] # Absent}
Blank(v)    == [Absent EXCEPT !.name = 0, !.data = v, !.on = TRUE]
Readable(f) == store = "providers" => Cardinality(Present(f)) <= Limit

\* What each store makes of the record of op.key; Refused when there is
\* none, and when a record with a fresh id is there already.
Refused == None
New(r, op)          == IF r = Absent THEN Blank(op.value) ELSE Refused
Existing(r, result) == IF r = Absent THEN Refused ELSE result

\* A chat without a title takes that of its first question.
ChatChange(r, op) ==
  CASE op.kind = "create"   -> New(r, op)
    [] op.kind = "ask"      -> Existing(r, [r EXCEPT !.data = op.value,
                                              !.name = IF @ = 0 THEN 1 ELSE @])
    [] op.kind = "answer"   -> Existing(r, [r EXCEPT !.data = op.value])
    [] op.kind = "settings" -> Existing(r, [r EXCEPT !.on = (op.value = 1)])
    [] op.kind = "rename"   -> Existing(r, [r EXCEPT !.name = op.value])
    [] op.kind = "delete"   -> Existing(r, Absent)

PresetChange(r, op) ==
  CASE op.kind = "create" -> New(r, op)
    [] op.kind = "rename" -> Existing(r, [r EXCEPT !.name = op.value])
    [] op.kind = "delete" -> Existing(r, Absent)

\* Mutant: the profile that is edited stays a verified one.
UpdatedKeeping(r, v) == [r EXCEPT !.data = v]
\* Evidence is of the settings that were tested.
Updated(r, v) == [r EXCEPT !.data = v, !.class = "user", !.proof = None]
ProfileChange(r, op) ==
  CASE op.kind = "create" -> New(r, op)
    [] op.kind = "verify" -> IF r # Absent THEN Refused ELSE
         [Blank(op.value) EXCEPT !.class = "verified", !.proof = op.value]
    [] op.kind = "rename" -> Existing(r, [r EXCEPT !.name = op.value])
    [] op.kind = "update" -> Existing(r, Updated(r, op.value))
    [] op.kind = "delete" -> Existing(r, Absent)

\* Fields are merged into what is there.
SettingsChange(r, op) ==
  IF r = Absent THEN Blank(op.value) ELSE [r EXCEPT !.data = op.value]

\* A preference of None removes that of the capability.
PreferenceChange(r, op) ==
  IF op.kind = "unset" THEN Absent
  ELSE IF r = Absent THEN Blank(op.value) ELSE [r EXCEPT !.data = op.value]

\* An override without a field left is no override.
OverlayChange(r, op) ==
  LET base   == [r EXCEPT !.on = TRUE]
      edited == CASE op.kind = "patch"    -> [base EXCEPT !.data = op.value]
                  [] op.kind = "describe" -> [base EXCEPT !.name = op.value]
                  [] op.kind = "unset"    -> [base EXCEPT !.data = None]
                  [] op.kind = "reset"    -> Absent
  IN IF edited.name = None /\ edited.data = None THEN Absent ELSE edited

\* An executable is registered once, and probed when it is.
InstallationChange(r, op) ==
  CASE op.kind = "register" -> Blank(op.value)
    [] op.kind = "enable"   -> Existing(r, [r EXCEPT !.on = (op.value = 1)])
    [] op.kind = "probe"    -> Existing(r, [r EXCEPT !.data = op.value])
    [] op.kind = "delete"   -> Existing(r, Absent)

Changed(r, op) ==
  CASE store = "chats"         -> ChatChange(r, op)
    [] store = "presets"       -> PresetChange(r, op)
    [] store = "profiles"      -> ProfileChange(r, op)
    [] store = "settings"      -> SettingsChange(r, op)
    [] store = "preferences"   -> PreferenceChange(r, op)
    [] store = "overlay"       -> OverlayChange(r, op)
    [] store = "installations" -> InstallationChange(r, op)
Accepts(f, op) == Changed(f[op.key], op) # Refused
Result(f, op)  == [f EXCEPT ![op.key] = Changed(f[op.key], op)]

\* What one lock orders: the overlay has one, and the changes of a chat that
\* are under the lock of the chat turns.  No lock reaches another program.
Guarded(a, op) ==
  /\ a \in Thread
  /\ \/ store = "overlay"
     \/ store = "chats" /\ op.kind \in {"ask", "answer", "rename", "delete"}
\* Mutant: the lock is not taken.
LocksNothing(a, op) == FALSE
Locks(a, op) == Guarded(a, op)

Busy(a) == doing[a].at # "idle"
\* Without Together, what no lock orders happens one after the other.
MayOverlap(a, op) ==
  Together \/ \A b \in Actor \ {a} :
                Busy(b) => Guarded(a, op) /\ Guarded(b, doing[b].op)

Do(a, d) == doing' = [doing EXCEPT ![a] = d]
\* Answered, with success or with an error.
Answer(a) == Do(a, Idle) /\ lock' = IF lock = a THEN None ELSE lock
Hurt(really) == mishap' = (mishap \/ really)

-----------------------------------------------------------------------------
(* Read, compute, replace.                                                 *)

Begin(a) ==
  /\ ~Busy(a)
  /\ a \in Desk => store \in OfDesk
  /\ \E kind \in Kinds[store], key \in Key, value \in Value :
       LET op == [kind |-> kind, key |-> key, value |-> value]
       IN /\ MayOverlap(a, op)
          /\ IF Locks(a, op)
             THEN lock = None /\ lock' = a
             ELSE UNCHANGED lock
          /\ Do(a, [Idle EXCEPT !.at = IF kind = "verify" THEN "probe"
                                       ELSE "read", !.op = op])
  /\ UNCHANGED <<store, file, keyring, evidence, mishap>>

Read(a) ==
  /\ doing[a].at = "read" /\ store # "providers"
  /\ IF Accepts(file, doing[a].op)
     THEN /\ Do(a, [doing[a] EXCEPT !.at = "replace", !.seen = file])
          /\ UNCHANGED lock
     ELSE Answer(a)
  /\ UNCHANGED <<store, file, keyring, evidence, mishap>>

\* os.replace, or a disk that is full.  A chat is a file of its own, which
\* is removed without a look at what it holds.
Replace(a) ==
  /\ doing[a].at = "replace"
  /\ \/ /\ file' = [k \in Key |->
                      IF store = "chats" /\ k # doing[a].op.key THEN file[k]
                      ELSE Result(doing[a].seen, doing[a].op)[k]]
        /\ IF doing[a].op.kind = "verify"
           THEN Do(a, [doing[a] EXCEPT !.at = "record", !.seen = None])
                /\ UNCHANGED lock
           ELSE Answer(a)
        /\ UNCHANGED mishap
     \/ Answer(a) /\ Hurt(TRUE) /\ UNCHANGED file
  /\ UNCHANGED <<store, keyring, evidence>>

-----------------------------------------------------------------------------
(* verify_model_manifest: a profile and a record, in two files.            *)

Probe(a) ==
  /\ doing[a].at = "probe"
  /\ \/ Do(a, [doing[a] EXCEPT !.at = "read"]) /\ UNCHANGED <<lock, evidence>>
     \/ Answer(a) /\ UNCHANGED evidence             \* the verifier raised
     \/ Answer(a) /\ evidence' = "failed"           \* and this is recorded
  /\ UNCHANGED <<store, file, keyring, mishap>>

\* Mutant: a record that cannot be written leaves the profile behind.
AfterRecordFailed(a) == Answer(a)
\* The profile that was created for it is deleted again.
AfterRecord(a) == Do(a, [doing[a] EXCEPT !.at = "undo"]) /\ UNCHANGED lock

\* The record is written, or not; with the record, the manifest may still
\* be gone when it is read back.
RecordResult(a) ==
  /\ doing[a].at = "record"
  /\ \/ Answer(a) /\ evidence' = "ok"
     \/ AfterRecord(a) /\ evidence' \in {evidence, "ok"}
  /\ UNCHANGED <<store, file, keyring, mishap>>

Undo(a) ==
  /\ doing[a].at = "undo"
  /\ \/ file' = [file EXCEPT ![doing[a].op.key] = Absent] /\ Hurt(FALSE)
     \/ UNCHANGED file /\ Hurt(TRUE)
  /\ Answer(a)
  /\ UNCHANGED <<store, keyring, evidence>>

-----------------------------------------------------------------------------
(* ProviderConnections: a record in the file and a secret in the keyring.  *)

FreshSecrets == Secret \ (keyring \cup {file[k].ref : k \in Key}
                          \cup {doing[a].fresh : a \in Actor})

Admits == Cardinality(Present(file)) < Limit

\* create and update: what is to be put, and the secret it needs.
Prepare(a) ==
  LET op == doing[a].op
      r  == file[op.key]
  IN /\ doing[a].at = "read" /\ store = "providers"
     /\ op.kind # "disconnect"
     /\ \/ /\ ~Readable(file)
              \/ IF op.kind = "connect" THEN ~Admits ELSE r = Absent
           /\ Answer(a)
        \/ /\ Readable(file)
           /\ IF op.kind = "connect" THEN Admits /\ r = Absent ELSE r # Absent
           /\ UNCHANGED lock
           /\ \E enabled \in BOOLEAN, key \in {"keep", "new", "clear"} :
                /\ op.kind = "connect" => key # "clear"
                /\ (op.kind = "connect" /\ enabled) => key = "new"
                /\ \E s \in IF key = "new" THEN FreshSecrets ELSE {None} :
                     LET base == IF op.kind = "connect" THEN Blank(op.value)
                                 ELSE [r EXCEPT !.data = op.value]
                         next == [base EXCEPT
                                    !.on  = enabled /\ key # "clear",
                                    !.ref = IF key = "keep" THEN r.ref ELSE s]
                     IN Do(a, [doing[a] EXCEPT
                          !.at = IF key = "new" THEN "secret"
                                 ELSE IF op.kind = "connect" THEN "put"
                                 ELSE "check",
                          !.next = next, !.fresh = s,
                          !.old = IF r.ref # next.ref THEN r.ref ELSE None])
     /\ UNCHANGED <<store, file, keyring, evidence, mishap>>

SetSecret(a) ==
  /\ doing[a].at = "secret"
  /\ \/ /\ keyring' = keyring \cup {doing[a].fresh}
        /\ Do(a, [doing[a] EXCEPT !.at = IF doing[a].op.kind = "connect"
                                         THEN "put" ELSE "check"])
        /\ UNCHANGED lock /\ Hurt(FALSE)
     \/ Answer(a) /\ Hurt(TRUE) /\ UNCHANGED keyring
  /\ UNCHANGED <<store, file, evidence>>

\* A connection is enabled with a secret the keyring has.
Credential(a) == doing[a].next.on => doing[a].next.ref \in keyring
Check(a) ==
  /\ doing[a].at = "check"
  /\ \/ /\ Credential(a)
        /\ Do(a, [doing[a] EXCEPT !.at = "put"])
        /\ UNCHANGED lock /\ Hurt(FALSE)
     \/ ~Credential(a) /\ Answer(a) /\ Hurt(FALSE)
     \/ doing[a].next.on /\ Answer(a) /\ Hurt(TRUE)  \* the keyring fails
  /\ UNCHANGED <<store, file, keyring, evidence>>

\* Read and replaced under the store's own lock, in one step.
Stored(key, record) == file' = [file EXCEPT ![key] = record]

\* A record that could not be put takes its new secret with it, if the keyring lets it.
Put(a) ==
  /\ doing[a].at = "put"
  /\ \/ /\ Readable(file)
        /\ Stored(doing[a].op.key, doing[a].next)
        /\ Do(a, [doing[a] EXCEPT !.at = "drop"])
        /\ Hurt(FALSE) /\ UNCHANGED <<lock, keyring>>
     \/ /\ keyring' \in {keyring, keyring \ {doing[a].fresh}}
        /\ Hurt(TRUE) /\ Answer(a) /\ UNCHANGED file
  /\ UNCHANGED <<store, evidence>>

\* Mutant: the old secret goes before the record that names it.
DisconnectEarly(a) ==
  /\ doing[a].at = "read" /\ doing[a].op.kind = "disconnect"
  /\ keyring' = keyring \ {file[doing[a].op.key].ref}
  /\ \/ Answer(a) /\ UNCHANGED file
     \/ Answer(a) /\ file' = [file EXCEPT ![doing[a].op.key] = Absent]
  /\ UNCHANGED <<store, evidence, mishap>>
\* delete: the record first.
Disconnect(a) ==
  LET key == doing[a].op.key
  IN /\ doing[a].at = "read" /\ doing[a].op.kind = "disconnect"
     /\ \/ /\ Readable(file) /\ file[key] # Absent
           /\ Stored(key, Absent)
           /\ Do(a, [doing[a] EXCEPT !.at = "drop", !.old = file[key].ref])
           /\ UNCHANGED lock /\ Hurt(FALSE)
        \/ /\ Answer(a) /\ UNCHANGED file
           /\ Hurt(Readable(file) /\ file[key] # Absent)
     /\ UNCHANGED <<store, keyring, evidence>>

\* The secret no record names any more; the keyring may refuse.
DropSecret(a) ==
  /\ doing[a].at = "drop"
  /\ \/ keyring' = keyring \ {doing[a].old} /\ Hurt(FALSE)
     \/ doing[a].old # None /\ UNCHANGED keyring /\ Hurt(TRUE)
  /\ Answer(a)
  /\ UNCHANGED <<store, file, evidence>>

-----------------------------------------------------------------------------
\* The program of an actor dies: the service with all its threads.
Die(a) ==
  /\ \E b \in Actor : Busy(b)
  /\ doing' = [b \in Actor |->
                 IF (a \in Thread /\ b \in Thread) \/ b = a THEN Idle
                 ELSE doing[b]]
  /\ lock' = IF a \in Thread THEN None ELSE lock
  /\ Hurt(TRUE)
  /\ UNCHANGED <<store, file, keyring, evidence>>

Init ==
  /\ store \in Store
  /\ file = [k \in Key |-> Absent]
  /\ lock = None
  /\ keyring = {}
  /\ evidence = "none"
  /\ mishap = FALSE
  /\ doing = [a \in Actor |-> Idle]

Next == \E a \in Actor :
  \/ Begin(a) \/ Read(a) \/ Replace(a)
  \/ Probe(a) \/ RecordResult(a) \/ Undo(a)
  \/ Prepare(a) \/ SetSecret(a) \/ Check(a) \/ Put(a)
  \/ Disconnect(a) \/ DropSecret(a)
  \/ Die(a)

Spec == Init /\ [][Next]_vars

-----------------------------------------------------------------------------
(* What is checked.                                                        *)

TypeOK ==
  /\ store \in Store
  /\ file \in File
  /\ \A k \in Key : (file[k].class = "verified") = (file[k].proof # None)
  /\ lock \in Thread \cup {None}
  /\ keyring \subseteq Secret
  /\ evidence \in {"none", "ok", "failed"}
  /\ mishap \in BOOLEAN
  /\ doing \in [Actor -> Doing]

\* No change is lost: what a file is replaced by is the change applied to
\* what it held, not to what it held when it was read (os.replace).
EveryChangeBuildsOnTheLast ==
  [][\A a \in Actor :
       (Replace(a) /\ file' # file) =>
         file' = Result(file, doing[a].op)]_vars

\* A connection that names a secret finds it, however the steps that change
\* the two failed or were cut off (ProviderConnections.update).
CredentialsAreThere ==
  \A k \in Key : /\ file[k].ref # None => file[k].ref \in keyring
                 /\ store = "providers" /\ file[k].on => file[k].ref # None

\* The keyring keeps no secret that no connection names, unless the keyring,
\* the disk or the program failed on the way.
SecretsAreOwned ==
  (~mishap /\ \A a \in Actor : ~Busy(a)) =>
    keyring = {file[k].ref : k \in Key} \ {None}

\* Connections and the keyring, two stores without a common transaction, agree.
SecretsMatchConnections == CredentialsAreThere /\ SecretsAreOwned

\* A profile that is called verified has the settings that were verified,
\* and only a verification calls it so.
VerifiedIsAsVerified ==
  \A k \in Key : file[k].class = "verified" => file[k].data = file[k].proof

\* Between any two steps of any program the files hold what they may, and a
\* profile claims no more than was tested.
ProfilesAreSound == TypeOK /\ VerifiedIsAsVerified

\* A verification that fails after it has created its profile takes the
\* profile back (verify_model_manifest).
FailedVerificationLeavesNoProfile ==
  [][\A a \in Actor :
       (doing[a].at \in {"record", "undo"} /\ doing'[a].at = "idle"
          /\ evidence' # "ok" /\ ~mishap') =>
         file'[doing[a].op.key] = Absent]_vars

=============================================================================
