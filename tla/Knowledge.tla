------------------------------ MODULE Knowledge ------------------------------
(***************************************************************************)
(* What the service knows of the user's documents and databases: the full- *)
(* text index (SQLite), the directories of the uploaded databases, called  *)
(* sources, and the collections of vectors, in memory and in JSON files.   *)
(* Requests run in threads and share all three; no lock spans a request.   *)
(*                                                                         *)
(* The service gives the vector adapter no URL, so the adapter keeps its   *)
(* collections itself; the rows of a source and the passages of a document *)
(* are embedded and stored in batches.  Sources and documents have their   *)
(* own collections: a behaviour indexes the ones or the others (topic).    *)
(***************************************************************************)
EXTENDS Naturals, FiniteSets, KnowledgeStores

vars == <<topic, docs, dir, db, meta, known, gone, memory, disk, hurt, work>>

Idle  == [at |-> "idle", target |-> None, card |-> None, dim |-> None,
          stored |-> 0]

Go(t, at)  == work' = [work EXCEPT ![t].at = at]
Answer(t)  == work' = [work EXCEPT ![t] = Idle]
Start(t, w) == work[t] = Idle /\ work' = [work EXCEPT ![t] = w]

-----------------------------------------------------------------------------
(* SQLiteKnowledgeIndex: one transaction for a document and its full text. *)

Fresh  == {d \in Doc : docs[d] = "new"}

AddDocument(t) ==
  /\ Start(t, [Idle EXCEPT !.at = "count"])
  /\ UNCHANGED <<topic, docs, dir, db, meta, known, gone, memory, disk, hurt>>

\* After the index a card goes to its source's metadata, an upload is done.
Indexed(t, card) ==
  work' = [work EXCEPT ![t] = IF @.target = None THEN Idle
                              ELSE [@ EXCEPT !.at = "meta", !.card = card]]

Room == Cardinality(Listed) < MaxDocuments

\* The SELECT of the counts is not yet in the transaction of the INSERT.  A
\* card that is refused, or not asked for, is no error.
Count(t) ==
  /\ work[t].at = "count"
  /\ \/ Room /\ Go(t, "insert")
     \/ Indexed(t, None)
  /\ UNCHANGED <<topic, docs, dir, db, meta, known, gone, memory, disk, hurt>>

Insert(t) ==
  /\ work[t].at = "insert"
  /\ \/ \E d \in Fresh :
          /\ docs' = [docs EXCEPT ![d] = IF work[t].target = None THEN "upload"
                                         ELSE work[t].target]
          /\ Indexed(t, d)
     \/ Indexed(t, None) /\ UNCHANGED docs      \* the index is locked or full
  /\ UNCHANGED <<topic, dir, db, meta, known, gone, memory, disk, hurt>>

Without(d) == [docs EXCEPT ![d] = "deleted"]

\* The vectors of the document stay where they are.
DeleteDocument(t) ==
  /\ work[t] = Idle
  /\ \E d \in Listed : docs' = Without(d)
  /\ UNCHANGED <<topic, dir, db, meta, known, gone, memory, disk, hurt, work>>

-----------------------------------------------------------------------------
(* SQLiteSourceStore.save_sqlite_source.                                   *)

SaveSource(t) ==
  /\ \E s \in Source \ (known \cup dir) :
       /\ ~Saving(s)
       /\ Start(t, [Idle EXCEPT !.at = "copy", !.target = s])
       /\ dir' = dir \cup {s}
  /\ UNCHANGED <<topic, docs, db, meta, known, gone, memory, disk, hurt>>

\* shutil.rmtree of what a failed upload has left.
CleanUp(s) == dir' = dir \ {s} /\ db' = db \ {s} /\ UNCHANGED meta

\* Streamed to its place, and only then checked and profiled.
Copy(t) ==
  /\ work[t].at = "copy"
  /\ \/ db' = db \cup {work[t].target} /\ Go(t, "count") /\ UNCHANGED <<dir, meta>>
     \/ CleanUp(work[t].target) /\ Answer(t)
  /\ UNCHANGED <<topic, docs, known, gone, memory, disk, hurt>>

\* The card of an upload that fails here stays in the index.
WriteMeta(t) ==
  LET s == work[t].target
  IN /\ work[t].at = "meta"
     /\ \/ /\ meta' = [meta EXCEPT ![s] = [card |-> work[t].card, indexed |-> FALSE]]
           /\ known' = known \cup {s}
           /\ UNCHANGED <<dir, db, hurt>>
        \/ /\ CleanUp(s)
           /\ hurt' = hurt \cup {s}
           /\ UNCHANGED known
     /\ Answer(t)
     /\ UNCHANGED <<topic, docs, gone, memory, disk>>

-----------------------------------------------------------------------------
(* Indexing: index_sqlite_source and index_knowledge_document.             *)

IndexSource(t) ==
  /\ topic = "sources"
  /\ \E s \in known \cap db, d \in Dim :
       /\ Start(t, [Idle EXCEPT !.at = "embed", !.target = s, !.dim = d])
       /\ hurt' = hurt \cup IF Deleting(s) THEN {s} ELSE {}
  /\ UNCHANGED <<topic, docs, dir, db, meta, known, gone, memory, disk>>

\* The document of a source is looked up under a key its metadata lack, so
\* this request only fails for a schema card.
CardOfSource(d) == \E s \in Source : meta[s] # None /\ meta[s].card = d
IndexDocument(t) ==
  /\ topic = "documents"
  /\ \E x \in Listed, d \in Dim :
       /\ ~CardOfSource(x)
       /\ Start(t, [Idle EXCEPT !.at = "embed", !.target = x, !.dim = d])
  /\ UNCHANGED <<topic, docs, dir, db, meta, known, gone, memory, disk, hurt>>

Embed(t) ==
  /\ work[t].at = "embed"
  /\ Go(t, "ensure") \/ Answer(t)            \* VectorIndexError
  /\ UNCHANGED <<topic, docs, dir, db, meta, known, gone, memory, disk, hurt>>

\* ensure_collection: a collection keeps the length of its first vectors.
Ensure(t) ==
  LET c == memory[Home(work[t].target)]
  IN /\ work[t].at = "ensure"
     /\ CASE c = None              -> Go(t, "create")
          [] c # None /\ c.dim = work[t].dim -> Go(t, "upsert")
          [] OTHER                 -> Answer(t)   \* DimensionMismatchError
     /\ UNCHANGED <<topic, docs, dir, db, meta, known, gone, memory, disk, hurt>>

\* A collection in memory becomes v; its file does too, unless it cannot be
\* written: the disk is full, or a field of a row is not JSON.
Store(t, c, v, then) ==
  /\ memory' = [memory EXCEPT ![c] = v]
  /\ \/ disk' = [disk EXCEPT ![c] = v] /\ then
     \/ UNCHANGED disk /\ Answer(t)

Create(t) ==
  LET c == Home(work[t].target)
  IN /\ work[t].at = "create"
     /\ IF memory[c] = None
        THEN Store(t, c, [dim |-> work[t].dim, points |-> {}], Go(t, "upsert"))
        ELSE Go(t, "upsert") /\ UNCHANGED <<memory, disk>>
     /\ UNCHANGED <<topic, docs, dir, db, meta, known, gone, hurt>>

\* Mutant: the last batch is left out.
AfterBatchOfMost(x, n) ==
  CASE n + 1 < Batches -> "embed" [] n + 1 >= Batches /\ x \in Source -> "read"
    [] OTHER -> "idle"
\* Only a source has metadata to be updated.
AfterBatch(x, n) ==
  CASE n < Batches -> "embed" [] n = Batches /\ x \in Source -> "read"
    [] OTHER -> "idle"

Upsert(t) ==
  LET x == work[t].target
      v == memory[Home(x)]
      n == work[t].stored + 1
  IN /\ work[t].at = "upsert"
     /\ IF v = None \/ (v # None /\ v.dim # work[t].dim)
        THEN Answer(t) /\ UNCHANGED <<memory, disk>>
        ELSE Store(t, Home(x), [v EXCEPT !.points = @ \cup {<<x, n>>}],
               work' = [work EXCEPT ![t] =
                          IF AfterBatch(x, n) = "idle" THEN Idle
                          ELSE [@ EXCEPT !.at = AfterBatch(x, n), !.stored = n]])
     /\ UNCHANGED <<topic, docs, dir, db, meta, known, gone, hurt>>

\* update_source_meta: read, merged, and replaced if there is a directory.
ReadMeta(t) ==
  LET m == meta[work[t].target]
  IN /\ work[t].at = "read"
     /\ IF m = None THEN Answer(t)                \* SourceStoreError
        ELSE work' = [work EXCEPT ![t].at = "update", ![t].card = m.card]
     /\ UNCHANGED <<topic, docs, dir, db, meta, known, gone, memory, disk, hurt>>

UpdateMeta(t) ==
  LET s == work[t].target
  IN /\ work[t].at = "update"
     /\ \/ s \in dir /\ meta' = [meta EXCEPT ![s] =
                                   [card |-> work[t].card, indexed |-> TRUE]]
        \/ UNCHANGED meta                         \* OSError
     /\ Answer(t)
     /\ UNCHANGED <<topic, docs, dir, db, known, gone, memory, disk, hurt>>

-----------------------------------------------------------------------------
(* delete_sqlite_source: the collection, the card, the directory.          *)

DeleteSource(t) ==
  /\ \E s \in known :
       /\ Start(t, [Idle EXCEPT !.at = "drop", !.target = s])
       /\ hurt' = hurt \cup IF Indexing(s) THEN {s} ELSE {}
  /\ UNCHANGED <<topic, docs, dir, db, meta, known, gone, memory, disk>>

\* Mutant: the collection is forgotten and its file is not.
UnlinkedNot(c) == UNCHANGED disk
\* The file of a collection that is no more.
Unlinked(c) == disk' = [disk EXCEPT ![c] = None]

\* An unlink that fails is passed over.
Drop(t) ==
  LET s == work[t].target
  IN /\ work[t].at = "drop"
     /\ memory' = [memory EXCEPT ![s] = None]
     /\ \/ memory[s] # None /\ Unlinked(s) /\ UNCHANGED hurt
        \/ memory[s] # None /\ UNCHANGED disk /\ hurt' = hurt \cup {s}
        \/ memory[s] = None /\ UNCHANGED <<disk, hurt>>
     /\ Go(t, "unlist")
     /\ UNCHANGED <<topic, docs, dir, db, meta, known, gone>>

\* Mutant: the card stays.
CardTakenNot(s) == docs
\* The index without the card metadata.json names.
CardTaken(s) == IF meta[s] = None \/ (meta[s] # None /\ meta[s].card = None)
                THEN docs ELSE Without(meta[s].card)

Unlist(t) ==
  LET s == work[t].target
  IN /\ work[t].at = "unlist"
     /\ IF s \notin dir
        THEN Answer(t) /\ UNCHANGED <<docs, hurt>>          \* 404
        ELSE /\ Go(t, "remove")
             /\ \/ docs' = CardTaken(s) /\ UNCHANGED hurt
                \/ UNCHANGED docs /\ hurt' = hurt \cup {s}   \* passed over
     /\ UNCHANGED <<topic, dir, db, meta, known, gone, memory, disk>>

\* One file after the other in any order, then the directory; an error of
\* rmtree is ignored, and so is a directory that is not empty any more.
Remove(t) ==
  LET s == work[t].target
  IN /\ work[t].at = "remove"
     /\ \/ /\ s \in db /\ db' = db \ {s}
           /\ UNCHANGED <<dir, meta, gone, hurt, work>>
        \/ /\ meta[s] # None /\ meta' = [meta EXCEPT ![s] = None]
           /\ UNCHANGED <<dir, db, gone, hurt, work>>
        \/ /\ s \notin db /\ meta[s] = None
           /\ dir' = dir \ {s} /\ gone' = gone \cup {s} /\ Answer(t)
           /\ UNCHANGED <<db, meta, hurt>>
        \/ /\ hurt' = hurt \cup {s} /\ gone' = gone \cup {s} /\ Answer(t)
           /\ UNCHANGED <<dir, db, meta>>
     /\ UNCHANGED <<topic, docs, known, memory, disk>>

-----------------------------------------------------------------------------
\* The service stops or dies, and starts again: _load_all.
Restart ==
  /\ memory' = disk
  /\ hurt' = hurt \cup {s \in Source : Deleting(s) \/ Saving(s)}
  /\ work' = [t \in Thread |-> Idle]
  /\ UNCHANGED <<topic, docs, dir, db, meta, known, gone, disk>>

Init ==
  /\ topic \in {"sources", "documents"}
  /\ docs = [d \in Doc |-> "new"]
  /\ dir = {} /\ db = {} /\ known = {} /\ gone = {} /\ hurt = {}
  /\ meta = [s \in Source |-> None]
  /\ memory = [c \in Collection |-> None]
  /\ disk = memory
  /\ work = [t \in Thread |-> Idle]

Next ==
  \/ \E t \in Thread :
       \/ AddDocument(t) \/ Count(t) \/ Insert(t) \/ DeleteDocument(t)
       \/ SaveSource(t) \/ Copy(t) \/ WriteMeta(t)
       \/ IndexSource(t) \/ IndexDocument(t) \/ Embed(t) \/ Ensure(t)
       \/ Create(t) \/ Upsert(t) \/ ReadMeta(t) \/ UpdateMeta(t)
       \/ DeleteSource(t) \/ Drop(t) \/ Unlist(t) \/ Remove(t)
  \/ Restart

Spec == Init /\ [][Next]_vars

=============================================================================
