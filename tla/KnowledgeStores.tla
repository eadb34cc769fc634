--------------------------- MODULE KnowledgeStores ---------------------------
(***************************************************************************)
(* The stores Knowledge writes to, and what must be true of them: the full *)
(* text index, the directories with their metadata files, the collections  *)
(* of vectors in memory and on the disk, and what every request is doing   *)
(* with them.  The requests themselves are in Knowledge.                   *)
(***************************************************************************)
EXTENDS Naturals, FiniteSets, Threads

CONSTANTS
  Source,       \* ids of uploaded databases
  Doc,          \* ids of documents of the full-text index
  Batches,      \* batches of rows of a database, of passages of a document
  Dim,          \* lengths of vectors: of the provider in use, of the fallback
  MaxDocuments  \* MAX_KNOWLEDGE_DOCUMENTS

VARIABLES
  topic,   \* what is indexed in this behaviour: the rest is as without
  docs,    \* the index: ids not used, uploads, schema cards by their source
  dir,     \* sources that have a directory,
  db,      \*   with a whole database in it,
  meta,    \*   and what metadata.json says
  known,   \* sources that have been listed, so that a client has their id
  gone,    \* sources whose deletion has been answered with success
  memory,  \* collections of the program
  disk,    \* collections in files
  hurt,    \* sources a failure, a crash or a race has cut into
  work     \* what every thread is doing

Documents  == "documents"           \* the collection of all documents
Collection == Source \cup {Documents}
Target     == Source \cup Doc
Batch      == 1..Batches
Home(x)    == IF x \in Source THEN x ELSE Documents
Vectors    == [dim : Dim, points : SUBSET (Target \X Batch)]
Meta       == [card : Doc \cup {None}, indexed : BOOLEAN]

Phase == {"idle", "count", "insert", "copy", "meta", "embed", "ensure",
          "create", "upsert", "read", "update", "drop", "unlist", "remove"}
Work  == [at : Phase, target : Target \cup {None}, card : Doc \cup {None},
          dim : Dim \cup {None}, stored : 0..Batches]

ASSUME SomeBatch    == Batches \in Nat \ {0}
ASSUME SomeDocument == MaxDocuments \in Nat \ {0}
ASSUME FewThreads   == IsFiniteSet(Thread)
ASSUME NoneOfThese  == None \notin Source \cup Doc \cup Dim \cup Meta \cup Vectors
ASSUME SourcesApart ==
  Source \cap (Doc \cup {Documents, "new", "upload", "deleted"}) = {}

\* What is going on with a source.
Deleting(s) == \E t \in Thread : /\ work[t].target = s
                                 /\ work[t].at \in {"drop", "unlist", "remove"}
Saving(s)   == \E t \in Thread : /\ work[t].target = s
                                 /\ work[t].at \in {"copy", "count", "insert",
                                                    "meta"}
Indexing(s) == \E t \in Thread : /\ work[t].target = s
                                 /\ work[t].at \in {"embed", "ensure", "create",
                                                    "upsert", "read", "update"}

\* Documents that are in the index.
Listed == {d \in Doc : docs[d] \notin {"new", "deleted"}}

-----------------------------------------------------------------------------
(* What is checked.                                                        *)

StoresTypeOK ==
  /\ topic \in {"sources", "documents"}
  /\ docs \in [Doc -> {"new", "upload", "deleted"} \cup Source]
  /\ db \subseteq dir /\ dir \subseteq Source
  /\ meta \in [Source -> Meta \cup {None}]
  /\ known \subseteq Source /\ gone \subseteq known /\ hurt \subseteq Source
  /\ memory \in [Collection -> Vectors \cup {None}]
  /\ disk \in [Collection -> Vectors \cup {None}]
  /\ work \in [Thread -> Work]

\* A source that is listed has its whole database, and a schema card in the
\* index has a source that is listed and knows it (save_sqlite_source).
SourcesAreWhole ==
  \A s \in Source \ hurt : ~Saving(s) /\ ~Deleting(s) =>
    /\ meta[s] # None <=> s \in db
    /\ \A d \in Doc : docs[d] = s => meta[s] # None /\ meta[s].card = d

\* A source that says it is indexed has the vectors of all its rows, and has
\* them after a restart too (index_sqlite_source_semantic).
IndexedSourcesHaveTheirVectors ==
  \A s \in Source \ hurt :
    (~Deleting(s) /\ meta[s] # None /\ meta[s].indexed) =>
      \A c \in {memory[s], disk[s]} :
        c # None /\ {s} \X Batch \subseteq c.points

\* Of a source that is deleted nothing is left and nothing comes back, unless
\* the disk failed, the service died, or it was being indexed meanwhile.
DeletedSourcesAreGone ==
  \A s \in gone \ hurt :
    /\ s \notin dir /\ memory[s] = None /\ disk[s] = None
    /\ \A d \in Doc : docs[d] # s

\* Requests that count at the same time pass the limit together: the index
\* exceeds it by the requests that run beside one, and by no more (add_document).
IndexStaysNearItsLimit ==
  Cardinality(Listed) < MaxDocuments + Cardinality(Thread)

\* The index, the directories and the metadata files, written one after the
\* other by requests that overlap, describe the same sources.
IndexIsSound == StoresTypeOK /\ SourcesAreWhole /\ IndexStaysNearItsLimit

=============================================================================
