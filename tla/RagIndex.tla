------------------------------ MODULE RagIndex ------------------------------
(***************************************************************************)
(* The local document index: index_directory of rag/indexer.py and         *)
(* run_rag_index of cli.py over the store of rag/store.py, which web       *)
(* requests, background jobs and commands run beside one another while     *)
(* documents are written and removed.                                      *)
(*                                                                         *)
(* A document of the store is the version of the file it was made from and *)
(* the embedder of its vectors.  Each write of the store is one SQLite     *)
(* transaction; between them nothing is held.                              *)
(***************************************************************************)
EXTENDS Integers, FiniteSets

CONSTANTS
  LastFile,      \* files are numbered in the order of their paths
  FrontMatter,   \* the files that begin with YAML front matter
  Roots,         \* the directories that are indexed, as sets of files
  Embedders,
  Hashing,       \* the embedder of a store that names none
  Unvectored,    \* what older versions stored without vectors, as sets of files
  Indexers,
  MaxVersion, MaxIndexRuns, MaxFailures   \* bounds of the runs of TLC

Files == 1 .. LastFile

ASSUME FilesAssumption ==
  /\ LastFile \in Nat
  /\ FrontMatter \subseteq Files
  /\ Roots \cup Unvectored \subseteq SUBSET Files
ASSUME EmbedderAssumption == Hashing \in Embedders /\ "none" \notin Embedders
ASSUME VersionAssumption == MaxVersion \in Nat

VARIABLES
  version,    \* of each file; 0 when it is not on disk
  store,      \* rag_documents, with their chunks and vectors
  meta,       \* the embedder named in rag_meta
  indexer,
  indexRuns, failures,
  synced      \* the files an undisturbed run over their directory has left in step

ragVars == <<version, store, meta, indexer, indexRuns, failures, synced>>

NoDocument == [version |-> 0, embedder |-> "none"]
OnDisk     == {f \in Files : version[f] > 0}
Stored     == {f \in Files : store[f] # NoDocument}

IdleIndexer == [pc |-> "idle", root |-> {}, todo |-> {}, kept |-> {}, embedder |-> "none",
                file |-> 0, read |-> 0, all |-> FALSE, calm |-> FALSE]

In(i, pc) == indexer[i].pc = pc
NoneBut(i) == \A k \in Indexers \ {i} : In(k, "idle")

RagInit ==
  /\ \E old \in Unvectored :
       /\ version = [f \in Files |-> IF f \in old THEN 1 ELSE 0]
       /\ store = [f \in Files |-> IF f \in old THEN [version |-> 1, embedder |-> "none"]
                                   ELSE NoDocument]
  /\ meta = "none"
  /\ indexer = [i \in Indexers |-> IdleIndexer]
  /\ indexRuns = 0 /\ failures = 0
  /\ synced = {}

-----------------------------------------------------------------------------
\* Somebody changes a file under the directories that are being indexed.
Disturbed(f) ==
  [i \in Indexers |-> [indexer[i] EXCEPT !.calm = @ /\ f \notin indexer[i].root]]

WriteFile(f) ==
  /\ version[f] < MaxVersion
  /\ version' = [version EXCEPT ![f] = @ + 1]
  /\ indexer' = Disturbed(f)
  /\ synced' = synced \ {f}
  /\ UNCHANGED <<store, meta, indexRuns, failures>>

\* A file that is removed and written again goes on counting versions.
RemoveFile(f) ==
  /\ version[f] > 0
  /\ version' = [version EXCEPT ![f] = -@]
  /\ indexer' = Disturbed(f)
  /\ synced' = synced \ {f}
  /\ UNCHANGED <<store, meta, indexRuns, failures>>

RestoreFile(f) ==
  /\ version[f] < 0
  /\ -version[f] < MaxVersion
  /\ version' = [version EXCEPT ![f] = 1 - @]
  /\ indexer' = Disturbed(f)
  /\ synced' = synced \ {f}
  /\ UNCHANGED <<store, meta, indexRuns, failures>>

-----------------------------------------------------------------------------
\* _backfill_embeddings: whoever opens a store whose chunks have no vectors
\* makes them, with the embedder it opens it with; rag_meta stays as it is.
Opened(e) ==
  IF Stored # {} /\ \A f \in Stored : store[f].embedder = "none"
    THEN [f \in Files |-> IF f \in Stored THEN [store[f] EXCEPT !.embedder = e] ELSE store[f]]
    ELSE store

\* A search or a listing.
OpenStore ==
  /\ store' = Opened(Hashing)
  /\ UNCHANGED <<version, meta, indexer, indexRuns, failures, synced>>

Started(i, run) ==
  [k \in Indexers |-> IF k = i THEN run ELSE [indexer[k] EXCEPT !.calm = FALSE]]

\* The store is opened, and iter_indexable_files lists the directory once.
StartDirectory(i, root, e) ==
  /\ In(i, "idle")
  /\ indexRuns < MaxIndexRuns
  /\ indexRuns' = indexRuns + 1
  /\ indexer' = Started(i, [IdleIndexer EXCEPT
                    !.pc = "walk", !.root = root, !.todo = root \cap OnDisk,
                    !.embedder = e, !.calm = NoneBut(i)])
  /\ synced' = synced \ root
  /\ store' = Opened(e)
  /\ UNCHANGED <<version, meta, failures>>

\* run_rag_index, after a note or a report has been saved: one file, whether
\* or not it has front matter, and no prune.
StartFile(i, f, e) ==
  /\ In(i, "idle")
  /\ indexRuns < MaxIndexRuns
  /\ version[f] > 0
  /\ indexRuns' = indexRuns + 1
  /\ indexer' = Started(i, [IdleIndexer EXCEPT
                    !.pc = "upsert", !.file = f, !.read = version[f], !.embedder = e,
                    !.all = TRUE])
  /\ synced' = synced \ {f}
  /\ store' = Opened(e)
  /\ UNCHANGED <<version, meta, failures>>

IsNext(i, f) == f \in indexer[i].todo /\ \A g \in indexer[i].todo : f <= g

\* load_document, unless content_only leaves the file out.
ReadFile(i, f) ==
  /\ In(i, "walk") /\ IsNext(i, f)
  /\ version[f] > 0
  /\ f \in FrontMatter
  /\ indexer' = [indexer EXCEPT ![i].pc = "upsert", ![i].file = f, ![i].read = version[f],
                                ![i].todo = @ \ {f}]
  /\ UNCHANGED <<version, store, meta, indexRuns, failures, synced>>

SkipFile(i, f) ==
  /\ In(i, "walk") /\ IsNext(i, f)
  /\ version[f] <= 0 \/ f \notin FrontMatter
  /\ indexer' = [indexer EXCEPT ![i].todo = @ \ {f}]
  /\ UNCHANGED <<version, store, meta, indexRuns, failures, synced>>

\* An OSError or a UnicodeDecodeError counts as a file to skip.
SkipUnreadable(i, f) ==
  /\ In(i, "walk") /\ IsNext(i, f)
  /\ version[f] > 0
  /\ failures < MaxFailures
  /\ failures' = failures + 1
  /\ indexer' = [indexer EXCEPT ![i].todo = @ \ {f}, ![i].calm = FALSE]
  /\ UNCHANGED <<version, store, meta, indexRuns, synced>>

(* Mutant: the embedder is named by the first document only.               *)
UpsertNamedOnce(i) ==
  /\ In(i, "upsert")
  /\ LET run == indexer[i]
     IN  /\ store' = [store EXCEPT ![run.file] =
                        [version |-> run.read, embedder |-> run.embedder]]
         /\ meta' = IF meta = "none" THEN run.embedder ELSE meta
         /\ indexer' = [indexer EXCEPT ![i] =
                          IF run.all THEN IdleIndexer
                          ELSE [run EXCEPT !.pc = "walk", !.file = 0, !.read = 0,
                                           !.kept = @ \cup {run.file}]]
  /\ UNCHANGED <<version, indexRuns, failures, synced>>

\* RagStore.upsert_document: the row, its chunks, its vectors and the name of
\* the embedder in one transaction.
Upsert(i) ==
  /\ In(i, "upsert")
  /\ LET run == indexer[i]
     IN  /\ store' = [store EXCEPT ![run.file] =
                        [version |-> run.read, embedder |-> run.embedder]]
         /\ meta' = run.embedder
         /\ indexer' = [indexer EXCEPT ![i] =
                          IF run.all THEN IdleIndexer
                          ELSE [run EXCEPT !.pc = "walk", !.file = 0, !.read = 0,
                                           !.kept = @ \cup {run.file}]]
  /\ UNCHANGED <<version, indexRuns, failures, synced>>

\* The embedder is a service or a model that may fail: the transaction is
\* rolled back and the exception ends the run, before its prune.
FailIndexing(i) ==
  /\ In(i, "upsert")
  /\ failures < MaxFailures
  /\ failures' = failures + 1
  /\ indexer' = [indexer EXCEPT ![i] = IdleIndexer]
  /\ UNCHANGED <<version, store, meta, indexRuns, synced>>

(* Mutant: only documents whose file is gone are pruned.                   *)
PruneGone(i) ==
  /\ In(i, "walk") /\ indexer[i].todo = {}
  /\ store' = [f \in Files |-> IF f \in indexer[i].root \ OnDisk THEN NoDocument ELSE store[f]]
  /\ synced' = IF indexer[i].calm THEN synced \cup indexer[i].root ELSE synced
  /\ indexer' = [indexer EXCEPT ![i] = IdleIndexer]
  /\ UNCHANGED <<version, meta, indexRuns, failures>>

\* RagStore.prune_documents under the directory of the run.
Prune(i) ==
  /\ In(i, "walk") /\ indexer[i].todo = {}
  /\ store' = [f \in Files |-> IF f \in indexer[i].root \ indexer[i].kept
                                 THEN NoDocument ELSE store[f]]
  /\ synced' = IF indexer[i].calm THEN synced \cup indexer[i].root ELSE synced
  /\ indexer' = [indexer EXCEPT ![i] = IdleIndexer]
  /\ UNCHANGED <<version, meta, indexRuns, failures>>

RagNext ==
  \/ OpenStore
  \/ \E f \in Files : WriteFile(f) \/ RemoveFile(f) \/ RestoreFile(f)
  \/ \E i \in Indexers, e \in Embedders :
       \/ \E root \in Roots : StartDirectory(i, root, e)
       \/ \E f \in Files : StartFile(i, f, e)
  \/ \E i \in Indexers, f \in Files : ReadFile(i, f) \/ SkipFile(i, f) \/ SkipUnreadable(i, f)
  \/ \E i \in Indexers : Upsert(i) \/ FailIndexing(i) \/ Prune(i)

RagSpec == RagInit /\ [][RagNext]_ragVars

-----------------------------------------------------------------------------
(* "So the store stays in sync with what is currently eligible on disk"    *)
(* (index_directory).  A run that no other run overlaps, and during which  *)
(* no file of its directory changes or is unreadable, leaves every file of *)
(* the directory in the index at its present version if it has front       *)
(* matter, and out of it if it has none or is gone; and it stays so until  *)
(* the file changes or is indexed again.                                   *)
SyncedIndexMatchesDisk ==
  \A f \in synced :
    IF f \in FrontMatter \cap OnDisk THEN store[f].version = version[f]
    ELSE f \notin Stored

(* Search embeds a query with the embedder that rag_meta names: "avoids    *)
(* silent space mismatch" (upsert_document).                               *)
SearchOneSpace == \A f \in Stored : store[f].embedder = meta

(* hybrid_search asks to rebuild the index with the embedder that is       *)
(* wanted: an undisturbed run over a directory that holds every stored     *)
(* file does bring all vectors into the space of rag_meta.                 *)
RebuildRestoresSpace ==
  [][\A i \in Indexers :
       /\ In(i, "walk") /\ indexer'[i].pc = "idle"
       /\ indexer[i].calm
       /\ Stored' \subseteq indexer[i].root
       => SearchOneSpace']_ragVars

=============================================================================
