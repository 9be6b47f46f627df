---------------------------- MODULE EdinetIngest ----------------------------
(***************************************************************************)
(* The ingest of EDINET filings: the jobs that webapi/jobs.py runs on      *)
(* threads of their own, each ingest_targets of edinet/ingest.py followed  *)
(* by the indexing of the output directory, over the files of one ticker;  *)
(* and prune_local_docs of maintenance.py, a command of its own.           *)
(*                                                                         *)
(* A filing is numbered by its submission.  What it leaves on disk is a    *)
(* text, whose existence marks it as done, and a sidecar with its point.   *)
(* A point of the history remembers two filings: the one it comes from and *)
(* the one whose five-year table its dividend is taken from.               *)
(***************************************************************************)
EXTENDS Integers, FiniteSets, FiniteSetsExt, Sequences, SequencesExt

CONSTANTS
  LastFiling,     \* how many filings are ever submitted
  PeriodEnd,      \* the date a filing reports on
  FiscalYear,     \* the year of that date
  WithDividend,   \* the filings that have a dividend figure, hence a point
  Table,          \* the years of the dividend table of a filing, if it has one
  Jobs,
  MaxPeriods,     \* max_periods of the target
  KeepPerDir,     \* keep_per_dir of the prune
  MaxRuns, MaxFaults   \* bounds of the runs of TLC: stops and prunes are faults

Filings == 1 .. LastFiling
Years   == {FiscalYear[d] : d \in Filings}

ASSUME FilingsAssumption ==
  /\ LastFiling \in Nat
  /\ PeriodEnd \in [Filings -> Nat] /\ FiscalYear \in [Filings -> Nat]
  /\ WithDividend \subseteq Filings
  /\ Table \in [Filings -> SUBSET Nat]
ASSUME LimitsAssumption == MaxPeriods \in Nat \ {0} /\ KeepPerDir \in Nat

VARIABLES
  texts,       \* local_docs/edinet/<ticker>/<doc_id>.txt, oldest file first
  sidecars,    \* the complete <doc_id>.points.json
  history,     \* financials.csv
  indexed,     \* the filings whose text is in the RAG store
  job,
  victims,     \* the filings being pruned, each with its files that are left
  runs, faults,
  reported,    \* years that a finished job has reported as merged (history)
  basis,       \* the newest filing whose table has corrected it (history)
  strains      \* what has happened that the ingest does not guard against

disk     == <<texts, sidecars, history, indexed>>
counters == <<runs, faults>>
ghosts   == <<reported, basis>>
ingestVars == <<disk, job, victims, counters, ghosts, strains>>

NoPoint == [from |-> 0, dividend |-> 0]
NoHistory == [y \in Years |-> NoPoint]

IdleJob == [pc |-> "idle", todo |-> {}, got |-> {}, merged |-> NoHistory,
            ingested |-> FALSE, raced |-> FALSE, listed |-> {}]

Saved == ToSet(texts)
At(j, pc) == job[j].pc = pc
AllIdle == \A j \in Jobs : At(j, "idle")

IngestInit ==
  /\ texts = <<>>
  /\ sidecars = {}
  /\ history = NoHistory
  /\ indexed = {}
  /\ job = [j \in Jobs |-> IdleJob]
  /\ victims = <<>>
  /\ runs = 0 /\ faults = 0
  /\ reported = {}
  /\ basis = 0
  /\ strains = {}

-----------------------------------------------------------------------------
\* select_recent_documents: the newest come first, so a limit drops the oldest.
Selected(seen) == {d \in seen : Cardinality({e \in seen : e > d}) < MaxPeriods}

Older(d, e) ==
  PeriodEnd[d] < PeriodEnd[e] \/ (PeriodEnd[d] = PeriodEnd[e] /\ d < e)

\* Runs that work on an older filing than one they do not look at: one of
\* the year that shows the other, or one the newest table is later than.
LooksBack(todo) ==
  \E e \in todo : \E y \in Years \cap {FiscalYear[e]} :
    e < history[y].from /\ history[y].from \notin todo
Reverts(todo) == basis \notin todo \cup {0} /\ \E e \in todo : Older(e, basis)

\* A job is given a range of submission dates, and sees what EDINET has of
\* them by now; a date whose list cannot be fetched is left out.
StartIngest(j, seen) ==
  /\ At(j, "idle")
  /\ runs < MaxRuns
  /\ runs' = runs + 1
  /\ job' = [job EXCEPT ![j] = [IdleJob EXCEPT !.pc = "docs", !.todo = Selected(seen)]]
  /\ strains' = strains \cup (IF AllIdle THEN {} ELSE {"overlap"})
                        \cup (IF LooksBack(Selected(seen)) THEN {"lookback"} ELSE {})
                        \cup (IF Reverts(Selected(seen)) THEN {"revert"} ELSE {})
  /\ UNCHANGED <<disk, victims, faults, ghosts>>

Current(j) == Max(job[j].todo)
Passed(j)  == job[j].todo \ {Current(j)}

ReadCached(j) ==
  /\ At(j, "docs") /\ job[j].todo # {}
  /\ Current(j) \in Saved
  /\ job' = [job EXCEPT ![j].todo = Passed(j),
                        ![j].got = @ \cup ({Current(j)} \cap sidecars)]
  /\ UNCHANGED <<disk, victims, counters, ghosts, strains>>

\* The filing has no CSV, or its download fails.
SkipFiling(j) ==
  /\ At(j, "docs") /\ job[j].todo # {}
  /\ Current(j) \notin Saved
  /\ job' = [job EXCEPT ![j].todo = Passed(j)]
  /\ UNCHANGED <<disk, victims, counters, ghosts, strains>>

Download(j) ==
  /\ At(j, "docs") /\ job[j].todo # {}
  /\ Current(j) \notin Saved
  /\ job' = [job EXCEPT ![j].pc = "text"]
  /\ UNCHANGED <<disk, victims, counters, ghosts, strains>>

\* A text that is written again becomes the youngest file.
Rewritten(d) ==
  Append(IF d \in Saved THEN RemoveAt(texts, CHOOSE i \in DOMAIN texts : texts[i] = d)
                        ELSE texts, d)

\* By now another job may have saved the same filing.
SaveText(j) ==
  /\ At(j, "text")
  /\ texts' = Rewritten(Current(j))
  /\ job' = [job EXCEPT ![j].pc = "sidecar", ![j].ingested = TRUE]
  /\ UNCHANGED <<sidecars, history, indexed, victims, counters, ghosts, strains>>

Tabled(got) == {d \in got : Table[d] # {}}

\* A table without a dividend figure beside it (the figure picked may be no
\* number) is in no sidecar: this run corrects by it, and no later one can.
Unsaved(d) == IF Tabled({d}) \ WithDividend # {} THEN {"unsaved"} ELSE {}

(* Mutant: the point is saved and not handed to the merge of this run.     *)
SaveSidecarOnly(j) ==
  /\ At(j, "sidecar")
  /\ sidecars' = sidecars \cup ({Current(j)} \cap WithDividend)
  /\ job' = [job EXCEPT ![j].pc = "docs", ![j].todo = Passed(j)]
  /\ UNCHANGED <<texts, history, indexed, victims, counters, ghosts, strains>>

SaveSidecar(j) ==
  /\ At(j, "sidecar")
  /\ sidecars' = sidecars \cup ({Current(j)} \cap WithDividend)
  /\ job' = [job EXCEPT ![j].pc = "docs", ![j].todo = Passed(j), ![j].got = @ \cup {Current(j)}]
  /\ strains' = strains \cup Unsaved(Current(j))
  /\ UNCHANGED <<texts, history, indexed, victims, counters, ghosts>>

-----------------------------------------------------------------------------
\* The history is written, or there is nothing to write: the points of the
\* run have served.
Indexing(j) == [IdleJob EXCEPT !.pc = "index", !.ingested = job[j].ingested]

\* The filing whose table corrects the dividends: the latest period, and of
\* equal periods the filing met first.
Corrector(got) ==
  LET latest == {d \in Tabled(got) : \A e \in Tabled(got) : PeriodEnd[e] <= PeriodEnd[d]}
  IN  Max(latest)

Corrected(point, year, got) ==
  IF Tabled(got) # {} /\ point # NoPoint /\ year \in Table[Corrector(got)]
  THEN [point EXCEPT !.dividend = Corrector(got)]
  ELSE point

OfYear(got, y) == {d \in got \cap WithDividend : FiscalYear[d] = y}

(* Mutants: the points of this run alone; the oldest filing of a year wins *)
(* over the newer ones; the points of the history are not corrected.       *)
MergedAlone(got) ==
  [y \in Years |->
    Corrected(IF OfYear(got, y) # {}
                THEN [from |-> Max(OfYear(got, y)), dividend |-> Max(OfYear(got, y))]
                ELSE NoPoint,
              y, got)]

MergedOldest(got) ==
  [y \in Years |->
    Corrected(IF OfYear(got, y) # {}
                THEN [from |-> Min(OfYear(got, y)), dividend |-> Min(OfYear(got, y))]
                ELSE history[y],
              y, got)]

MergedUncorrected(got) ==
  [y \in Years |->
    IF OfYear(got, y) # {}
      THEN Corrected([from |-> Max(OfYear(got, y)), dividend |-> Max(OfYear(got, y))], y, got)
      ELSE history[y]]

\* dedupe_points over the points of this run, newest filing first, and then
\* those of the history.
Merged(got) ==
  [y \in Years |->
    Corrected(IF OfYear(got, y) # {}
                THEN [from |-> Max(OfYear(got, y)), dividend |-> Max(OfYear(got, y))]
                ELSE history[y],
              y, got)]

\* Reads the history, as far as it is written at this moment.
MergeHistory(j) ==
  /\ At(j, "docs") /\ job[j].todo = {}
  /\ LET merged == Merged(job[j].got)
     IN  job' = [job EXCEPT ![j] = IF merged = NoHistory THEN Indexing(j)
                                   ELSE [@ EXCEPT !.pc = "open", !.merged = merged]]
  /\ UNCHANGED <<disk, victims, counters, ghosts, strains>>

\* write_financials_csv truncates the file and fills it in the order of the
\* years; a file that ends within a row counts as empty.
Prefix(points, y) == [z \in Years |-> IF z < y THEN points[z] ELSE NoPoint]

OpenHistory(j) ==
  /\ At(j, "open")
  /\ \E y \in Years : history' = Prefix(job[j].merged, y)
  /\ job' = [job EXCEPT ![j].pc = "rows", ![j].got = {}]
  /\ basis' = IF Tabled(job[j].got) = {} THEN basis
              ELSE Corrector(job[j].got \cup ({basis} \ {0}))
  /\ UNCHANGED <<texts, sidecars, indexed, victims, counters, reported, strains>>

\* When another job has closed the file since this one opened it, what this
\* one wrote may end in the tail of the other's rows.
CloseHistory(j) ==
  /\ At(j, "rows")
  /\ history' \in {job[j].merged} \cup (IF job[j].raced THEN {NoHistory} ELSE {})
  /\ job' = [k \in Jobs |-> IF k = j THEN Indexing(j)
                            ELSE [job[k] EXCEPT !.raced = @ \/ At(k, "rows")]]
  /\ reported' = reported \cup {y \in Years : job[j].merged[y] # NoPoint}
  /\ UNCHANGED <<texts, sidecars, indexed, victims, counters, basis, strains>>

\* index_directory, when index_after and the run has saved a text: the
\* documents of the files that are there, then the prune of all others.  How
\* runs of it interfere file by file is the matter of RagIndex.
IndexTexts(j) ==
  /\ At(j, "index")
  /\ IF job[j].ingested
       THEN /\ indexed' = indexed \cup Saved
            /\ job' = [job EXCEPT ![j].pc = "unlist", ![j].listed = Saved]
       ELSE /\ job' = [job EXCEPT ![j] = IdleJob]
            /\ UNCHANGED indexed
  /\ UNCHANGED <<texts, sidecars, history, victims, counters, ghosts, strains>>

PruneIndex(j) ==
  /\ At(j, "unlist")
  /\ indexed' = indexed \cap job[j].listed
  /\ job' = [job EXCEPT ![j] = IdleJob]
  /\ UNCHANGED <<texts, sidecars, history, victims, counters, ghosts, strains>>

-----------------------------------------------------------------------------
\* What a job leaves undone when it ends early.
LeftUndone(j) ==
  (IF At(j, "rows") THEN {"torn"} ELSE {}) \cup
  (IF job[j].ingested THEN {"unfinished"} ELSE {})

\* The archive of a filing is damaged, or a list is no JSON: the exception
\* ends the job, and JobStore records the error.
FailJob(j) ==
  /\ At(j, "docs") /\ job[j].todo # {}
  /\ Current(j) \notin Saved
  /\ strains' = strains \cup LeftUndone(j)
  /\ job' = [job EXCEPT ![j] = IdleJob]
  /\ UNCHANGED <<disk, victims, counters, ghosts>>

\* The process stops: the job threads are daemons, and JobStore forgets them.
StopServer ==
  /\ faults < MaxFaults
  /\ ~AllIdle
  /\ faults' = faults + 1
  /\ strains' = strains \cup UNION {LeftUndone(j) : j \in Jobs}
  /\ job' = [j \in Jobs |-> IdleJob]
  /\ UNCHANGED <<disk, victims, runs, ghosts>>

\* prune_local_docs sorts the filings of the directory by the age of their
\* files and then unlinks the files it has seen of all but the youngest.
FilesOf(d) == {"text"} \cup (IF d \in sidecars THEN {"sidecar"} ELSE {})

ListVictims ==
  /\ faults < MaxFaults
  /\ victims = <<>>
  /\ Len(texts) > KeepPerDir
  /\ LET oldest == Reverse(SubSeq(texts, 1, Len(texts) - KeepPerDir))
     IN  victims' = [i \in DOMAIN oldest |-> [filing |-> oldest[i], files |-> FilesOf(oldest[i])]]
  /\ faults' = faults + 1
  /\ strains' = strains \cup {"prune"}
  /\ UNCHANGED <<disk, job, runs, ghosts>>

UnlinkFile ==
  /\ victims # <<>>
  /\ LET victim == Head(victims)
         d      == victim.filing
     IN  \E file \in victim.files :
           /\ IF file = "text"
                THEN texts' = SelectSeq(texts, LAMBDA e : e # d) /\ UNCHANGED sidecars
                ELSE sidecars' = sidecars \ {d} /\ UNCHANGED texts
           /\ victims' = IF victim.files = {file} THEN Tail(victims)
                         ELSE [victims EXCEPT ![1].files = @ \ {file}]
  /\ UNCHANGED <<history, indexed, job, counters, ghosts, strains>>

IngestStep(j) ==
  \/ ReadCached(j) \/ SkipFiling(j) \/ Download(j) \/ SaveText(j) \/ SaveSidecar(j)
  \/ MergeHistory(j) \/ OpenHistory(j) \/ CloseHistory(j)
  \/ IndexTexts(j) \/ PruneIndex(j) \/ FailJob(j)

IngestNext ==
  \/ \E j \in Jobs, seen \in SUBSET Filings : StartIngest(j, seen)
  \/ \E j \in Jobs : IngestStep(j)
  \/ StopServer \/ ListVictims \/ UnlinkFile

IngestSpec == IngestInit /\ [][IngestNext]_ingestVars

-----------------------------------------------------------------------------
Without(some) == strains \cap some = {}

(* "Merge with the durable history so pruning bulky filing files never     *)
(* loses the (tiny) dividend record": a year that a job has merged stays   *)
(* in financials.csv, whatever later runs find on disk, unless two jobs    *)
(* have overlapped or the process has stopped in the middle of a write.    *)
HistoryKept ==
  Without({"overlap", "torn"}) /\ (\A j \in Jobs : ~At(j, "rows"))
    => \A y \in reported : history[y] # NoPoint

(* "The newest filing's figures win when the same period appears in more   *)
(* than one filing" (dedupe_points), as long as no run works on an older   *)
(* filing of a year without the one the year shows, overlaps another run   *)
(* or fails to fetch again a filing that was pruned.                       *)
NewestWinsUnlessStrained ==
  [][strains' \cap {"overlap", "lookback", "prune"} = {}
       => \A y \in Years : history[y] # NoPoint /\ history'[y] # NoPoint
                             => history'[y].from >= history[y].from]_ingestVars

(* "A stock split cannot leave a spurious cut/jump in the series": once a  *)
(* table has corrected the history, no year it covers shows a dividend     *)
(* from an older filing or table, also while the file is written and after *)
(* a write that was cut off.  Not so when runs overlap, when a run works   *)
(* on filings older than that table and not on its filing, when files are  *)
(* pruned, and when a table had no sidecar to be read from again.          *)
NewestTableHolds ==
  Without({"overlap", "revert", "prune", "unsaved"}) /\ basis # 0
    => \A y \in Table[basis] \cap Years :
         history[y] # NoPoint => ~Older(history[y].dividend, basis)

(* A text on disk is never downloaded again, so what the history does not  *)
(* have when its job ends it may never get: with the jobs at rest every    *)
(* saved filing with a dividend has its year in the history, from itself   *)
(* or from a newer filing.  A prune can break that too: when the filing it *)
(* took is not fetched again, an older one takes its year, past a third    *)
(* that is still on disk.                                                  *)
SavedFilingsCounted ==
  AllIdle /\ Without({"overlap", "lookback", "prune", "torn", "unfinished"})
    => \A d \in Saved \cap WithDividend : history[FiscalYear[d]].from >= d

=============================================================================
