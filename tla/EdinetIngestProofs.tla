------------------------- MODULE EdinetIngestProofs -------------------------
(***************************************************************************)
(* The history of a ticker's filings, for any filings, years and dividend  *)
(* tables and any number of jobs.                                          *)
(*                                                                         *)
(* HistoryKept speaks of what is on disk between two writes.  Inductive is *)
(* what the job between its read and its write holds: as long as no two    *)
(* jobs have overlapped and no write was cut off, at most one job is at    *)
(* work, and what it is about to write has every year reported so far.     *)
(***************************************************************************)
EXTENDS EdinetIngest, WellFoundedInduction, SequenceTheorems, TLAPS

\* A dividend is of a filing of the year, or of the table that corrects it.
Givers == Filings \cup {0} \cup {Corrector(got) : got \in SUBSET Filings}
Shapes == [from: Filings \cup {0}, dividend: Givers]
Series == {points \in [Years -> Shapes] :
             \A y \in Years : points[y] = NoPoint \/ points[y].from \in Filings}

States == {"idle", "docs", "text", "sidecar", "open", "rows", "index", "unlist"}

JobRecords(listings) ==
  {run \in [pc: States, todo: SUBSET Filings, got: SUBSET Filings, merged: Series,
            ingested: BOOLEAN, raced: BOOLEAN, listed: SUBSET listings] :
     run.pc \in {"text", "sidecar"} => run.todo # {}}

IngestTypes ==
  /\ sidecars \in SUBSET Filings
  /\ history \in Series
  /\ reported \in SUBSET Years
  /\ \E listings : job \in [Jobs -> JobRecords(listings)]

Holds(points, years) == \A y \in years : points[y] # NoPoint

OneAtWork ==
  \A j \in Jobs :
    ~At(j, "idle") => /\ \A k \in Jobs \ {j} : At(k, "idle")
                      /\ ~job[j].raced
                      /\ job[j].pc \in {"open", "rows"} => Holds(job[j].merged, reported)

HistoryInv ==
  /\ IngestTypes
  /\ Without({"overlap", "torn"}) =>
       /\ OneAtWork
       /\ (\A j \in Jobs : ~At(j, "rows")) => Holds(history, reported)

-----------------------------------------------------------------------------
(* The newest filing of a year is one of them, and none is newer.          *)
Less == {p \in Nat \X Nat : p[1] < p[2]}

(* There is no infinite descent in the numbers.                            *)
LEMMA LessWellFounded == IsWellFoundedOn(Less, Nat)
BY NatLessThanWellFounded DEF OpToRel, Less

(* A set of filings has a newest one.                                      *)
LEMMA NewestFiling ==
  ASSUME NEW S \in SUBSET Filings, S # {}
  PROVE  Max(S) \in S /\ \A e \in S : e <= Max(S)
<1> DEFINE back == {LastFiling - d : d \in S}
<1>1. \A d \in S : d \in Int /\ LastFiling - d \in Nat
  BY FilingsAssumption DEF Filings
<1>2. back \in SUBSET Nat /\ back # {}
  BY <1>1
<1>3. PICK m \in back : \A b \in back : ~ (<<b, m>> \in Less)
  <2> HIDE DEF back
  <2>1. QED BY <1>2, LessWellFounded, WFMin
<1>4. \A b \in back : m <= b
  <2> HIDE DEF back
  <2>1. \A b \in back : b \in Nat /\ m \in Nat /\ ~ (b < m)
    BY <1>2, <1>3 DEF Less
  <2>2. QED BY <2>1
<1>5. PICK d \in S : m = LastFiling - d
  OBVIOUS
<1>6. \A e \in S : LastFiling - d <= LastFiling - e
  BY <1>4, <1>5
<1>7. \A e \in S : d >= e
  BY <1>1, <1>6, FilingsAssumption
<1>8. \E newest \in S : \A e \in S : newest >= e
  BY <1>7
<1>9. Max(S) \in S /\ \A e \in S : Max(S) >= e
  BY <1>8 DEF Max
<1>10. QED BY <1>1, <1>9

(* The year without a point, and the history without a year.               *)
LEMMA NoPointShape ==
  /\ NoPoint \in Shapes /\ NoPoint.from = 0
  /\ NoHistory \in Series
BY DEF NoPoint, Shapes, Givers, NoHistory, Series

(* A merge loses no year of the history.                                   *)
LEMMA MergeKeeps ==
  ASSUME history \in Series, NEW got \in SUBSET Filings
  PROVE  /\ Merged(got) \in Series
         /\ \A y \in Years : history[y] # NoPoint => Merged(got)[y] # NoPoint
<1> DEFINE Point(y) == IF OfYear(got, y) # {}
                         THEN [from |-> Max(OfYear(got, y)), dividend |-> Max(OfYear(got, y))]
                         ELSE history[y]
<1>1. 0 \notin Filings
  BY FilingsAssumption DEF Filings
<1>2. ASSUME NEW y \in Years
      PROVE  /\ Point(y) \in Shapes
             /\ Point(y) = NoPoint \/ Point(y).from \in Filings
             /\ history[y] # NoPoint => Point(y) # NoPoint
  <2>1. CASE OfYear(got, y) # {}
    <3>1. PICK d \in Filings : d = Max(OfYear(got, y))
      BY <2>1, NewestFiling DEF OfYear
    <3>2. Point(y) = [from |-> d, dividend |-> d]
      BY <2>1, <3>1
    <3>3. [from |-> d, dividend |-> d] \in Shapes
      BY <3>1 DEF Shapes, Givers
    <3>4. Point(y).from = d /\ d # 0
      BY <1>1, <3>1, <3>2
    <3>5. QED BY <3>1, <3>2, <3>3, <3>4, NoPointShape
  <2>2. CASE OfYear(got, y) = {}
    BY <2>2 DEF Series
  <2>3. QED BY <2>1, <2>2
<1>3. ASSUME NEW y \in Years
      PROVE  /\ Corrected(Point(y), y, got) \in Shapes
             /\ Corrected(Point(y), y, got) = NoPoint
                  \/ Corrected(Point(y), y, got).from \in Filings
             /\ history[y] # NoPoint => Corrected(Point(y), y, got) # NoPoint
  <2>1. PICK p \in Shapes : p = Point(y)
    BY <1>2
  <2>2. CASE Corrected(Point(y), y, got) = Point(y)
    BY <1>2, <2>2
  <2>3. CASE p # NoPoint /\ Corrected(Point(y), y, got) = [p EXCEPT !.dividend = Corrector(got)]
    <3>1. PICK g \in Givers : g = Corrector(got)
      BY DEF Givers
    <3>2. p.from \in Filings
      BY <1>2, <2>1, <2>3
    <3>3. [p EXCEPT !.dividend = g] \in Shapes /\ [p EXCEPT !.dividend = g].from = p.from
      BY <2>1 DEF Shapes
    <3>4. PICK q \in Shapes : q = [p EXCEPT !.dividend = g] /\ q.from \in Filings
      BY <3>2, <3>3
    <3>5. q # NoPoint
      BY <1>1, <3>4, NoPointShape
    <3>6. Corrected(Point(y), y, got) = q
      BY <2>3, <3>1, <3>4
    <3>7. QED BY <3>4, <3>5, <3>6
  <2>4. QED BY <2>1, <2>2, <2>3 DEF Corrected
<1>4. Merged(got) = [y \in Years |-> Corrected(Point(y), y, got)]
  BY DEF Merged
<1> HIDE DEF Point
<1>5. QED BY <1>3, <1>4 DEF Series

(* What is in the file while it is being written.                          *)
LEMMA PrefixShape ==
  ASSUME NEW points \in Series, NEW y \in Years
  PROVE  Prefix(points, y) \in Series
BY NoPointShape DEF Prefix, Series

-----------------------------------------------------------------------------
(* The record of a job at rest.                                            *)
LEMMA IdleJobType ==
  \A listings : IdleJob \in JobRecords(listings) /\ IdleJob.pc = "idle"
BY NoPointShape DEF IdleJob, JobRecords, States

(* The history holds at the start.                                         *)
LEMMA InitHistoryInv == IngestInit => HistoryInv
<1> SUFFICES ASSUME IngestInit PROVE HistoryInv
  OBVIOUS
<1>1. IngestTypes
  BY IdleJobType, NoPointShape DEF IngestInit, IngestTypes
<1>2. \A j \in Jobs : At(j, "idle")
  BY IdleJobType DEF IngestInit, At
<1>3. QED BY <1>1, <1>2 DEF IngestInit, HistoryInv, OneAtWork, Holds

(* A job moves on or ends, and neither writes the history nor prepares to. *)
LEMMA QuietStep ==
  ASSUME HistoryInv, NEW j \in Jobs, ~At(j, "rows"), ~At(j, "idle"),
         NEW listings, job \in [Jobs -> JobRecords(listings)],
         NEW more, NEW run \in JobRecords(listings \cup more),
         job' = [job EXCEPT ![j] = run],
         run.pc \notin {"open", "rows"}, run.pc # "idle" => run.raced = job[j].raced,
         UNCHANGED <<history, reported>>, sidecars' \in SUBSET Filings,
         strains \subseteq strains'
  PROVE  HistoryInv'
<1>1. job' \in [Jobs -> JobRecords(listings \cup more)]
  BY DEF JobRecords
<1>2. IngestTypes'
  BY <1>1 DEF HistoryInv, IngestTypes
<1>3. job'[j] = run /\ \A k \in Jobs \ {j} : job'[k] = job[k]
  OBVIOUS
<1>4. ASSUME Without({"overlap", "torn"})'
      PROVE  OneAtWork' /\ ((\A k \in Jobs : ~At(k, "rows")') => Holds(history', reported'))
  <2>1. OneAtWork /\ ((\A k \in Jobs : ~At(k, "rows")) => Holds(history, reported))
    BY <1>4 DEF HistoryInv, Without
  <2>2. \A k \in Jobs \ {j} : At(k, "idle")
    BY <2>1 DEF OneAtWork
  <2>3. Holds(history, reported)
    BY <2>1, <2>2 DEF At
  <2>4. OneAtWork'
    BY <1>3, <2>1, <2>2 DEF OneAtWork, At
  <2>5. QED BY <2>3, <2>4 DEF Holds
<1>5. QED BY <1>2, <1>4 DEF HistoryInv

(* What a job has in hand are filings.                                     *)
LEMMA CurrentFact ==
  ASSUME HistoryInv, NEW j \in Jobs
  PROVE  /\ Passed(j) \in SUBSET Filings
         /\ {Current(j)} \cap WithDividend \in SUBSET Filings
         /\ {Current(j)} \cap sidecars \in SUBSET Filings
         /\ job[j].got \in SUBSET Filings /\ job[j].todo \in SUBSET Filings
         /\ job[j].merged \in Series
         /\ job[j].pc \in {"text", "sidecar"} => Current(j) \in job[j].todo
<1>1. PICK listings : job \in [Jobs -> JobRecords(listings)]
  BY DEF HistoryInv, IngestTypes
<1>2. job[j] \in JobRecords(listings)
  BY <1>1
<1>3. job[j].todo \in SUBSET Filings
  BY <1>2 DEF JobRecords
<1>4. job[j].pc \in {"text", "sidecar"} => Current(j) \in job[j].todo
  BY <1>2, <1>3, NewestFiling DEF JobRecords, Current
<1>5. QED BY <1>2, <1>3, <1>4, FilingsAssumption DEF HistoryInv, IngestTypes, JobRecords, Passed

(* The steps of a job before its merge and after its write.                *)
LEMMA FilingStep ==
  ASSUME HistoryInv, NEW j \in Jobs,
         \/ ReadCached(j) \/ SkipFiling(j) \/ Download(j) \/ SaveText(j)
         \/ SaveSidecar(j) \/ IndexTexts(j) \/ PruneIndex(j) \/ FailJob(j)
  PROVE  HistoryInv'
<1>1. PICK listings : job \in [Jobs -> JobRecords(listings)]
  BY DEF HistoryInv, IngestTypes
<1>2. job[j] \in JobRecords(listings)
  BY <1>1
<1>3. /\ UNCHANGED <<history, reported>> /\ strains \subseteq strains'
      /\ ~At(j, "rows") /\ ~At(j, "idle")
  BY DEF ReadCached, SkipFiling, Download, SaveText, SaveSidecar, IndexTexts, PruneIndex,
         FailJob, disk, ghosts, At
<1>4. sidecars' \in SUBSET Filings
  BY CurrentFact DEF ReadCached, SkipFiling, Download, SaveText, SaveSidecar, IndexTexts,
                     PruneIndex, FailJob, disk, HistoryInv, IngestTypes
<1>5. PICK passed \in SUBSET Filings : passed = Passed(j)
  BY CurrentFact
<1>6. job[j] \in JobRecords(listings \cup Saved) /\ IdleJob \in JobRecords(listings \cup Saved)
  BY <1>2, IdleJobType DEF JobRecords
<1>7. \E run \in JobRecords(listings \cup Saved) :
        /\ job' = [job EXCEPT ![j] = run]
        /\ run.pc \notin {"open", "rows"}
        /\ run.pc # "idle" => run.raced = job[j].raced
  <2>1. CASE ReadCached(j)
    <3>1. PICK got \in SUBSET Filings : got = job[j].got \cup ({Current(j)} \cap sidecars)
      BY CurrentFact
    <3>2. PICK run : run = [job[j] EXCEPT !.todo = passed, !.got = got]
      OBVIOUS
    <3>3. /\ run \in JobRecords(listings \cup Saved)
          /\ run.pc = job[j].pc /\ run.raced = job[j].raced
      BY <1>6, <2>1, <3>2 DEF JobRecords, ReadCached, At
    <3>4. job' = [job EXCEPT ![j] = run]
      BY <1>5, <2>1, <3>1, <3>2 DEF ReadCached
    <3>5. QED BY <2>1, <3>3, <3>4 DEF ReadCached, At
  <2>2. CASE SkipFiling(j)
    <3>1. PICK run : run = [job[j] EXCEPT !.todo = passed]
      OBVIOUS
    <3>2. /\ run \in JobRecords(listings \cup Saved)
          /\ run.pc = job[j].pc /\ run.raced = job[j].raced
      BY <1>6, <2>2, <3>1 DEF JobRecords, SkipFiling, At
    <3>3. job' = [job EXCEPT ![j] = run]
      BY <1>5, <2>2, <3>1 DEF SkipFiling
    <3>4. QED BY <2>2, <3>2, <3>3 DEF SkipFiling, At
  <2>3. CASE Download(j)
    <3>1. PICK run : run = [job[j] EXCEPT !.pc = "text"]
      OBVIOUS
    <3>2. /\ run \in JobRecords(listings \cup Saved)
          /\ run.pc = "text" /\ run.raced = job[j].raced
      BY <1>6, <2>3, <3>1 DEF JobRecords, States, Download
    <3>3. job' = [job EXCEPT ![j] = run]
      BY <2>3, <3>1 DEF Download
    <3>4. QED BY <3>2, <3>3
  <2>4. CASE SaveText(j)
    <3>1. PICK run : run = [job[j] EXCEPT !.pc = "sidecar", !.ingested = TRUE]
      OBVIOUS
    <3>2. /\ run \in JobRecords(listings \cup Saved)
          /\ run.pc = "sidecar" /\ run.raced = job[j].raced
      BY <1>6, <2>4, <3>1 DEF JobRecords, States, SaveText, At
    <3>3. job' = [job EXCEPT ![j] = run]
      BY <2>4, <3>1 DEF SaveText
    <3>4. QED BY <3>2, <3>3
  <2>5. CASE SaveSidecar(j)
    <3>1. PICK got \in SUBSET Filings : got = job[j].got \cup {Current(j)}
      BY <2>5, CurrentFact DEF SaveSidecar, At
    <3>2. PICK run : run = [job[j] EXCEPT !.pc = "docs", !.todo = passed, !.got = got]
      OBVIOUS
    <3>3. /\ run \in JobRecords(listings \cup Saved)
          /\ run.pc = "docs" /\ run.raced = job[j].raced
      BY <1>6, <3>2 DEF JobRecords, States
    <3>4. job' = [job EXCEPT ![j] = run]
      BY <1>5, <2>5, <3>1, <3>2 DEF SaveSidecar
    <3>5. QED BY <3>3, <3>4
  <2>6. CASE IndexTexts(j) /\ job[j].ingested
    <3>1. PICK saved \in SUBSET (listings \cup Saved) : saved = Saved
      OBVIOUS
    <3>2. PICK run : run = [job[j] EXCEPT !.pc = "unlist", !.listed = saved]
      OBVIOUS
    <3>3. /\ run \in JobRecords(listings \cup Saved)
          /\ run.pc = "unlist" /\ run.raced = job[j].raced
      BY <1>6, <3>2 DEF JobRecords, States
    <3>4. job' = [job EXCEPT ![j] = run]
      BY <2>6, <3>1, <3>2 DEF IndexTexts
    <3>5. QED BY <3>3, <3>4
  <2>7. CASE (IndexTexts(j) /\ ~job[j].ingested) \/ PruneIndex(j) \/ FailJob(j)
    <3>1. job' = [job EXCEPT ![j] = IdleJob]
      BY <2>7 DEF IndexTexts, PruneIndex, FailJob
    <3>2. IdleJob.pc = "idle"
      BY IdleJobType
    <3>3. QED BY <1>6, <3>1, <3>2
  <2>8. QED BY <2>1, <2>2, <2>3, <2>4, <2>5, <2>6, <2>7
<1>8. QED BY <1>1, <1>3, <1>4, <1>7, QuietStep

(* The merge reads a history that has every year reported.                 *)
LEMMA MergeStep ==
  ASSUME HistoryInv, NEW j \in Jobs, MergeHistory(j)
  PROVE  HistoryInv'
<1>1. PICK listings : job \in [Jobs -> JobRecords(listings)]
  BY DEF HistoryInv, IngestTypes
<1>2. At(j, "docs") /\ UNCHANGED <<sidecars, history, reported, strains>>
  BY DEF MergeHistory, disk, ghosts
<1>3. PICK merged \in Series : merged = Merged(job[j].got)
  BY CurrentFact, MergeKeeps DEF HistoryInv, IngestTypes
<1>4. \A y \in Years : history[y] # NoPoint => merged[y] # NoPoint
  BY <1>3, CurrentFact, MergeKeeps DEF HistoryInv, IngestTypes
<1>5. /\ job[j] \in JobRecords(listings)
      /\ Indexing(j) \in JobRecords(listings)
      /\ Indexing(j).pc = "index" /\ ~Indexing(j).raced
  <2>1. IdleJob \in JobRecords(listings) /\ IdleJob.raced = FALSE
    BY IdleJobType DEF IdleJob
  <2>2. PICK idle : idle = IdleJob
    OBVIOUS
  <2>3. PICK run : run = [idle EXCEPT !.pc = "index", !.ingested = job[j].ingested]
    OBVIOUS
  <2>4. run \in JobRecords(listings) /\ run.pc = "index" /\ ~run.raced
    BY <1>1, <2>1, <2>2, <2>3 DEF JobRecords, States
  <2>5. QED BY <1>1, <2>2, <2>3, <2>4 DEF Indexing
<1>6. PICK open : open = [job[j] EXCEPT !.pc = "open", !.merged = merged]
  OBVIOUS
<1>7. /\ open \in JobRecords(listings) /\ open.pc = "open"
      /\ open.merged = merged /\ open.raced = job[j].raced
  BY <1>5, <1>6 DEF JobRecords, States
<1>8. PICK run : /\ run \in JobRecords(listings) /\ job' = [job EXCEPT ![j] = run]
                 /\ (run.pc = "index" /\ ~run.raced) \/ run = open
  <2>1. CASE merged = NoHistory
    BY <1>3, <1>5, <2>1 DEF MergeHistory
  <2>2. CASE merged # NoHistory
    BY <1>1, <1>3, <1>6, <1>7, <2>2 DEF MergeHistory
  <2>3. QED BY <2>1, <2>2
<1>9. job'[j] = run /\ \A k \in Jobs \ {j} : job'[k] = job[k]
  BY <1>1, <1>8
<1>10. IngestTypes'
  <2>1. job' \in [Jobs -> JobRecords(listings)]
    BY <1>1, <1>8
  <2>2. QED BY <1>2, <2>1 DEF HistoryInv, IngestTypes
<1>11. ASSUME Without({"overlap", "torn"})'
       PROVE  OneAtWork' /\ ((\A k \in Jobs : ~At(k, "rows")') => Holds(history', reported'))
  <2>1. OneAtWork /\ ((\A k \in Jobs : ~At(k, "rows")) => Holds(history, reported))
    BY <1>2, <1>11 DEF HistoryInv, Without
  <2>2. (\A k \in Jobs \ {j} : At(k, "idle")) /\ ~job[j].raced
    BY <1>2, <2>1 DEF OneAtWork, At
  <2>3. Holds(history, reported)
    BY <1>2, <2>1, <2>2 DEF At
  <2>4. Holds(merged, reported)
    BY <1>4, <2>3 DEF Holds, HistoryInv, IngestTypes
  <2>5. OneAtWork'
    BY <1>2, <1>7, <1>8, <1>9, <2>2, <2>4 DEF OneAtWork, At, Holds
  <2>6. QED BY <1>2, <2>3, <2>5 DEF Holds
<1>12. QED BY <1>10, <1>11 DEF HistoryInv

(* A job opens the history for its write, which truncates it.              *)
LEMMA OpenStep ==
  ASSUME HistoryInv, NEW j \in Jobs, OpenHistory(j)
  PROVE  HistoryInv'
<1>1. PICK listings : job \in [Jobs -> JobRecords(listings)]
  BY DEF HistoryInv, IngestTypes
<1>2. At(j, "open") /\ UNCHANGED <<sidecars, reported, strains>>
  BY DEF OpenHistory
<1>3. PICK run : run = [job[j] EXCEPT !.pc = "rows", !.got = {}]
  OBVIOUS
<1>4. /\ run \in JobRecords(listings) /\ run.pc = "rows"
      /\ run.merged = job[j].merged /\ run.raced = job[j].raced
  BY <1>1, <1>3 DEF JobRecords, States
<1>5. job' = [job EXCEPT ![j] = run]
  BY <1>3 DEF OpenHistory
<1>6. job'[j] = run /\ \A k \in Jobs \ {j} : job'[k] = job[k]
  BY <1>1, <1>5
<1>7. IngestTypes'
  <2>1. job' \in [Jobs -> JobRecords(listings)]
    BY <1>1, <1>4, <1>5
  <2>2. history' \in Series
    BY CurrentFact, PrefixShape DEF OpenHistory
  <2>3. QED BY <1>2, <2>1, <2>2 DEF HistoryInv, IngestTypes
<1>8. ASSUME Without({"overlap", "torn"})'
      PROVE  OneAtWork' /\ ((\A k \in Jobs : ~At(k, "rows")') => Holds(history', reported'))
  <2>1. OneAtWork
    BY <1>2, <1>8 DEF HistoryInv, Without
  <2>2. /\ \A k \in Jobs \ {j} : At(k, "idle")
        /\ Holds(job[j].merged, reported) /\ ~job[j].raced
    BY <1>2, <2>1 DEF OneAtWork, At
  <2>3. OneAtWork'
    BY <1>2, <1>4, <1>6, <2>2 DEF OneAtWork, At, Holds
  <2>4. At(j, "rows")'
    BY <1>4, <1>6 DEF At
  <2>5. QED BY <2>3, <2>4
<1>9. QED BY <1>7, <1>8 DEF HistoryInv

(* A job that nobody has overlapped leaves what it merged.                 *)
LEMMA CloseStep ==
  ASSUME HistoryInv, NEW j \in Jobs, CloseHistory(j)
  PROVE  HistoryInv'
<1>1. PICK listings : job \in [Jobs -> JobRecords(listings)]
  BY DEF HistoryInv, IngestTypes
<1>2. At(j, "rows") /\ UNCHANGED <<sidecars, strains>>
  BY DEF CloseHistory
<1>3. reported' = reported \cup {y \in Years : job[j].merged[y] # NoPoint}
  BY DEF CloseHistory
<1>4. job'[j] = Indexing(j) /\ job[j] \in JobRecords(listings)
  BY <1>1 DEF CloseHistory
<1>5. job'[j] \in JobRecords(listings) /\ job'[j].pc = "index" /\ ~job'[j].raced
  <2>1. PICK idle : idle = IdleJob
    OBVIOUS
  <2>2. idle \in JobRecords(listings) /\ ~idle.raced
    BY <2>1, IdleJobType DEF IdleJob
  <2>3. job'[j] = [idle EXCEPT !.pc = "index", !.ingested = job[j].ingested]
    BY <1>4, <2>1 DEF Indexing
  <2>4. QED BY <1>4, <2>2, <2>3 DEF JobRecords, States
<1>6. ASSUME NEW k \in Jobs \ {j}
      PROVE  job'[k] \in JobRecords(listings) /\ job'[k].pc = job[k].pc
  <2>1. PICK raced \in BOOLEAN : raced = (job[k].raced \/ At(k, "rows"))
    OBVIOUS
  <2>2. job'[k] = [job[k] EXCEPT !.raced = raced]
    BY <2>1 DEF CloseHistory
  <2>3. job[k] \in JobRecords(listings)
    BY <1>1
  <2>4. QED BY <2>2, <2>3 DEF JobRecords
<1>7. IngestTypes'
  <2>1. job' \in [Jobs -> JobRecords(listings)]
    BY <1>5, <1>6 DEF CloseHistory
  <2>2. history' \in Series
    BY CurrentFact, NoPointShape DEF CloseHistory
  <2>3. reported' \in SUBSET Years
    BY <1>3 DEF HistoryInv, IngestTypes
  <2>4. QED BY <1>2, <2>1, <2>2, <2>3 DEF HistoryInv, IngestTypes
<1>8. ASSUME Without({"overlap", "torn"})'
      PROVE  OneAtWork' /\ ((\A k \in Jobs : ~At(k, "rows")') => Holds(history', reported'))
  <2>1. OneAtWork
    BY <1>2, <1>8 DEF HistoryInv, Without
  <2>2. /\ \A k \in Jobs \ {j} : At(k, "idle")
        /\ ~job[j].raced /\ Holds(job[j].merged, reported)
    BY <1>2, <2>1 DEF OneAtWork, At
  <2>3. history' = job[j].merged
    BY <2>2 DEF CloseHistory
  <2>4. Holds(history', reported')
    BY <1>3, <2>2, <2>3 DEF Holds
  <2>5. \A k \in Jobs \ {j} : At(k, "idle")'
    BY <1>6, <2>2 DEF At
  <2>6. OneAtWork'
    BY <1>5, <2>2, <2>5 DEF OneAtWork, At
  <2>7. QED BY <2>4, <2>6
<1>9. QED BY <1>7, <1>8 DEF HistoryInv

-----------------------------------------------------------------------------
(* A job that starts while another is at work is an overlap.               *)
LEMMA StartStep ==
  ASSUME HistoryInv, NEW j \in Jobs, NEW seen \in SUBSET Filings, StartIngest(j, seen)
  PROVE  HistoryInv'
<1>1. PICK listings : job \in [Jobs -> JobRecords(listings)]
  BY DEF HistoryInv, IngestTypes
<1>2. PICK todo \in SUBSET Filings : todo = Selected(seen)
  BY DEF Selected
<1>3. PICK run : run = [IdleJob EXCEPT !.pc = "docs", !.todo = todo]
  OBVIOUS
<1>4. run \in JobRecords(listings) /\ run.pc = "docs" /\ ~run.raced
  <2>1. IdleJob \in JobRecords(listings) /\ IdleJob.raced = FALSE
    BY IdleJobType DEF IdleJob
  <2>2. QED BY <1>3, <2>1 DEF JobRecords, States
<1>5. job' = [job EXCEPT ![j] = run] /\ UNCHANGED <<sidecars, history, reported>>
  BY <1>2, <1>3 DEF StartIngest, disk, ghosts
<1>6. job'[j] = run /\ \A k \in Jobs \ {j} : job'[k] = job[k]
  BY <1>1, <1>5
<1>7. IngestTypes'
  <2>1. job' \in [Jobs -> JobRecords(listings)]
    BY <1>1, <1>4, <1>5
  <2>2. QED BY <1>5, <2>1 DEF HistoryInv, IngestTypes
<1>8. ASSUME Without({"overlap", "torn"})'
      PROVE  OneAtWork' /\ ((\A k \in Jobs : ~At(k, "rows")') => Holds(history', reported'))
  <2>1. Without({"overlap", "torn"}) /\ AllIdle
    BY <1>8 DEF StartIngest, Without
  <2>2. Holds(history, reported)
    BY <2>1 DEF HistoryInv, AllIdle, At
  <2>3. OneAtWork'
    BY <1>4, <1>6, <2>1 DEF OneAtWork, AllIdle, At
  <2>4. QED BY <1>5, <2>2, <2>3 DEF Holds
<1>9. QED BY <1>7, <1>8 DEF HistoryInv

(* A stop that does not cut off a write changes nothing but the jobs.      *)
LEMMA StopStep ==
  ASSUME HistoryInv, StopServer
  PROVE  HistoryInv'
<1>1. job' = [j \in Jobs |-> IdleJob] /\ UNCHANGED <<sidecars, history, reported>>
  BY DEF StopServer, disk, ghosts
<1>2. IngestTypes'
  BY <1>1, IdleJobType DEF HistoryInv, IngestTypes
<1>3. \A j \in Jobs : At(j, "idle")'
  BY <1>1, IdleJobType DEF At
<1>4. ASSUME Without({"overlap", "torn"})'
      PROVE  Holds(history', reported')
  <2>1. Without({"overlap", "torn"}) /\ \A j \in Jobs : ~At(j, "rows")
    BY <1>4 DEF StopServer, Without, LeftUndone
  <2>2. QED BY <1>1, <2>1 DEF HistoryInv, Holds
<1>5. QED BY <1>2, <1>3, <1>4 DEF HistoryInv, OneAtWork, At

(* What is not a step of a job leaves the history and the jobs at work.    *)
LEMMA OtherStep ==
  ASSUME HistoryInv, ListVictims \/ UnlinkFile \/ UNCHANGED ingestVars
  PROVE  HistoryInv'
<1>1. /\ UNCHANGED <<history, job, reported>> /\ strains \subseteq strains'
      /\ sidecars' \subseteq sidecars
  BY DEF ListVictims, UnlinkFile, ingestVars, disk, ghosts
<1>2. IngestTypes'
  BY <1>1 DEF HistoryInv, IngestTypes
<1>3. QED BY <1>1, <1>2 DEF HistoryInv, OneAtWork, At, Without, Holds

(* No step loses a year that was merged.                                   *)
LEMMA NextHistoryInv == HistoryInv /\ [IngestNext]_ingestVars => HistoryInv'
<1> SUFFICES ASSUME HistoryInv, [IngestNext]_ingestVars
             PROVE  HistoryInv'
  OBVIOUS
<1>1. ASSUME NEW j \in Jobs, IngestStep(j)
      PROVE  HistoryInv'
  BY <1>1, FilingStep, MergeStep, OpenStep, CloseStep DEF IngestStep
<1>2. QED BY <1>1, StartStep, StopStep, OtherStep DEF IngestNext

(* The types of the history and of the jobs, and what a job holds between  *)
(* its read of the history and its write.                                  *)
THEOREM HistoryInvAlways == IngestSpec => []HistoryInv
BY InitHistoryInv, NextHistoryInv, PTL DEF IngestSpec

(* "Merge with the durable history": a year that has been merged is never  *)
(* lost, for any filings and jobs, unless jobs overlap or a write is cut.  *)
THEOREM MergedYearsStay == IngestSpec => []HistoryKept
<1>1. HistoryInv => HistoryKept
  BY DEF HistoryInv, HistoryKept, Holds
<1>2. QED BY <1>1, HistoryInvAlways, PTL

-----------------------------------------------------------------------------
(***************************************************************************)
(* Which filing a year shows.  As long as the jobs do not overlap and do   *)
(* not find their files pruned, a filing that the history shows is on disk *)
(* with its sidecar.  A job whose range holds it therefore takes it into   *)
(* its merge; and unless the job looks back, every other filing of the     *)
(* year that it works on is newer.  So a merge never puts an older filing  *)
(* in the place of a newer one.                                            *)
(***************************************************************************)

Calm  == Without({"overlap", "prune"})
Level == Without({"lookback"})

Kept == Saved \cap sidecars

Backed(points) ==
  \A y \in Years : points[y] # NoPoint => points[y].from \in Kept /\ FiscalYear[points[y].from] = y

Ahead(points) == \A y \in Years : history[y] # NoPoint => points[y].from >= history[y].from

Forward(todo) ==
  \A y \in Years :
    history[y] # NoPoint =>
      \/ history[y].from \in todo
      \/ \A e \in todo : FiscalYear[e] = y => history[y].from < e

CalmRun(run) ==
  /\ ~run.raced
  /\ run.got \cap WithDividend \subseteq Kept
  /\ run.pc = "sidecar" => Max(run.todo) \in Saved
  /\ run.pc \in {"open", "rows"} => Backed(run.merged)
  /\ Level =>
       /\ run.pc \in {"docs", "text", "sidecar"} => Forward(run.got \cup run.todo)
       /\ run.pc \in {"open", "rows"} => Ahead(run.merged)

CalmInv ==
  Calm =>
    /\ victims = <<>>
    /\ texts \in Seq(Filings)
    /\ sidecars \subseteq WithDividend
    /\ Backed(history)
    /\ \A j \in Jobs : ~At(j, "idle") => /\ \A k \in Jobs \ {j} : At(k, "idle")
                                         /\ CalmRun(job[j])

(* What is saved and kept are filings.                                     *)
LEMMA SavedFilings ==
  ASSUME texts \in Seq(Filings)
  PROVE  Saved \in SUBSET Filings /\ Kept \in SUBSET Filings
BY DEF Saved, Kept, ToSet

(* A run that works on fewer filings still works forward, unless it        *)
(* leaves out one that the history shows.                                  *)
LEMMA ForwardFewer ==
  ASSUME NEW S, NEW T, Forward(S), T \subseteq S,
         \A y \in Years : history[y] # NoPoint /\ history[y].from \in S => history[y].from \in T
  PROVE  Forward(T)
BY DEF Forward

(* A sequence without one of its elements.                                 *)
LEMMA RemovedElements ==
  ASSUME NEW S, NEW s \in Seq(S), NEW i \in 1 .. Len(s)
  PROVE  /\ RemoveAt(s, i) \in Seq(S) /\ Len(RemoveAt(s, i)) = Len(s) - 1
         /\ \A n \in 1 .. i - 1 : RemoveAt(s, i)[n] = s[n]
         /\ \A n \in i .. Len(s) - 1 : RemoveAt(s, i)[n] = s[n + 1]
<1>1. PICK before : before = SubSeq(s, 1, i - 1)
  OBVIOUS
<1>2. before \in Seq(S) /\ Len(before) = i - 1
  BY <1>1, SMT
<1>3. \A n \in 1 .. i - 1 : before[n] = s[n]
  BY <1>1, SMT
<1>4. PICK after : after = SubSeq(s, i + 1, Len(s))
  OBVIOUS
<1>5. after \in Seq(S) /\ Len(after) = Len(s) - i
  BY <1>4, SMT
<1>6. \A n \in 1 .. Len(s) - i : after[n] = s[n + i]
  BY <1>4, SMT
<1>7. PICK rest : rest = before \o after
  OBVIOUS
<1>8. /\ rest \in Seq(S) /\ Len(rest) = Len(before) + Len(after)
      /\ \A n \in 1 .. Len(before) + Len(after) :
           rest[n] = IF n <= Len(before) THEN before[n] ELSE after[n - Len(before)]
  BY ONLY <1>2, <1>5, <1>7, ConcatProperties, Zenon
<1>9. ASSUME NEW n \in 1 .. i - 1
      PROVE  rest[n] = s[n]
  <2>1. n \in 1 .. (i - 1) + (Len(s) - i) /\ n <= i - 1
    OBVIOUS
  <2>2. QED BY <1>2, <1>3, <1>5, <1>8, <2>1
<1>10. ASSUME NEW n \in i .. Len(s) - 1
       PROVE  rest[n] = s[n + 1]
  <2>1. /\ n - (i - 1) \in 1 .. Len(s) - i /\ (n - (i - 1)) + i = n + 1
        /\ ~ (n <= i - 1) /\ n \in 1 .. (i - 1) + (Len(s) - i)
    OBVIOUS
  <2>2. QED BY <1>2, <1>5, <1>6, <1>8, <2>1
<1>11. RemoveAt(s, i) = rest
  BY <1>1, <1>4, <1>7 DEF RemoveAt
<1>12. Len(rest) = Len(s) - 1
  BY <1>2, <1>5, <1>8
<1>13. QED BY <1>8, <1>9, <1>10, <1>11, <1>12, Zenon

(* A text written again takes its own place and no other.                  *)
LEMMA RewrittenSaves ==
  ASSUME texts \in Seq(Filings), NEW d \in Filings
  PROVE  Rewritten(d) \in Seq(Filings) /\ ToSet(Rewritten(d)) = Saved \cup {d}
<1>1. ASSUME NEW rest \in Seq(Filings)
      PROVE  Append(rest, d) \in Seq(Filings) /\ ToSet(Append(rest, d)) = ToSet(rest) \cup {d}
  <2>1. /\ Append(rest, d) \in Seq(Filings) /\ Len(Append(rest, d)) = Len(rest) + 1
        /\ Append(rest, d)[Len(rest) + 1] = d
        /\ \A i \in 1 .. Len(rest) : Append(rest, d)[i] = rest[i]
        /\ Len(rest) \in Nat
    OBVIOUS
  <2>2. DOMAIN Append(rest, d) = DOMAIN rest \cup {Len(rest) + 1}
    BY <2>1
  <2>3. QED BY <2>1, <2>2 DEF ToSet
<1>2. CASE d \notin Saved
  BY <1>1, <1>2 DEF Rewritten, Saved
<1>3. CASE d \in Saved
  <2>1. PICK i \in DOMAIN texts : i = (CHOOSE n \in DOMAIN texts : texts[n] = d) /\ texts[i] = d
    BY <1>3 DEF Saved, ToSet
  <2>2. i \in 1 .. Len(texts) /\ Len(texts) \in Nat
    OBVIOUS
  <2>3. PICK rest : rest = RemoveAt(texts, i)
    OBVIOUS
  <2>4. /\ rest \in Seq(Filings) /\ Len(rest) = Len(texts) - 1
        /\ \A n \in 1 .. i - 1 : rest[n] = texts[n]
        /\ \A n \in i .. Len(texts) - 1 : rest[n] = texts[n + 1]
    BY ONLY texts \in Seq(Filings), <2>2, <2>3, RemovedElements
  <2>7. ASSUME NEW n \in DOMAIN texts, n # i
        PROVE  texts[n] \in ToSet(rest)
    <3>1. n \in 1 .. Len(texts)
      OBVIOUS
    <3>2. CASE n < i
      <4>1. n \in 1 .. i - 1 /\ n \in DOMAIN rest
        BY <2>2, <2>4, <3>1, <3>2
      <4>2. QED BY <2>4, <4>1 DEF ToSet
    <3>3. CASE n > i
      <4>1. n - 1 \in i .. Len(texts) - 1 /\ n - 1 \in DOMAIN rest /\ (n - 1) + 1 = n
        BY <2>2, <2>4, <3>1, <3>3
      <4>2. rest[n - 1] = texts[n]
        BY <2>4, <4>1
      <4>3. QED BY <4>1, <4>2 DEF ToSet
    <3>4. QED BY <2>2, <2>7, <3>1, <3>2, <3>3
  <2>8. ASSUME NEW n \in DOMAIN rest
        PROVE  rest[n] \in Saved
    <3>1. n \in 1 .. i - 1 \/ n \in i .. Len(texts) - 1
      BY <2>2, <2>4
    <3>2. CASE n \in 1 .. i - 1
      <4>1. n \in DOMAIN texts
        BY <2>2, <3>2
      <4>2. QED BY <2>4, <3>2, <4>1 DEF Saved, ToSet
    <3>3. CASE n \in i .. Len(texts) - 1
      <4>1. n + 1 \in DOMAIN texts
        BY <2>2, <3>3
      <4>2. QED BY <2>4, <3>3, <4>1 DEF Saved, ToSet
    <3>4. QED BY <3>1, <3>2, <3>3
  <2>9. ToSet(rest) \cup {d} = Saved \cup {d}
    BY <2>1, <2>7, <2>8 DEF Saved, ToSet
  <2>10. Rewritten(d) = Append(rest, d)
    BY <1>3, <2>1, <2>3 DEF Rewritten
  <2>11. QED BY <1>1, <2>4, <2>9, <2>10
<1>4. QED BY <1>2, <1>3


-----------------------------------------------------------------------------
(* Among any filings there is one of the latest period, hence a corrector.  *)
LEMMA LatestFiling ==
  ASSUME NEW S \in SUBSET Filings, S # {}
  PROVE  \E d \in S : \A e \in S : PeriodEnd[e] <= PeriodEnd[d]
<1> DEFINE Latest(T) == \E d \in T : \A e \in T : PeriodEnd[e] <= PeriodEnd[d]
           without == {n \in 0 .. LastFiling :
                         \E T \in SUBSET (1 .. n) : T # {} /\ ~Latest(T)}
<1>1. \A d \in Filings : d \in Nat /\ PeriodEnd[d] \in Nat
  BY FilingsAssumption DEF Filings
<1>2. ASSUME without # {}
      PROVE  FALSE
  <2>1. without \in SUBSET Nat
    BY FilingsAssumption
  <2>2. PICK n \in without : \A m \in without : ~ (<<m, n>> \in Less)
    <3> HIDE DEF without
    <3>1. QED BY <1>2, <2>1, LessWellFounded, WFMin
  <2>3. n \in 0 .. LastFiling /\ n \in Nat
    BY <2>1
  <2>4. PICK T \in SUBSET (1 .. n) : T # {} /\ ~Latest(T)
    OBVIOUS
  <2>5. n - 1 \in 0 .. LastFiling /\ n \in Filings
    <3>1. n # 0
      <4>1. PICK d \in T : d \in 1 .. n
        BY <2>4
      <4>2. QED BY <2>3, <4>1
    <3>2. QED BY <2>3, <3>1, FilingsAssumption DEF Filings
  <2>6. n - 1 \notin without
    <3>1. n - 1 \in Nat /\ n - 1 < n
      BY <2>3, <2>5
    <3>2. <<n - 1, n>> \in Less
      BY <2>3, <3>1 DEF Less
    <3> HIDE DEF without
    <3>3. QED BY <2>2, <3>2
  <2>7. \A U \in SUBSET (1 .. n - 1) : U = {} \/ Latest(U)
    BY <2>5, <2>6
  <2>8. T \ {n} \in SUBSET (1 .. n - 1) /\ T \in SUBSET Filings
    BY <2>3, <2>4, FilingsAssumption DEF Filings
  <2>9. n \in T
    <3>1. CASE n \notin T
      <4>1. T \in SUBSET (1 .. n - 1)
        <5>1. T = T \ {n}
          BY <3>1
        <5>2. QED BY <2>8, <5>1
      <4> HIDE DEF Latest
      <4>2. QED BY <2>4, <2>7, <4>1
    <3>2. QED BY <3>1
  <2>10. CASE T \ {n} = {}
    <3>1. T = {n}
      BY <2>9, <2>10
    <3>2. QED BY <1>1, <2>4, <2>5, <3>1
  <2>11. CASE T \ {n} # {}
    <3>1. PICK d \in T \ {n} : \A e \in T \ {n} : PeriodEnd[e] <= PeriodEnd[d]
      BY <2>7, <2>8, <2>11
    <3>2. d \in Filings /\ PeriodEnd[d] \in Nat /\ PeriodEnd[n] \in Nat
      BY <1>1, <2>5, <2>8, <3>1
    <3>3. CASE PeriodEnd[n] <= PeriodEnd[d]
      BY <2>4, <3>1, <3>3
    <3>4. CASE PeriodEnd[d] <= PeriodEnd[n]
      <4>1. \A e \in T : PeriodEnd[e] <= PeriodEnd[n]
        BY <1>1, <2>8, <3>1, <3>2, <3>4
      <4>2. QED BY <2>4, <2>9, <4>1
    <3>5. QED BY <3>2, <3>3, <3>4
  <2>12. QED BY <2>10, <2>11
<1>3. LastFiling \in 0 .. LastFiling /\ LastFiling \notin without
  <2>1. LastFiling \in 0 .. LastFiling
    BY FilingsAssumption
  <2> HIDE DEF without
  <2>2. QED BY <1>2, <2>1
<1>4. QED BY <1>3 DEF Filings

(* The corrector is the filing of the latest period: none has a later one. *)
LEMMA CorrectorFact ==
  ASSUME NEW S \in SUBSET Filings, Tabled(S) # {}
  PROVE  /\ Corrector(S) \in Tabled(S)
         /\ \A e \in Tabled(S) : ~Older(Corrector(S), e)
<1>1. Tabled(S) \in SUBSET Filings
  BY DEF Tabled
<1>2. PICK latest : latest = {d \in Tabled(S) :
                                \A e \in Tabled(S) : PeriodEnd[e] <= PeriodEnd[d]}
  OBVIOUS
<1>3. latest \in SUBSET Filings /\ latest # {}
  BY <1>1, <1>2, LatestFiling
<1>4. Corrector(S) = Max(latest)
  BY <1>2 DEF Corrector
<1>5. Max(latest) \in latest /\ \A e \in latest : e <= Max(latest)
  BY <1>3, NewestFiling
<1>6. PICK c \in latest : c = Corrector(S) /\ \A e \in latest : e <= c
  BY <1>4, <1>5
<1>7. c \in Tabled(S) /\ \A e \in Tabled(S) : PeriodEnd[e] <= PeriodEnd[c]
  BY <1>2, <1>6
<1>8. ASSUME NEW e \in Tabled(S)
      PROVE  ~Older(c, e)
  <2>1. /\ PeriodEnd[e] \in Nat /\ PeriodEnd[c] \in Nat /\ e \in Int /\ c \in Int
        /\ PeriodEnd[e] <= PeriodEnd[c]
    BY <1>1, <1>7, FilingsAssumption DEF Filings
  <2>2. PeriodEnd[e] = PeriodEnd[c] => e <= c
    BY <1>2, <1>6, <1>7
  <2>3. QED BY <2>1, <2>2 DEF Older
<1>9. QED BY <1>6, <1>7, <1>8

(* There is only one such filing.                                          *)
LEMMA CorrectorIs ==
  ASSUME NEW S \in SUBSET Filings, NEW c \in Tabled(S), \A e \in Tabled(S) : ~Older(c, e)
  PROVE  Corrector(S) = c
<1>1. PICK k \in Tabled(S) : k = Corrector(S) /\ ~Older(k, c)
  BY CorrectorFact
<1>2. ~Older(c, k)
  OBVIOUS
<1>3. /\ k \in Int /\ c \in Int /\ PeriodEnd[k] \in Int /\ PeriodEnd[c] \in Int
  BY FilingsAssumption DEF Filings, Tabled
<1>4. k = c
  BY <1>1, <1>2, <1>3 DEF Older
<1>5. QED BY <1>1, <1>4

(* What a merge makes of a year.                                           *)
LEMMA MergePoint ==
  ASSUME history \in Series, NEW got \in SUBSET Filings, NEW y \in Years
  PROVE  /\ OfYear(got, y) # {} =>
              Merged(got)[y] # NoPoint /\ Merged(got)[y].from = Max(OfYear(got, y))
         /\ OfYear(got, y) = {} =>
              /\ Merged(got)[y] # NoPoint => history[y] # NoPoint
              /\ Merged(got)[y].from = history[y].from
         /\ \/ /\ Tabled(got) # {} /\ y \in Table[Corrector(got)]
               /\ Merged(got)[y] # NoPoint => Merged(got)[y].dividend = Corrector(got)
            \/ /\ ~ (Tabled(got) # {} /\ y \in Table[Corrector(got)])
               /\ Merged(got)[y].dividend = IF OfYear(got, y) # {} THEN Max(OfYear(got, y))
                                                                   ELSE history[y].dividend
<1> DEFINE of == OfYear(got, y)
           tabled == Tabled(got) # {} /\ y \in Table[Corrector(got)]
<1>1. PICK p : p = IF of # {} THEN [from |-> Max(of), dividend |-> Max(of)] ELSE history[y]
  OBVIOUS
<1>2. PICK c : c = Corrector(got)
  OBVIOUS
<1>3. Merged(got)[y] = IF tabled /\ p # NoPoint THEN [p EXCEPT !.dividend = c] ELSE p
  BY <1>1, <1>2 DEF Merged, Corrected
<1>4. /\ of # {} => p.from = Max(of) /\ p.dividend = Max(of) /\ p # NoPoint
      /\ p = [from |-> p.from, dividend |-> p.dividend]
  <2>1. CASE of # {}
    <3>1. of \in SUBSET Filings
      BY DEF OfYear
    <3>2. PICK m \in Filings : m = Max(of)
      BY <2>1, <3>1, NewestFiling
    <3>3. p = [from |-> m, dividend |-> m] /\ m # 0
      BY <1>1, <2>1, <3>2, FilingsAssumption DEF Filings
    <3>4. p.from = m /\ p.dividend = m /\ p = [from |-> p.from, dividend |-> p.dividend]
      BY <3>3
    <3>5. p # NoPoint
      BY <3>3, <3>4, NoPointShape
    <3>6. QED BY <3>2, <3>4, <3>5
  <2>2. CASE of = {}
    BY <1>1, <2>2 DEF Series, Shapes
  <2>3. QED BY <2>1, <2>2
<1>5. [p EXCEPT !.dividend = c].from = p.from /\ [p EXCEPT !.dividend = c].dividend = c
  BY <1>4
<1>6. PICK q : q = [p EXCEPT !.dividend = c] /\ q.from = p.from /\ q.dividend = c
  BY <1>5
<1>7. p # NoPoint => q # NoPoint
  <2>1. CASE of # {}
    <3>1. p.from # 0
      <4>1. of \in SUBSET Filings
        BY DEF OfYear
      <4>2. Max(of) \in Filings
        BY <2>1, <4>1, NewestFiling
      <4>3. QED BY <1>4, <2>1, <4>2, FilingsAssumption DEF Filings
    <3>2. QED BY <1>6, <3>1, NoPointShape
  <2>2. CASE of = {} /\ p # NoPoint
    <3>1. p.from \in Filings
      BY <1>1, <2>2 DEF Series
    <3>2. p.from # 0
      BY <3>1, FilingsAssumption DEF Filings
    <3>3. QED BY <1>6, <3>2, NoPointShape
  <2>3. QED BY <2>1, <2>2
<1>8. PICK merged : merged = Merged(got)[y] /\ merged = IF tabled /\ p # NoPoint THEN q ELSE p
  BY <1>3, <1>6
<1>9. of # {} => merged # NoPoint /\ merged.from = Max(of)
  BY <1>4, <1>6, <1>7, <1>8
<1>10. of = {} => (merged # NoPoint => history[y] # NoPoint) /\ merged.from = history[y].from
  BY <1>1, <1>6, <1>8
<1>11. tabled /\ merged # NoPoint => merged.dividend = c
  BY <1>6, <1>8
<1>12. ~tabled => merged.dividend = IF of # {} THEN Max(of) ELSE history[y].dividend
  BY <1>1, <1>4, <1>8
<1>13. QED BY <1>2, <1>8, <1>9, <1>10, <1>11, <1>12


(* A year of a run shows the newest filing the run has of it.              *)
LEMMA NewestOfYear ==
  ASSUME NEW got \in SUBSET Filings, NEW y, OfYear(got, y) # {}
  PROVE  /\ Max(OfYear(got, y)) \in got \cap WithDividend
         /\ FiscalYear[Max(OfYear(got, y))] = y
         /\ \A e \in OfYear(got, y) : e <= Max(OfYear(got, y))
<1>1. OfYear(got, y) \in SUBSET Filings
  BY DEF OfYear
<1>2. PICK of : of = OfYear(got, y) /\ Max(of) \in of /\ \A e \in of : e <= Max(of)
  BY <1>1, NewestFiling
<1>3. QED BY <1>2 DEF OfYear

(* What a merge shows is on disk.                                          *)
LEMMA MergeBacked ==
  ASSUME history \in Series, NEW got \in SUBSET Filings,
         got \cap WithDividend \subseteq Kept, Backed(history)
  PROVE  Backed(Merged(got))
<1>1. ASSUME NEW y \in Years, Merged(got)[y] # NoPoint
      PROVE  Merged(got)[y].from \in Kept /\ FiscalYear[Merged(got)[y].from] = y
  <2>1. CASE OfYear(got, y) # {}
    BY <2>1, NewestOfYear, MergePoint
  <2>2. CASE OfYear(got, y) = {}
    <3>1. history[y] # NoPoint /\ Merged(got)[y].from = history[y].from
      BY <1>1, <2>2, MergePoint
    <3>2. QED BY <3>1 DEF Backed
  <2>3. QED BY <2>1, <2>2
<1>2. QED BY <1>1 DEF Backed

(* A merge that works forward is of no older filings than the history.     *)
LEMMA MergeAhead ==
  ASSUME history \in Series, NEW got \in SUBSET Filings, Backed(history),
         sidecars \subseteq WithDividend, Forward(got)
  PROVE  Ahead(Merged(got))
<1>1. ASSUME NEW y \in Years, history[y] # NoPoint
      PROVE  Merged(got)[y].from >= history[y].from
  <2>1. PICK h \in Filings : h = history[y].from /\ h \in WithDividend /\ FiscalYear[h] = y
    BY <1>1 DEF Series, Backed, Kept
  <2>2. h \in Int
    BY FilingsAssumption DEF Filings
  <2>3. CASE OfYear(got, y) = {}
    BY <2>1, <2>2, <2>3, MergePoint
  <2>4. CASE OfYear(got, y) # {}
    <3>1. PICK m \in got : /\ m = Max(OfYear(got, y)) /\ FiscalYear[m] = y
                           /\ \A e \in OfYear(got, y) : e <= m
      BY <2>4, NewestOfYear
    <3>2. h \in OfYear(got, y) \/ h < m
      BY <1>1, <2>1, <3>1 DEF Forward, OfYear
    <3>3. m \in Int
      BY FilingsAssumption DEF Filings
    <3>4. h <= m
      BY <2>2, <3>1, <3>2, <3>3
    <3>5. QED BY <2>1, <2>2, <2>4, <3>1, <3>3, <3>4, MergePoint
  <2>5. QED BY <2>3, <2>4
<1>2. QED BY <1>1 DEF Ahead

-----------------------------------------------------------------------------
(* The fields of a job after a step of it.                                 *)
LEMMA JobFields ==
  ASSUME HistoryInv, NEW j \in Jobs
  PROVE  /\ ReadCached(j) \/ SkipFiling(j) =>
              /\ job'[j].pc = "docs" /\ job'[j].raced = job[j].raced
              /\ job'[j].ingested = job[j].ingested /\ job'[j].todo = Passed(j)
              /\ job'[j].got = IF ReadCached(j) THEN job[j].got \cup ({Current(j)} \cap sidecars)
                                                ELSE job[j].got
         /\ Download(j) =>
              /\ job'[j].pc = "text" /\ job'[j].raced = job[j].raced
              /\ job'[j].ingested = job[j].ingested
              /\ job'[j].todo = job[j].todo /\ job'[j].got = job[j].got
         /\ SaveText(j) =>
              /\ job'[j].pc = "sidecar" /\ job'[j].raced = job[j].raced
              /\ job'[j].ingested = TRUE
              /\ job'[j].todo = job[j].todo /\ job'[j].got = job[j].got
         /\ SaveSidecar(j) =>
              /\ job'[j].pc = "docs" /\ job'[j].raced = job[j].raced
              /\ job'[j].ingested = job[j].ingested
              /\ job'[j].todo = Passed(j) /\ job'[j].got = job[j].got \cup {Current(j)}
         /\ MergeHistory(j) =>
              /\ job'[j].ingested = job[j].ingested
              /\ IF Merged(job[j].got) = NoHistory
                   THEN job'[j].pc = "index" /\ ~job'[j].raced /\ job'[j].got = {}
                   ELSE /\ job'[j].pc = "open" /\ job'[j].raced = job[j].raced
                        /\ job'[j].got = job[j].got /\ job'[j].merged = Merged(job[j].got)
         /\ OpenHistory(j) =>
              /\ job'[j].pc = "rows" /\ job'[j].raced = job[j].raced
              /\ job'[j].ingested = job[j].ingested
              /\ job'[j].got = {} /\ job'[j].merged = job[j].merged
         /\ CloseHistory(j) =>
              /\ job'[j].pc = "index" /\ ~job'[j].raced /\ job'[j].got = {}
              /\ job'[j].ingested = job[j].ingested
         /\ IndexTexts(j) \/ PruneIndex(j) \/ FailJob(j) =>
              \/ job'[j].pc = "idle"
              \/ /\ job'[j].pc = "unlist" /\ job'[j].raced = job[j].raced
                 /\ job'[j].got = job[j].got
<1>1. PICK listings : job \in [Jobs -> JobRecords(listings)]
  BY DEF HistoryInv, IngestTypes
<1>2. job[j] \in JobRecords(listings)
  BY <1>1
<1>3. PICK passed : passed = Passed(j)
  OBVIOUS
<1>4. PICK got : got = IF ReadCached(j) THEN job[j].got \cup ({Current(j)} \cap sidecars)
                                        ELSE job[j].got
  OBVIOUS
<1>5. PICK more : more = job[j].got \cup {Current(j)}
  OBVIOUS
<1>6. PICK merged : merged = Merged(job[j].got)
  OBVIOUS
<1>7. /\ Indexing(j).pc = "index" /\ Indexing(j).raced = FALSE /\ Indexing(j).got = {}
      /\ Indexing(j).ingested = job[j].ingested
  <2>1. PICK idle : idle = IdleJob
    OBVIOUS
  <2>2. idle \in JobRecords(listings) /\ idle.raced = FALSE /\ idle.got = {}
    BY <2>1, IdleJobType DEF IdleJob
  <2>3. Indexing(j) = [idle EXCEPT !.pc = "index", !.ingested = job[j].ingested]
    BY <2>1 DEF Indexing
  <2>4. QED BY <2>2, <2>3 DEF JobRecords
<1>8. ReadCached(j) \/ SkipFiling(j) =>
        /\ job'[j].pc = "docs" /\ job'[j].raced = job[j].raced
        /\ job'[j].ingested = job[j].ingested /\ job'[j].todo = passed /\ job'[j].got = got
  <2>1. CASE ReadCached(j)
    <3>1. job'[j] = [job[j] EXCEPT !.todo = passed, !.got = got] /\ job[j].pc = "docs"
      BY <1>1, <1>3, <1>4, <2>1 DEF ReadCached, At
    <3>2. QED BY <1>2, <3>1 DEF JobRecords
  <2>2. CASE SkipFiling(j) /\ ~ReadCached(j)
    <3>1. job'[j] = [job[j] EXCEPT !.todo = passed] /\ job[j].pc = "docs"
      BY <1>1, <1>3, <2>2 DEF SkipFiling, At
    <3>2. QED BY <1>2, <1>4, <2>2, <3>1 DEF JobRecords
  <2>3. QED BY <2>1, <2>2
<1>9. Download(j) =>
        /\ job'[j].pc = "text" /\ job'[j].raced = job[j].raced
        /\ job'[j].ingested = job[j].ingested
        /\ job'[j].todo = job[j].todo /\ job'[j].got = job[j].got
  <2>1. Download(j) => job'[j] = [job[j] EXCEPT !.pc = "text"]
    BY <1>1 DEF Download
  <2>2. QED BY <1>2, <2>1 DEF JobRecords
<1>10. SaveText(j) =>
        /\ job'[j].pc = "sidecar" /\ job'[j].raced = job[j].raced
        /\ job'[j].ingested = TRUE
        /\ job'[j].todo = job[j].todo /\ job'[j].got = job[j].got
  <2>1. SaveText(j) => job'[j] = [job[j] EXCEPT !.pc = "sidecar", !.ingested = TRUE]
    BY <1>1 DEF SaveText
  <2>2. QED BY <1>2, <2>1 DEF JobRecords
<1>11. SaveSidecar(j) =>
        /\ job'[j].pc = "docs" /\ job'[j].raced = job[j].raced
        /\ job'[j].ingested = job[j].ingested
        /\ job'[j].todo = passed /\ job'[j].got = more
  <2>1. SaveSidecar(j) => job'[j] = [job[j] EXCEPT !.pc = "docs", !.todo = passed, !.got = more]
    BY <1>1, <1>3, <1>5 DEF SaveSidecar
  <2>2. QED BY <1>2, <2>1 DEF JobRecords
<1>12. MergeHistory(j) =>
        /\ job'[j].ingested = job[j].ingested
        /\ IF merged = NoHistory
             THEN job'[j].pc = "index" /\ ~job'[j].raced /\ job'[j].got = {}
             ELSE /\ job'[j].pc = "open" /\ job'[j].raced = job[j].raced
                  /\ job'[j].got = job[j].got /\ job'[j].merged = merged
  <2>1. CASE merged = NoHistory
    <3>1. MergeHistory(j) => job'[j] = Indexing(j)
      BY <1>1, <1>6, <2>1 DEF MergeHistory
    <3>2. QED BY <1>7, <2>1, <3>1
  <2>2. CASE merged # NoHistory
    <3>1. MergeHistory(j) => job'[j] = [job[j] EXCEPT !.pc = "open", !.merged = merged]
      BY <1>1, <1>6, <2>2 DEF MergeHistory
    <3>2. QED BY <1>2, <2>2, <3>1 DEF JobRecords
  <2>3. QED BY <2>1, <2>2
<1>13. OpenHistory(j) =>
         /\ job'[j].pc = "rows" /\ job'[j].raced = job[j].raced
         /\ job'[j].ingested = job[j].ingested
         /\ job'[j].got = {} /\ job'[j].merged = job[j].merged
  <2>1. OpenHistory(j) => job'[j] = [job[j] EXCEPT !.pc = "rows", !.got = {}]
    BY <1>1 DEF OpenHistory
  <2>2. QED BY <1>2, <2>1 DEF JobRecords
<1>14. CloseHistory(j) => job'[j] = Indexing(j)
  BY <1>1 DEF CloseHistory
<1>15. IndexTexts(j) \/ PruneIndex(j) \/ FailJob(j) =>
         \/ job'[j].pc = "idle"
         \/ /\ job'[j].pc = "unlist" /\ job'[j].raced = job[j].raced
            /\ job'[j].got = job[j].got
  <2>1. PICK saved : saved = Saved
    OBVIOUS
  <2>2. IndexTexts(j) /\ job[j].ingested =>
          job'[j] = [job[j] EXCEPT !.pc = "unlist", !.listed = saved]
    BY <1>1, <2>1 DEF IndexTexts
  <2>3. (IndexTexts(j) /\ ~job[j].ingested) \/ PruneIndex(j) \/ FailJob(j) => job'[j] = IdleJob
    BY <1>1 DEF IndexTexts, PruneIndex, FailJob
  <2>4. (IndexTexts(j) /\ ~job[j].ingested) \/ PruneIndex(j) \/ FailJob(j) => job'[j].pc = "idle"
    BY <2>3, IdleJobType
  <2>5. IndexTexts(j) /\ job[j].ingested =>
          /\ job'[j].pc = "unlist" /\ job'[j].raced = job[j].raced
          /\ job'[j].got = job[j].got
    BY <1>2, <2>2 DEF JobRecords
  <2>6. QED BY <2>4, <2>5
<1>16. QED BY <1>3, <1>4, <1>5, <1>6, <1>7, <1>8, <1>9, <1>10, <1>11, <1>12, <1>13, <1>14, <1>15,
             Zenon

(* A step of a job leaves the others where they are.                       *)
LEMMA OthersStay ==
  ASSUME HistoryInv, NEW j \in Jobs, IngestStep(j)
  PROVE  /\ \A k \in Jobs \ {j} : job'[k].pc = job[k].pc
         /\ ~At(j, "idle") /\ strains \subseteq strains' /\ victims' = victims
<1>1. PICK listings : job \in [Jobs -> JobRecords(listings)]
  BY DEF HistoryInv, IngestTypes
<1>2. ~At(j, "idle") /\ strains \subseteq strains' /\ victims' = victims
  BY DEF IngestStep, ReadCached, SkipFiling, Download, SaveText, SaveSidecar, MergeHistory,
         OpenHistory, CloseHistory, IndexTexts, PruneIndex, FailJob, disk, At
<1>3. ASSUME NEW k \in Jobs \ {j}
      PROVE  job'[k].pc = job[k].pc
  <2>1. CASE CloseHistory(j)
    <3>1. PICK raced \in BOOLEAN : raced = (job[k].raced \/ At(k, "rows"))
      OBVIOUS
    <3>2. job'[k] = [job[k] EXCEPT !.raced = raced]
      BY <2>1, <3>1 DEF CloseHistory
    <3>3. QED BY <1>1, <3>2 DEF JobRecords
  <2>2. CASE ~CloseHistory(j)
    BY <1>1, <2>2 DEF IngestStep, ReadCached, SkipFiling, Download, SaveText, SaveSidecar,
                      MergeHistory, OpenHistory, IndexTexts, PruneIndex, FailJob
  <2>3. QED BY <2>1, <2>2
<1>4. QED BY <1>2, <1>3

-----------------------------------------------------------------------------
(* The calm invariant holds at the start.                                  *)
LEMMA InitCalmInv == IngestInit => CalmInv
<1> SUFFICES ASSUME IngestInit PROVE CalmInv
  OBVIOUS
<1>1. \A j \in Jobs : At(j, "idle")
  BY IdleJobType DEF IngestInit, At
<1>2. Backed(history)
  BY DEF IngestInit, Backed, NoHistory
<1>3. texts \in Seq(Filings)
  BY DEF IngestInit
<1>4. QED BY <1>1, <1>2, <1>3 DEF IngestInit, CalmInv

(* The only job at work moves on or ends.                                  *)
LEMMA CalmMove ==
  ASSUME HistoryInv, CalmInv, NEW j \in Jobs, IngestStep(j),
         Calm /\ Calm' =>
           /\ texts' \in Seq(Filings) /\ sidecars' \subseteq WithDividend
           /\ Backed(history)' /\ (~At(j, "idle")' => CalmRun(job[j])')
  PROVE  CalmInv'
<1> SUFFICES ASSUME Calm'
             PROVE  /\ victims' = <<>> /\ texts' \in Seq(Filings)
                    /\ sidecars' \subseteq WithDividend /\ Backed(history)'
                    /\ \A i \in Jobs :
                         ~At(i, "idle")' => /\ \A k \in Jobs \ {i} : At(k, "idle")'
                                            /\ CalmRun(job[i])'
  BY DEF CalmInv
<1>1. Calm
  BY OthersStay DEF Calm, Without
<1>2. victims' = <<>> /\ \A k \in Jobs \ {j} : At(k, "idle")
  BY <1>1, OthersStay DEF CalmInv
<1>3. \A k \in Jobs \ {j} : At(k, "idle")'
  BY <1>2, OthersStay DEF At
<1>4. QED BY <1>1, <1>2, <1>3

(* What is known of a job at work.                                         *)
LEMMA CalmJob ==
  ASSUME HistoryInv, CalmInv, Calm, NEW j \in Jobs, ~At(j, "idle")
  PROVE  /\ CalmRun(job[j]) /\ Backed(history) /\ history \in Series
         /\ texts \in Seq(Filings) /\ sidecars \subseteq WithDividend
         /\ WithDividend \in SUBSET Filings /\ Kept \in SUBSET Filings
         /\ job[j].todo \in SUBSET Filings /\ job[j].got \in SUBSET Filings
         /\ job[j].merged \in Series
<1>1. texts \in Seq(Filings)
  BY DEF CalmInv
<1>2. QED BY <1>1, CurrentFact, SavedFilings, FilingsAssumption
          DEF CalmInv, HistoryInv, IngestTypes

\* The filings of a run, and the steps that work on one.
Work(run) == run.got \cup run.todo

WorkStep(j) ==
  ReadCached(j) \/ SkipFiling(j) \/ Download(j) \/ SaveText(j) \/ SaveSidecar(j)

(* A run passes over no filing that is kept.                               *)
LEMMA WorkKeeps ==
  ASSUME HistoryInv, CalmInv, Calm, NEW j \in Jobs, WorkStep(j)
  PROVE  /\ Work(job'[j]) \subseteq Work(job[j])
         /\ Kept \cap Work(job[j]) \subseteq Work(job'[j])
         /\ Kept \subseteq Kept' /\ Saved \subseteq Saved' /\ history' = history
         /\ texts' \in Seq(Filings) /\ sidecars' \subseteq WithDividend
         /\ job'[j].got \cap WithDividend \subseteq Kept'
         /\ job'[j].pc \in {"docs", "text", "sidecar"} /\ job[j].pc \in {"docs", "text", "sidecar"}
         /\ job'[j].pc = "sidecar" => Max(job'[j].todo) \in Saved'
         /\ job'[j].raced = job[j].raced
<1>1. /\ ~At(j, "idle") /\ history' = history /\ job[j].pc \in {"docs", "text", "sidecar"}
      /\ job[j].todo \in SUBSET Filings
  BY CurrentFact DEF WorkStep, ReadCached, SkipFiling, Download, SaveText, SaveSidecar, At, disk
<1>2. /\ CalmRun(job[j]) /\ texts \in Seq(Filings) /\ sidecars \subseteq WithDividend
      /\ job[j].got \cap WithDividend \subseteq Kept
  BY <1>1, CalmJob DEF CalmRun
<1>3. PICK c : c = Current(j) /\ c \in job[j].todo
  <2>1. CASE ReadCached(j) \/ SkipFiling(j) \/ Download(j)
    BY <1>1, <2>1, NewestFiling DEF ReadCached, SkipFiling, Download, Current
  <2>2. CASE SaveText(j) \/ SaveSidecar(j)
    BY <2>2, CurrentFact DEF SaveText, SaveSidecar, At
  <2>3. QED BY <2>1, <2>2 DEF WorkStep
<1>4. Passed(j) = job[j].todo \ {c}
  BY <1>3 DEF Passed
<1>5. CASE ReadCached(j) \/ SkipFiling(j)
  <2>1. UNCHANGED <<texts, sidecars>> /\ Saved' = Saved /\ Kept' = Kept
    BY <1>5 DEF ReadCached, SkipFiling, disk, Saved, Kept
  <2>2. /\ job'[j].pc = "docs" /\ job'[j].raced = job[j].raced
        /\ job'[j].todo = job[j].todo \ {c}
        /\ job'[j].got = IF ReadCached(j) THEN job[j].got \cup ({c} \cap sidecars) ELSE job[j].got
    BY <1>3, <1>4, <1>5, JobFields
  <2>3. ReadCached(j) <=> c \in Saved
    BY <1>3, <1>5 DEF ReadCached, SkipFiling
  <2>4. Kept = Saved \cap sidecars
    BY DEF Kept
  <2>5. QED BY <1>1, <1>2, <1>3, <2>1, <2>2, <2>3, <2>4 DEF Work
<1>6. CASE Download(j)
  <2>1. UNCHANGED <<texts, sidecars>> /\ Saved' = Saved /\ Kept' = Kept
    BY <1>6 DEF Download, disk, Saved, Kept
  <2>2. QED BY <1>1, <1>2, <1>6, <2>1, JobFields DEF Work
<1>7. CASE SaveText(j)
  <2>1. c \in Filings /\ texts' = Rewritten(c) /\ UNCHANGED sidecars
    BY <1>1, <1>3, <1>7 DEF SaveText
  <2>2. texts' \in Seq(Filings) /\ Saved' = Saved \cup {c}
    <3>1. Rewritten(c) \in Seq(Filings) /\ ToSet(Rewritten(c)) = Saved \cup {c}
      BY <1>2, <2>1, RewrittenSaves
    <3>2. QED BY <2>1, <3>1 DEF Saved
  <2>3. Kept \subseteq Kept'
    BY <2>1, <2>2 DEF Kept
  <2>4. Max(job'[j].todo) \in Saved'
    BY <1>3, <1>7, <2>2, JobFields DEF Current
  <2>5. QED BY <1>1, <1>2, <1>7, <2>1, <2>2, <2>3, <2>4, JobFields DEF Work
<1>8. CASE SaveSidecar(j)
  <2>1. sidecars' = sidecars \cup ({c} \cap WithDividend) /\ UNCHANGED texts /\ Saved' = Saved
    BY <1>3, <1>8 DEF SaveSidecar, Saved
  <2>2. c \in Saved
    BY <1>2, <1>3, <1>8 DEF CalmRun, SaveSidecar, At, Current
  <2>3. Kept' = Kept \cup ({c} \cap WithDividend)
    BY <2>1, <2>2 DEF Kept
  <2>4. /\ job'[j].pc = "docs" /\ job'[j].raced = job[j].raced
        /\ job'[j].todo = job[j].todo \ {c} /\ job'[j].got = job[j].got \cup {c}
    BY <1>3, <1>4, <1>8, JobFields
  <2>5. job'[j].got \cap WithDividend \subseteq Kept'
    BY <1>2, <2>3, <2>4
  <2>6. Work(job'[j]) = Work(job[j])
    BY <1>3, <2>4 DEF Work
  <2>7. QED BY <1>1, <1>2, <2>1, <2>3, <2>4, <2>5, <2>6
<1>9. QED BY <1>5, <1>6, <1>7, <1>8 DEF WorkStep

(* The steps over the filings.                                             *)
LEMMA CalmFiling ==
  ASSUME HistoryInv, CalmInv, NEW j \in Jobs, WorkStep(j)
  PROVE  CalmInv'
<1>1. IngestStep(j)
  BY DEF WorkStep, IngestStep
<1>2. ASSUME Calm
      PROVE  /\ texts' \in Seq(Filings) /\ sidecars' \subseteq WithDividend
             /\ Backed(history)' /\ CalmRun(job[j])'
  <2>1. CalmRun(job[j]) /\ Backed(history)
    BY <1>1, <1>2, CalmJob, OthersStay
  <2>2. Backed(history)'
    BY <1>2, <2>1, WorkKeeps DEF Backed
  <2>3. Level' => Level /\ Forward(Work(job[j]))
    BY <1>1, <1>2, <2>1, OthersStay, WorkKeeps DEF Level, Without, CalmRun, Work
  <2>4. Level' => Forward(Work(job'[j]))
    <3>1. ASSUME NEW y \in Years, history[y] # NoPoint, history[y].from \in Work(job[j])
          PROVE  history[y].from \in Work(job'[j])
      BY <1>2, <2>1, <3>1, WorkKeeps DEF Backed
    <3>2. QED BY <1>2, <2>3, <3>1, ForwardFewer, WorkKeeps
  <2>5. Level' => Forward(job[j].got \cup job[j].todo)'
    BY <1>2, <2>4, WorkKeeps DEF Forward, Work
  <2>6. CalmRun(job[j])'
    BY <1>2, <2>1, <2>5, WorkKeeps DEF CalmRun
  <2>7. QED BY <1>2, <2>2, <2>6, WorkKeeps
<1>3. QED BY <1>1, <1>2, CalmMove

(* A merge draws the points of the run from filings that are kept.         *)
LEMMA CalmMerge ==
  ASSUME HistoryInv, CalmInv, NEW j \in Jobs, MergeHistory(j)
  PROVE  CalmInv'
<1>1. IngestStep(j)
  BY DEF IngestStep
<1>2. /\ job[j].pc = "docs" /\ ~At(j, "idle") /\ job[j].todo = {}
      /\ UNCHANGED <<texts, sidecars, history, strains>> /\ Saved' = Saved /\ Kept' = Kept
  BY DEF MergeHistory, At, disk, Saved, Kept
<1>3. ASSUME Calm
      PROVE  /\ texts' \in Seq(Filings) /\ sidecars' \subseteq WithDividend
             /\ Backed(history)' /\ CalmRun(job[j])'
  <2>1. /\ CalmRun(job[j]) /\ Backed(history) /\ history \in Series
        /\ job[j].got \in SUBSET Filings /\ texts \in Seq(Filings) /\ sidecars \subseteq WithDividend
    BY <1>2, <1>3, CalmJob
  <2>2. PICK got : got = job[j].got
    OBVIOUS
  <2>3. PICK merged : merged = Merged(got)
    OBVIOUS
  <2>4. Backed(merged)
    BY <2>1, <2>2, <2>3, MergeBacked DEF CalmRun
  <2>5. Level' => Ahead(merged)
    <3>1. Level' => Level
      BY <1>2 DEF Level, Without
    <3>2. Level => Forward(got)
      <4>1. job[j].got \cup job[j].todo = got
        BY <1>2, <2>2
      <4>2. QED BY <1>2, <2>1, <4>1 DEF CalmRun
    <3>3. QED BY <2>1, <2>2, <2>3, <3>1, <3>2, MergeAhead
  <2>6. Backed(merged)' /\ (Level' => Ahead(merged)')
    BY <1>2, <2>4, <2>5 DEF Backed, Ahead
  <2>7. IF merged = NoHistory
          THEN job'[j].pc = "index" /\ ~job'[j].raced /\ job'[j].got = {}
          ELSE /\ job'[j].pc = "open" /\ job'[j].raced = job[j].raced
               /\ job'[j].got = got /\ job'[j].merged = merged
    BY <2>2, <2>3, JobFields
  <2>8. CalmRun(job[j])'
    BY <1>2, <2>1, <2>2, <2>6, <2>7 DEF CalmRun, Backed, Ahead
  <2>9. Backed(history)'
    BY <1>2, <2>1 DEF Backed
  <2>10. QED BY <1>2, <2>1, <2>8, <2>9
<1>4. QED BY <1>1, <1>3, CalmMove

(* What is in the file while it is written is of what was merged.          *)
LEMMA PrefixBacked ==
  ASSUME NEW points \in Series, Backed(points), NEW y \in Years, history' = Prefix(points, y),
         UNCHANGED <<texts, sidecars>>
  PROVE  Backed(history)' /\ Backed(points)' /\ Ahead(points)'
<1>1. \A z \in Years : history'[z] # NoPoint => history'[z] = points[z]
  BY DEF Prefix
<1>2. \A z \in Years : points[z] # NoPoint => points[z].from \in Int
  BY FilingsAssumption DEF Series, Filings
<1>3. Kept' = Kept
  BY DEF Kept, Saved
<1>4. Backed(history)' /\ Backed(points)'
  BY <1>1, <1>3 DEF Backed
<1>5. ASSUME NEW z \in Years, history'[z] # NoPoint
      PROVE  points[z].from >= history'[z].from
  BY <1>1, <1>2, <1>5
<1>6. QED BY <1>4, <1>5 DEF Ahead

(* Opening the history changes no filing.                                  *)
LEMMA CalmOpen ==
  ASSUME HistoryInv, CalmInv, NEW j \in Jobs, OpenHistory(j)
  PROVE  CalmInv'
<1>1. IngestStep(j)
  BY DEF IngestStep
<1>2. /\ job[j].pc = "open" /\ ~At(j, "idle")
      /\ UNCHANGED <<texts, sidecars, strains>> /\ Saved' = Saved /\ Kept' = Kept
  BY DEF OpenHistory, At, Saved, Kept
<1>3. PICK y \in Years : history' = Prefix(job[j].merged, y)
  BY DEF OpenHistory
<1>4. ASSUME Calm
      PROVE  /\ texts' \in Seq(Filings) /\ sidecars' \subseteq WithDividend
             /\ Backed(history)' /\ CalmRun(job[j])'
  <2>1. /\ CalmRun(job[j]) /\ job[j].merged \in Series
        /\ texts \in Seq(Filings) /\ sidecars \subseteq WithDividend
    BY <1>2, <1>4, CalmJob
  <2>2. PICK merged \in Series : merged = job[j].merged /\ Backed(merged)
    BY <1>2, <2>1 DEF CalmRun
  <2>3. Backed(history)' /\ Backed(merged)' /\ Ahead(merged)'
    BY <1>2, <1>3, <2>2, PrefixBacked
  <2>4. /\ job'[j].pc = "rows" /\ job'[j].raced = job[j].raced
        /\ job'[j].got = {} /\ job'[j].merged = merged
    BY <2>2, JobFields
  <2>5. CalmRun(job[j])'
    BY <2>1, <2>3, <2>4 DEF CalmRun, Backed, Ahead
  <2>6. QED BY <1>2, <2>1, <2>3, <2>5
<1>5. QED BY <1>1, <1>4, CalmMove

(* The history is what was merged, and shows what that was drawn from.     *)
LEMMA CalmClose ==
  ASSUME HistoryInv, CalmInv, NEW j \in Jobs, CloseHistory(j)
  PROVE  CalmInv'
<1>1. IngestStep(j)
  BY DEF IngestStep
<1>2. /\ job[j].pc = "rows" /\ ~At(j, "idle") /\ UNCHANGED <<texts, sidecars>> /\ Kept' = Kept
      /\ ~job[j].raced => history' = job[j].merged
  BY DEF CloseHistory, At, Saved, Kept
<1>3. ASSUME Calm
      PROVE  /\ texts' \in Seq(Filings) /\ sidecars' \subseteq WithDividend
             /\ Backed(history)' /\ CalmRun(job[j])'
  <2>1. CalmRun(job[j]) /\ texts \in Seq(Filings) /\ sidecars \subseteq WithDividend
    BY <1>2, <1>3, CalmJob
  <2>2. history' = job[j].merged /\ Backed(job[j].merged)
    BY <1>2, <2>1 DEF CalmRun
  <2>3. Backed(history)'
    BY <1>2, <2>2 DEF Backed
  <2>4. CalmRun(job[j])'
    BY JobFields DEF CalmRun
  <2>5. QED BY <1>2, <2>1, <2>3, <2>4
<1>4. QED BY <1>1, <1>3, CalmMove

(* The indexing of the texts, and the end of a job.                        *)
LEMMA CalmEnd ==
  ASSUME HistoryInv, CalmInv, NEW j \in Jobs, IndexTexts(j) \/ PruneIndex(j) \/ FailJob(j)
  PROVE  CalmInv'
<1>1. IngestStep(j)
  BY DEF IngestStep
<1>2. /\ ~At(j, "idle") /\ UNCHANGED <<texts, sidecars, history>> /\ Kept' = Kept
  BY DEF IndexTexts, PruneIndex, FailJob, At, disk, Saved, Kept
<1>3. ASSUME Calm
      PROVE  /\ texts' \in Seq(Filings) /\ sidecars' \subseteq WithDividend
             /\ Backed(history)' /\ (~At(j, "idle")' => CalmRun(job[j])')
  <2>1. /\ CalmRun(job[j]) /\ Backed(history)
        /\ texts \in Seq(Filings) /\ sidecars \subseteq WithDividend
    BY <1>2, <1>3, CalmJob
  <2>2. Backed(history)'
    BY <1>2, <2>1 DEF Backed
  <2>3. ~At(j, "idle")' => CalmRun(job[j])'
    BY <1>2, <2>1, JobFields DEF CalmRun, At
  <2>4. QED BY <1>2, <2>1, <2>2, <2>3
<1>4. QED BY <1>1, <1>3, CalmMove

(* What the start of a run changes.                                        *)
LEMMA StartMoves ==
  ASSUME HistoryInv, NEW j \in Jobs, NEW seen \in SUBSET Filings, StartIngest(j, seen)
  PROVE  /\ UNCHANGED <<texts, sidecars, history, victims, basis>> /\ strains \subseteq strains'
         /\ Saved' = Saved /\ Kept' = Kept
         /\ \A k \in Jobs \ {j} : job'[k] = job[k]
         /\ job'[j].pc = "docs" /\ job'[j].todo = Selected(seen)
         /\ job'[j].got = {} /\ ~job'[j].raced /\ Selected(seen) \in SUBSET Filings
         /\ ~AllIdle => "overlap" \in strains'
         /\ LooksBack(Selected(seen)) => "lookback" \in strains'
         /\ Reverts(Selected(seen)) => "revert" \in strains'
<1>1. PICK listings : job \in [Jobs -> JobRecords(listings)]
  BY DEF HistoryInv, IngestTypes
<1>2. PICK todo \in SUBSET Filings : todo = Selected(seen)
  BY DEF Selected
<1>3. /\ UNCHANGED <<texts, sidecars, history, victims, basis>> /\ strains \subseteq strains'
      /\ Saved' = Saved /\ Kept' = Kept
  BY DEF StartIngest, disk, ghosts, Saved, Kept
<1>4. /\ job'[j] = [IdleJob EXCEPT !.pc = "docs", !.todo = todo]
      /\ \A k \in Jobs \ {j} : job'[k] = job[k]
  BY <1>1, <1>2 DEF StartIngest
<1>5. job'[j].pc = "docs" /\ job'[j].todo = todo /\ job'[j].got = {} /\ ~job'[j].raced
  <2>1. PICK idle \in JobRecords(listings) : idle = IdleJob /\ idle.got = {} /\ idle.raced = FALSE
    BY IdleJobType DEF IdleJob
  <2>2. job'[j] = [idle EXCEPT !.pc = "docs", !.todo = todo]
    BY <1>4, <2>1
  <2>3. QED BY <2>1, <2>2 DEF JobRecords
<1>6. /\ ~AllIdle => "overlap" \in strains'
      /\ LooksBack(todo) => "lookback" \in strains'
      /\ Reverts(todo) => "revert" \in strains'
  BY <1>2 DEF StartIngest
<1>7. QED BY <1>2, <1>3, <1>4, <1>5, <1>6

(* A run that does not look back is ahead of all that the history shows.   *)
LEMMA CalmStart ==
  ASSUME HistoryInv, CalmInv, NEW j \in Jobs, NEW seen \in SUBSET Filings, StartIngest(j, seen)
  PROVE  CalmInv'
<1>1. PICK todo \in SUBSET Filings : todo = Selected(seen)
  BY StartMoves
<1>2. SUFFICES ASSUME Calm'
               PROVE  /\ victims' = <<>> /\ texts' \in Seq(Filings)
                      /\ sidecars' \subseteq WithDividend /\ Backed(history)'
                      /\ \A i \in Jobs :
                           ~At(i, "idle")' => /\ \A k \in Jobs \ {i} : At(k, "idle")'
                                              /\ CalmRun(job[i])'
  BY DEF CalmInv
<1>3. Calm /\ AllIdle
  BY <1>2, StartMoves DEF Calm, Without
<1>4. Backed(history) /\ texts \in Seq(Filings) /\ victims = <<>> /\ sidecars \subseteq WithDividend
  BY <1>3 DEF CalmInv
<1>5. Level' => Forward(todo)
  <2>1. ASSUME NEW y \in Years, history[y] # NoPoint, ~LooksBack(todo),
               history[y].from \notin todo, NEW e \in todo, FiscalYear[e] = y
        PROVE  history[y].from < e
    <3>1. ~ (e < history[y].from)
      BY <2>1 DEF LooksBack
    <3>2. history[y].from \in Filings /\ history[y].from # e
      BY <2>1 DEF HistoryInv, IngestTypes, Series
    <3>3. history[y].from \in Int /\ e \in Int
      BY <3>2, FilingsAssumption DEF Filings
    <3>4. QED BY <3>1, <3>2, <3>3
  <2>2. Level' => ~LooksBack(todo)
    BY <1>1, StartMoves DEF Level, Without
  <2>3. QED BY <2>1, <2>2 DEF Forward
<1>6. Level' => Forward(job[j].got \cup job[j].todo)'
  BY <1>1, <1>5, StartMoves DEF Forward
<1>7. CalmRun(job[j])'
  BY <1>6, StartMoves DEF CalmRun
<1>8. \A k \in Jobs \ {j} : At(k, "idle")'
  BY <1>3, StartMoves DEF AllIdle, At
<1>9. Backed(history)'
  BY <1>4, StartMoves DEF Backed
<1>10. QED BY <1>4, <1>7, <1>8, <1>9, StartMoves

(* Stops and the prune of files, each of which the strains record.         *)
LEMMA CalmOther ==
  ASSUME HistoryInv, CalmInv, StopServer \/ ListVictims \/ UnlinkFile \/ UNCHANGED ingestVars
  PROVE  CalmInv'
<1>1. SUFFICES ASSUME Calm' PROVE CalmInv'
  BY DEF CalmInv
<1>2. strains \subseteq strains' /\ history' = history
  BY DEF StopServer, ListVictims, UnlinkFile, ingestVars, disk
<1>3. Calm
  BY <1>1, <1>2 DEF Calm, Without
<1>4. ~ListVictims /\ ~UnlinkFile
  BY <1>1, <1>3 DEF Calm, Without, ListVictims, UnlinkFile, CalmInv
<1>5. UNCHANGED <<texts, sidecars, history, victims>>
  BY <1>4 DEF StopServer, ingestVars, disk
<1>6. Saved' = Saved /\ Kept' = Kept
  BY <1>5 DEF Saved, Kept
<1>7. /\ victims' = <<>> /\ texts' \in Seq(Filings) /\ sidecars' \subseteq WithDividend
      /\ Backed(history)'
  BY <1>3, <1>5, <1>6 DEF CalmInv, Backed
<1>8. CASE UNCHANGED ingestVars
  <2>1. ASSUME NEW i \in Jobs, CalmRun(job[i])
        PROVE  CalmRun(job[i])'
    <3>1. PICK run : run = job[i] /\ run = job'[i]
      BY <1>8 DEF ingestVars
    <3>2. CalmRun(run)
      BY <2>1, <3>1
    <3>3. Level' = Level
      BY <1>8 DEF ingestVars, Level, Without
    <3>4. CalmRun(run)'
      BY <1>5, <1>6, <3>2, <3>3 DEF CalmRun, Forward, Backed, Ahead
    <3>5. QED BY <3>1, <3>4 DEF CalmRun, Forward, Backed, Ahead
  <2>2. job' = job
    BY <1>8 DEF ingestVars
  <2>3. QED BY <1>3, <1>7, <2>1, <2>2 DEF CalmInv, At
<1>9. CASE StopServer
  <2>1. \A j \in Jobs : At(j, "idle")'
    BY <1>9, IdleJobType DEF StopServer, At
  <2>2. QED BY <1>7, <2>1 DEF CalmInv
<1>10. QED BY <1>4, <1>8, <1>9

(* No step breaks the calm invariant.                                      *)
LEMMA NextCalmInv == HistoryInv /\ CalmInv /\ [IngestNext]_ingestVars => CalmInv'
<1> SUFFICES ASSUME HistoryInv, CalmInv, [IngestNext]_ingestVars
             PROVE  CalmInv'
  OBVIOUS
<1>1. ASSUME NEW j \in Jobs, IngestStep(j)
      PROVE  CalmInv'
  BY <1>1, CalmFiling, CalmMerge, CalmOpen, CalmClose, CalmEnd DEF IngestStep, WorkStep
<1>2. QED BY <1>1, CalmStart, CalmOther DEF IngestNext

(* The calm invariant: unless jobs overlapped or files were pruned, every  *)
(* filing the history shows is on disk, and each run that does not look    *)
(* back works forward from them.                                           *)
THEOREM CalmInvAlways == IngestSpec => []CalmInv
BY HistoryInvAlways, InitCalmInv, NextCalmInv, PTL DEF IngestSpec

(* "The newest filing's figures win when the same period appears in more   *)
(* than one filing": no step replaces a year's figures by those of an      *)
(* older filing, for any filings and jobs, unless jobs overlap, look back  *)
(* or find their files pruned.                                             *)
THEOREM NewestFilingWins == IngestSpec => NewestWinsUnlessStrained
<1> DEFINE Newer == \A y \in Years : history[y] # NoPoint /\ history'[y] # NoPoint
                                       => history'[y].from >= history[y].from
           Steady == strains' \cap {"overlap", "lookback", "prune"} = {} => Newer
<1>1. ASSUME HistoryInv, CalmInv, [IngestNext]_ingestVars
      PROVE  [Steady]_ingestVars
  <2>1. SUFFICES ASSUME Calm', Level' PROVE Newer
    BY DEF Calm, Level, Without
  <2>2. history \in Series
    BY <1>1 DEF HistoryInv, IngestTypes
  <2>3. \A y \in Years : history[y].from >= history[y].from
    <3>1. \A y \in Years : history[y].from \in Int
      BY <2>2, FilingsAssumption DEF Series, Shapes, Filings
    <3>2. QED BY <3>1
  <2>4. CASE history' = history
    BY <2>3, <2>4
  <2>5. ASSUME NEW j \in Jobs, OpenHistory(j) \/ CloseHistory(j)
        PROVE  \A y \in Years : history'[y] # NoPoint /\ history[y] # NoPoint
                                  => history'[y].from >= history[y].from
    <3>1. Calm /\ Level /\ job[j].pc \in {"open", "rows"} /\ ~At(j, "idle")
      BY <2>1, <2>5 DEF Calm, Level, Without, OpenHistory, CloseHistory, At
    <3>2. CalmRun(job[j]) /\ Ahead(job[j].merged) /\ ~job[j].raced
      BY <1>1, <3>1, CalmJob DEF CalmRun
    <3>3. \A y \in Years : history'[y] # NoPoint => history'[y] = job[j].merged[y]
      BY <2>5, <3>2 DEF OpenHistory, CloseHistory, Prefix
    <3>4. QED BY <3>2, <3>3 DEF Ahead
  <2>6. ASSUME NEW j \in Jobs, IngestStep(j), ~OpenHistory(j), ~CloseHistory(j)
        PROVE  history' = history
    BY <2>6 DEF IngestStep, ReadCached, SkipFiling, Download, SaveText, SaveSidecar,
                MergeHistory, IndexTexts, PruneIndex, FailJob, disk
  <2>7. CASE \E j \in Jobs : IngestStep(j)
    BY <2>4, <2>5, <2>6, <2>7
  <2>8. CASE ~ \E j \in Jobs : IngestStep(j)
    <3>1. history' = history
      BY <1>1, <2>8 DEF IngestNext, StartIngest, StopServer, ListVictims, UnlinkFile,
                        ingestVars, disk
    <3>2. QED BY <2>4, <3>1
  <2>9. QED BY <2>7, <2>8
<1>2. IngestSpec => [][Steady]_ingestVars
  BY <1>1, HistoryInvAlways, CalmInvAlways, PTL DEF IngestSpec
<1>3. QED BY <1>2 DEF NewestWinsUnlessStrained

-----------------------------------------------------------------------------
(***************************************************************************)
(* The newest table.  As long as no run works on filings older than the    *)
(* newest table without its filing, a run takes that filing into its merge *)
(* or works on later periods alone; so the table it corrects by is the     *)
(* newest of all, and where it has no table its figures are no older than  *)
(* the one that the history was corrected by.                              *)
(***************************************************************************)
Firm == Without({"overlap", "revert", "prune", "unsaved"})

Held(points, b) ==
  \A y \in Table[b] \cap Years : points[y] # NoPoint => ~Older(points[y].dividend, b)

NewBasis(got) == IF Tabled(got) = {} THEN basis ELSE Corrector(got \cup ({basis} \ {0}))

Reaches(work) == basis \notin work \cup {0} => \A e \in work : ~Older(e, basis)

BasisRun(run) ==
  /\ Tabled(run.got) \subseteq WithDividend
  /\ run.pc \in {"docs", "text", "sidecar"} => Reaches(Work(run))
  /\ run.pc = "open" /\ NewBasis(run.got) # 0 => Held(run.merged, NewBasis(run.got))
  /\ run.pc = "rows" /\ basis # 0 => Held(run.merged, basis)

BasisInv ==
  Firm =>
    /\ basis # 0 => basis \in Tabled(Kept) /\ Held(history, basis)
    /\ \A j \in Jobs : ~At(j, "idle") => BasisRun(job[j])

(* What is firm is calm.                                                   *)
LEMMA FirmIsCalm == Firm => Calm
BY DEF Firm, Calm, Without

(* The table a run corrects by is the newest of all.                       *)
LEMMA NewBasisIs ==
  ASSUME NEW got \in SUBSET Filings, Tabled(got) # {},
         basis # 0 => basis \in Filings /\ Table[basis] # {}, Reaches(got)
  PROVE  NewBasis(got) = Corrector(got)
<1>1. PICK c \in Tabled(got) : c = Corrector(got) /\ \A e \in Tabled(got) : ~Older(c, e)
  BY CorrectorFact
<1>2. PICK all \in SUBSET Filings : all = got \cup ({basis} \ {0})
  OBVIOUS
<1>3. c \in Tabled(all) /\ Tabled(all) = Tabled(got) \cup Tabled({basis} \ {0})
  BY <1>2 DEF Tabled
<1>4. ASSUME basis # 0, basis \notin got
      PROVE  ~Older(c, basis)
  BY <1>4 DEF Reaches, Tabled
<1>5. \A e \in Tabled(all) : ~Older(c, e)
  BY <1>1, <1>3, <1>4 DEF Tabled
<1>6. Corrector(all) = c
  BY <1>2, <1>3, <1>5, CorrectorIs
<1>7. QED BY <1>1, <1>2, <1>6 DEF NewBasis

(* A merge that reaches the newest table leaves nothing of an older one.   *)
LEMMA MergeHolds ==
  ASSUME history \in Series, NEW got \in SUBSET Filings, Reaches(got),
         basis # 0 => basis \in Filings /\ Table[basis] # {} /\ Held(history, basis),
         NewBasis(got) # 0
  PROVE  Held(Merged(got), NewBasis(got))
<1>1. CASE Tabled(got) = {}
  <2>1. /\ NewBasis(got) = basis /\ basis # 0 /\ basis \notin got /\ Held(history, basis)
        /\ \A e \in got : ~Older(e, basis)
    BY <1>1 DEF NewBasis, Tabled, Reaches
  <2>2. ASSUME NEW y \in Table[basis] \cap Years, Merged(got)[y] # NoPoint
        PROVE  ~Older(Merged(got)[y].dividend, basis)
    <3>1. CASE OfYear(got, y) # {}
      <4>1. PICK m \in got : m = Max(OfYear(got, y))
        BY <3>1, NewestOfYear
      <4>2. Merged(got)[y].dividend = m
        BY <1>1, <3>1, <4>1, MergePoint
      <4>3. QED BY <2>1, <4>2
    <3>2. CASE OfYear(got, y) = {}
      <4>1. history[y] # NoPoint /\ Merged(got)[y].dividend = history[y].dividend
        BY <1>1, <2>2, <3>2, MergePoint
      <4>2. QED BY <2>1, <4>1 DEF Held
    <3>3. QED BY <3>1, <3>2
  <2>3. QED BY <2>1, <2>2 DEF Held
<1>2. CASE Tabled(got) # {}
  <2>1. PICK c \in Tabled(got) : c = Corrector(got) /\ ~Older(c, c)
    BY <1>2, CorrectorFact
  <2>2. NewBasis(got) = c
    BY <1>2, <2>1, NewBasisIs
  <2>3. ASSUME NEW y \in Table[c] \cap Years, Merged(got)[y] # NoPoint
        PROVE  Merged(got)[y].dividend = c
    BY <1>2, <2>1, <2>3, MergePoint
  <2>4. QED BY <2>1, <2>2, <2>3 DEF Held
<1>3. QED BY <1>1, <1>2

-----------------------------------------------------------------------------
(* No table has corrected the history at the start.                        *)
LEMMA InitBasisInv == IngestInit => BasisInv
<1> SUFFICES ASSUME IngestInit PROVE BasisInv
  OBVIOUS
<1>1. \A j \in Jobs : At(j, "idle")
  BY IdleJobType DEF IngestInit, At
<1>2. QED BY <1>1 DEF IngestInit, BasisInv

(* The only job at work moves on or ends.                                  *)
LEMMA BasisMove ==
  ASSUME HistoryInv, CalmInv, BasisInv, NEW j \in Jobs, IngestStep(j),
         Firm /\ Firm' =>
           /\ basis' # 0 => basis' \in Tabled(Kept') /\ Held(history', basis')
           /\ ~At(j, "idle")' => BasisRun(job[j])'
  PROVE  BasisInv'
<1> SUFFICES ASSUME Firm'
             PROVE  /\ basis' # 0 => basis' \in Tabled(Kept') /\ Held(history', basis')
                    /\ \A i \in Jobs : ~At(i, "idle")' => BasisRun(job[i])'
  BY DEF BasisInv, Held, Tabled
<1>1. Firm
  BY OthersStay DEF Firm, Without
<1>2. \A k \in Jobs \ {j} : At(k, "idle")
  BY <1>1, FirmIsCalm, OthersStay DEF CalmInv
<1>3. \A k \in Jobs \ {j} : At(k, "idle")'
  BY <1>2, OthersStay DEF At
<1>4. QED BY <1>1, <1>3

(* What is known of the newest table and of a job at work.                 *)
LEMMA BasisJob ==
  ASSUME HistoryInv, CalmInv, BasisInv, Firm, NEW j \in Jobs, ~At(j, "idle")
  PROVE  /\ BasisRun(job[j]) /\ CalmRun(job[j]) /\ history \in Series
         /\ job[j].got \in SUBSET Filings /\ sidecars \subseteq WithDividend
         /\ basis # 0 => /\ basis \in Kept /\ basis \in Filings /\ Table[basis] # {}
                         /\ Held(history, basis)
BY FirmIsCalm, CalmJob DEF BasisInv, Tabled

(* The steps over the filings: the newest table is not passed over.        *)
LEMMA BasisFiling ==
  ASSUME HistoryInv, CalmInv, BasisInv, NEW j \in Jobs, WorkStep(j)
  PROVE  BasisInv'
<1>1. IngestStep(j)
  BY DEF WorkStep, IngestStep
<1>2. basis' = basis /\ ~At(j, "idle")
  BY <1>1, OthersStay
     DEF WorkStep, ReadCached, SkipFiling, Download, SaveText, SaveSidecar, ghosts
<1>3. ASSUME Firm, Firm'
      PROVE  /\ basis' # 0 => basis' \in Tabled(Kept') /\ Held(history', basis')
             /\ BasisRun(job[j])'
  <2>1. /\ BasisRun(job[j]) /\ sidecars \subseteq WithDividend
        /\ basis # 0 => basis \in Kept /\ Table[basis] # {} /\ Held(history, basis)
    BY <1>2, <1>3, BasisJob
  <2>2. /\ Work(job'[j]) \subseteq Work(job[j]) /\ Kept \cap Work(job[j]) \subseteq Work(job'[j])
        /\ Kept \subseteq Kept' /\ history' = history
        /\ job'[j].pc \in {"docs", "text", "sidecar"} /\ job[j].pc \in {"docs", "text", "sidecar"}
    BY <1>3, FirmIsCalm, WorkKeeps
  <2>3. basis' # 0 => basis' \in Tabled(Kept') /\ Held(history', basis')
    BY <1>2, <2>1, <2>2 DEF Tabled
  <2>4. Tabled(job'[j].got) \subseteq WithDividend
    <3>1. Tabled(job[j].got) \subseteq WithDividend
      BY <2>1 DEF BasisRun
    <3>2. CASE ReadCached(j) \/ SkipFiling(j)
      <4>1. job'[j].got \subseteq job[j].got \cup sidecars
        BY <3>2, JobFields
      <4>2. QED BY <2>1, <3>1, <4>1 DEF Tabled
    <3>3. CASE Download(j) \/ SaveText(j)
      <4>1. job'[j].got = job[j].got
        BY <3>3, JobFields
      <4>2. QED BY <3>1, <4>1
    <3>4. CASE SaveSidecar(j)
      <4>1. job'[j].got = job[j].got \cup {Current(j)}
        BY <3>4, JobFields
      <4>2. Unsaved(Current(j)) \cap {"unsaved"} = {}
        BY <1>3, <3>4 DEF SaveSidecar, Firm, Without
      <4>3. Tabled({Current(j)}) \subseteq WithDividend
        BY <4>2 DEF Unsaved
      <4>4. QED BY <3>1, <4>1, <4>3 DEF Tabled
    <3>5. QED BY <3>2, <3>3, <3>4 DEF WorkStep
  <2>5. Reaches(Work(job[j]))
    BY <2>1, <2>2 DEF BasisRun
  <2>6. Reaches(Work(job'[j]))
    BY <2>1, <2>2, <2>5 DEF Reaches
  <2>7. Reaches(Work(job[j]))'
    BY <1>2, <2>6 DEF Reaches, Work
  <2>8. BasisRun(job[j])'
    BY <2>2, <2>4, <2>7 DEF BasisRun, Tabled
  <2>9. QED BY <2>3, <2>8
<1>4. QED BY <1>1, <1>3, BasisMove

(* The merge corrects by the newest table.                                 *)
LEMMA BasisMerge ==
  ASSUME HistoryInv, CalmInv, BasisInv, NEW j \in Jobs, MergeHistory(j)
  PROVE  BasisInv'
<1>1. IngestStep(j)
  BY DEF IngestStep
<1>2. /\ job[j].pc = "docs" /\ ~At(j, "idle") /\ job[j].todo = {}
      /\ UNCHANGED <<history, basis>> /\ Kept' = Kept
  BY DEF MergeHistory, At, disk, ghosts, Kept, Saved
<1>3. ASSUME Firm, Firm'
      PROVE  /\ basis' # 0 => basis' \in Tabled(Kept') /\ Held(history', basis')
             /\ BasisRun(job[j])'
  <2>1. /\ BasisRun(job[j]) /\ history \in Series /\ job[j].got \in SUBSET Filings
        /\ basis # 0 => /\ basis \in Kept /\ basis \in Filings /\ Table[basis] # {}
                        /\ Held(history, basis)
    BY <1>2, <1>3, BasisJob
  <2>2. PICK got \in SUBSET Filings : got = job[j].got
    BY <2>1
  <2>3. Reaches(got) /\ Tabled(got) \subseteq WithDividend
    <3>1. Work(job[j]) = got
      BY <1>2, <2>2 DEF Work
    <3>2. QED BY <1>2, <2>1, <2>2, <3>1 DEF BasisRun
  <2>4. NewBasis(got) # 0 => Held(Merged(got), NewBasis(got))
    BY <2>1, <2>3, MergeHolds
  <2>5. PICK new : new = NewBasis(got) /\ new = NewBasis(got)'
    BY <1>2 DEF NewBasis
  <2>6. PICK merged : merged = Merged(got) /\ (new # 0 => Held(merged, new))
    BY <2>4, <2>5
  <2>7. IF merged = NoHistory
          THEN job'[j].pc = "index" /\ job'[j].got = {}
          ELSE job'[j].pc = "open" /\ job'[j].got = got /\ job'[j].merged = merged
    BY <2>2, <2>6, JobFields
  <2>8. Tabled(job'[j].got) \subseteq WithDividend
    BY <2>3, <2>7 DEF Tabled
  <2>9. job'[j].pc = "open" => NewBasis(job[j].got)' = new
    BY <1>2, <2>5, <2>7 DEF NewBasis
  <2>10. BasisRun(job[j])'
    BY <2>6, <2>7, <2>8, <2>9 DEF BasisRun, Tabled, Held
  <2>11. QED BY <1>2, <2>1, <2>10 DEF Tabled
<1>4. QED BY <1>1, <1>3, BasisMove

(* The write of what was merged.                                           *)
LEMMA BasisOpen ==
  ASSUME HistoryInv, CalmInv, BasisInv, NEW j \in Jobs, OpenHistory(j)
  PROVE  BasisInv'
<1>1. IngestStep(j)
  BY DEF IngestStep
<1>2. /\ job[j].pc = "open" /\ ~At(j, "idle") /\ Kept' = Kept
      /\ basis' = NewBasis(job[j].got)
  BY DEF OpenHistory, At, Kept, Saved, NewBasis
<1>3. PICK y \in Years : history' = Prefix(job[j].merged, y)
  BY DEF OpenHistory
<1>4. ASSUME Firm, Firm'
      PROVE  /\ basis' # 0 => basis' \in Tabled(Kept') /\ Held(history', basis')
             /\ BasisRun(job[j])'
  <2>1. /\ BasisRun(job[j]) /\ CalmRun(job[j]) /\ job[j].got \in SUBSET Filings
        /\ basis # 0 => basis \in Kept /\ basis \in Filings /\ Table[basis] # {}
    BY <1>2, <1>4, BasisJob
  <2>2. PICK merged : merged = job[j].merged /\ (basis' # 0 => Held(merged, basis'))
    BY <1>2, <2>1 DEF BasisRun
  <2>3. \A z \in Years : history'[z] # NoPoint => history'[z] = merged[z]
    BY <1>3, <2>2 DEF Prefix
  <2>4. basis' # 0 => Held(history', basis')
    BY <2>2, <2>3 DEF Held
  <2>5. basis' # 0 => basis' \in Tabled(Kept')
    <3>1. PICK got \in SUBSET Filings : got = job[j].got
      BY <2>1
    <3>2. Tabled(got) \subseteq Kept
      BY <2>1, <3>1 DEF BasisRun, CalmRun, Tabled
    <3>3. CASE Tabled(got) = {}
      BY <1>2, <2>1, <3>1, <3>3 DEF NewBasis, Tabled
    <3>4. CASE Tabled(got) # {}
      <4>1. PICK all \in SUBSET Filings : all = got \cup ({basis} \ {0})
        BY <2>1
      <4>2. Tabled(all) # {} /\ Tabled(all) \subseteq Tabled(Kept)
        BY <2>1, <3>2, <3>4, <4>1 DEF Tabled
      <4>3. Corrector(all) \in Tabled(all)
        BY <4>2, CorrectorFact
      <4>4. basis' = Corrector(all)
        BY <1>2, <3>1, <3>4, <4>1 DEF NewBasis
      <4>5. QED BY <1>2, <4>2, <4>3, <4>4
    <3>5. QED BY <3>3, <3>4
  <2>6. job'[j].pc = "rows" /\ job'[j].got = {} /\ job'[j].merged = merged
    BY <2>2, JobFields
  <2>7. BasisRun(job[j])'
    BY <2>2, <2>6 DEF BasisRun, Tabled, Held
  <2>8. QED BY <2>4, <2>5, <2>7
<1>5. QED BY <1>1, <1>4, BasisMove

(* The end of a write, the indexing, and the end of a job.                 *)
LEMMA BasisEnd ==
  ASSUME HistoryInv, CalmInv, BasisInv, NEW j \in Jobs,
         CloseHistory(j) \/ IndexTexts(j) \/ PruneIndex(j) \/ FailJob(j)
  PROVE  BasisInv'
<1>1. IngestStep(j)
  BY DEF IngestStep
<1>2. /\ ~At(j, "idle") /\ basis' = basis /\ Kept' = Kept
  BY DEF CloseHistory, IndexTexts, PruneIndex, FailJob, At, disk, ghosts, Kept, Saved
<1>3. ASSUME Firm, Firm'
      PROVE  /\ basis' # 0 => basis' \in Tabled(Kept') /\ Held(history', basis')
             /\ ~At(j, "idle")' => BasisRun(job[j])'
  <2>1. /\ BasisRun(job[j]) /\ ~job[j].raced
        /\ basis # 0 => basis \in Kept /\ Table[basis] # {} /\ Held(history, basis)
    BY <1>2, <1>3, BasisJob DEF CalmRun
  <2>2. basis # 0 => Held(history', basis)
    <3>1. CASE CloseHistory(j)
      <4>1. history' = job[j].merged /\ job[j].pc = "rows"
        BY <2>1, <3>1 DEF CloseHistory, At
      <4>2. QED BY <2>1, <4>1 DEF BasisRun
    <3>2. CASE IndexTexts(j) \/ PruneIndex(j) \/ FailJob(j)
      <4>1. history' = history
        BY <3>2 DEF IndexTexts, PruneIndex, FailJob, disk
      <4>2. QED BY <2>1, <4>1
    <3>3. QED BY <3>1, <3>2
  <2>3. ~At(j, "idle")' =>
          /\ job'[j].pc \in {"index", "unlist"}
          /\ job'[j].got = {} \/ job'[j].got = job[j].got
    BY JobFields DEF At
  <2>4. ~At(j, "idle")' => BasisRun(job[j])'
    BY <2>1, <2>3 DEF BasisRun, Tabled
  <2>5. QED BY <1>2, <2>1, <2>2, <2>4 DEF Tabled
<1>4. QED BY <1>1, <1>3, BasisMove

(* A run that does not revert reaches the newest table.                    *)
LEMMA BasisStart ==
  ASSUME HistoryInv, CalmInv, BasisInv, NEW j \in Jobs, NEW seen \in SUBSET Filings,
         StartIngest(j, seen)
  PROVE  BasisInv'
<1>1. SUFFICES ASSUME Firm'
               PROVE  /\ basis' # 0 => basis' \in Tabled(Kept') /\ Held(history', basis')
                      /\ \A i \in Jobs : ~At(i, "idle")' => BasisRun(job[i])'
  BY DEF BasisInv, Held, Tabled
<1>2. PICK todo : todo = Selected(seen)
  OBVIOUS
<1>3. /\ Firm /\ AllIdle /\ ~Reverts(todo)
  BY <1>1, <1>2, StartMoves DEF Firm, Without
<1>4. basis # 0 => basis \in Tabled(Kept) /\ Held(history, basis)
  BY <1>3 DEF BasisInv
<1>5. Reaches(todo)
  BY <1>3 DEF Reverts, Reaches
<1>6. /\ job'[j].pc = "docs" /\ job'[j].got = {} /\ Work(job'[j]) = todo /\ basis' = basis
  BY <1>2, StartMoves DEF Work
<1>7. Reaches(Work(job[j]))'
  BY <1>5, <1>6 DEF Reaches, Work
<1>8. BasisRun(job[j])'
  BY <1>6, <1>7 DEF BasisRun, Tabled
<1>9. \A k \in Jobs \ {j} : At(k, "idle")'
  BY <1>3, StartMoves DEF AllIdle, At
<1>10. QED BY <1>4, <1>8, <1>9, StartMoves

(* The steps that are not of a job.                                        *)
LEMMA BasisOther ==
  ASSUME CalmInv, BasisInv, StopServer \/ ListVictims \/ UnlinkFile \/ UNCHANGED ingestVars
  PROVE  BasisInv'
<1>1. SUFFICES ASSUME Firm' PROVE BasisInv'
  BY DEF BasisInv
<1>2. strains \subseteq strains' /\ UNCHANGED <<history, basis>>
  BY DEF StopServer, ListVictims, UnlinkFile, ingestVars, disk, ghosts
<1>3. Firm
  BY <1>1, <1>2 DEF Firm, Without
<1>4. ~ListVictims /\ ~UnlinkFile
  BY <1>1, <1>3, FirmIsCalm DEF Firm, Without, ListVictims, UnlinkFile, CalmInv
<1>5. Kept' = Kept
  BY <1>4 DEF StopServer, ingestVars, disk, Kept, Saved
<1>6. basis' # 0 => basis' \in Tabled(Kept') /\ Held(history', basis')
  BY <1>2, <1>3, <1>5 DEF BasisInv
<1>7. \A j \in Jobs : ~At(j, "idle")' => BasisRun(job[j])'
  <2>1. CASE UNCHANGED ingestVars
    <3>1. job' = job
      BY <2>1 DEF ingestVars
    <3>2. ASSUME NEW j \in Jobs, BasisRun(job[j])
          PROVE  BasisRun(job[j])'
      BY <1>2, <3>1, <3>2 DEF BasisRun, NewBasis, Reaches, Held, Tabled, Work
    <3>3. QED BY <1>3, <3>1, <3>2 DEF BasisInv, At
  <2>2. CASE StopServer
    BY <2>2, IdleJobType DEF StopServer, At
  <2>3. QED BY <1>4, <2>1, <2>2
<1>8. QED BY <1>6, <1>7 DEF BasisInv, Held, Tabled

(* No step lets an older table in.                                         *)
LEMMA NextBasisInv ==
  HistoryInv /\ CalmInv /\ BasisInv /\ [IngestNext]_ingestVars => BasisInv'
<1> SUFFICES ASSUME HistoryInv, CalmInv, BasisInv, [IngestNext]_ingestVars
             PROVE  BasisInv'
  OBVIOUS
<1>1. ASSUME NEW j \in Jobs, IngestStep(j)
      PROVE  BasisInv'
  BY <1>1, BasisFiling, BasisMerge, BasisOpen, BasisEnd DEF IngestStep, WorkStep
<1>2. QED BY <1>1, BasisStart, BasisOther DEF IngestNext

(* "A stock split cannot leave a spurious cut/jump in the series": for any *)
(* filings and tables, no year of the newest table that has corrected the  *)
(* history shows a dividend from an older filing or table, unless jobs     *)
(* overlap, a run works on older filings without that table's, files are   *)
(* pruned, or a table has no sidecar.                                      *)
THEOREM NewestTableStays == IngestSpec => []NewestTableHolds
<1>1. BasisInv => NewestTableHolds
  BY DEF BasisInv, Held, NewestTableHolds, Firm
<1>2. IngestSpec => []BasisInv
  BY HistoryInvAlways, CalmInvAlways, InitBasisInv, NextBasisInv, PTL DEF IngestSpec
<1>3. QED BY <1>1, <1>2, PTL

-----------------------------------------------------------------------------
(***************************************************************************)
(* Every saved filing is counted.  A text on disk keeps its filing from    *)
(* being downloaded again, so as long as no run ends early its job holds   *)
(* the point from the save of the text to the write of the history.        *)
(***************************************************************************)
Finished == Calm /\ Level /\ Without({"torn", "unfinished"})

Covers(points, d) == points[FiscalYear[d]].from >= d

Counted(run, d) ==
  \/ run.pc # "rows" /\ Covers(history, d)
  \/ run.pc \in {"docs", "text", "sidecar"} /\ run.ingested /\ d \in run.got
  \/ run.pc = "sidecar" /\ run.ingested /\ d = Max(run.todo)
  \/ run.pc = "open" /\ run.ingested /\ Covers(run.merged, d)
  \/ run.pc = "rows" /\ Covers(run.merged, d)

SavedInv ==
  Finished =>
    \A d \in Saved \cap WithDividend :
      /\ AllIdle => Covers(history, d)
      /\ \A j \in Jobs : ~At(j, "idle") => Counted(job[j], d)

(* A step of the job at work, when it counts what it has saved.            *)
LEMMA SavedMove ==
  ASSUME HistoryInv, CalmInv, SavedInv, NEW j \in Jobs, IngestStep(j),
         Finished' =>
           \A d \in Saved' \cap WithDividend :
             (d \in Saved => Counted(job[j], d)) =>
               IF At(j, "idle")' THEN Covers(history', d) ELSE Counted(job[j], d)'
  PROVE  SavedInv'
<1> SUFFICES ASSUME Finished', NEW d \in Saved' \cap WithDividend
             PROVE  /\ AllIdle' => Covers(history', d)
                    /\ \A i \in Jobs : ~At(i, "idle")' => Counted(job[i], d)'
  BY DEF SavedInv, Covers
<1>1. Finished /\ Calm
  BY OthersStay DEF Finished, Calm, Level, Without
<1>2. d \in Saved => Counted(job[j], d)
  BY <1>1, OthersStay DEF SavedInv
<1>3. \A k \in Jobs \ {j} : At(k, "idle")'
  BY <1>1, OthersStay DEF CalmInv, At
<1>4. IF At(j, "idle")' THEN Covers(history', d) ELSE Counted(job[j], d)'
  BY <1>2
<1>5. QED BY <1>3, <1>4 DEF AllIdle

(* The steps that write no history.                                        *)
LEMMA SavedQuiet ==
  ASSUME HistoryInv, CalmInv, SavedInv, NEW j \in Jobs,
         \/ ReadCached(j) \/ SkipFiling(j) \/ Download(j) \/ SaveText(j)
         \/ SaveSidecar(j) \/ IndexTexts(j) \/ PruneIndex(j) \/ FailJob(j)
  PROVE  SavedInv'
<1>1. /\ strains \subseteq strains' /\ history' = history /\ ~At(j, "idle") /\ ~At(j, "rows")
      /\ IngestStep(j)
  BY DEF ReadCached, SkipFiling, Download, SaveText, SaveSidecar, IndexTexts, PruneIndex,
         FailJob, disk, At, IngestStep
<1>2. PICK run : run = job[j]
  OBVIOUS
<1>3. PICK moved : moved = job'[j]
  OBVIOUS
<1>4. CASE ReadCached(j) \/ SkipFiling(j) \/ Download(j)
  <2>1. /\ run.pc = "docs" /\ moved.pc \in {"docs", "text"} /\ moved.ingested = run.ingested
        /\ run.got \subseteq moved.got
    BY <1>2, <1>3, <1>4, JobFields DEF ReadCached, SkipFiling, Download, At
  <2>2. Saved' = Saved
    BY <1>4 DEF ReadCached, SkipFiling, Download, disk, Saved
  <2>3. ASSUME NEW d \in Saved' \cap WithDividend, d \in Saved => Counted(run, d)
        PROVE  Counted(moved, d)'
    BY <1>1, <2>1, <2>2, <2>3 DEF Counted, Covers
  <2>4. \A d \in Saved' \cap WithDividend : (d \in Saved => Counted(job[j], d)) =>
          ~At(j, "idle")' /\ Counted(job[j], d)'
    <3>1. ~At(j, "idle")'
      BY <1>3, <2>1 DEF At
    <3>2. QED BY <1>2, <1>3, <2>3, <3>1 DEF Counted
  <2>5. QED BY <1>1, <2>4, SavedMove
<1>5. CASE SaveText(j)
  <2>1. /\ run.pc = "text" /\ moved.pc = "sidecar" /\ moved.ingested
        /\ run.got = moved.got /\ run.todo = moved.todo
    BY <1>2, <1>3, <1>5, JobFields DEF SaveText, At
  <2>2. Calm => Saved' = Saved \cup {Max(run.todo)}
    <3>1. SUFFICES ASSUME Calm PROVE Saved' = Saved \cup {Max(run.todo)}
      OBVIOUS
    <3>2. texts \in Seq(Filings) /\ run.todo # {} /\ run.todo \in SUBSET Filings
      BY <1>1, <1>2, <1>5, <2>1, <3>1, CalmJob, CurrentFact
    <3>3. PICK c \in Filings : c = Max(run.todo)
      BY <3>2, NewestFiling
    <3>4. texts' = Rewritten(c)
      BY <1>2, <1>5, <3>3 DEF SaveText, Current
    <3>5. ToSet(Rewritten(c)) = Saved \cup {c}
      BY <3>2, RewrittenSaves
    <3>6. QED BY <3>3, <3>4, <3>5 DEF Saved
  <2>3. ASSUME NEW d \in Saved' \cap WithDividend, Calm, d \in Saved => Counted(run, d)
        PROVE  Counted(moved, d)'
    <3>1. d = Max(moved.todo) \/ Counted(run, d)
      BY <2>1, <2>2, <2>3
    <3>2. QED BY <1>1, <2>1, <3>1 DEF Counted, Covers
  <2>4. Calm => \A d \in Saved' \cap WithDividend : (d \in Saved => Counted(job[j], d)) =>
          ~At(j, "idle")' /\ Counted(job[j], d)'
    <3>1. ~At(j, "idle")'
      BY <1>3, <2>1 DEF At
    <3>2. QED BY <1>2, <1>3, <2>3, <3>1 DEF Counted
  <2>5. Finished' => Calm
    BY <1>1 DEF Finished, Calm, Level, Without
  <2>6. QED BY <1>1, <2>4, <2>5, SavedMove
<1>6. CASE SaveSidecar(j)
  <2>1. /\ run.pc = "sidecar" /\ moved.pc = "docs" /\ moved.ingested = run.ingested
        /\ moved.got = run.got \cup {Max(run.todo)}
    BY <1>2, <1>3, <1>6, JobFields DEF SaveSidecar, At, Current
  <2>2. Saved' = Saved
    BY <1>6 DEF SaveSidecar, Saved
  <2>3. ASSUME NEW d \in Saved' \cap WithDividend, d \in Saved => Counted(run, d)
        PROVE  Counted(moved, d)'
    BY <1>1, <2>1, <2>2, <2>3 DEF Counted, Covers
  <2>4. \A d \in Saved' \cap WithDividend : (d \in Saved => Counted(job[j], d)) =>
          ~At(j, "idle")' /\ Counted(job[j], d)'
    <3>1. ~At(j, "idle")'
      BY <1>3, <2>1 DEF At
    <3>2. QED BY <1>2, <1>3, <2>3, <3>1 DEF Counted
  <2>5. QED BY <1>1, <2>4, SavedMove
<1>7. CASE IndexTexts(j) \/ PruneIndex(j) \/ FailJob(j)
  <2>1. moved.pc \in {"unlist", "idle"}
    BY <1>3, <1>7, JobFields
  <2>2. Saved' = Saved
    BY <1>7 DEF IndexTexts, PruneIndex, FailJob, disk, Saved
  <2>3. Finished' => run.pc \in {"index", "unlist"} \/ (run.pc = "docs" /\ ~run.ingested)
    BY <1>2, <1>7 DEF IndexTexts, PruneIndex, FailJob, At, Finished, Without, LeftUndone
  <2>4. ASSUME NEW d \in Saved' \cap WithDividend, Finished', d \in Saved => Counted(run, d)
        PROVE  Covers(history', d)
    BY <1>1, <2>2, <2>3, <2>4 DEF Counted
  <2>5. ASSUME NEW d, Covers(history', d)
        PROVE  Counted(moved, d)'
    BY <2>1, <2>5 DEF Counted, Covers
  <2>6. Finished' => \A d \in Saved' \cap WithDividend :
          (d \in Saved => Counted(job[j], d)) => Covers(history', d) /\ Counted(job[j], d)'
    BY <1>2, <1>3, <2>4, <2>5 DEF Counted
  <2>7. QED BY <1>1, <2>6, SavedMove
<1>8. QED BY <1>4, <1>5, <1>6, <1>7

(* The merge takes in all that the job holds, and the write leaves it.     *)
LEMMA SavedWrite ==
  ASSUME HistoryInv, CalmInv, SavedInv, NEW j \in Jobs,
         MergeHistory(j) \/ OpenHistory(j) \/ CloseHistory(j)
  PROVE  SavedInv'
<1>1. /\ strains' = strains /\ ~At(j, "idle") /\ UNCHANGED texts /\ Saved' = Saved
      /\ IngestStep(j)
  BY DEF MergeHistory, OpenHistory, CloseHistory, At, disk, Saved, IngestStep
<1>2. Finished' => Calm /\ Level
  BY <1>1 DEF Finished, Calm, Level, Without
<1>3. PICK run : run = job[j]
  OBVIOUS
<1>4. PICK moved : moved = job'[j]
  OBVIOUS
<1>5. \A d \in WithDividend : d \in Nat \ {0} /\ d \in Filings /\ FiscalYear[d] \in Years
  <2>1. \A d \in WithDividend : d \in Filings
    BY FilingsAssumption
  <2>2. \A d \in Filings : d \in Nat \ {0} /\ FiscalYear[d] \in Years
    BY FilingsAssumption DEF Filings, Years
  <2>3. QED BY <2>1, <2>2
<1>6. CASE MergeHistory(j)
  <2>1. /\ run.pc = "docs" /\ history' = history
        /\ moved.ingested = run.ingested
        /\ IF Merged(run.got) = NoHistory THEN moved.pc = "index"
           ELSE moved.pc = "open" /\ moved.merged = Merged(run.got)
    BY <1>3, <1>4, <1>6, JobFields DEF MergeHistory, disk, At
  <2>2. ASSUME NEW d \in WithDividend, d \in run.got
        PROVE  Covers(moved.merged, d) /\ moved.pc = "open"
    <3>1. run.got \in SUBSET Filings /\ history \in Series
      BY <1>3, CurrentFact DEF HistoryInv, IngestTypes
    <3>2. PICK of : of = OfYear(run.got, FiscalYear[d])
      OBVIOUS
    <3>3. d \in of /\ of \in SUBSET Filings
      BY <2>2, <3>1, <3>2 DEF OfYear
    <3>4. PICK m \in Filings : m = Max(of) /\ d <= m
      BY <3>3, NewestFiling
    <3>5. /\ Merged(run.got)[FiscalYear[d]] # NoPoint
          /\ Merged(run.got)[FiscalYear[d]].from = m
      BY <1>5, <2>1, <3>1, <3>2, <3>3, <3>4, MergePoint
    <3>6. Merged(run.got) # NoHistory
      BY <1>5, <3>5 DEF NoHistory
    <3>7. d \in Int /\ m \in Int
      BY <1>5, <3>4, FilingsAssumption DEF Filings
    <3>8. QED BY <2>1, <3>4, <3>5, <3>6, <3>7 DEF Covers
  <2>3. ASSUME NEW d \in WithDividend, Counted(run, d)
        PROVE  Counted(moved, d)'
    BY <2>1, <2>2, <2>3 DEF Counted, Covers
  <2>4. ~At(j, "idle")'
    BY <1>4, <2>1 DEF At
  <2>5. \A d \in Saved' \cap WithDividend : (d \in Saved => Counted(job[j], d)) =>
          ~At(j, "idle")' /\ Counted(job[j], d)'
    BY <1>1, <1>3, <1>4, <2>3, <2>4 DEF Counted
  <2>6. QED BY <1>1, <2>5, SavedMove
<1>7. CASE OpenHistory(j)
  <2>1. run.pc = "open" /\ moved.pc = "rows" /\ moved.merged = run.merged
    BY <1>3, <1>4, <1>7, JobFields DEF OpenHistory, At
  <2>2. ASSUME Calm, Level, NEW d \in WithDividend, Counted(run, d)
        PROVE  Covers(run.merged, d)
    <3>1. /\ Ahead(run.merged) /\ history \in Series /\ run.merged \in Series
      BY <1>1, <1>3, <2>1, <2>2, CalmJob DEF CalmRun
    <3>2. PICK y \in Years : y = FiscalYear[d]
      BY <1>5
    <3>3. CASE Covers(history, d)
      <4>1. history[y].from >= d /\ d \in Nat \ {0}
        BY <1>5, <3>2, <3>3 DEF Covers
      <4>2. history[y] # NoPoint
        BY <4>1, NoPointShape
      <4>3. run.merged[y].from >= history[y].from
        BY <3>1, <4>2 DEF Ahead
      <4>4. run.merged[y].from \in Int /\ history[y].from \in Int
        BY <3>1, FilingsAssumption DEF Series, Shapes, Filings
      <4>5. run.merged[y].from >= d
        BY <4>1, <4>3, <4>4
      <4>6. QED BY <3>2, <4>5 DEF Covers
    <3>4. QED BY <2>1, <2>2, <3>3 DEF Counted
  <2>3. ~At(j, "idle")'
    BY <1>4, <2>1 DEF At
  <2>4. ASSUME NEW d, Covers(run.merged, d)
        PROVE  Counted(moved, d)'
    BY <2>1, <2>4 DEF Counted, Covers
  <2>5. Calm /\ Level =>
          \A d \in Saved' \cap WithDividend : (d \in Saved => Counted(job[j], d)) =>
            ~At(j, "idle")' /\ Counted(job[j], d)'
    BY <1>1, <1>3, <1>4, <2>2, <2>3, <2>4 DEF Counted
  <2>6. QED BY <1>1, <1>2, <2>5, SavedMove
<1>8. CASE CloseHistory(j)
  <2>1. run.pc = "rows" /\ moved.pc = "index"
    BY <1>3, <1>4, <1>8, JobFields DEF CloseHistory, At
  <2>2. Calm => history' = run.merged
    BY <1>1, <1>3, <1>8, CalmJob DEF CalmRun, CloseHistory
  <2>3. ASSUME Calm, NEW d, Counted(run, d)
        PROVE  Counted(moved, d)'
    BY <2>1, <2>2, <2>3 DEF Counted, Covers
  <2>4. ~At(j, "idle")'
    BY <1>4, <2>1 DEF At
  <2>5. Calm => \A d \in Saved' \cap WithDividend : (d \in Saved => Counted(job[j], d)) =>
          ~At(j, "idle")' /\ Counted(job[j], d)'
    BY <1>1, <1>3, <1>4, <2>3, <2>4 DEF Counted
  <2>6. QED BY <1>1, <1>2, <2>5, SavedMove
<1>9. QED BY <1>6, <1>7, <1>8

(* The steps that are not of a job at work.                                *)
LEMMA SavedOther ==
  ASSUME HistoryInv, CalmInv, SavedInv,
         \/ \E j \in Jobs, seen \in SUBSET Filings : StartIngest(j, seen)
         \/ StopServer \/ ListVictims \/ UnlinkFile \/ UNCHANGED ingestVars
  PROVE  SavedInv'
<1>1. PICK listings : job \in [Jobs -> JobRecords(listings)]
  BY DEF HistoryInv, IngestTypes
<1> SUFFICES ASSUME Finished', NEW d \in Saved' \cap WithDividend
             PROVE  /\ AllIdle' => Covers(history', d)
                    /\ \A i \in Jobs : ~At(i, "idle")' => Counted(job[i], d)'
  BY DEF SavedInv, Covers
<1>2. strains \subseteq strains' /\ history' = history
  BY DEF StartIngest, StopServer, ListVictims, UnlinkFile, ingestVars, disk
<1>3. Finished /\ Calm
  BY <1>2 DEF Finished, Calm, Level, Without
<1>4. ~ListVictims /\ ~UnlinkFile
  BY <1>3 DEF Finished, Calm, Level, Without, ListVictims, UnlinkFile, CalmInv
<1>5. Saved' = Saved
  BY <1>4 DEF StartIngest, StopServer, ingestVars, disk, Saved
<1>6. /\ AllIdle => Covers(history, d)
      /\ \A j \in Jobs : ~At(j, "idle") => Counted(job[j], d)
  BY <1>3, <1>5 DEF SavedInv
<1>7. CASE job' = job
  <2>1. ASSUME NEW i \in Jobs, ~At(i, "idle")'
        PROVE  Counted(job[i], d)'
    <3>1. PICK run : run = job[i] /\ run = job'[i]
      BY <1>7
    <3>2. Counted(run, d)
      BY <1>6, <1>7, <2>1, <3>1 DEF At
    <3>3. QED BY <1>2, <3>1, <3>2 DEF Counted
  <2>2. QED BY <1>2, <1>6, <1>7, <2>1 DEF AllIdle, At
<1>8. ASSUME NEW j \in Jobs, NEW seen \in SUBSET Filings, StartIngest(j, seen)
      PROVE  /\ AllIdle' => Covers(history', d)
             /\ \A i \in Jobs : ~At(i, "idle")' => Counted(job[i], d)'
  <2>1. AllIdle /\ \A k \in Jobs \ {j} : job'[k] = job[k]
    BY <1>8, StartMoves DEF Finished, Calm, Without
  <2>2. job'[j].pc = "docs"
    BY <1>8, StartMoves
  <2>3. Covers(history', d)
    BY <1>2, <1>6, <2>1
  <2>4. Counted(job[j], d)'
    BY <2>2, <2>3 DEF Counted, Covers
  <2>5. \A k \in Jobs \ {j} : At(k, "idle")'
    BY <2>1 DEF AllIdle, At
  <2>6. QED BY <2>3, <2>4, <2>5
<1>9. CASE StopServer
  <2>1. \A j \in Jobs : At(j, "idle")'
    BY <1>9, IdleJobType DEF StopServer, At
  <2>2. PICK j \in Jobs : ~At(j, "idle")
    BY <1>9 DEF StopServer, AllIdle
  <2>3. LeftUndone(j) \cap {"torn", "unfinished"} = {}
    BY <1>9 DEF StopServer, Finished, Without
  <2>4. job[j].pc # "rows" /\ ~job[j].ingested
    BY <2>3 DEF LeftUndone, At
  <2>5. Covers(history', d)
    BY <1>2, <1>6, <2>2, <2>4 DEF Counted
  <2>6. QED BY <2>1, <2>5
<1>10. QED BY <1>4, <1>7, <1>8, <1>9 DEF ingestVars

(* Nothing is saved at the start.                                          *)
LEMMA InitSavedInv == IngestInit => SavedInv
BY DEF IngestInit, SavedInv, Saved, ToSet

(* No step leaves a saved filing uncounted.                                *)
LEMMA NextSavedInv == HistoryInv /\ CalmInv /\ SavedInv /\ [IngestNext]_ingestVars => SavedInv'
<1> SUFFICES ASSUME HistoryInv, CalmInv, SavedInv, [IngestNext]_ingestVars
             PROVE  SavedInv'
  OBVIOUS
<1>1. ASSUME NEW j \in Jobs, IngestStep(j)
      PROVE  SavedInv'
  BY <1>1, SavedQuiet, SavedWrite DEF IngestStep
<1>2. QED BY <1>1, SavedOther DEF IngestNext

(* With the jobs at rest every saved filing with a dividend has its year   *)
(* in the history, from itself or from a newer filing, for any filings and *)
(* jobs, unless a run has ended early, looked back or overlapped another,  *)
(* or files were pruned.                                                   *)
THEOREM SavedFilingsAreCounted == IngestSpec => []SavedFilingsCounted
<1>1. SavedInv => SavedFilingsCounted
  BY DEF SavedInv, SavedFilingsCounted, Finished, Calm, Level, Without, Covers
<1>2. IngestSpec => []SavedInv
  BY HistoryInvAlways, CalmInvAlways, InitSavedInv, NextSavedInv, PTL DEF IngestSpec
<1>3. QED BY <1>1, <1>2, PTL

=============================================================================
