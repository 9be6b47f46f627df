----------------------------- MODULE SliceGates -----------------------------
(***************************************************************************)
(* The data-quality gates of webapi/ that lead a slice of tickers from     *)
(* local candidates to an append preview.  Five scripts, run by hand one   *)
(* at a time, only talk through files:                                     *)
(*                                                                         *)
(*   build_daily_bars_slice             manifest, template -> template,    *)
(*                                      preview, overview, intake; patches *)
(*                                      workflow and review                *)
(*   build_daily_bars_slice_readiness_backlog        intake -> backlog     *)
(*   build_daily_bars_slice_local_evidence     template, bars -> queue     *)
(*   build_daily_bars_slice_review_gate              queue -> gate         *)
(*   build_data_quality_sprint_review   workflow, overview -> review       *)
(*                                                                         *)
(* Between them a person reviews rows of the queue, copies approved rows   *)
(* into the template and types rows into it.  Every file is written in     *)
(* place: a script that is stopped leaves the files before the one it was  *)
(* writing whole and that one cut.                                         *)
(***************************************************************************)
EXTENDS Integers, FiniteSets, Folds, TLC

CONSTANTS
  Tickers,
  Manifests,     \* what the first slice_size rows of the manifest may name
  Bars,          \* prices of a bar, [high, close]; 0 is an empty field
  MaxBuilds,     \* bound of the model: scripts run
  MaxStops,      \* bound of the model: of them stopped
  MaxEdits       \* bound of the model: changes by people and other tools

NoBar == [high |-> 0, close |-> 0]

ASSUME ManifestsAssumption == Manifests \subseteq (SUBSET Tickers) \ {{}}
ASSUME BarsAssumption      == Bars \subseteq [high: Nat, close: Nat] \ {NoBar}
ASSUME SliceBounds         == {MaxBuilds, MaxStops, MaxEdits} \subseteq Nat

(* A row stands for its prices and for its source_url and checked_at,      *)
(* taken together: source is the bar the page behind them shows, NoBar     *)
(* when they are empty.                                                    *)
Blank == [ohlc |-> NoBar, source |-> NoBar]

VARIABLES
  manifest,      \* tickers of the slice
  bars,          \* daily_bars.csv: the latest bar of each ticker, or NoBar
  template,      \* ..._input_template.csv: ticker -> row
  queue,         \* ..._local_evidence_review_queue.csv: ticker -> row, approved
  preview,       \* ..._append_preview.csv: ticker -> row
  overview,      \* ..._slice001.json: its summary
  intake,        \* ..._intake_validation.json: ticker -> issues
  workflow,      \* ..._workflow.json: active_slice_blockers
  backlog,       \* ..._readiness_backlog.json
  gate,          \* ..._review_gate.json: copy_to_input_template_ready
  review,        \* data_quality_sprint_review.json
  builds, stops, \* scripts run, and of them stopped
  edits,         \* changes by others
  fresh          \* artifacts that no later slice build outdated (history)

inputVars == <<manifest, bars, template, queue>>
sliceVars == <<preview, overview, intake, workflow>>
laterVars == <<backlog, gate, review>>
gateVars  == <<manifest, bars, template, queue, preview, overview, intake,
               workflow, backlog, gate, review, builds, stops, edits, fresh>>

NoFile == [file |-> "none"]
Torn   == [file |-> "torn"]    \* not JSON: reading it raises
Whole(content) == [k \in {"file"} \cup DOMAIN content |->
                     IF k = "file" THEN "whole" ELSE content[k]]
IsWhole(f)     == f.file = "whole"
(* _read_json of the sprint review takes a missing file for an empty one.  *)
Readable(f)    == f.file # "torn"

-----------------------------------------------------------------------------
(* Issues.                                                                 *)

Priced == {"high", "close"}

Missing(row) == {f \in Priced : row.ohlc[f] = 0}
                  \cup (IF row.source = NoBar THEN {"source"} ELSE {})

(* _issues of the intake and the same checks in _row_issues of the gate.   *)
Issues(row) ==
  {[kind |-> "missing", field |-> f] : f \in Missing(row)} \cup
  (IF Priced \cap Missing(row) = {} /\ row.ohlc.high < row.ohlc.close
     THEN {[kind |-> "below_price", field |-> "high"]} ELSE {})

GateIssues(row) ==
  Issues([ohlc |-> row.ohlc, source |-> row.source])
    \cup (IF row.approved THEN {} ELSE {[kind |-> "copy", field |-> "can_copy"]})

(* _field_from_issue: the prefix is cut off first, so that the name of     *)
(* invalid_high_below_price is never reached.                              *)
FieldFromIssue(issue) ==
  IF issue.kind = "below_price" THEN "high_below_price" ELSE issue.field

Count(issues) ==
  MapThenFoldSet(+, 0, LAMBDA t : Cardinality(issues[t]),
                 LAMBDA S : CHOOSE t \in S : TRUE, DOMAIN issues)

ReadyRows(issues) == {t \in DOMAIN issues : issues[t] = {}}

AppendReady(issues) == Count(issues) = 0 /\ ReadyRows(issues) = DOMAIN issues

-----------------------------------------------------------------------------
GatesInit ==
  /\ manifest \in Manifests
  /\ bars \in [Tickers -> Bars \cup {NoBar}]
  /\ template = <<>> /\ queue = <<>> /\ preview = <<>>
  /\ overview = NoFile /\ intake = NoFile
  /\ workflow \in {NoFile, Whole([blockers |-> -1])}
  /\ backlog = NoFile /\ gate = NoFile /\ review = NoFile
  /\ builds = 0 /\ stops = 0 /\ edits = 0
  /\ fresh = {}

(* A script that is stopped has written the files before position stop of  *)
(* the order it writes them in; none is stopped at Last.                   *)
Build(stop, last) ==
  /\ builds < MaxBuilds
  /\ builds' = builds + 1
  /\ stops' = stops + (IF stop < last THEN 1 ELSE 0)
  /\ stops' <= MaxStops
  /\ UNCHANGED <<manifest, bars, edits>>

Written(position, stop, new, torn, old) ==
  IF position < stop THEN new ELSE IF position = stop THEN torn ELSE old

(* A table cut in writing keeps its first rows.                            *)
CutTable(rows, kept) == [t \in DOMAIN rows \cap kept |-> rows[t]]

(* Mutant: rows that are not complete are started again.                   *)
InputRowsComplete ==
  [t \in manifest |->
     IF t \in DOMAIN template /\ Missing(template[t]) = {} THEN template[t] ELSE Blank]

(* _input_rows: the rows typed so far, looked up by ticker.                *)
InputRows == [t \in manifest |-> IF t \in DOMAIN template THEN template[t] ELSE Blank]

(* Mutant: a counter that is there already is not patched.                 *)
PatchedOnce(f, n) ==
  IF f = NoFile \/ f.blockers >= 0 THEN f ELSE [f EXCEPT !.blockers = n]

(* _update_context patches the counters of two summaries.                  *)
Patched(f, n) == IF f = NoFile THEN f ELSE [f EXCEPT !.blockers = n]

(* build_daily_bars_slice.  It raises at a summary that it cannot parse,   *)
(* after its own files are written.                                        *)
BuildSlice(stop, kept) ==
  LET rows   == InputRows
      issues == [t \in manifest |-> Issues(rows[t])]
      lines  == [t \in ReadyRows(issues) |-> rows[t]]
      n      == Count(issues)
      last   == 7
  IN  /\ stop \in 1 .. last
      /\ stop > 2 => kept = {}
      /\ ~Readable(workflow) => stop <= 5
      /\ ~Readable(review) => stop <= 6
      /\ Build(stop, last)
      /\ template' = Written(1, stop, rows, CutTable(rows, kept), template)
      /\ preview'  = Written(2, stop, lines, CutTable(lines, kept), preview)
      /\ overview' = Written(3, stop, Whole([blockers |-> n, append |-> AppendReady(issues)]),
                             Torn, overview)
      /\ intake'   = Written(4, stop, Whole([issues |-> issues]), Torn, intake)
      /\ workflow' = IF workflow = NoFile \/ ~Readable(workflow) THEN workflow
                     ELSE Written(5, stop, Patched(workflow, n), Torn, workflow)
      /\ review'   = IF review = NoFile \/ ~Readable(review) THEN review
                     ELSE Written(6, stop, Patched(review, n), Torn, review)
      /\ fresh' = IF workflow = NoFile THEN {} ELSE {"workflow"}
      /\ UNCHANGED <<queue, backlog, gate>>

(* build_daily_bars_slice_readiness_backlog, which raises without intake.  *)
FieldReady(issues) ==
  {f \in Priced \cup {"source"} :
     /\ \A t \in DOMAIN issues : [kind |-> "missing", field |-> f] \notin issues[t]
     /\ \A t \in DOMAIN issues : \A i \in issues[t] : FieldFromIssue(i) # f}

BuildBacklog(stop) ==
  /\ IsWhole(intake)
  /\ stop \in 1 .. 2
  /\ Build(stop, 2)
  /\ LET issues == intake.issues
         new    == [blockers |-> Count(issues), append |-> AppendReady(issues),
                    fields |-> FieldReady(issues)]
     IN  backlog' = Written(1, stop, Whole(new), Torn, backlog)
  /\ fresh' = fresh \cup {"backlog"}
  /\ UNCHANGED <<template, queue, sliceVars, gate, review>>

(* build_daily_bars_slice_local_evidence: a new queue from the bars.       *)
Candidate(t) == bars[t].high # 0 /\ bars[t].close # 0

(* Mutant: what was reviewed is carried over to the new queue.             *)
ReviewQueueCarried ==
  [t \in DOMAIN template |->
     [ohlc |-> IF Candidate(t) THEN bars[t] ELSE NoBar,
      source |-> IF t \in DOMAIN queue THEN queue[t].source ELSE NoBar,
      approved |-> FALSE]]

ReviewQueue ==
  [t \in DOMAIN template |->
     [ohlc |-> IF Candidate(t) THEN bars[t] ELSE NoBar,
      source |-> NoBar, approved |-> FALSE]]

BuildEvidence(stop, kept) ==
  /\ Readable(backlog)
  /\ stop \in 1 .. 2
  /\ stop > 1 => kept = {}
  /\ Build(stop, 2)
  /\ queue' = Written(1, stop, ReviewQueue, CutTable(ReviewQueue, kept), queue)
  /\ UNCHANGED <<template, sliceVars, laterVars, fresh>>

(* build_daily_bars_slice_review_gate.                                     *)
BuildGate(stop) ==
  /\ stop \in 1 .. 2
  /\ Build(stop, 2)
  /\ LET ready == queue # <<>> /\ \A t \in DOMAIN queue : GateIssues(queue[t]) = {}
     IN  gate' = Written(1, stop, Whole([ready |-> ready]), Torn, gate)
  /\ UNCHANGED <<template, queue, sliceVars, backlog, review, fresh>>

(* build_data_quality_sprint_review: the counter of the workflow file      *)
(* first, then that of the overview.                                       *)
ActiveBlockers ==
  CASE IsWhole(workflow) /\ workflow.blockers >= 0 -> workflow.blockers
    [] IsWhole(overview)                           -> overview.blockers
    [] OTHER                                       -> 0

BuildReview(stop) ==
  /\ Readable(workflow) /\ Readable(overview) /\ Readable(intake)
  /\ stop \in 1 .. 2
  /\ Build(stop, 2)
  /\ LET new == [blockers |-> ActiveBlockers, complete |-> ActiveBlockers # 0]
     IN  review' = Written(1, stop, Whole(new), Torn, review)
  /\ fresh' = fresh \cup {"review"}
  /\ UNCHANGED <<template, queue, sliceVars, backlog, gate>>

-----------------------------------------------------------------------------
(* People and tools outside the repository.                                *)

Edit ==
  /\ edits < MaxEdits
  /\ edits' = edits + 1
  /\ UNCHANGED <<preview, overview, intake, laterVars, builds, stops>>

(* A person looks up the prices of a row and notes the page.               *)
ReviewRow(t) ==
  /\ Edit
  /\ t \in DOMAIN queue /\ queue[t].ohlc # NoBar
  /\ \E ok \in BOOLEAN :
       queue' = [queue EXCEPT ![t].source = queue[t].ohlc, ![t].approved = ok]
  /\ UNCHANGED <<manifest, bars, template, workflow, fresh>>

(* The gate is ready: its rows go into the template.                       *)
CopyRows ==
  /\ Edit
  /\ IsWhole(gate) /\ gate.ready
  /\ template' = [t \in DOMAIN template |->
                    IF t \in DOMAIN queue
                      THEN [ohlc |-> queue[t].ohlc, source |-> queue[t].source]
                      ELSE template[t]]
  /\ UNCHANGED <<manifest, bars, queue, workflow, fresh>>

(* A row typed into the template, with or without its source.              *)
TypeRow(t, bar) ==
  /\ Edit
  /\ t \in DOMAIN template
  /\ \E source \in {NoBar, bar} :
       template' = [template EXCEPT ![t] = [ohlc |-> bar, source |-> source]]
  /\ UNCHANGED <<manifest, bars, queue, workflow, fresh>>

NewBars(t, bar) ==
  /\ Edit
  /\ bars' = [bars EXCEPT ![t] = bar]
  /\ UNCHANGED <<manifest, template, queue, workflow, fresh>>

NewManifest ==
  /\ Edit
  /\ manifest' \in Manifests
  /\ UNCHANGED <<bars, template, queue, workflow, fresh>>

(* The batch workflow is built again, without the slice.                   *)
NewWorkflow ==
  /\ Edit
  /\ workflow' = Whole([blockers |-> -1])
  /\ fresh' = fresh \ {"workflow"}
  /\ UNCHANGED inputVars

GatesNext ==
  \/ \E stop \in 1 .. 7, kept \in SUBSET Tickers : BuildSlice(stop, kept)
  \/ \E stop \in 1 .. 2 : BuildBacklog(stop)
  \/ \E stop \in 1 .. 2, kept \in SUBSET Tickers : BuildEvidence(stop, kept)
  \/ \E stop \in 1 .. 2 : BuildGate(stop)
  \/ \E stop \in 1 .. 2 : BuildReview(stop)
  \/ \E t \in Tickers : ReviewRow(t)
  \/ CopyRows
  \/ \E t \in Tickers, bar \in Bars : TypeRow(t, bar)
  \/ \E t \in Tickers, bar \in Bars : NewBars(t, bar)
  \/ NewManifest
  \/ NewWorkflow

GatesSpec == GatesInit /\ [][GatesNext]_gateVars

-----------------------------------------------------------------------------
(* no_write_without_review and source_evidence_required of _contract: a    *)
(* source stands beside the prices it was reviewed for and no others, in   *)
(* every file it is carried through, whatever is rebuilt, refreshed or     *)
(* stopped between; and what is offered for appending has one.             *)
EvidenceFitsPrices ==
  /\ \A t \in DOMAIN queue    : queue[t].source \in {NoBar, queue[t].ohlc}
  /\ \A t \in DOMAIN template : template[t].source \in {NoBar, template[t].ohlc}
  /\ \A t \in DOMAIN preview  : preview[t].source = preview[t].ohlc
                                  /\ preview[t].ohlc.high >= preview[t].ohlc.close

(* The template is at once what people type into and what the intake       *)
(* writes: a script that runs to its end takes no row of a ticker of the   *)
(* slice out of it and changes none.                                       *)
InputKept ==
  [][ builds' # builds /\ stops' = 0
        => \A t \in DOMAIN template \cap manifest :
             t \in DOMAIN template' /\ template'[t] = template[t] ]_gateVars

(* The five summaries count the same blockers in five ways: by rows, by    *)
(* issue strings, from a patched counter.  As long as no script was        *)
(* stopped and none of them is older than the last intake, they agree, and *)
(* so do the two verdicts on whether the slice can be appended: a slice    *)
(* that can leaves no field blocked.                                       *)
SummariesAgreeUnlessCut ==
  stops = 0 /\ IsWhole(intake) =>
    LET n == Count(intake.issues)
    IN  /\ overview.blockers = n
        /\ "workflow" \in fresh => workflow.blockers = n
        /\ "backlog" \in fresh =>
             /\ backlog.blockers = n
             /\ backlog.append = overview.append
             /\ backlog.append => backlog.fields = Priced \cup {"source"}
        /\ review # NoFile => review.blockers = n
        /\ "review" \in fresh => (review.complete <=> n # 0)

=============================================================================
