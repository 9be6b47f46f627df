------------------------------ MODULE MCBooks ------------------------------
(***************************************************************************)
(* Small instances of five parts, each run on its own from its own initial *)
(* states: the books of Ledger, the fill of an order, the allocation of a  *)
(* budget, the chunker, and the collection of quotes.  The parts that are  *)
(* not run rest in one initial state.                                      *)
(***************************************************************************)
EXTENDS Ledger, MarketOnOpen, Allocation, Chunker, Collector

CONSTANTS
  Drift,       \* bound of the model: the profit or loss followed, in yen
  MaxLength    \* bound of the model: the length of a text

VARIABLE part  \* the part that is run

booksVars == <<part, vars, fillVars, allocVars, chunkerVars, collectorVars>>

(* Prices on both sides of the bounds of the tick and limit tables.        *)
MCQuotes ==
  {2, 7} \cup UNION {{b - 1, b, b + 3} : b \in
    {30, 100, 200, 500, 700, 1000, 1500, 2000, 3000, 5000, 7000, 10000, 20000,
     30000, 50000, 100000, 150000, 300000, 500000}}

(* A dividend of which the second holding keeps twice as much.             *)
MCRates == {<<1, 2, 1>>}

(* What _normalize_text returns: no space before a newline or at the end,  *)
(* no blank at either end of the text.                                     *)
Normalized(s) ==
  /\ s # <<>> => s[1] = Letter /\ s[Len(s)] = Letter
  /\ \A i \in 1 .. Len(s) - 1 : ~(s[i] = Space /\ s[i + 1] = Newline)

MCTexts == {s \in UNION {[1 .. n -> Characters] : n \in 0 .. MaxLength} : Normalized(s)}

(* The profits of a budget are followed while they stay within Drift, and  *)
(* positions within three lots; the other parts end by themselves.         *)
Small ==
  \A a \in Accounts :
    /\ books[a].pnl \in -Drift .. Drift
    /\ \A t \in Tickers : books[a].shares[t] <= 3 * Lot

NoText  == text = <<>> /\ ChunkerInit
AnOrder ==
  /\ order = [open |-> 2 * Yen, prevClose |-> 2 * Yen, side |-> "buy", slip |-> 0]
  /\ fill = Pending

BooksInit ==
  /\ Init /\ AllocInit /\ CollectorInit
  /\ \/ part \in {"ledger", "allocation", "collector"} /\ NoText /\ AnOrder
     \/ part = "fill" /\ NoText /\ FillInit
     \/ part = "chunker" /\ AnOrder /\ ChunkerInit

RunLedger ==
  /\ part = "ledger" /\ Next
  /\ UNCHANGED <<part, fillVars, allocVars, chunkerVars, collectorVars>>

RunFill ==
  /\ part = "fill" /\ Fill
  /\ UNCHANGED <<part, vars, allocVars, chunkerVars, collectorVars>>

RunAllocation ==
  /\ part = "allocation" /\ AllocNext
  /\ UNCHANGED <<part, vars, fillVars, chunkerVars, collectorVars>>

RunChunker ==
  /\ part = "chunker" /\ ChunkerNext
  /\ UNCHANGED <<part, vars, fillVars, allocVars, collectorVars>>

RunCollector ==
  /\ part = "collector" /\ CollectorNext
  /\ UNCHANGED <<part, vars, fillVars, allocVars, chunkerVars>>

BooksNext == RunLedger \/ RunFill \/ RunAllocation \/ RunChunker \/ RunCollector

BooksSpec ==
  /\ BooksInit /\ [][BooksNext]_booksVars
  /\ WF_chunkerVars(RunChunker) /\ CollectorFairness

=============================================================================
