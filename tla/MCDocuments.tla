---------------------------- MODULE MCDocuments ----------------------------
(***************************************************************************)
(* Small instances of three parts that jobs and requests run over files,   *)
(* each on its own: the ingest of EDINET filings, the document index, and  *)
(* the saved simulations.  The parts that are not run rest in their        *)
(* initial state.                                                          *)
(***************************************************************************)
EXTENDS EdinetIngest, RagIndex, Simulations, TLC

(* Three filings of two fiscal years: the last is of the first year again, *)
(* at a later date than the first filing, and has no table.                *)
MCPeriodEnd  == <<1, 3, 2>>
MCFiscalYear == <<1, 2, 1>>
MCTable      == <<{1}, {1, 2}, {}>>

(* A directory with a filing (1), inside one that also holds a note        *)
(* without front matter (2) and a report (3).                              *)
MCRoots == {{1}, {1, 2, 3}}

MCSymmetry == Permutations(Jobs) \cup Permutations(Indexers)

(* A third ingest is followed only where none has overlapped another: no   *)
(* property speaks of the ingests that come after an overlap.              *)
Small == runs < MaxRuns \/ "overlap" \notin strains

VARIABLE part    \* the part that is run

documentsVars == <<part, ingestVars, ragVars, simVars>>

DocumentsInit ==
  /\ part \in {"edinet", "rag", "simulations"}
  /\ IngestInit /\ RagInit /\ SimInit

RunEdinet ==
  /\ part = "edinet" /\ IngestNext
  /\ UNCHANGED <<part, ragVars, simVars>>

RunRag ==
  /\ part = "rag" /\ RagNext
  /\ UNCHANGED <<part, ingestVars, simVars>>

RunSimulations ==
  /\ part = "simulations" /\ SimNext
  /\ UNCHANGED <<part, ingestVars, ragVars>>

DocumentsNext == RunEdinet \/ RunRag \/ RunSimulations

DocumentsSpec == DocumentsInit /\ [][DocumentsNext]_documentsVars

=============================================================================
