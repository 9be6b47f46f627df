----------------------------- MODULE MCServices -----------------------------
(***************************************************************************)
(* Small instances of four parts that take turns on files and caches, each *)
(* on its own: the data-quality gates of a slice, the runs that rewrite    *)
(* the market files, the server's cache of bars, and the fetching of       *)
(* pages.  The parts that are not run rest in one initial state.           *)
(***************************************************************************)
EXTENDS SliceGates, MarketFiles, BarsCache, Fetch

CONSTANTS t1, t2

(* Two tickers, of which the manifest names one or both, and two kinds of  *)
(* bar: a sound one, and one whose high lies below its close.              *)
MCManifests == {{t1}, {t1, t2}}
MCBars == {[high |-> 2, close |-> 1], [high |-> 1, close |-> 2]}

VARIABLE part    \* the part that is run

servicesVars == <<part, gateVars, marketVars, readVars, fetchVars>>

(* The gates rest with nothing to append.                                  *)
RestingGates ==
  /\ manifest = {t1}
  /\ bars = [t \in Tickers |-> NoBar]
  /\ workflow = NoFile
  /\ GatesInit

ServicesInit ==
  /\ MarketInit /\ ReadInit /\ FetchInit
  /\ \/ part = "gates" /\ GatesInit
     \/ part \in {"market", "reads", "fetch"} /\ RestingGates

RunGates ==
  /\ part = "gates" /\ GatesNext
  /\ UNCHANGED <<part, marketVars, readVars, fetchVars>>

RunMarket ==
  /\ part = "market" /\ MarketNext
  /\ UNCHANGED <<part, gateVars, readVars, fetchVars>>

RunReads ==
  /\ part = "reads" /\ ReadNext
  /\ UNCHANGED <<part, gateVars, marketVars, fetchVars>>

RunFetch ==
  /\ part = "fetch" /\ FetchNext
  /\ UNCHANGED <<part, gateVars, marketVars, readVars>>

ServicesNext == RunGates \/ RunMarket \/ RunReads \/ RunFetch

ServicesSpec == ServicesInit /\ [][ServicesNext]_servicesVars

=============================================================================
