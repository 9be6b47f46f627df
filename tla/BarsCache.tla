----------------------------- MODULE BarsCache -----------------------------
(***************************************************************************)
(* _bars of webapi/virtual_trade.py: the parsed daily_bars.csv, cached by    *)
(* the server under the modification time of the file, in a dictionary     *)
(* that request threads clear, fill and index without a lock, while runs   *)
(* of MarketFiles write the file.                                          *)
(*                                                                         *)
(* A version of the file stands for what is in it between two writes.      *)
(***************************************************************************)
EXTENDS Integers

CONSTANTS
  Readers,                 \* request threads
  MaxWrites, MaxRestarts   \* bounds of the model

ASSUME WritesAssumption == {MaxWrites, MaxRestarts} \subseteq Nat

VARIABLES
  stamp,         \* modification time of daily_bars.csv; 0 before there is one
  version,       \* how often it has been written to
  first,         \* the version with which the present modification time began (history)
  cached,          \* _bars_cache: from keys to the version that was loaded
  reader,
  restarts

readVars == <<stamp, version, first, cached, reader, restarts>>

Empty == <<>>

(* since is a history variable: the first version with the modification    *)
(* time the request saw.                                                   *)
RestingReader == [pc |-> "rest", key |-> 0, since |-> 0, held |-> 0]

ReadInit ==
  /\ stamp = 0 /\ version = 0 /\ first = 0
  /\ cached = Empty
  /\ reader = [a \in Readers |-> RestingReader]
  /\ restarts = 0

(* A run opens or closes the file, which gives it the time of the clock.   *)
(* The clock need not have moved since the write before.                   *)
WriteBars ==
  /\ version < MaxWrites
  /\ version' = version + 1
  /\ \/ stamp' = stamp + 1 /\ first' = version'
     \/ stamp > 0 /\ UNCHANGED <<stamp, first>>
  /\ UNCHANGED <<cached, reader, restarts>>

(* Mutant: the modification time in units of two.                          *)
CoarseKey(time) == time \div 2

CacheKey(time) == time

StatBars(a) ==
  /\ reader[a].pc = "rest"
  /\ reader' = [reader EXCEPT ![a] =
       [pc |-> "look", key |-> CacheKey(stamp), since |-> first, held |-> 0]]
  /\ UNCHANGED <<stamp, version, first, cached, restarts>>

LookUp(a) ==
  /\ reader[a].pc = "look"
  /\ reader' = [reader EXCEPT ![a].pc = IF reader[a].key \in DOMAIN cached THEN "index" ELSE "clear"]
  /\ UNCHANGED <<stamp, version, first, cached, restarts>>

ClearBars(a) ==
  /\ reader[a].pc = "clear"
  /\ cached' = Empty
  /\ reader' = [reader EXCEPT ![a].pc = "load"]
  /\ UNCHANGED <<stamp, version, first, restarts>>

(* The file is read as it is now, which may be after later writes.         *)
LoadBars(a) ==
  /\ reader[a].pc = "load"
  /\ reader' = [reader EXCEPT ![a].pc = "store", ![a].held = version]
  /\ UNCHANGED <<stamp, version, first, cached, restarts>>

StoreBars(a) ==
  /\ reader[a].pc = "store"
  /\ cached' = [k \in DOMAIN cached \cup {reader[a].key} |->
                IF k = reader[a].key THEN reader[a].held ELSE cached[k]]
  /\ reader' = [reader EXCEPT ![a].pc = "index"]
  /\ UNCHANGED <<stamp, version, first, restarts>>

(* The request has its bars or, when another has cleared the dictionary    *)
(* since and not filled it under the same key, a KeyError.                 *)
IndexBars(a) ==
  /\ reader[a].pc = "index"
  /\ reader' = [reader EXCEPT ![a] = RestingReader]
  /\ UNCHANGED <<stamp, version, first, cached, restarts>>

(* The server is stopped and started again.                                *)
RestartServer ==
  /\ restarts < MaxRestarts
  /\ restarts' = restarts + 1
  /\ reader' = [a \in Readers |-> RestingReader]
  /\ cached' = Empty
  /\ UNCHANGED <<stamp, version, first>>

ReadNext ==
  \/ WriteBars
  \/ \E a \in Readers :
       \/ StatBars(a) \/ LookUp(a) \/ ClearBars(a)
       \/ LoadBars(a) \/ StoreBars(a) \/ IndexBars(a)
  \/ RestartServer

ReadSpec == ReadInit /\ [][ReadNext]_readVars

-----------------------------------------------------------------------------
(* What a request is handed is the file as it was at or after the first    *)
(* write with the modification time the request saw, whichever threads     *)
(* have cleared and filled the dictionary since: only a write in the same  *)
(* instant of the clock can stay hidden behind one that was loaded.        *)
BarsNotOutdated ==
  \A a \in Readers :
    reader[a].pc = "index" /\ reader[a].key \in DOMAIN cached =>
      reader[a].since <= cached[reader[a].key]

=============================================================================
