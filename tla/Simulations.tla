---------------------------- MODULE Simulations ----------------------------
(***************************************************************************)
(* The saved simulations of webapi/service.py: one JSON list in one file,  *)
(* which the threads of the server read, change and write back.  There is  *)
(* no lock, and write_text empties the file before it fills it.            *)
(***************************************************************************)
EXTENDS FiniteSets, Naturals

CONSTANTS
  Records,       \* the simulations that are ever saved, each with its own id
  Clients,       \* threads that serve a request
  MaxCuts        \* bound of the model: stops of the process

ASSUME CutsAssumption == MaxCuts \in Nat

VARIABLES
  file,          \* local_docs/simulations/saved.json
  client,
  cuts,
  answered,      \* saves that were answered, deletions that were taken out (history)
  used,          \* ids given out (history)
  mixed,         \* requests that write have overlapped (history)
  cut            \* the process has stopped while the file was being written (history)

simVars == <<file, client, cuts, answered, used, mixed, cut>>

Absent    == [is |-> "absent", records |-> {}]
Garbled   == [is |-> "garbled", records |-> {}]      \* json.loads raises
List(set) == [is |-> "list", records |-> set]

Resting == [pc |-> "rest", list |-> {}, record |-> {}, crossed |-> FALSE]
Rests(c) == client[c].pc = "rest"

SimInit ==
  /\ file = Absent
  /\ client = [c \in Clients |-> Resting]
  /\ cuts = 0
  /\ answered = {} /\ used = {}
  /\ mixed = FALSE /\ cut = FALSE

(* Mutant: a save starts from an empty list.                               *)
ExistingNone == {}

(* What a save starts from: a list that cannot be read is an empty one.    *)
Existing == file.records

Begin(c, list, record) ==
  /\ client' = [client EXCEPT ![c] = [pc |-> "open", list |-> list, record |-> {record},
                                      crossed |-> FALSE]]
  /\ mixed' = (mixed \/ \E d \in Clients \ {c} : ~Rests(d))

(* _save_simulation up to its write.                                       *)
Save(c, r) ==
  /\ Rests(c)
  /\ r \notin used
  /\ Begin(c, Existing \cup {r}, r)
  /\ used' = used \cup {r}
  /\ UNCHANGED <<file, cuts, answered, cut>>

(* _delete_simulation raises at a list it cannot read, and at an unknown   *)
(* id.                                                                     *)
Delete(c, r) ==
  /\ Rests(c)
  /\ file.is = "list" /\ r \in file.records
  /\ Begin(c, file.records \ {r}, r)
  /\ UNCHANGED <<file, cuts, answered, used, cut>>

Open(c) ==
  /\ client[c].pc = "open"
  /\ file' = Garbled
  /\ client' = [client EXCEPT ![c].pc = "write", ![c].crossed = FALSE]
  /\ UNCHANGED <<cuts, answered, used, mixed, cut>>

(* The list is written and the request answered.  When another thread has  *)
(* filled the file since this one emptied it, the end of that thread's     *)
(* list may stand behind this one's.                                       *)
Close(c) ==
  /\ client[c].pc = "write"
  /\ \/ file' = List(client[c].list)
     \/ client[c].crossed /\ file' = Garbled
  /\ answered' = (answered \ client[c].record) \cup (client[c].list \cap client[c].record)
  /\ client' = [d \in Clients |->
                  IF d = c THEN Resting
                  ELSE [client[d] EXCEPT !.crossed = @ \/ client[d].pc = "write"]]
  /\ UNCHANGED <<cuts, used, mixed, cut>>

StopProcess ==
  /\ cuts < MaxCuts
  /\ cuts' = cuts + 1
  /\ cut' = (cut \/ \E c \in Clients : client[c].pc = "write")
  /\ client' = [c \in Clients |-> Resting]
  /\ UNCHANGED <<file, answered, used, mixed>>

SimNext ==
  \/ \E c \in Clients, r \in Records : Save(c, r) \/ Delete(c, r)
  \/ \E c \in Clients : Open(c) \/ Close(c)
  \/ StopProcess

SimSpec == SimInit /\ [][SimNext]_simVars

-----------------------------------------------------------------------------
(* _save_simulation appends to the file and _delete_simulation takes one   *)
(* record out of it: with the threads at rest the file holds the           *)
(* simulations whose save was answered and that were not deleted since, no *)
(* more and no fewer, also after requests that failed or never got to      *)
(* their write.  It does so unless two writes have overlapped or the       *)
(* process was stopped inside one; after either, a save may replace the    *)
(* whole list.  A save that is stopped before it writes leaves nothing.    *)
SimulationsKept ==
  ~mixed /\ ~cut /\ (\A c \in Clients : Rests(c)) => file.records = answered

=============================================================================
