----------------------------- MODULE MCRequests -----------------------------
(***************************************************************************)
(* Small instances of guarded text generation and of the chats built on    *)
(* it, each run on its own from its own initial states, while the other    *)
(* rests in an initial state.                                              *)
(***************************************************************************)
EXTENDS LlmGuard, Orchestration

CONSTANTS w1, w2, p1, c1

VARIABLE part  \* the part that is run

requestsVars == <<part, vars, orchestrationVars>>

RequestsInit ==
  /\ Init /\ OrchestrationInit
  /\ \/ part = "chat"
     \/ part = "llm" /\ ~keyed

RunLlm ==
  /\ part = "llm" /\ Next
  /\ UNCHANGED <<part, orchestrationVars>>

RunChat ==
  /\ part = "chat" /\ OrchestrationNext
  /\ UNCHANGED <<part, vars>>

RequestsNext == RunLlm \/ RunChat

RequestsSpec ==
  /\ RequestsInit /\ [][RequestsNext]_requestsVars
  /\ Fairness /\ OrchestrationFairness

=============================================================================
