---------------------------- MODULE Orchestration ----------------------------
(***************************************************************************)
(* A chat over the indexed documents: the handlers _orchestrate and        *)
(* _runtime_real_api_set of webapi/service.py, run_orchestrate_answer of   *)
(* cli.py and the pipeline of orchestration/: drafts, a critique of them,  *)
(* and a synthesis of both, each a guarded call of LlmService.generate.    *)
(*                                                                         *)
(* Offline, a template stands in for the provider.  Its service bears the  *)
(* provider's label, model and cache file, so the two share the rows of    *)
(* the cache.  A guarded call is one step here: what happens inside it is  *)
(* the subject of LlmGuard.                                                *)
(***************************************************************************)
EXTENDS SequencesExt, Functions, TLC

CONSTANTS
  Clients,      \* threads, each with a chat about the same question
  Drafts,       \* n_drafts
  EnvAllows,    \* INVESTMENT_ASSISTANT_WEB_REAL_API is set
  MaxChats, MaxSwitches, MaxExpiries    \* bounds of the model

ASSUME OrchestrationAssumption ==
  Drafts \in Nat \ {0} /\ EnvAllows \in BOOLEAN /\ MaxChats \in Nat

VARIABLES
  keyed,      \* GEMINI_API_KEY is set in the process
  allowed,    \* _REAL_API_RUNTIME_ENABLED
  texts,      \* llm_cache: from prompts to texts, where there is a row
  chat,       \* where each client's chat is, and what it has made so far
  chats, switches, expiries    \* how many of each so far

orchestrationVars == <<keyed, allowed, texts, chat, chats, switches, expiries>>

-----------------------------------------------------------------------------
(* Texts.  By tells who wrote one; an echo repeats an internal prompt.     *)

Blank   == [by |-> "nobody", echo |-> FALSE]
Written == [by |-> "provider", echo |-> FALSE]
Echo    == [by |-> "provider", echo |-> TRUE]
Offline == [by |-> "template", echo |-> FALSE]
Skipped == [by |-> "skip", echo |-> FALSE]       \* no document was found
Local   == [by |-> "fallback", echo |-> FALSE]   \* _local_final_answer

(* What _clean_user_answer leaves of a text: nothing of an echo.           *)
Cleaned(text) == IF text.echo THEN Blank ELSE text

NonBlank(list) == SelectSeq(list, LAMBDA text : text # Blank)

(* The prompts bind what they ask about.                                   *)
DraftPrompt(i) == <<"draft", i>>
CritiquePrompt(drafts) == <<"critique", drafts>>
SynthesisPrompt(drafts, critique) == <<"synthesis", drafts, critique>>

Done(answer) == [at |-> "done", answer |-> answer]

OrchestrationInit ==
  /\ keyed \in BOOLEAN
  /\ allowed = FALSE
  /\ texts = <<>>
  /\ chat = [c \in Clients |-> Done(Skipped)]
  /\ chats = 0
  /\ switches = 0
  /\ expiries = 0

-----------------------------------------------------------------------------
(* The switch: it stays off without a key.                                 *)
SetRuntime(on, ownKey) ==
  /\ switches < MaxSwitches
  /\ switches' = switches + 1
  /\ keyed' = (keyed \/ ownKey)
  /\ allowed' = (on /\ keyed')
  /\ UNCHANGED <<texts, chat, chats, expiries>>

(* _real_api_decision.                                                     *)
Granted(requested, ownKey) ==
  requested /\ (keyed \/ ownKey) /\ (ownKey \/ EnvAllows \/ allowed)

(* A chat begins; a key it bears becomes the process's when the real       *)
(* provider is asked for.  Without a document the pipeline is skipped.     *)
Chat(c, requested, ownKey, critique, found) ==
  /\ chat[c].at = "done"
  /\ chats < MaxChats
  /\ chats' = chats + 1
  /\ keyed' = (keyed \/ (requested /\ ownKey))
  /\ chat' = [chat EXCEPT ![c] =
       [at |-> IF found THEN "draft" ELSE "finalize",
        real |-> found /\ Granted(requested, ownKey), critic |-> critique,
        drafts |-> <<>>, critique |-> Blank, raw |-> IF found THEN Blank ELSE Skipped]]
  /\ UNCHANGED <<allowed, texts, switches, expiries>>

(* The guarded call of a service that make_service builds: a row of the    *)
(* cache is served whoever wrote it.  Otherwise the template writes a      *)
(* text, or the provider does, or a fallback leaves it blank, which is     *)
(* not stored.                                                             *)
Generated(c, prompt, text) ==
  IF prompt \in DOMAIN texts
    THEN text = texts[prompt] /\ UNCHANGED texts
    ELSE /\ text \in IF chat[c].real THEN {Written, Echo, Blank} ELSE {Offline}
         /\ texts' = IF text = Blank THEN texts ELSE (prompt :> text) @@ texts

Draft(c) ==
  /\ chat[c].at = "draft"
  /\ Len(chat[c].drafts) < Drafts
  /\ \E text \in {Written, Echo, Offline, Blank} :
       /\ Generated(c, DraftPrompt(Len(chat[c].drafts) + 1), text)
       /\ chat' = [chat EXCEPT ![c].drafts = Append(@, text)]
  /\ UNCHANGED <<keyed, allowed, chats, switches, expiries>>

(* run, once the drafts are there: without a usable one there is no answer.*)
Drafted(c) ==
  /\ chat[c].at = "draft"
  /\ Len(chat[c].drafts) = Drafts
  /\ chat' = [chat EXCEPT ![c].at =
       IF NonBlank(chat[c].drafts) = <<>> THEN "finalize"
       ELSE IF chat[c].critic THEN "critique" ELSE "synthesis"]
  /\ UNCHANGED <<keyed, allowed, texts, chats, switches, expiries>>

Critique(c) ==
  /\ chat[c].at = "critique"
  /\ \E text \in {Written, Echo, Offline, Blank} :
       /\ Generated(c, CritiquePrompt(NonBlank(chat[c].drafts)), text)
       /\ chat' = [chat EXCEPT ![c].at = "synthesis", ![c].critique = text]
  /\ UNCHANGED <<keyed, allowed, chats, switches, expiries>>

(* Without a synthesis the answer is the first draft that has a text.      *)
Synthesize(c) ==
  /\ chat[c].at = "synthesis"
  /\ LET drafts == NonBlank(chat[c].drafts)
     IN  \E text \in {Written, Echo, Offline, Blank} :
           /\ Generated(c, SynthesisPrompt(drafts, chat[c].critique), text)
           /\ chat' = [chat EXCEPT ![c].at = "finalize",
                                   ![c].raw = IF text = Blank THEN Head(drafts) ELSE text]
  /\ UNCHANGED <<keyed, allowed, chats, switches, expiries>>

(* Mutant: what cleaning leaves is the answer, even when it is nothing.    *)
FinalizeCleaned(c) ==
  /\ chat[c].at = "finalize"
  /\ chat' = [chat EXCEPT ![c] = Done(Cleaned(chat[c].raw))]
  /\ UNCHANGED <<keyed, allowed, texts, chats, switches, expiries>>

(* _finalize_answer.  When nothing is left of the answer, a real chat asks *)
(* the provider once more, which the budget refuses: the task              *)
(* direct_final_answer is not among the allowed_tasks of gemini.yaml.      *)
Finalize(c) ==
  /\ chat[c].at = "finalize"
  /\ LET answer == Cleaned(chat[c].raw)
     IN  chat' = [chat EXCEPT ![c] = Done(IF answer = Blank THEN Local ELSE answer)]
  /\ UNCHANGED <<keyed, allowed, texts, chats, switches, expiries>>

(* A row reaches the end of its time, and is served no more.               *)
Expire(prompt) ==
  /\ expiries < MaxExpiries
  /\ expiries' = expiries + 1
  /\ texts' = Restrict(texts, DOMAIN texts \ {prompt})
  /\ UNCHANGED <<keyed, allowed, chat, chats, switches>>

ChatStep(c) == Draft(c) \/ Drafted(c) \/ Critique(c) \/ Synthesize(c) \/ Finalize(c)

OrchestrationNext ==
  \/ \E on, ownKey \in BOOLEAN : SetRuntime(on, ownKey)
  \/ \E c \in Clients :
       \/ ChatStep(c)
       \/ \E requested, ownKey, critique, found \in BOOLEAN :
            Chat(c, requested, ownKey, critique, found)
  \/ \E prompt \in DOMAIN texts : Expire(prompt)

OrchestrationFairness == \A c \in Clients : WF_orchestrationVars(ChatStep(c))

OrchestrationSpec ==
  OrchestrationInit /\ [][OrchestrationNext]_orchestrationVars /\ OrchestrationFairness

-----------------------------------------------------------------------------
(* Properties.                                                             *)

(* Every chat ends, with an answer that is not blank: whatever the budget  *)
(* refuses and the provider leaves out, and although an echo of the        *)
(* prompts is served from the cache to every later chat.                   *)
EveryChatIsAnswered ==
  \A c \in Clients : chat[c].at # "done" ~> chat[c].at = "done" /\ chat[c].answer # Blank

(* What the comment in LlmService.generate says of the label in the key: a *)
(* dry-run answer is never served to a caller who asked for the real       *)
(* provider.  The services the orchestrator builds offline do not bear the *)
(* label that keeps them apart.                                            *)
RealChatsAreReal ==
  \A c \in Clients :
    chat[c].at # "done" /\ chat[c].real =>
      /\ \A i \in DOMAIN chat[c].drafts : chat[c].drafts[i] # Offline
      /\ chat[c].critique # Offline
      /\ chat[c].raw # Offline

=============================================================================
