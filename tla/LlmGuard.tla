------------------------------ MODULE LlmGuard ------------------------------
(***************************************************************************)
(* The guarded text generation of llm/service.py: LlmService.generate and  *)
(* GroundedLlmService.generate_grounded, with the response cache of        *)
(* llm/cache.py and the request budget of llm/budget_guard.py.             *)
(*                                                                         *)
(* Every request thread and job builds a service of its own, and all of    *)
(* them share one cache file and one usage file.  There is no lock: a      *)
(* request looks up the cache, checks the budget, calls the provider,      *)
(* stores the answer and counts the call in five separate transactions,    *)
(* and any number of requests may be between any two of them.              *)
(***************************************************************************)
EXTENDS Integers, FiniteSets, Functions

CONSTANTS
  Workers,                  \* threads that call generate
  Services,                 \* the services they use
  Prompts,                  \* a task together with its prompt
  Blocked,                  \* prompts whose task the budget does not allow
  DayLength, MonthLength,   \* in ticks of the clock
  TTL,                      \* how long a cached answer is served, in ticks
  HardDaily, HardMonthly,   \* int(limit * hard_stop_threshold_ratio)
  CooldownLength,           \* cooldown_minutes, in ticks
  MaxAttempts,              \* max_retries + 1
  MaxTime, MaxAsks, MaxFailures   \* bounds of the model; failures: crashes and faults

(* The services that are built: the real client, for the chat or grounded  *)
(* on the Web; the templates that stand in for them in run_rag_answer and  *)
(* run_web_answer, on which the budget is enforced as well; and those of   *)
(* the offline orchestrator, on which it is not, and which bear the label  *)
(* of the real client.                                                     *)
Built == {"gemini", "gemini_web", "local_rag", "local_web", "offline"}

Label(s) ==
  CASE s \in {"local_rag", "local_web"} -> "local_template"
    [] s = "offline"                    -> "gemini"
    [] OTHER                            -> s

Real(s)     == s \in {"gemini", "gemini_web"}
Enforced(s) == s # "offline"
Dated(s)    == s \in {"gemini_web", "local_web"}

Times  == 0 .. MaxTime
Day(t)   == t \div DayLength
Month(t) == t \div MonthLength

ASSUME ServicesAssumption == Services \subseteq Built
ASSUME LengthsAssumption ==
  /\ DayLength \in Nat \ {0} /\ MonthLength \in Nat \ {0} /\ MonthLength % DayLength = 0
ASSUME LimitsAssumption ==
  /\ HardDaily \in Nat /\ HardMonthly \in Nat /\ TTL \in Nat
  /\ CooldownLength \in Nat \ {0} /\ MaxAttempts \in Nat \ {0}
ASSUME BoundsAssumption == {MaxTime, MaxAsks, MaxFailures} \subseteq Nat
ASSUME WorkersAssumption == IsFiniteSet(Workers) /\ Workers # {}

VARIABLES
  now,        \* the clock
  cache,      \* llm_cache: from keys to rows, where there is a row
  usage,      \* gemini_usage: the calls counted, with the time of each
  cooldown,   \* llm_cooldown: no call before this time
  pc, work,   \* where each worker is, and its local variables
  asks, crashes, faults,   \* how many of each so far
  answered,   \* answers given to services that count them (history)
  empties,    \* those of them without text (history)
  cooled      \* requests sent during the cooldown recorded last (history)

storeVars == <<cache, usage, cooldown>>
ghostVars == <<answered, empties, cooled>>
vars == <<now, cache, usage, cooldown, pc, work, asks, crashes, faults, answered, empties, cooled>>

-----------------------------------------------------------------------------
(* The cache.  The key binds the label of the service, and the day for a   *)
(* grounded answer.  Of a row, again is a history variable: the requests   *)
(* sent for its key since the key has had a row to serve.                  *)

NoDay == -1

(* The day a request is made on, for a service whose key binds it.         *)
KeyDay(s) == IF Dated(s) THEN Day(now) ELSE NoDay

Key(s, p) == <<Label(s), p, KeyDay(s)>>

Servable(row) == ~ (now - row.created > TTL)

(* Mutant: the time to live is taken in a smaller unit.                    *)
CachedBriefly(key) == key \in DOMAIN cache /\ cache[key].created = now

Cached(key) == key \in DOMAIN cache /\ Servable(cache[key])

(* put replaces the row of its key.                                        *)
WithRow(key, row) ==
  [k \in DOMAIN cache \cup {key} |-> IF k = key THEN row ELSE cache[k]]

(* Whether there is a row to serve, and what has been sent for it.         *)
Served(key)  == key \in DOMAIN cache /\ Servable(cache[key])
Repeats(key) == IF Served(key) THEN cache[key].again ELSE 0

(* purge_expired.                                                          *)
Purgeable(row) == row.created < now - TTL

(* The keys enforce_max_rows leaves: those of n newest rows.               *)
NewestRows(n) ==
  {keys \in SUBSET DOMAIN cache :
    /\ Cardinality(keys) = n
    /\ \A k \in keys, other \in DOMAIN cache \ keys : cache[k].created >= cache[other].created}

-----------------------------------------------------------------------------
(* The budget: the calls counted since the start of the day and the month, *)
(* including those counted after the time the check took.                  *)

CountSince(t) == Cardinality({call \in usage : call.at >= t})

DayStart(t)   == Day(t) * DayLength
MonthStart(t) == Month(t) * MonthLength

(* Mutant: the limit itself may still be used.                             *)
BelowOrAt(start, limit) == CountSince(start) <= limit

Below(start, limit) == CountSince(start) < limit

-----------------------------------------------------------------------------
Idle == [service |-> "none"]

Init ==
  /\ now = 0
  /\ cache = <<>>
  /\ usage = {}
  /\ cooldown = 0
  /\ pc = [w \in Workers |-> "idle"]
  /\ work = [w \in Workers |-> Idle]
  /\ asks = 0
  /\ crashes = 0
  /\ faults = 0
  /\ answered = 0
  /\ empties = 0
  /\ cooled = 0

Become(w, at, local) ==
  /\ pc'   = [pc EXCEPT ![w] = at]
  /\ work' = [work EXCEPT ![w] = local]

(* An answer or a fallback is returned to the caller.                      *)
Return(w) == Become(w, "idle", Idle)

(* The key is made once, from the day the request is made on.              *)
Ask(w, s, p) ==
  /\ pc[w] = "idle"
  /\ asks < MaxAsks
  /\ asks' = asks + 1
  /\ Become(w, "lookup", [service |-> s, prompt |-> p, key |-> Key(s, p), at |-> 0, attempt |-> 1])
  /\ UNCHANGED <<now, storeVars, crashes, faults, ghostVars>>

(* A hit is returned; the row it adds to the usage file is in no count.    *)
Lookup(w) ==
  /\ pc[w] = "lookup"
  /\ IF Cached(work[w].key)
       THEN Return(w)
       ELSE Become(w, IF Enforced(work[w].service) THEN "check" ELSE "send", work[w])
  /\ UNCHANGED <<now, storeVars, asks, crashes, faults, ghostVars>>

(* check: the time is taken, then the two counts and the cooldown are read *)
(* one after the other.  Whichever of them forbids the call, the answer is *)
(* a fallback.                                                             *)
CheckDaily(w) ==
  /\ pc[w] = "check"
  /\ IF work[w].prompt \notin Blocked /\ Below(DayStart(now), HardDaily)
       THEN Become(w, "monthly", [work[w] EXCEPT !.at = now])
       ELSE Return(w)
  /\ UNCHANGED <<now, storeVars, asks, crashes, faults, ghostVars>>

CheckMonthly(w) ==
  /\ pc[w] = "monthly"
  /\ IF Below(MonthStart(work[w].at), HardMonthly)
       THEN Become(w, "cooling", work[w])
       ELSE Return(w)
  /\ UNCHANGED <<now, storeVars, asks, crashes, faults, ghostVars>>

(* Mutant: the cooldown is not looked at.                                  *)
CheckNoCooldown(w) ==
  /\ pc[w] = "cooling"
  /\ Become(w, "send", work[w])
  /\ UNCHANGED <<now, storeVars, asks, crashes, faults, ghostVars>>

(* A call allowed is made whenever the thread gets to it: the time of the  *)
(* check is not looked at again.                                           *)
CheckCooldown(w) ==
  /\ pc[w] = "cooling"
  /\ IF work[w].at < cooldown
       THEN Return(w)
       ELSE Become(w, "send", [work[w] EXCEPT !.at = 0])
  /\ UNCHANGED <<now, storeVars, asks, crashes, faults, ghostVars>>

Send(w) ==
  /\ pc[w] = "send"
  /\ Become(w, "sent", work[w])
  /\ cooled' = cooled + (IF Real(work[w].service) /\ now < cooldown THEN 1 ELSE 0)
  /\ cache' = IF Served(work[w].key) THEN [cache EXCEPT ![work[w].key].again = @ + 1] ELSE cache
  /\ UNCHANGED <<now, usage, cooldown, asks, crashes, faults, answered, empties>>

-----------------------------------------------------------------------------
(* What the client returns or raises.                                      *)

ReplyText(w) ==
  /\ pc[w] = "sent"
  /\ Become(w, "store", work[w])
  /\ answered' = answered + (IF Enforced(work[w].service) THEN 1 ELSE 0)
  /\ UNCHANGED <<now, storeVars, asks, crashes, faults, empties, cooled>>

(* HTTP 200 without text: the quota is spent, the caller gets a fallback.  *)
ReplyEmpty(w) ==
  /\ pc[w] = "sent"
  /\ Real(work[w].service)
  /\ Return(w)
  /\ answered' = answered + 1
  /\ empties'  = empties + 1
  /\ UNCHANGED <<now, storeVars, asks, crashes, faults, cooled>>

(* Mutant: the attempts are not counted.                                   *)
ReplyServerErrorUncounted(w) ==
  /\ pc[w] = "sent"
  /\ Real(work[w].service)
  /\ Become(w, "send", work[w])
  /\ UNCHANGED <<now, storeVars, asks, crashes, faults, ghostVars>>

(* Only a server error is retried, and the budget is not checked again.    *)
ReplyServerError(w) ==
  /\ pc[w] = "sent"
  /\ Real(work[w].service)
  /\ IF work[w].attempt < MaxAttempts
       THEN Become(w, "send", [work[w] EXCEPT !.attempt = @ + 1])
       ELSE Return(w)
  /\ UNCHANGED <<now, storeVars, asks, crashes, faults, ghostVars>>

ReplyOtherError(w) ==
  /\ pc[w] = "sent"
  /\ Real(work[w].service)
  /\ Return(w)
  /\ UNCHANGED <<now, storeVars, asks, crashes, faults, ghostVars>>

ReplyRateLimit(w) ==
  /\ pc[w] = "sent"
  /\ Real(work[w].service)
  /\ Become(w, "limited", work[w])
  /\ UNCHANGED <<now, storeVars, asks, crashes, faults, ghostVars>>

RecordCooldown(w) ==
  /\ pc[w] = "limited"
  /\ cooldown' = now + CooldownLength
  /\ cooled' = 0
  /\ Return(w)
  /\ UNCHANGED <<now, cache, usage, asks, crashes, faults, answered, empties>>

(* Mutant: a stored answer is returned without being counted.              *)
StoreOnly(w) ==
  /\ pc[w] = "store"
  /\ cache' = WithRow(work[w].key, [created |-> now, again |-> Repeats(work[w].key)])
  /\ Return(w)
  /\ UNCHANGED <<now, usage, cooldown, asks, crashes, faults, ghostVars>>

Store(w) ==
  /\ pc[w] = "store"
  /\ cache' = WithRow(work[w].key, [created |-> now, again |-> Repeats(work[w].key)])
  /\ IF Enforced(work[w].service) THEN Become(w, "record", work[w]) ELSE Return(w)
  /\ UNCHANGED <<now, usage, cooldown, asks, crashes, faults, ghostVars>>

RecordCall(w) ==
  /\ pc[w] = "record"
  /\ usage' = usage \cup {[id |-> Cardinality(usage) + 1, at |-> now]}
  /\ Return(w)
  /\ UNCHANGED <<now, cache, cooldown, asks, crashes, faults, ghostVars>>

-----------------------------------------------------------------------------
(* The clock, the maintenance command and the process.                     *)

Tick ==
  /\ now < MaxTime
  /\ now' = now + 1
  /\ UNCHANGED <<storeVars, pc, work, asks, crashes, faults, ghostVars>>

PurgeExpired ==
  /\ \E k \in DOMAIN cache : Purgeable(cache[k])
  /\ cache' = Restrict(cache, {k \in DOMAIN cache : ~Purgeable(cache[k])})
  /\ UNCHANGED <<now, usage, cooldown, pc, work, asks, crashes, faults, ghostVars>>

EnforceMaxRows(n) ==
  /\ n < Cardinality(DOMAIN cache)
  /\ \E keys \in NewestRows(n) : cache' = Restrict(cache, keys)
  /\ UNCHANGED <<now, usage, cooldown, pc, work, asks, crashes, faults, ghostVars>>

(* The process stops: the two files survive, the requests do not.          *)
Crash ==
  /\ crashes + faults < MaxFailures
  /\ crashes' = crashes + 1
  /\ pc'   = [w \in Workers |-> "idle"]
  /\ work' = [w \in Workers |-> Idle]
  /\ UNCHANGED <<now, storeVars, asks, faults, ghostVars>>

(* A transaction finds its database locked for longer than sqlite waits    *)
(* (or its disk full): the error ends the request.                         *)
DatabaseError(w) ==
  /\ pc[w] \in {"lookup", "check", "monthly", "cooling", "limited", "store", "record"}
  /\ crashes + faults < MaxFailures
  /\ faults' = faults + 1
  /\ Return(w)
  /\ UNCHANGED <<now, storeVars, asks, crashes, ghostVars>>

Reply(w) ==
  \/ ReplyText(w)
  \/ ReplyEmpty(w)
  \/ ReplyServerError(w)
  \/ ReplyOtherError(w)
  \/ ReplyRateLimit(w)

Step(w) ==
  \/ Lookup(w)
  \/ CheckDaily(w) \/ CheckMonthly(w) \/ CheckCooldown(w)
  \/ Send(w)
  \/ Reply(w)
  \/ RecordCooldown(w) \/ Store(w) \/ RecordCall(w)

Next ==
  \/ \E w \in Workers :
       Step(w) \/ DatabaseError(w) \/ \E s \in Services, p \in Prompts : Ask(w, s, p)
  \/ Tick
  \/ PurgeExpired \/ EnforceMaxRows(1)
  \/ Crash

Spec == Init /\ [][Next]_vars

(* A request thread runs on, and the provider answers every request one    *)
(* way or another.                                                         *)
Fairness == \A w \in Workers : WF_vars(Step(w))

FairSpec == Spec /\ Fairness

-----------------------------------------------------------------------------
(* Properties.                                                             *)

Limit(n) == IF n = 0 THEN 1 ELSE n

(* The budget is checked in one transaction and the call counted in        *)
(* another: the number of calls counted for a day or a month can pass the  *)
(* hard limit, but by no more than the requests that were between the two  *)
(* at the same time.                                                       *)
BudgetOvershootBounded ==
  /\ CountSince(DayStart(now)) <= Limit(HardDaily) + Cardinality(Workers) - 1
  /\ CountSince(MonthStart(now)) <= Limit(HardMonthly) + Cardinality(Workers) - 1

(* What was answered to a service that counts and is not in the usage file *)
(* is either an answer without text, or in progress, or was in progress    *)
(* when the process stopped or a database was locked: nothing else escapes *)
(* the budget.                                                             *)
UncountedBounded ==
  answered <= Cardinality(usage) + empties + Cardinality(Workers) * (1 + crashes) + faults

(* Once a rate limit has put the provider into cooldown, the only requests *)
(* it still gets before the cooldown ends are the attempts of those that   *)
(* had been checked before: record_cooldown, whose horizon lies in one     *)
(* row, reaches every request checked later.                               *)
CoolingSendsBounded == cooled <= (Cardinality(Workers) - 1) * MaxAttempts

(* Lookup, call and store are separate steps, so requests for one key that *)
(* miss the cache together all spend quota, with their retries.  But once  *)
(* the key has an answer, and as long as it has one to serve, no more are  *)
(* sent for it than the attempts of those that had missed before, whatever *)
(* is stored over the answer meanwhile.                                    *)
RepeatsBounded ==
  \A key \in DOMAIN cache :
    Servable(cache[key]) => cache[key].again <= (Cardinality(Workers) - 1) * MaxAttempts

(* Every request ends, with an answer or a fallback.                       *)
EveryRequestEnds == \A w \in Workers : pc[w] # "idle" ~> pc[w] = "idle"

=============================================================================
