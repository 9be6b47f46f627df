\* Guarded text generation: two threads, three requests, three days in two
\* months, one process restart or locked database.  Chats: two that follow
\* each other, two drafts each, one row of the cache that expires.
\* Of the five services three, so that each kind of step occurs: real and
\* undated, a dated template that is counted, an uncounted one under the real
\* label.
CONSTANTS
  w1 = w1  w2 = w2  p1 = p1  c1 = c1
  Workers = {w1, w2}
  Services = {"gemini", "local_web", "offline"}
  Prompts = {p1}
  Blocked = {}
  DayLength = 1
  MonthLength = 2
  TTL = 1
  HardDaily = 1
  HardMonthly = 1
  CooldownLength = 2
  MaxAttempts = 2
  MaxTime = 2
  MaxAsks = 3
  MaxFailures = 1
  Clients = {c1}
  Drafts = 2
  EnvAllows = FALSE
  MaxChats = 2
  MaxSwitches = 1
  MaxExpiries = 1
SPECIFICATION RequestsSpec
\* The bounds stop either part.
CHECK_DEADLOCK FALSE
INVARIANTS BudgetOvershootBounded UncountedBounded CoolingSendsBounded RepeatsBounded
PROPERTIES EveryRequestEnds EveryChatIsAnswered
