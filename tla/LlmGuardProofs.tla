--------------------------- MODULE LlmGuardProofs ---------------------------
(***************************************************************************)
(* The guarded text generation, for any number of threads, any limits and  *)
(* any lengths of the day and the month.                                   *)
(*                                                                         *)
(* What makes the two bounds on the budget inductive are the threads       *)
(* between the check and the count: once the limit is reached no thread    *)
(* joins them, and each call counted is one of them less.                  *)
(***************************************************************************)
EXTENDS LlmGuard, FiniteSetTheorems, TLAPS

Keys == {Label(s) : s \in Services} \X Prompts \X Int

Requests == [service: Services, prompt: Prompts, key: Keys, at: Nat, attempt: Nat]

Places == {"idle", "lookup", "check", "monthly", "cooling", "send", "sent", "limited",
           "store", "record"}

Metered == {"check", "monthly", "cooling", "limited", "record"}

GuardTypes ==
  /\ now \in Nat /\ crashes \in Nat /\ faults \in Nat /\ answered \in Nat /\ empties \in Nat
  /\ pc \in [Workers -> Places]
  /\ work \in [Workers -> Requests \cup {Idle}]
  /\ \A w \in Workers :
       pc[w] # "idle" =>
         /\ work[w] \in Requests
         /\ work[w].at <= now
         /\ pc[w] \in Metered => Enforced(work[w].service)
  /\ IsFiniteSet(usage)
  /\ \A call \in usage : /\ call.id \in Nat /\ call.id <= Cardinality(usage)
                         /\ call.at \in Nat /\ call.at <= now

\* The threads with a call under way that will count against the budget.
At(places) == {w \in Workers : pc[w] \in places /\ Enforced(work[w].service)}

Holding   == At({"store", "record"})
PastMonth == At({"cooling", "send", "sent", "store", "record"})
PastDay   == At({"monthly", "cooling", "send", "sent", "store", "record"})

Accounted ==
  answered <= Cardinality(usage) + empties + Cardinality(Holding) + faults
                + Cardinality(Workers) * crashes

Bounded(count, limit, threads) ==
  count >= limit => count + Cardinality(threads) <= limit + Cardinality(Workers) - 1

BudgetInv ==
  /\ Bounded(CountSince(DayStart(now)), Limit(HardDaily), PastDay)
  /\ Bounded(CountSince(MonthStart(now)), Limit(HardMonthly), PastMonth)

GuardInv == GuardTypes /\ Accounted /\ BudgetInv

-----------------------------------------------------------------------------
(* The beginning of the day or of the month.                               *)
LEMMA PeriodStart ==
  ASSUME NEW t \in Nat, NEW L \in Nat \ {0}
  PROVE  /\ (t \div L) * L \in Nat
         /\ (t \div L) * L <= t
         /\ t < (t \div L) * L + L
OBVIOUS

(* A later time lies in no earlier day, month or other period.             *)
LEMMA PeriodsInOrder ==
  ASSUME NEW s \in Nat, NEW t \in Nat, s <= t, NEW L \in Nat \ {0}
  PROVE  (s \div L) * L <= (t \div L) * L
OBVIOUS

(* The next tick is in the same period or begins one.                      *)
LEMMA NextPeriod ==
  ASSUME NEW t \in Nat, NEW L \in Nat \ {0}
  PROVE  \/ ((t + 1) \div L) * L = (t \div L) * L
         \/ ((t + 1) \div L) * L = t + 1
<1> DEFINE p == t \div L
           q == (t + 1) \div L
<1>1. p \in Nat /\ q \in Nat
  OBVIOUS
<1>2. p * L <= t /\ t < p * L + L /\ q * L <= t + 1 /\ t + 1 < q * L + L
  BY PeriodStart
<1>3. p * L <= q * L
  BY PeriodsInOrder
<1> HIDE DEF p, q
<1>4. CASE q >= p + 1
  <2>1. q * L >= p * L + L
    BY <1>1, <1>4
  <2>2. p * L \in Nat /\ q * L \in Nat
    BY <1>1
  <2>3. q * L = t + 1
    BY <1>2, <2>1, <2>2
  <2>4. QED BY <2>3 DEF q
<1>5. CASE q <= p
  <2>1. p = q \/ p >= q + 1
    BY <1>1, <1>5
  <2>2. p >= q + 1 => p * L >= q * L + L
    BY <1>1
  <2>3. p * L \in Nat /\ q * L \in Nat
    BY <1>1
  <2>4. p = q
    BY <1>3, <2>1, <2>2, <2>3
  <2>5. QED BY <2>4 DEF p, q
<1>6. QED BY <1>1, <1>4, <1>5

(* The threads at work are finitely many, and no more than there are.      *)
LEMMA ThreadsCounted ==
  ASSUME NEW S \in SUBSET Workers
  PROVE  /\ IsFiniteSet(S) /\ Cardinality(S) \in Nat
         /\ Cardinality(S) <= Cardinality(Workers)
         /\ \A T \in SUBSET S : Cardinality(T) <= Cardinality(S)
BY WorkersAssumption, FS_Subset, FS_CardinalityType

(* The calls since a time are some of the calls.                           *)
LEMMA CallsCounted ==
  ASSUME IsFiniteSet(usage), NEW s, NEW t
  PROVE  /\ CountSince(s) \in Nat
         /\ CountSince(s) <= Cardinality(usage)
BY FS_Subset, FS_CardinalityType DEF CountSince

(* A later beginning leaves no more calls to count.                        *)
LEMMA CountedLater ==
  ASSUME IsFiniteSet(usage), \A call \in usage : call.at \in Nat,
         NEW s \in Nat, NEW t \in Nat, s <= t
  PROVE  CountSince(t) <= CountSince(s)
<1>1. {call \in usage : call.at >= t} \subseteq {call \in usage : call.at >= s}
  OBVIOUS
<1>2. IsFiniteSet({call \in usage : call.at >= s})
  BY FS_Subset
<1>3. QED BY <1>1, <1>2, FS_Subset DEF CountSince

-----------------------------------------------------------------------------
(* One thread moves: who is at which places.                               *)
LEMMA MovedThread ==
  ASSUME GuardTypes, NEW w \in Workers, NEW at \in Places, NEW local \in Requests \cup {Idle},
         Become(w, at, local), NEW places
  PROVE  At(places)' = IF at \in places /\ Enforced(local.service)
                         THEN At(places) \cup {w} ELSE At(places) \ {w}
<1>1. pc'[w] = at /\ work'[w] = local
  BY DEF Become, GuardTypes
<1>2. \A v \in Workers \ {w} : pc'[v] = pc[v] /\ work'[v] = work[v]
  BY DEF Become, GuardTypes
<1>3. QED BY <1>1, <1>2 DEF At

(* A worker that moves on keeps the types.                                 *)
LEMMA MovedTypes ==
  ASSUME GuardTypes, NEW w \in Workers, NEW at \in Places, NEW local \in Requests \cup {Idle},
         Become(w, at, local),
         at # "idle" =>
           /\ local \in Requests
           /\ local.at <= now
           /\ at \in Metered => Enforced(local.service),
         now' = now
  PROVE  /\ pc' \in [Workers -> Places]
         /\ work' \in [Workers -> Requests \cup {Idle}]
         /\ \A v \in Workers :
              pc'[v] # "idle" =>
                /\ work'[v] \in Requests
                /\ work'[v].at <= now'
                /\ pc'[v] \in Metered => Enforced(work'[v].service)
<1>1. pc' \in [Workers -> Places] /\ work' \in [Workers -> Requests \cup {Idle}]
  BY DEF Become, GuardTypes
<1>2. pc'[w] = at /\ work'[w] = local
  BY DEF Become, GuardTypes
<1>3. \A v \in Workers \ {w} : pc'[v] = pc[v] /\ work'[v] = work[v]
  BY DEF Become, GuardTypes
<1>4. QED BY <1>1, <1>2, <1>3 DEF GuardTypes

(* The hard limits are positive numbers.                                   *)
LEMMA LimitType == Limit(HardDaily) \in Nat \ {0} /\ Limit(HardMonthly) \in Nat \ {0}
BY LimitsAssumption DEF Limit

(* A step that counts no call: only a thread that has seen room in the     *)
(* budget may join those the budget waits for.                             *)
LEMMA BoundKept ==
  ASSUME NEW count \in Nat, NEW limit \in Nat, NEW S \in SUBSET Workers,
         NEW T \in SUBSET Workers, Bounded(count, limit, S),
         T \subseteq S \/ count < limit
  PROVE  Bounded(count, limit, T)
<1>1. CASE T \subseteq S
  <2>1. /\ Cardinality(T) <= Cardinality(S)
        /\ Cardinality(S) \in Nat /\ Cardinality(T) \in Nat /\ Cardinality(Workers) \in Nat
    BY <1>1, ThreadsCounted
  <2>2. QED BY <2>1 DEF Bounded
<1>2. CASE count < limit
  BY <1>2 DEF Bounded
<1>3. QED BY <1>1, <1>2

(* The thread whose call is counted is one fewer the budget waits for.     *)
LEMMA BoundCounted ==
  ASSUME NEW count \in Nat, NEW more \in Nat, more <= count + 1,
         NEW limit \in Nat, NEW S \in SUBSET Workers, NEW w \in S,
         Bounded(count, limit, S)
  PROVE  Bounded(more, limit, S \ {w})
<1>1. /\ Cardinality(S \ {w}) = Cardinality(S) - 1
      /\ Cardinality(S) \in Nat /\ Cardinality(S) <= Cardinality(Workers)
      /\ Cardinality(Workers) \in Nat
  BY ThreadsCounted, FS_RemoveElement
<1>2. CASE count >= limit
  BY <1>1, <1>2 DEF Bounded
<1>3. CASE count < limit
  BY <1>1, <1>3 DEF Bounded
<1>4. QED BY <1>2, <1>3

(* The starts of the day and of the month, and the counts since then.      *)
LEMMA CountTypes ==
  ASSUME GuardTypes
  PROVE  /\ DayStart(now) \in Nat /\ DayStart(now) <= now
         /\ MonthStart(now) \in Nat /\ MonthStart(now) <= now
         /\ CountSince(DayStart(now)) \in Nat /\ CountSince(MonthStart(now)) \in Nat
         /\ Cardinality(usage) \in Nat
<1>1. DayStart(now) \in Nat /\ DayStart(now) <= now
  BY LengthsAssumption, PeriodStart DEF DayStart, Day, GuardTypes
<1>2. MonthStart(now) \in Nat /\ MonthStart(now) <= now
  BY LengthsAssumption, PeriodStart DEF MonthStart, Month, GuardTypes
<1>3. QED BY <1>1, <1>2, CallsCounted, FS_CardinalityType DEF GuardTypes

-----------------------------------------------------------------------------
(* A thread moves on without counting its call.                            *)
LEMMA ThreadStep ==
  ASSUME GuardInv, NEW w \in Workers, NEW at \in Places, NEW local \in Requests \cup {Idle},
         Become(w, at, local),
         UNCHANGED <<now, usage, crashes>>, faults' \in {faults, faults + 1},
         at # "idle" =>
           /\ local \in Requests
           /\ local.at <= now
           /\ at \in Metered => Enforced(local.service),
         at \in {"monthly", "cooling", "send", "sent", "store", "record"} /\ Enforced(local.service)
           => w \in PastDay \/ CountSince(DayStart(now)) < Limit(HardDaily),
         at \in {"cooling", "send", "sent", "store", "record"} /\ Enforced(local.service)
           => w \in PastMonth \/ CountSince(MonthStart(now)) < Limit(HardMonthly),
         \/ /\ answered' = answered /\ empties' = empties
            /\ w \in Holding => \/ at \in {"store", "record"} /\ Enforced(local.service)
                               \/ faults' = faults + 1
         \/ /\ answered' = answered + 1 /\ empties' = empties
            /\ w \notin Holding /\ at \in {"store", "record"} /\ Enforced(local.service)
         \/ /\ answered' = answered + 1 /\ empties' = empties + 1
            /\ w \notin Holding
  PROVE  GuardInv'
<1>1. GuardTypes'
  BY MovedTypes DEF GuardInv, GuardTypes
<1>2. Accounted'
  <2>1. Holding' = IF at \in {"store", "record"} /\ Enforced(local.service)
                     THEN Holding \cup {w} ELSE Holding \ {w}
    <3>1. PICK places : places = {"store", "record"}
      OBVIOUS
    <3>2. Holding = At(places) /\ Holding' = At(places)'
      BY <3>1 DEF Holding
    <3>3. GuardTypes
      BY DEF GuardInv
    <3>4. At(places)' = IF at \in places /\ Enforced(local.service)
                          THEN At(places) \cup {w} ELSE At(places) \ {w}
      BY <3>3, MovedThread
    <3>5. QED BY <3>1, <3>2, <3>4
  <2>2. Holding \in SUBSET Workers /\ Holding' \in SUBSET Workers
    BY DEF Holding, At
  <2>3. /\ IsFiniteSet(Holding) /\ Cardinality(Holding) \in Nat /\ Cardinality(Holding') \in Nat
        /\ \A T \in SUBSET Holding' : Cardinality(T) <= Cardinality(Holding')
    BY <2>2, ThreadsCounted
  <2>4. Cardinality(Holding \cup {w}) = IF w \in Holding THEN Cardinality(Holding)
                                       ELSE Cardinality(Holding) + 1
    BY <2>3, FS_AddElement
  <2>5. Holding \in SUBSET Holding' => Cardinality(Holding) <= Cardinality(Holding')
    BY <2>3
  <2>6. /\ Cardinality(usage) \in Nat /\ answered \in Nat /\ empties \in Nat
        /\ answered' \in Nat /\ empties' \in Nat
    BY CountTypes DEF GuardInv, GuardTypes
  <2>7. /\ faults \in Nat /\ faults' \in Nat
        /\ answered' + empties + Cardinality(Holding) + faults
             <= answered + empties' + Cardinality(Holding') + faults'
    <3>1. faults \in Nat /\ faults' \in Nat /\ faults <= faults'
      BY DEF GuardInv, GuardTypes
    <3>2. PICK h \in Nat, g \in Nat : h = Cardinality(Holding) /\ g = Cardinality(Holding')
      BY <2>3
    <3>3. /\ h <= g + 1
          /\ w \notin Holding => h <= g
          /\ at \in {"store", "record"} /\ Enforced(local.service) =>
               h <= g /\ (w \notin Holding => g = h + 1)
      <4>1. CASE at \in {"store", "record"} /\ Enforced(local.service)
        BY <2>1, <2>4, <2>5, <3>2, <4>1
      <4>2. CASE ~(at \in {"store", "record"} /\ Enforced(local.service))
        <5>1. Holding' = Holding \ {w}
          BY <2>1, <4>2
        <5>2. Cardinality(Holding \ {w}) = IF w \in Holding THEN h - 1 ELSE h
          BY <2>3, <3>2, FS_RemoveElement
        <5>3. QED BY <3>2, <4>2, <5>1, <5>2
      <4>3. QED BY <4>1, <4>2
    <3>4. answered' + empties + h + faults <= answered + empties' + g + faults'
      BY <2>6, <3>1, <3>2, <3>3
    <3>5. QED BY <3>1, <3>2, <3>4
  <2>8. PICK lost \in Nat : lost = Cardinality(Workers) * crashes
    BY WorkersAssumption, FS_CardinalityType DEF GuardInv, GuardTypes
  <2>9. answered <= Cardinality(usage) + empties + Cardinality(Holding) + faults + lost
    BY <2>8 DEF GuardInv, Accounted
  <2>10. answered' <= Cardinality(usage') + empties' + Cardinality(Holding') + faults' + lost
    BY <2>3, <2>6, <2>7, <2>9
  <2>11. QED BY <2>8, <2>10 DEF Accounted
<1>3. BudgetInv'
  <2>1. GuardTypes /\ BudgetInv
    BY DEF GuardInv
  <2>2. /\ PastDay' \subseteq PastDay \/ CountSince(DayStart(now)) < Limit(HardDaily)
        /\ PastDay \in SUBSET Workers /\ PastDay' \in SUBSET Workers
    <3>1. PastDay' = IF /\ at \in {"monthly", "cooling", "send", "sent", "store", "record"}
                        /\ Enforced(local.service)
                       THEN PastDay \cup {w} ELSE PastDay \ {w}
      <4>1. PICK places : places = {"monthly", "cooling", "send", "sent", "store", "record"}
        OBVIOUS
      <4>2. PastDay = At(places) /\ PastDay' = At(places)'
        BY <4>1 DEF PastDay
      <4>3. At(places)' = IF at \in places /\ Enforced(local.service)
                            THEN At(places) \cup {w} ELSE At(places) \ {w}
        BY <2>1, MovedThread
      <4>4. QED BY <4>1, <4>2, <4>3
    <3>2. PastDay \in SUBSET Workers /\ PastDay' \in SUBSET Workers
      BY DEF PastDay, At
    <3>3. QED BY <3>1, <3>2
  <2>3. /\ PastMonth' \subseteq PastMonth \/ CountSince(MonthStart(now)) < Limit(HardMonthly)
        /\ PastMonth \in SUBSET Workers /\ PastMonth' \in SUBSET Workers
    <3>1. PastMonth' = IF /\ at \in {"cooling", "send", "sent", "store", "record"}
                        /\ Enforced(local.service)
                       THEN PastMonth \cup {w} ELSE PastMonth \ {w}
      <4>1. PICK places : places = {"cooling", "send", "sent", "store", "record"}
        OBVIOUS
      <4>2. PastMonth = At(places) /\ PastMonth' = At(places)'
        BY <4>1 DEF PastMonth
      <4>3. At(places)' = IF at \in places /\ Enforced(local.service)
                            THEN At(places) \cup {w} ELSE At(places) \ {w}
        BY <2>1, MovedThread
      <4>4. QED BY <4>1, <4>2, <4>3
    <3>2. PastMonth \in SUBSET Workers /\ PastMonth' \in SUBSET Workers
      BY DEF PastMonth, At
    <3>3. QED BY <3>1, <3>2
  <2>4. /\ CountSince(DayStart(now))' = CountSince(DayStart(now))
        /\ CountSince(MonthStart(now))' = CountSince(MonthStart(now))
    BY DEF CountSince, DayStart, MonthStart, Day, Month
  <2>5. Bounded(CountSince(DayStart(now)), Limit(HardDaily), PastDay')
    BY <2>1, <2>2, CountTypes, LimitType, BoundKept DEF BudgetInv
  <2>6. Bounded(CountSince(MonthStart(now)), Limit(HardMonthly), PastMonth')
    BY <2>1, <2>3, CountTypes, LimitType, BoundKept DEF BudgetInv
  <2>7. QED BY <2>4, <2>5, <2>6 DEF BudgetInv, Bounded
<1>4. QED BY <1>1, <1>2, <1>3 DEF GuardInv

(* What a thread knows of its request.                                     *)
LEMMA RequestFacts ==
  ASSUME GuardInv, NEW w \in Workers, pc[w] # "idle"
  PROVE  /\ work[w] \in Requests
         /\ work[w].at \in Nat /\ work[w].at <= now
         /\ pc[w] \in Metered => Enforced(work[w].service)
BY DEF GuardInv, GuardTypes, Requests

(* A worker outside the metered part returns.                              *)
LEMMA ReturnStep ==
  ASSUME GuardInv, NEW w \in Workers, w \notin Holding, Return(w),
         UNCHANGED <<now, usage, crashes, faults>>,
         \/ answered' = answered /\ empties' = empties
         \/ answered' = answered + 1 /\ empties' = empties + 1
  PROVE  GuardInv'
<1>1. "idle" \in Places /\ Idle \in Requests \cup {Idle}
  BY DEF Places
<1>2. Become(w, "idle", Idle)
  BY DEF Return
<1>3. QED BY <1>1, <1>2, ThreadStep

(* A worker takes a request.                                               *)
LEMMA AskStep ==
  ASSUME GuardInv, NEW w \in Workers, NEW s \in Services, NEW p \in Prompts, Ask(w, s, p)
  PROVE  GuardInv'
<1>1. PICK day \in Int : day = KeyDay(s)
  BY LengthsAssumption DEF KeyDay, Day, NoDay, GuardInv, GuardTypes
<1>2. PICK local : local = [service |-> s, prompt |-> p, key |-> Key(s, p),
                            at |-> 0, attempt |-> 1]
  OBVIOUS
<1>3. /\ local \in Requests
      /\ local.at = 0 /\ local.service = s
  BY <1>1, <1>2 DEF Requests, Keys, Key
<1>4. Become(w, "lookup", local) /\ w \notin Holding
  BY <1>2 DEF Ask, Holding, At
<1>5. UNCHANGED <<now, usage, crashes, faults, answered, empties>>
  BY DEF Ask, storeVars, ghostVars, GuardInv
<1>6. "lookup" \in Places \ Metered /\ 0 <= now
  BY DEF Places, Metered, GuardInv, GuardTypes
<1>7. QED BY <1>3, <1>4, <1>5, <1>6, ThreadStep

(* It looks into the cache.                                                *)
LEMMA LookupStep ==
  ASSUME GuardInv, NEW w \in Workers, Lookup(w)
  PROVE  GuardInv'
<1>1. w \notin Holding
  BY DEF Lookup, Holding, At
<1>2. UNCHANGED <<now, usage, crashes, faults, answered, empties>>
  BY DEF Lookup, storeVars, ghostVars, GuardInv
<1>3. CASE Cached(work[w].key)
  BY <1>1, <1>2, <1>3, ReturnStep DEF Lookup
<1>4. CASE ~Cached(work[w].key) /\ Enforced(work[w].service)
  <2>1. Become(w, "check", work[w])
    BY <1>4 DEF Lookup
  <2>2. "check" \in Places
    BY DEF Places
  <2>3. QED BY <1>1, <1>2, <1>4, <2>1, <2>2, RequestFacts, ThreadStep DEF Lookup
<1>5. CASE ~Cached(work[w].key) /\ ~Enforced(work[w].service)
  <2>1. Become(w, "send", work[w])
    BY <1>5 DEF Lookup
  <2>2. "send" \in Places \ Metered
    BY DEF Places, Metered
  <2>3. QED BY <1>1, <1>2, <1>5, <2>1, <2>2, RequestFacts, ThreadStep DEF Lookup
<1>6. QED BY <1>3, <1>4, <1>5

(* It checks the limit of the day.                                         *)
LEMMA CheckDailyStep ==
  ASSUME GuardInv, NEW w \in Workers, CheckDaily(w)
  PROVE  GuardInv'
<1>1. w \notin Holding /\ pc[w] = "check"
  BY DEF CheckDaily, Holding, At
<1>2. UNCHANGED <<now, usage, crashes, faults, answered, empties>>
  BY DEF CheckDaily, storeVars, ghostVars, GuardInv
<1>3. CASE work[w].prompt \notin Blocked /\ Below(DayStart(now), HardDaily)
  <2>1. PICK local : local = [work[w] EXCEPT !.at = now]
    OBVIOUS
  <2>2. work[w] \in Requests /\ now \in Nat
    BY <1>1, RequestFacts DEF GuardInv, GuardTypes
  <2>3. /\ local \in Requests /\ local.at = now /\ local.service = work[w].service
        /\ local.key = work[w].key
    BY <2>1, <2>2 DEF Requests
  <2>4. Become(w, "monthly", local)
    BY <1>3, <2>1 DEF CheckDaily
  <2>5. CountSince(DayStart(now)) < Limit(HardDaily)
    BY <1>3, CountTypes, LimitsAssumption DEF Below, Limit, GuardInv
  <2>6. "monthly" \in Places /\ "monthly" \in Metered /\ "check" \in Metered
    BY DEF Places, Metered
  <2>7. Enforced(local.service)
    BY <1>1, <2>3, <2>6, RequestFacts
  <2>8. QED BY <1>1, <1>2, <2>2, <2>3, <2>4, <2>5, <2>6, <2>7, ThreadStep
<1>4. CASE ~(work[w].prompt \notin Blocked /\ Below(DayStart(now), HardDaily))
  BY <1>1, <1>2, <1>4, ReturnStep DEF CheckDaily
<1>5. QED BY <1>3, <1>4

(* The month of the check has begun no later than the present one.         *)
LEMMA CheckMonthlyStep ==
  ASSUME GuardInv, NEW w \in Workers, CheckMonthly(w)
  PROVE  GuardInv'
<1>1. w \notin Holding /\ pc[w] = "monthly"
  BY DEF CheckMonthly, Holding, At
<1>2. UNCHANGED <<now, usage, crashes, faults, answered, empties>>
  BY DEF CheckMonthly, storeVars, ghostVars, GuardInv
<1>3. Enforced(work[w].service) /\ w \in PastDay
  BY <1>1, RequestFacts DEF PastDay, At, Metered
<1>4. CASE Below(MonthStart(work[w].at), HardMonthly)
  <2>1. /\ MonthStart(work[w].at) <= MonthStart(now)
        /\ MonthStart(work[w].at) \in Nat
    BY <1>1, RequestFacts, LengthsAssumption, PeriodsInOrder, PeriodStart
       DEF MonthStart, Month, GuardInv, GuardTypes
  <2>2. CountSince(MonthStart(now)) <= CountSince(MonthStart(work[w].at))
    BY <2>1, CountTypes, CountedLater DEF GuardInv, GuardTypes
  <2>3. CountSince(MonthStart(work[w].at)) \in Nat
    BY CallsCounted DEF GuardInv, GuardTypes
  <2>4. CountSince(MonthStart(now)) < Limit(HardMonthly)
    BY <1>4, <2>2, <2>3, CountTypes, LimitsAssumption DEF Below, Limit, GuardInv
  <2>5. Become(w, "cooling", work[w])
    BY <1>4 DEF CheckMonthly
  <2>6. "cooling" \in Places
    BY DEF Places
  <2>7. QED BY <1>1, <1>2, <1>3, <2>4, <2>5, <2>6, RequestFacts, ThreadStep
<1>5. CASE ~Below(MonthStart(work[w].at), HardMonthly)
  BY <1>1, <1>2, <1>5, ReturnStep DEF CheckMonthly
<1>6. QED BY <1>4, <1>5

(* A thread that is past the checks stays among those the budget waits for *)
(* or leaves them.                                                         *)
LEMMA PastChecks ==
  ASSUME GuardInv, NEW w \in Workers, Enforced(work[w].service)
  PROVE  /\ pc[w] \in {"cooling", "send", "sent", "store", "record"} => w \in PastDay \cap PastMonth
         /\ pc[w] \in {"cooling", "send", "sent", "limited"} => w \notin Holding
BY DEF PastDay, PastMonth, Holding, At

(* It checks the cooldown.                                                 *)
LEMMA CheckCooldownStep ==
  ASSUME GuardInv, NEW w \in Workers, CheckCooldown(w)
  PROVE  GuardInv'
<1>1. w \notin Holding /\ pc[w] = "cooling"
  BY DEF CheckCooldown, Holding, At
<1>2. UNCHANGED <<now, usage, crashes, faults, answered, empties>>
  BY DEF CheckCooldown, storeVars, ghostVars, GuardInv
<1>3. CASE work[w].at < cooldown
  BY <1>1, <1>2, <1>3, ReturnStep DEF CheckCooldown
<1>4. CASE ~(work[w].at < cooldown)
  <2>1. PICK local : local = [work[w] EXCEPT !.at = 0]
    OBVIOUS
  <2>2. work[w] \in Requests /\ 0 <= now
    BY <1>1, RequestFacts DEF GuardInv, GuardTypes
  <2>3. /\ local \in Requests /\ local.at = 0 /\ local.service = work[w].service
        /\ local.key = work[w].key
    BY <2>1, <2>2 DEF Requests
  <2>4. Become(w, "send", local)
    BY <1>4, <2>1 DEF CheckCooldown
  <2>5. "send" \in Places \ Metered
    BY DEF Places, Metered
  <2>7. Enforced(local.service) => w \in PastDay \cap PastMonth
    BY <1>1, <2>3, PastChecks
  <2>8. QED BY <1>1, <1>2, <2>2, <2>3, <2>4, <2>5, <2>7, ThreadStep
<1>5. QED BY <1>3, <1>4

(* It sends a request.                                                     *)
LEMMA SendStep ==
  ASSUME GuardInv, NEW w \in Workers, Send(w)
  PROVE  GuardInv'
<1>1. w \notin Holding /\ pc[w] = "send"
  BY DEF Send, Holding, At
<1>2. UNCHANGED <<now, usage, crashes, faults, answered, empties>>
  BY DEF Send, storeVars, GuardInv
<1>3. Become(w, "sent", work[w]) /\ "sent" \in Places \ Metered
  BY DEF Send, Places, Metered
<1>4. QED BY <1>1, <1>2, <1>3, RequestFacts, PastChecks, ThreadStep

(* An answer with a text is counted and cached.                            *)
LEMMA ReplyTextStep ==
  ASSUME GuardInv, NEW w \in Workers, ReplyText(w)
  PROVE  GuardInv'
<1>1. w \notin Holding /\ pc[w] = "sent"
  BY DEF ReplyText, Holding, At
<1>2. UNCHANGED <<now, usage, crashes, faults, empties>>
  BY DEF ReplyText, storeVars, GuardInv
<1>3. Become(w, "store", work[w]) /\ "store" \in Places \ Metered
  BY DEF ReplyText, Places, Metered
<1>4. IF Enforced(work[w].service) THEN answered' = answered + 1 ELSE answered' = answered
  BY DEF ReplyText, GuardInv, GuardTypes
<1>5. QED BY <1>1, <1>2, <1>3, <1>4, RequestFacts, PastChecks, ThreadStep

(* An empty answer or an error is not.                                     *)
LEMMA ReplyErrorStep ==
  ASSUME GuardInv, NEW w \in Workers,
         ReplyEmpty(w) \/ ReplyServerError(w) \/ ReplyOtherError(w) \/ ReplyRateLimit(w)
  PROVE  GuardInv'
<1>1. w \notin Holding /\ pc[w] = "sent" /\ Enforced(work[w].service)
  BY DEF ReplyEmpty, ReplyServerError, ReplyOtherError, ReplyRateLimit, Holding, At,
         Enforced, Real
<1>2. UNCHANGED <<now, usage, crashes, faults>>
  BY DEF ReplyEmpty, ReplyServerError, ReplyOtherError, ReplyRateLimit,
         storeVars, GuardInv
<1>3. CASE ReplyEmpty(w)
  BY <1>1, <1>2, <1>3, ReturnStep DEF ReplyEmpty
<1>4. CASE ReplyServerError(w) /\ work[w].attempt < MaxAttempts
  <2>1. PICK local : local = [work[w] EXCEPT !.attempt = @ + 1]
    OBVIOUS
  <2>2. work[w] \in Requests
    BY <1>1, RequestFacts
  <2>3. /\ local \in Requests /\ local.at = work[w].at /\ local.service = work[w].service
        /\ local.key = work[w].key
    <3>1. work[w].attempt + 1 \in Nat
      BY <2>2 DEF Requests
    <3>2. QED BY <2>1, <2>2, <3>1 DEF Requests
  <2>4. Become(w, "send", local) /\ UNCHANGED <<answered, empties>>
    BY <1>4, <2>1 DEF ReplyServerError, ghostVars
  <2>5. "send" \in Places \ Metered
    BY DEF Places, Metered
  <2>6. local.at <= now
    BY <1>1, <2>3, RequestFacts
  <2>7. w \in PastDay \cap PastMonth
    BY <1>1, PastChecks
  <2>8. QED BY <1>1, <1>2, <2>3, <2>4, <2>5, <2>6, <2>7, ThreadStep
<1>5. CASE ReplyServerError(w) /\ ~(work[w].attempt < MaxAttempts)
  BY <1>1, <1>2, <1>5, ReturnStep DEF ReplyServerError, ghostVars
<1>6. CASE ReplyOtherError(w)
  BY <1>1, <1>2, <1>6, ReturnStep DEF ReplyOtherError, ghostVars
<1>7. CASE ReplyRateLimit(w)
  <2>1. Become(w, "limited", work[w]) /\ "limited" \in Places
        /\ UNCHANGED <<answered, empties>>
    BY <1>7 DEF ReplyRateLimit, Places, ghostVars
  <2>2. QED BY <1>1, <1>2, <2>1, RequestFacts, ThreadStep
<1>8. QED BY <1>3, <1>4, <1>5, <1>6, <1>7

(* A throttled provider is put into cooldown.                              *)
LEMMA RecordCooldownStep ==
  ASSUME GuardInv, NEW w \in Workers, RecordCooldown(w)
  PROVE  GuardInv'
<1>1. w \notin Holding
  BY DEF RecordCooldown, Holding, At
<1>2. UNCHANGED <<now, usage, crashes, faults, answered, empties>>
  BY DEF RecordCooldown, GuardInv
<1>3. QED BY <1>1, <1>2, ReturnStep DEF RecordCooldown

(* The answer is stored; where calls are counted, it is still to be.       *)
LEMMA StoreStep ==
  ASSUME GuardInv, NEW w \in Workers, Store(w)
  PROVE  GuardInv'
<1>1. pc[w] = "store" /\ UNCHANGED <<now, usage, crashes, faults, answered, empties>>
  BY DEF Store, ghostVars
<1>3. CASE Enforced(work[w].service)
  <2>1. Become(w, "record", work[w]) /\ "record" \in Places
    BY <1>3 DEF Store, Places
  <2>2. QED BY <1>1, <1>3, <2>1, RequestFacts, PastChecks, ThreadStep
<1>4. CASE ~Enforced(work[w].service)
  <2>1. w \notin Holding
    BY <1>4 DEF Holding, At
  <2>2. QED BY <1>1, <1>4, <2>1, ReturnStep DEF Store
<1>5. QED BY <1>3, <1>4

(* The call is counted, and its thread is done.                            *)
LEMMA RecordCallStep ==
  ASSUME GuardInv, NEW w \in Workers, RecordCall(w)
  PROVE  GuardInv'
<1>1. pc[w] = "record" /\ UNCHANGED <<now, cache, crashes, faults, answered, empties>>
  BY DEF RecordCall, ghostVars
<1>2. Enforced(work[w].service)
  BY <1>1, RequestFacts DEF Metered
<1>3. GuardTypes /\ Become(w, "idle", Idle) /\ "idle" \in Places /\ Idle \in Requests \cup {Idle}
  BY DEF RecordCall, Return, Places, GuardInv
<1>4. PICK call : call = [id |-> Cardinality(usage) + 1, at |-> now]
  OBVIOUS
<1>5. usage' = usage \cup {call}
  BY <1>4 DEF RecordCall
<1>6. IsFiniteSet(usage) /\ Cardinality(usage) \in Nat
  BY <1>3, FS_CardinalityType DEF GuardTypes
<1>7. call \notin usage /\ call.id = Cardinality(usage) + 1 /\ call.at = now
  BY <1>3, <1>4, <1>6 DEF GuardTypes
<1>8. IsFiniteSet(usage') /\ Cardinality(usage') = Cardinality(usage) + 1
  BY <1>5, <1>6, <1>7, FS_AddElement
<1>9. GuardTypes'
  <2>1. \A c \in usage' : /\ c.id \in Nat /\ c.id <= Cardinality(usage')
                          /\ c.at \in Nat /\ c.at <= now'
    <3>1. ASSUME NEW c \in usage
          PROVE  /\ c.id \in Nat /\ c.id <= Cardinality(usage')
                 /\ c.at \in Nat /\ c.at <= now'
      BY <1>1, <1>3, <1>6, <1>8 DEF GuardTypes
    <3>2. /\ call.id \in Nat /\ call.id <= Cardinality(usage')
          /\ call.at \in Nat /\ call.at <= now'
      BY <1>1, <1>3, <1>6, <1>7, <1>8 DEF GuardTypes
    <3>3. QED BY <1>5, <3>1, <3>2
  <2>2. QED BY <1>1, <1>3, <1>8, <2>1, MovedTypes DEF GuardTypes
<1>10. Accounted'
  <2>1. Holding' = Holding \ {w}
    BY <1>3, MovedThread DEF Holding
  <2>2. w \in Holding /\ Holding \in SUBSET Workers
    BY <1>1, <1>2 DEF Holding, At
  <2>3. /\ Cardinality(Holding') = Cardinality(Holding) - 1
        /\ Cardinality(Holding) \in Nat
    BY <2>1, <2>2, ThreadsCounted, FS_RemoveElement
  <2>4. PICK lost \in Nat : lost = Cardinality(Workers) * crashes
    BY <1>3, WorkersAssumption, FS_CardinalityType DEF GuardTypes
  <2>5. answered <= Cardinality(usage) + empties + Cardinality(Holding) + faults + lost
    BY <2>4 DEF GuardInv, Accounted
  <2>6. answered \in Nat /\ empties \in Nat /\ faults \in Nat
    BY <1>3 DEF GuardTypes
  <2>7. answered <= Cardinality(usage') + empties + Cardinality(Holding') + faults + lost
    BY <1>6, <1>8, <2>3, <2>5, <2>6
  <2>8. QED BY <1>1, <2>4, <2>7 DEF Accounted
<1>11. ASSUME NEW s \in Nat
       PROVE  /\ CountSince(s) \in Nat
              /\ Cardinality({c \in usage' : c.at >= s}) \in Nat
              /\ Cardinality({c \in usage' : c.at >= s}) <= CountSince(s) + 1
  <2>1. {c \in usage' : c.at >= s} \in SUBSET ({c \in usage : c.at >= s} \cup {call})
    BY <1>5
  <2>2. IsFiniteSet({c \in usage : c.at >= s})
    BY <1>6, FS_Subset
  <2>3. /\ IsFiniteSet({c \in usage : c.at >= s} \cup {call})
        /\ Cardinality({c \in usage : c.at >= s} \cup {call}) <= CountSince(s) + 1
        /\ CountSince(s) \in Nat
    <3>1. PICK since : since = {c \in usage : c.at >= s}
      OBVIOUS
    <3>2. /\ IsFiniteSet(since) /\ Cardinality(since) \in Nat
          /\ Cardinality(since) = CountSince(s)
      BY <2>2, <3>1, FS_CardinalityType DEF CountSince
    <3>3. IsFiniteSet(since \cup {call}) /\ Cardinality(since \cup {call}) <= Cardinality(since) + 1
      BY <3>2, FS_AddElement
    <3>4. QED BY <3>1, <3>2, <3>3
  <2>4. QED BY <2>1, <2>3, FS_Subset, FS_CardinalityType
<1>12. ASSUME NEW places, "idle" \notin places, "record" \in places
       PROVE  At(places)' = At(places) \ {w} /\ w \in At(places) /\ At(places) \in SUBSET Workers
  <2>1. At(places)' = At(places) \ {w}
    BY <1>3, <1>12, MovedThread
  <2>2. w \in At(places) /\ At(places) \in SUBSET Workers
    BY <1>1, <1>2, <1>12 DEF At
  <2>3. QED BY <2>1, <2>2
<1>13. BudgetInv'
  <2>1. PastDay' = PastDay \ {w} /\ w \in PastDay /\ PastDay \in SUBSET Workers
    BY <1>12 DEF PastDay
  <2>2. PastMonth' = PastMonth \ {w} /\ w \in PastMonth /\ PastMonth \in SUBSET Workers
    BY <1>12 DEF PastMonth
  <2>3. DayStart(now)' = DayStart(now) /\ MonthStart(now)' = MonthStart(now)
    BY <1>1 DEF DayStart, MonthStart, Day, Month
  <2>4. DayStart(now) \in Nat /\ MonthStart(now) \in Nat
    BY <1>3, CountTypes
  <2>5. /\ CountSince(DayStart(now))' \in Nat
        /\ CountSince(DayStart(now))' <= CountSince(DayStart(now)) + 1
    BY <1>11, <2>3, <2>4 DEF CountSince
  <2>6. /\ CountSince(MonthStart(now))' \in Nat
        /\ CountSince(MonthStart(now))' <= CountSince(MonthStart(now)) + 1
    BY <1>11, <2>3, <2>4 DEF CountSince
  <2>7. Bounded(CountSince(DayStart(now))', Limit(HardDaily), PastDay')
    BY <1>11, <2>1, <2>4, <2>5, LimitType, BoundCounted DEF GuardInv, BudgetInv
  <2>8. Bounded(CountSince(MonthStart(now))', Limit(HardMonthly), PastMonth')
    BY <1>11, <2>2, <2>4, <2>6, LimitType, BoundCounted DEF GuardInv, BudgetInv
  <2>9. QED BY <2>7, <2>8 DEF BudgetInv, Bounded
<1>14. QED BY <1>9, <1>10, <1>13 DEF GuardInv

(* The clock: at midnight, or at the end of the month, nothing is counted. *)
LEMMA TickStep ==
  ASSUME GuardInv, Tick
  PROVE  GuardInv'
<1>1. /\ now' = now + 1 /\ now \in Nat
      /\ UNCHANGED <<cache, usage, pc, work, crashes, faults, answered, empties>>
  BY DEF Tick, storeVars, ghostVars, GuardInv, GuardTypes
<1>2. GuardTypes'
  <2>1. ASSUME NEW w \in Workers, pc[w] # "idle"
        PROVE  work[w].at <= now'
    <3>1. work[w].at \in Nat /\ work[w].at <= now
      BY <2>1, RequestFacts
    <3>2. QED BY <1>1, <3>1
  <2>2. ASSUME NEW call \in usage
        PROVE  call.at <= now'
    <3>1. call.at \in Nat /\ call.at <= now
      BY DEF GuardInv, GuardTypes
    <3>2. QED BY <1>1, <3>1
  <2>3. QED BY <1>1, <2>1, <2>2 DEF GuardInv, GuardTypes
<1>3. Accounted'
  BY <1>1 DEF GuardInv, Accounted, Holding, At
<1>4. PastDay' = PastDay /\ PastMonth' = PastMonth
  BY <1>1 DEF PastDay, PastMonth, At
<1>5. ASSUME NEW s \in Nat, s = now + 1
      PROVE  Cardinality({call \in usage' : call.at >= s}) = 0
  <2>1. {call \in usage' : call.at >= s} = {}
    BY <1>1, <1>5 DEF GuardInv, GuardTypes
  <2>2. QED BY <2>1, FS_EmptySet
<1>6. BudgetInv'
  <2>1. \/ DayStart(now)' = DayStart(now)
        \/ DayStart(now)' = now + 1
    BY <1>1, LengthsAssumption, NextPeriod DEF DayStart, Day
  <2>2. \/ MonthStart(now)' = MonthStart(now)
        \/ MonthStart(now)' = now + 1
    BY <1>1, LengthsAssumption, NextPeriod DEF MonthStart, Month
  <2>3. Bounded(CountSince(DayStart(now)), Limit(HardDaily), PastDay)'
    <3>1. CASE DayStart(now)' = DayStart(now)
      BY <1>1, <1>4, <3>1 DEF CountSince, Bounded, GuardInv, BudgetInv
    <3>2. CASE DayStart(now)' = now + 1
      <4>1. now + 1 \in Nat
        BY <1>1
      <4>2. CountSince(DayStart(now))' = 0
        BY <1>5, <3>2, <4>1 DEF CountSince
      <4>3. QED BY <4>2, LimitType DEF Bounded
    <3>3. QED BY <2>1, <3>1, <3>2
  <2>4. Bounded(CountSince(MonthStart(now)), Limit(HardMonthly), PastMonth)'
    <3>1. CASE MonthStart(now)' = MonthStart(now)
      BY <1>1, <1>4, <3>1 DEF CountSince, Bounded, GuardInv, BudgetInv
    <3>2. CASE MonthStart(now)' = now + 1
      <4>1. now + 1 \in Nat
        BY <1>1
      <4>2. CountSince(MonthStart(now))' = 0
        BY <1>5, <3>2, <4>1 DEF CountSince
      <4>3. QED BY <4>2, LimitType DEF Bounded
    <3>3. QED BY <2>2, <3>1, <3>2
  <2>5. QED BY <2>3, <2>4 DEF BudgetInv
<1>7. QED BY <1>2, <1>3, <1>6 DEF GuardInv

(* Rows of the cache go, and nothing else.                                 *)
LEMMA MaintenanceStep ==
  ASSUME GuardInv, PurgeExpired \/ EnforceMaxRows(1)
  PROVE  GuardInv'
<1>1. UNCHANGED <<now, usage, pc, work, crashes, faults, answered, empties>>
  BY DEF PurgeExpired, EnforceMaxRows, ghostVars
<1>2. QED BY <1>1 DEF GuardInv, GuardTypes, Accounted, BudgetInv, Bounded, Holding,
             PastDay, PastMonth, At, CountSince, DayStart, MonthStart, Day, Month

(* The database is locked: the thread loses its answer, if it has one.     *)
LEMMA DatabaseErrorStep ==
  ASSUME GuardInv, NEW w \in Workers, DatabaseError(w)
  PROVE  GuardInv'
<1>1. /\ Become(w, "idle", Idle) /\ UNCHANGED <<now, usage, crashes, answered, empties>>
      /\ faults' = faults + 1
  BY DEF DatabaseError, Return, storeVars, ghostVars
<1>2. "idle" \in Places /\ Idle \in Requests \cup {Idle}
  BY DEF Places
<1>3. QED BY <1>1, <1>2, ThreadStep

(* The process stops: each thread loses at most one answer.                *)
LEMMA CrashStep ==
  ASSUME GuardInv, Crash
  PROVE  GuardInv'
<1>1. /\ crashes' = crashes + 1
      /\ pc' = [w \in Workers |-> "idle"] /\ work' = [w \in Workers |-> Idle]
      /\ UNCHANGED <<now, usage, faults, answered, empties>>
  BY DEF Crash, storeVars, ghostVars
<1>2. GuardTypes'
  BY <1>1 DEF GuardInv, GuardTypes, Places
<1>3. Holding' = {} /\ PastDay' = {} /\ PastMonth' = {}
  BY <1>1 DEF Holding, PastDay, PastMonth, At
<1>4. Accounted'
  <2>1. PICK all \in Nat : all = Cardinality(Workers)
    BY WorkersAssumption, FS_CardinalityType
  <2>2. Cardinality(Holding) \in Nat /\ Cardinality(Holding) <= all
    BY <2>1, ThreadsCounted DEF Holding, At
  <2>3. /\ answered \in Nat /\ empties \in Nat /\ crashes \in Nat /\ faults \in Nat
        /\ Cardinality(usage) \in Nat
    BY CountTypes DEF GuardInv, GuardTypes
  <2>4. PICK lost \in Nat : lost = all * crashes
    BY <2>3
  <2>5. all * (crashes + 1) = lost + all
    BY <2>3, <2>4
  <2>6. answered <= Cardinality(usage) + empties + Cardinality(Holding) + faults + lost
    BY <2>1, <2>4 DEF GuardInv, Accounted
  <2>7. answered <= Cardinality(usage) + empties + 0 + faults + (lost + all)
    BY <2>2, <2>3, <2>6
  <2>8. Cardinality(Holding') = 0
    BY <1>3, FS_EmptySet
  <2>9. QED BY <1>1, <2>1, <2>5, <2>7, <2>8 DEF Accounted
<1>5. BudgetInv'
  <2>1. /\ CountSince(DayStart(now))' = CountSince(DayStart(now))
        /\ CountSince(MonthStart(now))' = CountSince(MonthStart(now))
    BY <1>1 DEF CountSince, DayStart, MonthStart, Day, Month
  <2>2. PastDay \in SUBSET Workers /\ PastMonth \in SUBSET Workers /\ {} \in SUBSET Workers
    BY DEF PastDay, PastMonth, At
  <2>3. Bounded(CountSince(DayStart(now)), Limit(HardDaily), {})
    BY <2>2, CountTypes, LimitType, BoundKept DEF GuardInv, BudgetInv
  <2>4. Bounded(CountSince(MonthStart(now)), Limit(HardMonthly), {})
    BY <2>2, CountTypes, LimitType, BoundKept DEF GuardInv, BudgetInv
  <2>5. QED BY <1>3, <2>1, <2>3, <2>4 DEF BudgetInv, Bounded
<1>6. QED BY <1>2, <1>4, <1>5 DEF GuardInv

-----------------------------------------------------------------------------
(* The guard holds at the start.                                           *)
LEMMA InitGuardInv == Init => GuardInv
<1> SUFFICES ASSUME Init PROVE GuardInv
  OBVIOUS
<1>1. IsFiniteSet(usage) /\ Cardinality(usage) = 0
  BY FS_EmptySet DEF Init
<1>2. GuardTypes
  BY <1>1 DEF Init, GuardTypes, Places
<1>4. Holding = {} /\ PastDay = {} /\ PastMonth = {}
  BY DEF Init, Holding, PastDay, PastMonth, At
<1>5. Accounted
  <2>1. Cardinality(Workers) \in Nat
    BY WorkersAssumption, FS_CardinalityType
  <2>2. Cardinality(Workers) * crashes = 0
    BY <2>1 DEF Init
  <2>3. QED BY <1>1, <1>4, <2>2, FS_EmptySet DEF Init, Accounted
<1>6. BudgetInv
  <2>1. \A s : CountSince(s) = 0
    BY FS_EmptySet DEF Init, CountSince
  <2>2. QED BY <2>1, LimitType DEF BudgetInv, Bounded
<1>7. QED BY <1>2, <1>5, <1>6 DEF GuardInv

(* No step breaks it.                                                      *)
LEMMA NextGuardInv == GuardInv /\ [Next]_vars => GuardInv'
<1> SUFFICES ASSUME GuardInv, [Next]_vars
             PROVE  GuardInv'
  OBVIOUS
<1>1. ASSUME NEW w \in Workers, Step(w)
      PROVE  GuardInv'
  BY <1>1, LookupStep, CheckDailyStep, CheckMonthlyStep, CheckCooldownStep, SendStep,
     ReplyTextStep, ReplyErrorStep, RecordCooldownStep, StoreStep, RecordCallStep DEF Step, Reply
<1>2. CASE UNCHANGED vars
  BY <1>2 DEF vars, GuardInv, GuardTypes, Accounted, BudgetInv, Bounded, Holding,
     PastDay, PastMonth, At, CountSince, DayStart, MonthStart, Day, Month
<1>3. QED BY <1>1, <1>2, AskStep, TickStep, MaintenanceStep, DatabaseErrorStep, CrashStep DEF Next

-----------------------------------------------------------------------------
(* The types of the two stores and of the threads, and the bounds with the *)
(* threads they wait for: for every number of threads and all limits.      *)
THEOREM GuardInvAlways == Spec => []GuardInv
BY InitGuardInv, NextGuardInv, PTL DEF Spec

(* What ensure_call_allowed and record_call, which share no transaction,   *)
(* let through beyond a hard limit is at most one call for each thread but *)
(* one, on each day and in each month.                                     *)
THEOREM OvershootIsBounded == Spec => []BudgetOvershootBounded
<1>1. GuardInv => BudgetOvershootBounded
  <2> SUFFICES ASSUME GuardInv PROVE BudgetOvershootBounded
    OBVIOUS
  <2>1. ASSUME NEW count \in Nat, NEW limit \in Nat \ {0}, NEW S \in SUBSET Workers,
               Bounded(count, limit, S)
        PROVE  count <= limit + Cardinality(Workers) - 1
    <3>1. Cardinality(S) \in Nat /\ Cardinality(Workers) \in Nat
      BY ThreadsCounted
    <3>2. QED BY <2>1, <3>1 DEF Bounded
  <2>2. PastDay \in SUBSET Workers /\ PastMonth \in SUBSET Workers
    BY DEF PastDay, PastMonth, At
  <2>3. QED BY <2>1, <2>2, CountTypes, LimitType DEF GuardInv, BudgetInv, BudgetOvershootBounded
<1>2. QED BY <1>1, GuardInvAlways, PTL

(* Every answer of the provider is counted, empty, in progress or cut off  *)
(* by a stop of the process or a database error.                           *)
THEOREM UncountedIsBounded == Spec => []UncountedBounded
<1>1. GuardInv => UncountedBounded
  <2> SUFFICES ASSUME GuardInv PROVE UncountedBounded
    OBVIOUS
  <2>1. PICK all \in Nat : all = Cardinality(Workers)
    BY WorkersAssumption, FS_CardinalityType
  <2>2. Cardinality(Holding) \in Nat /\ Cardinality(Holding) <= all
    BY <2>1, ThreadsCounted DEF Holding, At
  <2>3. /\ answered \in Nat /\ empties \in Nat /\ crashes \in Nat /\ faults \in Nat
        /\ Cardinality(usage) \in Nat
    BY CountTypes DEF GuardInv, GuardTypes
  <2>4. PICK lost \in Nat : lost = all * crashes
    BY <2>3
  <2>5. all * (1 + crashes) = all + lost
    BY <2>3, <2>4
  <2>6. answered <= Cardinality(usage) + empties + Cardinality(Holding) + faults + lost
    BY <2>1, <2>4 DEF GuardInv, Accounted
  <2>7. answered <= Cardinality(usage) + empties + faults + (all + lost)
    BY <2>2, <2>3, <2>6
  <2>8. QED BY <2>1, <2>3, <2>4, <2>5, <2>7 DEF UncountedBounded
<1>2. QED BY <1>1, GuardInvAlways, PTL

-----------------------------------------------------------------------------
(***************************************************************************)
(* The cooldown.  While it runs, what counts are the attempts that the     *)
(* requests checked before it may still make: no request joins them, and   *)
(* each one sent is one attempt fewer.                                     *)
(***************************************************************************)

LeftAt(at, local) ==
  IF ~Real(local.service) THEN 0
  ELSE IF at = "send" THEN MaxAttempts - local.attempt + 1
  ELSE IF at = "sent" THEN MaxAttempts - local.attempt
  ELSE 0

Left(w) == LeftAt(pc[w], work[w])

Pending == {pair \in Workers \X (1 .. MaxAttempts) : pair[2] <= Left(pair[1])}

Allowance == (Cardinality(Workers) - 1) * MaxAttempts

AttemptsCounted == \A w \in Workers : pc[w] # "idle" => work[w].attempt \in 1 .. MaxAttempts

CoolInv ==
  /\ cooldown \in Nat /\ cooled \in Nat
  /\ AttemptsCounted
  /\ cooled <= Allowance
  /\ now < cooldown => cooled + Cardinality(Pending) <= Allowance

(* What the other workers may still send is a number.                      *)
LEMMA AllowanceType == Allowance \in Nat
<1>1. PICK n \in Nat : n = Cardinality(Workers) - 1
  <2>1. Cardinality(Workers) \in Nat /\ Cardinality(Workers) # 0
    BY WorkersAssumption, FS_CardinalityType, FS_EmptySet
  <2>2. QED BY <2>1
<1>2. QED BY <1>1, LimitsAssumption DEF Allowance

(* So is the number of pending attempts.                                   *)
LEMMA PendingCounted == IsFiniteSet(Pending) /\ Cardinality(Pending) \in Nat
<1>1. IsFiniteSet(1 .. MaxAttempts)
  BY LimitsAssumption, FS_Interval
<1>2. IsFiniteSet(Workers \X (1 .. MaxAttempts))
  BY <1>1, WorkersAssumption, FS_Product
<1>3. Pending \in SUBSET (Workers \X (1 .. MaxAttempts))
  BY DEF Pending
<1>4. QED BY <1>2, <1>3, FS_Subset, FS_CardinalityType

(* The attempts of all threads but one fit the allowance.                  *)
LEMMA OthersFit ==
  ASSUME NEW w \in Workers, NEW pairs \in SUBSET ((Workers \ {w}) \X (1 .. MaxAttempts))
  PROVE  Cardinality(pairs) \in Nat /\ Cardinality(pairs) <= Allowance
<1>1. /\ IsFiniteSet(1 .. MaxAttempts) /\ Cardinality(1 .. MaxAttempts) = MaxAttempts
  BY LimitsAssumption, FS_Interval
<1>2. IsFiniteSet(Workers \ {w}) /\ Cardinality(Workers \ {w}) = Cardinality(Workers) - 1
  BY WorkersAssumption, FS_RemoveElement
<1>3. /\ IsFiniteSet((Workers \ {w}) \X (1 .. MaxAttempts))
      /\ Cardinality((Workers \ {w}) \X (1 .. MaxAttempts)) = Allowance
  <2>1. PICK others, numbers : others = Workers \ {w} /\ numbers = 1 .. MaxAttempts
    OBVIOUS
  <2>2. IsFiniteSet(others) /\ IsFiniteSet(numbers)
    BY <1>1, <1>2, <2>1
  <2>3. /\ IsFiniteSet(others \X numbers)
        /\ Cardinality(others \X numbers) = Cardinality(others) * Cardinality(numbers)
    BY ONLY <2>2, FS_Product
  <2>4. QED BY <1>1, <1>2, <2>1, <2>3 DEF Allowance
<1>4. QED BY <1>3, FS_Subset, FS_CardinalityType

(* Fewer attempts are no more in number.                                   *)
LEMMA FewerPending ==
  ASSUME Pending' \subseteq Pending
  PROVE  Cardinality(Pending') \in Nat /\ Cardinality(Pending') <= Cardinality(Pending)
BY PendingCounted, FS_Subset, FS_CardinalityType

(* A step without a request to the provider: none has more attempts left,  *)
(* unless no cooldown is running.                                          *)
LEMMA CoolKept ==
  ASSUME GuardInv, CoolInv, UNCHANGED <<cooldown, cooled>>, now' \in Nat, now <= now',
         AttemptsCounted',
         now < cooldown => \A w \in Workers : Left(w)' <= Left(w),
         \A w \in Workers : Left(w)' \in Int /\ Left(w) \in Int
  PROVE  CoolInv'
<1>1. CASE now < cooldown
  <2>1. Pending' \subseteq Pending
    <3>1. ASSUME NEW pair \in Workers \X (1 .. MaxAttempts), pair[2] <= Left(pair[1])'
          PROVE  pair[2] <= Left(pair[1])
      <4>1. pair[1] \in Workers /\ pair[2] \in Int
        OBVIOUS
      <4>2. QED BY <1>1, <3>1, <4>1
    <3>2. QED BY <3>1 DEF Pending
  <2>2. QED BY <2>1, FewerPending, PendingCounted, AllowanceType DEF CoolInv, GuardInv, GuardTypes
<1>2. CASE ~(now < cooldown)
  BY <1>2 DEF CoolInv, GuardInv, GuardTypes
<1>3. QED BY <1>1, <1>2

(* A worker has attempts left only when it is about to send or waits for   *)
(* the answer.                                                             *)
LEMMA LeftType ==
  ASSUME AttemptsCounted, NEW w \in Workers, GuardTypes
  PROVE  /\ Left(w) \in Nat
         /\ pc[w] \notin {"send", "sent"} => Left(w) = 0
BY LimitsAssumption DEF Left, LeftAt, AttemptsCounted

(* A step of a worker that leaves the cooldown and takes no attempts on.   *)
LEMMA CoolThread ==
  ASSUME GuardInv, CoolInv, NEW w \in Workers, NEW at, NEW local, Become(w, at, local),
         UNCHANGED <<now, cooldown, cooled>>,
         at # "idle" => local.attempt \in 1 .. MaxAttempts,
         now < cooldown => LeftAt(at, local) <= Left(w)
  PROVE  CoolInv'
<1>1. pc'[w] = at /\ work'[w] = local
  BY DEF Become, GuardInv, GuardTypes
<1>2. \A v \in Workers \ {w} : pc'[v] = pc[v] /\ work'[v] = work[v]
  BY DEF Become, GuardInv, GuardTypes
<1>3. AttemptsCounted'
  BY <1>1, <1>2 DEF AttemptsCounted, CoolInv
<1>4. Left(w)' = LeftAt(at, local)
  BY <1>1 DEF Left
<1>5. \A v \in Workers \ {w} : Left(v)' = Left(v)
  BY <1>2 DEF Left
<1>6. \A v \in Workers : Left(v) \in Int
  BY LimitsAssumption DEF Left, LeftAt, CoolInv, AttemptsCounted
<1>7. \A v \in Workers : Left(v)' \in Int
  <2>1. LeftAt(at, local) \in Int
    BY LimitsAssumption DEF LeftAt
  <2>2. QED BY <1>4, <1>5, <1>6, <2>1
<1>8. now \in Nat
  BY DEF GuardInv, GuardTypes
<1>9. QED BY <1>3, <1>4, <1>5, <1>6, <1>7, <1>8, CoolKept

(* A request asked, looked up, checked, answered, stored or counted.       *)
LEMMA StepKeepsCool ==
  ASSUME GuardInv, CoolInv, NEW w \in Workers,
         \/ \E s \in Services, p \in Prompts : Ask(w, s, p)
         \/ Lookup(w) \/ CheckDaily(w) \/ CheckMonthly(w) \/ CheckCooldown(w)
         \/ Reply(w) \/ Store(w) \/ RecordCall(w) \/ DatabaseError(w)
  PROVE  CoolInv'
<1>1. UNCHANGED <<now, cooldown, cooled>>
  BY DEF Ask, Lookup, CheckDaily, CheckMonthly, CheckCooldown, Reply, ReplyText, ReplyEmpty,
     ReplyServerError, ReplyOtherError, ReplyRateLimit, Store, RecordCall, DatabaseError,
     storeVars, ghostVars
<1>2. /\ AttemptsCounted /\ GuardTypes
      /\ Left(w) \in Nat
      /\ pc[w] \notin {"send", "sent"} => Left(w) = 0
  BY LeftType DEF CoolInv, GuardInv
<1>3. pc[w] # "idle" => /\ work[w].attempt \in 1 .. MaxAttempts /\ work[w] \in Requests
                        /\ work[w].at \in Nat /\ work[w].at <= now
  BY <1>2, RequestFacts DEF AttemptsCounted
<1>4. now \in Nat /\ cooldown \in Nat
  BY DEF GuardInv, GuardTypes, CoolInv
<1>5. ASSUME NEW at, NEW local, Become(w, at, local), at \notin {"send", "sent"},
             at # "idle" => local.attempt \in 1 .. MaxAttempts
      PROVE  CoolInv'
  <2>1. LeftAt(at, local) = 0
    BY <1>5 DEF LeftAt
  <2>2. LeftAt(at, local) <= Left(w)
    BY <1>2, <2>1
  <2>3. QED BY <1>1, <1>5, <2>2, CoolThread
<1>6. CASE Return(w)
  BY <1>5, <1>6 DEF Return
<1>7. ASSUME NEW s \in Services, NEW p \in Prompts, Ask(w, s, p) PROVE CoolInv'
  <2>1. PICK local : /\ Become(w, "lookup", local) /\ local.attempt = 1
    BY <1>7 DEF Ask
  <2>2. QED BY <1>5, <2>1, LimitsAssumption
<1>8. CASE Lookup(w)
  <2>1. \/ Return(w)
        \/ Become(w, "check", work[w])
        \/ ~Real(work[w].service) /\ Become(w, "send", work[w])
    BY <1>8 DEF Lookup, Enforced, Real
  <2>2. pc[w] = "lookup"
    BY <1>8 DEF Lookup
  <2>3. CASE ~Real(work[w].service) /\ Become(w, "send", work[w])
    <3>1. LeftAt("send", work[w]) = 0
      BY <2>3 DEF LeftAt
    <3>2. LeftAt("send", work[w]) <= Left(w)
      BY <1>2, <3>1
    <3>3. QED BY <1>1, <1>3, <2>2, <2>3, <3>2, CoolThread
  <2>4. QED BY <1>3, <1>5, <1>6, <2>1, <2>2, <2>3
<1>9. CASE CheckDaily(w)
  <2>1. PICK local : local = [work[w] EXCEPT !.at = now]
    OBVIOUS
  <2>2. Return(w) \/ Become(w, "monthly", local)
    BY <1>9, <2>1 DEF CheckDaily
  <2>3. local.attempt \in 1 .. MaxAttempts
    BY <1>3, <1>9, <2>1 DEF CheckDaily, Requests
  <2>4. QED BY <1>5, <1>6, <2>2, <2>3
<1>10. CASE CheckMonthly(w)
  BY <1>3, <1>5, <1>6, <1>10 DEF CheckMonthly
<1>11. CASE CheckCooldown(w)
  <2>1. CASE work[w].at < cooldown
    BY <1>6, <1>11, <2>1 DEF CheckCooldown
  <2>2. CASE ~(work[w].at < cooldown)
    <3>1. ~(now < cooldown)
      BY <1>3, <1>4, <1>11, <2>2 DEF CheckCooldown
    <3>2. PICK local : Become(w, "send", local) /\ local = [work[w] EXCEPT !.at = 0]
      BY <1>11, <2>2 DEF CheckCooldown
    <3>3. local.attempt \in 1 .. MaxAttempts
      BY <1>3, <1>11, <3>2 DEF CheckCooldown, Requests
    <3>4. QED BY <1>1, <3>1, <3>2, <3>3, CoolThread
  <2>3. QED BY <2>1, <2>2
<1>12. CASE Reply(w)
  <2>1. pc[w] = "sent"
    BY <1>12 DEF Reply, ReplyText, ReplyEmpty, ReplyServerError, ReplyOtherError, ReplyRateLimit
  <2>2. \/ Return(w) \/ Become(w, "store", work[w]) \/ Become(w, "limited", work[w])
        \/ /\ Real(work[w].service) /\ work[w].attempt < MaxAttempts
           /\ Become(w, "send", [work[w] EXCEPT !.attempt = @ + 1])
    BY <1>12 DEF Reply, ReplyText, ReplyEmpty, ReplyServerError, ReplyOtherError, ReplyRateLimit
  <2>3. CASE /\ Real(work[w].service) /\ work[w].attempt < MaxAttempts
             /\ Become(w, "send", [work[w] EXCEPT !.attempt = @ + 1])
    <3>1. PICK local : Become(w, "send", local) /\ local = [work[w] EXCEPT !.attempt = @ + 1]
      BY <2>3
    <3>2. local.attempt = work[w].attempt + 1 /\ local.service = work[w].service
      BY <1>3, <2>1, <3>1 DEF Requests
    <3>3. LeftAt("send", local) = MaxAttempts - work[w].attempt
      BY <1>3, <2>1, <2>3, <3>2, LimitsAssumption DEF LeftAt
    <3>4. Left(w) = MaxAttempts - work[w].attempt
      BY <2>1, <2>3 DEF Left, LeftAt
    <3>5. LeftAt("send", local) <= Left(w)
      BY <1>2, <3>3, <3>4
    <3>6. local.attempt \in 1 .. MaxAttempts
      BY <1>3, <2>1, <2>3, <3>2, LimitsAssumption
    <3>7. QED BY <1>1, <3>1, <3>5, <3>6, CoolThread
  <2>4. QED BY <1>3, <1>5, <1>6, <2>1, <2>2, <2>3
<1>13. CASE Store(w)
  BY <1>3, <1>5, <1>6, <1>13 DEF Store
<1>14. CASE RecordCall(w)
  BY <1>6, <1>14 DEF RecordCall
<1>15. CASE DatabaseError(w)
  BY <1>6, <1>15 DEF DatabaseError
<1>16. QED BY <1>7, <1>8, <1>9, <1>10, <1>11, <1>12, <1>13, <1>14, <1>15

(* A request sent in the cooldown is one of those pending.                 *)
LEMMA SendKeepsCool ==
  ASSUME GuardInv, CoolInv, NEW w \in Workers, Send(w)
  PROVE  CoolInv'
<1>1. /\ pc[w] = "send" /\ Become(w, "sent", work[w]) /\ UNCHANGED <<now, cooldown>>
      /\ cooled' = cooled + (IF Real(work[w].service) /\ now < cooldown THEN 1 ELSE 0)
  BY DEF Send, storeVars
<1>2. /\ AttemptsCounted /\ GuardTypes
      /\ work[w].attempt \in 1 .. MaxAttempts
  BY <1>1 DEF CoolInv, GuardInv, AttemptsCounted
<1>3. CASE ~(Real(work[w].service) /\ now < cooldown)
  <2>1. cooled' = cooled
    BY <1>1, <1>3 DEF CoolInv
  <2>2. now < cooldown => LeftAt("sent", work[w]) <= Left(w)
    BY <1>1, <1>3 DEF LeftAt, Left
  <2>3. QED BY <1>1, <1>2, <2>1, <2>2, CoolThread
<1>4. CASE Real(work[w].service) /\ now < cooldown
  <2>1. pc'[w] = "sent" /\ work'[w] = work[w]
    BY <1>1, <1>2 DEF Become, GuardTypes
  <2>2. \A v \in Workers \ {w} : pc'[v] = pc[v] /\ work'[v] = work[v]
    BY <1>1, <1>2 DEF Become, GuardTypes
  <2>3. AttemptsCounted'
    BY <1>2, <2>1, <2>2 DEF AttemptsCounted
  <2>4. PICK n \in 1 .. MaxAttempts : n = MaxAttempts - work[w].attempt + 1
    BY <1>2, LimitsAssumption
  <2>5. Left(w) = n /\ Left(w)' = n - 1
    BY <1>1, <1>2, <1>4, <2>1, <2>4, LimitsAssumption DEF Left, LeftAt
  <2>6. \A v \in Workers \ {w} : Left(v)' = Left(v)
    BY <2>2 DEF Left
  <2>7. Pending' = Pending \ {<<w, n>>}
    <3>1. ASSUME NEW pair \in Workers \X (1 .. MaxAttempts)
          PROVE  pair[2] <= Left(pair[1])' <=> pair[2] <= Left(pair[1]) /\ pair # <<w, n>>
      <4>1. pair[1] \in Workers /\ pair[2] \in 1 .. MaxAttempts /\ pair = <<pair[1], pair[2]>>
        OBVIOUS
      <4>2. CASE pair[1] = w
        <5>1. pair # <<w, n>> <=> pair[2] # n
          BY <4>1, <4>2
        <5>2. pair[2] <= n - 1 <=> pair[2] <= n /\ pair[2] # n
          BY <2>4, <4>1, LimitsAssumption
        <5>3. QED BY <2>5, <4>2, <5>1, <5>2
      <4>3. CASE pair[1] # w
        BY <2>6, <4>1, <4>3
      <4>4. QED BY <4>2, <4>3
    <3>2. QED BY <3>1 DEF Pending
  <2>8. <<w, n>> \in Pending
    BY <2>4, <2>5 DEF Pending
  <2>9. /\ Cardinality(Pending') = Cardinality(Pending) - 1
        /\ Cardinality(Pending) \in Nat
    BY <2>7, <2>8, PendingCounted, FS_RemoveElement
  <2>10. /\ cooled' = cooled + 1 /\ cooled \in Nat /\ cooldown' \in Nat
         /\ cooled + Cardinality(Pending) <= Allowance
    BY <1>1, <1>4 DEF CoolInv
  <2>11. Cardinality(Pending') \in Nat
    BY <2>7, PendingCounted, FS_RemoveElement, FS_CardinalityType
  <2>12. /\ cooled' \in Nat /\ cooled' <= Allowance
         /\ cooled' + Cardinality(Pending') <= Allowance
    BY <2>9, <2>10, <2>11, AllowanceType
  <2>13. QED BY <2>3, <2>10, <2>12 DEF CoolInv
<1>5. QED BY <1>3, <1>4

(* A new cooldown: the thread that records it has no attempt left.         *)
LEMMA CooldownKeepsCool ==
  ASSUME GuardInv, GuardInv', CoolInv, NEW w \in Workers, RecordCooldown(w)
  PROVE  CoolInv'
<1>1. /\ Become(w, "idle", Idle) /\ cooled' = 0
      /\ cooldown' = now + CooldownLength /\ now \in Nat
  BY DEF RecordCooldown, Return, GuardInv, GuardTypes
<1>2. pc'[w] = "idle" /\ \A v \in Workers \ {w} : pc'[v] = pc[v] /\ work'[v] = work[v]
  BY <1>1 DEF Become, GuardInv, GuardTypes
<1>3. AttemptsCounted'
  BY <1>2 DEF CoolInv, AttemptsCounted
<1>4. Left(w)' = 0
  BY <1>2 DEF Left, LeftAt
<1>5. Cardinality(Pending)' \in Nat /\ Cardinality(Pending)' <= Allowance
  <2>1. Pending' \in SUBSET ((Workers \ {w}) \X (1 .. MaxAttempts))
    <3>1. ASSUME NEW pair \in Workers \X (1 .. MaxAttempts), pair[2] <= Left(pair[1])'
          PROVE  pair \in (Workers \ {w}) \X (1 .. MaxAttempts)
      BY <1>4, <3>1
    <3>2. QED BY <3>1 DEF Pending
  <2>2. QED BY <2>1, OthersFit
<1>6. QED BY <1>1, <1>3, <1>5, AllowanceType, LimitsAssumption DEF CoolInv, Allowance

(* The sends during a cooldown are paid for by the attempts that were      *)
(* pending.                                                                *)
LEMMA CoolAlways == Spec => []CoolInv
<1>1. Init => CoolInv
  <2> SUFFICES ASSUME Init PROVE CoolInv
    OBVIOUS
  <2>1. AttemptsCounted
    BY DEF Init, AttemptsCounted
  <2>2. now = 0 /\ cooldown = 0 /\ cooled = 0
    BY DEF Init
  <2>3. QED BY <2>1, <2>2, AllowanceType DEF CoolInv
<1>2. ASSUME GuardInv, GuardInv', CoolInv, [Next]_vars PROVE CoolInv'
  <2> USE <1>2
  <2>1. ASSUME NEW w \in Workers,
               Step(w) \/ DatabaseError(w) \/ \E s \in Services, p \in Prompts : Ask(w, s, p)
        PROVE  CoolInv'
    BY <2>1, StepKeepsCool, SendKeepsCool, CooldownKeepsCool DEF Step
  <2>2. CASE Tick \/ PurgeExpired \/ EnforceMaxRows(1) \/ UNCHANGED vars
    <3>1. /\ UNCHANGED <<cooldown, cooled, pc, work>>
          /\ now' \in Nat /\ now <= now'
      BY <2>2 DEF Tick, PurgeExpired, EnforceMaxRows, vars, storeVars, ghostVars, GuardInv, GuardTypes
    <3>2. AttemptsCounted' /\ AttemptsCounted
      BY <3>1 DEF CoolInv, AttemptsCounted
    <3>3. \A w \in Workers : Left(w)' = Left(w) /\ Left(w) \in Nat
      BY <3>1, <3>2, LeftType DEF Left, GuardInv
    <3>4. QED BY <3>1, <3>2, <3>3, CoolKept
  <2>3. CASE Crash
    <3>1. UNCHANGED <<now, cooldown, cooled>> /\ pc' = [w \in Workers |-> "idle"]
      BY <2>3 DEF Crash, storeVars, ghostVars
    <3>2. AttemptsCounted' /\ AttemptsCounted /\ now \in Nat
      BY <3>1 DEF CoolInv, AttemptsCounted, GuardInv, GuardTypes
    <3>3. \A w \in Workers : Left(w)' = 0 /\ Left(w) \in Nat
      BY <3>1, <3>2, LeftType DEF Left, LeftAt, GuardInv
    <3>4. QED BY <3>1, <3>2, <3>3, CoolKept
  <2>4. QED BY <2>1, <2>2, <2>3 DEF Next
<1>3. QED BY <1>1, <1>2, GuardInvAlways, PTL DEF Spec

(* ensure_call_allowed and record_cooldown: once the provider is in        *)
(* cooldown it gets no more than the attempts of the requests checked      *)
(* before, for any number of threads and retries and any cooldown.         *)
THEOREM CoolingSendsAreBounded == Spec => []CoolingSendsBounded
<1>1. CoolInv => CoolingSendsBounded
  BY DEF CoolInv, Allowance, CoolingSendsBounded
<1>2. QED BY <1>1, CoolAlways, PTL

-----------------------------------------------------------------------------
(***************************************************************************)
(* The repeats.  As long as a key has an answer to serve, what counts are  *)
(* the attempts that the requests for it may still make which had missed   *)
(* the cache before: none joins them, each one sent is one fewer, and the  *)
(* thread that stores the first answer has none left.                      *)
(***************************************************************************)

AheadAt(at, local, key) ==
  IF at \in {"check", "monthly", "cooling", "send"} /\ local.key = key
    THEN MaxAttempts - local.attempt + 1
  ELSE IF at = "sent" /\ local.key = key THEN MaxAttempts - local.attempt
  ELSE 0

Ahead(w, key) == AheadAt(pc[w], work[w], key)

Waiting(key) == {pair \in Workers \X (1 .. MaxAttempts) : pair[2] <= Ahead(pair[1], key)}

RowsTyped == \A key \in DOMAIN cache : cache[key] \in [created: Nat, again: Nat]

RepeatInv ==
  /\ RowsTyped
  /\ \A key \in DOMAIN cache :
       Servable(cache[key]) => cache[key].again + Cardinality(Waiting(key)) <= Allowance

(* The attempts of a thread that is under way.                             *)
LEMMA AheadType ==
  ASSUME AttemptsCounted, NEW w \in Workers, NEW key
  PROVE  Ahead(w, key) \in Nat
BY LimitsAssumption DEF Ahead, AheadAt, AttemptsCounted

(* Those of all threads for a key are finitely many.                       *)
LEMMA WaitingCounted ==
  ASSUME NEW key
  PROVE  IsFiniteSet(Waiting(key)) /\ Cardinality(Waiting(key)) \in Nat
<1>1. IsFiniteSet(1 .. MaxAttempts)
  BY LimitsAssumption, FS_Interval
<1>2. IsFiniteSet(Workers \X (1 .. MaxAttempts))
  BY <1>1, WorkersAssumption, FS_Product
<1>3. Waiting(key) \in SUBSET (Workers \X (1 .. MaxAttempts))
  BY DEF Waiting
<1>4. QED BY <1>2, <1>3, FS_Subset, FS_CardinalityType

(* A key for which no thread has more attempts left than before.           *)
LEMMA FewerWaiting ==
  ASSUME NEW key, AttemptsCounted, AttemptsCounted',
         \A w \in Workers : Ahead(w, key)' <= Ahead(w, key)
  PROVE  Cardinality(Waiting(key)') \in Nat
         /\ Cardinality(Waiting(key)') <= Cardinality(Waiting(key))
<1>1. ASSUME NEW pair \in Workers \X (1 .. MaxAttempts), pair[2] <= Ahead(pair[1], key)'
      PROVE  pair[2] <= Ahead(pair[1], key)
  <2>1. PICK w \in Workers, n \in Int : pair[1] = w /\ pair[2] = n
    OBVIOUS
  <2>2. Ahead(w, key) \in Nat
    BY AheadType
  <2>3. Ahead(w, key)' \in Nat
    BY LimitsAssumption DEF Ahead, AheadAt, AttemptsCounted
  <2>4. QED BY <1>1, <2>1, <2>2, <2>3
<1>2. Waiting(key)' \subseteq Waiting(key)
  BY <1>1 DEF Waiting
<1>3. QED BY <1>2, WaitingCounted, FS_Subset, FS_CardinalityType

(* A step that leaves the rows, or drops some of them, and gives no thread *)
(* more attempts for a key that has a row to serve.                        *)
LEMMA RepeatsKept ==
  ASSUME RepeatInv, AttemptsCounted, AttemptsCounted', now \in Nat, now' \in Nat, now <= now',
         DOMAIN cache' \subseteq DOMAIN cache,
         \A key \in DOMAIN cache' : cache'[key] = cache[key],
         \A key \in DOMAIN cache' :
           Servable(cache[key]) => \A w \in Workers : Ahead(w, key)' <= Ahead(w, key)
  PROVE  RepeatInv'
<1>1. RowsTyped'
  BY DEF RepeatInv, RowsTyped
<1>2. ASSUME NEW key \in DOMAIN cache', ~ (now' - cache'[key].created > TTL)
      PROVE  cache'[key].again + Cardinality(Waiting(key)') <= Allowance
  <2>1. cache[key] \in [created: Nat, again: Nat] /\ cache'[key] = cache[key] /\ key \in DOMAIN cache
    BY DEF RepeatInv, RowsTyped
  <2>2. PICK c \in Nat, a \in Nat : c = cache[key].created /\ a = cache[key].again
    BY <2>1
  <2>3. ~ (now - c > TTL)
    BY <1>2, <2>1, <2>2, LimitsAssumption
  <2>4. Servable(cache[key])
    BY <2>2, <2>3 DEF Servable
  <2>5. a + Cardinality(Waiting(key)) <= Allowance
    BY <2>1, <2>2, <2>4 DEF RepeatInv
  <2>6. Cardinality(Waiting(key)') \in Nat /\ Cardinality(Waiting(key)') <= Cardinality(Waiting(key))
    BY <2>4, FewerWaiting
  <2>7. QED BY <2>1, <2>2, <2>5, <2>6, WaitingCounted, AllowanceType
<1>3. QED BY <1>1, <1>2 DEF RepeatInv, Servable, Allowance

(* A thread that moves on and leaves the rows.                             *)
LEMMA RepeatsThread ==
  ASSUME GuardInv, CoolInv, RepeatInv, NEW w \in Workers, NEW at, NEW local, Become(w, at, local),
         UNCHANGED <<now, cache>>,
         at # "idle" => local.attempt \in 1 .. MaxAttempts,
         \A key \in DOMAIN cache :
           Servable(cache[key]) => AheadAt(at, local, key) <= Ahead(w, key)
  PROVE  RepeatInv'
<1>1. pc'[w] = at /\ work'[w] = local
  BY DEF Become, GuardInv, GuardTypes
<1>2. \A v \in Workers \ {w} : pc'[v] = pc[v] /\ work'[v] = work[v]
  BY DEF Become, GuardInv, GuardTypes
<1>3. AttemptsCounted' /\ AttemptsCounted
  BY <1>1, <1>2 DEF AttemptsCounted, CoolInv
<1>4. ASSUME NEW key \in DOMAIN cache, Servable(cache[key]), NEW v \in Workers
      PROVE  Ahead(v, key)' <= Ahead(v, key)
  <2>1. CASE v = w
    BY <1>1, <1>4, <2>1 DEF Ahead
  <2>2. CASE v # w
    <3>1. Ahead(v, key)' = Ahead(v, key)
      BY <1>2, <2>2 DEF Ahead
    <3>2. QED BY <1>3, <3>1, AheadType
  <2>3. QED BY <2>1, <2>2
<1>5. now \in Nat
  BY DEF GuardInv, GuardTypes
<1>6. QED BY <1>3, <1>4, <1>5, RepeatsKept

(* A request asked, looked up, checked, answered or counted.               *)
LEMMA StepKeepsRepeats ==
  ASSUME GuardInv, CoolInv, RepeatInv, NEW w \in Workers,
         \/ \E s \in Services, p \in Prompts : Ask(w, s, p)
         \/ Lookup(w) \/ CheckDaily(w) \/ CheckMonthly(w) \/ CheckCooldown(w)
         \/ Reply(w) \/ RecordCooldown(w) \/ RecordCall(w) \/ DatabaseError(w)
  PROVE  RepeatInv'
<1>1. UNCHANGED <<now, cache>>
  BY DEF Ask, Lookup, CheckDaily, CheckMonthly, CheckCooldown, Reply, ReplyText, ReplyEmpty,
     ReplyServerError, ReplyOtherError, ReplyRateLimit, RecordCooldown, RecordCall, DatabaseError,
     storeVars, ghostVars
<1>2. AttemptsCounted /\ GuardTypes
  BY DEF CoolInv, GuardInv
<1>3. pc[w] # "idle" => work[w].attempt \in 1 .. MaxAttempts /\ work[w] \in Requests
  BY <1>2, RequestFacts DEF AttemptsCounted
<1>4. ASSUME NEW at, NEW local, Become(w, at, local),
             at \notin {"check", "monthly", "cooling", "send", "sent"},
             at # "idle" => local.attempt \in 1 .. MaxAttempts
      PROVE  RepeatInv'
  <2>1. ASSUME NEW key PROVE AheadAt(at, local, key) <= Ahead(w, key)
    <3>1. AheadAt(at, local, key) = 0
      BY <1>4 DEF AheadAt
    <3>2. QED BY <1>2, <3>1, AheadType
  <2>2. QED BY <1>1, <1>4, <2>1, RepeatsThread
<1>5. CASE Return(w)
  BY <1>4, <1>5 DEF Return
<1>6. ASSUME NEW at \in {"monthly", "cooling", "send"}, NEW local, Become(w, at, local),
             pc[w] \in {"check", "monthly", "cooling"},
             local.key = work[w].key, local.attempt = work[w].attempt
      PROVE  RepeatInv'
  <2>1. ASSUME NEW key PROVE AheadAt(at, local, key) <= Ahead(w, key)
    BY <1>2, <1>6, AheadType DEF AheadAt, Ahead
  <2>2. QED BY <1>1, <1>3, <1>6, <2>1, RepeatsThread
<1>7. ASSUME NEW s \in Services, NEW p \in Prompts, Ask(w, s, p) PROVE RepeatInv'
  <2>1. PICK local : /\ Become(w, "lookup", local) /\ local.attempt = 1
    BY <1>7 DEF Ask
  <2>2. QED BY <1>4, <2>1, LimitsAssumption
<1>8. CASE Lookup(w)
  <2>1. CASE Cached(work[w].key)
    BY <1>5, <1>8, <2>1 DEF Lookup
  <2>2. CASE ~Cached(work[w].key)
    <3>1. PICK at \in {"check", "send"} : Become(w, at, work[w]) /\ pc[w] = "lookup"
      BY <1>8, <2>2 DEF Lookup
    <3>2. ASSUME NEW key \in DOMAIN cache, Servable(cache[key])
          PROVE  AheadAt(at, work[w], key) <= Ahead(w, key)
      <4>1. work[w].key # key
        BY <2>2, <3>2 DEF Cached
      <4>2. AheadAt(at, work[w], key) = 0
        BY <3>1, <4>1 DEF AheadAt
      <4>3. QED BY <1>2, <4>2, AheadType
    <3>3. QED BY <1>1, <1>3, <3>1, <3>2, RepeatsThread
  <2>3. QED BY <2>1, <2>2
<1>9. CASE CheckDaily(w)
  <2>1. PICK local : local = [work[w] EXCEPT !.at = now]
    OBVIOUS
  <2>2. pc[w] = "check" /\ (Return(w) \/ Become(w, "monthly", local))
    BY <1>9, <2>1 DEF CheckDaily
  <2>3. local.key = work[w].key /\ local.attempt = work[w].attempt
    BY <1>3, <2>1, <2>2 DEF Requests
  <2>4. QED BY <1>5, <1>6, <2>2, <2>3
<1>10. CASE CheckMonthly(w)
  BY <1>5, <1>6, <1>10 DEF CheckMonthly
<1>11. CASE CheckCooldown(w)
  <2>1. PICK local : local = [work[w] EXCEPT !.at = 0]
    OBVIOUS
  <2>2. pc[w] = "cooling" /\ (Return(w) \/ Become(w, "send", local))
    BY <1>11, <2>1 DEF CheckCooldown
  <2>3. local.key = work[w].key /\ local.attempt = work[w].attempt
    BY <1>3, <2>1, <2>2 DEF Requests
  <2>4. QED BY <1>5, <1>6, <2>2, <2>3
<1>12. CASE Reply(w)
  <2>1. pc[w] = "sent"
    BY <1>12 DEF Reply, ReplyText, ReplyEmpty, ReplyServerError, ReplyOtherError, ReplyRateLimit
  <2>2. \/ Return(w) \/ Become(w, "store", work[w]) \/ Become(w, "limited", work[w])
        \/ /\ work[w].attempt < MaxAttempts
           /\ Become(w, "send", [work[w] EXCEPT !.attempt = @ + 1])
    BY <1>12 DEF Reply, ReplyText, ReplyEmpty, ReplyServerError, ReplyOtherError, ReplyRateLimit
  <2>3. CASE /\ work[w].attempt < MaxAttempts
             /\ Become(w, "send", [work[w] EXCEPT !.attempt = @ + 1])
    <3>1. PICK local : Become(w, "send", local) /\ local = [work[w] EXCEPT !.attempt = @ + 1]
      BY <2>3
    <3>2. PICK n \in 1 .. MaxAttempts : n = work[w].attempt
      BY <1>3, <2>1
    <3>3. local.attempt = n + 1 /\ local.key = work[w].key
      BY <1>3, <2>1, <3>1, <3>2 DEF Requests
    <3>4. ASSUME NEW key PROVE AheadAt("send", local, key) <= Ahead(w, key)
      BY <2>1, <3>2, <3>3, LimitsAssumption DEF AheadAt, Ahead
    <3>5. local.attempt \in 1 .. MaxAttempts
      BY <2>3, <3>2, <3>3, LimitsAssumption
    <3>6. QED BY <1>1, <3>1, <3>4, <3>5, RepeatsThread
  <2>4. QED BY <1>3, <1>4, <1>5, <2>1, <2>2, <2>3
<1>13. CASE RecordCooldown(w)
  BY <1>5, <1>13 DEF RecordCooldown
<1>14. CASE RecordCall(w)
  BY <1>5, <1>14 DEF RecordCall
<1>15. CASE DatabaseError(w)
  BY <1>5, <1>15 DEF DatabaseError
<1>16. QED BY <1>7, <1>8, <1>9, <1>10, <1>11, <1>12, <1>13, <1>14, <1>15

(* A request sent for a key with a row to serve is one of those waiting.   *)
LEMMA SendKeepsRepeats ==
  ASSUME GuardInv, CoolInv, RepeatInv, NEW w \in Workers, Send(w)
  PROVE  RepeatInv'
<1>1. PICK k : k = work[w].key
  OBVIOUS
<1>2. /\ pc[w] = "send" /\ Become(w, "sent", work[w]) /\ now' = now
      /\ cache' = IF Served(k) THEN [cache EXCEPT ![k].again = @ + 1] ELSE cache
  BY <1>1 DEF Send
<1>3. /\ AttemptsCounted /\ GuardTypes /\ now \in Nat
      /\ work[w].attempt \in 1 .. MaxAttempts
  BY <1>2 DEF CoolInv, GuardInv, AttemptsCounted, GuardTypes
<1>4. pc'[w] = "sent" /\ work'[w] = work[w]
  BY <1>2, <1>3 DEF Become, GuardTypes
<1>5. \A v \in Workers \ {w} : pc'[v] = pc[v] /\ work'[v] = work[v]
  BY <1>2, <1>3 DEF Become, GuardTypes
<1>6. AttemptsCounted'
  BY <1>3, <1>4, <1>5 DEF AttemptsCounted
<1>7. PICK n \in 1 .. MaxAttempts : n = MaxAttempts - work[w].attempt + 1
  BY <1>3, LimitsAssumption
<1>8. Ahead(w, k) = n /\ Ahead(w, k)' = n - 1
  BY <1>1, <1>2, <1>3, <1>4, <1>7, LimitsAssumption DEF Ahead, AheadAt
<1>9. \A key : \A v \in Workers \ {w} : Ahead(v, key)' = Ahead(v, key)
  BY <1>5 DEF Ahead
<1>10. \A key : key # k => Ahead(w, key)' = Ahead(w, key)
  BY <1>1, <1>2, <1>4 DEF Ahead, AheadAt
<1>11. \A key : \A v \in Workers : Ahead(v, key) \in Nat
  BY <1>3, AheadType
<1>12. \A key : \A v \in Workers : Ahead(v, key)' <= Ahead(v, key)
  <2> SUFFICES ASSUME NEW key, NEW v \in Workers PROVE Ahead(v, key)' <= Ahead(v, key)
    OBVIOUS
  <2>1. Ahead(v, key) \in Nat
    BY <1>11
  <2>2. CASE v # w
    BY <1>9, <2>1, <2>2
  <2>3. CASE v = w /\ key # k
    BY <1>10, <2>1, <2>3
  <2>4. CASE v = w /\ key = k
    BY <1>7, <1>8, <2>4, LimitsAssumption
  <2>5. QED BY <2>2, <2>3, <2>4
<1>13. CASE ~Served(k)
  BY <1>2, <1>3, <1>6, <1>12, <1>13, RepeatsKept
<1>14. CASE Served(k)
  <2>1. /\ k \in DOMAIN cache /\ Servable(cache[k])
        /\ DOMAIN cache' = DOMAIN cache
        /\ \A key \in DOMAIN cache \ {k} : cache'[key] = cache[key]
        /\ cache'[k] = [cache[k] EXCEPT !.again = @ + 1]
    BY <1>2, <1>14 DEF Served
  <2>2. PICK c \in Nat, a \in Nat : cache[k] = [created |-> c, again |-> a]
    BY <2>1 DEF RepeatInv, RowsTyped
  <2>3. cache'[k] = [created |-> c, again |-> a + 1]
    BY <2>1, <2>2
  <2>4. RowsTyped'
    BY <2>1, <2>3 DEF RepeatInv, RowsTyped
  <2>5. Waiting(k)' = Waiting(k) \ {<<w, n>>} /\ <<w, n>> \in Waiting(k)
    <3>1. ASSUME NEW pair \in Workers \X (1 .. MaxAttempts)
          PROVE  pair[2] <= Ahead(pair[1], k)' <=> pair[2] <= Ahead(pair[1], k) /\ pair # <<w, n>>
      <4>1. pair[1] \in Workers /\ pair[2] \in 1 .. MaxAttempts /\ pair = <<pair[1], pair[2]>>
        OBVIOUS
      <4>2. CASE pair[1] = w
        <5>1. pair # <<w, n>> <=> pair[2] # n
          BY <4>1, <4>2
        <5>2. pair[2] <= n - 1 <=> pair[2] <= n /\ pair[2] # n
          BY <1>7, <4>1, LimitsAssumption
        <5>3. QED BY <1>8, <4>2, <5>1, <5>2
      <4>3. CASE pair[1] # w
        BY <1>9, <4>1, <4>3
      <4>4. QED BY <4>2, <4>3
    <3>2. <<w, n>> \in Waiting(k)
      BY <1>7, <1>8, LimitsAssumption DEF Waiting
    <3>3. QED BY <3>1, <3>2 DEF Waiting
  <2>6. ASSUME NEW key \in DOMAIN cache', ~ (now' - cache'[key].created > TTL)
        PROVE  cache'[key].again + Cardinality(Waiting(key)') <= Allowance
    <3>1. CASE key = k
      <4>1. a + Cardinality(Waiting(k)) <= Allowance
        BY <2>1, <2>2 DEF RepeatInv
      <4>2. /\ Cardinality(Waiting(k)') = Cardinality(Waiting(k)) - 1
            /\ Cardinality(Waiting(k)) \in Nat
        BY <2>5, WaitingCounted, FS_RemoveElement
      <4>3. QED BY <2>3, <3>1, <4>1, <4>2, AllowanceType
    <3>2. CASE key # k
      <4>1. cache'[key] = cache[key] /\ key \in DOMAIN cache
        BY <2>1, <3>2
      <4>2. Servable(cache[key])
        BY <1>2, <2>6, <4>1 DEF Servable
      <4>3. /\ cache[key].again + Cardinality(Waiting(key)) <= Allowance
            /\ cache[key].again \in Nat
        BY <4>1, <4>2 DEF RepeatInv, RowsTyped
      <4>4. Cardinality(Waiting(key)') \in Nat /\ Cardinality(Waiting(key)') <= Cardinality(Waiting(key))
        BY <1>3, <1>6, <1>12, FewerWaiting
      <4>5. QED BY <4>1, <4>3, <4>4, WaitingCounted, AllowanceType
    <3>3. QED BY <3>1, <3>2
  <2>7. QED BY <2>4, <2>6 DEF RepeatInv, Servable, Allowance
<1>15. QED BY <1>13, <1>14

(* An answer stored: over one that is served nothing changes; where there  *)
(* is none, the other threads are all that may still ask.                  *)
LEMMA StoreKeepsRepeats ==
  ASSUME GuardInv, CoolInv, RepeatInv, NEW w \in Workers, Store(w)
  PROVE  RepeatInv'
<1>1. PICK k : k = work[w].key
  OBVIOUS
<1>2. PICK at, local :
        /\ at \in {"record", "idle"} /\ pc[w] = "store" /\ Become(w, at, local) /\ now' = now
        /\ at # "idle" => local = work[w]
        /\ cache' = WithRow(k, [created |-> now, again |-> Repeats(k)])
  BY <1>1 DEF Store, Return
<1>3. /\ AttemptsCounted /\ GuardTypes /\ now \in Nat
      /\ work[w].attempt \in 1 .. MaxAttempts
  BY <1>2 DEF CoolInv, GuardInv, AttemptsCounted, GuardTypes
<1>4. pc'[w] = at /\ work'[w] = local
  BY <1>2, <1>3 DEF Become, GuardTypes
<1>5. \A v \in Workers \ {w} : pc'[v] = pc[v] /\ work'[v] = work[v]
  BY <1>2, <1>3 DEF Become, GuardTypes
<1>6. AttemptsCounted'
  BY <1>2, <1>3, <1>4, <1>5 DEF AttemptsCounted
<1>7. \A key : Ahead(w, key)' = 0
  BY <1>2, <1>4 DEF Ahead, AheadAt
<1>8. \A key : \A v \in Workers : Ahead(v, key)' <= Ahead(v, key)
  <2> SUFFICES ASSUME NEW key, NEW v \in Workers PROVE Ahead(v, key)' <= Ahead(v, key)
    OBVIOUS
  <2>1. Ahead(v, key) \in Nat
    BY <1>3, AheadType
  <2>2. v # w => Ahead(v, key)' = Ahead(v, key)
    BY <1>5 DEF Ahead
  <2>3. QED BY <1>7, <2>1, <2>2
<1>9. /\ DOMAIN cache' = DOMAIN cache \cup {k}
      /\ \A key \in DOMAIN cache \ {k} : cache'[key] = cache[key]
      /\ cache'[k] = [created |-> now, again |-> Repeats(k)]
  BY <1>2 DEF WithRow
<1>10. Repeats(k) \in Nat /\ Repeats(k) + Cardinality(Waiting(k)') <= Allowance
  <2>1. CASE Served(k)
    <3>1. /\ k \in DOMAIN cache /\ Repeats(k) = cache[k].again /\ cache[k].again \in Nat
          /\ cache[k].again + Cardinality(Waiting(k)) <= Allowance
      BY <2>1 DEF Served, Repeats, RepeatInv, RowsTyped
    <3>2. Cardinality(Waiting(k)') \in Nat /\ Cardinality(Waiting(k)') <= Cardinality(Waiting(k))
      BY <1>3, <1>6, <1>8, FewerWaiting
    <3>3. QED BY <3>1, <3>2, WaitingCounted, AllowanceType
  <2>2. CASE ~Served(k)
    <3>1. Repeats(k) = 0
      BY <2>2 DEF Repeats
    <3>2. Waiting(k)' \in SUBSET ((Workers \ {w}) \X (1 .. MaxAttempts))
      <4>1. ASSUME NEW pair \in Workers \X (1 .. MaxAttempts), pair[2] <= Ahead(pair[1], k)'
            PROVE  pair \in (Workers \ {w}) \X (1 .. MaxAttempts)
        BY <1>7, <4>1
      <4>2. QED BY <4>1 DEF Waiting
    <3>3. QED BY <3>1, <3>2, OthersFit
  <2>3. QED BY <2>1, <2>2
<1>11. RowsTyped'
  BY <1>3, <1>9, <1>10 DEF RepeatInv, RowsTyped
<1>12. ASSUME NEW key \in DOMAIN cache', ~ (now' - cache'[key].created > TTL)
      PROVE  cache'[key].again + Cardinality(Waiting(key)') <= Allowance
  <2>1. CASE key = k
    BY <1>9, <1>10, <2>1
  <2>2. CASE key # k
    <3>1. cache'[key] = cache[key] /\ key \in DOMAIN cache
      BY <1>9, <2>2
    <3>2. Servable(cache[key])
      BY <1>2, <1>12, <3>1 DEF Servable
    <3>3. /\ cache[key].again + Cardinality(Waiting(key)) <= Allowance
          /\ cache[key].again \in Nat
      BY <3>1, <3>2 DEF RepeatInv, RowsTyped
    <3>4. Cardinality(Waiting(key)') \in Nat /\ Cardinality(Waiting(key)') <= Cardinality(Waiting(key))
      BY <1>3, <1>6, <1>8, FewerWaiting
    <3>5. QED BY <3>1, <3>3, <3>4, WaitingCounted, AllowanceType
  <2>3. QED BY <2>1, <2>2
<1>13. QED BY <1>11, <1>12 DEF RepeatInv, Servable, Allowance

(* The repeats for a key are paid for by the attempts that were waiting.   *)
LEMMA RepeatsAlways == Spec => []RepeatInv
<1>1. Init => RepeatInv
  BY DEF Init, RepeatInv, RowsTyped
<1>2. ASSUME GuardInv, CoolInv, RepeatInv, CoolInv', [Next]_vars PROVE RepeatInv'
  <2> USE <1>2
  <2>1. ASSUME NEW w \in Workers,
               Step(w) \/ DatabaseError(w) \/ \E s \in Services, p \in Prompts : Ask(w, s, p)
        PROVE  RepeatInv'
    BY <2>1, StepKeepsRepeats, SendKeepsRepeats, StoreKeepsRepeats DEF Step
  <2>2. AttemptsCounted /\ AttemptsCounted' /\ now \in Nat
    BY DEF CoolInv, GuardInv, GuardTypes
  <2>3. \A w \in Workers : \A key : Ahead(w, key) \in Nat
    BY <2>2, AheadType
  <2>4. CASE Tick \/ PurgeExpired \/ EnforceMaxRows(1) \/ UNCHANGED vars
    <3>1. UNCHANGED <<pc, work>> /\ now' \in Nat /\ now <= now'
      BY <2>2, <2>4 DEF Tick, PurgeExpired, EnforceMaxRows, vars
    <3>2. /\ DOMAIN cache' \subseteq DOMAIN cache
          /\ \A key \in DOMAIN cache' : cache'[key] = cache[key]
      BY <2>4 DEF Tick, PurgeExpired, EnforceMaxRows, NewestRows, vars, storeVars, Restrict
    <3>3. \A w \in Workers : \A key : Ahead(w, key)' <= Ahead(w, key)
      BY <2>3, <3>1 DEF Ahead
    <3>4. QED BY <2>2, <3>1, <3>2, <3>3, RepeatsKept
  <2>5. CASE Crash
    <3>1. UNCHANGED <<now, cache>> /\ pc' = [w \in Workers |-> "idle"]
      BY <2>5 DEF Crash, storeVars
    <3>2. \A w \in Workers : \A key : Ahead(w, key)' = 0
      BY <3>1 DEF Ahead, AheadAt
    <3>3. \A w \in Workers : \A key : Ahead(w, key)' <= Ahead(w, key)
      BY <2>3, <3>2
    <3>4. QED BY <2>2, <3>1, <3>3, RepeatsKept
  <2>6. QED BY <2>1, <2>4, <2>5 DEF Next
<1>3. QED BY <1>1, <1>2, GuardInvAlways, CoolAlways, PTL DEF Spec

(* LlmService.generate, whose lookup, call and put are separate steps: for *)
(* any number of threads, any retries, time to live and clean-up, a key    *)
(* that has an answer to serve is not asked for again but by the requests  *)
(* that had missed it.                                                     *)
THEOREM RepeatsAreBounded == Spec => []RepeatsBounded
<1>1. RepeatInv => RepeatsBounded
  <2> SUFFICES ASSUME RepeatInv, NEW key \in DOMAIN cache, Servable(cache[key])
               PROVE  cache[key].again <= Allowance
    BY DEF RepeatsBounded, Allowance
  <2>1. cache[key].again \in Nat /\ cache[key].again + Cardinality(Waiting(key)) <= Allowance
    BY DEF RepeatInv, RowsTyped
  <2>2. QED BY <2>1, WaitingCounted, AllowanceType
<1>2. QED BY <1>1, RepeatsAlways, PTL

=============================================================================
