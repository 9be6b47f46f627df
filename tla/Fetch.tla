------------------------------- MODULE Fetch -------------------------------
(***************************************************************************)
(* Fetching pages of one host: ingestion/fetcher.py with its robots check, *)
(* response cache and rate limiter, the fetch jobs of cli.py and the       *)
(* retrying MarketFetchRunner of portfolio/_market_common.py.  The clients *)
(* are threads and processes that share the SQLite cache and nothing else. *)
(*                                                                         *)
(* Time passes in units, and every timer stops where it makes no more      *)
(* difference: the age of a row just above the TTL, the time since the     *)
(* last request at the interval.                                           *)
(***************************************************************************)
EXTENDS Integers, FiniteSets, FiniteSetsExt

CONSTANTS
  Urls,
  Jobs,        \* clients that run run_fetch_job
  Markets,     \* clients that run MarketFetchRunner.fetch_once
  Ttl,         \* ttl_seconds of HttpCache
  Interval,    \* min_interval_seconds, of DomainRateLimiter and of the policy
  RetryWait,   \* retry_base_wait_seconds
  Attempts,    \* retry_attempts + 1
  Absent       \* no row of a URL

Clients == Jobs \cup Markets

ASSUME FetchAssumption ==
  /\ {Ttl, Interval, RetryWait, Attempts} \subseteq Nat \ {0}
  /\ Jobs \cap Markets = {}
  /\ IsFiniteSet(Clients) /\ Clients # {}

(* A page; an error or throttling response with a body, and one without.   *)
Bodies == {"page", "error", "blank"}

VARIABLES
  row,         \* http_cache: the body and the age of a URL's row
  client,
  surplus,     \* requests of a URL since it has had a fresh row (history)
  throttled    \* market clients that got no page, may try again and have not
               \* asked again (history)

fetchVars == <<row, client, surplus, throttled>>

Resting == [pc |-> "rest", url |-> Absent, left |-> {}, rules |-> "unread",
            since |-> Interval, sleep |-> 0, attempt |-> 0, body |-> Absent]

FetchInit ==
  /\ row = [u \in Urls |-> Absent]
  /\ client = [c \in Clients |-> Resting]
  /\ surplus = [u \in Urls |-> 0]
  /\ throttled = {}

Fresh(u) == row[u] # Absent /\ row[u].age <= Ttl

At(c, label) == client[c].pc = label /\ client[c].sleep = 0

-----------------------------------------------------------------------------
(* One SafeFetcher serves all the URLs of a job.                           *)
StartJob(c) ==
  /\ client[c].pc = "rest"
  /\ \E u \in Urls, more \in SUBSET Urls :
       client' = [client EXCEPT ![c] = [Resting EXCEPT !.pc = "robots", !.url = u,
                                                       !.left = more \ {u}]]
  /\ UNCHANGED <<row, surplus, throttled>>

StartMarket(c) ==
  /\ client[c].pc = "rest"
  /\ \E u \in Urls :
       client' = [client EXCEPT ![c] = [Resting EXCEPT !.pc = "robots", !.url = u,
                                                       !.attempt = 1]]
  /\ throttled' = throttled \ {c}
  /\ UNCHANGED <<row, surplus>>

(* The fetch of a URL returns: a job goes on to the next one; a market     *)
(* fetch returns the text, or waits and tries again when it is blank or    *)
(* the fetch raised.  Every attempt makes a SafeFetcher of its own.        *)
Failed == {"blank", "raised"}

Returned(c, body) ==
  LET k == client[c] IN
  IF c \in Jobs
    THEN IF k.left = {} \/ body = "raised" THEN {Resting}
         ELSE {[k EXCEPT !.pc = "robots", !.url = u, !.left = @ \ {u}, !.body = Absent] :
                 u \in k.left}
    ELSE IF body \in Failed /\ k.attempt < Attempts
         THEN {[Resting EXCEPT !.pc = "robots", !.url = k.url, !.attempt = k.attempt + 1,
                               !.sleep = RetryWait * k.attempt + Interval]}
         ELSE {[Resting EXCEPT !.pc = "ended", !.body = body]}

Return(c, body) == \E k \in Returned(c, body) : client' = [client EXCEPT ![c] = k]

(* can_fetch: the rules are read once by each fetcher; 404 allows, other   *)
(* errors deny, and no answer denies this time only.  A market client may  *)
(* be told to go on all the same (MARKET_ALLOW_ROBOTS_BYPASS).             *)
CanFetch(c, rules, bypass) ==
  /\ At(c, "robots")
  /\ IF client[c].rules = "unread" THEN TRUE ELSE rules = client[c].rules
  /\ bypass => c \in Markets
  /\ IF rules = "allow" \/ bypass
       THEN client' = [client EXCEPT ![c].pc = "lookup",
                         ![c].rules = IF rules = "down" THEN "unread" ELSE rules]
       ELSE \E k \in Returned(c, "blank") :
              client' = [client EXCEPT ![c] =
                 IF c \in Jobs /\ k # Resting /\ rules # "down" THEN [k EXCEPT !.rules = rules]
                 ELSE k]
  /\ UNCHANGED <<row, surplus, throttled>>

(* Mutant: a retry does not look at the cache.                             *)
LookupFirst(c) ==
  /\ At(c, "lookup")
  /\ IF Fresh(client[c].url) /\ client[c].attempt < 2
       THEN Return(c, row[client[c].url].body)
       ELSE client' = [client EXCEPT ![c].pc = "send", ![c].sleep = Interval - client[c].since]
  /\ UNCHANGED <<row, surplus, throttled>>

(* HttpCache.get, then wait_for_url.                                       *)
Lookup(c) ==
  /\ At(c, "lookup")
  /\ IF Fresh(client[c].url)
       THEN Return(c, row[client[c].url].body)
       ELSE client' = [client EXCEPT ![c].pc = "send", ![c].sleep = Interval - client[c].since]
  /\ UNCHANGED <<row, surplus, throttled>>

(* transport.get: an error response is a response like another; no         *)
(* connection, or a body that is too large, raises OSError.                *)
Send(c) ==
  /\ At(c, "send")
  /\ LET u == client[c].url IN
       /\ surplus' = IF Fresh(u) THEN [surplus EXCEPT ![u] = @ + 1] ELSE surplus
       /\ \/ \E b \in Bodies :
               /\ client' = [client EXCEPT ![c].pc = "store", ![c].since = 0, ![c].body = b]
               /\ throttled' = IF c \in Markets /\ b # "page" /\ client[c].attempt < Attempts
                               THEN throttled \cup {c} ELSE throttled \ {c}
          \/ /\ Return(c, "raised")
             /\ throttled' = throttled \ {c}
  /\ UNCHANGED row

(* HttpCache.set, whatever the status.                                     *)
Store(c) ==
  /\ At(c, "store")
  /\ LET u == client[c].url IN
       /\ row' = [row EXCEPT ![u] = [body |-> client[c].body, age |-> 0]]
       /\ surplus' = IF Fresh(u) THEN surplus ELSE [surplus EXCEPT ![u] = 0]
  /\ Return(c, client[c].body)
  /\ UNCHANGED throttled

(* The market fetch hands its text, or its last error, to its caller.      *)
EndMarket(c) ==
  /\ client[c].pc = "ended"
  /\ client' = [client EXCEPT ![c] = Resting]
  /\ throttled' = throttled \ {c}
  /\ UNCHANGED <<row, surplus>>

-----------------------------------------------------------------------------
(* run_cache_maintenance and prune_http_cache: each of the two is optional *)
(* and a transaction of its own.                                           *)
PurgeExpired ==
  /\ row' = [u \in Urls |-> IF Fresh(u) THEN row[u] ELSE Absent]
  /\ UNCHANGED <<client, surplus, throttled>>

Cached == {u \in Urls : row[u] # Absent}

EnforceMaxRows(maxRows) ==
  /\ \E keep \in SUBSET Cached :
       /\ Cardinality(keep) = Min({maxRows, Cardinality(Cached)})
       /\ \A u \in keep, v \in Cached \ keep : row[u].age <= row[v].age
       /\ row' = [u \in Urls |-> IF u \in keep THEN row[u] ELSE Absent]
  /\ UNCHANGED <<client, surplus, throttled>>

(* A process is stopped anywhere.                                          *)
Stop(c) ==
  /\ client[c].pc # "rest"
  /\ client' = [client EXCEPT ![c] = Resting]
  /\ throttled' = throttled \ {c}
  /\ UNCHANGED <<row, surplus>>

Pass ==
  /\ row' = [u \in Urls |-> IF Fresh(u) THEN [row[u] EXCEPT !.age = @ + 1] ELSE row[u]]
  /\ client' = [c \in Clients |->
       [client[c] EXCEPT !.since = Min({@ + 1, Interval}), !.sleep = Max({@ - 1, 0})]]
  /\ UNCHANGED <<surplus, throttled>>

FetchNext ==
  \/ \E c \in Jobs : StartJob(c)
  \/ \E c \in Markets : StartMarket(c) \/ EndMarket(c)
  \/ \E c \in Clients, rules \in {"allow", "deny", "down"}, bypass \in BOOLEAN :
       CanFetch(c, rules, bypass)
  \/ \E c \in Clients : Lookup(c) \/ Send(c) \/ Store(c) \/ Stop(c)
  \/ \E maxRows \in 0 .. Cardinality(Urls) : EnforceMaxRows(maxRows)
  \/ PurgeExpired \/ Pass

FetchSpec == FetchInit /\ [][FetchNext]_fetchVars

-----------------------------------------------------------------------------
(* The cache does its work under concurrency: lookup, wait and request are *)
(* separate steps, yet while a URL has a fresh row, however often it is    *)
(* refreshed, each of the other clients asks the server for it at most     *)
(* once.                                                                   *)
BurstBounded == \A u \in Urls : surplus[u] <= Cardinality(Clients) - 1

(* docs/market_data_runbook.md: the shared runner mitigates rate limiting  *)
(* with intervals and retries.  A market fetch that is answered by an      *)
(* error or throttling response, and has attempts left, asks the server    *)
(* again before it ends.                                                   *)
ThrottledIsRetried == \A c \in Markets : client[c].pc = "ended" => c \notin throttled

=============================================================================
