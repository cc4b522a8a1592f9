---------------------------- MODULE PriceService ----------------------------
(***************************************************************************)
(* The signed price on its way to a wallet: the provider (Hermes), the     *)
(* server's proxy with its short cache and its one shared request, and     *)
(* the browser's fetch.  Only the age of an update matters here: how long  *)
(* ago it was published, negative when the publisher's clock is ahead.     *)
(* Ages and waits are counted in ticks; no absolute time is kept.          *)
(***************************************************************************)
EXTENDS Integers, FiniteSets

CONSTANTS
  Readers,           \* price requests a browser may have open
  ServeLimit,        \* oldest update the proxy takes from the provider
  Ahead,             \* how far in the future it may lie
  CacheFor,          \* how long the proxy answers from its cache
  ProviderTimeout,   \* how long the proxy waits for the provider
  ClientTimeout,     \* how long the browser waits for the proxy
  ClientLimit,       \* oldest update the browser, and the pool, accept
  ClientAhead,       \* how far in the future for the browser
  Nothing            \* no cached update, no request under way

ASSUME TimingAssumption ==
  /\ {ServeLimit, Ahead, CacheFor, ProviderTimeout, ClientTimeout} \subseteq Nat \ {0}
  /\ {ClientLimit, ClientAhead} \subseteq Nat
  /\ ServeLimit + CacheFor <= ClientLimit /\ Ahead <= ClientAhead

VARIABLES
  cached,   \* the proxy's last update: its age and the time since it came
  fetch,    \* the pending promise: how long the provider has been asked
  reader    \* reader[r]: the browser's request, with the answer on its way

vars == <<cached, fetch, reader>>

Resting == {"idle", "held", "stale", "failed"}   \* held: usable, stale: refused
Quiet(at) == [at |-> at, waited |-> 0, age |-> 0, transit |-> 0]
Init == cached = Nothing /\ fetch = Nothing /\ reader = [r \in Readers |-> Quiet("idle")]

Waiting == {r \in Readers : reader[r].at = "waiting"}
Answered(r, age) ==
  [at |-> "answered", waited |-> reader[r].waited, age |-> age, transit |-> 0]
Put(r, value) == reader' = [reader EXCEPT ![r] = value]

-----------------------------------------------------------------------------
(* The browser asks the proxy, and may do so again after any outcome.      *)
Ask(r) ==
  /\ reader[r].at \in Resting
  /\ Put(r, Quiet("sent"))
  /\ UNCHANGED <<cached, fetch>>

BugCacheUntilStale == cached # Nothing /\ cached.age <= ClientLimit
CacheUsable == cached # Nothing /\ cached.since < CacheFor

(* The handler of the route: an answer from the cache, or the one request  *)
(* to the provider, joined when it is under way and started when not.  The *)
(* audit record, the feed and the provider's address may refuse it first.  *)
Serve(r) ==
  /\ reader[r].at = "sent"
  /\ \/ CacheUsable /\ Put(r, Answered(r, cached.age)) /\ UNCHANGED fetch
     \/ /\ ~CacheUsable
        /\ Put(r, [reader[r] EXCEPT !.at = "waiting"])
        /\ fetch' = IF fetch = Nothing THEN 0 ELSE fetch
     \/ Put(r, Quiet("failed")) /\ UNCHANGED fetch
  /\ UNCHANGED cached

(* The promise settles: all who wait for it get the same outcome.          *)
Settle(outcome) ==
  /\ fetch # Nothing /\ fetch' = Nothing
  /\ reader' = [r \in Readers |-> IF r \in Waiting THEN outcome[r] ELSE reader[r]]

(* validatePriceUpdate, when the answer has been read.                     *)
Valid(age) == -Ahead <= age /\ age <= ServeLimit

ProviderAnswers(age) ==
  /\ Valid(age)
  /\ Settle([r \in Readers |-> Answered(r, age)])
  /\ cached' = [age |-> age, since |-> 0]

(* An error, a refusal, an unreadable or invalid answer, the timeout.      *)
ProviderFails ==
  /\ Settle([r \in Readers |-> Quiet("failed")])
  /\ UNCHANGED cached

BugNeverAborted == FALSE
Overdue == fetch = ProviderTimeout
Abort == Overdue /\ ProviderFails

(* fetchPriceSnapshot checks the answer by the clock of its arrival.       *)
Receive(r) ==
  /\ reader[r].at = "answered"
  /\ LET ok == -ClientAhead <= reader[r].age /\ reader[r].age <= ClientLimit IN
     Put(r, IF ok THEN Quiet("held") ELSE [reader[r] EXCEPT !.at = "stale"])
  /\ UNCHANGED <<cached, fetch>>

(* The connection breaks, or the browser's own timeout strikes; the proxy  *)
(* does not notice and goes on with its request.                           *)
GiveUp(r) ==
  /\ reader[r].at \notin Resting
  /\ Put(r, Quiet("failed"))
  /\ UNCHANGED <<cached, fetch>>

Late(r) == reader[r].at \notin Resting /\ reader[r].waited = ClientTimeout
TimeOut(r) == Late(r) /\ GiveUp(r)

(* Time passes for everything under way; timers fire when they are due.    *)
Older(n, most) == IF n < most THEN n + 1 ELSE most
OlderAnswer(q) ==
  IF q.at = "answered"
  THEN [q EXCEPT !.waited = @ + 1, !.transit = @ + 1, !.age = Older(@, ClientLimit + 1)]
  ELSE [q EXCEPT !.waited = @ + 1]
Tick ==
  /\ ~Overdue /\ \A r \in Readers : ~Late(r)
  /\ cached' = IF cached = Nothing THEN Nothing
               ELSE [age |-> Older(cached.age, ClientLimit + 1),
                     since |-> Older(cached.since, CacheFor)]
  /\ fetch' = IF fetch = Nothing THEN Nothing ELSE Older(fetch, ProviderTimeout)
  /\ reader' = [r \in Readers |->
       IF reader[r].at \in Resting THEN reader[r] ELSE OlderAnswer(reader[r])]

Next ==
  \/ \E r \in Readers : Ask(r) \/ Serve(r) \/ Receive(r) \/ GiveUp(r)
  \/ \E age \in -Ahead .. ServeLimit : ProviderAnswers(age)
  \/ ProviderFails \/ Tick

Spec == Init /\ [][Next]_vars

(* Timers fire.  Nothing is assumed of the provider or of the network.     *)
FairSpec == Spec /\ WF_vars(Tick) /\ WF_vars(Abort)
                 /\ \A r \in Readers : WF_vars(TimeOut(r))

-----------------------------------------------------------------------------
(* The proxy and the cache leave time for the way to the browser: an       *)
(* answer is sent off at an age the browser and the pool (README.md:135)   *)
(* take, and is refused as stale only when it took longer than the rest.   *)
UsableOnArrival ==
  \A r \in Readers :
    /\ reader[r].at = "answered" /\ reader[r].age <= ClientLimit =>
         reader[r].age - reader[r].transit \in -Ahead .. ServeLimit + CacheFor - 1
    /\ reader[r].at = "stale" => reader[r].transit > ClientLimit - ServeLimit - CacheFor

(* A provider that never answers blocks nobody for good: the shared        *)
(* request ends, and the next reader starts another.                       *)
FetchEnds == fetch # Nothing ~> fetch = Nothing
=============================================================================
