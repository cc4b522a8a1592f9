------------------------- MODULE PriceServiceProofs -------------------------
(***************************************************************************)
(* The age of what the proxy serves, for any limits and any readers.  The  *)
(* ages of the model stop growing above ClientLimit and the time in the    *)
(* cache at CacheFor: the invariant says what they still tell there.       *)
(***************************************************************************)
EXTENDS PriceService, TLAPS

Ages == -Ahead .. ClientLimit + 1

(* An update that may still be served from the cache is younger than the   *)
(* oldest the provider may send and the time it has been kept.             *)
CacheYoung ==
  cached # Nothing =>
    /\ cached.age \in Ages /\ cached.since \in 0 .. CacheFor
    /\ cached.since < CacheFor => cached.age - cached.since <= ServeLimit

(* An answer under way was as young when it left; above the limit its age  *)
(* only says that the way took longer than the proxy leaves for it.        *)
AnswerYoung(q) ==
  /\ q.age \in Ages /\ q.transit \in Nat
  /\ q.age <= ClientLimit => q.age - q.transit \in -Ahead .. ServeLimit + CacheFor - 1
  /\ q.age > ClientLimit => q.transit > ClientLimit - ServeLimit - CacheFor

(* A request is at one of its places, and those that carry an answer carry *)
(* a young one.                                                            *)
RequestOK(q) ==
  /\ q = [at |-> q.at, waited |-> q.waited, age |-> q.age, transit |-> q.transit]
  /\ q.at \in Resting \cup {"sent", "waiting", "answered"}
  /\ q.at \in {"answered", "stale"} => AnswerYoung(q)
  /\ q.at = "stale" => q.age > ClientLimit

YoungInv ==
  /\ CacheYoung
  /\ reader = [r \in Readers |-> reader[r]]
  /\ \A r \in Readers : RequestOK(reader[r])

(* A request at rest, and one that is sent or waits, carries nothing.      *)
LEMMA QuietOK ==
  ASSUME NEW at \in {"idle", "held", "failed", "sent"}
  PROVE  RequestOK(Quiet(at))
BY DEF RequestOK, Quiet, Resting

(* An answer that leaves the proxy at an age it may have is young.         *)
LEMMA AnsweredOK ==
  ASSUME NEW r \in Readers,
         NEW age \in -Ahead .. ServeLimit + CacheFor - 1
  PROVE  RequestOK(Answered(r, age))
<1> DEFINE q == Answered(r, age)
<1>1. /\ q = [at |-> "answered", waited |-> reader[r].waited, age |-> age, transit |-> 0]
      /\ q.at = "answered" /\ q.age = age /\ q.transit = 0 /\ q.waited = reader[r].waited
  BY DEF Answered
<1>2. AnswerYoung(q)
  BY <1>1, TimingAssumption DEF AnswerYoung, Ages
<1> QED BY <1>1, <1>2 DEF RequestOK, Resting

(* One tick keeps an answer young: its age and its way grow together.      *)
LEMMA OlderOK ==
  ASSUME NEW q, RequestOK(q), q.at \notin Resting
  PROVE  RequestOK(OlderAnswer(q))
<1> DEFINE o == OlderAnswer(q)
<1>1. CASE q.at = "answered"
  <2>1. /\ o = [at |-> "answered", waited |-> q.waited + 1,
                age |-> Older(q.age, ClientLimit + 1), transit |-> q.transit + 1]
        /\ o.at = "answered" /\ o.age = Older(q.age, ClientLimit + 1)
        /\ o.transit = q.transit + 1
    BY <1>1 DEF RequestOK, OlderAnswer
  <2>2. AnswerYoung(q)
    BY <1>1 DEF RequestOK
  <2>3. AnswerYoung(o)
    BY <2>1, <2>2, TimingAssumption DEF AnswerYoung, Ages, Older
  <2> QED BY <2>1, <2>3 DEF RequestOK, Resting
<1>2. CASE q.at # "answered"
  BY <1>2 DEF RequestOK, OlderAnswer, Resting
<1> QED BY <1>1, <1>2

(* The initial state.                                                      *)
LEMMA InitYoung == Init => YoungInv
BY QuietOK DEF Init, YoungInv, CacheYoung

(* A step of the browser changes one request, to a quiet one or to one     *)
(* refused for its age.                                                    *)
LEMMA BrowserYoung ==
  ASSUME YoungInv, NEW r \in Readers, Ask(r) \/ Receive(r) \/ GiveUp(r)
  PROVE  YoungInv'
<1>1. CacheYoung'
  BY DEF YoungInv, CacheYoung, Ask, Receive, GiveUp
<1>2. PICK q : RequestOK(q) /\ reader' = [reader EXCEPT ![r] = q]
  <2>1. CASE Ask(r)
    BY <2>1, QuietOK DEF Ask, Put
  <2>2. CASE GiveUp(r)
    BY <2>2, QuietOK DEF GiveUp, Put
  <2>3. CASE Receive(r)
    <3> DEFINE q == reader[r]
               s == [q EXCEPT !.at = "stale"]
    <3>1. RequestOK(q) /\ AnswerYoung(q)
      BY <2>3 DEF YoungInv, Receive, RequestOK
    <3>2. CASE -ClientAhead <= q.age /\ q.age <= ClientLimit
      BY <2>3, <3>2, QuietOK DEF Receive, Put
    <3>3. CASE ~(-ClientAhead <= q.age /\ q.age <= ClientLimit)
      <4>1. q.age > ClientLimit
        BY <3>1, <3>3, TimingAssumption DEF AnswerYoung, Ages
      <4>2. /\ s = [at |-> "stale", waited |-> q.waited, age |-> q.age, transit |-> q.transit]
            /\ s.at = "stale" /\ s.age = q.age /\ s.transit = q.transit
        BY <3>1 DEF RequestOK
      <4>3. RequestOK(s)
        BY <3>1, <4>1, <4>2 DEF RequestOK, AnswerYoung, Resting
      <4>4. reader' = [reader EXCEPT ![r] = s]
        BY <2>3, <3>3 DEF Receive, Put
      <4> QED BY <4>3, <4>4
    <3> QED BY <3>2, <3>3
  <2> QED BY <2>1, <2>2, <2>3
<1> QED BY <1>1, <1>2 DEF YoungInv

(* The proxy answers from its cache only what is young, or puts the        *)
(* request among those that wait.                                          *)
LEMMA ServeYoung ==
  ASSUME YoungInv, NEW r \in Readers, Serve(r)
  PROVE  YoungInv'
<1>1. CacheYoung'
  BY DEF YoungInv, CacheYoung, Serve
<1>2. RequestOK(reader[r])
  BY DEF YoungInv
<1>3. CASE CacheUsable /\ Put(r, Answered(r, cached.age))
  <2>1. cached.age \in -Ahead .. ServeLimit + CacheFor - 1
    BY <1>3, TimingAssumption DEF YoungInv, CacheYoung, CacheUsable, Ages
  <2>2. RequestOK(Answered(r, cached.age))
    BY <2>1, AnsweredOK
  <2> QED BY <1>1, <1>3, <2>2 DEF YoungInv, Put
<1>4. CASE Put(r, [reader[r] EXCEPT !.at = "waiting"])
  <2>1. RequestOK([reader[r] EXCEPT !.at = "waiting"])
    BY <1>2 DEF RequestOK, Resting
  <2> QED BY <1>1, <1>4, <2>1 DEF YoungInv, Put
<1>5. CASE Put(r, Quiet("failed"))
  BY <1>1, <1>5, QuietOK DEF YoungInv, Put
<1> QED BY <1>3, <1>4, <1>5 DEF Serve

(* What the provider sends is young, for the cache and for all who wait.   *)
LEMMA SettleYoung ==
  ASSUME YoungInv,
         ProviderFails \/ \E age \in -Ahead .. ServeLimit : ProviderAnswers(age)
  PROVE  YoungInv'
<1>1. CASE ProviderFails
  BY <1>1, QuietOK DEF YoungInv, CacheYoung, ProviderFails, Settle
<1>2. ASSUME NEW age \in -Ahead .. ServeLimit, ProviderAnswers(age)
      PROVE  YoungInv'
  <2>1. age \in -Ahead .. ServeLimit + CacheFor - 1 /\ age \in Ages
    BY TimingAssumption DEF Ages
  <2>2. CacheYoung'
    BY <1>2, <2>1, TimingAssumption DEF ProviderAnswers, CacheYoung
  <2>3. reader' = [r \in Readers |-> IF r \in Waiting THEN Answered(r, age) ELSE reader[r]]
    BY <1>2 DEF ProviderAnswers, Settle
  <2>4. \A r \in Readers : RequestOK(reader'[r])
    BY <2>1, <2>3, AnsweredOK DEF YoungInv
  <2> QED BY <2>2, <2>3, <2>4 DEF YoungInv
<1> QED BY <1>1, <1>2

(* Time passes.                                                            *)
LEMMA TickYoung ==
  ASSUME YoungInv, Tick
  PROVE  YoungInv'
<1>1. CacheYoung'
  BY TimingAssumption DEF YoungInv, CacheYoung, Tick, Older, Ages
<1>2. reader' = [r \in Readers |->
        IF reader[r].at \in Resting THEN reader[r] ELSE OlderAnswer(reader[r])]
  BY DEF Tick
<1>3. \A r \in Readers : RequestOK(reader'[r])
  BY <1>2, OlderOK DEF YoungInv
<1> QED BY <1>1, <1>2, <1>3 DEF YoungInv

(* Whatever the limits, an answer leaves the proxy at an age the browser   *)
(* and the pool take, and only a way longer than what they leave makes it  *)
(* stale.                                                                  *)
THEOREM AnswersAreUsable == Spec => []UsableOnArrival
<1>1. YoungInv /\ [Next]_vars => YoungInv'
  <2> SUFFICES ASSUME YoungInv, [Next]_vars PROVE YoungInv'
    OBVIOUS
  <2>1. CASE \E r \in Readers : Ask(r) \/ Serve(r) \/ Receive(r) \/ GiveUp(r)
    BY <2>1, BrowserYoung, ServeYoung
  <2>2. CASE ProviderFails \/ \E age \in -Ahead .. ServeLimit : ProviderAnswers(age)
    BY <2>2, SettleYoung
  <2>3. CASE Tick
    BY <2>3, TickYoung
  <2>4. CASE UNCHANGED vars
    BY <2>4 DEF YoungInv, CacheYoung, vars
  <2> QED BY <2>1, <2>2, <2>3, <2>4 DEF Next
<1>2. YoungInv => UsableOnArrival
  BY DEF YoungInv, RequestOK, AnswerYoung, UsableOnArrival
<1> QED BY <1>1, <1>2, InitYoung, PTL DEF Spec
=============================================================================
