------------------------- MODULE MarketClientProofs -------------------------
(***************************************************************************)
(* What a panel may believe of its transactions, and what it may count on  *)
(* of the allowance, for any panels, actions, amounts and number of        *)
(* transactions.                                                           *)
(***************************************************************************)
EXTENDS MarketClient, SequenceTheorems, TLAPS

Calls == {"supply", "repay", "borrow", "withdrawCollateral", "withdrawSupply",
          "depositCollateral", "liquidate", "updatePrice", "claimFaucet"}

Places == {"idle", "allowance", "debt", "price", "prompt", "approve", "recheck",
           "approving", "receipt", "report"}
Outcomes == Executed \cup {"replaced", "reverted", "short"}

PanelState ==
  [pc : Places, call : Calls \cup {"none"}, amt : Nat,
   price : {"none", "fresh", "unneeded", "old"}, mark : Nat, tx : Nat,
   hash : Outcomes \cup {"none"}]
Pending == [panel : Panels, call : Calls \cup {"approve"}, amt : Nat, mark : Nat]
Done == [panel : Panels, call : Calls \cup {"approve"}, outcome : Outcomes]

Typed ==
  /\ panel \in [Panels -> PanelState]
  /\ queue \in Seq(Pending) /\ settled \in Seq(Done)

(* Whose transaction has the nonce i, and which call it is.                *)
PanelOf(i) == IF i <= Len(settled) THEN settled[i].panel ELSE queue[i - Len(settled)].panel
CallOf(i) == IF i <= Len(settled) THEN settled[i].call ELSE queue[i - Len(settled)].call

(* The transaction a panel remembers is its own; unless the panel still    *)
(* waits for its receipt, it was executed.                                 *)
OwnTx(p, q) ==
  /\ q.tx # 0 =>
       /\ q.tx \in 1 .. Sent /\ PanelOf(q.tx) = p
       /\ CallOf(q.tx) = IF q.pc \in {"receipt", "report"} THEN q.call ELSE "approve"
       /\ q.pc \notin {"approving", "receipt"} =>
            q.tx <= Len(settled) /\ settled[q.tx].outcome \in Executed
  /\ q.pc \in {"approving", "receipt", "report"} => q.tx # 0
  /\ q.pc = "report" => q.hash = settled[q.tx].outcome

(* What an action has read at each of its places.                          *)
Informed(q) ==
  /\ q.pc # "idle" => q.call \in Calls
  /\ q.pc = "debt" => q.call = "withdrawCollateral"
  /\ q.pc = "recheck" => q.call = "liquidate"
  /\ q.pc \in {"allowance", "approve", "approving"} => q.call \in PaysUsdx
  /\ q.pc \in {"allowance", "recheck"} /\ q.call = "liquidate" => q.price = "fresh"
  /\ q.pc \in {"approve", "prompt"} /\ q.call \in TakesPrice =>
       q.price \in {"fresh", "unneeded"}
  /\ q.pc = "prompt" /\ q.call = "liquidate" => q.mark >= q.tx

PanelOK(p, q) == OwnTx(p, q) /\ Informed(q)

ClientInv == Typed /\ \A p \in Panels : PanelOK(p, panel[p])

(* The calls of a panel are those of the market page.                      *)
LEMMA CallsKnown == \A p \in Panels : CallsOf[p] \subseteq Calls
BY ClientAssumption DEF CallsOf, Calls

(* A panel at rest believes nothing.                                       *)
LEMMA IdleOK == Idle \in PanelState /\ \A p \in Panels : PanelOK(p, Idle)
BY DEF Idle, PanelState, Places, PanelOK, OwnTx, Informed

(* Initially.                                                              *)
LEMMA InitOK == Init => ClientInv
<1> SUFFICES ASSUME Init PROVE ClientInv
  OBVIOUS
<1>1. \A p \in Panels : panel[p] = Idle
  BY DEF Init
<1>2. queue \in Seq(Pending) /\ settled \in Seq(Done)
  BY DEF Init
<1>3. panel \in [Panels -> PanelState]
  BY IdleOK DEF Init
<1> QED BY <1>1, <1>2, <1>3, IdleOK DEF ClientInv, Typed

(* A step of one panel that leaves the chain alone.                        *)
LEMMA PanelStep ==
  ASSUME ClientInv, NEW p \in Panels, NEW q \in PanelState, PanelOK(p, q),
         Set(p, q), UNCHANGED Chain
  PROVE  ClientInv'
<1>1. Typed'
  BY DEF ClientInv, Typed, Set, Chain
<1>2. \A r \in Panels : panel'[r] = IF r = p THEN q ELSE panel[r]
  BY DEF ClientInv, Typed, Set
<1>3. \A r \in Panels : PanelOK(r, panel'[r])
  BY <1>2 DEF ClientInv
<1>4. \A r \in Panels : PanelOK(r, panel[r])'
  BY <1>3 DEF PanelOK, OwnTx, Informed, PanelOf, CallOf, Sent, Chain
<1> QED BY <1>1, <1>4 DEF ClientInv

(* The clicks and the reads, up to the prompt of the wallet.               *)
LEMMA ClickStep ==
  ASSUME ClientInv, NEW p \in Panels, NEW call \in Offered, NEW amt \in Amounts,
         Click(p, call, amt)
  PROVE  ClientInv'
<1> DEFINE q == [Idle EXCEPT !.pc = First(call), !.call = call,
                             !.amt = IF call \in EntersUsdx THEN amt ELSE 0]
<1>1. call \in Calls /\ amt \in Nat
  BY CallsKnown, ClientAssumption DEF Click
<1>2. /\ First(call) \in {"allowance", "debt", "price", "prompt"}
      /\ First(call) = "allowance" => call \in EntersUsdx
      /\ First(call) = "debt" => call = "withdrawCollateral"
      /\ First(call) = "prompt" => call \notin TakesPrice
  BY <1>1 DEF First, Calls, EntersUsdx, TakesPrice
<1>3. /\ q.pc = First(call) /\ q.call = call /\ q.tx = 0 /\ q.price = "none"
  BY DEF Idle
<1>4. q \in PanelState
  BY <1>1, <1>2, IdleOK DEF PanelState, Places
<1>5. PanelOK(p, q)
  BY <1>1, <1>2, <1>3 DEF PanelOK, OwnTx, Informed, EntersUsdx, PaysUsdx, TakesPrice
<1> QED BY <1>4, <1>5, PanelStep DEF Click

(* What an action reads between the click and the wallet.                 *)
LEMMA ReadStep ==
  ASSUME ClientInv, NEW p \in Panels,
         ReadDebt(p) \/ ReadAllowance(p) \/ Recheck(p)
  PROVE  ClientInv'
<1> DEFINE q == panel[p]
<1>1. q \in PanelState /\ PanelOK(p, q)
  BY DEF ClientInv, Typed
<1>2. Len(settled) \in Nat
  BY DEF ClientInv, Typed
<1>3. CASE ReadDebt(p)
  <2> DEFINE s == [q EXCEPT !.pc = "price"]
             t == [q EXCEPT !.pc = "prompt", !.price = "unneeded"]
  <2>1. s \in PanelState /\ t \in PanelState
    BY <1>1 DEF PanelState, Places
  <2>2. /\ s.pc = "price" /\ s.call = q.call /\ s.tx = q.tx
        /\ t.pc = "prompt" /\ t.call = q.call /\ t.tx = q.tx /\ t.price = "unneeded"
    BY <1>1 DEF PanelState
  <2>3. PanelOK(p, s) /\ PanelOK(p, t)
    BY <1>1, <1>3, <2>2 DEF ReadDebt, At, PanelOK, OwnTx, Informed, PaysUsdx, EntersUsdx, TakesPrice
  <2> QED BY <1>3, <2>1, <2>3, PanelStep DEF ReadDebt
<1>4. CASE ReadAllowance(p)
  <2>1. PICK pc \in {"approve", "prompt"} :
          Set(p, [q EXCEPT !.mark = Len(settled), !.pc = pc])
    BY <1>4 DEF ReadAllowance
  <2> DEFINE s == [q EXCEPT !.mark = Len(settled), !.pc = pc]
  <2>2. s \in PanelState
    BY <1>1, <1>2 DEF PanelState, Places
  <2>3. /\ s.pc = pc /\ s.call = q.call /\ s.tx = q.tx /\ s.price = q.price
        /\ s.mark = Len(settled)
    BY <1>1 DEF PanelState
  <2>4. q.pc = "allowance" /\ q.call \in PaysUsdx /\ q.tx \in Nat
    BY <1>1, <1>4 DEF ReadAllowance, At, PanelOK, Informed, PanelState
  <2>5. OwnTx(p, s)
    BY <1>1, <2>3, <2>4 DEF PanelOK, OwnTx
  <2>6. s.mark >= s.tx
    BY <1>1, <1>2, <2>3, <2>4 DEF PanelOK, OwnTx
  <2>7. Informed(s)
    BY <1>1, <2>3, <2>4, <2>6 DEF PanelOK, Informed, PaysUsdx, EntersUsdx, TakesPrice
  <2> QED BY <1>4, <2>1, <2>2, <2>5, <2>7, PanelStep DEF ReadAllowance, PanelOK
<1>5. CASE Recheck(p)
  <2> DEFINE s == [q EXCEPT !.mark = Len(settled), !.pc = "prompt"]
  <2>1. s \in PanelState
    BY <1>1, <1>2 DEF PanelState, Places
  <2>2. /\ s.pc = "prompt" /\ s.call = q.call /\ s.tx = q.tx /\ s.price = q.price
        /\ s.mark = Len(settled)
    BY <1>1 DEF PanelState
  <2>3. q.pc = "recheck" /\ q.tx \in Nat
    BY <1>1, <1>5 DEF Recheck, At, PanelState
  <2>4. OwnTx(p, s) /\ s.mark >= s.tx
    BY <1>1, <1>2, <2>2, <2>3 DEF PanelOK, OwnTx
  <2>5. Informed(s)
    BY <1>1, <2>2, <2>3, <2>4 DEF PanelOK, Informed, TakesPrice
  <2> QED BY <1>5, <2>1, <2>4, <2>5, PanelStep DEF Recheck, PanelOK
<1> QED BY <1>3, <1>4, <1>5

(* A price is read for a call that takes one, or for a liquidation.        *)
LEMMA FetchStep ==
  ASSUME ClientInv, NEW p \in Panels, NEW quote \in Amounts, FetchPrice(p, quote)
  PROVE  ClientInv'
<1> DEFINE q == panel[p]
           f == [q EXCEPT !.price = "fresh"]
           s == [f EXCEPT !.pc = "prompt"]
           t == [f EXCEPT !.amt = quote, !.mark = 0, !.pc = AfterQuote(f.tx)]
<1>1. q \in PanelState /\ PanelOK(p, q) /\ q.pc = "price"
  BY DEF ClientInv, Typed, FetchPrice, At
<1>2. f \in PanelState /\ f.call = q.call /\ f.tx = q.tx /\ f.price = "fresh"
  BY <1>1 DEF PanelState
<1>3. CASE q.call # "liquidate"
  <2>1. s \in PanelState
    BY <1>2 DEF PanelState, Places
  <2>2. s.pc = "prompt" /\ s.call = q.call /\ s.tx = q.tx /\ s.price = "fresh"
    BY <1>2 DEF PanelState
  <2>3. PanelOK(p, s)
    BY <1>1, <1>3, <2>2 DEF PanelOK, OwnTx, Informed
  <2> QED BY <1>2, <1>3, <2>1, <2>3, PanelStep DEF FetchPrice
<1>4. CASE q.call = "liquidate"
  <2>1. quote \in Nat
    BY ClientAssumption
  <2>2. t \in PanelState
    BY <1>2, <2>1 DEF PanelState, Places, AfterQuote
  <2>3. /\ t.pc \in {"allowance", "recheck"}
        /\ t.call = q.call /\ t.tx = q.tx /\ t.price = "fresh"
    BY <1>2 DEF PanelState, AfterQuote
  <2>4. PanelOK(p, t)
    BY <1>1, <1>4, <2>3 DEF PanelOK, OwnTx, Informed, PaysUsdx
  <2> QED BY <1>2, <1>4, <2>2, <2>4, PanelStep DEF FetchPrice
<1> QED BY <1>3, <1>4

(* Confirmations, reports and errors.                                      *)
LEMMA ReceiptStep ==
  ASSUME ClientInv, NEW p \in Panels,
         ApprovalDone(p) \/ CallDone(p) \/ Report(p) \/ Fail(p)
  PROVE  ClientInv'
<1> DEFINE q == panel[p]
<1>1. q \in PanelState /\ PanelOK(p, q)
  BY DEF ClientInv, Typed
<1>2. CASE Report(p) \/ Fail(p)
  BY <1>2, IdleOK, PanelStep DEF Report, Fail
<1>3. CASE ApprovalDone(p)
  <2> DEFINE s == [q EXCEPT !.pc = AfterApproval(q.call), !.mark = q.tx]
  <2>1. AfterApproval(q.call) \in {"price", "prompt"}
    BY DEF AfterApproval
  <2>2. s \in PanelState
    BY <1>1, <2>1 DEF PanelState, Places
  <2>3. s.pc = AfterApproval(q.call) /\ s.call = q.call /\ s.tx = q.tx
    BY <1>1 DEF PanelState
  <2>4. q.pc = "approving" /\ q.tx <= Len(settled) /\ settled[q.tx].outcome \in Executed
    BY <1>3 DEF ApprovalDone, At, Confirmed
  <2>5. OwnTx(p, s)
    BY <1>1, <2>1, <2>3, <2>4 DEF PanelOK, OwnTx
  <2>6. Informed(s)
    BY <1>1, <2>1, <2>3, <2>4
       DEF PanelOK, Informed, AfterApproval, PaysUsdx, EntersUsdx, TakesPrice
  <2> QED BY <1>3, <2>2, <2>5, <2>6, PanelStep DEF ApprovalDone, PanelOK
<1>4. CASE CallDone(p)
  <2> DEFINE s == [q EXCEPT !.pc = "report", !.hash = settled[q.tx].outcome]
  <2>1. q.pc = "receipt" /\ q.tx <= Len(settled) /\ settled[q.tx].outcome \in Executed
    BY <1>4 DEF CallDone, At, Confirmed
  <2>2. CASE ~Mirrored(q.call)
    BY <1>4, <2>2, IdleOK, PanelStep DEF CallDone
  <2>3. CASE Mirrored(q.call)
    <3>1. s \in PanelState
      BY <1>1, <2>1 DEF PanelState, Places, Outcomes
    <3>2. /\ s.pc = "report" /\ s.call = q.call /\ s.tx = q.tx
          /\ s.hash = settled[q.tx].outcome
      BY <1>1 DEF PanelState
    <3>3. PanelOK(p, s)
      BY <1>1, <2>1, <3>2 DEF PanelOK, OwnTx, Informed
    <3> QED BY <1>4, <2>3, <3>1, <3>3, PanelStep DEF CallDone
  <2> QED BY <2>2, <2>3
<1> QED BY <1>2, <1>3, <1>4


(* A signature adds one transaction behind those there are.                *)
LEMMA SendFacts ==
  ASSUME ClientInv, NEW p \in Panels, NEW call \in Calls \cup {"approve"}, Send(p, call)
  PROVE  /\ queue' \in Seq(Pending) /\ settled' = settled
         /\ Sent \in Nat /\ Sent' = Sent + 1
         /\ \A i \in 1 .. Sent : PanelOf(i)' = PanelOf(i) /\ CallOf(i)' = CallOf(i)
         /\ PanelOf(Sent)' = p /\ CallOf(Sent)' = call
<1> DEFINE t == [panel |-> p, call |-> call, amt |-> panel[p].amt, mark |-> panel[p].mark]
<1>1. queue \in Seq(Pending) /\ Len(settled) \in Nat /\ panel[p] \in PanelState
  BY DEF ClientInv, Typed
<1>2. t \in Pending
  BY <1>1 DEF Pending, PanelState
<1>3. queue' = Append(queue, t) /\ settled' = settled
  BY DEF Send
<1>4. /\ queue' \in Seq(Pending) /\ Len(queue') = Len(queue) + 1 /\ Len(queue) \in Nat
      /\ \A k \in 1 .. Len(queue) : queue'[k] = queue[k]
      /\ queue'[Len(queue) + 1] = t
  BY <1>1, <1>2, <1>3
<1>5. Sent \in Nat /\ Sent' = Sent + 1
  BY <1>1, <1>3, <1>4 DEF Sent
<1>6. ASSUME NEW i \in 1 .. Sent
      PROVE  PanelOf(i)' = PanelOf(i) /\ CallOf(i)' = CallOf(i)
  <2>1. CASE i <= Len(settled)
    BY <1>3, <2>1 DEF PanelOf, CallOf
  <2>2. CASE ~(i <= Len(settled))
    <3>1. i - Len(settled) \in 1 .. Len(queue)
      BY <1>1, <1>4, <2>2 DEF Sent
    <3> QED BY <1>3, <1>4, <2>2, <3>1 DEF PanelOf, CallOf
  <2> QED BY <2>1, <2>2
<1>7. PanelOf(Sent)' = p /\ CallOf(Sent)' = call
  <2>1. ~(Sent + 1 <= Len(settled)) /\ Sent + 1 - Len(settled) = Len(queue) + 1
    BY <1>1, <1>4 DEF Sent
  <2>2. queue'[Sent' - Len(settled')] = t /\ ~(Sent' <= Len(settled'))
    BY <1>3, <1>4, <1>5, <2>1
  <2> QED BY <1>3, <1>4, <1>5, <2>1, <2>2 DEF PanelOf, CallOf
<1> QED BY <1>3, <1>4, <1>5, <1>6, <1>7

(* The panel that signed knows the nonce of its transaction; to the others *)
(* nothing has happened.                                                   *)
LEMMA SignStep ==
  ASSUME ClientInv, NEW p \in Panels, SignApproval(p) \/ SignCall(p)
  PROVE  ClientInv'
<1> DEFINE q == panel[p]
<1>1. q \in PanelState /\ PanelOK(p, q) /\ q.call \in Calls
  BY DEF ClientInv, Typed, SignApproval, SignCall, At, PanelOK, Informed
<1>2. PICK call \in Calls \cup {"approve"}, s \in PanelState :
        /\ Send(p, call) /\ Set(p, s) /\ s.tx = Sent + 1 /\ s.call = q.call
        /\ \/ s.pc = "approving" /\ call = "approve" /\ q.pc = "approve"
           \/ s.pc = "receipt" /\ call = q.call
  <2> DEFINE n == Sent + 1
  <2>0. n \in Nat
    BY DEF ClientInv, Typed, Sent
  <2> HIDE DEF n
  <2>1. CASE SignApproval(p)
    <3> DEFINE s == [q EXCEPT !.pc = "approving", !.tx = n, !.price = "old"]
    <3>1. s \in PanelState /\ s.tx = n /\ s.call = q.call /\ s.pc = "approving"
      BY <1>1, <2>0 DEF PanelState, Places
    <3> QED BY <2>1, <3>1 DEF SignApproval, At, n
  <2>2. CASE SignCall(p)
    <3> DEFINE s == [Idle EXCEPT !.pc = "receipt", !.call = q.call, !.tx = n]
    <3>1. s \in PanelState
      BY <1>1, <2>0, IdleOK DEF PanelState, Places
    <3>2. s.tx = n /\ s.call = q.call /\ s.pc = "receipt"
      BY DEF Idle
    <3> QED BY <1>1, <2>2, <3>1, <3>2 DEF SignCall, n
  <2> QED BY <2>1, <2>2
<1>3. /\ queue' \in Seq(Pending) /\ settled' = settled
      /\ Sent \in Nat /\ Sent' = Sent + 1
      /\ \A i \in 1 .. Sent : PanelOf(i)' = PanelOf(i) /\ CallOf(i)' = CallOf(i)
      /\ PanelOf(Sent)' = p /\ CallOf(Sent)' = call
  BY <1>2, SendFacts
<1>4. Typed' /\ \A r \in Panels : panel'[r] = IF r = p THEN s ELSE panel[r]
  BY <1>2, <1>3 DEF ClientInv, Typed, Set
<1>5. PanelOK(p, s)'
  <2>1. PanelOf(s.tx)' = p /\ CallOf(s.tx)' = call
    BY <1>2, <1>3 DEF PanelOf, CallOf
  <2>2. OwnTx(p, s)'
    BY <1>2, <1>3, <2>1 DEF OwnTx
  <2>3. Informed(s)
    BY <1>1, <1>2 DEF PanelOK, Informed
  <2> QED BY <2>2, <2>3 DEF PanelOK, Informed
<1>6. ASSUME NEW r \in Panels, r # p
      PROVE  PanelOK(r, panel[r])'
  <2>1. PanelOK(r, panel[r]) /\ panel'[r] = panel[r]
    BY <1>4, <1>6 DEF ClientInv
  <2> QED BY <1>3, <2>1 DEF PanelOK, OwnTx, Informed
<1> QED BY <1>4, <1>5, <1>6 DEF ClientInv

(* The chain gives a nonce an outcome, not another owner.                  *)
LEMMA SettleStep ==
  ASSUME ClientInv, queue # <<>>, NEW outcome \in Outcomes, NEW left,
         Settle(outcome, left)
  PROVE  ClientInv'
<1> DEFINE d == [panel |-> Head(queue).panel, call |-> Head(queue).call, outcome |-> outcome]
<1>1. queue \in Seq(Pending) /\ settled \in Seq(Done) /\ Head(queue) \in Pending
  BY DEF ClientInv, Typed
<1>2. d \in Done
  BY <1>1 DEF Pending, Done
<1>3. queue' = Tail(queue) /\ settled' = Append(settled, d) /\ panel' = panel
  BY DEF Settle
<1>4. /\ settled' \in Seq(Done) /\ Len(settled') = Len(settled) + 1 /\ Len(settled) \in Nat
      /\ \A i \in 1 .. Len(settled) : settled'[i] = settled[i]
      /\ settled'[Len(settled) + 1] = d
  BY <1>1, <1>2, <1>3
<1>5. /\ queue' \in Seq(Pending) /\ Len(queue') = Len(queue) - 1 /\ Len(queue) \in Nat \ {0}
      /\ \A k \in 1 .. Len(queue) - 1 : queue'[k] = queue[k + 1]
      /\ Head(queue) = queue[1]
  BY <1>1, <1>3, HeadTailProperties, EmptySeq
<1>6. Sent' = Sent /\ Sent \in Nat
  BY <1>4, <1>5 DEF Sent
<1>7. ASSUME NEW i \in 1 .. Sent
      PROVE  PanelOf(i)' = PanelOf(i) /\ CallOf(i)' = CallOf(i)
  <2>1. CASE i <= Len(settled)
    BY <1>4, <2>1 DEF PanelOf, CallOf
  <2>2. CASE i = Len(settled) + 1
    BY <1>4, <1>5, <2>2 DEF PanelOf, CallOf
  <2>3. CASE i > Len(settled) + 1
    <3>1. /\ i - Len(settled') \in 1 .. Len(queue) - 1
          /\ i - Len(settled') + 1 = i - Len(settled)
      BY <1>4, <1>5, <2>3 DEF Sent
    <3>2. queue'[i - Len(settled')] = queue[i - Len(settled)]
      BY <1>5, <3>1
    <3> QED BY <1>4, <2>3, <3>2 DEF PanelOf, CallOf
  <2> QED BY <1>4, <2>1, <2>2, <2>3
<1>8. ASSUME NEW p \in Panels
      PROVE  PanelOK(p, panel[p])'
  <2>1. PanelOK(p, panel[p]) /\ panel'[p] = panel[p] /\ panel[p] \in PanelState
    BY <1>3 DEF ClientInv, Typed
  <2>2. panel[p].tx # 0 /\ panel[p].pc \notin {"approving", "receipt"} =>
          settled'[panel[p].tx] = settled[panel[p].tx]
    BY <1>4, <2>1 DEF PanelOK, OwnTx, PanelState
  <2> QED BY <1>4, <1>6, <1>7, <2>1, <2>2 DEF PanelOK, OwnTx, Informed, PanelState
<1> QED BY <1>3, <1>4, <1>5, <1>8 DEF ClientInv, Typed

(* The invariant is inductive.                                             *)
LEMMA ClientStep ==
  ASSUME ClientInv, [Next]_vars
  PROVE  ClientInv'
<1>1. ASSUME NEW p \in Panels,
             \/ ReadDebt(p) \/ ReadAllowance(p) \/ Recheck(p)
             \/ SignApproval(p) \/ SignCall(p)
             \/ ApprovalDone(p) \/ CallDone(p) \/ Report(p) \/ Fail(p)
      PROVE  ClientInv'
  BY <1>1, ReadStep, SignStep, ReceiptStep
<1>2. ASSUME NEW p \in Panels,
             \/ \E call \in Offered, amt \in Amounts : Click(p, call, amt)
             \/ \E quote \in Amounts : FetchPrice(p, quote)
      PROVE  ClientInv'
  BY <1>2, ClickStep, FetchStep
<1>3. CASE Mine \/ Replace
  <2>1. queue # <<>> /\ \E outcome \in Outcomes : \E left : Settle(outcome, left)
    BY <1>3 DEF Mine, Replace, Outcomes, Executed
  <2> QED BY <2>1, SettleStep
<1>4. CASE UNCHANGED vars
  BY <1>4 DEF ClientInv, Typed, PanelOK, OwnTx, Informed, PanelOf, CallOf, Sent, vars
<1> QED BY <1>1, <1>2, <1>3, <1>4 DEF Next

(* It holds of every run of the page.                                      *)
LEMMA ClientInvariant == Spec => []ClientInv
BY InitOK, ClientStep, PTL DEF Spec

(* What a panel takes for done is its own transaction, executed.           *)
THEOREM ReceiptsAreReal == Spec => []ConfirmedIsDone
<1>1. ClientInv => ConfirmedIsDone
  BY DEF ClientInv, Typed, PanelOK, OwnTx, PanelOf, CallOf, ConfirmedIsDone, At,
         PanelState, Executed
<1> QED BY <1>1, ClientInvariant, PTL

-----------------------------------------------------------------------------
(* The allowance.                                                          *)

(* An amount that was covered when the first mark nonces had settled: it   *)
(* still is, or a later transaction has changed the allowance.             *)
Kept(amt, mark) == mark <= Len(settled) /\ (allowance >= amt \/ Changed(mark))

(* The same, unless the approval at the mark was lowered.                  *)
Covers(p, amt, mark) ==
  /\ mark <= Len(settled)
  /\ \/ allowance >= amt
     \/ mark # 0 /\ settled[mark].panel = p /\ settled[mark].outcome = "lowered"
     \/ Changed(mark)

(* What a panel that pays USDX may count on, and more for a liquidation;   *)
(* an approval on its way is for the amount of its panel.                  *)
PanelCovered(p, q) ==
  /\ q.pc = "price" => q.call \in TakesPrice
  /\ q.pc = "prompt" /\ q.call \in PaysUsdx => Covers(p, q.amt, q.mark)
  /\ q.pc = "prompt" /\ q.call = "liquidate" => Kept(q.amt, q.mark)
  /\ q.pc = "approving" =>
       IF q.tx <= Len(settled)
       THEN settled[q.tx].outcome \in Executed => Covers(p, q.amt, q.tx)
       ELSE queue[q.tx - Len(settled)].amt = q.amt

QueueCovered ==
  \A k \in 1 .. Len(queue) :
    queue[k].call \in PaysUsdx => Covers(queue[k].panel, queue[k].amt, queue[k].mark)

CoverInv ==
  /\ allowance \in Int /\ QueueCovered
  /\ \A p \in Panels : PanelCovered(p, panel[p])

LEMMA CoverInit == Init => CoverInv
BY DEF Init, CoverInv, QueueCovered, PanelCovered, Idle

(* A step of one panel that leaves the chain alone.                        *)
LEMMA PanelCovers ==
  ASSUME ClientInv, CoverInv, NEW p \in Panels, NEW q, PanelCovered(p, q),
         Set(p, q), UNCHANGED Chain
  PROVE  CoverInv'
<1>1. \A r \in Panels : panel'[r] = IF r = p THEN q ELSE panel[r]
  BY DEF ClientInv, Typed, Set
<1>2. \A r \in Panels : PanelCovered(r, panel'[r])
  BY <1>1 DEF CoverInv
<1>3. UNCHANGED <<queue, settled, allowance>>
  BY DEF Chain
<1>4. \A r \in Panels : PanelCovered(r, panel[r])'
  BY <1>2, <1>3 DEF PanelCovered, Covers, Kept, Changed
<1> QED BY <1>3, <1>4 DEF CoverInv, QueueCovered, Covers, Changed

LEMMA ReadCovers ==
  ASSUME ClientInv, CoverInv, NEW p \in Panels,
         \/ \E call \in Offered, amt \in Amounts : Click(p, call, amt)
         \/ ReadDebt(p) \/ \E quote \in Amounts : FetchPrice(p, quote)
         \/ ReadAllowance(p) \/ Recheck(p)
  PROVE  CoverInv'
<1> DEFINE q == panel[p]
<1>1. /\ q \in PanelState /\ PanelOK(p, q) /\ PanelCovered(p, q)
      /\ Len(settled) \in Nat /\ allowance \in Int
  BY DEF ClientInv, Typed, CoverInv
<1>2. CASE \E call \in Offered, amt \in Amounts : Click(p, call, amt)
  <2>1. PICK call \in Offered, amt \in Amounts : Click(p, call, amt)
    BY <1>2
  <2> DEFINE s == [Idle EXCEPT !.pc = First(call), !.call = call,
                               !.amt = IF call \in EntersUsdx THEN amt ELSE 0]
  <2>2. call \in Calls
    BY <2>1, CallsKnown DEF Click
  <2>3. /\ First(call) \in {"allowance", "debt", "price", "prompt"}
        /\ First(call) = "price" => call \in TakesPrice
        /\ First(call) = "prompt" => call \notin PaysUsdx
    BY <2>2 DEF First, Calls, EntersUsdx, PaysUsdx, TakesPrice
  <2>4. s.pc = First(call) /\ s.call = call /\ "liquidate" \in PaysUsdx
    BY DEF Idle, PaysUsdx
  <2>5. PanelCovered(p, s)
    BY <2>3, <2>4 DEF PanelCovered
  <2> QED BY <2>1, <2>5, PanelCovers DEF Click
<1>3. CASE ReadDebt(p)
  <2> DEFINE s == [q EXCEPT !.pc = "price"]
             t == [q EXCEPT !.pc = "prompt", !.price = "unneeded"]
  <2>1. q.call = "withdrawCollateral"
    BY <1>1, <1>3 DEF ReadDebt, At, PanelOK, Informed
  <2>2. s.pc = "price" /\ s.call = q.call /\ t.pc = "prompt" /\ t.call = q.call
    BY <1>1 DEF PanelState
  <2>3. PanelCovered(p, s) /\ PanelCovered(p, t)
    BY <2>1, <2>2 DEF PanelCovered, PaysUsdx, EntersUsdx, TakesPrice
  <2> QED BY <1>3, <2>3, PanelCovers DEF ReadDebt
<1>4. CASE \E quote \in Amounts : FetchPrice(p, quote)
  <2>1. PICK quote \in Amounts : FetchPrice(p, quote)
    BY <1>4
  <2> DEFINE f == [q EXCEPT !.price = "fresh"]
             s == [f EXCEPT !.pc = "prompt"]
             t == [f EXCEPT !.amt = quote, !.mark = 0, !.pc = AfterQuote(f.tx)]
  <2>2. f \in PanelState /\ f.call = q.call
    BY <1>1 DEF PanelState
  <2>3. s.pc = "prompt" /\ s.call = q.call /\ t.pc \in {"allowance", "recheck"}
    BY <2>2 DEF PanelState, AfterQuote
  <2>4. q.call \in TakesPrice
    BY <1>1, <2>1 DEF FetchPrice, At, PanelCovered
  <2>5. PanelCovered(p, t)
    BY <2>3 DEF PanelCovered
  <2>6. q.call # "liquidate" => PanelCovered(p, s)
    BY <2>3, <2>4 DEF PanelCovered, PaysUsdx, EntersUsdx, TakesPrice
  <2>7. Set(p, IF f.call # "liquidate" THEN s ELSE t) /\ UNCHANGED Chain
    BY <2>1 DEF FetchPrice
  <2> HIDE DEF f, s, t
  <2> QED BY <2>2, <2>5, <2>6, <2>7, PanelCovers
<1>5. CASE ReadAllowance(p)
  <2> DEFINE pc == IF NeedsApproval(q.amt) THEN "approve" ELSE "prompt"
             s == [q EXCEPT !.mark = Len(settled), !.pc = pc]
  <2>1. s.pc = pc /\ s.mark = Len(settled) /\ s.amt = q.amt /\ q.amt \in Nat
    BY <1>1 DEF PanelState
  <2>2. pc = "prompt" => allowance >= q.amt
    BY <1>1, <2>1 DEF NeedsApproval
  <2>3. PanelCovered(p, s)
    BY <1>1, <2>1, <2>2 DEF PanelCovered, Covers, Kept
  <2> QED BY <1>5, <2>3, PanelCovers DEF ReadAllowance
<1>6. CASE Recheck(p)
  <2> DEFINE s == [q EXCEPT !.mark = Len(settled), !.pc = "prompt"]
  <2>1. s.pc = "prompt" /\ s.mark = Len(settled) /\ s.amt = q.amt /\ q.amt \in Nat
    BY <1>1 DEF PanelState
  <2>2. allowance >= q.amt
    BY <1>1, <1>6, <2>1 DEF Recheck, NeedsApproval
  <2>3. PanelCovered(p, s)
    BY <1>1, <2>1, <2>2 DEF PanelCovered, Covers, Kept
  <2> QED BY <1>6, <2>3, PanelCovers DEF Recheck
<1> QED BY <1>2, <1>3, <1>4, <1>5, <1>6

LEMMA ReceiptCovers ==
  ASSUME ClientInv, CoverInv, NEW p \in Panels,
         ApprovalDone(p) \/ CallDone(p) \/ Report(p) \/ Fail(p)
  PROVE  CoverInv'
<1> DEFINE q == panel[p]
<1>1. q \in PanelState /\ PanelOK(p, q) /\ PanelCovered(p, q)
  BY DEF ClientInv, Typed, CoverInv
<1>2. PanelCovered(p, Idle)
  BY DEF PanelCovered, Idle
<1>3. CASE ApprovalDone(p)
  <2> DEFINE s == [q EXCEPT !.pc = AfterApproval(q.call), !.mark = q.tx]
  <2>1. s.pc = AfterApproval(q.call) /\ s.mark = q.tx /\ s.amt = q.amt /\ s.call = q.call
    BY <1>1 DEF PanelState
  <2>2. Covers(p, q.amt, q.tx)
    BY <1>1, <1>3 DEF ApprovalDone, At, Confirmed, PanelCovered
  <2>3. /\ AfterApproval(q.call) \in {"price", "prompt"}
        /\ AfterApproval(q.call) = "price" <=> q.call = "liquidate"
    BY DEF AfterApproval
  <2>4. PanelCovered(p, s)
    BY <2>1, <2>2, <2>3 DEF PanelCovered, TakesPrice
  <2> QED BY <1>3, <2>4, PanelCovers DEF ApprovalDone
<1>4. CASE CallDone(p)
  <2> DEFINE s == [q EXCEPT !.pc = "report", !.hash = settled[q.tx].outcome]
  <2>1. s.pc = "report"
    BY <1>1 DEF PanelState
  <2>2. PanelCovered(p, s)
    BY <2>1 DEF PanelCovered
  <2>3. Set(p, IF ~Mirrored(q.call) THEN Idle ELSE s) /\ UNCHANGED Chain
    BY <1>4 DEF CallDone
  <2> HIDE DEF s
  <2> QED BY <1>2, <2>2, <2>3, PanelCovers
<1>5. CASE Report(p) \/ Fail(p)
  BY <1>2, <1>5, PanelCovers DEF Report, Fail
<1> QED BY <1>3, <1>4, <1>5

(* A signed transaction is as well covered as its panel was.               *)
LEMMA SignCovers ==
  ASSUME ClientInv, CoverInv, NEW p \in Panels, SignApproval(p) \/ SignCall(p)
  PROVE  CoverInv'
<1> DEFINE q == panel[p]
<1>1. /\ q \in PanelState /\ PanelOK(p, q) /\ PanelCovered(p, q)
      /\ queue \in Seq(Pending) /\ Len(settled) \in Nat /\ q.call \in Calls
  BY DEF ClientInv, Typed, CoverInv, SignApproval, SignCall, At, PanelOK, Informed
<1>2. PICK call, s :
        /\ call \in Calls \cup {"approve"} /\ Send(p, call) /\ Set(p, s)
        /\ \/ call = "approve" /\ s.pc = "approving" /\ s.tx = Sent + 1 /\ s.amt = q.amt
           \/ call = q.call /\ s.pc = "receipt" /\ q.pc = "prompt"
  <2>1. CASE SignApproval(p)
    <3> DEFINE n == Sent + 1
               s == [q EXCEPT !.pc = "approving", !.tx = n, !.price = "old"]
    <3>1. s.pc = "approving" /\ s.tx = n /\ s.amt = q.amt
      BY <1>1 DEF PanelState
    <3> QED BY <2>1, <3>1 DEF SignApproval
  <2>2. CASE SignCall(p)
    <3> DEFINE s == [Idle EXCEPT !.pc = "receipt", !.call = q.call, !.tx = Sent + 1]
    <3>1. s.pc = "receipt"
      BY DEF Idle
    <3> QED BY <1>1, <2>2, <3>1 DEF SignCall, At
  <2> QED BY <2>1, <2>2
<1> DEFINE t == [panel |-> p, call |-> call, amt |-> q.amt, mark |-> q.mark]
<1>3. /\ queue' = Append(queue, t) /\ UNCHANGED <<settled, allowance>>
      /\ \A r \in Panels : panel'[r] = IF r = p THEN s ELSE panel[r]
  BY <1>2 DEF Send, ClientInv, Typed, Set
<1>4. t \in Pending /\ t.call = call /\ t.amt = q.amt /\ t.mark = q.mark /\ t.panel = p
  BY <1>1, <1>2 DEF Pending, PanelState
<1> HIDE DEF t
<1>5. /\ Len(queue) \in Nat /\ Len(queue') = Len(queue) + 1
      /\ \A k \in 1 .. Len(queue) : queue'[k] = queue[k]
      /\ queue'[Len(queue) + 1] = t
  BY <1>1, <1>3, <1>4
<1>6. QueueCovered'
  <2>1. \A k \in 1 .. Len(queue') : queue'[k] = t \/ (k \in 1 .. Len(queue) /\ queue'[k] = queue[k])
    BY <1>5
  <2>2. t.call \in PaysUsdx => Covers(t.panel, t.amt, t.mark)
    BY <1>1, <1>2, <1>4 DEF PanelCovered, PaysUsdx, EntersUsdx
  <2>3. \A k \in 1 .. Len(queue') :
           queue'[k].call \in PaysUsdx => Covers(queue'[k].panel, queue'[k].amt, queue'[k].mark)
    BY <2>1, <2>2 DEF CoverInv, QueueCovered
  <2> QED BY <1>3, <2>3 DEF QueueCovered, Covers, Changed
<1>7. PanelCovered(p, panel[p])'
  <2>1. Sent = Len(settled) + Len(queue)
    BY DEF Sent
  <2>2. panel'[p] = s /\ settled' = settled
    BY <1>3
  <2>3. CASE s.pc = "approving" /\ s.tx = Sent + 1 /\ s.amt = q.amt
    <3> DEFINE n == s.tx
    <3>0. n = Len(settled) + Len(queue) + 1
      BY <2>1, <2>3
    <3> HIDE DEF n
    <3>1. ~(n <= Len(settled)) /\ n - Len(settled) = Len(queue) + 1
      BY <1>1, <1>5, <3>0
    <3>2. queue'[n - Len(settled)].amt = s.amt
      BY <1>4, <1>5, <2>3, <3>1
    <3> QED BY <2>2, <2>3, <3>1, <3>2 DEF PanelCovered, n
  <2>4. CASE s.pc = "receipt"
    BY <2>2, <2>4 DEF PanelCovered
  <2> QED BY <1>2, <2>3, <2>4
<1>8. ASSUME NEW r \in Panels, r # p
      PROVE  PanelCovered(r, panel[r])'
  <2>1. panel'[r] = panel[r] /\ PanelCovered(r, panel[r]) /\ PanelOK(r, panel[r])
        /\ panel[r] \in PanelState
    BY <1>3, <1>8 DEF CoverInv, ClientInv, Typed
  <2>2. panel[r].pc = "approving" /\ ~(panel[r].tx <= Len(settled)) =>
          panel[r].tx - Len(settled) \in 1 .. Len(queue)
    BY <1>1, <1>5, <2>1 DEF PanelOK, OwnTx, Sent, PanelState
  <2> QED BY <1>3, <1>5, <2>1, <2>2 DEF PanelCovered, Covers, Kept, Changed
<1> QED BY <1>3, <1>6, <1>7, <1>8 DEF CoverInv

(* A step of the chain: an amount that was covered still is, or the step   *)
(* itself is one of the causes.                                            *)
LEMMA SettleCovers ==
  ASSUME ClientInv, CoverInv, queue # <<>>, NEW outcome \in Outcomes, NEW left \in Int,
         Settle(outcome, left),
         \/ left = allowance
         \/ Head(queue).call \in PaysUsdx \cup {"approve"} /\ outcome \in Executed,
         Head(queue).call = "approve" /\ outcome \in Executed =>
           left = Head(queue).amt \/ outcome = "lowered"
  PROVE  CoverInv'
<1> DEFINE d == [panel |-> Head(queue).panel, call |-> Head(queue).call, outcome |-> outcome]
           n == Len(settled) + 1
           Again(mark) ==           \* Changed, Kept and Covers in the next state
             \E j \in mark + 1 .. Len(settled') :
               settled'[j].call \in PaysUsdx \cup {"approve"} /\ settled'[j].outcome \in Executed
           Still(amt, mark) == mark <= Len(settled') /\ (left >= amt \/ Again(mark))
           Later(p, amt, mark) ==
             \/ Still(amt, mark)
             \/ /\ mark <= Len(settled') /\ mark # 0
                /\ settled'[mark].panel = p /\ settled'[mark].outcome = "lowered"
<1>1. queue \in Seq(Pending) /\ settled \in Seq(Done) /\ Head(queue) \in Pending
  BY DEF ClientInv, Typed
<1>2. d \in Done /\ d.panel = Head(queue).panel /\ d.call = Head(queue).call /\ d.outcome = outcome
  BY <1>1 DEF Pending, Done
<1>3. queue' = Tail(queue) /\ settled' = Append(settled, d) /\ panel' = panel /\ allowance' = left
  BY DEF Settle
<1> HIDE DEF d
<1>4. /\ Len(settled') = n /\ Len(settled) \in Nat
      /\ \A i \in 1 .. Len(settled) : settled'[i] = settled[i]
      /\ settled'[n] = d
  BY <1>1, <1>2, <1>3
<1>5. /\ Len(queue') = Len(queue) - 1 /\ Len(queue) \in Nat \ {0}
      /\ \A k \in 1 .. Len(queue) - 1 : queue'[k] = queue[k + 1]
      /\ Head(queue) = queue[1] /\ \A k \in 1 .. Len(queue) : queue[k] \in Pending
  BY <1>1, <1>3, HeadTailProperties, EmptySeq
<1>6. ASSUME NEW amt, NEW mark \in Nat, Kept(amt, mark)
      PROVE  Still(amt, mark)
  <2>1. mark <= Len(settled) /\ mark <= Len(settled')
    BY <1>4, <1>6 DEF Kept
  <2>2. CASE allowance >= amt
    <3>1. CASE left = allowance
      BY <2>1, <2>2, <3>1
    <3>2. CASE Head(queue).call \in PaysUsdx \cup {"approve"} /\ outcome \in Executed
      <4>1. /\ n \in mark + 1 .. Len(settled')
            /\ settled'[n].call \in PaysUsdx \cup {"approve"} /\ settled'[n].outcome \in Executed
        BY <1>2, <1>4, <2>1, <3>2
      <4> QED BY <2>1, <4>1
    <3> QED BY <3>1, <3>2
  <2>3. ASSUME NEW j \in mark + 1 .. Len(settled),
               settled[j].call \in PaysUsdx \cup {"approve"}, settled[j].outcome \in Executed
        PROVE  Still(amt, mark)
    <3>1. j \in mark + 1 .. Len(settled') /\ settled'[j] = settled[j]
      BY <1>4
    <3> QED BY <2>1, <2>3, <3>1
  <2> QED BY <1>6, <2>2, <2>3 DEF Kept, Changed
<1> HIDE DEF Still
<1>7. ASSUME NEW p, NEW amt, NEW mark \in Nat, Covers(p, amt, mark)
      PROVE  Later(p, amt, mark)
  <2>1. CASE Kept(amt, mark)
    BY <1>6, <2>1
  <2>2. CASE mark <= Len(settled) /\ mark # 0 /\ settled[mark].panel = p
             /\ settled[mark].outcome = "lowered"
    BY <1>4, <2>2
  <2> QED BY <1>7, <2>1, <2>2 DEF Covers, Kept
<1> HIDE DEF Later
<1>8. QueueCovered'
  <2>1. ASSUME NEW k \in 1 .. Len(queue'), queue'[k].call \in PaysUsdx
        PROVE  Later(queue'[k].panel, queue'[k].amt, queue'[k].mark)
    <3>1. k + 1 \in 1 .. Len(queue) /\ queue'[k] = queue[k + 1] /\ queue[k + 1].mark \in Nat
      BY <1>5 DEF Pending
    <3>2. Covers(queue[k + 1].panel, queue[k + 1].amt, queue[k + 1].mark)
      BY <2>1, <3>1 DEF CoverInv, QueueCovered
    <3>3. Later(queue[k + 1].panel, queue[k + 1].amt, queue[k + 1].mark)
      BY <1>7, <3>1, <3>2
    <3> QED BY <3>1, <3>3
  <2> QED BY <1>3, <2>1 DEF QueueCovered, Covers, Changed, Later, Still
<1>9. ASSUME NEW p \in Panels
      PROVE  PanelCovered(p, panel[p])'
  <2> DEFINE q == panel[p]
  <2>1. q \in PanelState /\ PanelOK(p, q) /\ PanelCovered(p, q)
    BY DEF ClientInv, Typed, CoverInv
  <2>2. q.tx \in Nat /\ q.mark \in Nat /\ q.amt \in Nat
    BY <2>1 DEF PanelState
  <2>3. q.pc = "price" => q.call \in TakesPrice
    BY <2>1 DEF PanelCovered
  <2>4. q.pc = "prompt" /\ q.call \in PaysUsdx => Later(p, q.amt, q.mark)
    BY <1>7, <2>1, <2>2 DEF PanelCovered
  <2>5. q.pc = "prompt" /\ q.call = "liquidate" => Still(q.amt, q.mark)
    BY <1>6, <2>1, <2>2 DEF PanelCovered
  <2>6. ASSUME q.pc = "approving"
        PROVE  IF q.tx <= Len(settled')
               THEN settled'[q.tx].outcome \in Executed => Later(p, q.amt, q.tx)
               ELSE queue'[q.tx - Len(settled')].amt = q.amt
    <3>1. q.tx \in 1 .. Sent /\ PanelOf(q.tx) = p /\ CallOf(q.tx) = "approve"
      BY <2>1, <2>6 DEF PanelOK, OwnTx
    <3>2. CASE q.tx <= Len(settled)
      <4>1. settled'[q.tx] = settled[q.tx] /\ q.tx <= Len(settled')
        BY <1>4, <2>2, <3>1, <3>2
      <4>2. settled[q.tx].outcome \in Executed => Covers(p, q.amt, q.tx)
        BY <2>1, <2>6, <3>2 DEF PanelCovered
      <4> QED BY <1>7, <2>2, <4>1, <4>2
    <3>3. CASE q.tx = n
      <4>1. Head(queue).panel = p /\ Head(queue).call = "approve" /\ Head(queue).amt = q.amt
        BY <1>4, <1>5, <2>1, <2>6, <3>1, <3>3 DEF PanelOf, CallOf, PanelCovered
      <4>2. ASSUME outcome \in Executed PROVE Later(p, q.amt, q.tx)
        <5>1. left = q.amt \/ outcome = "lowered"
          BY <4>1, <4>2
        <5>2. n # 0 /\ n <= Len(settled') /\ settled'[n].panel = p /\ settled'[n].outcome = outcome
          BY <1>2, <1>4, <4>1
        <5> QED BY <2>2, <3>3, <5>1, <5>2 DEF Later, Still
      <4> QED BY <1>2, <1>4, <3>3, <4>2
    <3>4. CASE q.tx > n
      <4>1. /\ q.tx - Len(settled') \in 1 .. Len(queue) - 1
            /\ q.tx - Len(settled') + 1 = q.tx - Len(settled)
            /\ ~(q.tx <= Len(settled)) /\ ~(q.tx <= Len(settled'))
        BY <1>4, <1>5, <2>2, <3>1, <3>4 DEF Sent
      <4>2. queue'[q.tx - Len(settled')] = queue[q.tx - Len(settled)]
        BY <1>5, <4>1
      <4> QED BY <2>1, <2>6, <4>1, <4>2 DEF PanelCovered
    <3> QED BY <1>4, <2>2, <3>2, <3>3, <3>4
  <2>7. panel'[p] = q /\ allowance' = left
    BY <1>3
  <2> HIDE DEF q
  <2> QED BY <2>3, <2>4, <2>6, <2>7, <2>5 DEF PanelCovered, Covers, Kept, Changed, Later, Still
<1> QED BY <1>3, <1>8, <1>9 DEF CoverInv

(* What the chain may do with the next transaction.                        *)
LEMMA ChainSettles ==
  ASSUME ClientInv, CoverInv, Mine \/ Replace
  PROVE  /\ queue # <<>>
         /\ \E outcome \in Outcomes, left \in Int :
              /\ Settle(outcome, left)
              /\ \/ left = allowance
                 \/ Head(queue).call \in PaysUsdx \cup {"approve"} /\ outcome \in Executed
              /\ Head(queue).call = "approve" /\ outcome \in Executed =>
                   left = Head(queue).amt \/ outcome = "lowered"
              /\ outcome = "short" => /\ Head(queue).call \in PaysUsdx
                                      /\ ~(allowance >= Head(queue).amt)
<1> DEFINE t == Head(queue)
<1>1. queue # <<>> /\ t \in Pending /\ allowance \in Int
  <2>1. queue # <<>>
    BY DEF Mine, Replace
  <2> QED BY <2>1, HeadTailProperties, EmptySeq DEF ClientInv, Typed, CoverInv
<1>2. t.amt \in Nat /\ {"reverted", "replaced", "short"} \cup Executed = Outcomes
  BY <1>1 DEF Pending, Outcomes
<1>3. "approve" \notin PaysUsdx /\ {"reverted", "replaced", "short"} \cap Executed = {}
  BY DEF PaysUsdx, EntersUsdx, Executed
<1>4. {"done", "repriced", "lowered"} = Executed
  BY DEF Executed
<1>5. CASE Settle("reverted", allowance) \/ Replace
  BY <1>1, <1>2, <1>3, <1>5 DEF Replace
<1>6. CASE /\ t.call = "approve"
           /\ \/ \E how \in {"done", "repriced"} : Settle(how, t.amt)
              \/ Settle("lowered", t.amt - 1)
  <2>1. PICK how \in Executed, left \in Int : Settle(how, left) /\ (left = t.amt \/ how = "lowered")
    BY <1>2, <1>4, <1>6
  <2>2. how \in Outcomes /\ how # "short"
    BY <1>2, <1>3
  <2>3. Head(queue).call \in PaysUsdx \cup {"approve"}
    BY <1>6
  <2> QED BY <1>1, <2>1, <2>2, <2>3
<1>7. CASE t.call \notin PaysUsdx \cup {"approve"}
             /\ \E how \in {"done", "repriced"} : Settle(how, allowance)
  BY <1>1, <1>2, <1>3, <1>4, <1>7
<1>8. ASSUME NEW paid \in 1 .. t.amt, t.call \in PaysUsdx,
             IF paid > allowance THEN Settle("short", allowance)
             ELSE \E how \in {"done", "repriced"} : Settle(how, allowance - paid)
      PROVE  \E outcome \in Outcomes, left \in Int :
              /\ Settle(outcome, left)
              /\ \/ left = allowance
                 \/ t.call \in PaysUsdx \cup {"approve"} /\ outcome \in Executed
              /\ t.call = "approve" /\ outcome \in Executed =>
                   left = t.amt \/ outcome = "lowered"
              /\ outcome = "short" => t.call \in PaysUsdx /\ ~(allowance >= t.amt)
  <2>1. CASE paid > allowance
    <3>1. ~(allowance >= t.amt)
      BY <1>1, <1>2, <2>1
    <3> QED BY <1>1, <1>2, <1>3, <1>8, <2>1, <3>1
  <2>2. CASE ~(paid > allowance)
    <3>1. PICK how \in {"done", "repriced"} : Settle(how, allowance - paid)
      BY <1>8, <2>2
    <3>2. allowance - paid \in Int
      BY <1>1
    <3> QED BY <1>2, <1>3, <1>4, <1>8, <3>1, <3>2
  <2> QED BY <2>1, <2>2
<1> QED BY <1>1, <1>5, <1>6, <1>7, <1>8 DEF Mine

LEMMA CoverStep ==
  ASSUME ClientInv, CoverInv, [Next]_vars
  PROVE  CoverInv'
<1>1. ASSUME NEW p \in Panels,
             \/ ReadDebt(p) \/ ReadAllowance(p) \/ Recheck(p)
             \/ \E call \in Offered, amt \in Amounts : Click(p, call, amt)
             \/ \E quote \in Amounts : FetchPrice(p, quote)
      PROVE  CoverInv'
  BY <1>1, ReadCovers
<1>2. ASSUME NEW p \in Panels,
             \/ SignApproval(p) \/ SignCall(p)
             \/ ApprovalDone(p) \/ CallDone(p) \/ Report(p) \/ Fail(p)
      PROVE  CoverInv'
  BY <1>2, SignCovers, ReceiptCovers
<1>3. CASE Mine \/ Replace
  BY <1>3, ChainSettles, SettleCovers
<1>4. CASE UNCHANGED vars
  BY <1>4 DEF CoverInv, QueueCovered, PanelCovered, Covers, Kept, Changed, vars
<1> QED BY <1>1, <1>2, <1>3, <1>4 DEF Next

(* Nobody is asked to sign on a price from before a wait, or for a         *)
(* liquidation whose payment the allowance did not cover after the         *)
(* approval: whatever interleaves, the second read stands between.         *)
THEOREM PromptsAreCurrent == Spec => []PromptIsCurrent
<1>1. ClientInv /\ CoverInv => PromptIsCurrent
  BY DEF ClientInv, CoverInv, PanelOK, Informed, PanelCovered, Kept, PromptIsCurrent, At
<1>2. ClientInv /\ CoverInv /\ [Next]_vars => (ClientInv /\ CoverInv)'
  BY ClientStep, CoverStep
<1> QED BY InitOK, CoverInit, <1>1, <1>2, PTL DEF Spec

(* Only the chain settles a transaction.                                   *)
LEMMA OnlyChainSettles ==
  ASSUME ClientInv, [Next]_vars, Len(settled') > Len(settled)
  PROVE  Mine \/ Replace
<1>1. ~(Len(settled) > Len(settled))
  BY DEF ClientInv, Typed
<1>2. settled' # settled
  BY <1>1
<1> QED BY <1>2 DEF Next, Chain, vars, ReadDebt, ReadAllowance, Recheck, SignApproval,
                    SignCall, Send, ApprovalDone, CallDone, Report, Fail, Click, FetchPrice

(* A call of the page that falls short of the allowance was covered when   *)
(* the page looked: another transaction, or the user, changed that since.  *)
THEOREM ShortsHaveCauses == Spec => ShortOnlyByOthers
<1> DEFINE t == Head(queue)
           Shorted == Len(settled') > Len(settled) /\ settled'[Len(settled')].outcome = "short"
           Caused ==
             \/ t.mark # 0 /\ settled[t.mark].panel = t.panel
                           /\ settled[t.mark].outcome = "lowered"
             \/ Changed(t.mark)
<1>1. ASSUME ClientInv, CoverInv, [Next]_vars, Shorted
      PROVE  Caused
  <2>1. Mine \/ Replace
    BY <1>1, OnlyChainSettles
  <2>2. PICK outcome \in Outcomes, left \in Int :
          /\ Settle(outcome, left) /\ queue # <<>>
          /\ outcome = "short" => t.call \in PaysUsdx /\ ~(allowance >= t.amt)
    BY <1>1, <2>1, ChainSettles
  <2>3. settled \in Seq(Done) /\ queue \in Seq(Pending) /\ t \in Pending
    BY <1>1, <2>2, HeadTailProperties, EmptySeq DEF ClientInv, Typed
  <2> DEFINE d == [panel |-> t.panel, call |-> t.call, outcome |-> outcome]
  <2>4. settled' = Append(settled, d) /\ d \in Done /\ d.outcome = outcome
    BY <2>2, <2>3 DEF Settle, Pending, Done
  <2> HIDE DEF d
  <2>5. settled'[Len(settled')] = d
    BY <2>3, <2>4
  <2>6. t.call \in PaysUsdx /\ ~(allowance >= t.amt)
    BY <1>1, <2>2, <2>4, <2>5
  <2>7. 1 \in 1 .. Len(queue) /\ queue[1] = t
    BY <2>2, <2>3, HeadTailProperties, EmptySeq
  <2>8. Covers(t.panel, t.amt, t.mark)
    BY <1>1, <2>6, <2>7 DEF CoverInv, QueueCovered
  <2> QED BY <2>6, <2>8 DEF Covers
<1>2. ClientInv /\ CoverInv /\ [Next]_vars => (ClientInv /\ CoverInv)'
  BY ClientStep, CoverStep
<1>3. Init => ClientInv /\ CoverInv
  BY InitOK, CoverInit
<1>4. ClientInv /\ CoverInv /\ [Next]_vars => [Shorted => Caused]_vars
  BY <1>1
<1> QED BY <1>2, <1>3, <1>4, PTL DEF Spec, ShortOnlyByOthers
=============================================================================
