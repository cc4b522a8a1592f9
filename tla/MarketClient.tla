---------------------------- MODULE MarketClient ----------------------------
(***************************************************************************)
(* The market page: panels that each run one user action at a time, the    *)
(* wallet that signs for all of them, and the chain that executes the      *)
(* account's transactions in nonce order.  An action is a sequence of      *)
(* awaits; panels interleave at each of them and share the account's USDX  *)
(* allowance to the pool.  Of the market only what makes the page change   *)
(* its mind is kept: the payment quoted for a liquidation, the allowance,  *)
(* and whether a call is executed, reverted, or replaced in the wallet.    *)
(***************************************************************************)
EXTENDS Naturals, Sequences

CONSTANTS
  Panels,     \* the panels on the page
  Offered,    \* the user actions taken into account
  Amounts,    \* USDX amounts entered or quoted
  MaxTxs      \* bound: transactions the account sends

CallsOf ==
  [position |-> {"supply", "repay", "borrow", "withdrawCollateral",
                 "withdrawSupply", "depositCollateral"},
   liquidation |-> {"liquidate"}, price |-> {"updatePrice"}, faucet |-> {"claimFaucet"}]

ASSUME ClientAssumption ==
  /\ Panels \subseteq DOMAIN CallsOf
  /\ Offered \subseteq UNION {CallsOf[p] : p \in DOMAIN CallsOf}
  /\ Amounts \subseteq Nat \ {0} /\ MaxTxs \in Nat

EntersUsdx == {"supply", "repay"}
PaysUsdx == EntersUsdx \cup {"liquidate"}
TakesPrice == {"borrow", "withdrawCollateral", "updatePrice", "liquidate"}
Mirrored(call) == call # "updatePrice"

VARIABLES
  panel,      \* panel[p]: position, call, amount, and what the action has read
  queue,      \* transactions of the account in nonce order, not settled yet
  settled,    \* what became of the earlier nonces
  allowance   \* USDX the pool may take from the account

vars == <<panel, queue, settled, allowance>>
Chain == <<queue, settled, allowance>>
Sent == Len(settled) + Len(queue)

Idle == [pc |-> "idle", call |-> "none", amt |-> 0, price |-> "none",
         mark |-> 0, tx |-> 0, hash |-> "none"]
Init ==
  /\ panel = [p \in Panels |-> Idle]
  /\ queue = <<>> /\ settled = <<>> /\ allowance = 0

At(p, pc) == panel[p].pc = pc
Set(p, value) == panel' = [panel EXCEPT ![p] = value]

-----------------------------------------------------------------------------
(* The steps of an action before its transaction.                          *)

First(call) ==
  CASE call \in EntersUsdx -> "allowance"
    [] call = "withdrawCollateral" -> "debt"
    [] call \in TakesPrice \ {"withdrawCollateral"} -> "price"
    [] OTHER -> "prompt"

(* A click with a valid amount, when the panel's action is not active.     *)
Click(p, call, amt) ==
  /\ At(p, "idle") /\ call \in CallsOf[p]
  /\ Set(p, [Idle EXCEPT !.pc = First(call), !.call = call,
                         !.amt = IF call \in EntersUsdx THEN amt ELSE 0])
  /\ UNCHANGED Chain

(* doWithdrawCollateral: an account without debt needs no price.           *)
ReadDebt(p) ==
  /\ At(p, "debt")
  /\ \/ Set(p, [panel[p] EXCEPT !.pc = "price"])
     \/ Set(p, [panel[p] EXCEPT !.pc = "prompt", !.price = "unneeded"])
  /\ UNCHANGED Chain

BugAfterQuote(tx) == IF tx = 0 THEN "allowance" ELSE "prompt"
(* The preview after an approval is followed by a read of its own.         *)
AfterQuote(tx) == IF tx = 0 THEN "allowance" ELSE "recheck"

(* pythUpdate; for a liquidation the preview at the price just fetched: a  *)
(* payment the allowance has not been compared with.                       *)
FetchPrice(p, quote) ==
  /\ At(p, "price")
  /\ LET q == [panel[p] EXCEPT !.price = "fresh"] IN
     Set(p, IF q.call # "liquidate" THEN [q EXCEPT !.pc = "prompt"]
            ELSE [q EXCEPT !.amt = quote, !.mark = 0, !.pc = AfterQuote(q.tx)])
  /\ UNCHANGED Chain

BugApproveIfNone(amt) == allowance = 0
NeedsApproval(amt) == allowance < amt

ReadAllowance(p) ==
  /\ At(p, "allowance")
  /\ Set(p, [panel[p] EXCEPT !.mark = Len(settled),
               !.pc = IF NeedsApproval(panel[p].amt) THEN "approve" ELSE "prompt"])
  /\ UNCHANGED Chain

(* liquidate: the approval must still cover the payment quoted after it.   *)
Recheck(p) ==
  /\ At(p, "recheck") /\ ~NeedsApproval(panel[p].amt)
  /\ Set(p, [panel[p] EXCEPT !.mark = Len(settled), !.pc = "prompt"])
  /\ UNCHANGED Chain

-----------------------------------------------------------------------------
(* The wallet.                                                             *)

Send(p, call) ==
  /\ Sent < MaxTxs
  /\ queue' = Append(queue, [panel |-> p, call |-> call, amt |-> panel[p].amt,
                             mark |-> panel[p].mark])
  /\ UNCHANGED <<settled, allowance>>

(* What was read before the wait for the wallet and the chain is old now.  *)
SignApproval(p) ==
  /\ At(p, "approve")
  /\ Send(p, "approve")
  /\ Set(p, [panel[p] EXCEPT !.pc = "approving", !.tx = Sent + 1, !.price = "old"])

SignCall(p) ==
  /\ At(p, "prompt")
  /\ Send(p, panel[p].call)
  /\ Set(p, [Idle EXCEPT !.pc = "receipt", !.call = panel[p].call, !.tx = Sent + 1])

-----------------------------------------------------------------------------
(* Receipts and what follows them.  A nonce ends by the transaction the    *)
(* page sent ("done", or "lowered" for an approval whose amount the user   *)
(* lowered in the wallet), by the same at another fee ("repriced"), by     *)
(* another the user put in its place ("replaced", also for "cancelled"),   *)
(* or reverted, "short" when for want of allowance.                        *)

Executed == {"done", "lowered", "repriced"}

BugAnyReceipt(i) == i <= Len(settled) /\ settled[i].outcome \in Executed \cup {"replaced"}
(* confirmTransaction resolves: a receipt of the very call, not reverted.  *)
Confirmed(i) == i <= Len(settled) /\ settled[i].outcome \in Executed

BugAfterApproval(call) == IF call = "liquidate" THEN "recheck" ELSE "prompt"
AfterApproval(call) == IF call = "liquidate" THEN "price" ELSE "prompt"

ApprovalDone(p) ==
  /\ At(p, "approving") /\ Confirmed(panel[p].tx)
  /\ Set(p, [panel[p] EXCEPT !.pc = AfterApproval(panel[p].call), !.mark = panel[p].tx])
  /\ UNCHANGED Chain

(* "Transaction confirmed."  The hash is that of the receipt: another than *)
(* the one submitted when the transaction was repriced.                    *)
CallDone(p) ==
  /\ At(p, "receipt") /\ Confirmed(panel[p].tx)
  /\ Set(p, IF ~Mirrored(panel[p].call) THEN Idle
            ELSE [panel[p] EXCEPT !.pc = "report", !.hash = settled[panel[p].tx].outcome])
  /\ UNCHANGED Chain

(* reportActivity with that hash, its retries of "too early" taken as one  *)
(* step.  What the server does with it is ActivityMirror.                  *)
Report(p) ==
  /\ At(p, "report") /\ Set(p, Idle) /\ UNCHANGED Chain

(* An error ends the action: a failed read or quote, a refused signature,  *)
(* a receipt that is late, reverted or of another transaction.             *)
Fail(p) ==
  /\ panel[p].pc \notin {"idle", "report"}
  /\ Set(p, Idle)
  /\ UNCHANGED Chain

-----------------------------------------------------------------------------
(* The chain settles the account's next nonce.                             *)

Settle(outcome, left) ==
  /\ settled' = Append(settled, [panel |-> Head(queue).panel, call |-> Head(queue).call,
                                 outcome |-> outcome])
  /\ queue' = Tail(queue) /\ allowance' = left
  /\ UNCHANGED panel

Mine ==
  /\ queue # <<>>
  /\ LET t == Head(queue) IN
     \/ Settle("reverted", allowance)
     \/ t.call = "approve" /\ \/ \E how \in {"done", "repriced"} : Settle(how, t.amt)
                              \/ Settle("lowered", t.amt - 1)
     \/ t.call \notin PaysUsdx \cup {"approve"}
          /\ \E how \in {"done", "repriced"} : Settle(how, allowance)
     \/ \E paid \in 1 .. t.amt :   \* repay and liquidate may take less
          /\ t.call \in PaysUsdx /\ (t.call = "supply" => paid = t.amt)
          /\ IF paid > allowance THEN Settle("short", allowance)
             ELSE \E how \in {"done", "repriced"} : Settle(how, allowance - paid)

Replace == queue # <<>> /\ Settle("replaced", allowance)

Next ==
  \/ \E p \in Panels :
       \/ ReadDebt(p) \/ ReadAllowance(p) \/ Recheck(p)
       \/ SignApproval(p) \/ SignCall(p)
       \/ ApprovalDone(p) \/ CallDone(p) \/ Report(p) \/ Fail(p)
       \/ \E call \in Offered, amt \in Amounts : Click(p, call, amt)
       \/ \E quote \in Amounts : FetchPrice(p, quote)
  \/ Mine \/ Replace

Spec == Init /\ [][Next]_vars

-----------------------------------------------------------------------------
(* README.md:126 "confirms each transaction receipt before reporting       *)
(* success", transactions.ts:10 "dependent actions require a successful    *)
(* receipt": what a panel reports to the activity service is its own call, *)
(* executed, under the hash it executed by; and the call behind an         *)
(* approval is put to the user only when that approval was executed.       *)
ConfirmedIsDone ==
  \A p \in Panels : LET i == panel[p].tx IN
    At(p, "report") \/ (At(p, "prompt") /\ i # 0) =>
      /\ i \in DOMAIN settled /\ settled[i].panel = p
      /\ settled[i].call = IF At(p, "report") THEN panel[p].call ELSE "approve"
      /\ settled[i].outcome \in {"done", "lowered", "repriced"}
      /\ At(p, "report") => panel[p].hash = settled[i].outcome

(* A transaction of the account after the first mark has changed what the  *)
(* allowance is.                                                           *)
Changed(mark) ==
  \E j \in mark + 1 .. Len(settled) :
    settled[j].call \in PaysUsdx \cup {"approve"} /\ settled[j].outcome \in Executed

(* LiquidationWatch.tsx:145-156: a user is asked to sign a call that       *)
(* carries a price only with one fetched after the last wait for wallet or *)
(* chain; and a liquidation only for a payment that was compared with the  *)
(* allowance after its approval had been executed, and is covered unless   *)
(* another transaction has changed the allowance since (an approval that   *)
(* the user lowered in the wallet is no excuse).                           *)
PromptIsCurrent ==
  \A p \in Panels : LET q == panel[p] IN
    At(p, "prompt") /\ q.call \in TakesPrice =>
      /\ q.price \in {"fresh", "unneeded"}
      /\ q.call = "liquidate" =>
           q.mark >= q.tx /\ (allowance >= q.amt \/ Changed(q.mark))

(* A call fails for want of allowance only when another transaction of the *)
(* account changed the allowance after the page had looked at it or had it *)
(* approved, or when the user lowered that approval in the wallet.         *)
ShortOnlyByOthers ==
  [][Len(settled') > Len(settled) /\ settled'[Len(settled')].outcome = "short" =>
       LET t == Head(queue) IN
       \/ t.mark # 0 /\ settled[t.mark].panel = t.panel
                     /\ settled[t.mark].outcome = "lowered"
       \/ Changed(t.mark)]_vars
=============================================================================
