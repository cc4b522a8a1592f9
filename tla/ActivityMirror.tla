--------------------------- MODULE ActivityMirror ---------------------------
(***************************************************************************)
(* POST /api/activity: mirrors a confirmed pool transaction to a Hedera    *)
(* topic, for a fee the operator pays.  Several server processes share one *)
(* journal directory; each runs any number of handler invocations that     *)
(* interleave at every await.  An invocation is a member of Handlers, its  *)
(* position is pc and the await it is suspended at names the position.  A  *)
(* process may stop at any point and loses its invocations; the directory, *)
(* the audit trail and the network survive.                                *)
(***************************************************************************)
EXTENDS Naturals, FiniteSets

CONSTANTS
  TxHashes,       \* hashes a caller may report
  Recognised,     \* those that are one successful action of the pool
  Handlers,       \* handler invocations that may be open at once
  Processes,      \* server processes that share the directory
  Home,           \* the process an invocation runs in
  HourlyLimit,    \* ActivityStore.hourlyLimit
  AuditRequired,  \* AUDIT_MODE = required
  MaxHour,        \* bound: the last hour of the run
  NoTx

ASSUME MirrorAssumption ==
  /\ IsFiniteSet(TxHashes) /\ Recognised \subseteq TxHashes
  /\ NoTx \notin TxHashes
  /\ Home \in [Handlers -> Processes]
  /\ HourlyLimit \in Nat \ {0}
  /\ AuditRequired \in BOOLEAN
  /\ MaxHour \in Nat

Hours == 0 .. MaxHour
Slots == 0 .. HourlyLimit - 1

VARIABLES
  hour,       \* the clock, in hours
  indexed,    \* transactions the mirror node already serves
  pc, tx, hourOf, slot,   \* locals of each handler invocation
  entry,      \* entry[t]: what the directory named t holds
  quota,      \* the quota directories, with the report that made each
  trail,      \* audit statements durably recorded: <<transaction, outcome>>
  sent,       \* submissions handed to the network, with charged and actual hour
  posted,     \* posted[t]: messages of t on the topic
  abandoned   \* history: reports whose owner was hit by a fault

locals == <<pc, tx, hourOf, slot>>
vars == <<hour, indexed, locals, entry, quota, trail, sent, posted, abandoned>>

Sends(t) == {s \in sent : s.tx = t}

(* "none": no directory; "empty": a directory without state.json;          *)
(* "pending": reserved; "named": pending with the transaction id that will *)
(* pay; "submitted": confirmed.                                            *)
EntryStates == {"none", "empty", "pending", "named", "submitted"}

(* Positions at which an invocation owns the entry of its transaction.     *)
Owning == {"slot", "hold", "prepare", "audit", "send", "receipt", "unknown",
           "confirmed", "store"}
Positions == {"idle", "lookup", "reserve", "read"} \cup Owning

Owners(t) == {h \in Handlers : tx[h] = t /\ pc[h] \in Owning}

Init ==
  /\ hour = 0 /\ indexed = {}
  /\ pc = [h \in Handlers |-> "idle"]
  /\ tx = [h \in Handlers |-> NoTx]
  /\ hourOf = [h \in Handlers |-> 0]
  /\ slot = [h \in Handlers |-> 0]
  /\ entry = [t \in TxHashes |-> "none"]
  /\ quota = {} /\ trail = {} /\ sent = {} /\ abandoned = {}
  /\ posted = [t \in TxHashes |-> 0]

-----------------------------------------------------------------------------
(* Control of one invocation.                                              *)

Goto(h, position) ==
  /\ pc' = [pc EXCEPT ![h] = position]
  /\ UNCHANGED <<tx, hourOf, slot>>

(* The invocation responds; its locals are gone.                           *)
Respond(hs) ==
  /\ pc' = [h \in Handlers |-> IF h \in hs THEN "idle" ELSE pc[h]]
  /\ tx' = [h \in Handlers |-> IF h \in hs THEN NoTx ELSE tx[h]]
  /\ hourOf' = [h \in Handlers |-> IF h \in hs THEN 0 ELSE hourOf[h]]
  /\ slot' = [h \in Handlers |-> IF h \in hs THEN 0 ELSE slot[h]]

(* An exception on the owner's path: respond and leave the entry as it is. *)
GiveUp(h) ==
  /\ Respond({h})
  /\ abandoned' = abandoned \cup {tx[h]}
  /\ UNCHANGED <<entry, quota, trail, sent, posted>>

SaveEntry(h, state) == entry' = [entry EXCEPT ![tx[h]] = state]

Outside == <<hour, indexed>>

(* recordAuditOutcome: a failed write is logged and otherwise ignored.     *)
RecordOutcome(h, outcome) ==
  trail' \in {trail, IF AuditRequired THEN trail \cup {<<tx[h], outcome>>} ELSE trail}

-----------------------------------------------------------------------------
(* The handler.                                                            *)

(* A request that passes the origin, rate and body checks.                 *)
Receive(h, t) ==
  /\ pc[h] = "idle"
  /\ pc' = [pc EXCEPT ![h] = "lookup"]
  /\ tx' = [tx EXCEPT ![h] = t]
  /\ UNCHANGED <<hourOf, slot, Outside, entry, quota, trail, sent, posted, abandoned>>

Verified(t) == t \in indexed \cap Recognised

(* The mirror node's answer, its verification and the topic check: 409,    *)
(* 422, 502 and 503 respond and change nothing.  The hour of the budget is *)
(* read when reserve is called.                                            *)
Lookup(h) ==
  /\ pc[h] = "lookup"
  /\ \/ Respond({h})
     \/ /\ Verified(tx[h])
        /\ pc' = [pc EXCEPT ![h] = "reserve"]
        /\ hourOf' = [hourOf EXCEPT ![h] = hour]
        /\ UNCHANGED <<tx, slot>>
  /\ UNCHANGED <<Outside, entry, quota, trail, sent, posted, abandoned>>

Claimable(t) == entry[t] = "none"

(* mkdir of the transaction's directory decides who owns it.               *)
Reserve(h) ==
  /\ pc[h] = "reserve"
  /\ \/ Claimable(tx[h]) /\ SaveEntry(h, "empty") /\ Goto(h, "slot")
     \/ ~Claimable(tx[h]) /\ Goto(h, "read") /\ UNCHANGED entry
     \/ Respond({h}) /\ UNCHANGED entry
  /\ UNCHANGED <<Outside, quota, trail, sent, posted, abandoned>>

BugAnswerable(t) == entry[t] = "submitted"
Answerable(t) == TRUE

(* Somebody else's entry: a duplicate when it is submitted, otherwise      *)
(* (missing and unreadable files included) pending.  Neither sends.        *)
ReadEntry(h) ==
  /\ pc[h] = "read" /\ Answerable(tx[h])
  /\ RecordOutcome(h, IF entry[tx[h]] = "submitted" THEN "succeeded" ELSE "unknown")
  /\ Respond({h})
  /\ UNCHANGED <<Outside, entry, quota, sent, posted, abandoned>>

BugSlotTaken(hr, s) == \E q \in quota : q.hour = hr /\ q.slot = s /\ s > 0
SlotTaken(hr, s) == \E q \in quota : q.hour = hr /\ q.slot = s

BugSlotSkipped(s) == s + 2
NextSlot(s) == s + 1

(* One round of the quota loop: mkdir of the next slot of the hour.        *)
TakeSlot(h) ==
  /\ pc[h] = "slot" /\ slot[h] < HourlyLimit
  /\ \/ /\ ~SlotTaken(hourOf[h], slot[h])
        /\ quota' = quota \cup {[hour |-> hourOf[h], slot |-> slot[h], tx |-> tx[h]]}
        /\ Goto(h, "hold")
        /\ UNCHANGED <<entry, trail, sent, posted, abandoned>>
     \/ /\ SlotTaken(hourOf[h], slot[h])
        /\ slot' = [slot EXCEPT ![h] = NextSlot(@)]
        /\ UNCHANGED <<pc, tx, hourOf, entry, quota, trail, sent, posted, abandoned>>
     \/ GiveUp(h)
  /\ UNCHANGED Outside

BugReleased == "empty"
Released == "none"

(* The budget is spent: remove the directory again and answer 429.         *)
Limited(h) ==
  /\ pc[h] = "slot" /\ slot[h] = HourlyLimit
  /\ \/ /\ SaveEntry(h, Released) /\ Respond({h})
        /\ UNCHANGED <<quota, trail, sent, posted, abandoned>>
     \/ GiveUp(h)
  /\ UNCHANGED Outside

(* save: write state.tmp and rename it over state.json.                    *)
Hold(h) ==
  /\ pc[h] = "hold"
  /\ \/ /\ SaveEntry(h, "pending") /\ Goto(h, "prepare")
        /\ UNCHANGED <<quota, trail, sent, posted, abandoned>>
     \/ GiveUp(h)
  /\ UNCHANGED Outside

BugNamedEntry == "pending"
NamedEntry == "named"

(* The transaction id is generated and saved before anything is sent.      *)
Prepare(h) ==
  /\ pc[h] = "prepare"
  /\ \/ /\ SaveEntry(h, NamedEntry) /\ Goto(h, "audit")
        /\ UNCHANGED <<quota, trail, sent, posted, abandoned>>
     \/ GiveUp(h)
  /\ UNCHANGED Outside

(* hcs.submission.started: without a durable record there is no payment.   *)
BugIntentBestEffort(h) == RecordOutcome(h, "started")
IntentRecorded(h) ==
  trail' = IF AuditRequired THEN trail \cup {<<tx[h], "started">>} ELSE trail

AuditIntent(h) ==
  /\ pc[h] = "audit"
  /\ \/ /\ IntentRecorded(h) /\ Goto(h, "send")
        /\ UNCHANGED <<entry, quota, sent, posted, abandoned>>
     \/ AuditRequired /\ GiveUp(h)
  /\ UNCHANGED Outside

(* submission.send(): the message goes to the network under the saved id,  *)
(* or the call fails before anything leaves.                               *)
Send(h) ==
  /\ pc[h] = "send"
  /\ \/ /\ sent' = sent \cup {[tx |-> tx[h], try |-> Cardinality(Sends(tx[h])) + 1,
                             charged |-> hourOf[h], at |-> hour]}
        /\ Goto(h, "receipt")
     \/ Goto(h, "unknown") /\ UNCHANGED sent
  /\ UNCHANGED <<Outside, entry, quota, trail, posted, abandoned>>

(* The receipt, or an error that says nothing about the message.           *)
BugReceiptKnown(t) == Sends(t) # {}
ReceiptKnown(t) == posted[t] > 0
Receipt(h) ==
  /\ pc[h] = "receipt"
  /\ \/ ReceiptKnown(tx[h]) /\ Goto(h, "confirmed")
     \/ Goto(h, "unknown")
  /\ UNCHANGED <<Outside, entry, quota, trail, sent, posted, abandoned>>

BugUnknownReleases(h) == /\ SaveEntry(h, "none") /\ UNCHANGED abandoned
UnknownKept(h) == /\ abandoned' = abandoned \cup {tx[h]} /\ UNCHANGED entry

(* The send rejected: record that its outcome is unknown and rethrow.      *)
Unknown(h) ==
  /\ pc[h] = "unknown"
  /\ RecordOutcome(h, "unknown") /\ UnknownKept(h) /\ Respond({h})
  /\ UNCHANGED <<Outside, quota, sent, posted>>

Confirmed(h) ==
  /\ pc[h] = "confirmed"
  /\ RecordOutcome(h, "succeeded") /\ Goto(h, "store")
  /\ UNCHANGED <<Outside, entry, quota, sent, posted, abandoned>>

Store(h) ==
  /\ pc[h] = "store"
  /\ \/ /\ SaveEntry(h, "submitted") /\ Respond({h})
        /\ UNCHANGED <<quota, trail, sent, posted, abandoned>>
     \/ GiveUp(h)
  /\ UNCHANGED Outside

Handle(h) ==
  \/ Lookup(h) \/ Reserve(h) \/ ReadEntry(h) \/ TakeSlot(h) \/ Limited(h)
  \/ Hold(h) \/ Prepare(h) \/ AuditIntent(h) \/ Send(h) \/ Receipt(h)
  \/ Unknown(h) \/ Confirmed(h) \/ Store(h)

-----------------------------------------------------------------------------
(* The world around the handlers.                                          *)

(* The process stops: its invocations vanish where they are.               *)
Crash(p) ==
  LET lost == {h \in Handlers : Home[h] = p /\ pc[h] # "idle"} IN
  /\ lost # {}
  /\ Respond(lost)
  /\ abandoned' = abandoned \cup {tx[h] : h \in {g \in lost : pc[g] \in Owning}}
  /\ UNCHANGED <<Outside, entry, quota, trail, sent, posted>>

(* A submission reaches consensus, possibly long after its sender is gone. *)
(* One that never does stays in sent.                                      *)
Consensus(t) ==
  /\ posted[t] < Cardinality(Sends(t))
  /\ posted' = [posted EXCEPT ![t] = @ + 1]
  /\ UNCHANGED <<Outside, locals, entry, quota, trail, sent, abandoned>>

Index(t) ==
  /\ t \notin indexed /\ indexed' = indexed \cup {t}
  /\ UNCHANGED <<hour, locals, entry, quota, trail, sent, posted, abandoned>>

Tick ==
  /\ hour < MaxHour /\ hour' = hour + 1
  /\ UNCHANGED <<indexed, locals, entry, quota, trail, sent, posted, abandoned>>

Next ==
  \/ \E h \in Handlers : Handle(h) \/ \E t \in TxHashes : Receive(h, t)
  \/ \E p \in Processes : Crash(p)
  \/ \E t \in TxHashes : Consensus(t) \/ Index(t)
  \/ Tick

Spec == Init /\ [][Next]_vars

(* Every await of the handler ends: the mirror calls after ten seconds,    *)
(* the audit write after its two-second delivery, the SDK after its own    *)
(* deadline.  Nothing is assumed of callers, crashes or the network.       *)
FairSpec == Spec /\ \A h \in Handlers : WF_vars(Handle(h))

-----------------------------------------------------------------------------
(* Properties.                                                             *)

(* Every variable keeps its type, and an open invocation names its report. *)
TypeOK ==
  /\ hour \in Hours /\ indexed \subseteq TxHashes
  /\ pc \in [Handlers -> Positions]
  /\ tx \in [Handlers -> TxHashes \cup {NoTx}]
  /\ \A h \in Handlers : tx[h] = NoTx <=> pc[h] = "idle"
  /\ hourOf \in [Handlers -> Hours]
  /\ slot \in [Handlers -> 0 .. HourlyLimit]
  /\ entry \in [TxHashes -> EntryStates]
  /\ quota \subseteq [hour : Hours, slot : Slots, tx : TxHashes]
  /\ trail \subseteq TxHashes \X {"started", "succeeded", "unknown"}
  /\ sent \subseteq [tx : TxHashes, try : Nat, charged : Hours, at : Hours]
  /\ posted \in [TxHashes -> Nat]
  /\ abandoned \subseteq TxHashes

(* What was sent can be reconciled: the journal still names the paying     *)
(* transaction, or says that it is confirmed.                              *)
SentIsJournaled == \A t \in TxHashes : Sends(t) # {} => entry[t] \in {"named", "submitted"}

(* With auditing required no payment is made without a durable intent      *)
(* (services.test.ts:325).                                                 *)
IntentFirst ==
  AuditRequired => \A t \in TxHashes : Sends(t) # {} => <<t, "started">> \in trail

(* Success is only claimed, in the journal or in the audit trail, of a     *)
(* message that is on the topic.                                           *)
SuccessIsReal ==
  \A t \in TxHashes :
    entry[t] = "submitted" \/ <<t, "succeeded">> \in trail => posted[t] > 0

(* The audit trail and the journal are true at every moment: intents before *)
(* payments, success only after them.                                      *)
AuditIsTrue == IntentFirst /\ SuccessIsReal

(* A report that is stuck in the journal without being worked on was left  *)
(* by a fault: refusing a report for its budget leaves nothing behind.     *)
StuckOnlyByFault ==
  \A t \in TxHashes :
    entry[t] \in {"empty", "pending", "named"} /\ Owners(t) = {} => t \in abandoned

(* Claims and payments as the abstract specification has them.             *)
Promise == INSTANCE PaidReports WITH
  Limit <- HourlyLimit,
  claimed <- [h \in Hours |-> {q.tx : q \in {r \in quota : r.hour = h}}],
  paid <- [t \in TxHashes |-> Cardinality(Sends(t))]

(* One claim per transaction, HourlyLimit claims per hour and one payment  *)
(* per claim: the handler and the store implement PaidReports, whatever    *)
(* the interleaving of processes, the crashes and the retries of callers   *)
(* (activity-store.ts:12).                                                 *)
KeepsPromise == Promise!Spec

(* Every request is answered, through the quota loop and every failure.    *)
RequestsAnswered == \A h \in Handlers : pc[h] # "idle" ~> pc[h] = "idle"

(* README.md:86 "caps paid submissions at 30 verified transactions per UTC *)
(* hour", read on the submissions of an hour.                              *)
SubmissionsWithinHour ==
  \A hr \in Hours : Cardinality({s \in sent : s.at = hr}) <= HourlyLimit
=============================================================================
