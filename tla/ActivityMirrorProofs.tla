------------------------ MODULE ActivityMirrorProofs ------------------------
(***************************************************************************)
(* The activity mirror, for any number of processes, invocations, reports  *)
(* and any hourly limit: the journal and the audit trail are true, one     *)
(* invocation at a time owns a report, and the shared directory implements *)
(* the abstract budget of PaidReports.                                     *)
(*                                                                         *)
(* The argument: a report is owned by at most one invocation (OneOwner),   *)
(* and from where its owner stands follows what its directory holds and    *)
(* whether a message can have been sent (OwnerKnows).  A crash takes the   *)
(* owner away and leaves the directory, so nobody can come to own the      *)
(* report again.                                                           *)
(***************************************************************************)
EXTENDS ActivityMirror, FiniteSetTheorems, TLAPS

Named == {"audit", "send", "receipt", "unknown", "confirmed", "store"}

(* What an owner can rely on.                                              *)
KnowsAt(h) ==
  /\ pc[h] \in {"slot", "hold"} => entry[tx[h]] = "empty"
  /\ pc[h] = "prepare" => entry[tx[h]] = "pending"
  /\ pc[h] \in Named => entry[tx[h]] = "named"
  /\ pc[h] \in {"audit", "send"} => Sends(tx[h]) = {}
  /\ pc[h] = "send" /\ AuditRequired => <<tx[h], "started">> \in trail
  /\ pc[h] \in {"confirmed", "store"} => posted[tx[h]] > 0

OwnerKnows == \A h \in Handlers : KnowsAt(h)

OneOwner ==
  \A g, h \in Handlers :
    pc[g] \in Owning /\ pc[h] \in Owning /\ tx[g] = tx[h] => g = h

(* What holds of each report at every moment.                              *)
TrueOf(t) ==
  /\ Sends(t) # {} => entry[t] \in {"named", "submitted"}
  /\ AuditRequired /\ Sends(t) # {} => <<t, "started">> \in trail
  /\ entry[t] = "submitted" \/ <<t, "succeeded">> \in trail => posted[t] > 0

Journal ==
  /\ OwnerKnows /\ OneOwner /\ StuckOnlyByFault
  /\ \A t \in TxHashes : TrueOf(t)

MirrorInv == TypeOK /\ Journal

-----------------------------------------------------------------------------
(* Types.                                                                  *)

LocalsOK ==
  /\ pc \in [Handlers -> Positions]
  /\ tx \in [Handlers -> TxHashes \cup {NoTx}]
  /\ \A h \in Handlers : tx[h] = NoTx <=> pc[h] = "idle"
  /\ hourOf \in [Handlers -> Hours]
  /\ slot \in [Handlers -> 0 .. HourlyLimit]

(* Invocations that respond forget their locals; the others keep them.     *)
LEMMA Responding ==
  ASSUME TypeOK, NEW hs \in SUBSET Handlers, Respond(hs)
  PROVE  /\ LocalsOK'
         /\ \A h \in hs : pc'[h] = "idle"
         /\ \A h \in Handlers \ hs : pc'[h] = pc[h] /\ tx'[h] = tx[h]
<1>1. \A h \in hs : pc'[h] = "idle" /\ tx'[h] = NoTx /\ hourOf'[h] = 0 /\ slot'[h] = 0
  BY DEF Respond
<1>2. \A h \in Handlers \ hs : /\ pc'[h] = pc[h] /\ tx'[h] = tx[h]
                               /\ hourOf'[h] = hourOf[h] /\ slot'[h] = slot[h]
  BY DEF Respond
<1>3. LocalsOK'
  BY <1>1, <1>2, MirrorAssumption DEF LocalsOK, Respond, TypeOK, Positions, Owning, Hours
<1> QED BY <1>1, <1>2, <1>3

(* An invocation that goes on changes its position only.                   *)
LEMMA Going ==
  ASSUME TypeOK, NEW h \in Handlers, NEW position \in Positions \ {"idle"},
         pc[h] # "idle", Goto(h, position)
  PROVE  /\ LocalsOK' /\ pc'[h] = position /\ tx'[h] = tx[h] /\ tx[h] \in TxHashes
         /\ \A g \in Handlers \ {h} : pc'[g] = pc[g] /\ tx'[g] = tx[g]
BY DEF Goto, TypeOK, LocalsOK

LEMMA TypeInit == Init => TypeOK
BY MirrorAssumption DEF Init, TypeOK, Hours, Positions, EntryStates

(* Each step of a handler keeps the types.                                 *)
LEMMA TypeHandle ==
  ASSUME TypeOK, OwnerKnows, NEW h \in Handlers, Handle(h)
  PROVE  TypeOK'
<1> USE DEF Positions, Owning, EntryStates
<1>1. pc[h] # "idle" => tx[h] \in TxHashes
  BY DEF TypeOK
<1>2. CASE Lookup(h)
  <2>1. CASE Respond({h})
    BY <1>2, <2>1, Responding DEF Lookup, Outside, TypeOK, LocalsOK
  <2>2. CASE ~Respond({h})
    BY <1>2, <2>2 DEF Lookup, Outside, TypeOK
  <2> QED BY <2>1, <2>2
<1>3. CASE Reserve(h)
  <2>1. CASE Respond({h})
    BY <1>3, <2>1, Responding DEF Reserve, SaveEntry, Outside, TypeOK, LocalsOK
  <2>2. CASE ~Respond({h})
    BY <1>3, <2>2, Going DEF Reserve, SaveEntry, Outside, TypeOK, LocalsOK
  <2> QED BY <2>1, <2>2
<1>4. CASE ReadEntry(h)
  BY <1>1, <1>4, Responding DEF ReadEntry, RecordOutcome, Outside, TypeOK, LocalsOK
<1>5. ASSUME GiveUp(h), pc[h] \in Owning, UNCHANGED Outside
      PROVE  TypeOK'
  BY <1>1, <1>5, Responding DEF GiveUp, Outside, TypeOK, LocalsOK
<1>6. CASE TakeSlot(h)
  <2>1. CASE GiveUp(h)
    BY <1>5, <1>6, <2>1 DEF TakeSlot
  <2>2. CASE Goto(h, "hold") /\ UNCHANGED <<entry, trail, sent, posted, abandoned>>
    <3>1. [hour |-> hourOf[h], slot |-> slot[h], tx |-> tx[h]]
            \in [hour : Hours, slot : Slots, tx : TxHashes]
      BY <1>1, <1>6, MirrorAssumption DEF TakeSlot, TypeOK, Slots
    <3>2. quota' \subseteq [hour : Hours, slot : Slots, tx : TxHashes]
      BY <1>6, <2>2, <3>1 DEF TakeSlot, TypeOK, Goto, GiveUp, Respond
    <3> QED BY <1>6, <2>2, <3>2, Going DEF TakeSlot, Outside, TypeOK, LocalsOK
  <2>3. CASE /\ slot' = [slot EXCEPT ![h] = NextSlot(@)]
             /\ UNCHANGED <<pc, tx, hourOf, entry, quota, trail, sent, posted, abandoned>>
    <3>1. slot' \in [Handlers -> 0 .. HourlyLimit]
      BY <1>6, <2>3, MirrorAssumption DEF TakeSlot, TypeOK, NextSlot
    <3> QED BY <1>6, <2>3, <3>1 DEF TakeSlot, Outside, TypeOK
  <2> QED BY <1>6, <2>1, <2>2, <2>3 DEF TakeSlot
<1>7. CASE Limited(h)
  BY <1>1, <1>5, <1>7, Responding DEF Limited, SaveEntry, Released, Outside, TypeOK, LocalsOK
<1>8. CASE Hold(h)
  BY <1>5, <1>8, Going DEF Hold, SaveEntry, Outside, TypeOK, LocalsOK
<1>9. CASE Prepare(h)
  BY <1>5, <1>9, Going DEF Prepare, SaveEntry, NamedEntry, Outside, TypeOK, LocalsOK
<1>10. CASE AuditIntent(h)
  BY <1>1, <1>5, <1>10, Going DEF AuditIntent, IntentRecorded, Outside, TypeOK, LocalsOK
<1>15. CASE Send(h)
  <2>1. CASE Goto(h, "receipt")
    <3>1. [tx |-> tx[h], try |-> Cardinality(Sends(tx[h])) + 1, charged |-> hourOf[h], at |-> hour]
            \in [tx : TxHashes, try : Nat, charged : Hours, at : Hours]
      <4>0. Sends(tx[h]) = {}
        BY <1>15 DEF Send, OwnerKnows, KnowsAt
      <4>1. Cardinality(Sends(tx[h])) + 1 = 1
        BY <4>0, FS_EmptySet
      <4>2. hourOf[h] \in Hours /\ hour \in Hours /\ tx[h] \in TxHashes
        BY <1>1, <1>15 DEF Send, TypeOK
      <4> QED BY <4>1, <4>2
    <3>2. sent' \subseteq [tx : TxHashes, try : Nat, charged : Hours, at : Hours]
      BY <1>15, <2>1, <3>1 DEF Send, TypeOK
    <3> QED BY <1>15, <2>1, <3>2, Going DEF Send, Outside, TypeOK, LocalsOK
  <2>2. CASE Goto(h, "unknown") /\ UNCHANGED sent
    BY <1>15, <2>2, Going DEF Send, Outside, TypeOK, LocalsOK
  <2> QED BY <1>15, <2>1, <2>2 DEF Send
<1>11. CASE Receipt(h)
  BY <1>11, Going DEF Receipt, Outside, TypeOK, LocalsOK
<1>12. CASE Unknown(h)
  BY <1>1, <1>12, Responding DEF Unknown, UnknownKept, RecordOutcome, Outside, TypeOK, LocalsOK
<1>13. CASE Confirmed(h)
  BY <1>1, <1>13, Going DEF Confirmed, RecordOutcome, Outside, TypeOK, LocalsOK
<1>14. CASE Store(h)
  BY <1>5, <1>14, Responding DEF Store, SaveEntry, Outside, TypeOK, LocalsOK
<1> QED BY <1>2, <1>3, <1>4, <1>6, <1>7, <1>8, <1>9, <1>10, <1>11, <1>12, <1>13, <1>14, <1>15
  DEF Handle

(* So does each step of the world around them.                             *)
LEMMA TypeWorld ==
  ASSUME TypeOK,
         \/ \E h \in Handlers, t \in TxHashes : Receive(h, t)
         \/ \E p \in Processes : Crash(p)
         \/ \E t \in TxHashes : Consensus(t) \/ Index(t)
         \/ Tick
  PROVE  TypeOK'
<1> USE DEF Positions, Owning, EntryStates
<1>1. ASSUME NEW h \in Handlers, NEW t \in TxHashes, Receive(h, t) PROVE TypeOK'
  BY <1>1, MirrorAssumption DEF Receive, Outside, TypeOK
<1>2. ASSUME NEW p \in Processes, Crash(p) PROVE TypeOK'
  <2> DEFINE lost == {h \in Handlers : Home[h] = p /\ pc[h] # "idle"}
  <2>1. \A h \in lost : tx[h] \in TxHashes
    BY DEF TypeOK
  <2>2. abandoned' \subseteq TxHashes
    BY <1>2, <2>1 DEF Crash, TypeOK
  <2>3. LocalsOK'
    BY <1>2, Responding DEF Crash
  <2> QED BY <1>2, <2>2, <2>3 DEF Crash, Outside, TypeOK, LocalsOK
<1>3. ASSUME NEW t \in TxHashes, Consensus(t) PROVE TypeOK'
  <2>1. posted' \in [TxHashes -> Nat]
    BY <1>3 DEF Consensus, TypeOK
  <2> QED BY <1>3, <2>1 DEF Consensus, Outside, locals, TypeOK
<1>4. ASSUME NEW t \in TxHashes, Index(t) PROVE TypeOK'
  BY <1>4 DEF Index, locals, TypeOK
<1>5. CASE Tick
  <2>1. hour' \in Hours
    BY <1>5, MirrorAssumption DEF Tick, TypeOK, Hours
  <2> QED BY <1>5, <2>1 DEF Tick, locals, TypeOK
<1> QED BY <1>1, <1>2, <1>3, <1>4, <1>5

-----------------------------------------------------------------------------
(* The journal and the audit trail.                                        *)

LEMMA JournalInit == Init => Journal
BY DEF Init, Journal, OwnerKnows, KnowsAt, OneOwner, TrueOf, StuckOnlyByFault, Sends,
       Owning, Named

(* A step of h that concerns no report but t, its own, ...                 *)
Elsewhere(h, t) ==
  /\ \A g \in Handlers \ {h} : pc'[g] = pc[g] /\ tx'[g] = tx[g]
  /\ \A u \in TxHashes \ {t} : entry'[u] = entry[u] /\ Sends(u)' = Sends(u)
  /\ \A u \in TxHashes \ {t} : <<u, "succeeded">> \in trail' => <<u, "succeeded">> \in trail
  /\ trail \subseteq trail' /\ abandoned \subseteq abandoned' /\ posted' = posted

(* ... which nobody else owns when it changes, ...                         *)
OwnReport(h, t) ==
  /\ pc'[h] \in Owning => tx'[h] = t
  /\ \/ pc[h] \in Owning
     \/ \A g \in Handlers \ {h} : tx[g] = t => pc[g] \notin Owning
     \/ pc'[h] \notin Owning /\ entry'[t] = entry[t] /\ Sends(t)' = Sends(t)
  /\ entry'[t] \in {"empty", "pending", "named"} =>
       \/ pc'[h] \in Owning
       \/ t \in abandoned'
       \/ pc[h] \notin Owning /\ entry'[t] = entry[t]

(* ... keeps the journal true when it does so for h and t.                 *)
LEMMA OneStep ==
  ASSUME MirrorInv, NEW h \in Handlers, NEW t \in TxHashes, tx[h] = t,
         Elsewhere(h, t), OwnReport(h, t), KnowsAt(h)', TrueOf(t)'
  PROVE  Journal'
<1> USE DEF MirrorInv, Journal
<1>1. ASSUME NEW g \in Handlers \ {h} PROVE KnowsAt(g)'
  <2>1. KnowsAt(g) /\ pc'[g] = pc[g] /\ tx'[g] = tx[g]
    BY DEF OwnerKnows, Elsewhere
  <2>2. ASSUME NEW u \in TxHashes, u = tx[g], pc[g] \in Owning PROVE KnowsAt(g)'
    <3>1. entry'[u] = entry[u] /\ Sends(u)' = Sends(u)
      BY <2>2 DEF Elsewhere, OwnReport, OneOwner
    <3>2. Sends(tx[g])' = Sends(tx[g])
      BY <2>1, <2>2, <3>1 DEF Sends
    <3> QED BY <2>1, <2>2, <3>1, <3>2 DEF KnowsAt, Elsewhere
  <2>3. CASE pc[g] \notin Owning
    BY <2>1, <2>3 DEF KnowsAt, Owning, Named
  <2> QED BY <2>2, <2>3 DEF TypeOK, Owning
<1>2. OwnerKnows'
  BY <1>1 DEF OwnerKnows
<1>3. OneOwner'
  <2>1. ASSUME NEW g \in Handlers \ {h}, pc'[g] \in Owning, tx'[g] = t
        PROVE  pc'[h] \notin Owning
    BY <2>1 DEF OneOwner, Elsewhere, OwnReport
  <2> QED BY <2>1 DEF OneOwner, Elsewhere, OwnReport
<1>4. ASSUME NEW u \in TxHashes PROVE TrueOf(u)'
  BY DEF TrueOf, Elsewhere
<1>5. StuckOnlyByFault'
  <2> SUFFICES ASSUME NEW u \in TxHashes, entry'[u] \in {"empty", "pending", "named"},
                      \A g \in Handlers : ~(tx'[g] = u /\ pc'[g] \in Owning)
               PROVE  u \in abandoned'
    BY DEF StuckOnlyByFault, Owners
  <2>1. CASE u = t /\ ~(pc[h] \notin Owning /\ entry'[u] = entry[u])
    BY <2>1 DEF OwnReport
  <2>2. CASE u # t \/ (pc[h] \notin Owning /\ entry'[u] = entry[u])
    <3>1. entry[u] \in {"empty", "pending", "named"} /\ Owners(u) = {}
      BY <2>2 DEF Elsewhere, Owners
    <3> QED BY <3>1 DEF StuckOnlyByFault, Elsewhere
  <2> QED BY <2>1, <2>2
<1> QED BY <1>2, <1>3, <1>4, <1>5

(* An owner that gives up leaves a report the journal calls abandoned.      *)
LEMMA GivingUp ==
  ASSUME MirrorInv, NEW h \in Handlers, NEW t \in TxHashes, tx[h] = t, pc[h] \in Owning,
         GiveUp(h)
  PROVE  Journal'
<1> USE DEF Positions, Owning, Named, EntryStates
<1>1. TypeOK /\ KnowsAt(h) /\ TrueOf(t)
  BY DEF MirrorInv, Journal, OwnerKnows
<1>2. pc'[h] = "idle" /\ \A g \in Handlers \ {h} : pc'[g] = pc[g] /\ tx'[g] = tx[g]
  BY <1>1, Responding DEF GiveUp
<1>3. Elsewhere(h, t)
  BY <1>1, <1>2 DEF GiveUp, Elsewhere, Sends
<1>4. OwnReport(h, t)
  BY <1>1, <1>2 DEF GiveUp, OwnReport
<1>5. KnowsAt(h)' /\ TrueOf(t)'
  BY <1>1, <1>2 DEF GiveUp, KnowsAt, TrueOf, Sends
<1> QED BY <1>3, <1>4, <1>5, OneStep

(* Each step of a handler keeps the journal true.                          *)
LEMMA JournalHandle ==
  ASSUME MirrorInv, NEW h \in Handlers, NEW t \in TxHashes, tx[h] = t, Handle(h)
  PROVE  Journal'
<1> USE DEF Positions, Owning, Named, EntryStates
<1>1. /\ TypeOK /\ KnowsAt(h) /\ TrueOf(t)
      /\ \A g \in Handlers : KnowsAt(g)
      /\ entry \in [TxHashes -> EntryStates]
  BY DEF MirrorInv, Journal, OwnerKnows, TypeOK
<1>2. Respond({h}) => /\ pc'[h] = "idle"
                      /\ \A g \in Handlers \ {h} : pc'[g] = pc[g] /\ tx'[g] = tx[g]
  BY <1>1, Responding
<1>3. \A p \in Positions \ {"idle"} : Goto(h, p) =>
         /\ pc'[h] = p /\ tx'[h] = t
         /\ \A g \in Handlers \ {h} : pc'[g] = pc[g] /\ tx'[g] = tx[g]
  BY <1>1 DEF Goto, TypeOK
<1>4. CASE Lookup(h)
  <2> /\ pc'[h] \in {"idle", "reserve"}
      /\ \A g \in Handlers \ {h} : pc'[g] = pc[g] /\ tx'[g] = tx[g]
    BY <1>1, <1>2, <1>4 DEF Lookup, TypeOK
  <2>1. Elsewhere(h, t)
    BY <1>1, <1>4 DEF Lookup, Elsewhere, Sends
  <2>2. OwnReport(h, t)
    BY <1>1, <1>4 DEF Lookup, OwnReport, Sends
  <2>3. KnowsAt(h)' /\ TrueOf(t)'
    BY <1>1, <1>4 DEF Lookup, KnowsAt, TrueOf, Sends
  <2> QED BY <2>1, <2>2, <2>3, <1>4, OneStep
<1>5. CASE Reserve(h)
  <2>1. Elsewhere(h, t)
    BY <1>1, <1>2, <1>3, <1>5 DEF Reserve, SaveEntry, Claimable, Elsewhere, Sends
  <2>2. OwnReport(h, t)
    <3>1. Claimable(t) => \A g \in Handlers : tx[g] = t => pc[g] \notin Owning
      BY <1>1 DEF Claimable, KnowsAt
    <3> QED BY <1>1, <1>2, <1>3, <1>5, <3>1 DEF Reserve, SaveEntry, OwnReport, Sends
  <2>3. KnowsAt(h)' /\ TrueOf(t)'
    BY <1>1, <1>2, <1>3, <1>5 DEF Reserve, SaveEntry, Claimable, KnowsAt, TrueOf, Sends
  <2> QED BY <2>1, <2>2, <2>3, <1>5, OneStep
<1>6. CASE ReadEntry(h)
  <2>1. Elsewhere(h, t)
    BY <1>1, <1>2, <1>3, <1>6 DEF ReadEntry, RecordOutcome, Elsewhere, Sends
  <2>2. OwnReport(h, t)
    BY <1>1, <1>2, <1>3, <1>6 DEF ReadEntry, RecordOutcome, OwnReport, Sends
  <2>3. KnowsAt(h)' /\ TrueOf(t)'
    BY <1>1, <1>2, <1>3, <1>6 DEF ReadEntry, RecordOutcome, KnowsAt, TrueOf, Sends
  <2> QED BY <2>1, <2>2, <2>3, <1>6, OneStep
<1>7. CASE TakeSlot(h)
  <2>1. CASE GiveUp(h)
    BY <1>7, <2>1, GivingUp DEF TakeSlot
  <2>2. CASE ~GiveUp(h)
    <3>1. Elsewhere(h, t)
      BY <1>1, <1>2, <1>3, <1>7, <2>2 DEF TakeSlot, Elsewhere, Sends
    <3>2. OwnReport(h, t)
      BY <1>1, <1>2, <1>3, <1>7, <2>2 DEF TakeSlot, OwnReport, Sends
    <3>3. KnowsAt(h)' /\ TrueOf(t)'
      BY <1>1, <1>2, <1>3, <1>7, <2>2 DEF TakeSlot, KnowsAt, TrueOf, Sends
    <3> QED BY <3>1, <3>2, <3>3, <2>2, OneStep
  <2> QED BY <2>1, <2>2
<1>8. CASE Limited(h)
  <2>1. CASE GiveUp(h)
    BY <1>8, <2>1, GivingUp DEF Limited
  <2>2. CASE ~GiveUp(h)
    <3>1. Elsewhere(h, t)
      BY <1>1, <1>2, <1>3, <1>8, <2>2 DEF Limited, SaveEntry, Released, Elsewhere, Sends
    <3>2. OwnReport(h, t)
      BY <1>1, <1>2, <1>3, <1>8, <2>2 DEF Limited, SaveEntry, Released, OwnReport, Sends
    <3>3. KnowsAt(h)' /\ TrueOf(t)'
      BY <1>1, <1>2, <1>3, <1>8, <2>2 DEF Limited, SaveEntry, Released, KnowsAt, TrueOf, Sends
    <3> QED BY <3>1, <3>2, <3>3, <2>2, OneStep
  <2> QED BY <2>1, <2>2
<1>9. CASE Hold(h)
  <2>1. CASE GiveUp(h)
    BY <1>9, <2>1, GivingUp DEF Hold
  <2>2. CASE ~GiveUp(h)
    <3>1. Elsewhere(h, t)
      BY <1>1, <1>2, <1>3, <1>9, <2>2 DEF Hold, SaveEntry, Elsewhere, Sends
    <3>2. OwnReport(h, t)
      BY <1>1, <1>2, <1>3, <1>9, <2>2 DEF Hold, SaveEntry, OwnReport, Sends
    <3>3. KnowsAt(h)' /\ TrueOf(t)'
      BY <1>1, <1>2, <1>3, <1>9, <2>2 DEF Hold, SaveEntry, KnowsAt, TrueOf, Sends
    <3> QED BY <3>1, <3>2, <3>3, <2>2, OneStep
  <2> QED BY <2>1, <2>2
<1>10. CASE Prepare(h)
  <2>1. CASE GiveUp(h)
    BY <1>10, <2>1, GivingUp DEF Prepare
  <2>2. CASE ~GiveUp(h)
    <3>1. Elsewhere(h, t)
      BY <1>1, <1>2, <1>3, <1>10, <2>2 DEF Prepare, SaveEntry, NamedEntry, Elsewhere, Sends
    <3>2. OwnReport(h, t)
      BY <1>1, <1>2, <1>3, <1>10, <2>2 DEF Prepare, SaveEntry, NamedEntry, OwnReport, Sends
    <3>3. KnowsAt(h)' /\ TrueOf(t)'
      BY <1>1, <1>2, <1>3, <1>10, <2>2 DEF Prepare, SaveEntry, NamedEntry, KnowsAt, TrueOf, Sends
    <3> QED BY <3>1, <3>2, <3>3, <2>2, OneStep
  <2> QED BY <2>1, <2>2
<1>11. CASE AuditIntent(h)
  <2>1. CASE GiveUp(h)
    BY <1>11, <2>1, GivingUp DEF AuditIntent
  <2>2. CASE ~GiveUp(h)
    <3>1. Elsewhere(h, t)
      BY <1>1, <1>2, <1>3, <1>11, <2>2 DEF AuditIntent, IntentRecorded, Elsewhere, Sends
    <3>2. OwnReport(h, t)
      BY <1>1, <1>2, <1>3, <1>11, <2>2 DEF AuditIntent, IntentRecorded, OwnReport, Sends
    <3>3. KnowsAt(h)' /\ TrueOf(t)'
      BY <1>1, <1>2, <1>3, <1>11, <2>2 DEF AuditIntent, IntentRecorded, KnowsAt, TrueOf, Sends
    <3> QED BY <3>1, <3>2, <3>3, <2>2, OneStep
  <2> QED BY <2>1, <2>2
<1>12. CASE Send(h)
  <2>1. Elsewhere(h, t)
    <3>1. \A u \in TxHashes \ {t} : Sends(u)' = Sends(u)
      <4> DEFINE new == [tx |-> tx[h], try |-> Cardinality(Sends(tx[h])) + 1,
                         charged |-> hourOf[h], at |-> hour]
      <4>1. new.tx = t
        OBVIOUS
      <4>2. sent' = sent \cup {new} \/ sent' = sent
        BY <1>12 DEF Send
      <4> HIDE DEF new
      <4> QED BY <4>1, <4>2 DEF Sends
    <3> QED BY <1>1, <1>2, <1>3, <1>12, <3>1 DEF Send, Elsewhere
  <2>2. OwnReport(h, t)
    BY <1>1, <1>2, <1>3, <1>12 DEF Send, OwnReport, Sends
  <2>3. KnowsAt(h)' /\ TrueOf(t)'
    BY <1>1, <1>2, <1>3, <1>12 DEF Send, KnowsAt, TrueOf, Sends
  <2> QED BY <2>1, <2>2, <2>3, <1>12, OneStep
<1>13. CASE Receipt(h)
  <2>1. Elsewhere(h, t)
    BY <1>1, <1>2, <1>3, <1>13 DEF Receipt, ReceiptKnown, Elsewhere, Sends
  <2>2. OwnReport(h, t)
    BY <1>1, <1>2, <1>3, <1>13 DEF Receipt, ReceiptKnown, OwnReport, Sends
  <2>3. KnowsAt(h)' /\ TrueOf(t)'
    BY <1>1, <1>2, <1>3, <1>13 DEF Receipt, ReceiptKnown, KnowsAt, TrueOf, Sends
  <2> QED BY <2>1, <2>2, <2>3, <1>13, OneStep
<1>14. CASE Unknown(h)
  <2>1. Elsewhere(h, t)
    BY <1>1, <1>2, <1>3, <1>14 DEF Unknown, UnknownKept, RecordOutcome, Elsewhere, Sends
  <2>2. OwnReport(h, t)
    BY <1>1, <1>2, <1>3, <1>14 DEF Unknown, UnknownKept, RecordOutcome, OwnReport, Sends
  <2>3. KnowsAt(h)' /\ TrueOf(t)'
    BY <1>1, <1>2, <1>3, <1>14 DEF Unknown, UnknownKept, RecordOutcome, KnowsAt, TrueOf, Sends
  <2> QED BY <2>1, <2>2, <2>3, <1>14, OneStep
<1>15. CASE Confirmed(h)
  <2>1. Elsewhere(h, t)
    BY <1>1, <1>2, <1>3, <1>15 DEF Confirmed, RecordOutcome, Elsewhere, Sends
  <2>2. OwnReport(h, t)
    BY <1>1, <1>2, <1>3, <1>15 DEF Confirmed, RecordOutcome, OwnReport, Sends
  <2>3. KnowsAt(h)' /\ TrueOf(t)'
    BY <1>1, <1>2, <1>3, <1>15 DEF Confirmed, RecordOutcome, KnowsAt, TrueOf, Sends
  <2> QED BY <2>1, <2>2, <2>3, <1>15, OneStep
<1>16. CASE Store(h)
  <2>1. CASE GiveUp(h)
    BY <1>16, <2>1, GivingUp DEF Store
  <2>2. CASE ~GiveUp(h)
    <3>1. Elsewhere(h, t)
      BY <1>1, <1>2, <1>3, <1>16, <2>2 DEF Store, SaveEntry, Elsewhere, Sends
    <3>2. OwnReport(h, t)
      BY <1>1, <1>2, <1>3, <1>16, <2>2 DEF Store, SaveEntry, OwnReport, Sends
    <3>3. KnowsAt(h)' /\ TrueOf(t)'
      BY <1>1, <1>2, <1>3, <1>16, <2>2 DEF Store, SaveEntry, KnowsAt, TrueOf, Sends
    <3> QED BY <3>1, <3>2, <3>3, <2>2, OneStep
  <2> QED BY <2>1, <2>2
<1> QED BY <1>4, <1>5, <1>6, <1>7, <1>8, <1>9, <1>10, <1>11, <1>12, <1>13, <1>14, <1>15, <1>16 DEF Handle

(* A step after which each invocation is where it was or is no owner any   *)
(* more, and no report changes but that it may be abandoned or on the      *)
(* topic once more, keeps the journal true.                                *)
LEMMA Aside ==
  ASSUME MirrorInv,
         \A h \in Handlers : \/ pc'[h] = pc[h] /\ tx'[h] = tx[h]
                             \/ /\ pc'[h] \notin Owning
                                /\ pc[h] \in Owning => tx[h] \in abandoned',
         UNCHANGED <<entry, trail, sent>>, abandoned \subseteq abandoned',
         \A t \in TxHashes : posted[t] > 0 => posted'[t] > 0
  PROVE  Journal'
<1> USE DEF MirrorInv, Journal
<1>1. ASSUME NEW h \in Handlers PROVE KnowsAt(h)'
  <2>1. CASE pc'[h] \notin Owning
    BY <2>1 DEF KnowsAt, Owning, Named
  <2>2. ASSUME pc'[h] \in Owning, NEW t \in TxHashes, t = tx[h] PROVE KnowsAt(h)'
    <3>1. KnowsAt(h) /\ pc'[h] = pc[h] /\ tx'[h] = tx[h]
      BY <2>2 DEF OwnerKnows
    <3>2. Sends(tx[h])' = Sends(tx[h])
      BY <3>1 DEF Sends
    <3> QED BY <2>2, <3>1, <3>2 DEF KnowsAt
  <2> QED BY <2>1, <2>2 DEF TypeOK, Owning
<1>2. OwnerKnows'
  BY <1>1 DEF OwnerKnows
<1>3. OneOwner'
  BY DEF OneOwner
<1>4. ASSUME NEW t \in TxHashes PROVE TrueOf(t)'
  <2>1. Sends(t)' = Sends(t)
    BY DEF Sends
  <2> QED BY <2>1 DEF TrueOf
<1>5. StuckOnlyByFault'
  BY DEF StuckOnlyByFault, Owners
<1> QED BY <1>2, <1>3, <1>4, <1>5

LEMMA JournalWorld ==
  ASSUME MirrorInv,
         \/ \E h \in Handlers, t \in TxHashes : Receive(h, t)
         \/ \E p \in Processes : Crash(p)
         \/ \E t \in TxHashes : Consensus(t) \/ Index(t)
         \/ Tick
  PROVE  Journal'
<1> USE DEF MirrorInv
<1>1. ASSUME NEW h \in Handlers, NEW t \in TxHashes, Receive(h, t) PROVE Journal'
  <2>1. pc'[h] \notin Owning /\ pc[h] \notin Owning
    BY <1>1 DEF Receive, TypeOK, Owning
  <2>2. \A g \in Handlers \ {h} : pc'[g] = pc[g] /\ tx'[g] = tx[g]
    BY <1>1 DEF Receive, TypeOK
  <2> QED BY <1>1, <2>1, <2>2, Aside DEF Receive
<1>2. ASSUME NEW p \in Processes, Crash(p) PROVE Journal'
  <2> DEFINE lost == {h \in Handlers : Home[h] = p /\ pc[h] # "idle"}
  <2>1. \A h \in lost : pc'[h] = "idle"
    BY <1>2, Responding DEF Crash
  <2>2. \A h \in Handlers \ lost : pc'[h] = pc[h] /\ tx'[h] = tx[h]
    BY <1>2, Responding DEF Crash
  <2>3. \A h \in lost : pc[h] \in Owning => tx[h] \in abandoned'
    BY <1>2 DEF Crash
  <2>4. \A h \in Handlers : \/ pc'[h] = pc[h] /\ tx'[h] = tx[h]
                            \/ /\ pc'[h] \notin Owning
                               /\ pc[h] \in Owning => tx[h] \in abandoned'
    BY <2>1, <2>2, <2>3 DEF Owning
  <2> QED BY <1>2, <2>4, Aside DEF Crash
<1>3. ASSUME NEW t \in TxHashes, Consensus(t) PROVE Journal'
  <2>1. \A u \in TxHashes : posted[u] > 0 => posted'[u] > 0
    BY <1>3 DEF Consensus, TypeOK
  <2> QED BY <1>3, <2>1, Aside DEF Consensus, locals
<1>4. ASSUME NEW t \in TxHashes, Index(t) PROVE Journal'
  BY <1>4, Aside DEF Index, locals
<1>5. CASE Tick
  BY <1>5, Aside DEF Tick, locals
<1> QED BY <1>1, <1>2, <1>3, <1>4, <1>5

LEMMA MirrorStep ==
  ASSUME MirrorInv, [Next]_vars
  PROVE  MirrorInv'
<1>1. ASSUME NEW h \in Handlers, Handle(h) PROVE MirrorInv'
  <2>1. pc[h] # "idle"
    BY <1>1 DEF Handle, Lookup, Reserve, ReadEntry, TakeSlot, Limited, Hold, Prepare,
                AuditIntent, Send, Receipt, Unknown, Confirmed, Store
  <2>2. tx[h] \in TxHashes
    BY <2>1 DEF MirrorInv, TypeOK
  <2> QED BY <1>1, <2>2, TypeHandle, JournalHandle DEF MirrorInv, Journal
<1>2. CASE \/ \E h \in Handlers, t \in TxHashes : Receive(h, t)
           \/ \E p \in Processes : Crash(p)
           \/ \E t \in TxHashes : Consensus(t) \/ Index(t)
           \/ Tick
  BY <1>2, TypeWorld, JournalWorld DEF MirrorInv
<1>3. CASE UNCHANGED vars
  <2>1. TypeOK'
    BY <1>3 DEF vars, locals, MirrorInv, TypeOK
  <2>2. Journal'
    BY <1>3, Aside DEF vars, locals, MirrorInv
  <2> QED BY <2>1, <2>2 DEF MirrorInv
<1> QED BY <1>1, <1>2, <1>3 DEF Next

LEMMA MirrorInvariant == Spec => []MirrorInv
<1>1. Init => MirrorInv
  BY TypeInit, JournalInit DEF MirrorInv
<1> QED BY <1>1, MirrorStep, PTL DEF Spec

(* Every variable keeps its type.                                          *)
THEOREM TypesKept == Spec => []TypeOK
BY MirrorInvariant, PTL DEF MirrorInv

(* Whatever was sent can be reconciled from the directory, at any time,    *)
(* after any crash.                                                        *)
THEOREM SentCanBeReconciled == Spec => []SentIsJournaled
<1>1. MirrorInv => SentIsJournaled
  BY DEF MirrorInv, Journal, TrueOf, SentIsJournaled
<1> QED BY <1>1, MirrorInvariant, PTL

(* No payment without a durable intent, no success claimed of a message    *)
(* that is not on the topic.                                               *)
THEOREM AuditStaysTrue == Spec => []AuditIsTrue
<1>1. MirrorInv => AuditIsTrue
  BY DEF MirrorInv, Journal, TrueOf, AuditIsTrue, IntentFirst, SuccessIsReal
<1> QED BY <1>1, MirrorInvariant, PTL

(* Only a fault leaves a report in the journal that nobody works on.       *)
THEOREM RefusalsLeaveNothing == Spec => []StuckOnlyByFault
<1>1. MirrorInv => StuckOnlyByFault
  BY DEF MirrorInv, Journal
<1> QED BY <1>1, MirrorInvariant, PTL

-----------------------------------------------------------------------------
(* The budget.                                                             *)

Charged == {"hold", "prepare", "audit", "send"}
Unclaimed(t) == \A q \in quota : q.tx # t

(* One report per slot of an hour; a report that may still be claimed has  *)
(* not been, and one that may still be paid for has.                       *)
Budget ==
  /\ \A q, r \in quota : q.hour = r.hour /\ q.slot = r.slot => q.tx = r.tx
  /\ \A t \in TxHashes : entry[t] = "none" => Unclaimed(t)
  /\ \A h \in Handlers : pc[h] = "slot" => Unclaimed(tx[h])
  /\ \A h \in Handlers : pc[h] \in Charged => ~Unclaimed(tx[h])

(* A free slot of the hour leaves room in its budget: the reports charged  *)
(* to the hour are spread over the other slots, one on each.               *)
LEMMA RoomLeft ==
  ASSUME TypeOK, Budget, NEW hr \in Hours, NEW s \in Slots, ~SlotTaken(hr, s)
  PROVE  Cardinality({q.tx : q \in {r \in quota : r.hour = hr}}) < HourlyLimit
<1> DEFINE charged == {q.tx : q \in {r \in quota : r.hour = hr}}
           rest == Slots \ {s}
           slotOf == [t \in charged |-> CHOOSE k \in rest :
                        \E q \in quota : q.hour = hr /\ q.slot = k /\ q.tx = t]
<1>1. IsFiniteSet(Slots) /\ Cardinality(Slots) = HourlyLimit
  BY MirrorAssumption, FS_Interval DEF Slots
<1>2. IsFiniteSet(rest) /\ Cardinality(rest) = HourlyLimit - 1
  BY <1>1, FS_RemoveElement
<1>3. ASSUME NEW t \in charged
      PROVE  \E k \in rest : \E q \in quota : q.hour = hr /\ q.slot = k /\ q.tx = t
  <2>1. PICK q \in quota : q.hour = hr /\ q.tx = t
    OBVIOUS
  <2>2. q.slot \in rest
    BY <2>1 DEF SlotTaken, TypeOK
  <2> QED BY <2>1, <2>2
<1>4. ASSUME NEW t \in charged
      PROVE  /\ slotOf[t] \in rest
             /\ \E q \in quota : q.hour = hr /\ q.slot = slotOf[t] /\ q.tx = t
  BY <1>3
<1>5. \A t, u \in charged : slotOf[t] = slotOf[u] => t = u
  <2> HIDE DEF slotOf, charged
  <2> QED BY <1>4 DEF Budget
<1>6. slotOf \in Injection(charged, rest)
  <2>1. slotOf \in [charged -> rest]
    BY <1>4
  <2> HIDE DEF slotOf, charged, rest
  <2> QED BY <1>5, <2>1 DEF Injection, IsInjective
<1>7. Cardinality(charged) <= HourlyLimit - 1
  <2> HIDE DEF slotOf, charged, rest
  <2> QED BY <1>2, <1>6, FS_Injection
<1>8. IsFiniteSet(charged)
  <2> HIDE DEF slotOf, charged, rest
  <2> QED BY <1>2, <1>6, FS_Injection
<1>9. Cardinality(charged) \in Nat
  <2> HIDE DEF charged
  <2> QED BY <1>8, FS_CardinalityType
<1> HIDE DEF charged
<1>10. Cardinality(charged) < HourlyLimit
  BY <1>7, <1>9, MirrorAssumption
<1> QED BY <1>10 DEF charged

LEMMA BudgetInit == Init => Budget
BY DEF Init, Budget, Unclaimed, Charged

(* A step that charges no report keeps the budget, when no unclaimed       *)
(* report comes to be owned as a charged one and no claimed one comes to   *)
(* be claimable.                                                           *)
LEMMA NoCharge ==
  ASSUME Budget, quota' = quota,
         \A t \in TxHashes : entry'[t] = "none" => Unclaimed(t),
         \A h \in Handlers : pc'[h] = "slot" => Unclaimed(tx'[h]),
         \A h \in Handlers : pc'[h] \in Charged => ~Unclaimed(tx'[h])
  PROVE  Budget'
<1>1. \A t : Unclaimed(t) => \A q \in quota' : q.tx # t
  BY DEF Unclaimed
<1> QED BY <1>1 DEF Budget, Unclaimed

(* What one step of a handler may do to the budget: nothing, ...           *)
Free == UNCHANGED <<quota, sent>> /\ Budget'

(* ... charge its report to a free slot of its hour, ...                   *)
Charges(h) ==
  /\ pc[h] = "slot" /\ slot[h] \in Slots /\ ~SlotTaken(hourOf[h], slot[h])
  /\ quota' = quota \cup {[hour |-> hourOf[h], slot |-> slot[h], tx |-> tx[h]]}
  /\ sent' = sent /\ Budget'

(* ... or pay for it, once.                                                *)
Pays(h) ==
  /\ pc[h] = "send" /\ Sends(tx[h]) = {} /\ quota' = quota
  /\ \E new : new.tx = tx[h] /\ sent' = sent \cup {new}
  /\ Budget'

LEMMA GivingUpIsFree ==
  ASSUME MirrorInv, Budget, NEW h \in Handlers, GiveUp(h)
  PROVE  Free
<1>1. pc'[h] = "idle" /\ \A g \in Handlers \ {h} : pc'[g] = pc[g] /\ tx'[g] = tx[g]
  BY Responding DEF GiveUp, MirrorInv
<1>2. Budget'
  BY <1>1, NoCharge DEF GiveUp, Budget, Charged
<1> QED BY <1>2 DEF GiveUp, Free

LEMMA BudgetHandle ==
  ASSUME MirrorInv, Budget, NEW h \in Handlers, NEW t \in TxHashes, tx[h] = t, Handle(h)
  PROVE  Free \/ Charges(h) \/ Pays(h)
<1> USE DEF Positions, Owning, Charged
<1>1. /\ TypeOK /\ KnowsAt(h) /\ OneOwner
      /\ entry \in [TxHashes -> EntryStates]
      /\ \A u \in TxHashes : entry[u] = "none" => Unclaimed(u)
      /\ \A g \in Handlers : pc[g] = "slot" => Unclaimed(tx[g])
      /\ \A g \in Handlers : pc[g] \in Charged => ~Unclaimed(tx[g])
  BY DEF MirrorInv, Journal, OwnerKnows, TypeOK, Budget
<1>2. Respond({h}) => /\ pc'[h] = "idle"
                      /\ \A g \in Handlers \ {h} : pc'[g] = pc[g] /\ tx'[g] = tx[g]
  BY <1>1, Responding
<1>3. \A p \in Positions \ {"idle"} : Goto(h, p) =>
         /\ pc'[h] = p /\ tx'[h] = t
         /\ \A g \in Handlers \ {h} : pc'[g] = pc[g] /\ tx'[g] = tx[g]
  BY <1>1 DEF Goto, TypeOK
<1>4. CASE Lookup(h)
  <2>1. Budget'
    BY <1>1, <1>2, <1>4, NoCharge DEF Lookup, TypeOK
  <2> QED BY <1>4, <2>1 DEF Lookup, Free
<1>5. CASE Reserve(h)
  <2>1. Budget'
    BY <1>1, <1>2, <1>3, <1>5, NoCharge DEF Reserve, SaveEntry, Claimable
  <2> QED BY <1>5, <2>1 DEF Reserve, Free
<1>6. CASE ReadEntry(h)
  <2>1. Budget'
    BY <1>1, <1>2, <1>6, NoCharge DEF ReadEntry
  <2> QED BY <1>6, <2>1 DEF ReadEntry, Free
<1>7. CASE TakeSlot(h)
  <2>1. CASE GiveUp(h)
    BY <2>1, GivingUpIsFree
  <2>2. CASE Goto(h, "hold") /\ ~SlotTaken(hourOf[h], slot[h]) /\ entry' = entry
             /\ quota' = quota \cup {[hour |-> hourOf[h], slot |-> slot[h], tx |-> tx[h]]}
    <3> DEFINE new == [hour |-> hourOf[h], slot |-> slot[h], tx |-> tx[h]]
    <3>1. new.hour = hourOf[h] /\ new.slot = slot[h] /\ new.tx = t
      OBVIOUS
    <3>2. quota' = quota \cup {new}
      BY <2>2
    <3> HIDE DEF new
    <3>3. \A u : (\A q \in quota' : q.tx # u) <=> Unclaimed(u) /\ u # t
      BY <3>1, <3>2 DEF Unclaimed
    <3>4. \A q, r \in quota' : q.hour = r.hour /\ q.slot = r.slot => q.tx = r.tx
      BY <2>2, <3>1, <3>2 DEF Budget, SlotTaken
    <3>5. \A u \in TxHashes : entry'[u] = "none" => Unclaimed(u) /\ u # t
      BY <1>1, <1>7, <2>2 DEF TakeSlot, KnowsAt
    <3>6. \A g \in Handlers : pc'[g] = "slot" => Unclaimed(tx'[g]) /\ tx'[g] # t
      BY <1>1, <1>3, <1>7, <2>2 DEF TakeSlot, OneOwner
    <3>7. \A g \in Handlers : pc'[g] \in Charged => ~(Unclaimed(tx'[g]) /\ tx'[g] # t)
      BY <1>1, <1>3, <2>2
    <3>8. Budget'
      BY <3>3, <3>4, <3>5, <3>6, <3>7 DEF Budget, Unclaimed
    <3>9. slot[h] \in Slots
      BY <1>1, <1>7, MirrorAssumption DEF TakeSlot, TypeOK, Slots
    <3>10. sent' = sent
      BY <1>7 DEF TakeSlot, GiveUp
    <3> QED BY <1>7, <2>2, <3>8, <3>9, <3>10 DEF TakeSlot, Charges
  <2>3. CASE UNCHANGED <<pc, tx, entry, quota, sent>>
    <3>1. Budget'
      BY <1>1, <2>3, NoCharge
    <3> QED BY <2>3, <3>1 DEF Free
  <2> QED BY <1>7, <2>1, <2>2, <2>3 DEF TakeSlot
<1>8. CASE Limited(h)
  <2>1. CASE GiveUp(h)
    BY <2>1, GivingUpIsFree
  <2>2. CASE ~GiveUp(h)
    <3>1. Budget'
      BY <1>1, <1>2, <1>8, <2>2, NoCharge DEF Limited, SaveEntry, Released
    <3> QED BY <1>8, <2>2, <3>1 DEF Limited, Free
  <2> QED BY <2>1, <2>2
<1>9. CASE Hold(h)
  <2>1. CASE GiveUp(h)
    BY <2>1, GivingUpIsFree
  <2>2. CASE ~GiveUp(h)
    <3>1. Budget'
      BY <1>1, <1>3, <1>9, <2>2, NoCharge DEF Hold, SaveEntry
    <3> QED BY <1>9, <2>2, <3>1 DEF Hold, Free
  <2> QED BY <2>1, <2>2
<1>10. CASE Prepare(h)
  <2>1. CASE GiveUp(h)
    BY <2>1, GivingUpIsFree
  <2>2. CASE ~GiveUp(h)
    <3>1. Budget'
      BY <1>1, <1>3, <1>10, <2>2, NoCharge DEF Prepare, SaveEntry, NamedEntry
    <3> QED BY <1>10, <2>2, <3>1 DEF Prepare, Free
  <2> QED BY <2>1, <2>2
<1>11. CASE AuditIntent(h)
  <2>1. CASE GiveUp(h)
    BY <2>1, GivingUpIsFree
  <2>2. CASE ~GiveUp(h)
    <3>1. Budget'
      BY <1>1, <1>3, <1>11, <2>2, NoCharge DEF AuditIntent
    <3> QED BY <1>11, <2>2, <3>1 DEF AuditIntent, Free
  <2> QED BY <2>1, <2>2
<1>12. CASE Send(h)
  <2>1. Budget'
    BY <1>1, <1>3, <1>12, NoCharge DEF Send
  <2>2. Sends(tx[h]) = {}
    BY <1>1, <1>12 DEF Send, KnowsAt
  <2>3. CASE sent' = sent
    BY <1>12, <2>1, <2>3 DEF Send, Free
  <2>4. CASE sent' # sent
    <3> DEFINE new == [tx |-> tx[h], try |-> Cardinality(Sends(tx[h])) + 1,
                       charged |-> hourOf[h], at |-> hour]
    <3>1. new.tx = tx[h] /\ sent' = sent \cup {new}
      BY <1>12, <2>4 DEF Send
    <3> HIDE DEF new
    <3> QED BY <1>12, <2>1, <2>2, <3>1 DEF Send, Pays
  <2> QED BY <2>3, <2>4
<1>13. CASE Receipt(h)
  <2>1. Budget'
    BY <1>1, <1>3, <1>13, NoCharge DEF Receipt
  <2> QED BY <1>13, <2>1 DEF Receipt, Free
<1>14. CASE Unknown(h)
  <2>1. Budget'
    BY <1>1, <1>2, <1>14, NoCharge DEF Unknown, UnknownKept
  <2> QED BY <1>14, <2>1 DEF Unknown, Free
<1>15. CASE Confirmed(h)
  <2>1. Budget'
    BY <1>1, <1>3, <1>15, NoCharge DEF Confirmed
  <2> QED BY <1>15, <2>1 DEF Confirmed, Free
<1>16. CASE Store(h)
  <2>1. CASE GiveUp(h)
    BY <2>1, GivingUpIsFree
  <2>2. CASE ~GiveUp(h)
    <3>1. Budget'
      BY <1>1, <1>2, <1>16, <2>2, NoCharge DEF Store, SaveEntry
    <3> QED BY <1>16, <2>2, <3>1 DEF Store, Free
  <2> QED BY <2>1, <2>2
<1> QED BY <1>4, <1>5, <1>6, <1>7, <1>8, <1>9, <1>10, <1>11, <1>12, <1>13, <1>14, <1>15, <1>16 DEF Handle

(* The world around the handlers charges and pays nothing.                 *)
LEMMA BudgetWorld ==
  ASSUME MirrorInv, Budget,
         \/ \E h \in Handlers, t \in TxHashes : Receive(h, t)
         \/ \E p \in Processes : Crash(p)
         \/ \E t \in TxHashes : Consensus(t) \/ Index(t)
         \/ Tick
  PROVE  Free
<1> USE DEF Charged
<1>1. ASSUME NEW h \in Handlers, NEW t \in TxHashes, Receive(h, t) PROVE Free
  <2>1. pc'[h] = "lookup" /\ \A g \in Handlers \ {h} : pc'[g] = pc[g] /\ tx'[g] = tx[g]
    BY <1>1 DEF Receive, MirrorInv, TypeOK
  <2>2. Budget'
    BY <1>1, <2>1, NoCharge DEF Receive, Budget
  <2> QED BY <1>1, <2>2 DEF Receive, Free
<1>2. ASSUME NEW p \in Processes, Crash(p) PROVE Free
  <2> DEFINE lost == {h \in Handlers : Home[h] = p /\ pc[h] # "idle"}
  <2>1. \A h \in lost : pc'[h] = "idle"
    BY <1>2, Responding DEF Crash, MirrorInv
  <2>2. \A h \in Handlers \ lost : pc'[h] = pc[h] /\ tx'[h] = tx[h]
    BY <1>2, Responding DEF Crash, MirrorInv
  <2>3. entry' = entry /\ quota' = quota /\ sent' = sent
    BY <1>2 DEF Crash
  <2> HIDE DEF lost
  <2>4. Budget'
    BY <2>1, <2>2, <2>3, NoCharge DEF Budget
  <2> QED BY <2>3, <2>4 DEF Free
<1>3. CASE UNCHANGED <<pc, tx, entry, quota, sent>>
  <2>1. Budget'
    BY <1>3, NoCharge DEF Budget
  <2> QED BY <1>3, <2>1 DEF Free
<1> QED BY <1>1, <1>2, <1>3 DEF Consensus, Index, Tick, locals

LEMMA BudgetStep ==
  ASSUME MirrorInv, Budget, [Next]_vars
  PROVE  \/ Free
         \/ \E h \in Handlers : tx[h] \in TxHashes /\ (Charges(h) \/ Pays(h))
<1>1. ASSUME NEW h \in Handlers, Handle(h)
      PROVE  Free \/ (tx[h] \in TxHashes /\ (Charges(h) \/ Pays(h)))
  <2>1. pc[h] # "idle"
    BY <1>1 DEF Handle, Lookup, Reserve, ReadEntry, TakeSlot, Limited, Hold, Prepare,
                AuditIntent, Send, Receipt, Unknown, Confirmed, Store
  <2>2. tx[h] \in TxHashes
    BY <2>1 DEF MirrorInv, TypeOK
  <2> QED BY <1>1, <2>2, BudgetHandle
<1>2. CASE UNCHANGED vars
  <2>1. Budget'
    BY <1>2, NoCharge DEF vars, locals, Budget
  <2> QED BY <1>2, <2>1 DEF vars, locals, Free
<1> QED BY <1>1, <1>2, BudgetWorld DEF Next

-----------------------------------------------------------------------------
(* The refinement of PaidReports.                                          *)

ChargedTo(hr) == {q.tx : q \in {r \in quota : r.hour = hr}}

LEMMA PromiseInit == Init => Promise!Init
<1> SUFFICES ASSUME Init PROVE Promise!Init
  OBVIOUS
<1>1. \A hr \in Hours : {q.tx : q \in {r \in quota : r.hour = hr}} = {}
  BY DEF Init
<1>2. \A t \in TxHashes : Cardinality(Sends(t)) = 0
  BY FS_EmptySet DEF Init, Sends
<1> QED BY <1>1, <1>2 DEF Promise!Init

(* A free step is a stutter of the promise, ...                            *)
LEMMA FreeStutters ==
  ASSUME Free
  PROVE  UNCHANGED Promise!vars
BY DEF Free, Promise!vars, Sends

(* The instance has an operator Cardinality of its own, the same one.       *)
LEMMA SameCardinality == \A S : Promise!Cardinality(S) = Cardinality(S)
BY DEF Promise!Cardinality, Promise!IsFiniteSet, Cardinality, IsFiniteSet

(* ... taking a slot is a claim, ...                                       *)
LEMMA ChargeClaims ==
  ASSUME MirrorInv, Budget, NEW h \in Handlers, NEW t \in TxHashes, tx[h] = t,
         NEW hr \in Hours, hourOf[h] = hr, Charges(h)
  PROVE  Promise!Claim(t, hr)
<1> DEFINE new == [hour |-> hr, slot |-> slot[h], tx |-> t]
<1>1. Unclaimed(t)
  BY DEF Charges, Budget
<1>2. \A g \in Hours : t \notin ChargedTo(g)
  BY <1>1 DEF Unclaimed, ChargedTo
<1>3. Cardinality(ChargedTo(hr)) < HourlyLimit
  BY RoomLeft DEF Charges, MirrorInv, ChargedTo
<1>4. new.hour = hr /\ new.tx = t /\ quota' = quota \cup {new}
  BY DEF Charges
<1> HIDE DEF new
<1>5. ChargedTo(hr)' = ChargedTo(hr) \cup {t}
  BY <1>4 DEF ChargedTo
<1>6. \A g \in Hours \ {hr} : ChargedTo(g)' = ChargedTo(g)
  BY <1>4 DEF ChargedTo
<1>7. [g \in Hours |-> ChargedTo(g)]'
        = [[g \in Hours |-> ChargedTo(g)] EXCEPT ![hr] = @ \cup {t}]
  BY <1>5, <1>6
<1>8. [u \in TxHashes |-> Cardinality(Sends(u))]' = [u \in TxHashes |-> Cardinality(Sends(u))]
  BY DEF Charges, Sends
<1> QED BY <1>2, <1>3, <1>7, <1>8, SameCardinality DEF Promise!Claim, ChargedTo

(* ... and a submission handed over is a payment.                          *)
LEMMA PaymentPays ==
  ASSUME MirrorInv, Budget, NEW h \in Handlers, NEW t \in TxHashes, tx[h] = t, Pays(h)
  PROVE  Promise!Pay(t)
<1>1. PICK q \in quota : q.tx = t
  BY DEF Pays, Budget, Charged, Unclaimed
<1>2. q.hour \in Hours
  BY <1>1 DEF MirrorInv, TypeOK
<1>3. \E hr \in Hours : t \in {r.tx : r \in {p \in quota : p.hour = hr}}
  BY <1>1, <1>2
<1>4. PICK new : new.tx = t /\ sent' = sent \cup {new}
  BY DEF Pays
<1>5. Sends(t) = {} /\ Sends(t)' = {new}
  BY <1>4 DEF Pays, Sends
<1>6. Cardinality(Sends(t)) = 0 /\ Cardinality(Sends(t)') = 1
  BY <1>5, FS_EmptySet, FS_Singleton
<1>7. \A u \in TxHashes \ {t} : Sends(u)' = Sends(u)
  BY <1>4 DEF Sends
<1>8. [u \in TxHashes |-> Cardinality(Sends(u))]'
        = [[u \in TxHashes |-> Cardinality(Sends(u))] EXCEPT ![t] = 1]
  BY <1>6, <1>7
<1>9. quota' = quota
  BY DEF Pays
<1> QED BY <1>3, <1>6, <1>8, <1>9 DEF Promise!Pay

LEMMA PromiseStep ==
  ASSUME MirrorInv, Budget, [Next]_vars
  PROVE  [Promise!Next]_(Promise!vars)
<1>1. CASE Free
  BY <1>1, FreeStutters
<1>2. ASSUME NEW h \in Handlers, NEW t \in TxHashes, tx[h] = t, Charges(h) \/ Pays(h)
      PROVE  Promise!Next
  <2>1. hourOf[h] \in Hours
    BY DEF MirrorInv, TypeOK
  <2> QED BY <1>2, <2>1, ChargeClaims, PaymentPays DEF Promise!Next
<1> QED BY <1>1, <1>2, BudgetStep

(* The shared directory keeps the promise: a report is charged once, no    *)
(* hour is charged more than its limit and a message is paid for once,     *)
(* however invocations, processes and crashes interleave.                  *)
THEOREM DirectoryKeepsPromise == Spec => KeepsPromise
<1>1. Init => Budget /\ Promise!Init
  BY BudgetInit, PromiseInit
<1>2. MirrorInv /\ Budget /\ [Next]_vars => Budget' /\ [Promise!Next]_(Promise!vars)
  BY BudgetStep, PromiseStep DEF Free, Charges, Pays
<1> QED BY <1>1, <1>2, MirrorInvariant, PTL DEF Spec, KeepsPromise, Promise!Spec
=============================================================================
