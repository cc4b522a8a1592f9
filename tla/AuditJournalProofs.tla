------------------------ MODULE AuditJournalProofs --------------------------
(***************************************************************************)
(* The audit journal, for any events and any number of waiting requests:   *)
(* one record per event, a writer that knows its file, and the promise of  *)
(* DurableLog kept through every kill and power loss.                      *)
(*                                                                         *)
(* The argument: at most one line of the file is not on the disk, and it   *)
(* belongs to the append being run (FileSound); a writer that has not      *)
(* failed knows every other line (WriterKnows).  So an event that passed   *)
(* the check is in no line of the file, and a restart adopts at most one   *)
(* record that nobody was told about.                                      *)
(***************************************************************************)
EXTENDS AuditJournal, SequenceTheorems, FiniteSetTheorems, TLAPS


FileSound ==
  /\ synced <= Len(rows) /\ Len(rows) <= synced + 1
  /\ \A i, j \in 1 .. Len(rows) : rows[i].id = rows[j].id => i = j

WriterKnows ==
  Serving /\ ~failed =>
    /\ ~tail /\ synced = Len(known)
    /\ Len(rows) = Len(known) + (IF step = "sync" THEN 1 ELSE 0)
    /\ \A i \in 1 .. Len(known) : known[i] = rows[i]
    /\ step = "sync" => rows[Len(rows)] = Head(queue)

AppendUnderWay ==
  /\ step # "none" => Serving /\ ~failed /\ queue # <<>>
  /\ step = "write" => Prior(Head(queue)) = {}

JournalInv == TypeOK /\ FileSound /\ WriterKnows /\ AppendUnderWay

-----------------------------------------------------------------------------
(* Every variable keeps its type in every step.                            *)
LEMMA TypeStep == TypeOK /\ [Next]_journalVars => TypeOK'
<1> SUFFICES ASSUME TypeOK, [Next]_journalVars PROVE TypeOK'
  OBVIOUS
<1> USE JournalAssumption DEF TypeOK, Steps, file, memory, journalVars
<1>1. CASE UNCHANGED journalVars
  BY <1>1
<1>2. CASE Lock
  <2>1. known' \in Seq(Events) /\ queue' \in Seq(Events) /\ Len(queue') <= MaxQueued
    BY <1>2, EmptySeq DEF Lock, Forget
  <2>2. failed' = FALSE /\ step' = "none"
    BY <1>2 DEF Lock, Forget
  <2> QED BY <1>2, <2>1, <2>2 DEF Lock
<1>3. CASE Shutdown \/ ServerClosed
  BY <1>3 DEF Shutdown, ServerClosed
<1>4. CASE Kill
  <2>1. known' \in Seq(Events) /\ queue' \in Seq(Events) /\ Len(queue') <= MaxQueued
    BY <1>4, EmptySeq DEF Kill, Forget
  <2>2. failed' = FALSE /\ step' = "none"
    BY <1>4 DEF Kill, Forget
  <2> QED BY <1>4, <2>1, <2>2 DEF Kill
<1>5. CASE PowerLoss
  <2>1. PICK kept \in synced .. Len(rows) :
          rows' = SubSeq(rows, 1, kept) /\ tail' \in {tail, kept < Len(rows), FALSE}
    BY <1>5 DEF PowerLoss
  <2>2. \A i \in 1 .. kept : rows[i] \in Events
    BY <2>1, LenProperties, ElementOfSeq
  <2>3. rows' \in Seq(Events)
    BY <2>1, <2>2, SubSeqProperties, LenProperties
  <2>4. tail' \in BOOLEAN
    <3>1. (kept < Len(rows)) \in BOOLEAN
      OBVIOUS
    <3> QED BY <2>1, <3>1, Zenon
  <2>5. known' \in Seq(Events) /\ queue' \in Seq(Events) /\ Len(queue') <= MaxQueued
    BY <1>5, EmptySeq DEF PowerLoss, Forget
  <2>6. process' = "down" /\ failed' = FALSE /\ step' = "none" /\ torn' \in 0 .. MaxTorn
    BY <1>5 DEF PowerLoss, Forget
  <2> QED BY <1>5, <2>3, <2>4, <2>5, <2>6 DEF PowerLoss
<1>6. CASE RemoveStaleLock
  BY <1>6 DEF RemoveStaleLock
<1>7. ASSUME NEW e \in Events, Receive(e) PROVE TypeOK'
  <2>1. queue' \in Seq(Events) /\ Len(queue') = Len(queue) + 1
    BY <1>7, AppendProperties DEF Receive
  <2>2. Len(queue') <= MaxQueued
    BY <1>7, <2>1, LenProperties DEF Receive
  <2> QED BY <1>7, <2>1, <2>2 DEF Receive
<1>8. ASSUME queue # <<>>
      PROVE /\ Head(queue) \in Events
            /\ Tail(queue) \in Seq(Events) /\ Len(Tail(queue)) <= MaxQueued
  BY <1>8, HeadTailProperties, LenProperties
<1>9. CASE Check
  <2>1. queue # <<>> /\ UNCHANGED <<rows, synced, tail, lock, process, known>>
    BY <1>9 DEF Check, Running, Refuse
  <2>2. failed' \in BOOLEAN
    BY <1>9, Zenon DEF Check, Refuse
  <2>5. torn' \in 0 .. MaxTorn /\ step' \in Steps
    BY <1>9 DEF Check, Refuse, Answer
  <2>3. queue' \in {queue, Tail(queue)}
    BY <1>9 DEF Check, Refuse, Answer
  <2>4. acks' \subseteq acks \cup {Head(queue)}
    BY <1>9 DEF Check, Refuse, Answer
  <2> QED BY <2>1, <2>2, <2>3, <2>4, <2>5, <1>8
<1>10. CASE Write
  <2>1. queue # <<>> /\ UNCHANGED <<synced, lock, process, known, acks>>
    BY <1>10 DEF Write, Running, Refuse
  <2>2. failed' \in BOOLEAN /\ tail' \in BOOLEAN
    BY <1>10, Zenon DEF Write, Refuse, Disabled
  <2>6. torn' \in 0 .. MaxTorn /\ step' \in Steps
    BY <1>10 DEF Write, Refuse, Answer
  <2>3. queue' \in {queue, Tail(queue)}
    BY <1>10 DEF Write, Refuse, Answer
  <2>4. rows' \in {rows, Append(rows, Head(queue))}
    BY <1>10 DEF Write
  <2>5. rows' \in Seq(Events)
    <3>1. Append(rows, Head(queue)) \in Seq(Events)
      BY <2>1, <1>8, AppendProperties
    <3> QED BY <2>4, <3>1
  <2> QED BY <2>1, <2>2, <2>3, <2>5, <2>6, <1>8
<1>11. CASE Sync
  <2>1. queue # <<>> /\ UNCHANGED <<rows, tail, lock, process>>
    BY <1>11 DEF Sync, Running, Refuse
  <2>2. failed' \in BOOLEAN
    BY <1>11, Zenon DEF Sync, Refuse, Disabled
  <2>7. torn' \in 0 .. MaxTorn /\ step' = "none"
    BY <1>11 DEF Sync, Refuse, Answer
  <2>3. queue' = Tail(queue) /\ synced' \in {synced, Len(rows)}
    BY <1>11 DEF Sync, Refuse, Answer
  <2>4. acks' \subseteq acks \cup {Head(queue)}
    BY <1>11 DEF Sync, Refuse
  <2>5. known' \in {known, Append(known, Head(queue))}
    BY <1>11 DEF Sync, Refuse
  <2>6. known' \in Seq(Events)
    <3>1. Append(known, Head(queue)) \in Seq(Events)
      BY <2>1, <1>8, AppendProperties
    <3> QED BY <2>5, <3>1
  <2>8. synced' \in Nat
    BY <2>3, LenProperties
  <2> QED BY <2>1, <2>2, <2>3, <2>4, <2>6, <2>7, <2>8, <1>8
<1>12. CASE Verify
  BY <1>12, LenProperties DEF Verify, Adopted, LockKept
<1>13. CASE Close
  BY <1>13 DEF Close, Forget
<1> QED
  BY <1>1, <1>2, <1>3, <1>4, <1>5, <1>6, <1>7, <1>9, <1>10, <1>11, <1>12, <1>13
  DEF Next, Work

-----------------------------------------------------------------------------
(* Steps that give the file up keep the invariant if they leave it sound.  *)
LEMMA Stopped ==
  ASSUME JournalInv, TypeOK', FileSound', process' \in {"down", "verifying"}, step' = "none"
  PROVE  JournalInv'
BY DEF JournalInv, WriterKnows, AppendUnderWay, Serving

(* The lines of a file that stays, or loses lines that were not synced.    *)
LEMMA Prefix ==
  ASSUME JournalInv, NEW kept \in synced .. Len(rows),
         rows' = SubSeq(rows, 1, kept), synced' = synced
  PROVE  /\ Len(rows') = kept /\ FileSound'
         /\ \A i \in 1 .. kept : rows'[i] = rows[i]
<1> USE DEF JournalInv, TypeOK
<1>1. \A i \in 1 .. kept : rows[i] \in Events
  BY LenProperties, ElementOfSeq
<1>2. kept \in Nat /\ Len(rows) \in Nat /\ kept <= Len(rows)
  BY LenProperties
<1>3. Len(rows') = kept /\ \A i \in 1 .. kept : rows'[i] = rows[i]
  BY <1>1, <1>2, SubSeqProperties
<1>4. FileSound'
  BY <1>2, <1>3 DEF FileSound
<1> QED BY <1>3, <1>4

(* A write of an event that the check found to be new.                     *)
LEMMA NewLine ==
  ASSUME JournalInv, step = "write", rows' = Append(rows, Head(queue)), synced' = synced
  PROVE  /\ Len(rows') = Len(rows) + 1 /\ rows'[Len(rows')] = Head(queue)
         /\ \A i \in 1 .. Len(rows) : rows'[i] = rows[i]
         /\ FileSound'
<1> USE DEF JournalInv, TypeOK
<1>1. Serving /\ ~failed /\ queue # <<>> /\ Prior(Head(queue)) = {}
  BY DEF AppendUnderWay
<1>2. Head(queue) \in Events
  BY <1>1, HeadTailProperties
<1>3. /\ Len(rows') = Len(rows) + 1 /\ rows'[Len(rows) + 1] = Head(queue)
      /\ \A i \in 1 .. Len(rows) : rows'[i] = rows[i]
  BY <1>2, AppendProperties
<1>4. /\ Len(rows) = Len(known) /\ synced = Len(rows)
      /\ \A i \in 1 .. Len(rows) : known[i] = rows[i]
  BY <1>1, LenProperties DEF WriterKnows
<1>5. \A i \in 1 .. Len(rows) : rows[i].id # Head(queue).id
  BY <1>1, <1>4, LenProperties DEF Prior, RowsOf
<1>6. FileSound'
  BY <1>3, <1>4, <1>5, LenProperties DEF FileSound
<1> QED BY <1>3, <1>6

(* The journal starts with an empty file and nobody at work.               *)
LEMMA InvInit == Init => JournalInv
<1> SUFFICES ASSUME Init PROVE JournalInv
  OBVIOUS
<1>1. <<>> \in Seq(Events) /\ Len(<<>>) = 0
  BY EmptySeq
<1>2. TypeOK
  <2>1. /\ rows \in Seq(Events) /\ known \in Seq(Events) /\ queue \in Seq(Events)
        /\ Len(queue) <= MaxQueued
    BY <1>1, JournalAssumption DEF Init
  <2>2. synced \in Nat /\ torn \in 0 .. MaxTorn /\ step \in Steps /\ acks \subseteq Events
    BY JournalAssumption DEF Init, Steps
  <2>3. tail \in BOOLEAN /\ lock \in BOOLEAN /\ failed \in BOOLEAN /\ process = "down"
    BY DEF Init
  <2> QED BY <2>1, <2>2, <2>3 DEF TypeOK
<1>3. FileSound
  BY <1>1 DEF Init, FileSound
<1>4. WriterKnows /\ AppendUnderWay
  BY DEF Init, WriterKnows, AppendUnderWay, Serving
<1> QED BY <1>2, <1>3, <1>4 DEF JournalInv

(* Every step keeps the invariant.                                         *)
LEMMA InvStep == JournalInv /\ [Next]_journalVars => JournalInv'
<1> SUFFICES ASSUME JournalInv, [Next]_journalVars PROVE JournalInv'
  OBVIOUS
<1> TypeOK /\ TypeOK' /\ FileSound /\ WriterKnows /\ AppendUnderWay
  BY TypeStep DEF JournalInv
<1> USE DEF file, memory, journalVars
<1>0. /\ Len(rows) \in Nat /\ Len(known) \in Nat /\ Len(queue) \in Nat
      /\ synced \in Nat /\ step \in {"none", "write", "sync"}
  BY LenProperties DEF TypeOK, Steps
<1>1. CASE UNCHANGED journalVars
  BY <1>1 DEF JournalInv, FileSound, WriterKnows, AppendUnderWay, Serving, Prior, RowsOf
<1>2. CASE Lock
  <2>1. FileSound' BY <1>2 DEF Lock, FileSound
  <2> QED BY <1>2, <2>1, Stopped DEF Lock, Forget
<1>3. CASE Shutdown \/ ServerClosed
  BY <1>3 DEF Shutdown, ServerClosed, JournalInv, FileSound, WriterKnows, AppendUnderWay, Serving, Prior, RowsOf
<1>4. CASE Kill
  <2>1. FileSound' BY <1>4 DEF Kill, FileSound
  <2> QED BY <1>4, <2>1, Stopped DEF Kill, Forget
<1>5. CASE PowerLoss
  <2>1. FileSound' BY <1>5, Prefix DEF PowerLoss
  <2> QED BY <1>5, <2>1, Stopped DEF PowerLoss, Forget
<1>6. CASE RemoveStaleLock
  <2>1. FileSound' BY <1>6 DEF RemoveStaleLock, FileSound
  <2>2. process' = "down" /\ step' = "none"
    BY <1>6 DEF RemoveStaleLock, AppendUnderWay, Serving
  <2> QED BY <2>1, <2>2, Stopped
<1>7. ASSUME NEW e \in Events, Receive(e) PROVE JournalInv'
  <2>1. UNCHANGED <<rows, synced, tail, process, failed, known, step>>
    BY <1>7 DEF Receive
  <2>2. queue' = Append(queue, e) /\ queue' # <<>>
    BY <1>7, AppendProperties DEF Receive, TypeOK
  <2>3. queue # <<>> => Head(queue') = Head(queue)
    BY <2>2, HeadTailAppend DEF TypeOK
  <2>4. FileSound' BY <2>1 DEF FileSound
  <2>5. WriterKnows' BY <2>1, <2>3 DEF WriterKnows, AppendUnderWay, Serving
  <2>6. AppendUnderWay'
    BY <2>1, <2>2, <2>3 DEF AppendUnderWay, Serving, Prior, RowsOf
  <2> QED BY <2>4, <2>5, <2>6 DEF JournalInv
<1>8. CASE Check
  <2>1. UNCHANGED <<rows, synced, tail, process, known>> /\ step = "none" /\ Serving
        /\ queue # <<>>
    BY <1>8 DEF Check, Running, Refuse, Serving
  <2>2. FileSound' BY <2>1 DEF FileSound
  <2>3. CASE step' = "none"
    <3>1. failed => failed' BY <1>8 DEF Check, Refuse
    <3>2. WriterKnows' BY <2>1, <2>3, <3>1, <1>0 DEF WriterKnows, Serving
    <3>3. AppendUnderWay' BY <2>3 DEF AppendUnderWay
    <3> QED BY <2>2, <3>2, <3>3 DEF JournalInv
  <2>4. CASE step' # "none"
    <3>1. /\ ~failed /\ step' = "write" /\ Prior(Head(queue)) = {}
          /\ UNCHANGED <<failed, queue>>
      BY <1>8, <2>4 DEF Check, Refuse, Answer
    <3>2. WriterKnows' BY <2>1, <3>1 DEF WriterKnows, Serving
    <3>3. AppendUnderWay' BY <2>1, <3>1 DEF AppendUnderWay, Serving, Prior, RowsOf
    <3> QED BY <2>2, <3>2, <3>3 DEF JournalInv
  <2> QED BY <2>3, <2>4
<1>9. CASE Write
  <2>1. UNCHANGED <<synced, process, known>> /\ step = "write" /\ Serving /\ ~failed
        /\ queue # <<>>
    BY <1>9 DEF Write, Running, Refuse, AppendUnderWay
  <2>2. CASE step' = "sync"
    <3>1. /\ rows' = Append(rows, Head(queue)) /\ UNCHANGED <<tail, failed, queue>>
      BY <1>9, <2>2 DEF Write, Refuse, Answer
    <3>2. /\ Len(rows') = Len(rows) + 1 /\ rows'[Len(rows')] = Head(queue)
          /\ \A i \in 1 .. Len(rows) : rows'[i] = rows[i]
          /\ FileSound'
      BY <2>1, <3>1, NewLine
    <3>3. WriterKnows' BY <2>1, <2>2, <3>1, <3>2, <1>0 DEF WriterKnows, Serving
    <3>4. AppendUnderWay' BY <2>1, <2>2, <3>1 DEF AppendUnderWay, Serving
    <3> QED BY <3>2, <3>3, <3>4 DEF JournalInv
  <2>3. CASE step' # "sync"
    <3>1. rows' = rows /\ failed' /\ step' = "none"
      BY <1>9, <2>3 DEF Write, Refuse, Answer, Disabled
    <3>2. FileSound' BY <2>1, <3>1 DEF FileSound
    <3>3. WriterKnows' /\ AppendUnderWay' BY <3>1 DEF WriterKnows, AppendUnderWay
    <3> QED BY <3>2, <3>3 DEF JournalInv
  <2> QED BY <2>2, <2>3
<1>10. CASE Sync
  <2>1. UNCHANGED <<rows, tail, process>> /\ step = "sync" /\ Serving /\ ~failed
        /\ queue # <<>> /\ step' = "none"
    BY <1>10 DEF Sync, Running, Refuse, Answer, AppendUnderWay
  <2>2. synced' = synced \/ synced' = Len(rows)
    BY <1>10 DEF Sync
  <2>3. FileSound' BY <2>1, <2>2, <1>0 DEF FileSound
  <2>4. AppendUnderWay' BY <2>1 DEF AppendUnderWay
  <2>5. WriterKnows'
    <3>1. CASE failed'
      BY <3>1 DEF WriterKnows
    <3>2. CASE ~failed'
      <4>1. synced' = Len(rows) /\ known' = Append(known, Head(queue))
        BY <1>10, <3>2 DEF Sync, Refuse, Disabled
      <4>2. Head(queue) \in Events
        BY <2>1, HeadTailProperties DEF TypeOK
      <4>3. /\ Len(known') = Len(known) + 1 /\ known'[Len(known) + 1] = Head(queue)
            /\ \A i \in 1 .. Len(known) : known'[i] = known[i]
        BY <4>1, <4>2, AppendProperties DEF TypeOK
      <4> QED BY <2>1, <4>1, <4>3, <1>0 DEF WriterKnows, Serving
    <3> QED BY <3>1, <3>2
  <2> QED BY <2>3, <2>4, <2>5 DEF JournalInv
<1>11. CASE Verify
  <2>1. rows' = rows /\ synced' \in {synced, Len(rows)} /\ step' = step /\ process = "verifying"
    BY <1>11 DEF Verify, Adopted
  <2>2. FileSound' BY <2>1, <1>0 DEF FileSound
  <2>3. step = "none" BY <2>1 DEF AppendUnderWay, Serving
  <2>4. CASE Acceptable /\ process' = "open"
    <3>1. known' = rows /\ synced' = Len(rows) /\ ~tail'
      BY <1>11, <2>4 DEF Verify, Acceptable, Adopted
    <3>2. WriterKnows' BY <2>1, <2>3, <3>1, <1>0 DEF WriterKnows
    <3>3. AppendUnderWay' BY <2>1, <2>3 DEF AppendUnderWay
    <3> QED BY <2>2, <3>2, <3>3 DEF JournalInv
  <2>5. CASE process' = "down"
    BY <2>1, <2>2, <2>3, <2>5, Stopped
  <2> QED BY <1>11, <2>4, <2>5 DEF Verify
<1>12. CASE Close
  <2>1. FileSound' BY <1>12 DEF Close, FileSound
  <2> QED BY <1>12, <2>1, Stopped DEF Close, Forget
<1> QED
  BY <1>1, <1>2, <1>3, <1>4, <1>5, <1>6, <1>7, <1>8, <1>9, <1>10, <1>11, <1>12
  DEF Next, Work

(* At any time the file is sound, the writer knows what is in it, and an   *)
(* append under way is one the check has found to be new.                  *)
THEOREM JournalInvariant == Spec => []JournalInv
BY InvInit, InvStep, PTL DEF Spec

(* Every variable of the collector keeps its type.                         *)
THEOREM JournalTypes == Spec => []TypeOK
BY JournalInvariant, PTL DEF JournalInv

(* A repeated delivery, a retry after a restart or an acknowledgement that *)
(* was lost never leads to a second record of an event.                    *)
THEOREM RecordedOnce == Spec => []OneRecordPerEvent
<1>1. JournalInv => OneRecordPerEvent
  <2> SUFFICES ASSUME JournalInv, NEW e \in Events PROVE Cardinality(RowsOf(e.id, rows)) <= 1
    BY DEF OneRecordPerEvent
  <2>1. DOMAIN rows = 1 .. Len(rows)
    BY LenProperties DEF JournalInv, TypeOK
  <2>2. CASE RowsOf(e.id, rows) = {}
    BY <2>2, FS_EmptySet
  <2>3. CASE RowsOf(e.id, rows) # {}
    <3>1. PICK i \in RowsOf(e.id, rows) : TRUE
      BY <2>3
    <3>2. RowsOf(e.id, rows) = {i}
      BY <2>1, <3>1 DEF JournalInv, FileSound, RowsOf
    <3> QED BY <3>2, FS_Singleton
  <2> QED BY <2>2, <2>3
<1> QED BY <1>1, JournalInvariant, PTL

(* The writer's memory is the file it appends to, but for the line it is   *)
(* writing, as long as no write or sync has failed.                        *)
THEOREM MemoryIsFile == Spec => []WriterKnowsFile
<1>1. JournalInv => WriterKnowsFile
  <2> SUFFICES ASSUME JournalInv, Serving, ~failed
               PROVE  known = SubSeq(rows, 1, Len(known))
    BY DEF JournalInv, WriterKnows, WriterKnowsFile, Serving
  <2> USE DEF JournalInv, TypeOK
  <2>1. /\ Len(known) \in Nat /\ Len(rows) \in Nat /\ Len(known) <= Len(rows)
        /\ \A i \in 1 .. Len(known) : known[i] = rows[i]
    BY LenProperties DEF WriterKnows
  <2>2. \A i \in 1 .. Len(known) : rows[i] \in Events
    BY <2>1, ElementOfSeq
  <2>3. /\ SubSeq(rows, 1, Len(known)) \in Seq(Events)
        /\ Len(SubSeq(rows, 1, Len(known))) = Len(known)
        /\ \A i \in 1 .. Len(known) : SubSeq(rows, 1, Len(known))[i] = rows[i]
    BY <2>1, <2>2, SubSeqProperties
  <2> QED BY <2>1, <2>3, SeqEqual
<1> QED BY <1>1, JournalInvariant, PTL

-----------------------------------------------------------------------------
(* The records on the disk.                                                *)
OnDisk == {rows[i] : i \in 1 .. synced}

(* A step that keeps the synced lines and the acknowledgements stutters.   *)
LEMMA DiskStays ==
  ASSUME JournalInv, synced' = synced, acks' = acks,
         \A i \in 1 .. synced : rows'[i] = rows[i]
  PROVE  UNCHANGED Log!vars
<1>1. OnDisk' = OnDisk BY DEF OnDisk
<1> QED BY <1>1 DEF OnDisk, Log!vars

(* The line after the synced ones becomes durable: a record of an event    *)
(* the log does not have.                                                  *)
LEMMA DiskGrows ==
  ASSUME JournalInv, rows' = rows, Len(rows) = synced + 1, synced' = Len(rows),
         acks' = acks \/ acks' = acks \cup {rows[Len(rows)]}
  PROVE  Log!Next
<1> PICK e : e = rows[Len(rows)]
  OBVIOUS
<1> USE DEF JournalInv, TypeOK
<1>1. synced \in Nat /\ e \in Events
  BY LenProperties, ElementOfSeq
<1>2. OnDisk' = OnDisk \cup {e}
  BY <1>1 DEF OnDisk
<1>3. \A known_ \in OnDisk : known_.id # e.id
  BY <1>1 DEF OnDisk, FileSound
<1>4. Log!Record(e)
  BY <1>2, <1>3 DEF Log!Record, Log!Fresh, OnDisk
<1> QED BY <1>1, <1>4 DEF Log!Next

(* Every step of the collector is a step of the abstract log or none.      *)
LEMMA LogStep == JournalInv /\ [Next]_journalVars => [Log!Next]_(Log!vars)
<1> SUFFICES ASSUME JournalInv, [Next]_journalVars PROVE [Log!Next]_(Log!vars)
  OBVIOUS
<1> USE DEF file, memory, journalVars
<1>0. Len(rows) \in Nat /\ Len(known) \in Nat /\ synced \in Nat /\ DOMAIN known = 1 .. Len(known)
  BY LenProperties DEF JournalInv, TypeOK
<1>1. CASE UNCHANGED <<rows, synced, acks>>
  BY <1>1, DiskStays
<1>2. CASE PowerLoss
  BY <1>0, <1>2, Prefix, DiskStays DEF PowerLoss
<1>3. CASE Check
  <2>1. UNCHANGED <<rows, synced>> /\ queue # <<>>
    BY <1>3 DEF Check, Running
  <2>2. CASE acks' # acks
    <3>1. PICK i \in DOMAIN known : known[i] = Head(queue) /\ acks' = acks \cup {Head(queue)}
      BY <1>3, <2>2 DEF Check, Refuse, Prior, RowsOf
    <3>2. Serving /\ ~failed
      BY <1>3, <2>2 DEF Check, Running, Refuse, Serving
    <3>3. rows[i] = Head(queue) /\ i \in 1 .. synced
      BY <1>0, <3>1, <3>2 DEF JournalInv, WriterKnows
    <3>4. Head(queue) \in Events
      BY <2>1, HeadTailProperties DEF JournalInv, TypeOK
    <3>5. Head(queue) \in OnDisk /\ OnDisk' = OnDisk
      BY <2>1, <3>3 DEF OnDisk
    <3>6. Log!Acknowledge(Head(queue))
      BY <3>1, <3>5 DEF Log!Acknowledge, Log!Recorded, OnDisk
    <3> QED BY <3>4, <3>6 DEF Log!Next
  <2> QED BY <1>1, <2>1, <2>2
<1>4. CASE Write
  <2>1. UNCHANGED <<synced, acks>> /\ step = "write"
    BY <1>4 DEF Write, Refuse
  <2>2. CASE rows' = Append(rows, Head(queue))
    <3>1. \A i \in 1 .. Len(rows) : rows'[i] = rows[i]
      BY <2>1, <2>2, NewLine
    <3> QED BY <1>0, <2>1, <3>1, DiskStays DEF JournalInv, FileSound
  <2> QED BY <1>4, <1>1, <2>1, <2>2 DEF Write
<1>5. CASE Sync
  <2>1. CASE UNCHANGED <<synced, acks>>
    BY <1>5, <1>1, <2>1 DEF Sync
  <2>2. CASE synced' = Len(rows) /\ acks' = acks \cup {Head(queue)}
    <3>1. /\ rows' = rows /\ Len(rows) = synced + 1
          /\ rows[Len(rows)] = Head(queue)
      BY <1>0, <1>5 DEF Sync, JournalInv, WriterKnows, AppendUnderWay
    <3> QED BY <2>2, <3>1, DiskGrows
  <2> QED BY <1>5, <2>1, <2>2 DEF Sync, Refuse
<1>6. CASE Verify
  <2>1. rows' = rows /\ acks' = acks /\ synced' \in {synced, Len(rows)}
    BY <1>6 DEF Verify, Adopted
  <2>2. CASE synced' = synced
    BY <1>1, <2>1, <2>2
  <2>3. CASE synced' # synced
    <3>1. synced' = Len(rows) /\ Len(rows) = synced + 1
      BY <1>0, <2>1, <2>3 DEF JournalInv, FileSound
    <3> QED BY <2>1, <3>1, DiskGrows
  <2> QED BY <2>2, <2>3
<1>7. CASE Lock \/ Shutdown \/ ServerClosed \/ Kill \/ RemoveStaleLock \/ Close
  BY <1>1, <1>7 DEF Lock, Shutdown, ServerClosed, Kill, RemoveStaleLock, Close
<1>8. ASSUME NEW e \in Events, Receive(e) PROVE [Log!Next]_(Log!vars)
  BY <1>1, <1>8 DEF Receive
<1> QED BY <1>1, <1>2, <1>3, <1>4, <1>5, <1>6, <1>7, <1>8 DEF Next, Work

(* The journal implements the abstract log: an acknowledged event is on    *)
(* the disk, a record there is never taken back or replaced, and there is  *)
(* one per event, whatever is killed, cut or repeated.                     *)
THEOREM JournalImplementsLog == Spec => ImplementsLog
<1>1. Init => Log!Init
  <2> SUFFICES ASSUME Init PROVE OnDisk = {} /\ acks = {}
    BY DEF Log!Init, OnDisk
  <2> QED BY DEF Init, OnDisk
<1> QED BY <1>1, LogStep, JournalInvariant, PTL DEF Spec, ImplementsLog, Log!Spec
=============================================================================
