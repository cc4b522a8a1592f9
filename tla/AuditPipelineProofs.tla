------------------------ MODULE AuditPipelineProofs -------------------------
(***************************************************************************)
(* From request to audit log, for any number of requests, any limits and   *)
(* any number of faults: no accepted event is lost, the outbox stays       *)
(* within its limit, and an admitted request finds room for its records.   *)
(*                                                                         *)
(* The argument: a file is removed only on an answer for its own event     *)
(* (Answers), or with a crash before its record() resolved (Receipts).     *)
(* One request at a time writes (Serial), after a check that counted its   *)
(* file (Room); what it reserved at its start is never less than what it   *)
(* may still record (PlacesLeft), and all reservations fit (Reservations). *)
(***************************************************************************)
EXTENDS AuditPipeline, SequenceTheorems, FiniteSetTheorems, TLAPS

Writing == {"write", "settle"}
Recording == {"write", "settle", "deliver", "await", "run"}

Progress ==
  \A r \in Requests :
    /\ pc[r] = "new" => nr[r] = 0 /\ ~last[r] /\ places[r] = 0
    /\ pc[r] \in Recording => nr[r] >= 1 /\ (last[r] \/ nr[r] < RecordLimit)
    /\ pc[r] = "run" => ~last[r]

Answers ==
  /\ \A r \in Requests :
       /\ wire[r] # "none" => pc[r] = "await"
       /\ wire[r] = "acked" => Current(r) \in log
  /\ replaying = "await" => batch # <<>>
  /\ wire[Replay] # "none" => replaying = "await"
  /\ wire[Replay] = "acked" => Head(batch) \in log

Receipts ==
  \A r \in Requests, n \in 1 .. RecordLimit :
    Event(r, n) \in accepted => n <= nr[r] /\ (pc[r] \in Writing => n < nr[r])

(* A replay may deliver a file before its directory has been synced.       *)
Renamed == \A r \in Requests : pc[r] = "settle" => Present(Current(r)) \/ Current(r) \in log

Serial == \A r \in Requests : pc[r] \in Writing <=> busy = r

Room ==
  /\ IsFiniteSet(temps) /\ Used <= MaxPending
  /\ \A r \in Requests : pc[r] = "write" => Used < MaxPending

PlacesLeft ==
  \A r \in Requests :
    /\ pc[r] \in Writing => places[r] >= RecordLimit - nr[r] + 1
    /\ pc[r] \in {"deliver", "await", "run"} /\ ~last[r] => places[r] >= RecordLimit - nr[r]

Reservations ==
  ~litter =>
    /\ turnedAway = {}
    /\ Used + Outstanding <= MaxPending + (IF \E r \in Requests : pc[r] = "settle" THEN 1 ELSE 0)

Order == TypeOK /\ Progress /\ Answers
Lossless == Receipts /\ NothingLost /\ Renamed
Capacity == Serial /\ Room /\ PlacesLeft /\ Reservations

-----------------------------------------------------------------------------
(* Events and files.                                                       *)

(* Events of different requests or numbers differ.                         *)
LEMMA EventsDiffer ==
  ASSUME NEW r, NEW q, NEW n, NEW m, Event(r, n) = Event(q, m)
  PROVE  r = q /\ n = m
BY DEF Event

(* Removing a file keeps the others and never makes the outbox longer.     *)
LEMMA Removed ==
  ASSUME files \in Seq(Events), NEW e
  PROVE  /\ Without(e) \in Seq(Events)
         /\ Len(Without(e)) \in Nat /\ Len(Without(e)) <= Len(files)
         /\ \A f : f # e /\ Present(f) => \E j \in 1 .. Len(Without(e)) : Without(e)[j] = f
<1>1. CASE ~Present(e)
  <2>1. Without(e) = files
    BY <1>1 DEF Without
  <2> QED BY <2>1, LenProperties DEF Present, Places
<1>2. CASE Present(e)
  <2> DEFINE i == CHOOSE j \in Places(e) : TRUE
             before == SubSeq(files, 1, i - 1)
             after == SubSeq(files, i + 1, Len(files))
  <2>1. i \in 1 .. Len(files) /\ files[i] = e /\ Len(files) \in Nat
    BY <1>2, LenProperties DEF Present, Places
  <2>2. Without(e) = before \o after
    BY <1>2 DEF Without
  <2> HIDE DEF i
  <2>3. \A j \in 1 .. Len(files) : files[j] \in Events
    BY ElementOfSeq
  <2>4. /\ before \in Seq(Events) /\ Len(before) = i - 1
        /\ \A j \in 1 .. i - 1 : before[j] = files[j]
    <3>1. \A j \in 1 .. i - 1 : files[j] \in Events
      BY <2>1, <2>3
    <3> QED BY <2>1, <3>1, SubSeqProperties
  <2>5. /\ after \in Seq(Events) /\ Len(after) = Len(files) - i
        /\ \A j \in 1 .. Len(files) - i : after[j] = files[i + j]
    <3>1. \A j \in i + 1 .. Len(files) : files[j] \in Events
      BY <2>1, <2>3
    <3>2. i + 1 \in Int /\ Len(files) \in Int
      BY <2>1
    <3>3. /\ after \in Seq(Events)
          /\ Len(after) = IF i + 1 <= Len(files) THEN Len(files) - (i + 1) + 1 ELSE 0
          /\ \A j \in 1 .. Len(files) - (i + 1) + 1 : after[j] = files[(i + 1) + j - 1]
      BY <3>1, <3>2, SubSeqProperties
    <3> QED BY <2>1, <3>3
  <2> HIDE DEF before, after
  <2>6. /\ before \o after \in Seq(Events)
        /\ Len(before \o after) = Len(files) - 1
        /\ \A j \in 1 .. Len(files) - 1 :
             (before \o after)[j] = IF j <= i - 1 THEN before[j] ELSE after[j - (i - 1)]
    <3>1. Len(before) + Len(after) = Len(files) - 1
      BY <2>1, <2>4, <2>5
    <3> QED BY <3>1, <2>4, <2>5, ConcatProperties
  <2>7. ASSUME NEW f, f # e, Present(f)
        PROVE  \E j \in 1 .. Len(files) - 1 : (before \o after)[j] = f
    <3>1. PICK k \in 1 .. Len(files) : files[k] = f
      BY <2>7 DEF Present, Places
    <3>2. CASE k < i
      <4>1. k \in 1 .. Len(files) - 1 /\ k <= i - 1
        BY <2>1, <3>2
      <4> QED BY <2>1, <2>4, <2>6, <3>1, <4>1
    <3>3. CASE k > i
      <4>1. /\ k - 1 \in 1 .. Len(files) - 1 /\ ~(k - 1 <= i - 1)
            /\ (k - 1) - (i - 1) \in 1 .. Len(files) - i /\ i + ((k - 1) - (i - 1)) = k
        BY <2>1, <3>3
      <4>2. (before \o after)[k - 1] = after[(k - 1) - (i - 1)]
        BY <2>6, <4>1
      <4> QED BY <2>5, <3>1, <4>1, <4>2
    <3>4. k < i \/ k > i
      <4>1. k # i
        BY <2>1, <2>7, <3>1
      <4> QED BY <2>1, <4>1
    <3> QED BY <3>2, <3>3, <3>4
  <2>8. /\ Without(e) \in Seq(Events) /\ Len(Without(e)) = Len(files) - 1
        /\ Len(Without(e)) \in Nat /\ Len(Without(e)) <= Len(files)
    BY <2>1, <2>2, <2>6
  <2>9. ASSUME NEW f, f # e, Present(f)
        PROVE  \E j \in 1 .. Len(Without(e)) : Without(e)[j] = f
    BY <2>2, <2>7, <2>8, <2>9
  <2> QED BY <2>8, <2>9
<1> QED BY <1>1, <1>2

(* A new file is the last one.                                             *)
LEMMA Added ==
  ASSUME files \in Seq(Events), NEW e \in Events, files' = Append(files, e)
  PROVE  /\ files' \in Seq(Events) /\ Len(files') = Len(files) + 1
         /\ \A f : Present(f) => Present(f)'
         /\ \E i \in 1 .. Len(files') : files'[i] = e
<1>1. /\ files' \in Seq(Events) /\ Len(files') = Len(files) + 1 /\ Len(files) \in Nat
      /\ \A i \in 1 .. Len(files) : files'[i] = files[i]
      /\ files'[Len(files) + 1] = e
  BY AppendProperties, LenProperties
<1> QED BY <1>1 DEF Present, Places

-----------------------------------------------------------------------------
(* Types, and what the position of a request says about its events.        *)

(* At the start no request has a place, a file or an answer.               *)
LEMMA OrderInit == Init => Order
<1> SUFFICES ASSUME Init PROVE Order
  OBVIOUS
<1>1. <<>> \in Seq(Events)
  BY EmptySeq
<1>2. 0 \in 0 .. RecordLimit /\ 0 \in 0 .. MaxFaults
  BY PipelineAssumption
<1>3. last \in [Requests -> BOOLEAN] /\ litter \in BOOLEAN
  BY Zenon DEF Init
<1>4. TypeOK
  BY <1>1, <1>2, <1>3, PipelineAssumption DEF Init, TypeOK, Log!Init, Senders
<1>5. Progress /\ Answers
  BY DEF Init, Progress, Answers, Recording, Senders
<1> QED BY <1>4, <1>5 DEF Order

(* What an actor has on the wire is an event.                              *)
LEMMA SentIsEvent ==
  ASSUME Order
  PROVE  /\ \A r \in Requests : pc[r] \in Recording => Current(r) \in Events
         /\ \A s \in Senders : wire[s] # "none" => EventOf(s) \in Events
<1>1. ASSUME NEW r \in Requests, pc[r] \in Recording PROVE Current(r) \in Events
  BY <1>1, PipelineAssumption DEF Order, TypeOK, Progress, Current, Events
<1>2. ASSUME NEW s \in Senders, wire[s] # "none" PROVE EventOf(s) \in Events
  <2>1. CASE s = Replay
    BY <1>2, <2>1, HeadTailProperties DEF Order, TypeOK, Answers, EventOf
  <2>2. CASE s # Replay
    <3>1. s \in Requests /\ pc[s] \in Recording
      BY <1>2, <2>2 DEF Senders, Order, Answers, Recording
    <3> QED BY <1>1, <2>2, <3>1 DEF EventOf
  <2> QED BY <2>1, <2>2
<1> QED BY <1>1, <1>2

(* The places of a request are given, taken one by one, or taken back.     *)
PlacesChange(r) ==
  \/ places' = places
  \/ places' = [places EXCEPT ![r] = 0]
  \/ places[r] > 0 /\ places' = [places EXCEPT ![r] = @ - 1]
  \/ places' = [places EXCEPT ![r] = RecordLimit]

LEMMA PlacesTyped ==
  ASSUME TypeOK, NEW r \in Requests, PlacesChange(r)
  PROVE  /\ places' \in [Requests -> 0 .. RecordLimit]
         /\ \A q \in Requests \ {r} : places'[q] = places[q]
<1>1. /\ places \in [Requests -> 0 .. RecordLimit] /\ places[r] \in 0 .. RecordLimit
      /\ RecordLimit \in Nat
  BY PipelineAssumption DEF TypeOK
<1>2. ASSUME NEW v \in 0 .. RecordLimit, places' = [places EXCEPT ![r] = v]
      PROVE  /\ places' \in [Requests -> 0 .. RecordLimit]
             /\ \A q \in Requests \ {r} : places'[q] = places[q]
  BY <1>1, <1>2
<1>3. CASE places' = places
  BY <1>1, <1>3
<1>4. CASE places' = [places EXCEPT ![r] = 0]
  BY <1>1, <1>2, <1>4
<1>5. CASE places[r] > 0 /\ places' = [places EXCEPT ![r] = @ - 1]
  <2>1. places[r] - 1 \in 0 .. RecordLimit
    BY <1>1, <1>5
  <2> QED BY <1>2, <1>5, <2>1
<1>6. CASE places' = [places EXCEPT ![r] = RecordLimit]
  BY <1>1, <1>2, <1>6
<1> QED BY <1>3, <1>4, <1>5, <1>6 DEF PlacesChange

(* Every step keeps the types, and each position its meaning.              *)
LEMMA OrderStep == Order /\ [Next]_vars => Order'
<1> SUFFICES ASSUME Order, [Next]_vars PROVE Order'
  OBVIOUS
<1> TypeOK /\ Progress /\ Answers
  BY DEF Order
<1> USE PipelineAssumption DEF app, disk, delivery, collector, history, Order
<1>0. /\ files \in Seq(Events) /\ batch \in Seq(Events)
      /\ \A s \in Senders : wire[s] # "none" => EventOf(s) \in Events
      /\ \A r \in Requests : pc[r] \in Recording => Current(r) \in Events
  BY SentIsEvent DEF TypeOK
<1>1. CASE UNCHANGED vars
  BY <1>1 DEF vars, TypeOK, Progress, Answers, Current, Event
<1>2. ASSUME NEW r \in Requests, Admit(r) PROVE Order'
  <2>1. /\ UNCHANGED <<disk, delivery, wire, collector, accepted, litter, faults>>
        /\ nr' = [nr EXCEPT ![r] = @ + 1]
        /\ pc[r] \in {"new", "run"}
    BY <1>2 DEF Admit
  <2>2. /\ last' = last \/ (pc[r] = "run" /\ last' = [last EXCEPT ![r] = TRUE])
        /\ last'[r] \/ nr[r] + 1 < RecordLimit
        /\ nr[r] < RecordLimit
    BY <1>2 DEF Admit, TypeOK, Progress, Recording
  <2>3. \/ /\ pc' = [pc EXCEPT ![r] = "write"] /\ busy' = r
           /\ places' = places \/ places' = [places EXCEPT ![r] = RecordLimit]
           /\ turnedAway' = turnedAway
        \/ /\ pc' = [pc EXCEPT ![r] = "done"] \/ (pc' = [pc EXCEPT ![r] = "run"] /\ ~last'[r])
           /\ UNCHANGED <<busy, places>>
           /\ turnedAway' = turnedAway \/ turnedAway' = turnedAway \cup {r}
    BY <1>2 DEF Admit, Goto, Failed
  <2>4. last' \in [Requests -> BOOLEAN]
    BY <2>2, Zenon DEF TypeOK
  <2>5. nr' \in [Requests -> 0 .. RecordLimit]
    BY <2>1, <2>2 DEF TypeOK
  <2>6. /\ pc' \in [Requests -> {"new", "write", "settle", "deliver", "await", "run", "done"}]
        /\ busy' \in Requests \cup {NoOne} /\ places' \in [Requests -> 0 .. RecordLimit]
        /\ turnedAway' \subseteq Requests
    <3>1. pc' \in [Requests -> {"new", "write", "settle", "deliver", "await", "run", "done"}]
      BY <2>3 DEF TypeOK
    <3>2. busy' \in Requests \cup {NoOne} /\ turnedAway' \subseteq Requests
      BY <2>3 DEF TypeOK
    <3>3. places' \in [Requests -> 0 .. RecordLimit]
      BY <2>3, PlacesTyped DEF PlacesChange
    <3> QED BY <3>1, <3>2, <3>3
  <2>7. TypeOK'
    BY <2>1, <2>4, <2>5, <2>6 DEF TypeOK
  <2>8. Progress'
    <3> SUFFICES ASSUME NEW q \in Requests
                 PROVE /\ pc'[q] = "new" => nr'[q] = 0 /\ ~last'[q] /\ places'[q] = 0
                       /\ pc'[q] \in Recording => nr'[q] >= 1 /\ (last'[q] \/ nr'[q] < RecordLimit)
                       /\ pc'[q] = "run" => ~last'[q]
      BY DEF Progress
    <3>1. CASE q # r
      <4>1. pc'[q] = pc[q] /\ nr'[q] = nr[q] /\ places'[q] = places[q]
        BY <2>1, <2>3, <3>1, PlacesTyped DEF TypeOK, PlacesChange
      <4>2. last'[q] = last[q]
        BY <2>2, <3>1 DEF TypeOK
      <4> QED BY <4>1, <4>2 DEF Progress
    <3>2. CASE q = r
      <4>1. nr'[r] = nr[r] + 1 /\ nr[r] \in Nat
        BY <2>1 DEF TypeOK
      <4>2. pc'[r] \in {"write", "done"} \/ (pc'[r] = "run" /\ ~last'[r])
        BY <2>3 DEF TypeOK
      <4> QED BY <2>2, <3>2, <4>1, <4>2
    <3> QED BY <3>1, <3>2
  <2>9. wire[r] = "none"
    BY <2>1 DEF Answers
  <2>10. Answers'
    BY <2>1, <2>3, <2>9 DEF Answers, TypeOK, Current
  <2> QED BY <2>7, <2>8, <2>10
<1>3. ASSUME NEW r \in Requests, Write(r) PROVE Order'
  <2>1. /\ UNCHANGED <<nr, last, delivery, wire, collector, accepted, turnedAway>>
        /\ pc[r] = "write" /\ busy' \in {busy, NoOne}
    BY <1>3 DEF Write
  <2>2. /\ \/ pc' = [pc EXCEPT ![r] = "settle"] \/ pc' = [pc EXCEPT ![r] = "done"]
           \/ pc' = [pc EXCEPT ![r] = "run"] /\ ~last[r]
        /\ files' = files \/ files' = Append(files, Current(r))
        /\ temps' = temps \/ temps' = temps \cup {Current(r)}
        /\ faults' \in 0 .. MaxFaults
        /\ \/ places' = places \/ places' = [places EXCEPT ![r] = 0]
           \/ places[r] > 0 /\ places' = [places EXCEPT ![r] = @ - 1]
    BY <1>3 DEF Write, Goto, Failed, Fault, PlacesAfterError, TypeOK
  <2>3. litter' \in BOOLEAN
    BY <1>3, Zenon DEF Write, TypeOK
  <2>4. files' \in Seq(Events) /\ temps' \subseteq Events
    <3>1. Current(r) \in Events
      BY <1>0, <2>1 DEF Recording
    <3> QED BY <2>2, <3>1, Added DEF TypeOK
  <2>5. /\ pc' \in [Requests -> {"new", "write", "settle", "deliver", "await", "run", "done"}]
        /\ busy' \in Requests \cup {NoOne} /\ places' \in [Requests -> 0 .. RecordLimit]
    BY <2>1, <2>2, PlacesTyped DEF TypeOK, PlacesChange
  <2>6. TypeOK'
    BY <2>1, <2>2, <2>3, <2>4, <2>5 DEF TypeOK
  <2>7. Progress'
    BY <2>1, <2>2 DEF TypeOK, Progress, Recording
  <2>8. wire[r] = "none"
    BY <2>1 DEF Answers
  <2>9. Answers'
    BY <2>1, <2>2, <2>8 DEF Answers, TypeOK, Current
  <2> QED BY <2>6, <2>7, <2>9
<1>4. ASSUME NEW r \in Requests, Settle(r) PROVE Order'
  <2>1. /\ UNCHANGED <<nr, last, disk, delivery, wire, collector, turnedAway, litter>>
        /\ pc[r] = "settle" /\ busy' = NoOne
    BY <1>4 DEF Settle
  <2>2. /\ \/ pc' = [pc EXCEPT ![r] = "deliver"] \/ pc' = [pc EXCEPT ![r] = "done"]
           \/ pc' = [pc EXCEPT ![r] = "run"] /\ ~last[r]
        /\ accepted' = accepted \/ accepted' = accepted \cup {Current(r)}
        /\ faults' \in 0 .. MaxFaults
        /\ \/ places' = places \/ places' = [places EXCEPT ![r] = 0]
           \/ places[r] > 0 /\ places' = [places EXCEPT ![r] = @ - 1]
    <3>1. \/ places' = places \/ places' = [places EXCEPT ![r] = 0]
          \/ places[r] > 0 /\ places' = [places EXCEPT ![r] = @ - 1]
      <4>1. PlacesAfter(r) = [places EXCEPT ![r] = 0]
            \/ PlacesAfter(r) = places
            \/ (places[r] > 0 /\ PlacesAfter(r) = [places EXCEPT ![r] = @ - 1])
        BY DEF PlacesAfter, TypeOK
      <4> QED BY <1>4, <4>1 DEF Settle, PlacesAfterError
    <3>2. /\ pc' = [pc EXCEPT ![r] = "deliver"] \/ pc' = [pc EXCEPT ![r] = "done"]
             \/ (pc' = [pc EXCEPT ![r] = "run"] /\ ~last[r])
          /\ accepted' = accepted \/ accepted' = accepted \cup {Current(r)}
      BY <1>4 DEF Settle, Goto, Failed
    <3>3. faults' \in 0 .. MaxFaults
      <4>1. faults' = faults \/ (faults < MaxFaults /\ faults' = faults + 1)
        BY <1>4 DEF Settle, Fault
      <4> QED BY <4>1 DEF TypeOK
    <3> QED BY <3>1, <3>2, <3>3
  <2>3. Current(r) \in Events
    BY <1>0, <2>1 DEF Recording
  <2>4. /\ pc' \in [Requests -> {"new", "write", "settle", "deliver", "await", "run", "done"}]
        /\ places' \in [Requests -> 0 .. RecordLimit]
    BY <2>1, <2>2, PlacesTyped DEF TypeOK, PlacesChange
  <2>5. TypeOK'
    BY <2>1, <2>2, <2>3, <2>4 DEF TypeOK
  <2>6. Progress'
    BY <2>1, <2>2 DEF TypeOK, Progress, Recording
  <2>7. wire[r] = "none"
    BY <2>1 DEF Answers
  <2>8. Answers'
    BY <2>1, <2>2, <2>7 DEF Answers, TypeOK, Current
  <2> QED BY <2>5, <2>6, <2>8
<1>5. ASSUME NEW r \in Requests, Deliver(r) PROVE Order'
  <2>1. /\ UNCHANGED <<nr, last, busy, places, disk, delivery, collector, history, faults>>
        /\ pc[r] = "deliver"
        /\ \/ pc' = [pc EXCEPT ![r] = "await"] /\ wire' = [wire EXCEPT ![r] = "sent"]
           \/ /\ wire' = wire
              /\ pc' = [pc EXCEPT ![r] = "done"] \/ (pc' = [pc EXCEPT ![r] = "run"] /\ ~last[r])
    BY <1>5 DEF Deliver, Goto, Resume
  <2>2. /\ pc' \in [Requests -> {"new", "write", "settle", "deliver", "await", "run", "done"}]
        /\ wire' \in [Senders -> {"none", "sent", "acked", "failed"}]
    BY <2>1 DEF TypeOK
  <2>3. TypeOK'
    BY <2>1, <2>2 DEF TypeOK
  <2>4. Progress'
    BY <2>1 DEF TypeOK, Progress, Recording
  <2>5. wire[r] = "none" /\ r # Replay /\ r \in Senders
    BY <2>1 DEF Answers, Senders
  <2>6. Answers'
    <3>1. wire'[Replay] = wire[Replay] /\ \A q \in Requests \ {r} : wire'[q] = wire[q]
      BY <2>1, <2>5 DEF TypeOK, Senders
    <3>2. \A q \in Requests \ {r} : pc'[q] = pc[q]
      BY <2>1 DEF TypeOK
    <3>3. wire'[r] # "acked" /\ (wire'[r] # "none" => pc'[r] = "await")
      BY <2>1, <2>5 DEF TypeOK
    <3> QED BY <2>1, <3>1, <3>2, <3>3 DEF Answers, Current
  <2> QED BY <2>3, <2>4, <2>6
<1>6. ASSUME NEW r \in Requests, Finish(r) PROVE Order'
  <2>1. /\ UNCHANGED <<nr, last, busy, places, temps, delivery, collector, history, faults>>
        /\ pc[r] = "await" /\ wire' = [wire EXCEPT ![r] = "none"]
        /\ pc' = [pc EXCEPT ![r] = "done"] \/ (pc' = [pc EXCEPT ![r] = "run"] /\ ~last[r])
    BY <1>6 DEF Finish, Goto, Resume
  <2>2. /\ pc' \in [Requests -> {"new", "write", "settle", "deliver", "await", "run", "done"}]
        /\ wire' \in [Senders -> {"none", "sent", "acked", "failed"}]
    BY <2>1 DEF TypeOK
  <2>3. files' \in Seq(Events)
    BY <1>0, <1>6, Removed DEF Finish
  <2>4. TypeOK'
    BY <2>1, <2>2, <2>3 DEF TypeOK
  <2>5. Progress'
    BY <2>1 DEF TypeOK, Progress, Recording
  <2>6. r # Replay /\ r \in Senders
    BY DEF Senders
  <2>7. Answers'
    BY <2>1, <2>6 DEF Answers, TypeOK, Current
  <2> QED BY <2>4, <2>5, <2>7
<1>7. CASE StartReplay
  <2>1. \A i \in 1 .. Len(files) : files[i] \in Events
    BY <1>0, ElementOfSeq
  <2>2. BatchLength \in Nat /\ BatchLength <= Len(files)
    BY <1>0, LenProperties DEF BatchLength
  <2>3. Due \in Seq(Events)
    BY <2>1, <2>2, SubSeqProperties DEF Due
  <2>4. TypeOK'
    BY <1>7, <2>3 DEF StartReplay, TypeOK
  <2>5. Progress'
    BY <1>7 DEF StartReplay, Progress
  <2>6. Answers'
    BY <1>7 DEF StartReplay, Answers, Current
  <2> QED BY <2>4, <2>5, <2>6
<1>8. batch # <<>> => Tail(batch) \in Seq(Events)
  BY <1>0, HeadTailProperties
<1>9. Replay \in Senders /\ Replay \notin Requests
  BY DEF Senders
<1>10. CASE ReplayNext
  <2>1. UNCHANGED <<app, disk, collector, history, faults>> /\ replaying = "deliver"
    BY <1>10 DEF ReplayNext
  <2>2. \/ replaying' = "idle" /\ UNCHANGED <<batch, wire>>
        \/ batch # <<>> /\ batch' = Tail(batch) /\ UNCHANGED <<replaying, wire>>
        \/ /\ batch # <<>> /\ batch' = batch
           /\ wire' = [wire EXCEPT ![Replay] = "sent"] /\ replaying' = "await"
    BY <1>10 DEF ReplayNext
  <2>3. batch' \in Seq(Events)
    BY <1>0, <1>8, <2>2
  <2>4. /\ wire' \in [Senders -> {"none", "sent", "acked", "failed"}]
        /\ replaying' \in {"idle", "deliver", "await"}
    BY <2>2 DEF TypeOK
  <2>5. TypeOK'
    BY <2>1, <2>3, <2>4 DEF TypeOK
  <2>6. Progress'
    BY <2>1 DEF Progress
  <2>7. wire[Replay] = "none"
    BY <2>1 DEF Answers
  <2>8. Answers'
    <3>1. \A q \in Requests : wire'[q] = wire[q]
      BY <1>9, <2>2 DEF TypeOK, Senders
    <3>2. /\ replaying' = "await" => batch' # <<>>
          /\ wire'[Replay] # "none" => replaying' = "await"
          /\ wire'[Replay] # "acked"
      BY <1>9, <2>1, <2>2, <2>7 DEF TypeOK
    <3> QED BY <2>1, <3>1, <3>2 DEF Answers, Current
  <2> QED BY <2>5, <2>6, <2>8
<1>11. CASE ReplayFinish
  <2>1. /\ UNCHANGED <<app, temps, collector, history, faults>>
        /\ replaying = "await" /\ replaying' = "deliver"
        /\ wire' = [wire EXCEPT ![Replay] = "none"]
        /\ \/ files' = Without(Head(batch)) /\ batch' = Tail(batch)
           \/ files' = files /\ batch' = <<>>
    BY <1>11 DEF ReplayFinish
  <2>2. batch # <<>>
    BY <2>1 DEF Answers
  <2>3. files' \in Seq(Events) /\ batch' \in Seq(Events)
    BY <1>0, <1>8, <2>1, <2>2, Removed, EmptySeq
  <2>4. wire' \in [Senders -> {"none", "sent", "acked", "failed"}]
    BY <2>1 DEF TypeOK
  <2>5. TypeOK'
    BY <2>1, <2>3, <2>4 DEF TypeOK
  <2>6. Progress'
    BY <2>1 DEF Progress
  <2>7. Answers'
    BY <1>9, <2>1 DEF Answers, Current, TypeOK
  <2> QED BY <2>5, <2>6, <2>7
<1>12. CASE ReplayStops
  <2>1. /\ UNCHANGED <<app, disk, collector, history>> /\ replaying' = "idle"
        /\ batch' = <<>> /\ wire' = [wire EXCEPT ![Replay] = "none"]
        /\ faults' \in 0 .. MaxFaults
    BY <1>12 DEF ReplayStops, Fault, TypeOK
  <2>2. batch' \in Seq(Events) /\ wire' \in [Senders -> {"none", "sent", "acked", "failed"}]
    BY <2>1, EmptySeq DEF TypeOK
  <2>3. TypeOK'
    BY <2>1, <2>2 DEF TypeOK
  <2>4. Progress' /\ Answers'
    BY <1>9, <2>1 DEF Progress, Answers, Current, TypeOK
  <2> QED BY <2>3, <2>4
<1>13. CASE Crash
  <2>1. /\ UNCHANGED <<nr, last, delivery, collector, history>>
        /\ pc' = [r \in Requests |-> IF pc[r] = "new" THEN "new" ELSE "done"]
        /\ busy' = NoOne /\ places' = [r \in Requests |-> 0]
        /\ wire' = [s \in Senders |-> IF s = Replay THEN wire[s] ELSE "none"]
        /\ faults' \in 0 .. MaxFaults
    BY <1>13 DEF Crash, Fault, TypeOK
  <2>2. temps' \subseteq Events
    BY <1>0, <1>13 DEF Crash, TypeOK, Recording
  <2>3. files' \in Seq(Events)
    BY <1>0, <1>13, Removed DEF Crash
  <2>4. /\ pc' \in [Requests -> {"new", "write", "settle", "deliver", "await", "run", "done"}]
        /\ places' \in [Requests -> 0 .. RecordLimit]
        /\ wire' \in [Senders -> {"none", "sent", "acked", "failed"}]
    BY <2>1 DEF TypeOK
  <2>5. TypeOK'
    BY <2>1, <2>2, <2>3, <2>4 DEF TypeOK
  <2>6. Progress'
    BY <2>1 DEF Progress, Recording
  <2>7. Answers'
    BY <1>9, <2>1 DEF Answers, Senders
  <2> QED BY <2>5, <2>6, <2>7
<1>14. ASSUME NEW s \in Senders, Collected(s) \/ Uncollected(s) PROVE Order'
  <2>1. /\ UNCHANGED <<app, disk, delivery, history, faults>> /\ wire[s] = "sent"
        /\ \/ wire' = [wire EXCEPT ![s] = "acked"] /\ EventOf(s) \in log'
           \/ wire' = [wire EXCEPT ![s] = "failed"]
        /\ log' = log \/ log' = log \cup {EventOf(s)}
        /\ acks' = acks \/ acks' = acks \cup {EventOf(s)}
    BY <1>14 DEF Collected, Uncollected, Log!Record, Log!Acknowledge, Log!Recorded
  <2>2. EventOf(s) \in Events
    BY <1>0, <2>1
  <2>3. /\ log' \subseteq Events /\ acks' \subseteq Events
        /\ wire' \in [Senders -> {"none", "sent", "acked", "failed"}]
    BY <2>1, <2>2 DEF TypeOK
  <2>4. TypeOK'
    BY <2>1, <2>3 DEF TypeOK
  <2>5. Progress'
    BY <2>1 DEF Progress
  <2>6. Answers'
    BY <1>9, <2>1 DEF Answers, Current, EventOf, TypeOK, Senders
  <2> QED BY <2>4, <2>5, <2>6
<1> QED
  BY <1>1, <1>2, <1>3, <1>4, <1>5, <1>6, <1>7, <1>10, <1>11, <1>12, <1>13, <1>14
  DEF Next, RequestStep, ReplayStep

-----------------------------------------------------------------------------
(* No accepted event is lost.                                              *)

(* What has been accepted stays behind what a request is writing.          *)
LEMMA ReceiptsKept ==
  ASSUME TypeOK, TypeOK', Receipts, accepted' = accepted,
         \A q \in Requests :
           /\ nr[q] <= nr'[q]
           /\ pc'[q] \in Writing => pc[q] \in Writing \/ nr[q] < nr'[q]
  PROVE  Receipts'
<1> SUFFICES ASSUME NEW q \in Requests, NEW n \in 1 .. RecordLimit, Event(q, n) \in accepted
             PROVE  n <= nr'[q] /\ (pc'[q] \in Writing => n < nr'[q])
  BY DEF Receipts, Event
<1>1. nr[q] \in Nat /\ nr'[q] \in Nat /\ n \in Nat
  BY PipelineAssumption DEF TypeOK
<1> QED BY <1>1 DEF Receipts

(* Files that go are those of recorded events, or of events nobody waits   *)
(* for any more.                                                           *)
LEMMA KeptIf ==
  ASSUME NothingLost, Renamed, accepted' = accepted, log \subseteq log',
         \A q \in Requests : pc'[q] = "settle" => pc[q] = "settle" /\ nr'[q] = nr[q],
         \A e : Present(e) =>
           \/ Present(e)' \/ e \in log'
           \/ e \notin accepted /\ \A q \in Requests : pc'[q] # "settle"
  PROVE  NothingLost' /\ Renamed'
<1>1. NothingLost'
  BY DEF NothingLost, Log!Recorded
<1>2. ASSUME NEW q \in Requests, pc'[q] = "settle"
      PROVE  Present(Current(q))' \/ Current(q)' \in log'
  <2>1. Current(q)' = Current(q) /\ (Present(Current(q)) \/ Current(q) \in log)
    BY <1>2 DEF Renamed, Current, Event
  <2>2. Present(Current(q)) => Present(Current(q))' \/ Current(q) \in log'
    BY <1>2, <2>1 DEF Present, Places
  <2> QED BY <2>1, <2>2
<1> QED BY <1>1, <1>2 DEF Renamed

(* What another name leaves in the outbox.                                 *)
LEMMA OthersStay ==
  ASSUME TypeOK, NEW e, files' = Without(e), NEW f, f # e, Present(f)
  PROVE  Present(f)'
BY Removed DEF TypeOK, Present, Places

(* No step of any request, replay or crash loses an accepted event.        *)
LEMMA LosslessStep == Order /\ Order' /\ Lossless /\ [Next]_vars => Lossless'
<1> SUFFICES ASSUME Order, Order', Lossless, [Next]_vars PROVE Lossless'
  OBVIOUS
<1> TypeOK /\ TypeOK' /\ Progress /\ Answers /\ Receipts /\ NothingLost /\ Renamed
  BY DEF Order, Lossless
<1> USE PipelineAssumption DEF app, disk, delivery, collector, history
<1>0. \A q \in Requests : nr[q] \in Nat
  BY DEF TypeOK
<1>1. ASSUME UNCHANGED <<nr, accepted>>, \A q \in Requests : pc'[q] \in Writing => pc[q] \in Writing
      PROVE  Receipts'
  BY <1>0, <1>1, ReceiptsKept
<1>2. ASSUME UNCHANGED <<files, accepted>>, log \subseteq log',
             \A q \in Requests : pc'[q] = "settle" => pc[q] = "settle" /\ nr'[q] = nr[q]
      PROVE  NothingLost' /\ Renamed'
  BY <1>2, KeptIf DEF Present, Places
<1>3. CASE UNCHANGED vars
  BY <1>1, <1>2, <1>3 DEF vars, Lossless
<1>4. ASSUME NEW r \in Requests, Admit(r) PROVE Lossless'
  <2>1. /\ UNCHANGED <<disk, collector, accepted>> /\ nr' = [nr EXCEPT ![r] = @ + 1]
        /\ \A q \in Requests \ {r} : pc'[q] = pc[q]
    BY <1>4 DEF Admit, Goto, Failed, TypeOK
  <2>2. Receipts'
    <3>1. nr'[r] = nr[r] + 1 /\ \A q \in Requests \ {r} : nr'[q] = nr[q]
      BY <2>1 DEF TypeOK
    <3> QED BY <1>0, <2>1, <3>1, ReceiptsKept
  <2>3. \A q \in Requests : pc'[q] = "settle" => pc[q] = "settle" /\ nr'[q] = nr[q]
    <3>1. pc'[r] # "settle"
      BY <1>4 DEF Admit, Goto, Failed, TypeOK
    <3> QED BY <2>1, <3>1 DEF TypeOK
  <2> QED BY <1>2, <2>1, <2>2, <2>3 DEF Lossless
<1>5. ASSUME NEW r \in Requests, Write(r) PROVE Lossless'
  <2>1. UNCHANGED <<nr, accepted, log>> /\ pc[r] = "write"
    BY <1>5 DEF Write
  <2>2. \A q \in Requests \ {r} : pc'[q] = pc[q]
    BY <1>5 DEF Write, Goto, Failed, TypeOK
  <2>3. Receipts'
    BY <1>1, <2>1, <2>2 DEF Writing
  <2>4. CASE files' = files /\ pc'[r] # "settle"
    BY <1>2, <2>1, <2>2, <2>3, <2>4 DEF Lossless
  <2>5. CASE files' = Append(files, Current(r))
    <3>1. Current(r) \in Events
      BY <2>1, SentIsEvent DEF Recording
    <3>5. /\ \A f : Present(f) => Present(f)'
          /\ \E i \in 1 .. Len(files') : files'[i] = Current(r)
      BY <2>5, <3>1, Added DEF TypeOK
    <3>6. Current(r)' = Current(r)
      BY <2>1 DEF Current, Event
    <3>2. Present(Current(r))' /\ \A f : Present(f) => Present(f)'
      BY <3>5, <3>6 DEF Present, Places
    <3>3. NothingLost'
      BY <2>1, <3>2 DEF NothingLost, Log!Recorded
    <3>4. ASSUME NEW q \in Requests, pc'[q] = "settle"
          PROVE  Present(Current(q))' \/ Current(q)' \in log'
      <4>1. Current(q)' = Current(q)
        BY <2>1 DEF Current, Event
      <4>2. Present(Current(q))' \/ Current(q) \in log'
        BY <2>1, <2>2, <3>2, <3>4 DEF Renamed, Current, Event, Present, Places
      <4> QED BY <4>1, <4>2
    <3> QED BY <2>3, <3>3, <3>4 DEF Lossless, Renamed
  <2>6. pc'[r] = "settle" => files' = Append(files, Current(r))
    BY <1>5 DEF Write, Goto, Failed, TypeOK
  <2> QED BY <1>5, <2>4, <2>5, <2>6 DEF Write
<1>6. ASSUME NEW r \in Requests, Settle(r) PROVE Lossless'
  <2>1. UNCHANGED <<nr, files, log>> /\ pc[r] = "settle"
    BY <1>6 DEF Settle
  <2>2. /\ \A q \in Requests \ {r} : pc'[q] = pc[q]
        /\ pc'[r] \notin Writing
    BY <1>6 DEF Settle, Goto, Failed, TypeOK, Writing
  <2>6. \A q \in Requests : pc'[q] = "settle" => pc[q] = "settle" /\ nr'[q] = nr[q]
    BY <2>1, <2>2 DEF Writing
  <2>3. CASE accepted' = accepted
    BY <1>1, <1>2, <2>1, <2>2, <2>3, <2>6 DEF Lossless
  <2>4. CASE accepted' = accepted \cup {Current(r)}
    <3>1. Receipts'
      <4> SUFFICES ASSUME NEW q \in Requests, NEW n \in 1 .. RecordLimit, Event(q, n) \in accepted'
                   PROVE  n <= nr[q] /\ (pc'[q] \in Writing => n < nr[q])
        BY <2>1 DEF Receipts, Event
      <4>1. CASE Event(q, n) \in accepted
        BY <2>2, <4>1 DEF Receipts
      <4>2. CASE Event(q, n) = Current(r)
        <5>1. q = r /\ n = nr[r]
          BY <4>2, EventsDiffer DEF Current
        <5> QED BY <1>0, <2>2, <5>1
      <4> QED BY <2>4, <4>1, <4>2
    <3>2. NothingLost'
      BY <2>1, <2>4 DEF NothingLost, Renamed, Present, Places, Log!Recorded
    <3>3. Renamed'
      BY <2>1, <2>6 DEF Renamed, Present, Places, Current, Event
    <3> QED BY <3>1, <3>2, <3>3 DEF Lossless
  <2> QED BY <1>6, <2>3, <2>4 DEF Settle
<1>7. ASSUME NEW r \in Requests, Deliver(r) PROVE Lossless'
  <2>1. UNCHANGED <<nr, files, accepted, log>>
    BY <1>7 DEF Deliver
  <2>2. \A q \in Requests : pc'[q] \in Writing => pc[q] \in Writing
    BY <1>7 DEF Deliver, Goto, Resume, TypeOK, Writing
  <2>3. \A q \in Requests : pc'[q] = "settle" => pc[q] = "settle"
    BY <1>7 DEF Deliver, Goto, Resume, TypeOK
  <2> QED BY <1>1, <1>2, <2>1, <2>2, <2>3 DEF Lossless
<1>8. ASSUME NEW r \in Requests, Finish(r) PROVE Lossless'
  <2>1. UNCHANGED <<nr, accepted, log>>
    BY <1>8 DEF Finish
  <2>2. \A q \in Requests : pc'[q] \in Writing => pc[q] \in Writing
    BY <1>8 DEF Finish, Goto, Resume, TypeOK, Writing
  <2>5. \A q \in Requests : pc'[q] = "settle" => pc[q] = "settle"
    BY <1>8 DEF Finish, Goto, Resume, TypeOK
  <2>3. CASE files' = files
    BY <1>1, <1>2, <2>1, <2>2, <2>3, <2>5 DEF Lossless
  <2>4. CASE files' = Without(Current(r)) /\ Removable(wire[r])
    <3>1. Current(r) \in log
      BY <2>4 DEF Removable, Answers
    <3>2. NothingLost' /\ Renamed'
      BY <2>1, <2>4, <2>5, <3>1, OthersStay, KeptIf
    <3> QED BY <1>1, <2>1, <2>2, <3>2 DEF Lossless
  <2> QED BY <1>8, <2>3, <2>4 DEF Finish
<1>9. CASE ReplayFinish
  <2>1. UNCHANGED <<pc, nr, accepted, log>>
    BY <1>9 DEF ReplayFinish
  <2>2. CASE files' = files
    BY <1>1, <1>2, <2>1, <2>2 DEF Lossless
  <2>3. CASE files' = Without(Head(batch)) /\ Removable(wire[Replay])
    <3>1. Head(batch) \in log
      BY <2>3 DEF Removable, Answers
    <3>2. NothingLost' /\ Renamed'
      BY <2>1, <2>3, <3>1, OthersStay, KeptIf
    <3> QED BY <1>1, <2>1, <3>2 DEF Lossless
  <2> QED BY <1>9, <2>2, <2>3 DEF ReplayFinish
<1>10. CASE StartReplay \/ ReplayNext \/ ReplayStops
  <2>1. UNCHANGED <<pc, nr, files, accepted, log>>
    BY <1>10 DEF StartReplay, ReplayNext, ReplayStops
  <2> QED BY <1>1, <1>2, <2>1 DEF Lossless
<1>11. ASSUME NEW s \in Senders, Collected(s) \/ Uncollected(s) PROVE Lossless'
  <2>1. UNCHANGED <<pc, nr, files, accepted>> /\ log \subseteq log'
    BY <1>11 DEF Collected, Uncollected, Log!Record, Log!Acknowledge
  <2> QED BY <1>1, <1>2, <2>1 DEF Lossless
<1>12. CASE Crash
  <2>1. UNCHANGED <<nr, accepted, log>> /\ \A q \in Requests : pc'[q] \notin Writing
    BY <1>12 DEF Crash, Writing
  <2>2. CASE files' = files
    <3>1. \A q \in Requests : pc'[q] # "settle"
      BY <2>1 DEF Writing
    <3> QED BY <1>1, <1>2, <2>1, <2>2, <3>1 DEF Lossless
  <2>3. ASSUME NEW r \in Requests, pc[r] = "settle", files' = Without(Current(r)) PROVE Lossless'
    <3>1. nr[r] \in 1 .. RecordLimit
      BY <2>3 DEF TypeOK, Progress, Recording
    <3>2. Current(r) \notin accepted
      BY <2>3, <3>1 DEF Receipts, Current, Writing
    <3>3. NothingLost' /\ Renamed'
      <4>1. \A q \in Requests : pc'[q] # "settle"
        BY <2>1 DEF Writing
      <4> QED BY <2>1, <2>3, <3>2, <4>1, OthersStay, KeptIf
    <3> QED BY <1>1, <2>1, <3>3 DEF Lossless
  <2> QED BY <1>12, <2>2, <2>3 DEF Crash
<1> QED
  BY <1>3, <1>4, <1>5, <1>6, <1>7, <1>8, <1>9, <1>10, <1>11, <1>12
  DEF Next, RequestStep, ReplayStep

-----------------------------------------------------------------------------
(* Counting places and files.                                              *)

Counts == [Requests -> 0 .. RecordLimit]

(* Reserved places can be counted.                                         *)
LEMMA ReservedFinite ==
  ASSUME NEW p
  PROVE  IsFiniteSet(Reserved(p)) /\ Cardinality(Reserved(p)) \in Nat
<1>1. IsFiniteSet(1 .. RecordLimit)
  BY PipelineAssumption, FS_Interval
<1>2. IsFiniteSet(Requests \X (1 .. RecordLimit))
  BY <1>1, PipelineAssumption, FS_Product
<1> QED BY <1>2, FS_Subset, FS_CardinalityType DEF Reserved

(* Fewer places for each request are fewer in all.                         *)
LEMMA ReservedFewer ==
  ASSUME NEW p \in Counts, NEW q \in Counts, \A r \in Requests : q[r] <= p[r]
  PROVE  Cardinality(Reserved(q)) <= Cardinality(Reserved(p))
<1>1. Reserved(q) \subseteq Reserved(p)
  <2> SUFFICES ASSUME NEW s \in Reserved(q) PROVE s \in Reserved(p)
    OBVIOUS
  <2>1. s \in Requests \X (1 .. RecordLimit) /\ s[2] <= q[s[1]] /\ s[1] \in Requests
    BY DEF Reserved
  <2>2. q[s[1]] \in Nat /\ p[s[1]] \in Nat /\ s[2] \in Nat /\ q[s[1]] <= p[s[1]]
    BY <2>1, PipelineAssumption DEF Counts
  <2>3. s[2] <= p[s[1]]
    BY <2>1, <2>2
  <2> QED BY <2>1, <2>3 DEF Reserved
<1> QED BY <1>1, ReservedFinite, FS_Subset

(* A place taken from one request is one less.                             *)
LEMMA ReservedTaken ==
  ASSUME NEW p \in Counts, NEW r \in Requests, p[r] > 0
  PROVE  Cardinality(Reserved([p EXCEPT ![r] = @ - 1])) = Cardinality(Reserved(p)) - 1
<1> DEFINE q == [p EXCEPT ![r] = @ - 1]
<1>1. p[r] \in 1 .. RecordLimit /\ RecordLimit \in Nat
  BY PipelineAssumption DEF Counts
<1>2. <<r, p[r]>> \in Reserved(p)
  BY <1>1 DEF Reserved
<1>3. Reserved(q) = Reserved(p) \ {<<r, p[r]>>}
  <2> SUFFICES ASSUME NEW x \in Requests, NEW k \in 1 .. RecordLimit
               PROVE  k <= q[x] <=> k <= p[x] /\ <<x, k>> # <<r, p[r]>>
    BY DEF Reserved
  <2>1. CASE x = r
    BY <1>1, <2>1 DEF Counts
  <2>2. CASE x # r
    BY <2>2 DEF Counts
  <2> QED BY <2>1, <2>2
<1> HIDE DEF q
<1>4. Cardinality(Reserved(q)) = Cardinality(Reserved(p)) - 1
  BY <1>2, <1>3, ReservedFinite, FS_RemoveElement
<1> QED BY <1>4 DEF q

(* A request that starts adds its whole allowance.                         *)
LEMMA ReservedAll ==
  ASSUME NEW p \in Counts, NEW r \in Requests, p[r] = 0
  PROVE  Cardinality(Reserved([p EXCEPT ![r] = RecordLimit])) <= Cardinality(Reserved(p)) + RecordLimit
<1> DEFINE q == [p EXCEPT ![r] = RecordLimit]
           own == {r} \X (1 .. RecordLimit)
<1>0. RecordLimit \in Nat
  BY PipelineAssumption
<1>1. Reserved(q) \subseteq Reserved(p) \cup own
  BY <1>0 DEF Reserved, Counts
<1>2. IsFiniteSet(own) /\ Cardinality(own) = RecordLimit
  <2>1. IsFiniteSet(1 .. RecordLimit) /\ Cardinality(1 .. RecordLimit) = RecordLimit
    BY <1>0, FS_Interval
  <2>2. IsFiniteSet({r}) /\ Cardinality({r}) = 1
    BY FS_Singleton
  <2>3. /\ IsFiniteSet(own)
        /\ Cardinality(own) = Cardinality({r}) * Cardinality(1 .. RecordLimit)
    BY <2>1, <2>2, FS_Product
  <2> QED BY <1>0, <2>1, <2>2, <2>3
<1> HIDE DEF q, own
<1>3. /\ IsFiniteSet(Reserved(p) \cup own)
      /\ Cardinality(Reserved(p) \cup own)
           = Cardinality(Reserved(p)) + Cardinality(own) - Cardinality(Reserved(p) \cap own)
  BY <1>2, ReservedFinite, FS_Union
<1>4. Cardinality(Reserved(p) \cap own) \in Nat
  BY ReservedFinite, FS_Intersection, FS_CardinalityType
<1>5. Cardinality(Reserved(q)) <= Cardinality(Reserved(p) \cup own)
  BY <1>1, <1>3, FS_Subset
<1>6. Cardinality(Reserved(q)) <= Cardinality(Reserved(p)) + RecordLimit
  BY <1>0, <1>2, <1>3, <1>4, <1>5, ReservedFinite
<1> QED BY <1>6 DEF q

(* Without requests, nothing is reserved.                                  *)
LEMMA NothingReserved ==
  ASSUME NEW p \in Counts, \A r \in Requests : p[r] = 0
  PROVE  Cardinality(Reserved(p)) = 0
<1>1. Reserved(p) = {}
  BY DEF Reserved
<1> QED BY <1>1, FS_EmptySet

(* A request that leaves a place behind, or takes one, frees one.          *)
LEMMA PlaceFreed ==
  ASSUME TypeOK, TypeOK', NEW r \in Requests, places[r] > 0,
         \/ places' = [places EXCEPT ![r] = 0]
         \/ places' = [places EXCEPT ![r] = @ - 1]
  PROVE  Outstanding' <= Outstanding - 1 /\ Outstanding \in Nat /\ Outstanding' \in Nat
<1> DEFINE taken == [places EXCEPT ![r] = @ - 1]
<1>1. /\ places \in Counts /\ places' \in Counts /\ places[r] \in 1 .. RecordLimit
      /\ RecordLimit \in Nat
  BY PipelineAssumption DEF TypeOK, Counts
<1>2. taken \in Counts
  BY <1>1 DEF Counts
<1>3. \A q \in Requests : places'[q] <= taken[q]
  BY <1>1 DEF Counts
<1>4. Cardinality(Reserved(taken)) = Cardinality(Reserved(places)) - 1
  BY <1>1, ReservedTaken
<1> HIDE DEF taken
<1>5. Cardinality(Reserved(places')) <= Cardinality(Reserved(taken))
  BY <1>1, <1>2, <1>3, ReservedFewer
<1>6. Outstanding' = Cardinality(Reserved(places')) /\ Outstanding = Cardinality(Reserved(places))
  BY DEF Outstanding, Reserved
<1>7. /\ Cardinality(Reserved(places)) \in Nat /\ Cardinality(Reserved(places')) \in Nat
      /\ Cardinality(Reserved(taken)) \in Nat
  BY ReservedFinite
<1> QED BY <1>4, <1>5, <1>6, <1>7

(* A request with a place makes the count at least one.                    *)
LEMMA OutstandingBounds ==
  ASSUME TypeOK
  PROVE  /\ Outstanding \in Nat
         /\ \A r \in Requests : places[r] > 0 => Outstanding >= 1
<1>1. Outstanding \in Nat
  BY ReservedFinite DEF Outstanding
<1>2. ASSUME NEW r \in Requests, places[r] > 0 PROVE Outstanding >= 1
  <2>1. places \in Counts
    BY DEF TypeOK, Counts
  <2>2. Cardinality(Reserved([places EXCEPT ![r] = @ - 1])) = Outstanding - 1
    BY <1>2, <2>1, ReservedTaken DEF Outstanding
  <2>3. Cardinality(Reserved([places EXCEPT ![r] = @ - 1])) \in Nat
    BY ReservedFinite
  <2> QED BY <1>1, <2>2, <2>3
<1> QED BY <1>1, <1>2

(* Errors never add a reservation.                                         *)
LEMMA OutstandingFalls ==
  ASSUME TypeOK, TypeOK', \A r \in Requests : places'[r] <= places[r]
  PROVE  Outstanding' <= Outstanding /\ Outstanding' \in Nat /\ Outstanding \in Nat
<1>1. places \in Counts /\ places' \in Counts
  BY DEF TypeOK, Counts
<1>2. Cardinality(Reserved(places')) <= Cardinality(Reserved(places))
  BY <1>1, ReservedFewer
<1>3. Outstanding' = Cardinality(Reserved(places')) /\ Outstanding = Cardinality(Reserved(places))
  BY DEF Outstanding, Reserved
<1> QED BY <1>2, <1>3, ReservedFinite

(* The files of the outbox can be counted.                                 *)
LEMMA UsedNat ==
  ASSUME files \in Seq(Events), IsFiniteSet(temps)
  PROVE  Len(files) \in Nat /\ Cardinality(temps) \in Nat /\ Used \in Nat
<1>1. Len(files) \in Nat /\ Cardinality(temps) \in Nat
  BY LenProperties, FS_CardinalityType
<1> QED BY <1>1 DEF Used

(* One more temporary file counts at most once.                            *)
LEMMA OneMoreTemp ==
  ASSUME IsFiniteSet(temps), NEW e, temps' = temps \/ temps' = temps \cup {e}
  PROVE  IsFiniteSet(temps') /\ Cardinality(temps') \in Nat
         /\ Cardinality(temps') <= Cardinality(temps) + 1
<1>1. Cardinality(temps) \in Nat
  BY FS_CardinalityType
<1>2. IsFiniteSet(temps \cup {e}) /\ Cardinality(temps \cup {e}) \in {Cardinality(temps), Cardinality(temps) + 1}
  BY FS_AddElement
<1> QED BY <1>1, <1>2

-----------------------------------------------------------------------------
(* The limit of the outbox.                                                *)

(* An empty outbox is within its limit.                                    *)
LEMMA CapacityInit == Init => Capacity
<1> SUFFICES ASSUME Init PROVE Capacity
  OBVIOUS
<1>1. TypeOK
  BY OrderInit DEF Order
<1>2. Used = 0
  <2>1. Cardinality({}) = 0 /\ IsFiniteSet({}) /\ Len(<<>>) = 0
    BY FS_EmptySet, EmptySeq
  <2> QED BY <2>1 DEF Init, Used
<1>3. Outstanding = 0
  BY <1>1, NothingReserved DEF Init, Outstanding, Counts, TypeOK
<1>4. Serial /\ PlacesLeft
  BY PipelineAssumption DEF Init, Serial, PlacesLeft, Writing
<1>5. Room /\ Reservations
  BY <1>2, <1>3, FS_EmptySet, PipelineAssumption DEF Init, Room, Reservations
<1> QED BY <1>4, <1>5 DEF Capacity

(* Steps that touch no reservation, start no write and add no file.        *)
LEMMA CapacityStays ==
  ASSUME TypeOK, TypeOK', Capacity,
         UNCHANGED <<nr, last, busy, places, temps, turnedAway, litter>>,
         Len(files') <= Len(files),
         \A q \in Requests :
           \/ pc'[q] = pc[q]
           \/ pc[q] \notin Writing /\ pc'[q] \notin Writing
                /\ (pc'[q] \in {"deliver", "await", "run"} => pc[q] \in {"deliver", "await", "run"})
  PROVE  Capacity'
<1> Serial /\ Room /\ PlacesLeft /\ Reservations
  BY DEF Capacity
<1>1. Serial'
  BY DEF Serial
<1>2. Used \in Nat /\ Used' \in Nat /\ Used' <= Used
  <2>1. IsFiniteSet(temps')
    BY DEF Room
  <2>2. /\ Len(files') \in Nat /\ Cardinality(temps) \in Nat /\ Used' \in Nat
        /\ Len(files) \in Nat /\ Used \in Nat
    BY <2>1, UsedNat, LenProperties DEF TypeOK, Room, Used
  <2> QED BY <2>2 DEF Used
<1>3. \A q \in Requests : (pc'[q] = "write" <=> pc[q] = "write") /\ (pc'[q] = "settle" <=> pc[q] = "settle")
  BY DEF Writing
<1>4. Room'
  BY <1>2, <1>3, PipelineAssumption DEF Room
<1>5. PlacesLeft'
  BY <1>3 DEF PlacesLeft, Writing
<1>6. Outstanding' = Outstanding /\ Outstanding \in Nat
  BY OutstandingBounds DEF Outstanding, Reserved
<1>7. Reservations'
  <2>1. (\E q \in Requests : pc'[q] = "settle") <=> (\E q \in Requests : pc[q] = "settle")
    BY <1>3
  <2>2. MaxPending \in Nat
    BY PipelineAssumption
  <2>3. ~litter' => ~litter /\ turnedAway' = turnedAway
    OBVIOUS
  <2>4. \A m \in Nat : Used + Outstanding <= m => Used' + Outstanding' <= m
    <3>1. \A m, u, v, o \in Nat : u + o <= m /\ v <= u => v + o <= m
      OBVIOUS
    <3> QED BY <1>2, <1>6, <3>1, Zenon
  <2>5. MaxPending + 1 \in Nat /\ MaxPending + 0 \in Nat
    BY <2>2
  <2> QED BY <2>1, <2>3, <2>4, <2>5, Zenon DEF Reservations
<1> QED BY <1>1, <1>4, <1>5, <1>7 DEF Capacity

(* The check, the reservation, and the refusal of a request.               *)
LEMMA CapacityAdmit ==
  ASSUME Order, Order', Capacity, NEW r \in Requests, Admit(r)
  PROVE  Capacity'
<1> TypeOK /\ TypeOK' /\ Progress /\ Serial /\ Room /\ PlacesLeft /\ Reservations
  BY DEF Order, Capacity
<1>1. /\ UNCHANGED <<files, temps, litter>> /\ busy = NoOne
      /\ nr' = [nr EXCEPT ![r] = @ + 1] /\ pc[r] \in {"new", "run"}
      /\ pc[r] = "new" => last' = last
  BY DEF Admit, disk
<1>2. \A q \in Requests : pc[q] \notin Writing
  BY <1>1, PipelineAssumption DEF Serial
<1>3. \A q \in Requests \ {r} : pc'[q] = pc[q] /\ nr'[q] = nr[q] /\ last'[q] = last[q]
  <2>1. \A q \in Requests \ {r} : pc'[q] = pc[q] /\ nr'[q] = nr[q]
    BY DEF Admit, Goto, Failed, TypeOK
  <2>2. \A q \in Requests \ {r} : last'[q] = last[q]
    BY DEF Admit, TypeOK
  <2> QED BY <2>1, <2>2
<1>4. /\ nr'[r] = nr[r] + 1 /\ nr[r] \in Nat /\ places[r] \in Nat
      /\ RecordLimit \in Nat /\ RecordLimit >= 2
  BY <1>1, PipelineAssumption DEF TypeOK
<1>5. /\ pc[r] = "new" => nr[r] = 0 /\ places[r] = 0
      /\ pc[r] = "run" => nr[r] < RecordLimit /\ places[r] >= RecordLimit - nr[r]
  BY DEF Progress, PlacesLeft, Recording
<1>6. /\ Used \in Nat /\ Used' = Used /\ Outstanding \in Nat /\ MaxPending \in Nat
      /\ places[r] > 0 => Outstanding >= 1
  BY <1>1, UsedNat, OutstandingBounds, PipelineAssumption DEF TypeOK, Room, Used
<1>7. ~litter => turnedAway = {} /\ Used + Outstanding <= MaxPending
  BY <1>2, <1>6 DEF Reservations, Writing
<1>8. Additional(r) = IF pc[r] = "new" THEN RecordLimit ELSE IF places[r] > 0 THEN 0 ELSE 1
  BY DEF Additional, Starting
<1>9. CASE ~Full(r)
  <2>1. Used + Outstanding + Additional(r) <= MaxPending
    BY <1>4, <1>6, <1>8, <1>9 DEF Full
  <2>2. /\ busy' = r /\ pc' = [pc EXCEPT ![r] = "write"] /\ turnedAway' = turnedAway
        /\ places' = IF pc[r] = "new" THEN [places EXCEPT ![r] = RecordLimit] ELSE places
    BY <1>9 DEF Admit, Goto, Starting
  <2>3. pc'[r] = "write"
    BY <2>2 DEF TypeOK
  <2>4. Serial'
    BY <1>2, <1>3, <2>2, <2>3 DEF Serial, Writing
  <2>5. Used < MaxPending
    BY <1>4, <1>5, <1>6, <1>8, <2>1
  <2>6. Room'
    BY <1>1, <1>6, <2>5 DEF Room
  <2>7. PlacesLeft'
    <3>1. places'[r] >= RecordLimit - nr'[r] + 1
      BY <1>1, <1>4, <1>5, <2>2 DEF TypeOK
    <3>2. \A q \in Requests \ {r} : places'[q] = places[q]
      BY <2>2 DEF TypeOK
    <3> QED BY <1>3, <2>3, <3>1, <3>2 DEF PlacesLeft, Writing
  <2>8. Outstanding' <= Outstanding + (IF pc[r] = "new" THEN RecordLimit ELSE 0) /\ Outstanding' \in Nat
    <3>1. Outstanding' = Cardinality(Reserved(places')) /\ Outstanding' \in Nat
      BY ReservedFinite DEF Outstanding, Reserved
    <3>2. places \in Counts
      BY DEF TypeOK, Counts
    <3>3. CASE pc[r] = "new"
      BY <1>5, <2>2, <3>1, <3>2, <3>3, ReservedAll DEF Outstanding
    <3>4. CASE pc[r] # "new"
      <4>1. Outstanding' = Outstanding
        BY <2>2, <3>1, <3>4 DEF Outstanding
      <4> QED BY <1>6, <3>4, <4>1
    <3> QED BY <3>3, <3>4
  <2>9. Reservations'
    <3>1. ~\E q \in Requests : pc'[q] = "settle"
      BY <1>2, <1>3, <2>3 DEF Writing
    <3>2. ASSUME ~litter PROVE Used' + Outstanding' <= MaxPending
      <4>1. CASE pc[r] = "new"
        <5>1. Used + Outstanding + RecordLimit <= MaxPending /\ Outstanding' <= Outstanding + RecordLimit
          BY <1>8, <2>1, <2>8, <4>1
        <5>2. /\ Used' = Used /\ Used \in Nat /\ Outstanding \in Nat /\ Outstanding' \in Nat
              /\ RecordLimit \in Nat /\ MaxPending \in Nat
          BY <1>4, <1>6, <2>8
        <5>3. \A m, u, o, p, k \in Nat : u + o + k <= m /\ p <= o + k => u + p <= m
          OBVIOUS
        <5> QED BY <5>1, <5>2, <5>3, Zenon
      <4>2. CASE pc[r] # "new"
        <5>1. Used + Outstanding <= MaxPending /\ Outstanding' <= Outstanding
          BY <1>6, <1>7, <2>8, <3>2, <4>2
        <5> QED BY <1>6, <2>8, <5>1
      <4> QED BY <4>1, <4>2
    <3>3. ~litter' => ~litter /\ turnedAway' = {}
      BY <1>1, <1>7, <2>2
    <3>4. MaxPending \in Nat
      BY <1>6
    <3> QED BY <3>1, <3>2, <3>3, <3>4 DEF Reservations
  <2> QED BY <2>4, <2>6, <2>7, <2>9 DEF Capacity
<1>10. CASE Full(r)
  <2>1. /\ UNCHANGED <<busy, places>> /\ pc'[r] \in {"run", "done"}
        /\ pc[r] = "new" => pc'[r] = "done" /\ turnedAway' = turnedAway
    BY <1>10 DEF Admit, Goto, Failed, Starting, TypeOK
  <2>2. Serial'
    BY <1>2, <1>3, <2>1 DEF Serial, Writing
  <2>3. Room'
    BY <1>1, <1>3, <1>6, <2>1 DEF Room
  <2>4. PlacesLeft'
    <3>1. pc'[r] = "run" => places[r] >= RecordLimit - nr'[r]
      BY <1>1, <1>4, <1>5, <2>1
    <3> QED BY <1>3, <2>1, <3>1 DEF PlacesLeft, Writing
  <2>5. Reservations'
    <3>1. Outstanding' = Outstanding
      BY <2>1 DEF Outstanding, Reserved
    <3>2. ASSUME ~litter PROVE turnedAway' = {}
      <4>1. CASE pc[r] = "new"
        BY <1>7, <2>1, <3>2, <4>1
      <4>2. CASE pc[r] = "run"
        <5>1. places[r] > 0
          BY <1>4, <1>5, <4>2
        <5>2. Additional(r) = 0
          BY <1>8, <4>2, <5>1
        <5> QED BY <1>6, <1>7, <1>10, <3>2, <5>2 DEF Full
      <4> QED BY <1>1, <4>1, <4>2
    <3>3. ~litter => Used' + Outstanding' <= MaxPending
      BY <1>6, <1>7, <3>1
    <3>4. \A q \in Requests : pc'[q] # "settle"
      BY <1>2, <1>3, <2>1 DEF Writing
    <3> QED BY <1>1, <1>6, <3>1, <3>2, <3>3, <3>4 DEF Reservations
  <2> QED BY <2>2, <2>3, <2>4, <2>5 DEF Capacity
<1> QED BY <1>9, <1>10

(* The file, or what an error leaves of it.                                *)
LEMMA CapacityWrite ==
  ASSUME Order, Order', Capacity, NEW r \in Requests, Write(r)
  PROVE  Capacity'
<1> TypeOK /\ TypeOK' /\ Progress /\ Serial /\ Room /\ PlacesLeft /\ Reservations
  BY DEF Order, Capacity
<1>1. UNCHANGED <<nr, last, turnedAway>> /\ pc[r] = "write" /\ busy = r
  BY DEF Write, Serial, Writing
<1>2. \A q \in Requests \ {r} : pc[q] \notin Writing
  BY <1>1 DEF Serial
<1>3. \A q \in Requests \ {r} : pc'[q] = pc[q]
  BY DEF Write, Goto, Failed, TypeOK
<1>4. /\ nr[r] \in 1 .. RecordLimit /\ places[r] \in 1 .. RecordLimit /\ RecordLimit \in Nat
      /\ places[r] >= RecordLimit - nr[r] + 1 /\ MaxPending \in Nat
  BY <1>1, PipelineAssumption DEF TypeOK, Progress, PlacesLeft, Writing, Recording
<1>5. /\ Used \in Nat /\ Used < MaxPending /\ Len(files) \in Nat /\ Cardinality(temps) \in Nat
      /\ Used = Len(files) + Cardinality(temps) /\ Outstanding \in Nat
  BY <1>1, UsedNat, OutstandingBounds DEF TypeOK, Room, Used
<1>6. ~litter => turnedAway = {} /\ Used + Outstanding <= MaxPending
  <2>1. ~\E q \in Requests : pc[q] = "settle"
    BY <1>1, <1>2 DEF Writing
  <2> QED BY <1>4, <1>5, <2>1 DEF Reservations
<1>7. CASE files' = Append(files, Current(r)) /\ pc' = [pc EXCEPT ![r] = "settle"]
           /\ UNCHANGED <<busy, places, temps, litter>>
  <2>1. Len(files') = Len(files) + 1
    <3>1. Current(r) \in Events
      BY <1>1, SentIsEvent DEF Recording
    <3> QED BY <1>7, <3>1, Added DEF TypeOK
  <2>2. pc'[r] = "settle"
    BY <1>7 DEF TypeOK
  <2>3. Used' = Used + 1 /\ Outstanding' = Outstanding
    BY <1>5, <1>7, <2>1 DEF Used, Outstanding, Reserved
  <2>4. Serial'
    BY <1>1, <1>3, <1>7, <2>2 DEF Serial, Writing
  <2>5. Room'
    BY <1>2, <1>3, <1>4, <1>5, <1>7, <2>2, <2>3 DEF Room, Writing
  <2>6. PlacesLeft'
    BY <1>1, <1>3, <1>7, <2>2 DEF PlacesLeft, Writing
  <2>7. Reservations'
    <3>1. \E q \in Requests : pc'[q] = "settle"
      BY <2>2
    <3>2. \A u, o, m \in Nat : u + o <= m => (u + 1) + o <= m + 1
      OBVIOUS
    <3>3. ~litter' => Used' + Outstanding' <= MaxPending + 1
      BY <1>4, <1>5, <1>6, <1>7, <2>3, <3>2, Zenon
    <3>4. ~litter' => turnedAway' = {}
      BY <1>1, <1>6, <1>7
    <3> QED BY <3>1, <3>3, <3>4, Zenon DEF Reservations
  <2> QED BY <2>4, <2>5, <2>6, <2>7 DEF Capacity
<1>8. CASE /\ files' = files /\ Failed(r, First(r) \/ last[r]) /\ busy' = NoOne
           /\ places' = PlacesAfterError(r, FALSE)
           /\ \/ UNCHANGED <<temps, litter>>
              \/ temps' = temps \cup {Current(r)} /\ litter' = TRUE
  <2>1. pc'[r] \in {"run", "done"} /\ (pc'[r] = "run" => nr[r] # 1)
    BY <1>8 DEF Failed, Goto, First, TypeOK
  <2>2. /\ places' = places \/ (nr[r] = 1 /\ places' = [places EXCEPT ![r] = 0])
        /\ \A q \in Requests : places'[q] <= places[q]
        /\ \A q \in Requests \ {r} : places'[q] = places[q]
    <3>1. places' = places \/ (nr[r] = 1 /\ places' = [places EXCEPT ![r] = 0])
      BY <1>8 DEF PlacesAfterError, First
    <3>2. places \in [Requests -> Nat]
      BY PipelineAssumption DEF TypeOK
    <3>3. CASE places' = places
      BY <3>2, <3>3
    <3>4. CASE nr[r] = 1 /\ places' = [places EXCEPT ![r] = 0]
      BY <3>2, <3>4
    <3> QED BY <3>1, <3>3, <3>4
  <2>3. Serial'
    BY <1>2, <1>3, <1>8, <2>1, PipelineAssumption DEF Serial, Writing
  <2>4. IsFiniteSet(temps') /\ Used' \in Nat /\ Used' <= Used + 1
    <3>1. /\ IsFiniteSet(temps') /\ Cardinality(temps') \in Nat
          /\ Cardinality(temps') <= Cardinality(temps) + 1
      BY <1>8, OneMoreTemp DEF Room
    <3> QED BY <1>5, <1>8, <3>1 DEF Used
  <2>5. Room'
    BY <1>2, <1>3, <1>4, <1>5, <2>1, <2>4 DEF Room, Writing
  <2>6. PlacesLeft'
    <3>1. pc'[r] = "run" => places'[r] >= RecordLimit - nr'[r]
      BY <1>1, <1>4, <2>1, <2>2
    <3> QED BY <1>1, <1>3, <2>1, <2>2, <3>1 DEF PlacesLeft, Writing
  <2>7. Reservations'
    <3>1. Outstanding' <= Outstanding /\ Outstanding' \in Nat
      BY <2>2, OutstandingFalls
    <3>2. ~litter' => ~litter /\ Used' = Used
      BY <1>8 DEF Used
    <3>3. ~\E q \in Requests : pc'[q] = "settle"
      BY <1>2, <1>3, <2>1 DEF Writing
    <3> QED BY <1>1, <1>4, <1>5, <1>6, <3>1, <3>2, <3>3 DEF Reservations
  <2> QED BY <2>3, <2>5, <2>6, <2>7 DEF Capacity
<1> QED BY <1>7, <1>8 DEF Write, Goto

(* The end of a write: its place is used up.                               *)
LEMMA CapacitySettle ==
  ASSUME Order, Order', Capacity, NEW r \in Requests, Settle(r)
  PROVE  Capacity'
<1> TypeOK /\ TypeOK' /\ Progress /\ Serial /\ Room /\ PlacesLeft /\ Reservations
  BY DEF Order, Capacity
<1>1. /\ UNCHANGED <<nr, last, files, temps, turnedAway, litter>>
      /\ pc[r] = "settle" /\ busy = r /\ busy' = NoOne
  BY DEF Settle, Serial, Writing, disk
<1>2. \A q \in Requests \ {r} : pc[q] \notin Writing
  BY <1>1 DEF Serial
<1>3. /\ \A q \in Requests \ {r} : pc'[q] = pc[q]
      /\ pc'[r] \in {"deliver", "run", "done"}
      /\ pc'[r] = "run" => nr[r] # 1
  BY DEF Settle, Goto, Failed, First, TypeOK
<1>4. /\ nr[r] \in 1 .. RecordLimit /\ places[r] \in 1 .. RecordLimit /\ RecordLimit \in Nat
      /\ places[r] >= RecordLimit - nr[r] + 1 /\ MaxPending \in Nat
  BY <1>1, PipelineAssumption DEF TypeOK, Progress, PlacesLeft, Writing, Recording
<1>5. \/ places' = [places EXCEPT ![r] = @ - 1]
      \/ /\ places' = [places EXCEPT ![r] = 0]
         /\ pc'[r] = "done" \/ last[r]
  <2>1. CASE places' = PlacesAfter(r)
    <3>1. CASE last[r]
      BY <2>1, <3>1 DEF PlacesAfter
    <3>2. CASE ~last[r]
      <4>1. places[r] > 0
        BY <1>4
      <4>2. places' = [places EXCEPT ![r] = IF places[r] > 0 THEN places[r] - 1 ELSE places[r]]
        BY <2>1, <3>2 DEF PlacesAfter, TypeOK
      <4> QED BY <4>1, <4>2
    <3> QED BY <3>1, <3>2
  <2>2. CASE places' = PlacesAfterError(r, TRUE) /\ Failed(r, First(r) \/ last[r])
    BY <1>4, <2>2 DEF PlacesAfterError, Failed, Goto, TypeOK
  <2> QED BY <2>1, <2>2 DEF Settle
<1>6. /\ places'[r] = places[r] - 1 \/ pc'[r] = "done" \/ last[r]
      /\ \A q \in Requests \ {r} : places'[q] = places[q]
  BY <1>5 DEF TypeOK
<1>7. /\ Used \in Nat /\ Used <= MaxPending /\ Used' = Used
      /\ Outstanding' <= Outstanding - 1 /\ Outstanding \in Nat /\ Outstanding' \in Nat
  <2>1. Used \in Nat /\ Used <= MaxPending /\ Used' = Used
    BY <1>1, UsedNat DEF TypeOK, Room, Used
  <2> QED BY <1>4, <1>5, <2>1, PlaceFreed
<1>8. Serial'
  BY <1>1, <1>2, <1>3, PipelineAssumption DEF Serial, Writing
<1>9. Room'
  BY <1>1, <1>2, <1>3, <1>7 DEF Room, Writing
<1>10. PlacesLeft'
  <2>1. pc'[r] \in {"deliver", "run"} /\ ~last[r] => places'[r] >= RecordLimit - nr[r]
    BY <1>4, <1>6
  <2> QED BY <1>1, <1>2, <1>3, <1>6, <2>1 DEF PlacesLeft, Writing
<1>11. Reservations'
  <2>1. ~litter => turnedAway = {} /\ Used + Outstanding <= MaxPending + 1
    BY <1>1 DEF Reservations
  <2>2. ~\E q \in Requests : pc'[q] = "settle"
    BY <1>2, <1>3 DEF Writing
  <2> QED BY <1>1, <1>4, <1>7, <2>1, <2>2 DEF Reservations
<1> QED BY <1>8, <1>9, <1>10, <1>11 DEF Capacity

(* A crash gives every reservation back and leaves at most one file behind.*)
LEMMA CapacityCrash ==
  ASSUME Order, Order', Capacity, Crash
  PROVE  Capacity'
<1> TypeOK /\ TypeOK' /\ Serial /\ Room /\ Reservations
  BY DEF Order, Capacity
<1>1. /\ UNCHANGED <<turnedAway, litter>> /\ busy' = NoOne
      /\ places' = [r \in Requests |-> 0]
      /\ \A q \in Requests : pc'[q] \in {"new", "done"}
  BY DEF Crash, history
<1>2. Len(files') \in Nat /\ Len(files) \in Nat /\ Len(files') <= Len(files)
  BY Removed, LenProperties DEF Crash, TypeOK
<1>3. /\ Cardinality(temps) \in Nat /\ Used \in Nat /\ MaxPending \in Nat
      /\ Used = Len(files) + Cardinality(temps) /\ Used <= MaxPending
  BY UsedNat, PipelineAssumption DEF TypeOK, Room, Used
<1>4. /\ IsFiniteSet(temps') /\ Used' \in Nat /\ Used' <= MaxPending
  <2>1. CASE temps' = temps
    BY <1>2, <1>3, <2>1 DEF Room, Used
  <2>2. CASE temps' # temps
    <3>1. PICK r \in Requests : pc[r] = "write"
      BY <2>2 DEF Crash
    <3>2. {q \in Requests : pc[q] = "write"} = {r}
      BY <3>1 DEF Serial, Writing
    <3>3. temps' = temps \cup {Current(r)}
      BY <2>2, <3>2 DEF Crash
    <3>4. /\ IsFiniteSet(temps') /\ Cardinality(temps') \in Nat
          /\ Cardinality(temps') <= Cardinality(temps) + 1
      BY <3>3, OneMoreTemp DEF Room
    <3>5. Used < MaxPending
      BY <3>1 DEF Room
    <3> QED BY <1>2, <1>3, <3>4, <3>5 DEF Used
  <2> QED BY <2>1, <2>2
<1>5. Serial' /\ PlacesLeft'
  BY <1>1, PipelineAssumption DEF Serial, PlacesLeft, Writing
<1>6. Room'
  BY <1>1, <1>4 DEF Room
<1>7. Outstanding' = 0
  <2>1. places' \in Counts
    BY DEF TypeOK, Counts
  <2> QED BY <1>1, <2>1, NothingReserved DEF Outstanding, Reserved
<1>8. Reservations'
  <2>1. ~\E q \in Requests : pc'[q] = "settle"
    BY <1>1
  <2> QED BY <1>1, <1>3, <1>4, <1>7, <2>1 DEF Reservations
<1> QED BY <1>5, <1>6, <1>8 DEF Capacity

(* Every step keeps the limit and the reservations.                        *)
LEMMA CapacityStep == Order /\ Order' /\ Capacity /\ [Next]_vars => Capacity'
<1> SUFFICES ASSUME Order, Order', Capacity, [Next]_vars PROVE Capacity'
  OBVIOUS
<1> TypeOK /\ TypeOK' /\ Answers
  BY DEF Order
<1> USE DEF app, disk, delivery, collector, history
<1>0. Len(files) \in Nat
  BY LenProperties DEF TypeOK
<1>1. CASE UNCHANGED vars
  BY <1>0, <1>1, CapacityStays DEF vars
<1>2. ASSUME NEW r \in Requests, Deliver(r) PROVE Capacity'
  <2>1. \A q \in Requests :
          \/ pc'[q] = pc[q]
          \/ pc[q] = "deliver" /\ pc'[q] \in {"await", "run", "done"}
    BY <1>2 DEF Deliver, Goto, Resume, TypeOK
  <2> QED BY <1>0, <1>2, <2>1, CapacityStays DEF Deliver, Writing
<1>3. ASSUME NEW r \in Requests, Finish(r) PROVE Capacity'
  <2>1. \A q \in Requests :
          \/ pc'[q] = pc[q]
          \/ pc[q] = "await" /\ pc'[q] \in {"run", "done"}
    BY <1>3 DEF Finish, Goto, Resume, TypeOK
  <2>2. Len(files') <= Len(files)
    BY <1>0, <1>3, Removed DEF Finish, TypeOK
  <2> QED BY <1>3, <2>1, <2>2, CapacityStays DEF Finish, Writing
<1>4. CASE ReplayFinish
  <2>1. Len(files') <= Len(files)
    BY <1>0, <1>4, Removed DEF ReplayFinish, TypeOK
  <2> QED BY <1>4, <2>1, CapacityStays DEF ReplayFinish
<1>5. CASE StartReplay \/ ReplayNext \/ ReplayStops
  BY <1>0, <1>5, CapacityStays DEF StartReplay, ReplayNext, ReplayStops
<1>6. ASSUME NEW s \in Senders, Collected(s) \/ Uncollected(s) PROVE Capacity'
  BY <1>0, <1>6, CapacityStays DEF Collected, Uncollected
<1> QED
  BY <1>1, <1>2, <1>3, <1>4, <1>5, <1>6, CapacityAdmit, CapacityWrite, CapacitySettle, CapacityCrash
  DEF Next, RequestStep, ReplayStep

-----------------------------------------------------------------------------
(* The theorems.                                                           *)

PipelineInv == Order /\ Lossless /\ Capacity

(* Positions, files and reservations agree in every reachable state.       *)
THEOREM PipelineInvariant == Spec => []PipelineInv
<1>1. Init => PipelineInv
  <2>1. Init => Lossless
    BY DEF Init, Lossless, Receipts, NothingLost, Renamed
  <2> QED BY <2>1, OrderInit, CapacityInit DEF PipelineInv
<1>2. PipelineInv /\ [Next]_vars => PipelineInv'
  BY OrderStep, LosslessStep, CapacityStep DEF PipelineInv
<1> QED BY <1>1, <1>2, PTL DEF Spec

(* Every variable of the pipeline keeps its type.                          *)
THEOREM PipelineTypes == Spec => []TypeOK
<1>1. PipelineInv => TypeOK
  BY DEF PipelineInv, Order
<1> QED BY <1>1, PipelineInvariant, PTL

(* An event whose record() resolved is in the outbox or in the log,        *)
(* however many requests, replays, lost answers and crashes there are.     *)
THEOREM AcceptedIsKept == Spec => []NothingLost
<1>1. PipelineInv => NothingLost
  BY DEF PipelineInv, Lossless
<1> QED BY <1>1, PipelineInvariant, PTL

(* The outbox stays within its limit, and no admitted request is refused a *)
(* record for lack of room unless a temporary file could not be removed.   *)
THEOREM LimitKept == Spec => []CapacityKept
<1>1. PipelineInv => CapacityKept
  BY DEF PipelineInv, Capacity, Room, Reservations, CapacityKept, OutboxBounded, PlaceKept
<1> QED BY <1>1, PipelineInvariant, PTL
=============================================================================
