---------------------------- MODULE AuditPipeline ----------------------------
(***************************************************************************)
(* From an API request to the audit log.  One server process writes every  *)
(* event of a request to its outbox directory before it goes on; the       *)
(* request then tries to deliver that event once, and a timer runs a       *)
(* separate process that replays the backlog.  A file is removed only on   *)
(* the collector's acknowledgement.  The collector is the abstract         *)
(* DurableLog, which AuditJournal implements.                              *)
(***************************************************************************)
EXTENDS Integers, Sequences, FiniteSets

CONSTANTS
  Requests,      \* requests of the run, each with an id of its own
  RecordLimit,   \* requestRecordLimit: 4 in the code
  MaxPending,    \* capacity of the outbox
  BatchSize,     \* files one replay looks at
  MaxFaults,     \* bound: disk errors and crashes
  Replay,        \* the delivery process
  NoOne

ASSUME PipelineAssumption ==
  /\ IsFiniteSet(Requests) /\ Replay \notin Requests /\ NoOne \notin Requests
  /\ RecordLimit \in Nat \ {0, 1} /\ MaxPending \in Nat /\ BatchSize \in Nat \ {0}
  /\ MaxFaults \in Nat

Senders == Requests \cup {Replay}
Event(r, n) == [id |-> <<r, n>>, content |-> "sealed"]
Events == {Event(r, n) : r \in Requests, n \in 1 .. RecordLimit}

VARIABLES
  pc,         \* position of each request
  nr,         \* records it has attempted
  last,       \* its current record is request.completed
  busy,       \* the request inside the serial section of the directory
  places,     \* requestReservations: records still reserved for it
  files,      \* accepted-looking files of the outbox, oldest first
  temps,      \* .pending- files
  batch,      \* files the running replay has yet to deliver
  replaying,  \* position of the delivery process
  wire,       \* what each sender's delivery came to
  log, acks,  \* the collector's durable log
  accepted,   \* history: events whose record() resolved
  turnedAway, \* history: admitted requests refused for capacity
  litter,     \* history: a temporary file could not be removed
  faults

app == <<pc, nr, last, busy, places>>
disk == <<files, temps>>
delivery == <<batch, replaying>>
collector == <<log, acks>>
history == <<accepted, turnedAway, litter>>
vars == <<app, disk, delivery, wire, collector, history, faults>>

Log == INSTANCE DurableLog

Current(r) == Event(r, nr[r])
Reserved(p) == {s \in Requests \X (1 .. RecordLimit) : s[2] <= p[s[1]]}
Outstanding == Cardinality(Reserved(places))
Places(e) == {i \in 1 .. Len(files) : files[i] = e}
Present(e) == Places(e) # {}
Without(e) ==   \* each event has one name, so at most one file
  IF Present(e)
  THEN LET i == CHOOSE j \in Places(e) : TRUE
       IN SubSeq(files, 1, i - 1) \o SubSeq(files, i + 1, Len(files))
  ELSE files
Used == Len(files) + Cardinality(temps)

Init ==
  /\ pc = [r \in Requests |-> "new"] /\ nr = [r \in Requests |-> 0]
  /\ last = [r \in Requests |-> FALSE] /\ busy = NoOne
  /\ places = [r \in Requests |-> 0]
  /\ files = <<>> /\ temps = {}
  /\ batch = <<>> /\ replaying = "idle"
  /\ wire = [s \in Senders |-> "none"]
  /\ Log!Init
  /\ accepted = {} /\ turnedAway = {} /\ litter = FALSE
  /\ faults = 0

-----------------------------------------------------------------------------
(* record(): persist.                                                      *)

Goto(r, position) == pc' = [pc EXCEPT ![r] = position]
Starting(r) == pc[r] = "new"
First(r) == nr[r] = 1

(* A record that failed: withAuditRoute answers 503 to a request without a *)
(* start; later failures are logged and the request goes on to its end.    *)
BugFailed(r, over) == Goto(r, "run")
Failed(r, over) == Goto(r, IF over THEN "done" ELSE "run")

BugAdditional(r) == IF Starting(r) THEN 1 ELSE IF places[r] > 0 THEN 0 ELSE 1
Additional(r) == IF Starting(r) THEN RecordLimit ELSE IF places[r] > 0 THEN 0 ELSE 1

BugFull(r) == Len(files) + Outstanding + Additional(r) > MaxPending
Full(r) == Used + Outstanding + Additional(r) > MaxPending

(* The turn of a request in the serial section: it starts, or its handler  *)
(* has a detail to record, or its completion, after which it records       *)
(* nothing more.  Check the capacity; reserve the places of a start.       *)
Admit(r) ==
  /\ busy = NoOne
  /\ \/ pc[r] = "new" /\ UNCHANGED last
     \/ pc[r] = "run" /\ nr[r] < RecordLimit - 1 /\ UNCHANGED last
     \/ pc[r] = "run" /\ last' = [last EXCEPT ![r] = TRUE]
  /\ nr' = [nr EXCEPT ![r] = @ + 1]
  /\ \/ /\ ~Full(r)
        /\ busy' = r /\ Goto(r, "write")
        /\ places' = IF Starting(r) THEN [places EXCEPT ![r] = RecordLimit] ELSE places
        /\ UNCHANGED turnedAway
     \/ /\ Full(r)
        /\ Failed(r, Starting(r) \/ last'[r])
        /\ turnedAway' = IF Starting(r) THEN turnedAway ELSE turnedAway \cup {r}
        /\ UNCHANGED <<busy, places>>
  /\ UNCHANGED <<disk, delivery, wire, collector, accepted, litter, faults>>

Fault == faults < MaxFaults /\ faults' = faults + 1

(* The places left after an error, before and after the rename.            *)
PlacesAfterError(r, renamed) ==
  IF First(r) THEN [places EXCEPT ![r] = 0]
  ELSE IF renamed /\ places[r] > 0 THEN [places EXCEPT ![r] = @ - 1]
  ELSE places

(* Write and sync the temporary file, rename it; on an error try to remove *)
(* it.  A crash may leave it behind.                                       *)
Write(r) ==
  /\ pc[r] = "write"
  /\ \/ /\ files' = Append(files, Current(r)) /\ Goto(r, "settle")
        /\ UNCHANGED <<busy, places, temps, litter, faults>>
     \/ /\ Fault /\ Failed(r, First(r) \/ last[r]) /\ busy' = NoOne
        /\ places' = PlacesAfterError(r, FALSE)
        /\ \/ UNCHANGED <<temps, litter>>
           \/ temps' = temps \cup {Current(r)} /\ litter' = TRUE
        /\ UNCHANGED files
  /\ UNCHANGED <<nr, last, delivery, wire, collector, accepted, turnedAway>>

PlacesAfter(r) ==
  [places EXCEPT ![r] = IF last[r] THEN 0 ELSE IF @ > 0 THEN @ - 1 ELSE @]

(* Sync the directory; only now has the event been accepted.               *)
Settle(r) ==
  /\ pc[r] = "settle" /\ busy' = NoOne
  /\ \/ /\ accepted' = accepted \cup {Current(r)}
        /\ places' = PlacesAfter(r) /\ Goto(r, "deliver")
        /\ UNCHANGED faults
     \/ /\ Fault /\ Failed(r, First(r) \/ last[r]) /\ places' = PlacesAfterError(r, TRUE)
        /\ UNCHANGED accepted
  /\ UNCHANGED <<nr, last, disk, delivery, wire, collector, turnedAway, litter>>

-----------------------------------------------------------------------------
(* Delivery: by the request that wrote the event, and by the replay.       *)

Resume(r) == Goto(r, IF last[r] THEN "done" ELSE "run")

(* deliver() of the request's own event: skip it if a replay was faster.   *)
Deliver(r) ==
  /\ pc[r] = "deliver"
  /\ \/ /\ Present(Current(r)) /\ Goto(r, "await")
        /\ wire' = [wire EXCEPT ![r] = "sent"]
     \/ ~Present(Current(r)) /\ Resume(r) /\ UNCHANGED wire
  /\ UNCHANGED <<nr, last, busy, places, disk, delivery, collector, history, faults>>

BugRemovable(answer) == answer # "none"
Removable(answer) == answer = "acked"

(* The answer, or the end of the two seconds, and the removal of the file. *)
Finish(r) ==
  /\ pc[r] = "await" /\ wire[r] # "sent"
  /\ busy = NoOne \/ ~Removable(wire[r])
  /\ files' = IF Removable(wire[r]) THEN Without(Current(r)) ELSE files
  /\ wire' = [wire EXCEPT ![r] = "none"]
  /\ Resume(r)
  /\ UNCHANGED <<nr, last, busy, places, temps, delivery, collector, history, faults>>

(* The timer starts a replay of the oldest files.                          *)
BatchLength == IF Len(files) < BatchSize THEN Len(files) ELSE BatchSize
BugDue == SubSeq(files, 2, BatchLength)
Due == SubSeq(files, 1, BatchLength)

StartReplay ==
  /\ replaying = "idle" /\ files # <<>>
  /\ batch' = Due
  /\ replaying' = "deliver"
  /\ UNCHANGED <<app, disk, wire, collector, history, faults>>

ReplayNext ==
  /\ replaying = "deliver"
  /\ \/ /\ batch = <<>> /\ replaying' = "idle"
        /\ UNCHANGED <<batch, wire>>
     \/ /\ batch # <<>> /\ ~Present(Head(batch))
        /\ batch' = Tail(batch)
        /\ UNCHANGED <<replaying, wire>>
     \/ /\ batch # <<>> /\ Present(Head(batch))
        /\ wire' = [wire EXCEPT ![Replay] = "sent"] /\ replaying' = "await"
        /\ UNCHANGED batch
  /\ UNCHANGED <<app, disk, collector, history, faults>>

ReplayFinish ==
  /\ replaying = "await" /\ wire[Replay] # "sent"
  /\ replaying' = "deliver"
  /\ \/ /\ Removable(wire[Replay])
        /\ files' = Without(Head(batch)) /\ batch' = Tail(batch)
     \/ /\ ~Removable(wire[Replay])
        /\ batch' = <<>> /\ UNCHANGED files   \* a failure ends the batch
  /\ wire' = [wire EXCEPT ![Replay] = "none"]
  /\ UNCHANGED <<app, temps, collector, history, faults>>

-----------------------------------------------------------------------------
(* The collector and the network.                                          *)

EventOf(s) == IF s = Replay THEN Head(batch) ELSE Current(s)

(* 200 or 201 with the identifier of the event.                            *)
Collected(s) ==
  /\ wire[s] = "sent"
  /\ Log!Record(EventOf(s)) \/ Log!Acknowledge(EventOf(s))
  /\ EventOf(s) \in acks'
  /\ wire' = [wire EXCEPT ![s] = "acked"]
  /\ UNCHANGED <<app, disk, delivery, history, faults>>

(* No answer in time, or any other answer; the event may be durable.  Only *)
(* the collector reads the log, so an event that arrives after its sender  *)
(* gave up is one recorded here; an answer nobody reads is none.           *)
Uncollected(s) ==
  /\ wire[s] = "sent"
  /\ \/ Log!Record(EventOf(s)) /\ UNCHANGED acks
     \/ UNCHANGED collector
  /\ wire' = [wire EXCEPT ![s] = "failed"]
  /\ UNCHANGED <<app, disk, delivery, history, faults>>

-----------------------------------------------------------------------------
(* Crashes.                                                                *)

(* The server stops: requests, reservations and the serial section are     *)
(* gone; a half-written file stays, a rename not yet synced may not.       *)
Crash ==
  /\ Fault
  /\ pc' = [r \in Requests |-> IF pc[r] = "new" THEN "new" ELSE "done"]
  /\ busy' = NoOne /\ places' = [r \in Requests |-> 0]
  /\ temps' \in {temps, temps \cup {Current(r) : r \in {q \in Requests : pc[q] = "write"}}}
  /\ files' \in {files} \cup {Without(Current(r)) : r \in {q \in Requests : pc[q] = "settle"}}
  /\ wire' = [s \in Senders |-> IF s = Replay THEN wire[s] ELSE "none"]
  /\ UNCHANGED <<nr, last, delivery, collector, history>>

(* The delivery process is stopped; the timer starts another.              *)
ReplayStops ==
  /\ replaying # "idle" /\ Fault
  /\ replaying' = "idle" /\ batch' = <<>>
  /\ wire' = [wire EXCEPT ![Replay] = "none"]
  /\ UNCHANGED <<app, disk, collector, history>>

RequestStep(r) ==
  \/ Admit(r) \/ Write(r) \/ Settle(r)
  \/ Deliver(r) \/ Finish(r)

ReplayStep == StartReplay \/ ReplayNext \/ ReplayFinish

Next ==
  \/ \E r \in Requests : RequestStep(r)
  \/ ReplayStep \/ ReplayStops \/ Crash
  \/ \E s \in Senders : Collected(s) \/ Uncollected(s)

Spec == Init /\ [][Next]_vars

(* The timer keeps starting replays, a replay's steps end, and a collector *)
(* that is asked again and again answers.  Requests need not go on.        *)
FairSpec ==
  /\ Spec
  /\ WF_vars(ReplayStep) /\ SF_vars(Collected(Replay))

-----------------------------------------------------------------------------
(* Properties.                                                             *)

(* Every variable keeps its type.                                          *)
TypeOK ==
  /\ pc \in [Requests -> {"new", "write", "settle", "deliver",
                          "await", "run", "done"}]
  /\ nr \in [Requests -> 0 .. RecordLimit] /\ last \in [Requests -> BOOLEAN]
  /\ busy \in Requests \cup {NoOne}
  /\ places \in [Requests -> 0 .. RecordLimit]
  /\ files \in Seq(Events) /\ temps \subseteq Events
  /\ batch \in Seq(Events) /\ replaying \in {"idle", "deliver", "await"}
  /\ wire \in [Senders -> {"none", "sent", "acked", "failed"}]
  /\ log \subseteq Events /\ acks \subseteq Events
  /\ accepted \subseteq Events /\ turnedAway \subseteq Requests /\ litter \in BOOLEAN
  /\ faults \in 0 .. MaxFaults

(* An event whose record() resolved is in the outbox or in the log, across *)
(* crashes, lost answers and two processes removing files.                 *)
NothingLost == \A e \in accepted : Present(e) \/ Log!Recorded(e)

(* The outbox never holds more than its limit, unfinished writes included. *)
OutboxBounded == Used <= MaxPending

(* A request that was admitted finds room for each of its records          *)
(* (docs/audit-log.md:72), unless a temporary file could not be removed.   *)
PlaceKept == turnedAway # {} => litter

(* Both promises of the limit, to the disk and to the request.             *)
CapacityKept == OutboxBounded /\ PlaceKept

(* The backlog drains: again and again, everything accepted so far has     *)
(* reached the log, once the collector answers the replay.                 *)
Delivered == []<>(accepted \subseteq log)
=============================================================================
