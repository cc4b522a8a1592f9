---------------------------- MODULE AuditJournal ----------------------------
(***************************************************************************)
(* The audit collector: an authenticated HTTP endpoint in front of an      *)
(* append-only file of chained, signed records.  One process writes, under *)
(* a lock file; appends run one after another through a promise chain; an  *)
(* event is acknowledged after its record is written and synced.  A failed *)
(* append disables the journal until a restart, and a restart only accepts *)
(* a file that verifies.                                                   *)
(*                                                                         *)
(* An event is an identifier with a content; a record is the event at its  *)
(* place in the file, so sequence numbers, hashes and signatures of a      *)
(* complete row are right by construction and are left out.                *)
(***************************************************************************)
EXTENDS Naturals, Sequences, FiniteSets

CONSTANTS
  Ids,         \* event identifiers
  Contents,    \* what an event may say
  MaxQueued,   \* bound: requests waiting for the journal
  MaxTorn      \* bound: writes that fail, or are cut by a power loss

ASSUME JournalAssumption == MaxQueued \in Nat /\ MaxTorn \in Nat

Events == [id : Ids, content : Contents]

VARIABLES
  rows,      \* complete lines of journal.jsonl
  synced,    \* how many of them have reached the disk
  tail,      \* bytes of an incomplete line at the end of the file
  lock,      \* .writer.lock exists
  process,   \* "down", "verifying", "open", "stopping", "closing"
  failed,    \* AuditJournal.failed
  known,     \* AuditJournal.events, in order: what the writer believes it wrote
  queue,     \* appends waiting for their turn, first the one being run
  step,      \* position of the append at the head of the queue
  acks,      \* history: events the collector acknowledged
  torn       \* failed and interrupted writes so far

file == <<rows, synced, tail, lock>>
memory == <<process, failed, known, queue, step>>
journalVars == <<file, memory, acks, torn>>

Steps == {"none", "write", "sync"}

Init ==
  /\ rows = <<>> /\ synced = 0 /\ tail = FALSE /\ lock = FALSE
  /\ process = "down" /\ failed = FALSE /\ known = <<>>
  /\ queue = <<>> /\ step = "none"
  /\ acks = {} /\ torn = 0

Forget == /\ failed' = FALSE /\ known' = <<>> /\ queue' = <<>> /\ step' = "none"

RowsOf(id, list) == {i \in DOMAIN list : list[i].id = id}

-----------------------------------------------------------------------------
(* Opening and closing the journal.                                        *)

(* The exclusive create of the lock file; with a lock left by an unclean   *)
(* stop the collector does not start.                                      *)
Lock ==
  /\ process = "down" /\ ~lock
  /\ lock' = TRUE /\ process' = "verifying" /\ Forget
  /\ UNCHANGED <<rows, synced, tail, acks, torn>>

Acceptable == ~tail /\ \A i, j \in DOMAIN rows : rows[i].id = rows[j].id => i = j

BugAdopted == synced
Adopted == Len(rows)
BugLockFreed == FALSE
LockKept == TRUE

(* readRecords, then a sync: a complete row of which an earlier process    *)
(* does not know whether it reached the disk becomes part of the journal.  *)
(* A file that does not verify is left as it is, and so is the directory.  *)
Verify ==
  /\ process = "verifying"
  /\ \/ /\ Acceptable
        /\ known' = rows /\ synced' = Adopted
        /\ process' = "open" /\ lock' = LockKept
        /\ UNCHANGED <<rows, tail, failed, queue, step>>
     \/ /\ ~Acceptable
        /\ process' = "down" /\ lock' = FALSE
        /\ UNCHANGED <<rows, synced, tail, failed, known, queue, step>>
  /\ UNCHANGED <<acks, torn>>

(* SIGTERM: no new connections; requests of those there are still append.  *)
Shutdown ==
  /\ process = "open" /\ process' = "stopping"
  /\ UNCHANGED <<file, failed, known, queue, step, acks, torn>>

(* The last connection has ended, answered or timed out: journal.close()   *)
(* lets the appends already accepted run.                                  *)
ServerClosed ==
  /\ process = "stopping" /\ process' = "closing"
  /\ UNCHANGED <<file, failed, known, queue, step, acks, torn>>

BugChainBreaks == ~failed
ChainGoesOn == TRUE   \* tail.then runs after a rejected append, too

(* The last append is done: close the file and remove the lock.            *)
Close ==
  /\ process = "closing" /\ queue = <<>> /\ ChainGoesOn
  /\ process' = "down" /\ lock' = FALSE /\ Forget
  /\ UNCHANGED <<rows, synced, tail, acks, torn>>

(* The process is killed: the file stays as written, the lock stays.       *)
Kill ==
  /\ process # "down"
  /\ process' = "down" /\ Forget
  /\ UNCHANGED <<file, acks, torn>>

(* Power fails: any suffix that was not synced may be gone or cut.         *)
PowerLoss ==
  /\ torn < MaxTorn /\ torn' = torn + 1
  /\ process' = "down" /\ Forget
  /\ \E kept \in synced .. Len(rows) :
       /\ rows' = SubSeq(rows, 1, kept)
       /\ tail' \in {tail, kept < Len(rows), FALSE}
  /\ UNCHANGED <<synced, lock, acks>>

(* The operator removes the lock of a process that is no longer there.     *)
RemoveStaleLock ==
  /\ process = "down" /\ lock /\ lock' = FALSE
  /\ UNCHANGED <<rows, synced, tail, memory, acks, torn>>

-----------------------------------------------------------------------------
(* Appending.                                                              *)

(* POST /v1/events with a body that parses: one more link of the chain.    *)
Receive(e) ==
  /\ process \in {"open", "stopping"} /\ Len(queue) < MaxQueued
  /\ queue' = Append(queue, e)
  /\ UNCHANGED <<file, process, failed, known, step, acks, torn>>

Serving == process \in {"open", "stopping", "closing"}
Running == Serving /\ queue # <<>> /\ ChainGoesOn
Answer == queue' = Tail(queue) /\ step' = "none"

Refuse(disabled) ==   \* 503, with the journal disabled from here on or not
  /\ Answer /\ failed' = disabled
  /\ UNCHANGED <<process, known, acks>>

BugPrior(e) == {i \in RowsOf(e.id, known) : i = Len(known)}
Prior(e) == RowsOf(e.id, known)

(* The checks before a write: the journal works, the file is the one this  *)
(* process left, the event is new.  A known event is acknowledged again    *)
(* when its content is the same and refused (409) when it is not.          *)
Check ==
  /\ Running /\ step = "none"
  /\ LET e == Head(queue) IN
     \/ failed /\ Refuse(TRUE) /\ UNCHANGED torn
     \/ torn < MaxTorn /\ torn' = torn + 1 /\ ~failed /\ Refuse(TRUE)
     \/ /\ ~failed /\ Prior(e) # {} /\ Answer
        /\ acks' = IF \E i \in Prior(e) : known[i] = e THEN acks \cup {e} ELSE acks
        /\ UNCHANGED <<process, failed, known, torn>>
     \/ /\ ~failed /\ Prior(e) = {} /\ step' = "write"
        /\ UNCHANGED <<process, failed, known, queue, acks, torn>>
  /\ UNCHANGED file

BugDisabled == FALSE
Disabled == TRUE

(* file.writeFile: the whole line, or an error with part of it written.    *)
Write ==
  /\ Running /\ step = "write"
  /\ \/ /\ rows' = Append(rows, Head(queue)) /\ step' = "sync"
        /\ UNCHANGED <<tail, process, failed, known, queue, acks, torn>>
     \/ /\ torn < MaxTorn /\ torn' = torn + 1
        /\ Refuse(Disabled) /\ tail' \in BOOLEAN
        /\ UNCHANGED rows
  /\ UNCHANGED <<synced, lock>>

(* file.sync, then the acknowledgement; after an error the line is in the  *)
(* file and its fate is unknown.                                           *)
Sync ==
  /\ Running /\ step = "sync"
  /\ \/ /\ synced' = Len(rows)
        /\ known' = Append(known, Head(queue))
        /\ acks' = acks \cup {Head(queue)}
        /\ Answer /\ UNCHANGED <<process, failed, torn>>
     \/ /\ torn < MaxTorn /\ torn' = torn + 1
        /\ Refuse(Disabled) /\ UNCHANGED synced
  /\ UNCHANGED <<rows, tail, lock>>

Work == Check \/ Write \/ Sync \/ Verify \/ Close

Next ==
  \/ Lock \/ Shutdown \/ ServerClosed \/ Kill \/ PowerLoss \/ RemoveStaleLock
  \/ \E e \in Events : Receive(e)
  \/ Work

Spec == Init /\ [][Next]_journalVars

(* The collector's own steps end: file operations return, and so does      *)
(* server.close(), as a connection carries one request that has a timeout. *)
FairSpec == Spec /\ WF_journalVars(Work) /\ WF_journalVars(ServerClosed)

-----------------------------------------------------------------------------
(* Properties.                                                             *)

(* Every variable keeps its type.                                          *)
TypeOK ==
  /\ rows \in Seq(Events) /\ synced \in Nat /\ tail \in BOOLEAN
  /\ lock \in BOOLEAN /\ process \in {"down", "verifying", "open", "stopping", "closing"}
  /\ process # "down" => lock
  /\ failed \in BOOLEAN /\ known \in Seq(Events)
  /\ queue \in Seq(Events) /\ Len(queue) <= MaxQueued /\ step \in Steps
  /\ acks \subseteq Events /\ torn \in 0 .. MaxTorn

(* Delivering an event again never adds a second record of it              *)
(* (docs/audit-log.md:46).                                                 *)
OneRecordPerEvent == \A e \in Events : Cardinality(RowsOf(e.id, rows)) <= 1

(* What the writer believes it wrote is what the file holds, but for the   *)
(* line it is writing; it never writes behind an incomplete line.          *)
WriterKnowsFile ==
  Serving /\ ~failed =>
    /\ ~tail
    /\ known = SubSeq(rows, 1, Len(known))
    /\ Len(rows) = Len(known) + (IF step = "sync" THEN 1 ELSE 0)

(* The synced rows, with the acknowledgements, implement the abstract log: *)
(* an acknowledged event is on the disk (docs/audit-log.md:41), and no     *)
(* restart, failed write or power loss, whoever wrote the row, takes back  *)
(* a record that reached it.                                               *)
Log == INSTANCE DurableLog WITH log <- {rows[i] : i \in 1 .. synced}
ImplementsLog == Log!Spec

(* A collector told to stop answers what it accepted, before and since,    *)
(* closes the file and releases its lock (unless it is killed first).      *)
ShutdownEnds == process = "stopping" ~> process = "down"
=============================================================================
