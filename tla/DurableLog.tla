----------------------------- MODULE DurableLog -----------------------------
(***************************************************************************)
(* What the audit collector promises its clients: a log that only grows,   *)
(* holds one record per event identifier, and acknowledges an event only   *)
(* when the log holds that very event.  AuditJournal implements it on a    *)
(* file; AuditPipeline delivers to it.                                     *)
(***************************************************************************)
CONSTANT Events   \* records with a field id

VARIABLES log, acks

vars == <<log, acks>>

Recorded(e) == e \in log
Fresh(e) == \A known \in log : known.id # e.id

Init == log = {} /\ acks = {}

(* The record is durable before the acknowledgement, if there is one.      *)
Record(e) ==
  /\ Fresh(e)
  /\ log' = log \cup {e}
  /\ acks' \in {acks, acks \cup {e}}

(* A delivery of what the log already holds.                               *)
Acknowledge(e) ==
  /\ Recorded(e)
  /\ acks' = acks \cup {e}
  /\ UNCHANGED log

Next == \E e \in Events : Record(e) \/ Acknowledge(e)

Spec == Init /\ [][Next]_vars
=============================================================================
