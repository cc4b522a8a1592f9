----------------------------- MODULE PaidReports -----------------------------
(***************************************************************************)
(* What the HCS activity mirror promises its operator, who pays for every  *)
(* topic message: a transaction is claimed at most once for ever, at most  *)
(* Limit transactions are claimed against one hour's budget, and a message *)
(* is paid for once, under a claim.  ActivityMirror implements this over a *)
(* directory that several server processes share.                          *)
(***************************************************************************)
EXTENDS Naturals, FiniteSets

CONSTANTS TxHashes, Hours, Limit

VARIABLES
  claimed,   \* claimed[h]: the transactions charged to hour h
  paid       \* paid[t]: how many submissions of t were handed to the network

vars == <<claimed, paid>>

Init == /\ claimed = [h \in Hours |-> {}]
        /\ paid = [t \in TxHashes |-> 0]

Claim(t, h) ==
  /\ \A g \in Hours : t \notin claimed[g]
  /\ Cardinality(claimed[h]) < Limit
  /\ claimed' = [claimed EXCEPT ![h] = @ \cup {t}]
  /\ UNCHANGED paid

Pay(t) ==
  /\ \E h \in Hours : t \in claimed[h]
  /\ paid[t] = 0
  /\ paid' = [paid EXCEPT ![t] = 1]
  /\ UNCHANGED claimed

Next == \E t \in TxHashes : Pay(t) \/ \E h \in Hours : Claim(t, h)

Spec == Init /\ [][Next]_vars
=============================================================================
