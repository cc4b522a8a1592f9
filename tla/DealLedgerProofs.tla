--------------------------- MODULE DealLedgerProofs ---------------------------
(***************************************************************************)
(* A ledger of any number of calls, assets and faults.                     *)
(*                                                                         *)
(* The row of each call that goes on is in a line of its own (Spread),      *)
(* which holds its record or does not parse, and is never the line without *)
(* a newline that a later text may join: so no two posted messages lose    *)
(* their record with one line.  What the Map holds does not enter it.      *)
(*                                                                         *)
(* The rest is about the Map, and rests on what a replay makes of it       *)
(* (ReplayFacts).  A receipt is real because every row and every line is   *)
(* (RowSound), whichever of them a load puts over another: a row is made   *)
(* of what its call knows at its place (CallSound).  A first sale made in  *)
(* turn is the only one because a table has a row for every deal on the    *)
(* topic (PostedKnown), from the file if it has been read, as all lines    *)
(* then parse, and from the calls themselves since: the guard finds it     *)
(* (GuardHeld).                                                            *)
(***************************************************************************)
EXTENDS DealLedger, WellFoundedInduction, FiniteSetTheorems, TLAPS

Positions == Ended \cup {"idle", "load", "save", "append", "submit", "title", "confirm", "amend"}

PastAppend(c) == pc[c] \in {"submit", "title", "confirm", "amend"}

(* The row of the call has gone to the file.                               *)
Sent(c) == PastAppend(c) \/ c \in Posted

(* A line for a call, which no later text joins.                           *)
Placed(c, n) ==
  /\ n \in DOMAIN file
  /\ file[n] = Unparsed \/ file[n].record = c
  /\ ended \/ n # Len(file)

(* Where the row of each call is.                                          *)
Spread(at) ==
  \A c \in Calls : Sent(c) =>
    Placed(c, at[c]) /\ \A d \in Calls : Sent(d) /\ at[d] = at[c] => d = c

IsFile ==
  /\ \E Texts : file \in Seq(Texts)
  /\ ended \in BOOLEAN /\ (ended \/ Len(file) # 0)

LedgerInv ==
  /\ pc \in [Calls -> Positions] /\ topic \in Seq(Calls)
  /\ IsFile
  /\ \E at \in [Calls -> Nat] : Spread(at)

-----------------------------------------------------------------------------
(* Effects: what the invariant needs to know of a step.                    *)

(* The file is as it was, or a text has gone behind it.                    *)
FileGrows ==
  \/ UNCHANGED <<file, ended>>
  \/ \E line : file' = With(line) /\ ended' \in BOOLEAN

(* What becomes of a file to which a text goes: the line it ends in is of  *)
(* no call before.                                                         *)
LEMMA WithFacts ==
  ASSUME IsFile, NEW line, file' = With(line), ended' \in BOOLEAN
  PROVE  /\ IsFile'
         /\ Len(file') \in Nat /\ Len(file') \in DOMAIN file'
         /\ file'[Len(file')] = line \/ file'[Len(file')] = Unparsed
         /\ \A c, n : Placed(c, n) => Placed(c, n)' /\ n # Len(file')
         /\ \A n \in DOMAIN file' :
              n = Len(file') \/ (n \in DOMAIN file /\ file'[n] = file[n])
<1>1. PICK Texts : file \in Seq(Texts)
  BY DEF IsFile
<1> DEFINE All == Texts \cup {line, Unparsed}
<1>2. file \in Seq(All) /\ line \in All /\ Unparsed \in All
  BY <1>1
<1> HIDE DEF All
<1>3. CASE ended
  <2>1. file' = Append(file, line)
    BY <1>3 DEF With
  <2>2. /\ file' \in Seq(All) /\ Len(file') = Len(file) + 1 /\ Len(file) \in Nat
        /\ file'[Len(file')] = line
        /\ \A n \in DOMAIN file : n \in DOMAIN file' /\ file'[n] = file[n] /\ n # Len(file')
        /\ DOMAIN file' = DOMAIN file \cup {Len(file')}
    BY <1>2, <2>1
  <2>3. \A c, n : Placed(c, n) => Placed(c, n)' /\ n # Len(file')
    BY <2>2 DEF Placed
  <2> QED BY <2>2, <2>3 DEF IsFile
<1>4. CASE ~ended
  <2>1. file' = [file EXCEPT ![Len(file)] = Unparsed] /\ Len(file) # 0
    BY <1>4 DEF With, IsFile
  <2>2. /\ file' \in Seq(All) /\ Len(file') = Len(file) /\ Len(file) \in Nat \ {0}
        /\ file'[Len(file')] = Unparsed /\ DOMAIN file' = DOMAIN file /\ Len(file) \in DOMAIN file
        /\ \A n \in DOMAIN file : n # Len(file) => file'[n] = file[n]
    BY <1>2, <2>1
  <2>3. \A c, n : Placed(c, n) => Placed(c, n)' /\ n # Len(file')
    BY <1>4, <2>2 DEF Placed
  <2> QED BY <2>2, <2>3 DEF IsFile
<1> QED BY <1>3, <1>4

(* A file that grows is a file, and keeps the lines of the calls.          *)
LEMMA GrowthKeeps ==
  ASSUME IsFile, FileGrows
  PROVE  IsFile' /\ \A c, n : Placed(c, n) => Placed(c, n)'
<1>1. CASE UNCHANGED <<file, ended>>
  <2>1. IsFile'
    <3>1. PICK Texts : file \in Seq(Texts)
      BY DEF IsFile
    <3>2. file' \in Seq(Texts)
      BY <1>1, <3>1
    <3> QED BY <1>1, <3>2 DEF IsFile
  <2> QED BY <1>1, <2>1 DEF Placed
<1>2. CASE \E line : file' = With(line) /\ ended' \in BOOLEAN
  BY <1>2, WithFacts
<1> QED BY <1>1, <1>2 DEF FileGrows

(* A step of one call that puts it past its append only with a line of its *)
(* own, and posts only when past it, keeps the invariant.                  *)
LEMMA CallKeeps ==
  ASSUME LedgerInv, NEW c \in Calls, NEW next \in Positions,
         pc' = [pc EXCEPT ![c] = next], FileGrows,
         \/ next \notin {"submit", "title", "confirm", "amend"} \/ PastAppend(c)
         \/ \E n \in Nat : Placed(c, n)' /\ \A d, m : Placed(d, m) => m # n,
         topic' = topic \/ (topic' = Append(topic, c) /\ PastAppend(c))
  PROVE  LedgerInv'
<1>1. pc' \in [Calls -> Positions] /\ topic' \in Seq(Calls)
  <2>1. pc' \in [Calls -> Positions]
    BY DEF LedgerInv
  <2>2. topic \in Seq(Calls)
    BY DEF LedgerInv
  <2> QED BY <2>1, <2>2
<1>2. IsFile' /\ \A d, n : Placed(d, n) => Placed(d, n)'
  BY GrowthKeeps DEF LedgerInv
<1>3. PICK at \in [Calls -> Nat] : Spread(at)
  BY DEF LedgerInv
<1>4. \A d \in Calls : Sent(d)' => Sent(d) \/ (d = c /\ next \in {"submit", "title", "confirm", "amend"})
  <2>1. \A d \in Calls : PastAppend(d)' => PastAppend(d) \/ (d = c /\ next \in {"submit", "title", "confirm", "amend"})
    BY DEF LedgerInv, PastAppend
  <2>2. \A d \in Posted' : d \in Posted \/ (d = c /\ PastAppend(c))
    <3>1. topic \in Seq(Calls)
      BY DEF LedgerInv
    <3>2. CASE topic' = topic
      BY <3>2 DEF Posted
    <3>3. CASE topic' = Append(topic, c) /\ PastAppend(c)
      <4>1. \A i \in DOMAIN topic' : topic'[i] = c \/ (i \in DOMAIN topic /\ topic'[i] = topic[i])
        BY <3>1, <3>3
      <4> QED BY <3>3, <4>1 DEF Posted
    <3> QED BY <3>2, <3>3
  <2> QED BY <2>1, <2>2 DEF Sent
<1>5. CASE \A d \in Calls : Sent(d)' => Sent(d)
  BY <1>1, <1>2, <1>3, <1>5 DEF LedgerInv, Spread
<1>6. CASE ~ \A d \in Calls : Sent(d)' => Sent(d)
  <2>1. ~PastAppend(c) /\ next \in {"submit", "title", "confirm", "amend"}
    BY <1>4, <1>6 DEF Sent
  <2>2. PICK n \in Nat : Placed(c, n)' /\ \A d, m : Placed(d, m) => m # n
    BY <2>1
  <2> DEFINE to == [at EXCEPT ![c] = n]
  <2>3. to \in [Calls -> Nat] /\ to[c] = n /\ \A d \in Calls \ {c} : to[d] = at[d]
    BY <1>3
  <2>4. \A d \in Calls \ {c} : Sent(d)' => Sent(d) /\ Placed(d, at[d]) /\ at[d] # n
    BY <1>3, <1>4, <2>2 DEF Spread
  <2> HIDE DEF to
  <2>5. \A d \in Calls : Sent(d)' => Placed(d, to[d])'
    BY <1>2, <2>2, <2>3, <2>4
  <2>6. \A d, e \in Calls : Sent(d)' /\ Sent(e)' /\ to[e] = to[d] => e = d
    BY <1>3, <2>3, <2>4 DEF Spread
  <2>7. Spread(to)'
    BY <2>5, <2>6 DEF Spread
  <2> QED BY <1>1, <1>2, <2>3, <2>7 DEF LedgerInv
<1> QED BY <1>5, <1>6

(* A step that leaves the file and the topic, and puts no call past its    *)
(* append.                                                                 *)
LEMMA StillKeeps ==
  ASSUME LedgerInv, UNCHANGED <<file, ended, topic>>, pc' \in [Calls -> Positions],
         \A c \in Calls : PastAppend(c)' => PastAppend(c)
  PROVE  LedgerInv'
<1>1. PICK at \in [Calls -> Nat] : Spread(at)
  BY DEF LedgerInv
<1>2. \A c \in Calls : Sent(c)' => Sent(c)
  BY DEF Sent, Posted
<1>3. Spread(at)'
  BY <1>1, <1>2 DEF Spread, Placed
<1> QED BY <1>1, <1>3 DEF LedgerInv, IsFile

LEMMA LedgerInit == Init => LedgerInv
<1> SUFFICES ASSUME Init PROVE LedgerInv
  OBVIOUS
<1>1. file \in Seq({}) /\ topic \in Seq(Calls) /\ Posted = {} /\ pc \in [Calls -> Positions]
  BY DEF Init, Posted, Positions
<1>2. \A c \in Calls : ~Sent(c)
  BY <1>1 DEF Init, Sent, PastAppend
<1>3. Spread([c \in Calls |-> 0])
  BY <1>2 DEF Spread
<1> QED BY <1>1, <1>3 DEF Init, LedgerInv, IsFile

-----------------------------------------------------------------------------
(* One lemma for the appends: the lines of the row and of its amendment.   *)
LEMMA AppendKeeps ==
  ASSUME LedgerInv, NEW c \in Calls, NEW line, NEW next \in Positions,
         PastAppend(c) \/ line.record = c, AppendLine(c, line, next)
  PROVE  LedgerInv'
<1>1. FileGrows /\ topic' = topic
  BY DEF AppendLine, FileGrows, network
<1>2. CASE file' = With(line) /\ ended' = TRUE /\ Goto(c, next)
  <2>1. PastAppend(c) \/ \E n \in Nat : Placed(c, n)' /\ \A d, m : Placed(d, m) => m # n
    <3>1. PICK n \in Nat : n = Len(file')
      BY <1>2, WithFacts DEF LedgerInv
    <3>2. /\ n \in DOMAIN file' /\ (file'[n] = line \/ file'[n] = Unparsed)
          /\ \A d, m : Placed(d, m) => m # n
      BY <1>2, <3>1, WithFacts DEF LedgerInv
    <3>3. PastAppend(c) \/ Placed(c, n)'
      BY <1>2, <3>2 DEF Placed
    <3> QED BY <3>2, <3>3
  <2>2. pc' = [pc EXCEPT ![c] = next]
    BY <1>2 DEF Goto
  <2> QED BY <1>1, <2>1, <2>2, CallKeeps
<1>3. CASE Goto(c, AfterLostLine)
  <2>1. pc' = [pc EXCEPT ![c] = "failed"]
    BY <1>3 DEF Goto, AfterLostLine
  <2> QED BY <1>1, <2>1, CallKeeps DEF Positions, Ended
<1> QED BY <1>2, <1>3 DEF AppendLine

LEMMA CheckGoes ==
  ASSUME NEW c \in Calls, NEW table, Check(c, table)
  PROVE  \E next \in {"refused", "save"} : pc' = [pc EXCEPT ![c] = next]
BY DEF Check, Goto

LEMMA CallStepKeeps ==
  ASSUME LedgerInv, NEW c \in Calls, Call(c)
  PROVE  LedgerInv'
<1>1. CASE Begin(c)
  <2>1. FileGrows /\ topic' = topic
    BY <1>1 DEF Begin, FileGrows, network
  <2>2. PICK next \in {"load", "refused", "save"} : pc' = [pc EXCEPT ![c] = next]
    BY <1>1, CheckGoes DEF Begin, Goto
  <2> QED BY <2>1, <2>2, CallKeeps DEF Positions, Ended
<1>2. CASE Load(c)
  <2>1. FileGrows /\ topic' = topic
    BY <1>2 DEF Load, FileGrows, network
  <2>2. PICK next \in {"failed", "refused", "save"} : pc' = [pc EXCEPT ![c] = next]
    BY <1>2, CheckGoes DEF Load, Goto
  <2> QED BY <2>1, <2>2, CallKeeps DEF Positions, Ended
<1>3. CASE SavePending(c)
  <2>1. FileGrows /\ topic' = topic /\ pc' = [pc EXCEPT ![c] = "append"]
    BY <1>3 DEF SavePending, FileGrows, network, Goto
  <2> QED BY <2>1, CallKeeps DEF Positions
<1>4. CASE AppendRow(c)
  <2>1. Entry(c).record = c
    BY DEF Entry
  <2> QED BY <1>4, <2>1, AppendKeeps DEF AppendRow, Positions
<1>5. CASE Submit(c)
  <2>1. FileGrows /\ PastAppend(c) /\ (topic' = topic \/ topic' = Append(topic, c))
    BY <1>5 DEF Submit, FileGrows, store, PastAppend
  <2>2. PICK next \in {"title", "failed"} : pc' = [pc EXCEPT ![c] = next]
    BY <1>5 DEF Submit, Goto
  <2> QED BY <2>1, <2>2, CallKeeps DEF Positions, Ended
<1>6. CASE Title(c)
  <2>1. FileGrows /\ PastAppend(c) /\ topic' = topic
    BY <1>6 DEF Title, FileGrows, store, PastAppend
  <2>2. PICK next \in {"confirm", "failed"} : pc' = [pc EXCEPT ![c] = next]
    BY <1>6 DEF Title, Goto
  <2> QED BY <2>1, <2>2, CallKeeps DEF Positions, Ended
<1>7. CASE MarkConfirmed(c)
  <2>1. FileGrows /\ PastAppend(c) /\ topic' = topic /\ pc' = [pc EXCEPT ![c] = "amend"]
    BY <1>7 DEF MarkConfirmed, FileGrows, network, Goto, PastAppend
  <2> QED BY <2>1, CallKeeps DEF Positions
<1>8. CASE AppendAmendment(c)
  <2>1. PastAppend(c) /\ AppendLine(c, RowOf(c), "confirmed")
    BY <1>8 DEF AppendAmendment, PastAppend
  <2> QED BY <2>1, AppendKeeps DEF Positions, Ended
<1> QED BY <1>1, <1>2, <1>3, <1>4, <1>5, <1>6, <1>7, <1>8 DEF Call

(* A restart leaves no call past its append, and the file as it was.       *)
LEMMA RestartKeeps == LedgerInv /\ Restart => LedgerInv'
<1> SUFFICES ASSUME LedgerInv, Restart PROVE LedgerInv'
  OBVIOUS
<1>1. pc' \in [Calls -> Positions] /\ \A c \in Calls : ~PastAppend(c)'
  BY DEF LedgerInv, Restart, Positions, PastAppend, Running, Ended
<1>2. UNCHANGED <<file, ended, topic>>
  BY DEF Restart, network
<1> QED BY <1>1, <1>2, StillKeeps

LEMMA LedgerNext == LedgerInv /\ [Next]_vars => LedgerInv'
<1>1. LedgerInv /\ UNCHANGED vars => LedgerInv'
  <2> SUFFICES ASSUME LedgerInv, UNCHANGED vars PROVE LedgerInv'
    OBVIOUS
  <2>1. UNCHANGED <<pc, file, ended, topic>>
    BY DEF vars, calls, store, network
  <2> QED BY <2>1, StillKeeps DEF LedgerInv, PastAppend
<1> QED BY <1>1, CallStepKeeps, RestartKeeps DEF Next

-----------------------------------------------------------------------------
(* Whatever overlaps, fails, is killed or is tried again, in however many  *)
(* runs of the process: each line that does not parse has taken at most    *)
(* one posted record with it, and nothing else has taken any.              *)
THEOREM PostedStaysRecorded == Spec => []PostedIsRecorded
<1>1. LedgerInv => PostedIsRecorded
  <2> SUFFICES ASSUME LedgerInv
               PROVE  Cardinality(Unrecorded) <= Cardinality(Damaged)
    BY DEF PostedIsRecorded
  <2>1. PICK at \in [Calls -> Nat] : Spread(at)
    BY DEF LedgerInv
  <2>2. IsFiniteSet(Damaged)
    <3>1. Len(file) \in Nat /\ DOMAIN file = 1 .. Len(file)
      BY DEF LedgerInv, IsFile
    <3>2. IsFiniteSet(1 .. Len(file))
      BY <3>1, FS_Interval
    <3>3. Damaged \in SUBSET (1 .. Len(file))
      BY <3>1 DEF Damaged
    <3> QED BY <3>2, <3>3, FS_Subset
  <2>3. \A c \in Unrecorded : c \in Calls /\ Sent(c) /\ at[c] \in Damaged
    <3>1. \A c \in Unrecorded : c \in Calls /\ Sent(c)
      BY DEF Unrecorded, Posted, Sent, LedgerInv
    <3> QED BY <2>1, <3>1 DEF Unrecorded, Damaged, Spread, Placed
  <2> DEFINE f == [c \in Unrecorded |-> at[c]]
  <2>4. f \in Injection(Unrecorded, Damaged)
    <3>1. \A c, d \in Unrecorded : at[c] = at[d] => c = d
      BY <2>1, <2>3 DEF Spread
    <3> QED BY <2>3, <3>1 DEF Injection, IsInjective
  <2> HIDE DEF f
  <2> QED BY <2>2, <2>4, FS_Injection
<1> QED BY LedgerInit, LedgerNext, <1>1, PTL DEF Spec

-----------------------------------------------------------------------------
(* Induction along a sequence.  The theorems of the library on induction   *)
(* take a predicate; that every set of naturals has a least element does   *)
(* not, and is all that the following need.                                *)

LEMMA LeastElement ==
  ASSUME NEW S \in SUBSET Nat, S # {}
  PROVE  \E n \in S : \A m \in S : n <= m
<1>1. IsWellFoundedOn(OpToRel(<, Nat), Nat)
  BY NatLessThanWellFounded, Zenon
<1>2. \E n \in S : \A m \in S : <<m, n>> \notin OpToRel(<, Nat)
  BY <1>1, WFMin, Zenon
<1>3. PICK n \in S : \A m \in S : <<m, n>> \notin OpToRel(<, Nat)
  BY <1>2, Zenon
<1>4. \A m \in S : ~(m < n)
  BY <1>3, Zenon DEF OpToRel
<1> QED BY <1>4

(* A set that holds 0 and, with each number below n, the next, holds n.    *)
LEMMA UpTo ==
  ASSUME NEW n \in Nat, NEW Good, 0 \in Good,
         \A k \in 0 .. n - 1 : k \in Good => k + 1 \in Good
  PROVE  0 .. n \subseteq Good
<1> DEFINE Bad == (0 .. n) \ Good
<1> SUFFICES ASSUME Bad # {} PROVE FALSE
  OBVIOUS
<1>1. PICK k \in Bad : \A m \in Bad : k <= m
  <2>1. Bad \in SUBSET Nat
    OBVIOUS
  <2> HIDE DEF Bad
  <2> QED BY <2>1, LeastElement
<1>2. k - 1 \in 0 .. n - 1 /\ k - 1 \in Good
  BY <1>1
<1> QED BY <1>1, <1>2

-----------------------------------------------------------------------------
(* The replay of the file.                                                 *)

(* The recursion has a solution for every number of lines.                 *)
LEMMA ReplayDefined ==
  ASSUME NEW table, NEW lines, Len(lines) \in Nat
  PROVE  \A n \in 0 .. Len(lines) :
           Replay(table, lines)[n] = IF n = 0 THEN table
                                     ELSE Put(Replay(table, lines)[n - 1], lines[n])
<1> DEFINE L == Len(lines)
           Solves(f, k) == f = [n \in 0 .. k |-> IF n = 0 THEN table ELSE Put(f[n - 1], lines[n])]
           Good == {k \in 0 .. L : \E f : Solves(f, k)}
<1>1. 0 \in Good
  <2> DEFINE g == [n \in 0 .. 0 |-> table]
  <2>1. \A n \in 0 .. 0 : g[n] = IF n = 0 THEN table ELSE Put(g[n - 1], lines[n])
    OBVIOUS
  <2>2. Solves(g, 0)
    <3> HIDE DEF g
    <3>1. g = [n \in 0 .. 0 |-> g[n]]
      BY DEF g
    <3> QED BY <2>1, <3>1
  <2>3. \E f : Solves(f, 0)
    BY <2>2
  <2> QED BY <2>3
<1>2. ASSUME NEW k \in 0 .. L - 1, k \in Good
      PROVE  k + 1 \in Good
  <2>1. PICK f : Solves(f, k)
    BY <1>2
  <2> DEFINE next == Put(f[k], lines[k + 1])
             g == [n \in 0 .. k + 1 |-> IF n <= k THEN f[n] ELSE next]
  <2>2. \A n \in 0 .. k : f[n] = IF n = 0 THEN table ELSE Put(f[n - 1], lines[n])
    BY <2>1
  <2> HIDE DEF next
  <2>3. \A n \in 0 .. k + 1 : g[n] = IF n <= k THEN f[n] ELSE next
    OBVIOUS
  <2> HIDE DEF g
  <2>4. ASSUME NEW n \in 0 .. k + 1
        PROVE  g[n] = IF n = 0 THEN table ELSE Put(g[n - 1], lines[n])
    <3>1. CASE n = 0
      BY <2>2, <2>3, <3>1
    <3>2. CASE n \in 1 .. k
      <4>1. g[n] = f[n] /\ g[n - 1] = f[n - 1]
        BY <2>3, <3>2
      <4> QED BY <2>2, <3>2, <4>1
    <3>3. CASE n = k + 1
      <4>1. g[n] = next /\ g[n - 1] = f[k]
        BY <2>3, <3>3
      <4> QED BY <3>3, <4>1 DEF next
    <3> QED BY <3>1, <3>2, <3>3
  <2>5. Solves(g, k + 1)
    BY <2>4 DEF g
  <2> QED BY <2>5
<1>3. \E f : Solves(f, L)
  <2> HIDE DEF Good
  <2>1. 0 .. L \subseteq Good
    BY <1>1, <1>2, UpTo
  <2> QED BY <2>1 DEF Good
<1>4. Replay(table, lines) = CHOOSE f : Solves(f, L)
  BY DEF Replay
<1>5. Solves(Replay(table, lines), L)
  BY <1>3, <1>4
<1> QED BY <1>5

-----------------------------------------------------------------------------
(* Tables: what the Map of rows can be, and what is done with it.          *)

Tables == {t \in Seq(Rows) : \A i, j \in DOMAIN t : DealOf(t[i]) = DealOf(t[j]) => i = j}

(* What a line of the file can be.                                         *)
Lines == Rows \cup {Unparsed}

Contains(table, row) == \E i \in DOMAIN table : table[i] = row

(* A row put into a table takes the place of that of its deal, and leaves  *)
(* the others as they were.                                                *)
LEMMA PutFacts ==
  ASSUME NEW table \in Tables, NEW row \in Rows
  PROVE  /\ Put(table, row) \in Tables
         /\ \A i \in DOMAIN Put(table, row) :
              \/ Put(table, row)[i] = row
              \/ /\ Contains(table, Put(table, row)[i])
                 /\ DealOf(Put(table, row)[i]) # DealOf(row)
         /\ Has(Put(table, row), DealOf(row))
         /\ \A deal : Has(table, deal) => Has(Put(table, row), deal)
<1> DEFINE new == Put(table, row)
           deal(i) == DealOf(table[i])
<1>1. table \in Seq(Rows) /\ \A i, j \in DOMAIN table : deal(i) = deal(j) => i = j
  BY DEF Tables
<1>2. CASE Has(table, DealOf(row))
  <2>1. new = [i \in DOMAIN table |-> IF deal(i) = DealOf(row) THEN row ELSE table[i]]
    BY <1>2 DEF Put
  <2>2. new \in Seq(Rows) /\ DOMAIN new = DOMAIN table
    BY <1>1, <2>1
  <2>3. \A i \in DOMAIN new : /\ new[i] = IF deal(i) = DealOf(row) THEN row ELSE table[i]
                              /\ DealOf(new[i]) = deal(i)
    BY <2>1
  <2>4. new \in Tables
    BY <1>1, <2>2, <2>3 DEF Tables
  <2>5. \A i \in DOMAIN new :
           new[i] = row \/ (Contains(table, new[i]) /\ DealOf(new[i]) # DealOf(row))
    BY <2>2, <2>3 DEF Contains
  <2>6. \A d : Has(table, d) => Has(new, d)
    BY <2>2, <2>3 DEF Has
  <2> QED BY <1>2, <2>4, <2>5, <2>6
<1>3. CASE ~Has(table, DealOf(row))
  <2>1. new = Append(table, row)
    BY <1>3 DEF Put
  <2>2. /\ new \in Seq(Rows) /\ Len(new) = Len(table) + 1 /\ new[Len(table) + 1] = row
        /\ \A i \in DOMAIN table : i \in DOMAIN new /\ new[i] = table[i]
        /\ DOMAIN new = DOMAIN table \cup {Len(table) + 1}
    BY <1>1, <2>1
  <2>3. \A i \in DOMAIN table : deal(i) # DealOf(row)
    BY <1>3 DEF Has
  <2>4. new \in Tables
    <3>1. ASSUME NEW i \in DOMAIN new, NEW j \in DOMAIN new, DealOf(new[i]) = DealOf(new[j])
          PROVE  i = j
      BY <1>1, <2>2, <2>3, <3>1
    <3> QED BY <2>2, <3>1 DEF Tables
  <2>5. \A i \in DOMAIN new :
           new[i] = row \/ (Contains(table, new[i]) /\ DealOf(new[i]) # DealOf(row))
    BY <2>2, <2>3 DEF Contains
  <2>6. Has(new, DealOf(row)) /\ \A d : Has(table, d) => Has(new, d)
    BY <2>2 DEF Has
  <2> QED BY <2>4, <2>5, <2>6
<1> QED BY <1>2, <1>3

(* A replay of lines that parse leaves a table of the old rows and those   *)
(* lines, in which every deal of either has a row.                         *)
LEMMA ReplayFacts ==
  ASSUME NEW table \in Tables, NEW lines \in Seq(Lines), NEW n \in 0 .. Len(lines),
         \A i \in 1 .. n : lines[i] # Unparsed
  PROVE  /\ Replay(table, lines)[n] \in Tables
         /\ \A i \in DOMAIN Replay(table, lines)[n] :
              \/ Contains(table, Replay(table, lines)[n][i])
              \/ Contains(lines, Replay(table, lines)[n][i])
         /\ \A deal : Has(table, deal) => Has(Replay(table, lines)[n], deal)
         /\ \A i \in 1 .. n : Has(Replay(table, lines)[n], DealOf(lines[i]))
<1> DEFINE L == Len(lines)
           R(k) == Replay(table, lines)[k]
           Read(k) ==
             /\ R(k) \in Tables
             /\ \A i \in DOMAIN R(k) : Contains(table, R(k)[i]) \/ Contains(lines, R(k)[i])
             /\ \A deal : Has(table, deal) => Has(R(k), deal)
             /\ \A i \in 1 .. k : Has(R(k), DealOf(lines[i]))
           Good == {k \in 0 .. n : Read(k)}
<1>1. \A k \in 0 .. L : R(k) = IF k = 0 THEN table ELSE Put(R(k - 1), lines[k])
  BY ReplayDefined
<1>2. Read(0)
  BY <1>1 DEF Contains
<1>3. ASSUME NEW k \in 0 .. n - 1, Read(k)
      PROVE  Read(k + 1)
  <2> DEFINE row == lines[k + 1]
  <2>1. k + 1 \in 0 .. L /\ k + 1 \in DOMAIN lines /\ row \in Rows
    BY DEF Lines
  <2>2. R(k + 1) = Put(R(k), row)
    BY <1>1, <2>1
  <2> HIDE DEF R, row
  <2>3. /\ Put(R(k), row) \in Tables
        /\ \A i \in DOMAIN Put(R(k), row) :
             Put(R(k), row)[i] = row \/ Contains(R(k), Put(R(k), row)[i])
        /\ Has(Put(R(k), row), DealOf(row))
        /\ \A deal : Has(R(k), deal) => Has(Put(R(k), row), deal)
    BY <1>3, <2>1, PutFacts
  <2>4. Contains(lines, row)
    BY <2>1 DEF Contains, row
  <2>5. \A i \in DOMAIN R(k + 1) :
           Contains(table, R(k + 1)[i]) \/ Contains(lines, R(k + 1)[i])
    BY <1>3, <2>2, <2>3, <2>4 DEF Contains
  <2>6. \A i \in 1 .. k + 1 : Has(R(k + 1), DealOf(lines[i]))
    <3>1. \A i \in 1 .. k + 1 : i \in 1 .. k \/ lines[i] = row
      BY DEF row
    <3> QED BY <1>3, <2>2, <2>3, <3>1
  <2> QED BY <1>3, <2>2, <2>3, <2>5, <2>6
<1>4. 0 .. n \subseteq Good
  <2> HIDE DEF Read
  <2>1. 0 \in Good /\ \A k \in 0 .. n - 1 : k \in Good => k + 1 \in Good
    BY <1>2, <1>3
  <2>2. n \in Nat
    OBVIOUS
  <2> HIDE DEF Good
  <2> QED BY <2>1, <2>2, UpTo
<1> QED BY <1>4

(* The row that the guard finds is of the asset; it finds none only when   *)
(* the table has none.                                                     *)
LEMMA FoundFacts ==
  ASSUME NEW table \in Seq(Rows), NEW asset
  PROVE  \/ /\ Found(table, asset) = NoRow
            /\ \A i \in DOMAIN table : input[table[i].record].asset # asset
         \/ /\ Found(table, asset) \in Rows /\ Contains(table, Found(table, asset))
            /\ input[Found(table, asset).record].asset = asset
<1> DEFINE S == OfAsset(table, asset)
<1>1. CASE S = {}
  BY <1>1 DEF Found, OfAsset
<1>2. CASE S # {}
  <2> DEFINE First(i) == \A j \in S : i <= j
  <2>1. S \in SUBSET Nat /\ \A i \in S : i \in DOMAIN table /\ input[table[i].record].asset = asset
    BY DEF OfAsset
  <2>2. \E i \in S : First(i)
    <3> HIDE DEF S
    <3> QED BY <1>2, <2>1, LeastElement
  <2>3. PICK i \in S : i = CHOOSE k \in S : First(k)
    <3> HIDE DEF S, First
    <3> QED BY <2>2
  <2>4. Found(table, asset) = table[i]
    BY <1>2, <2>3 DEF Found
  <2> QED BY <2>1, <2>4 DEF Contains
<1> QED BY <1>1, <1>2

(* A deal that has a row has one.                                          *)
LEMMA RowOfFacts ==
  ASSUME rows \in Tables, NEW c, Has(rows, input[c].deal)
  PROVE  /\ RowOf(c) \in Rows /\ Contains(rows, RowOf(c))
         /\ DealOf(RowOf(c)) = input[c].deal
         /\ \A i \in DOMAIN rows : DealOf(rows[i]) = input[c].deal => rows[i] = RowOf(c)
<1>1. PICK i \in DOMAIN rows : i = CHOOSE k \in DOMAIN rows : DealOf(rows[k]) = input[c].deal
  BY DEF Has
<1>2. DealOf(rows[i]) = input[c].deal /\ RowOf(c) = rows[i]
  BY <1>1 DEF Has, RowOf
<1> QED BY <1>2 DEF Tables, Contains

-----------------------------------------------------------------------------
(* What else is true of a ledger.                                          *)

(* The inputs of the calls for one deal are the same.                      *)
Coherent == \A c \in Calls : input[input[c].deal] = input[c]

(* A title named for a call's deal is of its asset and has been minted.    *)
OfCall(c, title) ==
  title # None => input[title].asset = input[c].asset /\ owner[title] # "nobody"

(* What the tracker has done for a call whose title is this.               *)
Sold(c, title) ==
  title # None /\ (input[c].resale => owner[title] = "buyer")

RowSound(row) ==
  /\ OfCall(row.record, row.title)
  /\ row.receipt # 0 /\ tracking => Sold(row.record, row.title)
  /\ row.receipt # 0 /\ ~overlap => Verified(row)

AllSound ==
  /\ \A i \in DOMAIN rows : RowSound(rows[i])
  /\ \A i \in DOMAIN file : RowSound(file[i])

(* What a call knows at each of its places.                                *)
Untitled(c) == pc[c] \in {"idle", "load", "save", "append", "submit", "title"}
PastSave(c) == pc[c] \in {"append", "submit", "title", "confirm", "amend"}

CallSound(c) ==
  /\ OfCall(c, prior[c].title) /\ OfCall(c, issued[c])
  /\ Untitled(c) => owner[c] = "nobody"
  /\ pc[c] = "load" => loaded
  /\ PastSave(c) => Has(rows, input[c].deal)
  /\ pc[c] \in {"title", "confirm", "amend"} => c \in Posted
  /\ pc[c] = "confirm" /\ tracking => Sold(c, issued[c])

(* Calls made in turn run one at a time, and the row of its deal is that   *)
(* of the call that runs.                                                  *)
InTurn ==
  ~overlap =>
    /\ \A c, d \in Calls : Running(c) /\ Running(d) => c = d
    /\ \A c \in Calls : PastSave(c) =>
         \A i \in DOMAIN rows : DealOf(rows[i]) = input[c].deal => rows[i].record = c

(* A table that has been read knows every deal of the topic.               *)
PostedKnown ==
  ~misread /\ loaded /\ (\A c \in Calls : pc[c] # "load") =>
    \A c \in Posted : Has(rows, input[c].deal)

(* A first sale that has passed the guard is the first, and so is one that *)
(* has been posted.                                                        *)
GuardHeld ==
  ~overlap /\ ~misread =>
    /\ \A c \in Calls : pc[c] \in {"save", "append", "submit"} /\ ~input[c].resale =>
         FirstSales(input[c].asset) = {}
    /\ \A asset : \A c, d \in FirstSales(asset) : c = d

DealInv ==
  /\ TypeOK /\ Coherent /\ AllSound /\ \A c \in Calls : CallSound(c)
  /\ InTurn /\ PostedKnown /\ GuardHeld

LEMMA DealInit == Init => DealInv
<1> SUFFICES ASSUME Init PROVE DealInv
  OBVIOUS
<1>1. rows = <<>> /\ file = <<>> /\ topic = <<>> /\ Posted = {}
  BY DEF Init, Posted
<1>2. TypeOK
  <2>1. rows \in Seq(Rows) /\ file \in Seq(Lines) /\ ended \in BOOLEAN /\ topic \in Seq(Calls) /\ DOMAIN rows = {}
    BY <1>1 DEF Init
  <2>2. prior \in [Calls -> Rows \cup {NoRow}] /\ issued \in [Calls -> Calls \cup {None}]
    BY DEF Init
  <2>3. pc \in [Calls -> Positions] /\ owner \in [Calls -> {"nobody", "operator", "buyer"}]
    BY DEF Init, Positions
  <2>4. tracking \in BOOLEAN /\ loaded \in BOOLEAN /\ overlap \in BOOLEAN /\ misread \in BOOLEAN
    BY DEF Init
  <2>5. input \in [Calls -> Inputs] /\ faults \in 0 .. MaxFaults
    BY DealAssumption DEF Init
  <2> QED BY <2>1, <2>2, <2>3, <2>4, <2>5 DEF TypeOK, Positions, Lines
<1>3. AllSound /\ \A c \in Calls : CallSound(c)
  BY <1>1 DEF Init, AllSound, CallSound, OfCall, NoRow, PastSave
<1>4. InTurn /\ PostedKnown /\ GuardHeld /\ Coherent
  BY <1>1 DEF Init, InTurn, PostedKnown, GuardHeld, Coherent, Running, PastSave, FirstSales
<1> QED BY <1>2, <1>3, <1>4 DEF DealInv

-----------------------------------------------------------------------------
(* The types.                                                              *)

LEMMA TypesAsTables == TypeOK => rows \in Tables /\ file \in Seq(Lines)
BY DEF TypeOK, Tables, Lines

LEMMA CheckTypes ==
  ASSUME TypeOK, NEW c \in Calls, NEW table \in Seq(Rows), Check(c, table)
  PROVE  /\ pc' \in [Calls -> Positions] /\ prior' \in [Calls -> Rows \cup {NoRow}]
<1>1. Found(table, input[c].asset) \in Rows \cup {NoRow}
  BY FoundFacts
<1> QED BY <1>1 DEF Check, Goto, TypeOK, Positions, Ended

LEMMA EntryIsRow == ASSUME TypeOK, NEW c \in Calls PROVE Entry(c) \in Rows
BY DEF TypeOK, Entry, Rows, NoRow

(* The receipt of a posted message is where it stands.                     *)
LEMMA ReceiptFacts ==
  ASSUME TypeOK, NEW c \in Calls, c \in Posted
  PROVE  SequenceOf(c) \in DOMAIN topic /\ topic[SequenceOf(c)] = c
BY DEF Posted, SequenceOf

(* The row that a receipt is written in.                                   *)
Confirmed(c) == [RowOf(c) EXCEPT !.receipt = SequenceOf(c), !.title = issued[c]]

LEMMA ConfirmedFacts ==
  ASSUME TypeOK, NEW c \in Calls, c \in Posted, Has(rows, input[c].deal)
  PROVE  /\ Confirmed(c) \in Rows /\ Confirmed(c).record = RowOf(c).record
         /\ Confirmed(c).receipt = SequenceOf(c) /\ Confirmed(c).title = issued[c]
         /\ DealOf(Confirmed(c)) = input[c].deal
<1>1. RowOf(c) \in Rows /\ DealOf(RowOf(c)) = input[c].deal
  BY TypesAsTables, RowOfFacts
<1>2. SequenceOf(c) \in Nat /\ issued[c] \in Calls \cup {None}
  <2>1. topic \in Seq(Calls) /\ issued[c] \in Calls \cup {None}
    BY DEF TypeOK
  <2> QED BY <2>1, ReceiptFacts
<1> QED BY <1>1, <1>2 DEF Confirmed, Rows, DealOf

(* A new line, or none.                                                    *)
LEMMA LineTypes ==
  ASSUME TypeOK, NEW c \in Calls, NEW line \in Rows, NEW next \in Positions,
         AppendLine(c, line, next)
  PROVE  TypeOK'
<1>1. /\ UNCHANGED <<tracking, input, prior, issued, loaded, rows, topic, owner, overlap, misread>>
      /\ faults' \in 0 .. MaxFaults
  BY DealAssumption DEF TypeOK, AppendLine, given, network, history, Fault
<1>2. file' \in {file, With(line), With(Unparsed)} /\ ended' \in BOOLEAN
  BY DEF AppendLine, TypeOK
<1>3. file' \in Seq(Lines)
  <2>1. file \in Seq(Lines)
    BY TypesAsTables
  <2>2. line \in Lines /\ Unparsed \in Lines
    BY DEF Lines
  <2>3. \A new \in Lines : With(new) \in Seq(Lines)
    <3>1. ASSUME NEW new \in Lines
          PROVE  Append(file, new) \in Seq(Lines)
      BY <2>1, <3>1
    <3>2. [file EXCEPT ![Len(file)] = Unparsed] \in Seq(Lines)
      <4>1. Len(file) \in Nat /\ file \in [1 .. Len(file) -> Lines]
        BY <2>1
      <4>2. [file EXCEPT ![Len(file)] = Unparsed] \in [1 .. Len(file) -> Lines]
        BY <2>2, <4>1
      <4> QED BY <4>1, <4>2
    <3> QED BY <3>1, <3>2 DEF With
  <2> QED BY <1>2, <2>1, <2>2, <2>3
<1>4. pc' \in [Calls -> Positions]
  <2>1. \E at \in Positions : pc' = [pc EXCEPT ![c] = at]
    BY DEF AppendLine, Goto, AfterLostLine, Positions, Ended
  <2> QED BY <2>1 DEF TypeOK, Positions
<1> QED BY <1>1, <1>2, <1>3, <1>4 DEF TypeOK, Positions, DealOf, Lines

(* A new table.                                                            *)
LEMMA TableTypes ==
  ASSUME TypeOK, rows' \in Tables, pc' \in [Calls -> Positions],
         prior' \in [Calls -> Rows \cup {NoRow}], loaded' \in BOOLEAN,
         overlap' \in BOOLEAN, misread' \in BOOLEAN, faults' \in 0 .. MaxFaults,
         UNCHANGED <<given, issued, file, ended, network>>
  PROVE  TypeOK'
BY DEF TypeOK, Tables, DealOf, given, network, Positions

LEMMA CallTypes ==
  ASSUME TypeOK, NEW c \in Calls, CallSound(c), Call(c)
  PROVE  TypeOK'
<1> USE DEF Goto
<1>1. rows \in Tables /\ file \in Seq(Lines) /\ pc \in [Calls -> Positions] /\ rows \in Seq(Rows)
  BY TypesAsTables DEF TypeOK, Positions
<1>2. /\ prior \in [Calls -> Rows \cup {NoRow}] /\ faults \in 0 .. MaxFaults
      /\ overlap \in BOOLEAN /\ misread \in BOOLEAN /\ loaded \in BOOLEAN
      /\ MaxFaults \in Nat
  BY DealAssumption DEF TypeOK
<1>3. CASE Begin(c)
  <2>1. UNCHANGED <<given, issued, file, ended, network, rows, misread, faults>>
    BY <1>3 DEF Begin
  <2>2. overlap' \in BOOLEAN /\ loaded' \in BOOLEAN
    BY <1>2, <1>3 DEF Begin
  <2>3. pc' \in [Calls -> Positions] /\ prior' \in [Calls -> Rows \cup {NoRow}]
    <3>1. CASE pc' = [pc EXCEPT ![c] = "load"] /\ UNCHANGED prior
      BY <1>1, <1>2, <3>1 DEF Positions
    <3>2. CASE Check(c, rows)
      BY <1>1, <3>2, CheckTypes
    <3> QED BY <1>3, <3>1, <3>2 DEF Begin
  <2> QED BY <1>1, <1>2, <2>1, <2>2, <2>3, TableTypes
<1>4. CASE Load(c)
  <2>1. UNCHANGED <<given, issued, file, ended, network, loaded, overlap>>
    BY <1>4 DEF Load
  <2>2. misread' \in BOOLEAN /\ faults' \in 0 .. MaxFaults
    <3>1. (misread' = misread \/ misread' = TRUE) /\ (faults' = faults \/ Fault)
      BY <1>4 DEF Load
    <3>2. misread' \in BOOLEAN
      BY <1>2, <3>1
    <3>3. faults' \in 0 .. MaxFaults
      BY <1>2, <3>1 DEF Fault
    <3> QED BY <3>2, <3>3
  <2>4. rows' \in Tables
    BY <1>1, <1>4, ReplayFacts DEF Load
  <2>5. pc' \in [Calls -> Positions] /\ prior' \in [Calls -> Rows \cup {NoRow}]
    <3>1. CASE pc' = [pc EXCEPT ![c] = "failed"] /\ UNCHANGED prior
      BY <1>1, <1>2, <3>1 DEF Positions, Ended
    <3>2. CASE Check(c, rows')
      <4>1. rows' \in Seq(Rows)
        BY <2>4 DEF Tables
      <4> HIDE DEF Goto
      <4> QED BY <3>2, <4>1, CheckTypes
    <3> QED BY <1>4, <3>1, <3>2 DEF Load
  <2> QED BY <1>2, <2>1, <2>2, <2>4, <2>5, TableTypes
<1>5. CASE SavePending(c)
  <2>1. UNCHANGED <<given, prior, issued, loaded, file, ended, network, history, faults>>
    BY <1>5 DEF SavePending
  <2>2. rows' \in Tables
    BY <1>1, <1>5, EntryIsRow, PutFacts DEF SavePending
  <2>3. pc' \in [Calls -> Positions]
    BY <1>1, <1>5 DEF SavePending, Positions
  <2> QED BY <1>2, <2>1, <2>2, <2>3, TableTypes DEF history
<1>6. CASE AppendRow(c)
  BY <1>6, EntryIsRow, LineTypes DEF AppendRow, Positions
<1>7. CASE Submit(c)
  <2>1. UNCHANGED <<given, prior, issued, store, owner, history>>
    BY <1>7 DEF Submit
  <2>2. topic' \in Seq(Calls)
    <3>1. topic \in Seq(Calls)
      BY DEF TypeOK
    <3>2. topic' = topic \/ topic' = Append(topic, c)
      BY <1>7 DEF Submit
    <3> QED BY <3>1, <3>2
  <2>3. pc' \in [Calls -> Positions] /\ faults' \in 0 .. MaxFaults
    BY <1>1, <1>2, <1>7 DEF Submit, Positions, Ended, Fault
  <2> QED BY <2>1, <2>2, <2>3 DEF TypeOK, given, store, history, Positions, DealOf
<1>8. CASE Title(c)
  <2>1. UNCHANGED <<given, prior, store, topic, history>>
    BY <1>8 DEF Title
  <2>2. pc' \in [Calls -> Positions] /\ faults' \in 0 .. MaxFaults
    BY <1>1, <1>2, <1>8 DEF Title, Positions, Ended, Fault
  <2>3. /\ issued' \in [Calls -> Calls \cup {None}]
        /\ owner' \in [Calls -> {"nobody", "operator", "buyer"}]
    <3>1. prior[c].title \in Calls \cup {None}
      BY <1>2 DEF Rows, NoRow
    <3>2. /\ issued \in [Calls -> Calls \cup {None}]
          /\ owner \in [Calls -> {"nobody", "operator", "buyer"}]
      BY DEF TypeOK
    <3> QED BY <1>8, <3>1, <3>2 DEF Title, Issue, Transfer
  <2> QED BY <2>1, <2>2, <2>3 DEF TypeOK, given, store, history, Positions, DealOf
<1>9. CASE MarkConfirmed(c)
  <2>1. UNCHANGED <<given, prior, issued, loaded, file, ended, network, history, faults>>
    BY <1>9 DEF MarkConfirmed
  <2>2. c \in Posted /\ Has(rows, input[c].deal)
    BY <1>9 DEF MarkConfirmed, CallSound, PastSave
  <2>3. rows' = Put(rows, Confirmed(c))
    BY <1>9 DEF MarkConfirmed, Confirmed
  <2>4. rows' \in Tables
    BY <1>1, <2>2, <2>3, ConfirmedFacts, PutFacts
  <2>5. pc' \in [Calls -> Positions]
    BY <1>1, <1>9 DEF MarkConfirmed, Positions
  <2> QED BY <1>2, <2>1, <2>4, <2>5, TableTypes DEF history
<1>10. CASE AppendAmendment(c)
  <2>1. Has(rows, input[c].deal)
    BY <1>10 DEF AppendAmendment, CallSound, PastSave
  <2>2. RowOf(c) \in Rows
    BY <1>1, <2>1, RowOfFacts
  <2> QED BY <1>10, <2>2, LineTypes DEF AppendAmendment, Positions, Ended
<1> QED BY <1>3, <1>4, <1>5, <1>6, <1>7, <1>8, <1>9, <1>10 DEF Call

LEMMA RestartTypes == TypeOK /\ Restart => TypeOK'
<1> SUFFICES ASSUME TypeOK, Restart PROVE TypeOK'
  OBVIOUS
<1>1. pc' \in [Calls -> Positions] /\ faults' \in 0 .. MaxFaults
  BY DealAssumption DEF TypeOK, Restart, Positions, Ended, Fault
<1>2. /\ prior' \in [Calls -> Rows \cup {NoRow}] /\ issued' \in [Calls -> Calls \cup {None}]
      /\ loaded' = FALSE /\ rows' = <<>> /\ UNCHANGED <<given, file, ended, network, history>>
  BY DEF Restart
<1>3. rows' \in Seq(Rows) /\ DOMAIN rows' = {}
  BY <1>2
<1> QED BY <1>1, <1>2, <1>3 DEF TypeOK, given, network, history, Positions

-----------------------------------------------------------------------------
(* What no step takes back.                                                *)

(* Messages stay on the topic; a title goes from nobody to the operator to *)
(* a buyer; calls that have overlapped have.                               *)
WorldGrows ==
  /\ UNCHANGED given /\ (overlap => overlap')
  /\ topic' = topic \/ \E c \in Calls : topic' = Append(topic, c)
  /\ \A t \in Calls : \/ owner'[t] = owner[t]
                      \/ owner[t] = "nobody" /\ owner'[t] = "operator"
                      \/ owner[t] = "operator" /\ owner'[t] = "buyer"

(* A step of one call is none of the others'.                              *)
Aside(c) ==
  /\ misread => misread'
  /\ \A d \in Calls \ {c} : /\ pc'[d] = pc[d] /\ prior'[d] = prior[d] /\ issued'[d] = issued[d]
                            /\ owner[d] = "nobody" => owner'[d] = "nobody"

LEMMA MessagesStay ==
  ASSUME TypeOK, WorldGrows
  PROVE  /\ \A n \in DOMAIN topic : n \in DOMAIN topic' /\ topic'[n] = topic[n]
         /\ \A c \in Posted : c \in Posted'
<1>1. topic \in Seq(Calls)
  BY DEF TypeOK
<1>2. \A n \in DOMAIN topic : n \in DOMAIN topic' /\ topic'[n] = topic[n]
  BY <1>1 DEF WorldGrows
<1> QED BY <1>2 DEF Posted

LEMMA TitlesStay ==
  ASSUME TypeOK, WorldGrows, NEW c \in Calls, NEW title \in Calls \cup {None}
  PROVE  /\ OfCall(c, title) => OfCall(c, title)'
         /\ Sold(c, title) => Sold(c, title)'
<1>1. input' = input
  BY DEF WorldGrows, given
<1>2. title # None => /\ owner[title] # "nobody" => owner'[title] # "nobody"
                      /\ owner[title] = "buyer" => owner'[title] = "buyer"
  BY DEF WorldGrows
<1> QED BY <1>1, <1>2 DEF OfCall, Sold

LEMMA RowStays ==
  ASSUME TypeOK, WorldGrows, NEW row \in Lines, RowSound(row)
  PROVE  RowSound(row)'
<1> SUFFICES ASSUME row \in Rows PROVE RowSound(row)'
  BY DEF Lines, Unparsed, NoRow, RowSound, OfCall
<1>1. row.record \in Calls /\ row.title \in Calls \cup {None} /\ tracking' = tracking
  BY DEF Rows, WorldGrows, given
<1>2. Verified(row) => Verified(row)'
  <2>1. ASSUME Verified(row)
        PROVE  Verified(row)'
    <3>1. row.receipt \in DOMAIN topic /\ topic[row.receipt] = row.record
      BY <1>1, <2>1, DealAssumption DEF Verified, Fetched
    <3>2. row.receipt \in DOMAIN topic' /\ topic'[row.receipt] = row.record
      BY <3>1, MessagesStay
    <3> QED BY <3>2 DEF Verified, Fetched
  <2> QED BY <2>1
<1>3. OfCall(row.record, row.title)'
  BY <1>1, TitlesStay DEF RowSound
<1>4. row.receipt # 0 /\ tracking' => Sold(row.record, row.title)'
  BY <1>1, TitlesStay DEF RowSound
<1>5. row.receipt # 0 /\ ~overlap' => Verified(row)'
  BY <1>2 DEF RowSound, WorldGrows
<1> QED BY <1>3, <1>4, <1>5 DEF RowSound

LEMMA CallGrows ==
  ASSUME TypeOK, NEW c \in Calls, CallSound(c), Call(c)
  PROVE  WorldGrows /\ Aside(c)
<1> USE DEF Goto
<1>1. /\ pc \in [Calls -> Positions] /\ prior \in [Calls -> Rows \cup {NoRow}]
      /\ issued \in [Calls -> Calls \cup {None}]
      /\ owner \in [Calls -> {"nobody", "operator", "buyer"}]
  BY DEF TypeOK, Positions
<1>2. CASE Begin(c) \/ Load(c)
  <2>1. UNCHANGED <<given, topic, owner, issued>>
    BY <1>2 DEF Begin, Load, network
  <2>2. overlap => overlap'
    <3>1. Begin(c) => overlap' = (overlap \/ \E d \in Calls : Running(d))
      BY DEF Begin
    <3>2. Load(c) => overlap' = overlap
      BY DEF Load
    <3> QED BY <1>2, <3>1, <3>2
  <2>3. misread => misread'
    <3>1. misread' = misread \/ misread' = TRUE
      BY <1>2 DEF Begin, Load
    <3> QED BY <3>1
  <2>4. \A d \in Calls \ {c} : pc'[d] = pc[d] /\ prior'[d] = prior[d]
    BY <1>1, <1>2 DEF Begin, Load, Check
  <2> QED BY <2>1, <2>2, <2>3, <2>4 DEF WorldGrows, Aside
<1>3. CASE SavePending(c) \/ MarkConfirmed(c)
  <2>1. UNCHANGED <<given, topic, owner, issued, prior, overlap, misread>>
    BY <1>3 DEF SavePending, MarkConfirmed, network, history
  <2>2. \A d \in Calls \ {c} : pc'[d] = pc[d]
    BY <1>1, <1>3 DEF SavePending, MarkConfirmed
  <2> QED BY <2>1, <2>2 DEF WorldGrows, Aside
<1>4. CASE AppendRow(c) \/ AppendAmendment(c)
  <2>1. UNCHANGED <<given, topic, owner, issued, prior, overlap, misread>>
    BY <1>4 DEF AppendRow, AppendAmendment, AppendLine, network, history
  <2>2. \A d \in Calls \ {c} : pc'[d] = pc[d]
    BY <1>1, <1>4 DEF AppendRow, AppendAmendment, AppendLine
  <2> QED BY <2>1, <2>2 DEF WorldGrows, Aside
<1>5. CASE Submit(c)
  <2>1. UNCHANGED <<given, owner, issued, prior, overlap, misread>>
    BY <1>5 DEF Submit, history
  <2>2. \A d \in Calls \ {c} : pc'[d] = pc[d]
    BY <1>1, <1>5 DEF Submit
  <2>3. topic' = topic \/ topic' = Append(topic, c)
    BY <1>5 DEF Submit
  <2> QED BY <2>1, <2>2, <2>3 DEF WorldGrows, Aside
<1>6. CASE Title(c)
  <2>1. UNCHANGED <<given, topic, prior, overlap, misread>>
    BY <1>6 DEF Title, history
  <2>2. \A d \in Calls \ {c} : pc'[d] = pc[d] /\ issued'[d] = issued[d]
    BY <1>1, <1>6 DEF Title, Issue, Transfer
  <2>3. owner[c] = "nobody"
    BY <1>6 DEF Title, CallSound, Untitled
  <2>4. owner' = owner \/ Issue(c) \/ Transfer(c)
    BY <1>6 DEF Title
  <2>5. \A t \in Calls : \/ owner'[t] = owner[t]
                         \/ t = c /\ owner[t] = "nobody" /\ owner'[t] = "operator"
                         \/ owner[t] = "operator" /\ owner'[t] = "buyer"
    BY <1>1, <2>3, <2>4 DEF Issue, Transfer, Transferable
  <2> QED BY <2>1, <2>2, <2>5 DEF WorldGrows, Aside
<1> QED BY <1>2, <1>3, <1>4, <1>5, <1>6 DEF Call

(* A deal that has a row keeps one as long as the process runs.            *)
LEMMA DealsStay ==
  ASSUME TypeOK, NEW c \in Calls, CallSound(c), Call(c)
  PROVE  \A deal : Has(rows, deal) => Has(rows, deal)'
<1>1. rows \in Tables /\ file \in Seq(Lines) /\ input' = input
  BY TypesAsTables, CallGrows DEF TypeOK, WorldGrows, given
<1>2. \A deal : Has(rows', deal) <=> Has(rows, deal)'
  BY <1>1 DEF Has, DealOf
<1>3. CASE rows' = rows
  BY <1>2, <1>3
<1>4. CASE Load(c)
  <2>1. PICK n \in 0 .. Len(file) : /\ rows' = Replay(rows, file)[n]
                                   /\ \A i \in 1 .. n : file[i] # Unparsed
    BY <1>4 DEF Load
  <2> QED BY <1>1, <1>2, <2>1, ReplayFacts
<1>5. CASE SavePending(c)
  BY <1>1, <1>2, <1>5, EntryIsRow, PutFacts DEF SavePending
<1>6. CASE MarkConfirmed(c)
  <2>1. c \in Posted /\ Has(rows, input[c].deal) /\ rows' = Put(rows, Confirmed(c))
    BY <1>6 DEF MarkConfirmed, CallSound, PastSave, Confirmed
  <2> QED BY <1>1, <1>2, <2>1, ConfirmedFacts, PutFacts
<1> QED BY <1>3, <1>4, <1>5, <1>6
      DEF Call, Begin, AppendRow, AppendAmendment, AppendLine, Submit, Title, store

-----------------------------------------------------------------------------
(* The rows and the lines.                                                 *)

(* What the guard found is a row of the asset of the call.                 *)
LEMMA CheckSound ==
  ASSUME TypeOK, NEW c \in Calls, NEW table \in Tables, Check(c, table),
         \A i \in DOMAIN table : RowSound(table[i])
  PROVE  OfCall(c, prior'[c].title)
<1> DEFINE row == Found(table, input[c].asset)
<1>1. prior'[c] = row
  BY DEF Check, TypeOK
<1>2. CASE row = NoRow
  BY <1>1, <1>2 DEF OfCall, NoRow
<1>3. CASE row # NoRow
  <2>1. row \in Rows /\ Contains(table, row) /\ input[row.record].asset = input[c].asset
    BY <1>3, FoundFacts DEF Tables
  <2>2. RowSound(row)
    BY <2>1 DEF Contains
  <2> QED BY <1>1, <2>1, <2>2 DEF RowSound, OfCall
<1> QED BY <1>2, <1>3

LEMMA EntrySound ==
  ASSUME TypeOK, NEW c \in Calls, CallSound(c)
  PROVE  RowSound(Entry(c))
<1>1. Entry(c).record = c /\ Entry(c).receipt = 0 /\ Entry(c).title = prior[c].title
  BY DEF Entry
<1> QED BY <1>1 DEF RowSound, CallSound

(* Calls for one deal have one input.                                      *)
LEMMA SameDeal ==
  ASSUME TypeOK, Coherent, NEW c \in Calls, NEW d \in Calls, input[c].deal = input[d].deal
  PROVE  input[c] = input[d]
BY DEF Coherent

LEMMA ConfirmedSound ==
  ASSUME DealInv, NEW c \in Calls, pc[c] = "confirm"
  PROVE  RowSound(Confirmed(c))
<1> DEFINE row == Confirmed(c)
<1>1. TypeOK /\ Coherent /\ CallSound(c) /\ InTurn
  BY DEF DealInv
<1>2. c \in Posted /\ Has(rows, input[c].deal)
  BY <1>1 DEF CallSound, PastSave
<1>3. /\ row \in Rows /\ row.record = RowOf(c).record /\ row.receipt = SequenceOf(c)
      /\ row.title = issued[c] /\ DealOf(row) = input[c].deal
  BY <1>1, <1>2, ConfirmedFacts
<1>4. row.record \in Calls /\ input[row.record] = input[c]
  BY <1>1, <1>3, SameDeal DEF Rows, DealOf
<1>5. OfCall(row.record, row.title)
  BY <1>1, <1>3, <1>4 DEF CallSound, OfCall
<1>6. tracking => Sold(row.record, row.title)
  BY <1>1, <1>3, <1>4 DEF CallSound, Sold
<1>7. ~overlap => Verified(row)
  <2>1. SequenceOf(c) \in DOMAIN topic /\ topic[SequenceOf(c)] = c
    BY <1>1, <1>2, ReceiptFacts
  <2>2. ~overlap => RowOf(c).record = c
    <3>1. Contains(rows, RowOf(c)) /\ DealOf(RowOf(c)) = input[c].deal
      BY <1>1, <1>2, TypesAsTables, RowOfFacts
    <3> QED BY <1>1, <3>1 DEF Contains, InTurn, PastSave
  <2> QED BY <1>3, <2>1, <2>2 DEF Verified, Fetched
<1> QED BY <1>5, <1>6, <1>7 DEF RowSound

LEMMA RowsSound ==
  ASSUME DealInv, NEW c \in Calls, Call(c)
  PROVE  (\A i \in DOMAIN rows : RowSound(rows[i]))'
<1>1. TypeOK /\ CallSound(c) /\ AllSound
  BY DEF DealInv
<1>2. WorldGrows /\ rows \in Tables /\ rows \in Seq(Rows) /\ file \in Seq(Lines)
  BY <1>1, CallGrows, TypesAsTables DEF TypeOK
<1>3. \A row \in Lines : RowSound(row) => RowSound(row)'
  BY <1>1, <1>2, RowStays
<1>4. SUFFICES rows' \in Seq(Rows) /\ \A i \in DOMAIN rows' : RowSound(rows'[i])
  <2> SUFFICES ASSUME rows' \in Seq(Rows), \A i \in DOMAIN rows' : RowSound(rows'[i])
               PROVE  (\A i \in DOMAIN rows : RowSound(rows[i]))'
    OBVIOUS
  <2> SUFFICES ASSUME NEW i \in DOMAIN rows'
               PROVE  RowSound(rows[i])'
    OBVIOUS
  <2>1. PICK row \in Lines : row = rows'[i]
    BY DEF Lines
  <2>2. RowSound(row)'
    BY <1>3, <2>1
  <2> QED BY <2>1, <2>2 DEF RowSound, OfCall, Sold, Verified, Fetched
<1>5. rows' \in Seq(Rows)
  BY <1>1, CallTypes DEF TypeOK
<1>6. CASE rows' = rows
  BY <1>1, <1>2, <1>6 DEF AllSound
<1>7. CASE Load(c)
  <2>2. PICK n \in 0 .. Len(file) : /\ rows' = Replay(rows, file)[n]
                                   /\ \A i \in 1 .. n : file[i] # Unparsed
    BY <1>7 DEF Load
  <2>3. \A i \in DOMAIN rows' : Contains(rows, rows'[i]) \/ Contains(file, rows'[i])
    BY <1>2, <2>2, ReplayFacts
  <2> QED BY <1>1, <1>5, <2>3 DEF AllSound, Contains
<1>8. CASE SavePending(c)
  <2>1. \A i \in DOMAIN rows' : rows'[i] = Entry(c) \/ Contains(rows, rows'[i])
    BY <1>1, <1>2, <1>8, EntryIsRow, PutFacts DEF SavePending
  <2> QED BY <1>1, <1>5, <2>1, EntrySound DEF AllSound, Contains
<1>9. CASE MarkConfirmed(c)
  <2>1. pc[c] = "confirm" /\ rows' = Put(rows, Confirmed(c))
    BY <1>9 DEF MarkConfirmed, Confirmed
  <2>2. Confirmed(c) \in Rows
    BY <1>1, <2>1, ConfirmedFacts DEF CallSound, PastSave
  <2>3. \A i \in DOMAIN rows' : rows'[i] = Confirmed(c) \/ Contains(rows, rows'[i])
    BY <1>2, <2>1, <2>2, PutFacts
  <2> QED BY <1>1, <1>5, <2>1, <2>3, ConfirmedSound DEF AllSound, Contains
<1> QED BY <1>5, <1>6, <1>7, <1>8, <1>9
      DEF Call, Begin, AppendRow, AppendAmendment, AppendLine, Submit, Title, store

LEMMA LinesSound ==
  ASSUME LedgerInv, DealInv, NEW c \in Calls, Call(c)
  PROVE  (\A i \in DOMAIN file : RowSound(file[i]))'
<1>1. TypeOK /\ CallSound(c) /\ AllSound
  BY DEF DealInv
<1>2. WorldGrows /\ rows \in Tables /\ file \in Seq(Lines)
  BY <1>1, CallGrows, TypesAsTables DEF TypeOK
<1>3. \A row \in Lines : RowSound(row) => RowSound(row)'
  BY <1>1, <1>2, RowStays
<1>4. SUFFICES file' \in Seq(Lines) /\ \A i \in DOMAIN file' : RowSound(file'[i])
  <2> SUFFICES ASSUME file' \in Seq(Lines), \A i \in DOMAIN file' : RowSound(file'[i])
               PROVE  (\A i \in DOMAIN file : RowSound(file[i]))'
    OBVIOUS
  <2> SUFFICES ASSUME NEW i \in DOMAIN file'
               PROVE  RowSound(file[i])'
    OBVIOUS
  <2>1. PICK row \in Lines : row = file'[i]
    OBVIOUS
  <2>2. RowSound(row)'
    BY <1>3, <2>1
  <2> QED BY <2>1, <2>2 DEF RowSound, OfCall, Sold, Verified, Fetched
<1>5. file' \in Seq(Lines)
  BY <1>1, CallTypes DEF TypeOK, Lines
<1>6. ASSUME NEW line \in Rows, RowSound(line), file' \in {file, With(line), With(Unparsed)},
             ended' \in BOOLEAN
      PROVE  \A i \in DOMAIN file' : RowSound(file'[i])
  <2>1. IsFile
    BY DEF LedgerInv
  <2>2. \A i \in DOMAIN file' : \/ file'[i] = line \/ file'[i] = Unparsed
                              \/ Contains(file, file'[i])
    <3>1. CASE file' = file
      BY <3>1 DEF Contains
    <3>2. ASSUME NEW new, file' = With(new), new = line \/ new = Unparsed
          PROVE  \A i \in DOMAIN file' : \/ file'[i] = line \/ file'[i] = Unparsed
                                       \/ Contains(file, file'[i])
      BY <1>6, <2>1, <3>2, WithFacts DEF Contains
    <3> QED BY <1>6, <3>1, <3>2
  <2>3. RowSound(Unparsed)
    BY DEF Unparsed, NoRow, RowSound, OfCall
  <2> QED BY <1>1, <1>6, <2>2, <2>3 DEF AllSound, Contains
<1>7. CASE file' = file
  BY <1>1, <1>2, <1>7 DEF AllSound
<1>8. CASE AppendRow(c)
  <2>1. file' \in {file, With(Entry(c)), With(Unparsed)} /\ ended' \in BOOLEAN
    BY <1>1, <1>8 DEF AppendRow, AppendLine, TypeOK
  <2> QED BY <1>1, <1>5, <1>6, <2>1, EntryIsRow, EntrySound
<1>9. CASE AppendAmendment(c)
  <2>1. file' \in {file, With(RowOf(c)), With(Unparsed)} /\ ended' \in BOOLEAN
    BY <1>1, <1>9 DEF AppendAmendment, AppendLine, TypeOK
  <2>2. RowOf(c) \in Rows /\ Contains(rows, RowOf(c))
    BY <1>1, <1>2, <1>9, RowOfFacts DEF AppendAmendment, CallSound, PastSave
  <2>3. RowSound(RowOf(c))
    BY <1>1, <2>2 DEF AllSound, Contains
  <2> QED BY <1>5, <1>6, <2>1, <2>2, <2>3
<1> QED BY <1>5, <1>7, <1>8, <1>9
      DEF Call, Begin, Load, SavePending, Submit, Title, MarkConfirmed, store

-----------------------------------------------------------------------------
(* The calls.                                                              *)

LEMMA OthersSound ==
  ASSUME DealInv, NEW c \in Calls, Call(c), NEW d \in Calls, d # c
  PROVE  CallSound(d)'
<1>1. TypeOK /\ CallSound(c) /\ CallSound(d)
  BY DEF DealInv
<1>2. WorldGrows /\ Aside(c)
  BY <1>1, CallGrows
<1>3. /\ pc'[d] = pc[d] /\ prior'[d] = prior[d] /\ issued'[d] = issued[d]
      /\ owner[d] = "nobody" => owner'[d] = "nobody"
      /\ input' = input /\ tracking' = tracking
  BY <1>2 DEF Aside, WorldGrows, given
<1>4. prior[d].title \in Calls \cup {None} /\ issued[d] \in Calls \cup {None}
  BY <1>1 DEF TypeOK, Rows, NoRow
<1>5. \A title \in Calls \cup {None} : /\ OfCall(d, title) => OfCall(d, title)'
                                       /\ Sold(d, title) => Sold(d, title)'
  BY <1>1, <1>2, TitlesStay
<1>6. OfCall(d, prior[d].title)' /\ OfCall(d, issued[d])'
  BY <1>1, <1>3, <1>4, <1>5 DEF CallSound, OfCall
<1>7. (pc[d] = "confirm" /\ tracking => Sold(d, issued[d]))'
  BY <1>1, <1>3, <1>4, <1>5 DEF CallSound, Sold
<1>8. (Untitled(d) => owner[d] = "nobody")'
  BY <1>1, <1>3 DEF CallSound, Untitled
<1>9. (PastSave(d) => Has(rows, input[d].deal))'
  <2>1. PastSave(d)' => PastSave(d)
    BY <1>3 DEF PastSave
  <2>2. Has(rows, input[d].deal) => Has(rows, input[d].deal)'
    BY <1>1, <1>3, DealsStay DEF Has
  <2> QED BY <1>1, <2>1, <2>2 DEF CallSound
<1>10. (pc[d] \in {"title", "confirm", "amend"} => d \in Posted)'
  BY <1>1, <1>2, <1>3, MessagesStay DEF CallSound
<1>11. (pc[d] = "load" => loaded)'
  <2>1. loaded' = loaded \/ loaded' = TRUE
    BY DEF Call, Begin, Load, SavePending, AppendRow, AppendAmendment, AppendLine, Submit,
           Title, MarkConfirmed, store
  <2> QED BY <1>1, <1>3, <2>1 DEF CallSound
<1> QED BY <1>6, <1>7, <1>8, <1>9, <1>10, <1>11 DEF CallSound

(* Where a step of the call takes it when it has no title to deal with.    *)
LEMMA PlaceSound ==
  ASSUME DealInv, NEW c \in Calls, Call(c), issued' = issued, owner' = owner,
         OfCall(c, prior'[c].title), pc'[c] \notin {"title", "confirm"},
         pc'[c] = "load" => loaded',
         Untitled(c)' => Untitled(c),
         PastSave(c)' => Has(rows, input[c].deal)',
         pc'[c] = "amend" => c \in Posted
  PROVE  CallSound(c)'
<1>1. TypeOK /\ CallSound(c) /\ WorldGrows
  BY CallGrows DEF DealInv
<1>2. input' = input
  BY <1>1 DEF WorldGrows, given
<1>3. c \in Posted => c \in Posted'
  BY <1>1, MessagesStay
<1> QED BY <1>1, <1>2, <1>3 DEF CallSound, OfCall

LEMMA ItselfSound ==
  ASSUME DealInv, NEW c \in Calls, Call(c)
  PROVE  CallSound(c)'
<1> USE DEF Goto
<1>1. TypeOK /\ CallSound(c) /\ Coherent /\ AllSound /\ WorldGrows
  BY CallGrows DEF DealInv
<1>2. /\ pc \in [Calls -> Positions] /\ rows \in Tables /\ file \in Seq(Lines)
      /\ prior \in [Calls -> Rows \cup {NoRow}] /\ issued \in [Calls -> Calls \cup {None}]
      /\ owner \in [Calls -> {"nobody", "operator", "buyer"}]
  BY <1>1, TypesAsTables DEF TypeOK, Positions
<1>3. OfCall(c, prior[c].title) /\ OfCall(c, issued[c]) /\ input' = input
  BY <1>1 DEF CallSound, WorldGrows, given
<1>4. \A deal : Has(rows, deal) => Has(rows, deal)'
  BY <1>1, DealsStay
<1>5. PastSave(c) => Has(rows, input[c].deal)'
  BY <1>1, <1>3, <1>4 DEF CallSound, Has
<1>6. CASE Begin(c)
  <2>1. pc[c] = "idle" /\ issued' = issued /\ owner' = owner /\ rows' = rows
    BY <1>6 DEF Begin, network
  <2>2. /\ pc'[c] \in {"load", "refused", "save"} /\ (pc'[c] = "load" => loaded')
        /\ OfCall(c, prior'[c].title)
    <3>1. CASE pc' = [pc EXCEPT ![c] = "load"] /\ loaded' = TRUE /\ UNCHANGED prior
      BY <1>2, <1>3, <3>1
    <3>2. CASE Check(c, rows)
      <4>1. OfCall(c, prior'[c].title)
        BY <1>1, <1>2, <3>2, CheckSound DEF AllSound
      <4> QED BY <1>2, <3>2, <4>1 DEF Check
    <3> QED BY <1>6, <3>1, <3>2 DEF Begin
  <2> QED BY <2>1, <2>2, PlaceSound DEF Untitled, PastSave
<1>7. CASE Load(c)
  <2>1. pc[c] = "load" /\ issued' = issued /\ owner' = owner
    BY <1>7 DEF Load, network
  <2>2. pc'[c] \in {"failed", "refused", "save"} /\ OfCall(c, prior'[c].title)
    <3>1. CASE pc' = [pc EXCEPT ![c] = "failed"] /\ UNCHANGED prior
      BY <1>2, <1>3, <3>1
    <3>2. CASE Check(c, rows')
      <4>1. PICK n \in 0 .. Len(file) : /\ rows' = Replay(rows, file)[n]
                                       /\ \A i \in 1 .. n : file[i] # Unparsed
        BY <1>7 DEF Load
      <4>2. /\ rows' \in Tables
            /\ \A i \in DOMAIN rows' : Contains(rows, rows'[i]) \/ Contains(file, rows'[i])
        BY <1>2, <4>1, ReplayFacts
      <4>3. \A i \in DOMAIN rows' : RowSound(rows'[i])
        BY <1>1, <4>2 DEF AllSound, Contains
      <4>4. OfCall(c, prior'[c].title)
        BY <1>1, <3>2, <4>2, <4>3, CheckSound
      <4> QED BY <1>2, <3>2, <4>4 DEF Check
    <3> QED BY <1>7, <3>1, <3>2 DEF Load
  <2> QED BY <2>1, <2>2, PlaceSound DEF Untitled, PastSave
<1>8. CASE SavePending(c)
  <2>1. /\ pc[c] = "save" /\ pc'[c] = "append" /\ issued' = issued /\ owner' = owner
        /\ prior' = prior /\ rows' = Put(rows, Entry(c))
    BY <1>2, <1>8 DEF SavePending, network
  <2>2. Entry(c) \in Rows /\ DealOf(Entry(c)) = input[c].deal
    BY <1>1, EntryIsRow DEF Entry, DealOf
  <2>3. Has(Put(rows, Entry(c)), input[c].deal)
    BY <1>2, <2>2, PutFacts
  <2>4. Has(rows, input[c].deal)'
    BY <1>3, <2>1, <2>3 DEF Has, DealOf
  <2> QED BY <1>3, <2>1, <2>4, PlaceSound DEF Untitled
<1>9. CASE AppendRow(c)
  <2>1. /\ pc[c] = "append" /\ pc'[c] \in {"submit", "failed"} /\ issued' = issued
        /\ owner' = owner /\ prior' = prior
    BY <1>2, <1>9 DEF AppendRow, AppendLine, AfterLostLine, network
  <2> QED BY <1>3, <1>5, <2>1, PlaceSound DEF Untitled, PastSave
<1>10. CASE Submit(c)
  <2>1. /\ pc[c] = "submit" /\ pc'[c] \in {"title", "failed"} /\ issued' = issued
        /\ owner' = owner /\ prior' = prior
    BY <1>2, <1>10 DEF Submit
  <2>2. pc'[c] = "title" => c \in Posted'
    <3>1. topic \in Seq(Calls)
      BY <1>1 DEF TypeOK
    <3>2. pc'[c] = "title" => topic' = Append(topic, c)
      BY <1>2, <1>10 DEF Submit
    <3> QED BY <3>1, <3>2 DEF Posted
  <2> QED BY <1>1, <1>3, <1>5, <2>1, <2>2 DEF CallSound, OfCall, Untitled, PastSave
<1>11. CASE Title(c)
  <2>1. /\ pc[c] = "title" /\ pc'[c] \in {"confirm", "failed"} /\ prior' = prior
        /\ UNCHANGED <<tracking, topic, rows>>
    BY <1>2, <1>11 DEF Title, store, given
  <2>2. prior[c].title \in Calls \cup {None} /\ issued[c] \in Calls \cup {None}
    BY <1>2 DEF Rows, NoRow
  <2>3. OfCall(c, prior[c].title)'
    BY <1>1, <1>3, <2>1, <2>2, TitlesStay DEF OfCall
  <2>4. OfCall(c, issued[c])'
    <3>1. CASE issued' = issued
      BY <1>1, <1>3, <2>2, <3>1, TitlesStay DEF OfCall
    <3>2. CASE issued' = [issued EXCEPT ![c] = prior[c].title]
      <4>1. issued'[c] = prior[c].title
        BY <1>2, <3>2
      <4> QED BY <2>1, <2>3, <4>1 DEF OfCall
    <3>3. CASE Issue(c)
      BY <1>2, <1>3, <3>3 DEF Issue, OfCall
    <3> QED BY <1>11, <3>1, <3>2, <3>3 DEF Title, Transfer
  <2>5. (pc[c] = "confirm" /\ tracking => Sold(c, issued[c]))'
    <3>1. CASE Issue(c)
      BY <1>2, <1>3, <3>1, DealAssumption DEF Issue, Sold
    <3>2. CASE Transfer(c)
      BY <1>2, <1>3, <2>2, <3>2 DEF Transfer, Transferable, Sold
    <3>3. tracking' /\ pc'[c] = "confirm" => Issue(c) \/ Transfer(c)
      BY <1>2, <1>11, <2>1 DEF Title
    <3> QED BY <3>1, <3>2, <3>3
  <2>6. c \in Posted'
    BY <1>1, <2>1 DEF CallSound, Posted
  <2> QED BY <1>3, <1>5, <2>1, <2>3, <2>4, <2>5, <2>6 DEF CallSound, Untitled, PastSave
<1>12. CASE MarkConfirmed(c)
  <2>1. /\ pc[c] = "confirm" /\ pc'[c] = "amend" /\ issued' = issued /\ owner' = owner
        /\ prior' = prior
    BY <1>2, <1>12 DEF MarkConfirmed, network
  <2>2. c \in Posted
    BY <1>1, <2>1 DEF CallSound
  <2> QED BY <1>3, <1>5, <2>1, <2>2, PlaceSound DEF Untitled, PastSave
<1>13. CASE AppendAmendment(c)
  <2>1. /\ pc[c] = "amend" /\ pc'[c] \in {"confirmed", "failed"} /\ issued' = issued
        /\ owner' = owner /\ prior' = prior
    BY <1>2, <1>13 DEF AppendAmendment, AppendLine, AfterLostLine, network
  <2> QED BY <1>3, <2>1, PlaceSound DEF Untitled, PastSave
<1> QED BY <1>6, <1>7, <1>8, <1>9, <1>10, <1>11, <1>12, <1>13 DEF Call

-----------------------------------------------------------------------------
(* Calls in turn.                                                          *)

(* When calls have not overlapped, the call that steps is the only one.    *)
LEMMA OnlyOne ==
  ASSUME DealInv, NEW c \in Calls, Call(c), ~overlap'
  PROVE  /\ ~overlap
         /\ \A d \in Calls \ {c} : ~Running(d) /\ ~Running(d)' /\ pc'[d] = pc[d]
<1>1. TypeOK /\ CallSound(c) /\ InTurn
  BY DEF DealInv
<1>2. WorldGrows /\ Aside(c)
  BY <1>1, CallGrows
<1>3. ~overlap
  BY <1>2 DEF WorldGrows
<1>4. ASSUME NEW d \in Calls \ {c}
      PROVE  ~Running(d)
  <2>1. CASE Begin(c)
    <3>1. overlap' = (overlap \/ \E e \in Calls : Running(e))
      BY <2>1 DEF Begin
    <3> QED BY <3>1
  <2>2. CASE ~Begin(c)
    <3>1. pc[c] \in {"load", "save", "append", "submit", "title", "confirm", "amend"}
      BY <2>2 DEF Call, Load, SavePending, AppendRow, AppendAmendment, Submit, Title, MarkConfirmed
    <3>2. Running(c)
      BY <3>1 DEF Running, Ended
    <3> QED BY <1>1, <1>3, <3>2 DEF InTurn
  <2> QED BY <2>1, <2>2
<1>5. \A d \in Calls \ {c} : pc'[d] = pc[d]
  BY <1>2 DEF Aside
<1> QED BY <1>3, <1>4, <1>5 DEF Running

LEMMA TurnStays ==
  ASSUME DealInv, NEW c \in Calls, Call(c)
  PROVE  InTurn'
<1> USE DEF Goto
<1> SUFFICES ASSUME ~overlap' PROVE InTurn'
  BY DEF InTurn
<1>1. TypeOK /\ CallSound(c) /\ InTurn /\ Coherent /\ WorldGrows
  BY CallGrows DEF DealInv
<1>2. ~overlap /\ \A d \in Calls \ {c} : ~Running(d)' /\ pc'[d] = pc[d]
  BY OnlyOne
<1>3. (\A d, e \in Calls : Running(d) /\ Running(e) => d = e)'
  BY <1>2 DEF Running
<1>4. ASSUME PastSave(c)', NEW i \in DOMAIN rows', DealOf(rows'[i]) = input[c].deal
      PROVE  rows'[i].record = c
  <2>1. pc \in [Calls -> Positions] /\ rows \in Tables
    BY <1>1, TypesAsTables DEF TypeOK, Positions
  <2>2. PastSave(c) => \A k \in DOMAIN rows : DealOf(rows[k]) = input[c].deal => rows[k].record = c
    BY <1>1, <1>2 DEF InTurn
  <2>3. CASE Begin(c) \/ Load(c)
    <3>1. pc'[c] \in {"load", "failed", "refused", "save"}
      BY <2>1, <2>3 DEF Begin, Load, Check
    <3> QED BY <1>4, <3>1 DEF PastSave
  <2>4. CASE SavePending(c)
    <3>1. Entry(c) \in Rows /\ Entry(c).record = c /\ DealOf(Entry(c)) = input[c].deal
      BY <1>1, EntryIsRow DEF Entry, DealOf
    <3>2. rows'[i] = Entry(c) \/ DealOf(rows'[i]) # DealOf(Entry(c))
      BY <2>1, <2>4, <3>1, PutFacts DEF SavePending
    <3> QED BY <1>4, <3>1, <3>2
  <2>5. CASE MarkConfirmed(c)
    <3>1. /\ c \in Posted /\ Has(rows, input[c].deal) /\ PastSave(c)
          /\ rows' = Put(rows, Confirmed(c))
      BY <1>1, <2>5 DEF MarkConfirmed, CallSound, PastSave, Confirmed
    <3>2. /\ Confirmed(c) \in Rows /\ Confirmed(c).record = RowOf(c).record
          /\ DealOf(Confirmed(c)) = input[c].deal
      BY <1>1, <3>1, ConfirmedFacts
    <3>3. RowOf(c).record = c
      BY <2>1, <2>2, <3>1, RowOfFacts DEF Contains
    <3>4. rows'[i] = Confirmed(c) \/ DealOf(rows'[i]) # DealOf(Confirmed(c))
      BY <2>1, <3>1, <3>2, PutFacts
    <3> QED BY <1>4, <3>2, <3>3, <3>4
  <2>6. CASE AppendRow(c) \/ Submit(c) \/ Title(c) \/ AppendAmendment(c)
    <3>1. rows' = rows /\ PastSave(c)
      BY <2>6 DEF AppendRow, AppendAmendment, AppendLine, Submit, Title, store, PastSave
    <3> QED BY <1>4, <2>2, <3>1
  <2> QED BY <2>3, <2>4, <2>5, <2>6 DEF Call
<1>5. \A d \in Calls \ {c} : ~PastSave(d)'
  BY <1>2 DEF PastSave, Running, Ended
<1>6. input' = input
  BY <1>1 DEF WorldGrows, given
<1> QED BY <1>3, <1>4, <1>5, <1>6 DEF InTurn, DealOf

-----------------------------------------------------------------------------
(* What a table knows.                                                     *)

(* A load that ends well has read every line, and the lines of all posted  *)
(* calls; a call is posted with a row in the table.                        *)
LEMMA KnownStays ==
  ASSUME LedgerInv, DealInv, NEW c \in Calls, Call(c)
  PROVE  PostedKnown'
<1> USE DEF Goto
<1> SUFFICES ASSUME ~misread', loaded', \A d \in Calls : pc'[d] # "load",
                    NEW d \in Posted'
             PROVE  Has(rows, input[d].deal)'
  BY DEF PostedKnown
<1>1. TypeOK /\ CallSound(c) /\ PostedKnown /\ WorldGrows /\ Aside(c)
  BY CallGrows DEF DealInv
<1>2. /\ pc \in [Calls -> Positions] /\ rows \in Tables /\ file \in Seq(Lines)
      /\ input' = input /\ ~misread /\ topic \in Seq(Calls)
  BY <1>1, TypesAsTables DEF TypeOK, Positions, WorldGrows, given, Aside
<1>3. SUFFICES Has(rows', input[d].deal)
  BY <1>2 DEF Has, DealOf
<1>4. \A deal : Has(rows, deal) => Has(rows', deal)
  BY <1>1, <1>2, DealsStay DEF Has, DealOf
<1>5. CASE Load(c)
  <2>1. /\ rows' = Replay(rows, file)[Len(file)] /\ topic' = topic
        /\ \A i \in 1 .. Len(file) : file[i] # Unparsed
    BY <1>5 DEF Load, network
  <2>2. Len(file) \in 0 .. Len(file) /\ DOMAIN file = 1 .. Len(file)
    BY <1>2
  <2>3. PICK i \in DOMAIN file : file[i].record = d
    <3>1. d \in Calls /\ Sent(d)
      BY <1>2, <2>1 DEF Posted, Sent
    <3> QED BY <2>1, <2>2, <3>1 DEF LedgerInv, Spread, Placed
  <2>4. Has(rows', DealOf(file[i]))
    BY <1>2, <2>1, <2>2, ReplayFacts
  <2> QED BY <2>3, <2>4 DEF DealOf
<1>6. CASE ~Load(c)
  <2>1. loaded /\ pc[c] # "load"
    <3>1. CASE Begin(c)
      BY <1>2, <3>1 DEF Begin
    <3>2. CASE ~Begin(c)
      <4>1. pc[c] # "load"
        BY <1>6, <3>2 DEF Call, SavePending, AppendRow, AppendAmendment, Submit, Title, MarkConfirmed
      <4>2. loaded' = loaded
        BY <1>6, <3>2 DEF Call, SavePending, AppendRow, AppendAmendment, AppendLine, Submit, Title,
                          MarkConfirmed, store
      <4> QED BY <4>1, <4>2
    <3> QED BY <3>1, <3>2
  <2>2. \A e \in Posted : Has(rows, input[e].deal)
    <3>1. \A e \in Calls \ {c} : pc[e] # "load"
      BY <1>1 DEF Aside
    <3> QED BY <1>1, <1>2, <2>1, <3>1 DEF PostedKnown
  <2>3. CASE d \in Posted
    BY <1>4, <2>2, <2>3
  <2>4. CASE d \notin Posted
    <3>1. Submit(c)
      BY <1>6, <2>4 DEF Call, Begin, SavePending, AppendRow, AppendAmendment, AppendLine, Title,
                        MarkConfirmed, network, Posted
    <3>2. d = c
      <4>1. topic' = topic \/ topic' = Append(topic, c)
        BY <3>1 DEF Submit
      <4>2. \A i \in DOMAIN topic' : topic'[i] = c \/ (i \in DOMAIN topic /\ topic'[i] = topic[i])
        BY <1>2, <4>1
      <4> QED BY <2>4, <4>2 DEF Posted
    <3>3. Has(rows, input[c].deal)
      BY <1>1, <3>1 DEF Submit, CallSound, PastSave
    <3> QED BY <1>4, <3>2, <3>3
  <2> QED BY <2>3, <2>4
<1> QED BY <1>5, <1>6

-----------------------------------------------------------------------------
(* The guard.                                                              *)

(* A first sale passes the guard only over a table with no row of its      *)
(* asset.                                                                  *)
LEMMA CheckPasses ==
  ASSUME TypeOK, NEW c \in Calls, NEW table \in Seq(Rows), Check(c, table),
         pc'[c] = "save", ~input[c].resale
  PROVE  \A i \in DOMAIN table : input[table[i].record].asset # input[c].asset
<1> DEFINE row == Found(table, input[c].asset)
<1>1. pc'[c] = IF Blocked(c, row) THEN "refused" ELSE "save"
  BY DEF Check, Goto, TypeOK
<1>2. row = NoRow
  BY <1>1 DEF Blocked
<1>3. NoRow \notin Rows
  BY DealAssumption DEF NoRow, Rows
<1> QED BY <1>2, <1>3, FoundFacts

(* Then no first sale of the asset has been posted: the table would know   *)
(* its deal.                                                               *)
LEMMA FirstIsFirst ==
  ASSUME LedgerInv, DealInv, NEW c \in Calls, Begin(c) \/ Load(c),
         ~overlap', ~misread', pc'[c] = "save", ~input[c].resale
  PROVE  FirstSales(input[c].asset) = {}
<1> USE DEF Goto
<1>1. Call(c) /\ TypeOK /\ CallSound(c) /\ Coherent
  BY DEF Call, DealInv
<1>2. WorldGrows /\ TypeOK' /\ PostedKnown' /\ topic' = topic /\ input' = input
  BY <1>1, CallGrows, CallTypes, KnownStays DEF WorldGrows, given, Begin, Load, network
<1>3. /\ rows' \in Seq(Rows) /\ rows \in Seq(Rows) /\ topic \in Seq(Calls)
      /\ pc \in [Calls -> Positions]
  BY <1>1, <1>2 DEF TypeOK, Positions
<1>4. Check(c, rows') /\ loaded'
  <2>1. CASE Begin(c)
    <3>1. pc[c] = "idle" /\ pc' # [pc EXCEPT ![c] = "load"]
      BY <1>3, <2>1 DEF Begin
    <3> QED BY <2>1, <3>1 DEF Begin
  <2>2. CASE Load(c)
    <3>1. pc' # [pc EXCEPT ![c] = "failed"]
      BY <1>3
    <3> QED BY <1>1, <2>2, <3>1 DEF Load, CallSound
  <2> QED BY <2>1, <2>2
<1>5. \A i \in DOMAIN rows' : input[rows'[i].record].asset # input[c].asset
  BY <1>1, <1>3, <1>4, CheckPasses
<1>6. \A d \in Calls : pc'[d] # "load"
  <2>1. \A d \in Calls \ {c} : ~Running(d)'
    BY <1>1, OnlyOne
  <2> QED BY <2>1 DEF Running, Ended
<1>7. \A d \in Posted : Has(rows', input[d].deal)
  BY <1>2, <1>4, <1>6 DEF PostedKnown, Has, DealOf, Posted
<1> SUFFICES ASSUME NEW d \in FirstSales(input[c].asset) PROVE FALSE
  OBVIOUS
<1>8. d \in Posted /\ d \in Calls /\ input[d].asset = input[c].asset
  BY <1>3 DEF FirstSales, Posted
<1>9. PICK j \in DOMAIN rows' : DealOf(rows'[j]) = input[d].deal
  BY <1>7, <1>8 DEF Has
<1>10. rows'[j].record \in Calls /\ input[rows'[j].record].deal = input[d].deal
  <2>1. rows'[j] \in Rows
    BY <1>3
  <2> QED BY <1>9, <2>1 DEF Rows, DealOf
<1>11. input[rows'[j].record] = input[d]
  BY <1>1, <1>8, <1>10, SameDeal
<1> QED BY <1>5, <1>8, <1>11

LEMMA GuardStays ==
  ASSUME LedgerInv, DealInv, NEW c \in Calls, Call(c)
  PROVE  GuardHeld'
<1> USE DEF Goto
<1> SUFFICES ASSUME ~overlap', ~misread' PROVE GuardHeld'
  BY DEF GuardHeld
<1>1. TypeOK /\ CallSound(c) /\ GuardHeld /\ WorldGrows /\ Aside(c)
  BY CallGrows DEF DealInv
<1>2. ~overlap /\ ~misread /\ input' = input
  BY <1>1 DEF WorldGrows, Aside, given
<1>3. pc \in [Calls -> Positions] /\ topic \in Seq(Calls)
  BY <1>1 DEF TypeOK, Positions
<1>4. \A d \in Calls \ {c} : pc'[d] \notin {"save", "append", "submit"}
  <2>1. \A d \in Calls \ {c} : ~Running(d)'
    BY OnlyOne
  <2> QED BY <2>1 DEF Running, Ended
<1>5. CASE topic' = topic
  <2>1. \A asset : FirstSales(asset)' = FirstSales(asset)
    BY <1>2, <1>5 DEF FirstSales, Posted
  <2>2. ASSUME pc'[c] \in {"save", "append", "submit"}, ~input[c].resale
        PROVE  FirstSales(input[c].asset) = {}
    <3>1. CASE pc[c] \in {"save", "append", "submit"}
      BY <1>1, <1>2, <2>2, <3>1 DEF GuardHeld
    <3>2. CASE pc[c] \notin {"save", "append", "submit"}
      <4>1. (Begin(c) \/ Load(c)) /\ pc'[c] = "save"
        BY <1>3, <2>2, <3>2 DEF Call, Begin, Load, Check, SavePending, AppendRow, Submit, Title,
                                MarkConfirmed, AppendAmendment, AppendLine, AfterLostLine
      <4> QED BY <2>2, <4>1, FirstIsFirst
    <3> QED BY <3>1, <3>2
  <2> QED BY <1>1, <1>2, <1>4, <2>1, <2>2 DEF GuardHeld
<1>6. CASE topic' # topic
  <2>1. pc[c] = "submit" /\ topic' = Append(topic, c) /\ pc'[c] \in {"title", "failed"}
    BY <1>3, <1>6 DEF Call, Begin, Load, SavePending, AppendRow, AppendAmendment, AppendLine, Submit,
                      Title, MarkConfirmed, network
  <2>2. Posted' = Posted \cup {c}
    BY <1>3, <2>1 DEF Posted
  <2>3. \A asset : \A d \in FirstSales(asset)' :
           \/ d \in FirstSales(asset)
           \/ d = c /\ ~input[c].resale /\ asset = input[c].asset
    BY <1>2, <2>2 DEF FirstSales
  <2>4. ~input[c].resale => FirstSales(input[c].asset) = {}
    BY <1>1, <1>2, <2>1 DEF GuardHeld
  <2>5. \A asset : \A d, e \in FirstSales(asset) : d = e
    BY <1>1, <1>2 DEF GuardHeld
  <2>6. \A asset : \A d, e \in FirstSales(asset)' : d = e
    BY <2>3, <2>4, <2>5
  <2> QED BY <1>4, <2>1, <2>6 DEF GuardHeld
<1> QED BY <1>5, <1>6

-----------------------------------------------------------------------------
(* The invariant, and what it says.                                        *)

LEMMA DealCall ==
  ASSUME LedgerInv, DealInv, NEW c \in Calls, Call(c)
  PROVE  DealInv'
<1>1. TypeOK' /\ WorldGrows /\ Coherent
  BY CallTypes, CallGrows DEF DealInv
<1>2. Coherent'
  BY <1>1 DEF Coherent, WorldGrows, given
<1>3. AllSound'
  BY RowsSound, LinesSound DEF AllSound
<1>4. (\A d \in Calls : CallSound(d))'
  BY OthersSound, ItselfSound
<1> QED BY <1>1, <1>2, <1>3, <1>4, TurnStays, KnownStays, GuardStays DEF DealInv

LEMMA DealRestart ==
  ASSUME DealInv, Restart
  PROVE  DealInv'
<1>1. TypeOK /\ TypeOK' /\ AllSound
  BY RestartTypes DEF DealInv
<1>2. /\ UNCHANGED <<tracking, input, file, topic, owner, overlap, misread>>
      /\ prior' = [c \in Calls |-> NoRow] /\ issued' = [c \in Calls |-> None]
      /\ rows' = <<>> /\ loaded' = FALSE
      /\ pc' = [c \in Calls |-> IF Running(c) THEN "failed" ELSE pc[c]]
  BY DEF Restart, given, network, history
<1>3. \A c \in Calls : ~Running(c)' /\ (pc'[c] = "idle" => pc[c] = "idle")
  BY <1>2 DEF Running, Ended
<1>4. AllSound'
  <2>1. (\A i \in DOMAIN file : RowSound(file[i]))'
    BY <1>1, <1>2 DEF AllSound, RowSound, OfCall, Sold, Verified, Fetched
  <2>2. DOMAIN rows' = {}
    BY <1>2
  <2> QED BY <2>1, <2>2 DEF AllSound
<1>5. ASSUME NEW c \in Calls
      PROVE  CallSound(c)'
  <2>1. CallSound(c)
    BY DEF DealInv
  <2>2. pc'[c] \in Ended \cup {"idle"}
    BY <1>3 DEF Running
  <2>3. Untitled(c)' => Untitled(c)
    BY <1>3, <2>2 DEF Untitled, Ended
  <2> QED BY <1>2, <2>1, <2>2, <2>3 DEF CallSound, OfCall, PastSave, Ended, NoRow
<1>6. InTurn'
  BY <1>3 DEF InTurn, PastSave, Running, Ended
<1>7. PostedKnown'
  BY <1>2 DEF PostedKnown
<1>8. GuardHeld'
  <2>1. \A asset : FirstSales(asset)' = FirstSales(asset)
    BY <1>2 DEF FirstSales, Posted
  <2> QED BY <1>2, <1>3, <2>1 DEF DealInv, GuardHeld, Running, Ended
<1>9. Coherent'
  BY <1>2 DEF DealInv, Coherent
<1> QED BY <1>1, <1>4, <1>5, <1>6, <1>7, <1>8, <1>9 DEF DealInv

LEMMA DealStill == DealInv /\ UNCHANGED vars => DealInv'
<1> SUFFICES ASSUME DealInv, UNCHANGED vars PROVE DealInv'
  OBVIOUS
<1>1. UNCHANGED <<tracking, input, pc, prior, issued, loaded, rows, file, ended, topic, owner,
                  overlap, misread, faults>>
  BY DEF vars, calls, given, store, network, history
<1>2. TypeOK' /\ Coherent' /\ AllSound'
  BY <1>1 DEF DealInv, TypeOK, DealOf, Coherent, AllSound, RowSound, OfCall, Sold, Verified, Fetched
<1>3. \A c \in Calls : CallSound(c)'
  BY <1>1 DEF DealInv, CallSound, OfCall, Sold, Untitled, PastSave, Has, DealOf, Posted
<1>4. InTurn' /\ PostedKnown' /\ GuardHeld'
  BY <1>1 DEF DealInv, InTurn, PostedKnown, GuardHeld, Running, PastSave, Has, DealOf, FirstSales, Posted
<1> QED BY <1>2, <1>3, <1>4 DEF DealInv

LEMMA DealNext == LedgerInv /\ DealInv /\ [Next]_vars => DealInv'
BY DealCall, DealRestart, DealStill DEF Next

(* Every variable keeps its type, and however a load ends the Map has one  *)
(* row per deal.                                                           *)
THEOREM TypesHold == Spec => []TypeOK
<1>1. DealInv => TypeOK
  BY DEF DealInv
<1> QED BY LedgerInit, LedgerNext, DealInit, DealNext, <1>1, PTL DEF Spec

(* Calls that run one after another never post two first sales of an       *)
(* asset, over any number of restarts, failures and retries.               *)
THEOREM OneSale == Spec => []OneSaleInTurn
<1>1. DealInv => OneSaleInTurn
  <2> SUFFICES ASSUME DealInv, ~overlap, ~misread, NEW asset \in Assets
               PROVE  Cardinality(FirstSales(asset)) <= 1
    BY DEF OneSaleInTurn
  <2>1. \A c, d \in FirstSales(asset) : c = d
    BY DEF DealInv, GuardHeld
  <2>2. CASE FirstSales(asset) = {}
    BY <2>2, FS_EmptySet
  <2>3. CASE FirstSales(asset) # {}
    <3>1. PICK c : FirstSales(asset) = {c}
      BY <2>1, <2>3
    <3>2. Cardinality({c}) = 1
      BY FS_Singleton
    <3> QED BY <3>1, <3>2
  <2> QED BY <2>2, <2>3
<1> QED BY LedgerInit, LedgerNext, DealInit, DealNext, <1>1, PTL DEF Spec

(* A record with a receipt verifies against the topic, and has a title of  *)
(* its asset that a confirmed resale has taken from the operator.          *)
THEOREM ReceiptsVerify == Spec => []ReceiptIsReal
<1>1. DealInv => ReceiptIsReal
  <2> SUFFICES ASSUME DealInv, NEW i \in DOMAIN file, file[i].receipt # 0
               PROVE  /\ overlap \/ Verified(file[i])
                      /\ tracking =>
                           /\ file[i].title # None
                           /\ input[file[i].title].asset = input[file[i].record].asset
                           /\ owner[file[i].title] # "nobody"
                           /\ input[file[i].record].resale => owner[file[i].title] = "buyer"
    BY DEF ReceiptIsReal
  <2>1. RowSound(file[i])
    BY DEF DealInv, AllSound
  <2> QED BY <2>1 DEF RowSound, OfCall, Sold
<1> QED BY LedgerInit, LedgerNext, DealInit, DealNext, <1>1, PTL DEF Spec
=============================================================================
