------------------------------ MODULE DealLedger ------------------------------
(***************************************************************************)
(* The deal ledger: completeDeal() checks the double-sale guard, saves a   *)
(* row in memory and in a JSONL file, posts a message to the HCS topic,    *)
(* mints or moves the asset's title NFT, and amends the row with the       *)
(* receipt, from which verifyDeal() finds the message again.  Calls         *)
(* interleave at every await; the process may stop at any step and starts  *)
(* again with what the file holds; a call may be made again for a deal     *)
(* that failed, under the same deal id.                                    *)
(*                                                                         *)
(* A record and its hash are named by the call that built them, and so is  *)
(* a message, whose payload binds that hash.                               *)
(***************************************************************************)
EXTENDS Naturals, Sequences, FiniteSets

CONSTANTS
  Calls,      \* calls of completeDeal
  Assets,
  MaxFaults,  \* bound: crashes and failed file or network operations
  None

ASSUME DealAssumption ==
  /\ IsFiniteSet(Calls) /\ IsFiniteSet(Assets) /\ None \notin Calls
  /\ MaxFaults \in Nat

VARIABLES
  tracking,  \* a title tracker is configured
  input,     \* deal id (named by its first call), asset, and whether a resale
  pc,        \* position of each call
  prior,     \* the completed row its check found
  issued,    \* the title its row is to be confirmed with
  loaded,    \* FileLedgerStorage.loaded
  rows,      \* the Map of rows, in insertion order
  file,      \* the lines of the JSONL file
  ended,     \* its last line has its newline
  topic,     \* messages of the HCS topic
  owner,     \* holder of each minted title; a title is named by its call
  overlap,   \* history: two calls have run at once
  misread,   \* history: the file could not be read or parsed
  faults

given == <<tracking, input>>
calls == <<given, pc, prior, issued>>
store == <<loaded, rows, file, ended>>
network == <<topic, owner>>
history == <<overlap, misread>>
vars == <<calls, store, network, history, faults>>

NoRow == [record |-> None, receipt |-> 0, title |-> None]
Unparsed == NoRow  \* a line of the file that JSON.parse refuses
Rows == [record : Calls, receipt : Nat, title : Calls \cup {None}]
Ended == {"refused", "failed", "confirmed"}
Inputs == [deal : Calls, asset : Assets, resale : BOOLEAN]
Running(c) == pc[c] \notin Ended \cup {"idle"}

Init ==
  /\ tracking \in BOOLEAN
  /\ input \in {i \in [Calls -> Inputs] : \A c \in Calls : i[i[c].deal] = i[c]}
  /\ pc = [c \in Calls |-> "idle"]
  /\ prior = [c \in Calls |-> NoRow] /\ issued = [c \in Calls |-> None]
  /\ loaded = FALSE /\ rows = <<>> /\ file = <<>> /\ ended = TRUE
  /\ topic = <<>> /\ owner = [c \in Calls |-> "nobody"]
  /\ overlap = FALSE /\ misread = FALSE /\ faults = 0

-----------------------------------------------------------------------------
(* Storage.                                                                *)

DealOf(row) == input[row.record].deal

Has(table, deal) == \E i \in DOMAIN table : DealOf(table[i]) = deal

BugPut(table, row) == Append(table, row)

(* Map.set: a row that exists is replaced where it stands.                 *)
Put(table, row) ==
  IF Has(table, DealOf(row))
  THEN [i \in DOMAIN table |-> IF DealOf(table[i]) = DealOf(row) THEN row ELSE table[i]]
  ELSE Append(table, row)

(* The lines of the file, replayed into a table: the table after n lines.  *)
Replay(table, lines) ==
  LET replay[n \in 0 .. Len(lines)] ==
        IF n = 0 THEN table ELSE Put(replay[n - 1], lines[n])
  IN replay

OfAsset(table, asset) == {i \in DOMAIN table : input[table[i].record].asset = asset}

(* findCompletedByAsset: the first row; every row says "completed".        *)
Found(table, asset) ==
  IF OfAsset(table, asset) = {} THEN NoRow
  ELSE table[CHOOSE i \in OfAsset(table, asset) : \A j \in OfAsset(table, asset) : i <= j]

-----------------------------------------------------------------------------
(* completeDeal().                                                         *)

Goto(c, position) == pc' = [pc EXCEPT ![c] = position]
Fault == faults < MaxFaults /\ faults' = faults + 1

BugBlocked(c, row) == row.receipt # 0 /\ ~input[c].resale
Blocked(c, row) == row # NoRow /\ ~input[c].resale

(* The guard: refused, or on its way with the row it found.                *)
Check(c, table) ==
  \E row \in {Found(table, input[c].asset)} :
    /\ Goto(c, IF Blocked(c, row) THEN "refused" ELSE "save")
    /\ prior' = [prior EXCEPT ![c] = row]

(* A deal is tried again, under its id, when no call for it is running.    *)
Free(deal) == \A c \in Calls : input[c].deal = deal => ~Running(c)

(* ensureLoaded says the file is loaded before it has read it: a second    *)
(* call goes on with the rows that are there.                              *)
Begin(c) ==
  /\ pc[c] = "idle" /\ Free(input[c].deal)
  /\ \/ ~loaded /\ loaded' = TRUE /\ Goto(c, "load") /\ UNCHANGED prior
     \/ loaded /\ Check(c, rows) /\ UNCHANGED loaded
  /\ overlap' = (overlap \/ \E d \in Calls : Running(d))
  /\ UNCHANGED <<given, issued, rows, file, ended, network, misread, faults>>

(* The read ends: at the end of the file, at a line that does not parse,   *)
(* or at an error (or a line that is still being written).  The latter two *)
(* fail this call and leave the rest of the process with the rows read so  *)
(* far.                                                                    *)
Load(c) ==
  /\ pc[c] = "load"
  /\ \E n \in 0 .. Len(file) :
       /\ \A i \in 1 .. n : file[i] # Unparsed
       /\ rows' = Replay(rows, file)[n]
       /\ \/ n = Len(file) /\ Check(c, rows') /\ UNCHANGED <<misread, faults>>
          \/ /\ Fault \/ (n < Len(file) /\ file[n + 1] = Unparsed /\ UNCHANGED faults)
             /\ misread' = TRUE
             /\ Goto(c, "failed") /\ UNCHANGED prior
  /\ UNCHANGED <<given, issued, loaded, file, ended, network, overlap>>

Entry(c) == [record |-> c, receipt |-> 0, title |-> prior[c].title]

SavePending(c) ==
  /\ pc[c] = "save"
  /\ rows' = Put(rows, Entry(c))
  /\ Goto(c, "append")
  /\ UNCHANGED <<given, prior, issued, loaded, file, ended, network, history, faults>>

BugAfterLostLine == "submit"
AfterLostLine == "failed"

(* A text goes behind what is there.  Where a failed append has left a     *)
(* line without its newline it joins that line, and the two together do    *)
(* not parse.                                                              *)
With(line) ==
  IF ended THEN Append(file, line) ELSE [file EXCEPT ![Len(file)] = Unparsed]

(* appendFile(): a failed one has written nothing, the line as far as its  *)
(* newline or through it, or a part of it.  A process killed half-way is   *)
(* this and then Restart.                                                  *)
AppendLine(c, line, next) ==
  /\ \/ /\ file' = With(line) /\ ended' = TRUE
        /\ Goto(c, next) /\ UNCHANGED faults
     \/ /\ Fault /\ Goto(c, AfterLostLine)
        /\ \/ UNCHANGED <<file, ended>>
           \/ file' = With(line) /\ ended' \in BOOLEAN
           \/ file' = With(Unparsed) /\ ended' = FALSE
  /\ UNCHANGED <<given, prior, issued, loaded, rows, network, history>>

AppendRow(c) == pc[c] = "append" /\ AppendLine(c, Entry(c), "submit")

(* The message reaches consensus, with or without an answer, or does not.  *)
Submit(c) ==
  /\ pc[c] = "submit"
  /\ \/ topic' = Append(topic, c) /\ Goto(c, "title") /\ UNCHANGED faults
     \/ topic' \in {topic, Append(topic, c)} /\ Goto(c, "failed") /\ Fault
  /\ UNCHANGED <<given, prior, issued, store, owner, history>>

(* The title the deal ends with; the tracker creates and mints it, or      *)
(* moves it away from the operator, the only account it ever moves from.   *)
Issue(c) ==
  /\ ~input[c].resale
  /\ issued' = [issued EXCEPT ![c] = c]
  /\ owner' = [owner EXCEPT ![c] = "operator"]

BugTransferable(title) == TRUE
Transferable(title) == title # None /\ owner[title] = "operator"

Transfer(c) ==
  /\ input[c].resale /\ Transferable(prior[c].title)
  /\ issued' = [issued EXCEPT ![c] = prior[c].title]
  /\ owner' = [t \in Calls |-> IF t = prior[c].title THEN "buyer" ELSE owner[t]]

Title(c) ==
  /\ pc[c] = "title"
  /\ \/ ~tracking /\ issued' = [issued EXCEPT ![c] = prior[c].title]
        /\ Goto(c, "confirm") /\ UNCHANGED <<owner, faults>>
     \/ tracking /\ (Issue(c) \/ Transfer(c))
        /\ Goto(c, "confirm") /\ UNCHANGED faults
     \/ tracking /\ input[c].resale /\ ~Transferable(prior[c].title)
        /\ Goto(c, "failed") /\ UNCHANGED <<issued, owner, faults>>
     \/ tracking /\ Fault /\ Goto(c, "failed")
        /\ (Issue(c) \/ Transfer(c) \/ UNCHANGED <<issued, owner>>)
  /\ UNCHANGED <<given, prior, store, topic, history>>

BugSequenceOf(c) == CHOOSE n \in DOMAIN topic : input[topic[n]].deal = input[c].deal

(* The receipt: where on the topic the message of the call is.             *)
SequenceOf(c) == CHOOSE n \in DOMAIN topic : topic[n] = c

RowOf(c) == rows[CHOOSE i \in DOMAIN rows : DealOf(rows[i]) = input[c].deal]

(* markConfirmed: first the row in memory, then a line that amends it with *)
(* what the row is by then.                                                *)
MarkConfirmed(c) ==
  /\ pc[c] = "confirm"
  /\ rows' = Put(rows, [RowOf(c) EXCEPT !.receipt = SequenceOf(c), !.title = issued[c]])
  /\ Goto(c, "amend")
  /\ UNCHANGED <<given, prior, issued, loaded, file, ended, network, history, faults>>

AppendAmendment(c) == pc[c] = "amend" /\ AppendLine(c, RowOf(c), "confirmed")

(* fetchTopicMessage(): the mirror node's message at a sequence number.    *)
Fetched(number) == IF number \in DOMAIN topic THEN topic[number] ELSE None

(* verifyDeal(): the message that the receipt names binds the record.      *)
Verified(row) == Fetched(row.receipt) = row.record

Call(c) ==
  \/ Begin(c) \/ Load(c) \/ SavePending(c) \/ AppendRow(c) \/ Submit(c)
  \/ Title(c) \/ MarkConfirmed(c) \/ AppendAmendment(c)

(* The process stops; an operation under way may have had its effect,      *)
(* which the failures above already show, and the memory is gone.          *)
Restart ==
  /\ Fault
  /\ pc' = [c \in Calls |-> IF Running(c) THEN "failed" ELSE pc[c]]
  /\ prior' = [c \in Calls |-> NoRow] /\ issued' = [c \in Calls |-> None]
  /\ loaded' = FALSE /\ rows' = <<>>
  /\ UNCHANGED <<given, file, ended, network, history>>

Next == Restart \/ \E c \in Calls : Call(c)

Spec == Init /\ [][Next]_vars

-----------------------------------------------------------------------------
(* Properties.                                                             *)

Posted == {topic[i] : i \in DOMAIN topic}

(* Every variable keeps its type; the Map has one row per deal.            *)
TypeOK ==
  /\ tracking \in BOOLEAN
  /\ input \in [Calls -> Inputs]
  /\ pc \in [Calls -> Ended \cup {"idle", "load", "save", "append", "submit", "title",
                                  "confirm", "amend"}]
  /\ prior \in [Calls -> Rows \cup {NoRow}] /\ issued \in [Calls -> Calls \cup {None}]
  /\ loaded \in BOOLEAN /\ rows \in Seq(Rows)
  /\ \A i, j \in DOMAIN rows : DealOf(rows[i]) = DealOf(rows[j]) => i = j
  /\ file \in Seq(Rows \cup {Unparsed}) /\ ended \in BOOLEAN
  /\ topic \in Seq(Calls) /\ owner \in [Calls -> {"nobody", "operator", "buyer"}]
  /\ overlap \in BOOLEAN /\ misread \in BOOLEAN /\ faults \in 0 .. MaxFaults

Damaged == {i \in DOMAIN file : file[i] = Unparsed}
Unrecorded == {c \in Posted : \A i \in DOMAIN file : file[i].record # c}

(* The row goes to the file before its message goes to the topic, so a     *)
(* posted message is without its record only through a line that does not  *)
(* parse, and each such line takes at most one with it, whatever failed,   *)
(* was killed or was tried again; a file that reads has them all.          *)
PostedIsRecorded == Cardinality(Unrecorded) <= Cardinality(Damaged)

FirstSales(asset) == {c \in Posted : input[c].asset = asset /\ ~input[c].resale}

(* Calls made one after another, in however many runs of the process and   *)
(* whatever fails half-way, never post two first sales of an asset.        *)
OneSaleInTurn ==
  ~overlap /\ ~misread => \A asset \in Assets : Cardinality(FirstSales(asset)) <= 1

(* A record with a receipt verifies against the topic, whatever failed or  *)
(* was tried again before (when calls overlap, a load that ends late may   *)
(* put an older line over the row of a deal that was tried again); its     *)
(* title is of its asset, and a confirmed resale no longer finds it with   *)
(* the operator.                                                           *)
ReceiptIsReal ==
  \A i \in DOMAIN file : \A row \in {file[i]} : row.receipt # 0 =>
    /\ overlap \/ Verified(row)
    /\ tracking =>
         /\ row.title # None /\ input[row.title].asset = input[row.record].asset
         /\ owner[row.title] # "nobody"
         /\ input[row.record].resale => owner[row.title] = "buyer"

(* "an asset with a completed entry cannot complete again"                 *)
(* (src/service.ts:45 of the deal ledger).                                 *)
NoDoubleSale == \A asset \in Assets : Cardinality(FirstSales(asset)) <= 1

(* "at most one completed row per asset.  Resales mark the prior row       *)
(* resold (or record a new sequenced message linking the prior receipt)    *)
(* -- never a silent overwrite" (README.md:39-41 of the deal ledger), even *)
(* if every call waits for the one before.  No message links a receipt of  *)
(* another, and the row found is written over by neither: both stay        *)
(* completed.                                                              *)
OneCompletedRow ==
  ~overlap => \A asset \in Assets :
    Cardinality({c \in Calls : pc[c] = "confirmed" /\ input[c].asset = asset}) <= 1
=============================================================================
