------------------------ MODULE DeployJournalProofs ------------------------
(***************************************************************************)
(* Deployments for any amounts: no step is paid twice, the frontend is     *)
(* only told of what is on the network, and a mint makes no more than the  *)
(* seeds take, wherever scripts stop and however late the network accepts  *)
(* what they sent.                                                         *)
(*                                                                         *)
(* The argument: the journal is never behind the network (Journaled).  A   *)
(* step it does not name has not been sent; a step is sent only when it    *)
(* was just put there (Writing), and what the journal calls complete has   *)
(* been accepted.  So what the journal says of the seeds is true when a    *)
(* mint is computed, and stays true while it is open (MintInv).            *)
(***************************************************************************)
EXTENDS DeployJournal, TLAPS

(* What the journal says of a step, and what is true of it.                *)
Journaled(s) ==
  /\ file.steps[s] = "none" => fate[s] = "none"
  /\ file.steps[s] = "complete" => fate[s] = "accepted" /\ Address(s) \subseteq file.known
  /\ paid[s] = IF fate[s] = "accepted" THEN 1 ELSE 0
  /\ Address(s) \subseteq file.known => Address(s) = {} \/ fate[s] = "accepted"

(* What the script under way has written before it goes on.                *)
Sending == run.phase = "send" \/ (run.phase = "publish" /\ run.then = "send")

Writing ==
  /\ Sending => run.at <= Len(run.script) /\ file.steps[Step] = "pending" /\ fate[Step] = "none"
  /\ run.phase = "confirm" => run.at <= Len(run.script) /\ file.steps[Step] = "pending"
  /\ run.phase # "idle" /\ run.script = Bootstrap /\ run.at <= 2 =>
       file.steps["ammSeed"] # "complete"

Published == /\ env \subseteq file.known
             /\ "pair" \in env => file.steps["ammSeed"] = "complete"

Phases == {"idle", "next", "publish", "send", "confirm"}
Continuations == {"idle", "next", "send"}
Statuses == {"none", "pending", "complete"}

RecordType == [steps : [Steps -> Statuses], known : SUBSET Addresses]
RunType == [script : Scripts, at : 1..(Len(Deploy) + 1), phase : Phases, then : Continuations]

FieldsOK ==
  /\ file \in RecordType /\ run \in RunType
  /\ fate \in [Steps -> {"none", "flight", "accepted", "failed"}]
  /\ paid \in [Steps -> Nat]

JournalInv ==
  FieldsOK /\ Writing /\ Published /\ \A s \in Steps : Journaled(s)

-----------------------------------------------------------------------------
(* The scripts, spelled out.                                               *)
LEMMA Lengths == Len(Deploy) = 6 /\ Len(Bootstrap) = 2
BY DEF Deploy, Bootstrap

LEMMA ScriptSteps ==
  /\ \A i \in 1..6 : Deploy[i] \in Steps \ {"ammSeed", "createPair"}
  /\ \A i \in 1..2 : Bootstrap[i] \in Steps
  /\ Deploy # Bootstrap
<1>1. \A i \in 1..6 : i = 1 \/ i = 2 \/ i = 3 \/ i = 4 \/ i = 5 \/ i = 6
  OBVIOUS
<1>2. Deploy # Bootstrap
  BY Lengths
<1> QED BY <1>1, <1>2 DEF Deploy, Bootstrap, Steps

(* The step a script has reached; only bootstrap's are ammSeed and         *)
(* createPair.                                                             *)
LEMMA StepIsStep ==
  ASSUME FieldsOK, run.at <= Len(run.script)
  PROVE  /\ Step \in Steps /\ run.at + 1 \in 1..(Len(Deploy) + 1)
         /\ run.script = Bootstrap => run.at <= 2
         /\ Step \in {"ammSeed", "createPair"} => run.script = Bootstrap
<1>1. run.at \in Nat /\ 1 <= run.at
  BY Lengths DEF FieldsOK, RunType
<1>2. CASE run.script = Deploy
  <2>1. run.at <= 6
    BY <1>2, Lengths
  <2>2. run.at \in 1..6
    BY <1>1, <2>1
  <2> QED BY <1>2, <2>2, Lengths, ScriptSteps DEF Step
<1>3. CASE run.script = Bootstrap
  <2>1. run.at <= 2
    BY <1>3, Lengths
  <2>2. run.at \in 1..2
    BY <1>1, <2>1
  <2> QED BY <1>3, <2>2, Lengths, ScriptSteps DEF Step
<1> QED BY <1>2, <1>3 DEF FieldsOK, RunType, Scripts

LEMMA InvInit == Init => JournalInv
BY Lengths, ScriptSteps
   DEF Init, JournalInv, FieldsOK, Writing, Published, Journaled, FreshRecord, Sending,
       RecordType, RunType, Scripts, Phases, Continuations, Statuses, Addresses, Address, CreatedBy

-----------------------------------------------------------------------------
(* Records, field by field.                                                *)
LEMMA PhaseChanged ==
  ASSUME FieldsOK, NEW p \in Phases, run' = [run EXCEPT !.phase = p]
  PROVE  /\ run' \in RunType
         /\ run'.script = run.script /\ run'.at = run.at /\ run'.phase = p /\ run'.then = run.then
BY DEF FieldsOK, RunType

LEMMA Moved ==
  ASSUME FieldsOK, NEW n \in 1..(Len(Deploy) + 1), run' = [run EXCEPT !.at = n]
  PROVE  /\ run' \in RunType
         /\ run'.script = run.script /\ run'.at = n /\ run'.phase = run.phase /\ run'.then = run.then
BY DEF FieldsOK, RunType

LEMMA Saved ==
  ASSUME FieldsOK, NEW record \in RecordType,
         NEW script \in Scripts, NEW at \in 1..(Len(Deploy) + 1), NEW then \in Continuations,
         SaveDeployment(record, script, at, then)
  PROVE  /\ run' \in RunType
         /\ run'.script = script /\ run'.at = at /\ run'.then = then
         /\ run'.phase \in {"publish", then} /\ file' = record
BY DEF SaveDeployment, RunType, Phases, Continuations

LEMMA CompletedIsRecord ==
  ASSUME FieldsOK, NEW s \in Steps
  PROVE  /\ Completed(file, s) \in RecordType
         /\ Completed(file, s).known = file.known \cup Address(s)
         /\ Completed(file, s).steps = [file.steps EXCEPT ![s] = "complete"]
BY DEF FieldsOK, RecordType, Completed, Statuses, Address

LEMMA BegunIsRecord ==
  ASSUME FieldsOK, NEW s \in Steps
  PROVE  /\ Begun(file, s) \in RecordType
         /\ Begun(file, s).known = file.known
         /\ \A r \in Steps \ {s} : Begun(file, s).steps[r] = file.steps[r]
         /\ Begun(file, s).steps[s] =
              IF file.steps[s] = "complete" THEN "complete" ELSE "pending"
<1>1. Begun(file, s).steps =
        [file.steps EXCEPT ![s] = IF file.steps[s] = "complete" THEN "complete" ELSE "pending"]
  BY DEF FieldsOK, RecordType, Begun
<1>2. Begun(file, s).known = file.known
  BY DEF FieldsOK, RecordType, Begun
<1>3. Begun(file, s) \in RecordType
  BY <1>1, <1>2 DEF FieldsOK, RecordType, Begun, Statuses
<1> QED BY <1>1, <1>2, <1>3 DEF FieldsOK, RecordType

(* An address is created by one step.                                      *)
LEMMA OneCreator ==
  \A r, s \in Steps : r # s => Address(r) \cap Address(s) = {}
BY DEF Address

(* The script moves on and nothing else changes.                           *)
LEMMA RunMoves ==
  ASSUME JournalInv, UNCHANGED <<file, env, fate, paid>>, run' \in RunType, Writing'
  PROVE  JournalInv'
BY DEF JournalInv, FieldsOK, Published, Journaled, Address

(* A save that says nothing new of any step, after a step.                 *)
LEMMA SavedAgain ==
  ASSUME JournalInv, UNCHANGED <<env, fate, paid>>, NEW n \in 1..(Len(Deploy) + 1),
         NEW then \in {"idle", "next"}, SaveDeployment(file, Deploy, n, then)
  PROVE  JournalInv'
<1>1. /\ run' \in RunType /\ file' = file /\ run'.script = Deploy /\ run'.then = then
      /\ run'.phase \in {"publish", then}
  BY Saved DEF JournalInv, FieldsOK, Scripts, Continuations
<1>2. Writing'
  BY <1>1, ScriptSteps DEF Writing, Sending
<1> QED BY <1>1, <1>2, RunMoves

-----------------------------------------------------------------------------
(* The steps of a script.                                                  *)
LEMMA SkipInv == JournalInv /\ Skip => JournalInv'
<1> SUFFICES ASSUME JournalInv, Skip PROVE JournalInv'
  OBVIOUS
<1>1. FieldsOK /\ Writing /\ run.phase = "next" /\ run.at <= Len(run.script)
  BY DEF JournalInv, Skip, Deciding
<1>2. /\ Step \in Steps /\ run.at + 1 \in 1..(Len(Deploy) + 1)
      /\ run.script = Bootstrap => run.at <= 2
  BY <1>1, StepIsStep
<1>3. run.script \in Scripts /\ run.at \in Nat
  BY <1>1 DEF FieldsOK, RunType
<1>4. CASE Step = "createPair"
  <2> DEFINE record == [file EXCEPT !.known = @ \cup {"pair"}]
  <2>1. /\ record \in RecordType /\ record.steps = file.steps
        /\ record.known = file.known \cup {"pair"}
    BY <1>1 DEF FieldsOK, RecordType, Addresses
  <2>2. SaveDeployment(record, run.script, run.at + 1, "next")
    BY <1>4 DEF Skip
  <2> HIDE DEF record
  <2>3. /\ run' \in RunType /\ run'.script = run.script /\ run'.at = run.at + 1
        /\ run'.then = "next" /\ run'.phase \in {"publish", "next"} /\ file' = record
    BY <1>1, <1>2, <1>3, <2>1, <2>2, Saved DEF Continuations
  <2>4. fate["createPair"] = "accepted"
    BY <1>4 DEF JournalInv, Journaled, Skip, Wanted, Steps
  <2>5. ASSUME NEW s \in Steps PROVE Journaled(s)'
    <3>1. Address(s) \subseteq file.known \cup {"pair"} =>
            Address(s) \subseteq file.known \/ s = "createPair"
      BY DEF Address, CreatedBy, Addresses
    <3> QED BY <2>1, <2>3, <2>4, <3>1 DEF JournalInv, Journaled, Skip, Address
  <2>6. Writing'
    BY <1>1, <1>3, <2>1, <2>3 DEF Writing, Sending
  <2>7. FieldsOK' /\ Published'
    BY <2>1, <2>3 DEF JournalInv, FieldsOK, Published, Skip
  <2> QED BY <2>5, <2>6, <2>7 DEF JournalInv
<1>5. CASE Step # "createPair"
  <2>1. run' = [run EXCEPT !.at = run.at + 1] /\ UNCHANGED <<file, env, fate, paid>>
    BY <1>5 DEF Skip
  <2>2. /\ run' \in RunType /\ run'.script = run.script /\ run'.at = run.at + 1
        /\ run'.phase = "next"
    BY <1>1, <1>2, <2>1, Moved
  <2>3. Writing'
    BY <1>1, <1>3, <2>1, <2>2 DEF Writing, Sending
  <2> QED BY <2>1, <2>2, <2>3, RunMoves
<1> QED BY <1>4, <1>5

LEMMA BeginInv == JournalInv /\ Begin => JournalInv'
<1> SUFFICES ASSUME JournalInv, Begin PROVE JournalInv'
  OBVIOUS
<1>1. FieldsOK /\ Writing /\ run.phase = "next" /\ run.at <= Len(run.script)
  BY DEF JournalInv, Begin, Deciding
<1>2. /\ Step \in Steps
      /\ run.script = Bootstrap => run.at <= 2
      /\ Step \in {"ammSeed", "createPair"} => run.script = Bootstrap
  BY <1>1, StepIsStep
<1>3. PICK s \in Steps : s = Step
  BY <1>2
<1>4. file.steps[s] = "none"
  <2>1. file.steps[s] \in Statuses /\ file.steps[s] # "pending"
    BY <1>1, <1>3 DEF FieldsOK, RecordType, Begin, CanBegin
  <2>2. file.steps[s] # "complete"
    BY <1>1, <1>2, <1>3 DEF Begin, Wanted, JournalInv, Journaled, Writing, Address, CreatedBy,
                             Addresses, Steps
  <2> QED BY <2>1, <2>2 DEF Statuses
<1>5. run.script \in Scripts /\ run.at \in 1..(Len(Deploy) + 1)
  BY <1>1 DEF FieldsOK, RunType
<1>6. /\ run' \in RunType /\ run'.script = run.script /\ run'.at = run.at
      /\ run'.then = "send" /\ run'.phase \in {"publish", "send"} /\ file' = Begun(file, s)
  BY <1>1, <1>3, <1>5, BegunIsRecord, Saved DEF Begin, Continuations
<1>7. /\ file' \in RecordType /\ file'.known = file.known
      /\ \A r \in Steps \ {s} : file'.steps[r] = file.steps[r]
      /\ file'.steps[s] = "pending"
  BY <1>1, <1>4, <1>6, BegunIsRecord
<1>8. \A r \in Steps : Journaled(r)'
  BY <1>4, <1>7 DEF JournalInv, Journaled, Begin, Address
<1>9. Writing'
  BY <1>1, <1>2, <1>3, <1>4, <1>6, <1>7 DEF Writing, Sending, JournalInv, Journaled, Begin, Step, Steps
<1>10. FieldsOK' /\ Published'
  BY <1>4, <1>6, <1>7 DEF JournalInv, FieldsOK, Published, Begin, Steps
<1> QED BY <1>8, <1>9, <1>10 DEF JournalInv

LEMMA SendInv == JournalInv /\ Send => JournalInv'
<1> SUFFICES ASSUME JournalInv, Send PROVE JournalInv'
  OBVIOUS
<1>1. /\ FieldsOK /\ Writing /\ run.phase = "send" /\ run.at <= Len(run.script)
      /\ file.steps[Step] = "pending" /\ fate[Step] = "none"
  BY DEF JournalInv, Send, Writing, Sending
<1>2. PICK s \in Steps : s = Step
  BY <1>1, StepIsStep
<1>3. /\ run' \in RunType /\ run'.script = run.script /\ run'.at = run.at
      /\ run'.phase = "confirm"
  BY <1>1, PhaseChanged DEF Send, Phases
<1>4. /\ fate' = [fate EXCEPT ![s] = "flight"] /\ UNCHANGED <<file, env, paid>>
  BY <1>2 DEF Send
<1>5. \A r \in Steps : Journaled(r)'
  BY <1>1, <1>2, <1>4 DEF JournalInv, FieldsOK, Journaled, Address
<1>6. Writing'
  BY <1>1, <1>3, <1>4 DEF Writing, Sending, Step
<1>7. FieldsOK' /\ Published'
  BY <1>1, <1>3, <1>4 DEF JournalInv, FieldsOK, Published
<1> QED BY <1>5, <1>6, <1>7 DEF JournalInv

LEMMA ConfirmInv == JournalInv /\ Confirm => JournalInv'
<1> SUFFICES ASSUME JournalInv, Confirm PROVE JournalInv'
  OBVIOUS
<1>1. /\ FieldsOK /\ Writing /\ run.phase = "confirm" /\ run.at <= Len(run.script)
      /\ file.steps[Step] = "pending" /\ fate[Step] = "accepted"
  BY DEF JournalInv, Confirm, Writing
<1>2. PICK s \in Steps : s = Step
  BY <1>1, StepIsStep
<1>3. /\ run.at + 1 \in 1..(Len(Deploy) + 1)
      /\ run.script = Bootstrap => run.at <= 2
      /\ s = "ammSeed" => run.script = Bootstrap
  BY <1>1, <1>2, StepIsStep
<1>4. run.script \in Scripts /\ run.at \in Nat
  BY <1>1 DEF FieldsOK, RunType
<1>5. /\ run' \in RunType /\ run'.script = run.script /\ run'.at = run.at + 1
      /\ run'.then = "next" /\ run'.phase \in {"publish", "next"} /\ file' = Completed(file, s)
  BY <1>1, <1>2, <1>3, <1>4, CompletedIsRecord, Saved DEF Confirm, Continuations
<1>6. /\ file' \in RecordType /\ file'.known = file.known \cup Address(s)
      /\ file'.steps = [file.steps EXCEPT ![s] = "complete"]
  BY <1>1, <1>5, CompletedIsRecord
<1>7. /\ file'.steps[s] = "complete"
      /\ \A r \in Steps \ {s} : file'.steps[r] = file.steps[r]
  BY <1>1, <1>6 DEF FieldsOK, RecordType
<1>8. \A r \in Steps : Journaled(r)'
  <2>1. \A r \in Steps \ {s} : Address(r) \subseteq file'.known => Address(r) \subseteq file.known
    BY <1>6, OneCreator
  <2>2. UNCHANGED <<fate, paid>>
    BY DEF Confirm
  <2>3. \A r : Address(r)' = Address(r)
    BY DEF Address
  <2> QED BY <1>1, <1>2, <1>6, <1>7, <2>1, <2>2, <2>3 DEF JournalInv, Journaled
<1>9. Writing'
  <2>1. run'.script = Bootstrap /\ run'.at <= 2 => run.at = 1 /\ s = "createPair"
    BY <1>1, <1>2, <1>4, <1>5 DEF FieldsOK, RunType, Bootstrap, Step
  <2> QED BY <1>1, <1>4, <1>5, <1>7, <2>1 DEF Writing, Sending, Steps
<1>10. FieldsOK' /\ Published'
  BY <1>5, <1>6, <1>7 DEF JournalInv, FieldsOK, Published, Confirm, Steps
<1> QED BY <1>8, <1>9, <1>10 DEF JournalInv

LEMMA PublishInv == JournalInv /\ Publish => JournalInv'
<1> SUFFICES ASSUME JournalInv, Publish PROVE JournalInv'
  OBVIOUS
<1>1. FieldsOK /\ Writing /\ run.phase = "publish" /\ run.then \in Phases
  BY DEF JournalInv, Publish, FieldsOK, RunType, Continuations, Phases
<1>2. /\ run' \in RunType /\ run'.script = run.script /\ run'.at = run.at
      /\ run'.phase = run.then /\ UNCHANGED <<file, fate, paid>>
  BY <1>1, PhaseChanged DEF Publish
<1>3. run.then \in {"idle", "next", "send"}
  BY <1>1 DEF FieldsOK, RunType, Continuations
<1>4. Writing'
  BY <1>1, <1>2, <1>3 DEF Writing, Sending, Step
<1>5. Published'
  BY <1>2 DEF Publish, PublicEnv, Published
<1> QED BY <1>2, <1>4, <1>5 DEF JournalInv, FieldsOK, Journaled, Address

LEMMA ScriptInv == JournalInv /\ Script => JournalInv'
<1> SUFFICES ASSUME JournalInv, Script PROVE JournalInv'
  OBVIOUS
<1>1. FieldsOK /\ 1 \in 1..(Len(Deploy) + 1)
  BY Lengths DEF JournalInv
<1>2. CASE StartDeploy
  BY <1>1, <1>2, SavedAgain DEF StartDeploy
<1>3. CASE StartBootstrap
  <2>1. /\ run' \in RunType /\ run'.phase = "next" /\ run'.script = Bootstrap
        /\ UNCHANGED <<file, env, fate, paid>> /\ file.steps["ammSeed"] # "complete"
    BY <1>1, <1>3 DEF StartBootstrap, RunType, Scripts, Phases, Continuations
  <2>2. Writing'
    BY <2>1 DEF Writing, Sending
  <2> QED BY <2>1, <2>2, RunMoves
<1>4. CASE Finish
  <2>1. CASE run.script = Deploy
    BY <1>1, <1>4, <2>1, SavedAgain DEF Finish, FieldsOK, RunType
  <2>2. CASE run.script # Deploy
    <3>1. run' \in RunType /\ run'.phase = "idle" /\ UNCHANGED <<file, env, fate, paid>>
      BY <1>1, <1>4, <2>2, PhaseChanged DEF Finish, Phases
    <3>2. Writing'
      BY <3>1 DEF Writing, Sending
    <3> QED BY <3>1, <3>2, RunMoves
  <2> QED BY <2>1, <2>2
<1> QED BY <1>2, <1>3, <1>4, SkipInv, BeginInv, SendInv, ConfirmInv, PublishInv DEF Script

-----------------------------------------------------------------------------
(* The network and the operator.                                           *)
LEMMA WorldInv ==
  ASSUME JournalInv, Stop \/ Spend \/ \E s \in Steps : Accept(s) \/ Reject(s) \/ Reconcile(s)
  PROVE  JournalInv'
<1>1. FieldsOK /\ Writing
  BY DEF JournalInv
<1>2. CASE Stop
  <2>1. run' \in RunType /\ run'.phase = "idle" /\ UNCHANGED <<file, env, fate, paid>>
    BY <1>1, <1>2, PhaseChanged DEF Stop, Phases
  <2>2. Writing'
    BY <2>1 DEF Writing, Sending
  <2> QED BY <2>1, <2>2, RunMoves
<1>3. CASE Spend
  <2>1. UNCHANGED <<run, file, env, fate, paid>>
    BY <1>3 DEF Spend
  <2> QED BY <1>1, <2>1, RunMoves DEF FieldsOK, Writing, Sending, Step
<1>4. ASSUME NEW s \in Steps, Accept(s) \/ Reject(s) PROVE JournalInv'
  <2>1. UNCHANGED <<run, file, env>> /\ fate[s] = "flight"
    BY <1>4 DEF Accept, Reject
  <2>2. /\ fate'[s] \in {"accepted", "failed"} /\ \A r \in Steps \ {s} : fate'[r] = fate[r]
        /\ paid'[s] = IF fate'[s] = "accepted" THEN 1 ELSE 0
        /\ \A r \in Steps \ {s} : paid'[r] = paid[r]
        /\ fate' \in [Steps -> {"none", "flight", "accepted", "failed"}]
        /\ paid' \in [Steps -> Nat]
    BY <1>1, <1>4 DEF Accept, Reject, FieldsOK, JournalInv, Journaled
  <2>3. \A r \in Steps : Journaled(r)'
    BY <2>1, <2>2 DEF JournalInv, Journaled, Address
  <2>4. Writing'
    BY <1>1, <2>1, <2>2, StepIsStep DEF Writing, Sending, Step
  <2> QED BY <2>1, <2>2, <2>3, <2>4 DEF JournalInv, FieldsOK, Published
<1>5. ASSUME NEW s \in Steps, Reconcile(s) PROVE JournalInv'
  <2>1. /\ UNCHANGED <<run, env, paid>> /\ run.phase = "idle"
        /\ file.steps[s] = "pending" /\ fate[s] # "flight"
    BY <1>5 DEF Reconcile, Idle
  <2>2. Writing'
    BY <2>1 DEF Writing, Sending
  <2>3. CASE fate[s] = "accepted"
    <3>1. /\ file' \in RecordType /\ file'.known = file.known \cup Address(s)
          /\ file'.steps = [file.steps EXCEPT ![s] = "complete"] /\ fate' = fate
      BY <1>1, <1>5, <2>3, CompletedIsRecord DEF Reconcile
    <3>2. /\ file'.steps[s] = "complete"
          /\ \A r \in Steps \ {s} : file'.steps[r] = file.steps[r]
      BY <1>1, <3>1 DEF FieldsOK, RecordType
    <3>3. \A r \in Steps \ {s} :
             Address(r) \subseteq file'.known => Address(r) \subseteq file.known
      BY <3>1, OneCreator
    <3>4. \A r : Address(r)' = Address(r)
      BY DEF Address
    <3>5. \A r \in Steps : Journaled(r)'
      BY <2>1, <2>3, <3>1, <3>2, <3>3, <3>4 DEF JournalInv, Journaled
    <3> QED BY <1>1, <2>1, <2>2, <3>1, <3>2, <3>5 DEF JournalInv, FieldsOK, Published, Steps
  <2>4. CASE fate[s] # "accepted"
    <3>1. /\ file' = [file EXCEPT !.steps[s] = "none"] /\ fate' = [fate EXCEPT ![s] = "none"]
      BY <1>5, <2>4 DEF Reconcile
    <3>2. /\ file' \in RecordType /\ file'.known = file.known
          /\ file'.steps = [file.steps EXCEPT ![s] = "none"]
      BY <1>1, <3>1 DEF FieldsOK, RecordType, Statuses
    <3>3. /\ file'.steps[s] = "none" /\ fate'[s] = "none"
          /\ \A r \in Steps \ {s} : file'.steps[r] = file.steps[r] /\ fate'[r] = fate[r]
      BY <1>1, <3>1, <3>2 DEF FieldsOK, RecordType
    <3>4. \A r \in Steps : Journaled(r)'
      BY <2>1, <2>4, <3>2, <3>3 DEF JournalInv, Journaled, Address
    <3>5. fate' \in [Steps -> {"none", "flight", "accepted", "failed"}]
      BY <1>1, <3>1 DEF FieldsOK
    <3> QED BY <1>1, <2>1, <2>2, <3>2, <3>3, <3>4, <3>5 DEF JournalInv, FieldsOK, Published, Steps
  <2> QED BY <2>3, <2>4
<1> QED BY <1>2, <1>3, <1>4, <1>5

LEMMA JournalInvariant == Spec => []JournalInv
<1>1. ASSUME JournalInv, [Next]_vars PROVE JournalInv'
  <2>1. CASE UNCHANGED vars
    <3>1. UNCHANGED <<file, env, run, fate, paid>>
      BY <2>1 DEF vars
    <3>2. Writing'
      BY <3>1, <1>1 DEF JournalInv, Writing, Sending, Step
    <3>3. run' \in RunType
      BY <3>1, <1>1 DEF JournalInv, FieldsOK
    <3> QED BY <1>1, <3>1, <3>2, <3>3, RunMoves
  <2> QED BY <1>1, <2>1, ScriptInv, WorldInv DEF Next
<1> QED BY <1>1, InvInit, PTL DEF Spec

(* No step is paid twice, however often scripts stop and are run again.    *)
THEOREM PaidOnceForever == Spec => []StepPaidOnce
<1>1. JournalInv => StepPaidOnce
  BY DEF JournalInv, Journaled, StepPaidOnce
<1> QED BY <1>1, JournalInvariant, PTL

(* The frontend is told only of what is on the network.                    *)
THEOREM FrontendIsToldTheTruth == Spec => []PublishedIsReal
<1>1. JournalInv => PublishedIsReal
  BY DEF JournalInv, Journaled, Published, PublishedIsReal, Steps
<1> QED BY <1>1, JournalInvariant, PTL

-----------------------------------------------------------------------------
(* The mint.                                                               *)

Seeds == {"seedLiquidity", "seedFaucet"}

(* While a mint is open no seed is, and what it makes the seeds will take; *)
(* a script that is past the mint left none open.                          *)
MintInv ==
  /\ deficit \in Nat /\ treasury \in Nat
  /\ run.phase # "idle" /\ run.script = Deploy /\ run.at >= 4 =>
       file.steps["mintDeficit"] # "pending"
  /\ file.steps["mintDeficit"] = "pending" =>
       deficit <= SeedsToPay /\ \A s \in Seeds : file.steps[s] # "pending"

LEMMA MintInit == Init => MintInv
BY Lengths DEF Init, MintInv, FreshRecord, Steps

LEMMA SeedsToPayIsNat == SeedsToPay \in Nat
BY AmountAssumption DEF SeedsToPay

(* Which step a deployment has reached.                                    *)
LEMMA StepOfScript ==
  ASSUME FieldsOK, run.at <= Len(run.script), run.script = Deploy
  PROVE  /\ Step = "mintDeficit" <=> run.at = 3
         /\ Step \in Seeds => run.at >= 4
<1>1. run.at \in 1..6
  BY Lengths DEF FieldsOK, RunType
<1>2. run.at = 1 \/ run.at = 2 \/ run.at = 3 \/ run.at = 4 \/ run.at = 5 \/ run.at = 6
  BY <1>1
<1> QED BY <1>2 DEF Step, Deploy, Seeds

LEMMA StepOfBootstrap ==
  ASSUME FieldsOK, run.at <= Len(run.script), run.script = Bootstrap
  PROVE  Step \notin Seeds \cup {"mintDeficit"}
<1>1. run.at \in 1..2
  BY Lengths DEF FieldsOK, RunType
<1>2. run.at = 1 \/ run.at = 2
  BY <1>1
<1> QED BY <1>2 DEF Step, Bootstrap, Seeds

(* What is still to be paid, when the outcome of the seeds is known, is    *)
(* what the journal says.                                                  *)
LEMMA NeededIsToPay ==
  ASSUME JournalInv, \A s \in Seeds : file.steps[s] # "pending"
  PROVE  Needed = SeedsToPay
<1>1. \A s \in Seeds : s \in Steps /\ file.steps[s] \in Statuses \ {"pending"}
  BY DEF JournalInv, FieldsOK, RecordType, Seeds, Steps
<1>2. \A s \in Seeds : file.steps[s] = "complete" <=> paid[s] # 0
  BY <1>1 DEF JournalInv, Journaled, Statuses
<1> QED BY <1>2 DEF Needed, Outstanding, SeedsToPay, Seeds

(* A step that leaves the mint, the seeds and the money alone.             *)
LEMMA MintAside ==
  ASSUME MintInv, UNCHANGED <<deficit, treasury>>,
         run'.phase # "idle" /\ run'.script = Deploy /\ run'.at >= 4 =>
           file'.steps["mintDeficit"] # "pending",
         file'.steps["mintDeficit"] = "pending" => file.steps["mintDeficit"] = "pending",
         \A s \in Seeds : /\ paid'[s] = paid[s]
                          /\ file'.steps["mintDeficit"] = "pending" /\ file'.steps[s] = "pending" =>
                               file.steps[s] = "pending"
  PROVE  MintInv'
<1>1. SeedsToPay' = SeedsToPay
  BY DEF SeedsToPay, Seeds
<1> QED BY <1>1 DEF MintInv

LEMMA MintSkip == JournalInv /\ MintInv /\ Skip => MintInv'
<1> SUFFICES ASSUME JournalInv, MintInv, Skip PROVE MintInv'
  OBVIOUS
<1>1. FieldsOK /\ run.phase = "next" /\ run.at <= Len(run.script)
  BY DEF JournalInv, Skip, Deciding
<1>2. run.script \in Scripts /\ run.at \in Nat
  BY <1>1 DEF FieldsOK, RunType
<1>3. file'.steps = file.steps
  BY <1>1 DEF Skip, SaveDeployment, FieldsOK, RecordType
<1>4. run'.script = run.script /\ run'.at = run.at + 1
  BY <1>1 DEF Skip, SaveDeployment, FieldsOK, RunType
<1>5. run.script = Deploy /\ run.at = 3 => file.steps["mintDeficit"] # "pending"
  BY <1>1, StepOfScript DEF Skip, MayProceed, Unresolved
<1>6. run'.script = Deploy /\ run'.at >= 4 => file'.steps["mintDeficit"] # "pending"
  BY <1>1, <1>2, <1>3, <1>4, <1>5 DEF MintInv
<1> QED BY <1>3, <1>6, MintAside DEF Skip

LEMMA MintBegin == JournalInv /\ MintInv /\ Begin => MintInv'
<1> SUFFICES ASSUME JournalInv, MintInv, Begin PROVE MintInv'
  OBVIOUS
<1>1. FieldsOK /\ run.phase = "next" /\ run.at <= Len(run.script)
  BY DEF JournalInv, Begin, Deciding
<1>2. PICK s \in Steps : s = Step
  BY <1>1, StepIsStep
<1>3. file' = Begun(file, s) /\ run'.script = run.script /\ run'.at = run.at
  BY <1>2 DEF Begin, SaveDeployment
<1>4. /\ \A r \in Steps \ {s} : file'.steps[r] = file.steps[r]
      /\ file.steps[s] # "pending"
  BY <1>1, <1>2, <1>3, BegunIsRecord DEF Begin, CanBegin
<1>5. run.script \in {Deploy, Bootstrap} /\ run.at \in Nat
  BY <1>1 DEF FieldsOK, RunType, Scripts
<1>6. "mintDeficit" \in Steps /\ Seeds \subseteq Steps \ {"mintDeficit"}
  BY DEF Steps, Seeds
<1>7. CASE s = "mintDeficit"
  <2>1. /\ deficit' = Needed - treasury /\ treasury < Needed /\ UNCHANGED <<treasury, paid>>
        /\ \A r \in Seeds : file.steps[r] # "pending"
    BY <1>2, <1>7 DEF Begin, Wanted, Short, MayProceed, Unresolved, Seeds
  <2>2. Needed = SeedsToPay /\ SeedsToPay' = SeedsToPay /\ SeedsToPay \in Nat
    BY <2>1, NeededIsToPay, SeedsToPayIsNat DEF SeedsToPay
  <2>3. deficit' \in Nat /\ deficit' <= SeedsToPay' /\ treasury' \in Nat
    BY <2>1, <2>2 DEF MintInv
  <2>4. ~(run'.script = Deploy /\ run'.at >= 4)
    BY <1>1, <1>2, <1>3, <1>5, <1>7, StepOfScript
  <2> QED BY <1>4, <1>6, <1>7, <2>1, <2>3, <2>4 DEF MintInv
<1>8. CASE s \in Seeds
  <2>1. run.script = Deploy /\ run.at >= 4
    BY <1>1, <1>2, <1>5, <1>8, StepOfScript, StepOfBootstrap
  <2>2. file'.steps["mintDeficit"] # "pending"
    BY <1>1, <1>4, <1>6, <1>8, <2>1 DEF MintInv
  <2> QED BY <1>2, <1>6, <1>8, <2>2, MintAside DEF Begin
<1>9. CASE s \notin Seeds \cup {"mintDeficit"}
  BY <1>1, <1>2, <1>3, <1>4, <1>6, <1>9, MintAside DEF Begin, MintInv
<1> QED BY <1>7, <1>8, <1>9

LEMMA MintConfirm == JournalInv /\ MintInv /\ Confirm => MintInv'
<1> SUFFICES ASSUME JournalInv, MintInv, Confirm PROVE MintInv'
  OBVIOUS
<1>1. FieldsOK /\ run.phase = "confirm" /\ run.at <= Len(run.script)
  BY DEF JournalInv, Writing, Confirm
<1>2. PICK s \in Steps : s = Step
  BY <1>1, StepIsStep
<1>3. file' = Completed(file, s) /\ run'.script = run.script /\ run'.at = run.at + 1
  BY <1>2 DEF Confirm, SaveDeployment
<1>4. file'.steps[s] = "complete" /\ \A r \in Steps \ {s} : file'.steps[r] = file.steps[r]
  <2>1. file'.steps = [file.steps EXCEPT ![s] = "complete"]
    BY <1>1, <1>3, CompletedIsRecord
  <2> QED BY <1>1, <2>1 DEF FieldsOK, RecordType
<1>5. run.at \in Nat /\ "mintDeficit" \in Steps /\ Seeds \subseteq Steps
  BY <1>1 DEF FieldsOK, RunType, Steps, Seeds
<1>6. run'.script = Deploy /\ run'.at >= 4 => s = "mintDeficit" \/ file.steps["mintDeficit"] # "pending"
  BY <1>1, <1>2, <1>3, <1>5, StepOfScript DEF MintInv
<1> QED BY <1>4, <1>5, <1>6, MintAside DEF Confirm

LEMMA MintScript == JournalInv /\ MintInv /\ Script => MintInv'
<1> SUFFICES ASSUME JournalInv, MintInv, Script PROVE MintInv'
  OBVIOUS
<1>1. FieldsOK
  BY DEF JournalInv
<1>2. CASE StartDeploy
  <2>1. file' = file /\ run'.at = 1
    BY <1>2 DEF StartDeploy, SaveDeployment
  <2> QED BY <1>2, <2>1, MintAside DEF StartDeploy
<1>3. CASE StartBootstrap
  <2>1. file' = file /\ run'.script # Deploy
    BY <1>3, ScriptSteps DEF StartBootstrap
  <2> QED BY <1>3, <2>1, MintAside DEF StartBootstrap
<1>4. CASE Send \/ Publish \/ Finish
  <2>1. UNCHANGED <<file, deficit, treasury, paid>> /\ run.phase # "idle"
    BY <1>4 DEF Send, Publish, Finish, SaveDeployment
  <2>2. run'.script = run.script /\ run'.at = run.at
    BY <1>1, <1>4 DEF Send, Publish, Finish, SaveDeployment, FieldsOK, RunType
  <2> QED BY <2>1, <2>2, MintAside DEF MintInv
<1> QED BY <1>2, <1>3, <1>4, MintSkip, MintBegin, MintConfirm DEF Script

LEMMA PaymentIsInt == ASSUME deficit \in Nat, NEW s \in Steps PROVE Paid(s) \in Int
BY AmountAssumption DEF Paid, Payment

LEMMA MintWorld ==
  ASSUME JournalInv, MintInv,
         Stop \/ Spend \/ \E s \in Steps : Accept(s) \/ Reject(s) \/ Reconcile(s)
  PROVE  MintInv'
<1>1. FieldsOK /\ "mintDeficit" \in Steps /\ Seeds \subseteq Steps
  BY DEF JournalInv, Steps, Seeds
<1>2. CASE Stop
  <2>1. run'.phase = "idle" /\ UNCHANGED <<file, deficit, treasury, paid>>
    BY <1>1, <1>2 DEF Stop, FieldsOK, RunType
  <2> QED BY <2>1, MintAside
<1>3. CASE Spend
  <2>1. treasury' \in Nat /\ UNCHANGED <<file, run, deficit, paid>>
    BY <1>3 DEF Spend, MintInv
  <2>2. SeedsToPay' = SeedsToPay
    BY <2>1 DEF SeedsToPay
  <2> QED BY <2>1, <2>2 DEF MintInv
<1>4. ASSUME NEW s \in Steps, Accept(s) PROVE MintInv'
  <2>1. treasury' \in Nat
    BY <1>4, PaymentIsInt DEF Accept, MintInv
  <2>2. UNCHANGED <<file, run, deficit>> /\ \A r \in Steps \ {s} : paid'[r] = paid[r]
    BY <1>1, <1>4 DEF Accept, FieldsOK
  <2>3. file.steps[s] = "pending"
    BY <1>1, <1>4 DEF Accept, JournalInv, Journaled, FieldsOK, RecordType, Statuses
  <2>4. file.steps["mintDeficit"] = "pending" => SeedsToPay' = SeedsToPay
    <3>1. file.steps["mintDeficit"] = "pending" => s \notin Seeds
      BY <2>3 DEF MintInv
    <3> QED BY <1>1, <2>2, <3>1 DEF SeedsToPay, Seeds
  <2> QED BY <2>1, <2>2, <2>4 DEF MintInv
<1>5. ASSUME NEW s \in Steps, Reject(s) PROVE MintInv'
  BY <1>5, MintAside DEF Reject, MintInv
<1>6. ASSUME NEW s \in Steps, Reconcile(s) PROVE MintInv'
  <2>1. UNCHANGED <<run, deficit, treasury, paid>> /\ run.phase = "idle"
    BY <1>6 DEF Reconcile, Idle
  <2>2. file'.steps = [file.steps EXCEPT ![s] = "complete"]
          \/ file'.steps = [file.steps EXCEPT ![s] = "none"]
    BY <1>1, <1>6, CompletedIsRecord DEF Reconcile, FieldsOK, RecordType
  <2>3. \A r \in Steps : file'.steps[r] = "pending" => file.steps[r] = "pending"
    BY <1>1, <2>2 DEF FieldsOK, RecordType
  <2> QED BY <1>1, <2>1, <2>3, MintAside
<1> QED BY <1>2, <1>3, <1>4, <1>5, <1>6

LEMMA MintInvariant == Spec => []MintInv
<1>1. ASSUME JournalInv, MintInv, [Next]_vars PROVE MintInv'
  <2>1. CASE UNCHANGED vars
    <3>1. UNCHANGED <<file, run, deficit, treasury, paid>>
      BY <2>1 DEF vars
    <3> QED BY <1>1, <3>1, MintAside DEF MintInv
  <2> QED BY <1>1, <2>1, MintScript, MintWorld DEF Next
<1> QED BY <1>1, MintInit, JournalInvariant, PTL DEF Spec

(* Every variable keeps its type, and the treasury is never overdrawn.     *)
THEOREM TypesHold == Spec => []TypeOK
<1>1. JournalInv /\ MintInv => TypeOK
  <2> SUFFICES ASSUME JournalInv, MintInv PROVE TypeOK
    OBVIOUS
  <2>1. FieldsOK /\ \A s \in Steps : paid[s] \in 0..PaidBound
    BY DEF JournalInv, Journaled, PaidBound
  <2>2. env \subseteq Addresses
    BY DEF JournalInv, Published, FieldsOK, RecordType
  <2>3. paid \in [Steps -> 0..PaidBound]
    BY <2>1 DEF FieldsOK
  <2> QED BY <2>1, <2>2, <2>3 DEF TypeOK, FieldsOK, RecordType, RunType, MintInv, Phases,
                                Continuations, Statuses
<1> QED BY <1>1, JournalInvariant, MintInvariant, PTL

(* A mint makes at most what the seeds that are still to be paid take.     *)
THEOREM MintsForSeedsOnly == Spec => MintCoversSeeds
<1>1. ASSUME JournalInv, MintInv, [Next]_vars, paid'["mintDeficit"] > paid["mintDeficit"]
      PROVE  treasury' - treasury <= SeedsToPay
  <2>1. FieldsOK /\ "mintDeficit" \in Steps
    BY <1>1 DEF JournalInv, Steps
  <2>2. paid["mintDeficit"] \in Nat /\ paid' # paid
    BY <1>1, <2>1 DEF FieldsOK
  <2>3. PICK s \in Steps : Accept(s)
    BY <1>1, <2>2 DEF Next, Script, StartDeploy, StartBootstrap, Skip, Begin, Send, Confirm,
                      Publish, Finish, Stop, Spend, Reject, Reconcile, vars
  <2>4. s = "mintDeficit"
    BY <1>1, <2>1, <2>2, <2>3 DEF Accept, FieldsOK
  <2>5. treasury' = treasury + deficit
    BY <2>3, <2>4 DEF Accept, Paid, Payment
  <2>6. file.steps["mintDeficit"] = "pending"
    BY <1>1, <2>1, <2>3, <2>4 DEF Accept, JournalInv, Journaled, FieldsOK, RecordType, Statuses
  <2> QED BY <1>1, <2>5, <2>6, SeedsToPayIsNat DEF MintInv
<1>2. JournalInv /\ MintInv /\ [Next]_vars =>
        [paid'["mintDeficit"] > paid["mintDeficit"] => treasury' - treasury <= SeedsToPay]_vars
  BY <1>1
<1> QED BY <1>2, JournalInvariant, MintInvariant, PTL DEF Spec, MintCoversSeeds
=============================================================================
