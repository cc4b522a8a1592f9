----------------------------- MODULE DeployJournal -----------------------------
(***************************************************************************)
(* The deployment scripts and their journal:                               *)
(* packages/hardhat/scripts/deploy.ts, bootstrap.ts and lib/record.ts.     *)
(*                                                                         *)
(* A deployment is a sequence of paid transactions on a network that       *)
(* answers late or never.  The journal, a file, holds the state of every   *)
(* step, so that a script that stopped anywhere can be run again.  After   *)
(* each change of the journal the public addresses go to the frontend's    *)
(* environment file, in a second write.                                    *)
(*                                                                         *)
(* One script runs at a time, as the README has the operator do.  A        *)
(* script's copy of the record is saved in the same breath as it changes,  *)
(* so the model keeps the file alone.  The save of a transaction's id or   *)
(* hash changes nothing the model distinguishes.  Approvals and token      *)
(* associations can be repeated at will and are left out, as is a record   *)
(* of another version, artifact or operator, which the scripts reject.     *)
(***************************************************************************)
EXTENDS Integers, Sequences

CONSTANTS
    USDX_TOTAL_SUPPLY,     \* minted to the treasury with the token
    POOL_LIQUIDITY_USDX,   \* what seedLiquidity takes from the treasury
    FAUCET_SEED_USDX,      \* what seedFaucet takes
    AmmUsdx                \* what ammSeed takes

ASSUME AmountAssumption ==
    /\ USDX_TOTAL_SUPPLY \in Nat /\ POOL_LIQUIDITY_USDX \in Nat
    /\ FAUCET_SEED_USDX \in Nat /\ AmmUsdx \in Nat

Deploy == <<"createUsdx", "createPool", "mintDeficit", "seedLiquidity", "seedFaucet",
            "createTopic">>
Bootstrap == <<"createPair", "ammSeed">>
Scripts == {Deploy, Bootstrap}
Steps == {"createUsdx", "createPool", "mintDeficit", "seedLiquidity", "seedFaucet",
          "createTopic", "createPair", "ammSeed"}
Addresses == {"usdx", "pool", "topic", "pair"}

VARIABLES
    file,      \* the journal: the status of every step and the addresses known
    env,       \* the addresses in the frontend's environment file
    run,       \* the script under way: its steps, its position and what it does there
    deficit,   \* what the last mint asked for
    fate,      \* what became of the last transaction of every step
    paid,      \* how many transactions of every step the network has accepted
    treasury   \* USDX the operator holds

vars == <<file, env, run, deficit, fate, paid, treasury>>

-------------------------------------------------------------------------------
(* lib/record.ts                                                           *)

FreshRecord == [steps |-> [s \in Steps |-> "none"], known |-> {}]

(* The addresses a record publishes; the pair only when it is seeded.      *)
BugPublicEnv(record) == record.known

PublicEnv(record) ==
    (record.known \ {"pair"})
      \cup IF record.steps["ammSeed"] = "complete" THEN record.known \cap {"pair"} ELSE {}

(* The record is on disk; before the script goes on in phase then, the     *)
(* environment file is written, once there is a pool.                      *)
SaveDeployment(record, script, at, then) ==
    /\ file' = record
    /\ run' = [script |-> script, at |-> at, then |-> then,
               phase |-> IF "pool" \in record.known THEN "publish" ELSE then]

Publish ==
    /\ run.phase = "publish"
    /\ env' = PublicEnv(file)
    /\ run' = [run EXCEPT !.phase = run.then]
    /\ UNCHANGED <<file, deficit, fate, paid, treasury>>

(* A step can begin when no submission of it is unresolved.                *)
BugCanBegin(s) == file.steps[s] = "pending" => fate[s] # "accepted"

CanBegin(s) == file.steps[s] # "pending"

Begun(record, s) ==
    [record EXCEPT !.steps[s] = IF record.steps[s] = "complete" THEN "complete" ELSE "pending"]

(* What a completed step adds to the record.                               *)
CreatedBy == [usdx |-> "createUsdx", pool |-> "createPool", topic |-> "createTopic",
              pair |-> "createPair"]

Address(s) == {a \in Addresses : CreatedBy[a] = s}

Completed(record, s) ==
    [steps |-> [record.steps EXCEPT ![s] = "complete"], known |-> record.known \cup Address(s)]

-------------------------------------------------------------------------------
(* The scripts.                                                            *)

Idle == run.phase = "idle"
Deciding == run.phase = "next" /\ run.at <= Len(run.script)
Step == run.script[run.at]

(* deploy.ts refuses to look at the treasury while the outcome of one of   *)
(* these is unknown, and bootstrap.ts to begin while one of its own is.    *)
BugUnresolved == file.steps["mintDeficit"] = "pending"

Unresolved == \E s \in {"seedLiquidity", "seedFaucet", "mintDeficit"} : file.steps[s] = "pending"

PairUnresolved == \E s \in {"ammSeed", "createPair"} : file.steps[s] = "pending"

Outstanding(s, amount) == IF file.steps[s] = "complete" THEN 0 ELSE amount

Needed == Outstanding("seedLiquidity", POOL_LIQUIDITY_USDX)
            + Outstanding("seedFaucet", FAUCET_SEED_USDX)

BugShort == treasury # Needed

Short == treasury < Needed

(* Whether the script has anything to do for the step it has reached.      *)
Wanted ==
    \/ Step = "createUsdx" /\ "usdx" \notin file.known
    \/ Step = "createPool" /\ "pool" \notin file.known
    \/ Step = "mintDeficit" /\ Short
    \/ Step \in {"seedLiquidity", "seedFaucet"} /\ file.steps[Step] # "complete"
    \/ Step = "createTopic" /\ "topic" \notin file.known
    \/ Step = "createPair" /\ paid["createPair"] = 0
    \/ Step = "ammSeed"

MayProceed == Step = "mintDeficit" => ~Unresolved

StartDeploy ==
    /\ Idle
    /\ SaveDeployment(file, Deploy, 1, "next")
    /\ UNCHANGED <<env, deficit, fate, paid, treasury>>

StartBootstrap ==
    /\ Idle
    /\ "pool" \in file.known
    /\ file.steps["ammSeed"] # "complete"
    /\ ~PairUnresolved
    /\ run' = [script |-> Bootstrap, at |-> 1, phase |-> "next", then |-> "next"]
    /\ UNCHANGED <<file, env, deficit, fate, paid, treasury>>

(* The step is done already; the pair found at the factory is recorded.    *)
Skip ==
    /\ Deciding /\ MayProceed /\ ~Wanted
    /\ IF Step = "createPair"
       THEN SaveDeployment([file EXCEPT !.known = @ \cup {"pair"}], run.script, run.at + 1, "next")
       ELSE run' = [run EXCEPT !.at = @ + 1] /\ UNCHANGED file
    /\ UNCHANGED <<env, deficit, fate, paid, treasury>>

(* The step is on disk as pending before anything is sent.  A mint that    *)
(* was completed once is not repeated.                                     *)
Begin ==
    /\ Deciding /\ MayProceed /\ Wanted
    /\ CanBegin(Step)
    /\ Step = "mintDeficit" => file.steps[Step] # "complete"
    /\ deficit' = IF Step = "mintDeficit" THEN Needed - treasury ELSE deficit
    /\ SaveDeployment(Begun(file, Step), run.script, run.at, "send")
    /\ UNCHANGED <<env, fate, paid, treasury>>

Send ==
    /\ run.phase = "send"
    /\ fate' = [fate EXCEPT ![Step] = "flight"]
    /\ run' = [run EXCEPT !.phase = "confirm"]
    /\ UNCHANGED <<file, env, deficit, paid, treasury>>

(* The receipt is there.                                                   *)
Confirm ==
    /\ run.phase = "confirm"
    /\ fate[Step] = "accepted"
    /\ SaveDeployment(Completed(file, Step), run.script, run.at + 1, "next")
    /\ UNCHANGED <<env, deficit, fate, paid, treasury>>

Finish ==
    /\ run.phase = "next" /\ run.at > Len(run.script)
    /\ IF run.script = Deploy
       THEN SaveDeployment(file, Deploy, run.at, "idle")
       ELSE run' = [run EXCEPT !.phase = "idle"] /\ UNCHANGED file
    /\ UNCHANGED <<env, deficit, fate, paid, treasury>>

(* The process dies, a call fails, a transaction is reverted, or the       *)
(* journal does not let the script go on: the script ends where it is.     *)
Stop ==
    /\ ~Idle
    /\ run' = [run EXCEPT !.phase = "idle"]
    /\ UNCHANGED <<file, env, deficit, fate, paid, treasury>>

-------------------------------------------------------------------------------
(* The network and the operator.                                           *)

(* How a transaction changes the operator's USDX.                          *)
Payment ==
    [createUsdx |-> USDX_TOTAL_SUPPLY, mintDeficit |-> deficit,
     seedLiquidity |-> -POOL_LIQUIDITY_USDX, seedFaucet |-> -FAUCET_SEED_USDX,
     ammSeed |-> -AmmUsdx]

Paid(s) == IF s \in DOMAIN Payment THEN Payment[s] ELSE 0

(* A transaction is accepted at any time after it was sent, also when the  *)
(* script has ended; PaidBound stops a faulty variant of the scripts.      *)
PaidBound == 2

Accept(s) ==
    /\ fate[s] = "flight" /\ paid[s] < PaidBound
    /\ treasury + Paid(s) >= 0
    /\ fate' = [fate EXCEPT ![s] = "accepted"]
    /\ paid' = [paid EXCEPT ![s] = @ + 1]
    /\ treasury' = treasury + Paid(s)
    /\ UNCHANGED <<file, env, run, deficit>>

(* It is reverted, or never arrives.                                       *)
Reject(s) ==
    /\ fate[s] = "flight"
    /\ fate' = [fate EXCEPT ![s] = "failed"]
    /\ UNCHANGED <<file, env, run, deficit, paid, treasury>>

(* The operator uses the treasury for something else.                      *)
Spend ==
    /\ treasury > 0
    /\ treasury' = treasury - 1
    /\ UNCHANGED <<file, env, run, deficit, fate, paid>>

(* The operator looks up a pending step whose outcome is settled, and      *)
(* completes it in the journal or takes it out.                            *)
Reconcile(s) ==
    /\ Idle /\ file.steps[s] = "pending" /\ fate[s] # "flight"
    /\ IF fate[s] = "accepted"
       THEN file' = Completed(file, s) /\ UNCHANGED fate
       ELSE /\ file' = [file EXCEPT !.steps[s] = "none"]
            /\ fate' = [fate EXCEPT ![s] = "none"]
    /\ UNCHANGED <<env, run, deficit, paid, treasury>>

-------------------------------------------------------------------------------
Init ==
    /\ file = FreshRecord /\ env = {} /\ deficit = 0 /\ treasury = 0
    /\ run = [script |-> Deploy, at |-> 1, phase |-> "idle", then |-> "next"]
    /\ fate = [s \in Steps |-> "none"] /\ paid = [s \in Steps |-> 0]

Script == StartDeploy \/ StartBootstrap \/ Skip \/ Begin \/ Send \/ Confirm \/ Publish \/ Finish

Next ==
    \/ Script \/ Stop \/ Spend
    \/ \E s \in Steps : Accept(s) \/ Reject(s) \/ Reconcile(s)

Spec == Init /\ [][Next]_vars

-------------------------------------------------------------------------------
(* Every variable has its type.                                            *)
TypeOK ==
    /\ file \in [steps : [Steps -> {"none", "pending", "complete"}], known : SUBSET Addresses]
    /\ env \subseteq Addresses
    /\ run \in [script : Scripts, at : 1..(Len(Deploy) + 1),
                phase : {"idle", "next", "publish", "send", "confirm"},
                then : {"idle", "next", "send"}]
    /\ fate \in [Steps -> {"none", "flight", "accepted", "failed"}]
    /\ paid \in [Steps -> 0..PaidBound]
    /\ deficit \in Nat /\ treasury \in Nat

(* However often the scripts stop and are run again, and however late the  *)
(* network accepts what they sent, no step is paid twice: beginStep and    *)
(* the order of its write and the submission (record.ts:104).              *)
StepPaidOnce == \A s \in Steps : paid[s] <= 1

(* What the frontend is told is on the network, and the pair only once it  *)
(* has been seeded (record.ts:66).                                         *)
PublishedIsReal ==
    /\ \A s \in Steps : Address(s) \subseteq env => Address(s) = {} \/ paid[s] = 1
    /\ "pair" \in env => paid["ammSeed"] = 1

(* A mint never makes more USDX than the seeds that are still to be paid   *)
(* take: the outcome of every earlier seed is known before the treasury is *)
(* read (deploy.ts:208).                                                   *)
SeedsToPay ==
    (IF paid["seedLiquidity"] = 0 THEN POOL_LIQUIDITY_USDX ELSE 0)
      + (IF paid["seedFaucet"] = 0 THEN FAUCET_SEED_USDX ELSE 0)

MintCoversSeeds ==
    [][paid'["mintDeficit"] > paid["mintDeficit"] => treasury' - treasury <= SeedsToPay]_vars
===============================================================================
