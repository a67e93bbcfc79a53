----------------------------- MODULE RunBatches -----------------------------
(***************************************************************************)
(* The batches of one run (evalnoise/runner.py): the pool that runs a      *)
(* batch's trials, trial with its container, verify after the batch, and   *)
(* the status the manifest ends with.  The run is alive and holds the      *)
(* engine's lock; kills, the lock and recovery are in EngineCoordination.  *)
(*                                                                         *)
(* Abstracted: trials are numbered in the order of the plan; time (a       *)
(* deadline may pass at any moment); telemetry; an agent trial's           *)
(* containers (AgentBudget); "failed" stands for the resolved outcomes     *)
(* that are no pass, intervention or runner_error, not told apart here.    *)
(* Writing an artifact does not fail.                                      *)
(***************************************************************************)
EXTENDS Integers, FiniteSets

CONSTANTS
  Trials,       \* the planned trials, numbers in the order of the plan
  Batches,      \* the number of batches
  BatchOf,      \* [Trials -> 1..Batches]
  Verified,     \* the trials whose task has a verifier
  Concurrency   \* [1..Batches -> Nat]: the threads of the batch's profile

ASSUME BatchesAssumption ==
  /\ Trials \subseteq Nat \ {0} /\ IsFiniteSet(Trials)
  /\ Batches \in Nat
  /\ BatchOf \in [Trials -> 1..Batches]
  /\ Verified \subseteq Trials
  /\ Concurrency \in [1..Batches -> Nat \ {0}]

VARIABLES
  main,         \* where the main thread is
  batch, turn,  \* the batch it is at, and how far its verification has come
  status,       \* manifest["status"] in memory
  manifest,     \* the status on disk
  stop,         \* the stop event
  at,           \* [Stages -> where trial() is]
  box,          \* [Stages -> the container's state]
  outcome,      \* [Stages -> execution status, an intervention from its start]
  left,         \* [Stages -> BOOLEAN]: cleanup_error
  record        \* [Trials -> status]: what trials/<id>.json says

stageVars == <<at, box, outcome, left>>

mainVars == <<main, batch, turn, status, manifest>>

runVars == <<mainVars, stop, stageVars, record>>

-----------------------------------------------------------------------------
Work(t) == <<t, "work">>

Check(t) == <<t, "verify">>

Stages == Trials \X {"work", "verify"}

Outcomes ==
  {"none", "passed", "timeout", "cancelled", "failed", "unknown", "runner_error"}

Records ==
  Outcomes \cup {"pending_verification", "artifact_error", "verifier_error", "verification_failed"}

Over(s) == at[s] \in {"ended", "raised"}

Busy == {s \in Stages : at[s] # "waiting" /\ ~Over(s)}

InBatch == {t \in Trials : BatchOf[t] = batch}

RunInit ==
  /\ main = "looping" /\ batch = 1 /\ turn = 0
  /\ status = "running" /\ manifest = "running"
  /\ stop = FALSE
  /\ at = [s \in Stages |-> "waiting"]
  /\ box = [s \in Stages |-> "none"]
  /\ outcome = [s \in Stages |-> "none"]
  /\ left = [s \in Stages |-> FALSE]
  /\ record = [t \in Trials |-> "none"]

-----------------------------------------------------------------------------
(* trial, from create to what it records.                                  *)

Goes(s, from, to) == at[s] = from /\ at' = [at EXCEPT ![s] = to]

Concludes(s, o) ==
  /\ at' = [at EXCEPT ![s] = "removing"]
  /\ outcome' = [outcome EXCEPT ![s] = o]

\* create, inspect and audit; a create that timed out may yet be carried out.
Create(s) ==
  /\ at[s] = "creating"
  /\ \/ /\ at' = [at EXCEPT ![s] = "starting"]
        /\ box' = [box EXCEPT ![s] = "created"]
        /\ UNCHANGED outcome
     \/ /\ Concludes(s, "failed")
        /\ \E b \in {"none", "ordered", "created"} : box' = [box EXCEPT ![s] = b]
  /\ UNCHANGED <<mainVars, stop, left, record>>

Start(s) ==
  /\ Goes(s, "starting", "started")
  /\ box' = [box EXCEPT ![s] = "starting"]
  /\ UNCHANGED <<mainVars, stop, outcome, left, record>>

\* start answered; or it failed or timed out, and may be carried out later.
StartReturns(s) ==
  /\ at[s] = "started"
  /\ \/ /\ box[s] \in {"running", "exited"}
        /\ at' = [at EXCEPT ![s] = "watching"]
        /\ UNCHANGED outcome
     \/ Concludes(s, "failed")
  /\ UNCHANGED <<mainVars, stop, box, left, record>>

\* One turn of the loop that does not just wait: it does not run, and its state
\* supports an outcome or does not; it cannot be inspected; or it still runs
\* and is cancelled or over its deadline.
Look(s) ==
  /\ at[s] = "watching"
  /\ \/ /\ box[s] = "exited"
        /\ \E o \in {"passed", "failed", "unknown"} : Concludes(s, o)
     \/ Concludes(s, "failed")
     \/ /\ box[s] = "running"
        /\ at' = [at EXCEPT ![s] = "killing"]
        /\ outcome' = [outcome EXCEPT ![s] = IF stop THEN "cancelled" ELSE "timeout"]
  /\ UNCHANGED <<mainVars, stop, box, left, record>>

\* Whether kill and the last inspection succeed or not, the intervention is
\* what the trial is classified by.
Kill(s) ==
  /\ Goes(s, "killing", "removing")
  /\ \E b \in {box[s], "exited"} : box' = [box EXCEPT ![s] = b]
  /\ UNCHANGED <<mainVars, stop, outcome, left, record>>

\* Anything but a DockerError.
Breaks(s) ==
  /\ at[s] \in {"creating", "starting", "started", "watching", "killing"}
  /\ Concludes(s, "runner_error")
  /\ UNCHANGED <<mainVars, stop, box, left, record>>

\* A success is provisional until it is verified.
Recorded(t, o) == IF o = "passed" /\ t \in Verified THEN "pending_verification" ELSE o

Concluded(s, o) ==
  /\ outcome' = [outcome EXCEPT ![s] = o]
  /\ at' = [at EXCEPT ![s] = IF o = "runner_error" THEN "raised" ELSE "ended"]
  /\ record' = IF s[2] = "work" THEN [record EXCEPT ![s[1]] = Recorded(s[1], o)] ELSE record

\* The finally clause: logs, removal, the record.  A removal that failed may
\* still have removed, and a container that is only ordered is found absent;
\* what is no DockerError raises once all is recorded.
Settle(s) ==
  /\ at[s] = "removing"
  /\ \/ left' = left /\ box' = [box EXCEPT ![s] = IF @ = "ordered" THEN @ ELSE "none"]
     \/ /\ left' = [left EXCEPT ![s] = TRUE]
        /\ \E b \in {box[s], "none"} : box' = [box EXCEPT ![s] = b]
  /\ \E o \in {outcome[s], "runner_error"} : Concluded(s, o)
  /\ UNCHANGED <<mainVars, stop>>

Changes(s, from, to) == box[s] = from /\ box' = [box EXCEPT ![s] = to]

\* The daemon carries out what was asked for, however late, and the container
\* ends by itself.
EngineStep(s) ==
  /\ \/ Changes(s, "ordered", "created")
     \/ Changes(s, "starting", "running")
     \/ Changes(s, "running", "exited")
     \/ left[s] /\ box[s] # "none" /\ box' = [box EXCEPT ![s] = "none"]
  /\ UNCHANGED <<mainVars, stop, at, outcome, left, record>>

\* trial's first look at the stop event.
Begins(s) ==
  IF stop THEN Concluded(s, "cancelled")
          ELSE at' = [at EXCEPT ![s] = "creating"] /\ UNCHANGED <<outcome, record>>

-----------------------------------------------------------------------------
(* _execute_locked: the pool.                                              *)

NextBatch ==
  /\ main = "looping" /\ batch <= Batches /\ ~stop
  /\ main' = "pool"
  /\ UNCHANGED <<batch, turn, status, manifest, stop, stageVars, record>>

IdleThread == Cardinality(Busy) < Concurrency[batch]

\* A thread takes the next trial of the plan.
TakeTrial(t) ==
  /\ main = "pool" /\ t \in InBatch
  /\ at[Work(t)] = "waiting"
  /\ \A u \in InBatch : u < t => at[Work(u)] # "waiting"
  /\ IdleThread
  /\ Begins(Work(t))
  /\ UNCHANGED <<mainVars, stop, box, left>>

\* Mutant of Returned: results are taken without looking at exceptions.
ReturnedAnyway(t) == Over(Work(t))

Returned(t) == at[Work(t)] = "ended"

\* The first result, in the order of the plan, that is an exception: pending
\* trials are cancelled, running ones are waited for.
PoolRaises(t) ==
  /\ main = "pool" /\ t \in InBatch
  /\ at[Work(t)] = "raised"
  /\ \A u \in InBatch : u < t => Returned(u)
  /\ main' = "draining"
  /\ UNCHANGED <<batch, turn, status, manifest, stop, stageVars, record>>

\* Mutant of Drained: pending trials are waited for as well.
DrainedAll == \A t \in InBatch : Over(Work(t))

Drained == Busy = {}

PoolDrained ==
  /\ main = "draining" /\ Drained
  /\ main' = "closing"
  /\ UNCHANGED <<batch, turn, status, manifest, stop, stageVars, record>>

\* Mutant of CleanupFailed: only verified trials are looked at.
CleanupFailedVerified == \E t \in Verified : left[Work(t)]

CleanupFailed == \E t \in Trials : left[Work(t)]

\* Mutant of Leave: what the loop is left with stays.
LeaveUncancelled(s) ==
  /\ main' = "closing"
  /\ status' = s
  /\ UNCHANGED <<batch, manifest>>

\* What the loop is left with, unless the run is cancelled.
Leave(s) ==
  /\ main' = "closing"
  /\ status' = IF stop THEN "cancelled" ELSE s
  /\ UNCHANGED <<batch, manifest>>

PoolReturns ==
  /\ main = "pool"
  /\ \A t \in InBatch : Returned(t)
  /\ IF CleanupFailed
     THEN Leave("cleanup_failed") /\ UNCHANGED turn
     ELSE main' = "verifying" /\ turn' = 0 /\ UNCHANGED <<batch, status, manifest>>
  /\ UNCHANGED <<stop, stageVars, record>>

-----------------------------------------------------------------------------
(* verify, one trial after the other.                                      *)

Current(t) == t \in InBatch /\ t >= turn /\ \A u \in InBatch : u >= turn => t <= u

\* Mutant of Pending: once the run is stopped nothing is verified.
PendingUnlessStopped(t) == t \in Verified /\ record[t] = "pending_verification" /\ ~stop

Pending(t) == t \in Verified /\ record[t] = "pending_verification"

SkipTrial(t) ==
  /\ main = "verifying" /\ Current(t) /\ ~Pending(t)
  /\ turn' = t + 1
  /\ UNCHANGED <<main, batch, status, manifest, stop, stageVars, record>>

\* Decided without a verifier: cancelled, or no valid artifact.
NoVerifier(t) ==
  /\ main = "verifying" /\ Current(t) /\ Pending(t)
  /\ turn' = t + 1
  /\ record' = [record EXCEPT ![t] = IF stop THEN "cancelled" ELSE "artifact_error"]
  /\ UNCHANGED <<main, batch, status, manifest, stop, stageVars>>

\* The event may be set between verify's look at it and trial's.
BeginVerifier(t) ==
  /\ main = "verifying" /\ Current(t) /\ Pending(t)
  /\ at[Check(t)] = "waiting"
  /\ main' = "awaiting"
  /\ Begins(Check(t))
  /\ UNCHANGED <<batch, turn, status, manifest, stop, box, left>>

\* Mutant of Verdicts: a verdict counts although its container is still there.
VerdictsUncleaned(t) ==
  IF outcome[Check(t)] = "cancelled" THEN {"cancelled"}
  ELSE IF outcome[Check(t)] # "passed" THEN {"verifier_error"}
  ELSE {"passed", "verification_failed", "verifier_error"}

\* A verdict counts if its verifier passed and was removed; the last is an
\* unreadable one.
Verdicts(t) ==
  IF outcome[Check(t)] = "cancelled" THEN {"cancelled"}
  ELSE IF outcome[Check(t)] # "passed" \/ left[Check(t)] THEN {"verifier_error"}
  ELSE {"passed", "verification_failed", "verifier_error"}

VerifierReturns(t) ==
  /\ main = "awaiting" /\ Current(t)
  /\ at[Check(t)] = "ended"
  /\ \E v \in Verdicts(t) : record' = [record EXCEPT ![t] = v]
  /\ turn' = t + 1
  /\ IF left[Check(t)]
     THEN Leave("cleanup_failed")
     ELSE main' = "verifying" /\ UNCHANGED <<batch, status, manifest>>
  /\ UNCHANGED <<stop, stageVars>>

VerifierRaises(t) ==
  /\ main = "awaiting" /\ Current(t)
  /\ at[Check(t)] = "raised"
  /\ record' = [record EXCEPT ![t] = "verifier_error"]
  /\ main' = "closing"
  /\ UNCHANGED <<batch, turn, status, manifest, stop, stageVars>>

BatchVerified ==
  /\ main = "verifying"
  /\ \A t \in InBatch : t < turn
  /\ main' = "looping" /\ batch' = batch + 1
  /\ UNCHANGED <<turn, status, manifest, stop, stageVars, record>>

-----------------------------------------------------------------------------
(* The end.                                                                *)

\* The stop event at the head of the loop, or the plan is exhausted.
LoopEnds ==
  /\ main = "looping" /\ (stop \/ batch > Batches)
  /\ Leave("completed") /\ UNCHANGED turn
  /\ UNCHANGED <<stop, stageVars, record>>

Close ==
  /\ main = "closing"
  /\ main' = "ended"
  /\ manifest' = IF status = "running" THEN "interrupted" ELSE status
  /\ UNCHANGED <<batch, turn, status, stop, stageVars, record>>

Signal ==
  /\ main # "ended"
  /\ stop' = TRUE
  /\ UNCHANGED <<mainVars, stageVars, record>>

-----------------------------------------------------------------------------
StageStep(s) ==
  \/ Create(s) \/ Start(s) \/ StartReturns(s) \/ Look(s) \/ Kill(s) \/ Breaks(s) \/ Settle(s)

MainStep ==
  \/ NextBatch \/ PoolDrained \/ PoolReturns \/ BatchVerified \/ LoopEnds \/ Close
  \/ \E t \in Trials :
       \/ TakeTrial(t) \/ PoolRaises(t)
       \/ SkipTrial(t) \/ NoVerifier(t) \/ BeginVerifier(t)
       \/ VerifierReturns(t) \/ VerifierRaises(t)

RunNext == MainStep \/ Signal \/ \E s \in Stages : StageStep(s) \/ EngineStep(s)

RunSpec == RunInit /\ [][RunNext]_runVars

\* Every docker command has a time-out and every container a deadline, so as
\* long as a thread of the run has a step to take, one takes it; nothing is
\* assumed of the engine.
FairRunSpec == RunSpec /\ WF_runVars(MainStep \/ \E s \in Stages : StageStep(s))

-----------------------------------------------------------------------------
(* The contract this implements.                                           *)

\* What a record says of a trial, of all there is to say.
Fate(t) ==
  CASE record[t] = "none" -> "open"
    [] record[t] = "pending_verification" -> "provisional"
    [] record[t] = "cancelled" -> "cancelled"
    [] OTHER -> "decided"

\* What is on record of failed removals: verify records its verifier's with the
\* verdict, but for a verifier that raised.
Uncleaned ==
  {t \in Trials : \/ left[Work(t)]
                  \/ /\ left[Check(t)] /\ at[Check(t)] = "ended"
                     /\ record[t] # "pending_verification"}

Contract ==
  INSTANCE RunContract WITH
    fate <- [t \in Trials |-> Fate(t)], current <- batch,
    unclean <- Uncleaned, verdict <- manifest

-----------------------------------------------------------------------------
(* Properties.                                                             *)

\* Variables are of their kind and the loop stays within the plan.
RunTypeOK ==
  /\ main \in {"looping", "pool", "draining", "verifying", "awaiting", "closing", "ended"}
  /\ batch \in 1..Batches + 1 /\ turn \in Nat
  /\ status \in {"running", "completed", "cancelled", "cleanup_failed"}
  /\ manifest \in {"running", "completed", "cancelled", "cleanup_failed", "interrupted"}
  /\ stop \in BOOLEAN
  /\ at \in [Stages -> {"waiting", "creating", "starting", "started", "watching", "killing",
                        "removing", "ended", "raised"}]
  /\ box \in [Stages -> {"none", "ordered", "created", "starting", "running", "exited"}]
  /\ outcome \in [Stages -> Outcomes]
  /\ left \in [Stages -> BOOLEAN]
  /\ record \in [Trials -> Records]

\* Whatever times out, containers run together only if they are workloads of
\* one batch: no verifier beside a workload or another verifier, no batch
\* beside another one, also after a start that came late or a kill that failed
\* (docs/verification.md:61, docs/architecture.md:68); and no more stages are
\* under way than the batch's profile has threads (docs/methodology.md:17).
OnlyBatchmatesOverlap ==
  /\ \A s, u \in Stages :
       s # u /\ box[s] = "running" /\ box[u] = "running" =>
         s[2] = "work" /\ u[2] = "work" /\ BatchOf[s[1]] = BatchOf[u[1]]
  /\ batch <= Batches => Cardinality(Busy) <= Concurrency[batch]

\* A completed run has a decided record of every planned trial, none of them
\* cancelled, no removal failed, and no container can run any more: what may be
\* left is one that a timed out create made after its removal
\* (docs/architecture.md, ADR 002; docs/verification.md:63).
CompletedIsDecided ==
  manifest = "completed" =>
    \A t \in Trials :
      /\ record[t] \notin {"none", "pending_verification", "cancelled", "runner_error"}
      /\ \A s \in {Work(t), Check(t)} : ~left[s] /\ box[s] \in {"none", "ordered", "created"}

\* A verified task's trial passes only by a verdict whose verifier passed and
\* is gone; there are no provisional passes (docs/verification.md:63).
PassesAreVerified ==
  \A t \in Verified :
    record[t] = "passed" =>
      /\ outcome[Work(t)] = "passed"
      /\ at[Check(t)] = "ended" /\ outcome[Check(t)] = "passed"
      /\ ~left[Check(t)] /\ box[Check(t)] = "none"

\* An unexpected error is never hidden: the run ends interrupted if and only if
\* a trial or a verifier raised (docs/data-contract.md:98).
RaisedMeansInterrupted ==
  main = "ended" => (manifest = "interrupted" <=> \E s \in Stages : at[s] = "raised")

\* After a failed cleanup nothing is begun but what is left of the same batch's
\* trials (docs/architecture.md, ADR 008).
NothingAfterFailedCleanup ==
  [][\A s, u \in Stages :
       left[u] /\ at[s] = "waiting" /\ at'[s] # "waiting" =>
         s[2] = "work" /\ u[2] = "work" /\ BatchOf[s[1]] = BatchOf[u[1]]]_runVars

\* The records and the manifest follow the contract of RunContract: barriers,
\* verdicts in order, nothing after a failed removal, and a final status that
\* says what happened (docs/architecture.md:102 and :106).
ImplementsContract == Contract!Spec

\* The run ends, whatever fails and whatever the engine does not answer.
RunEnds == <>(main = "ended")
=============================================================================
