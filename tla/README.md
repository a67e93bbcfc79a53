# A verification development of evalnoise

TLA+ modules that model evalnoise, TLC configurations that check them on small
instances, and proofs that TLAPS checks for every value of the constants.
Paths such as `coordinator.py` are in `evalnoise/`, paths such as
`docs/cluster.md` in the repository.

Run a model check with `tlc -config MCCoordinator.cfg MCCoordinator`, a proof
with `tlapm CoordinatorProofs.tla`.

## The system

evalnoise measures how much of the variation of an evaluation comes from the
host. A *run* executes a randomized plan of container trials under resource
profiles on one Docker engine, verifies what they produce, and records
everything in a run directory. Trials can be *agent* trials, which replay
recorded model calls under a budget. A *coordinator* hands approved runs to
workers over a loopback HTTP API.

| Component | State | Operations | Interacts with |
| --- | --- | --- | --- |
| coordinator (`coordinator.py`) | SQLite tables: principals, catalog, jobs, usage, events | submit, claim, heartbeat, complete, fail, cancel, purge, revoke; each one `BEGIN IMMEDIATE` transaction | called by the HTTP server |
| cluster worker and HTTP API (`cluster.py`) | main thread, heartbeat thread, `stop`, `done`, heartbeat errors, the lease in memory | `worker_once`, `beat`, `Client.request`, `dispatch` | coordinator by requests with time-outs; the runner in process |
| engine lock (`coordination.py`) | an flock per daemon ID, a holder record | acquire, release, `refuse_orphans`, `live_holder` | runner and recovery |
| runner (`runner.py`) | manifest, trial results, `stop` event, thread pool | `execute`, `trial`, `agent_trial`, `verify`, `CliSampler` | Docker CLI, lock, ledger, storage |
| docker boundary (`docker.py`, `resolve` and `cli_flags` of `endpoint.py`) | pinned endpoint, engine identity | pin, doctor, create, start, inspect, kill, logs, rm, ps with time-outs | the daemon |
| recovery (`recovery.py`) | none of its own | `diagnose` (reads), `cleanup` | lock, daemon, manifest |
| budget (`budget.py`) | counters, commitments, refusals and accounting errors behind one lock | `admit_plan`, `admit_call`, `commit_call`, `commit_failed_call`, `admit_step` | called by agent trials on pool threads |
| agent loop (`agent.py`) | steps, status and termination of a trial | `run_agent`, `_run_tool` | ledger, provider, runner's `trial` |
| provider (`provider.py`) | a frozen cassette | `complete` | called by the agent loop |
| telemetry (`StatsStream` of `endpoint.py`, `CliSampler` of `runner.py`) | reader thread, its connection, buffers, stop event | start, record, close | trial starts it after the container and closes it before the removal |
| subscription check (`subscription.py`) | a child process group, a pump thread per pipe, capped sinks | `check`, `preflight`, `run_bounded`, `evaluate` | an external command |
| comparison and reports (`compare.py`, `blocks.py`, `resample.py`, `report.py`, `investigation.py`, `workbench.py`) | none: they read artifacts | sequential computations | run directories |
| storage, configuration, probe, command line | none | `write_json`, `load`, `plan`, wrappers | |

What makes each hard, and what makes it correct:

* **Coordinator.** Workers vanish and come back under the same credential, and
  what they send arrives late, twice or after the lease lapsed and was granted
  again. It is correct if a job is settled once, by the holder of its current
  lease, and quotas and revocation hold whatever the order.
* **Cluster.** Requests and replies get lost, a request can be served after its
  sender gave up, and a worker can be killed anywhere. Correct if a job's
  evidence and failure come from whoever holds its lease, a worker that
  reports a completion really has one, and an invocation always returns.
* **Engine.** Runs and cleanups are killed while the daemon still carries out
  what they asked for. Correct if one process at a time coordinates, a run
  measures alone, and cleanup touches only what belongs to its run.
* **Endpoint.** Contexts are repointed and selected, and daemons replaced, by others at
  any moment. Correct if what a manifest says of its engine is true of every
  container the run made, and cleanup removes on that engine only.
* **Telemetry.** A thread blocks in a socket or a command while the trial
  wants to remove the container. Correct if close is bounded, what it reports
  never changes afterwards, and a leak is owned up to.
* **Subscription check.** The command may never exit, write without end, ignore
  signals, or exit and leave helpers that hold its pipes. Correct if nothing of its
  group survives, output that was cut never counts as whole, the model is
  called once at most, and the check ends.
* **Comparison and reports.** They read the artifacts of runs that may be going
  on, killed, cancelled or incomplete. Correct if what counts as an outcome is
  final, loss is never taken for balance, and the tools agree on the sample.
* **Budget.** Threads admit against shared ceilings, and what is observed can
  exceed what was reserved. Correct if ceilings hold, reservations never leak,
  and statuses agree with the ledger.

## The modules

```
JobLifecycle        <== implemented by ==  Coordinator   <-- CoordinatorProofs
                                               ^
                                         ClusterWorker   <-- ClusterProofs
EngineCoordination  <-- EngineProofs
AgentBudget
    ^
  Replay            <-- BudgetProofs
RunContract         <== implemented by ==  RunBatches
                                               ^
                              Plan  <--    Evidence      <-- RunBatchesProofs
Collectors, SubscriptionCheck  <-- ReadersProofs
Endpoint            <-- EndpointProofs
SumTheorems         <-- CoordinatorProofs, BudgetProofs, RunBatchesProofs
```

An arrow between modules is EXTENDS, one from a module of proofs says what it proves about: Replay adds the recorded provider to
the agent trials, Evidence adds what is concluded from the records of a run, and Plan is
where its trials come from.

Each `MC*` module supplies the constants, views and symmetries of its runs. Operators named in a
comment "Mutant of X" are wrong versions of X; replacing X by one of them makes a
property fail, which shows that the property has teeth.

### JobLifecycle

What the coordinator promises about a job and nothing about how: queued,
granted epoch by epoch, settled once; only the holder of the current epoch has
a result accepted; a settled job is never reopened, except that a completed one
loses its evidence when it is purged. Jobs step independently, several at once,
because one claim may lapse, fail and grant several.

### Coordinator

One action per operation, because every operation is one `BEGIN IMMEDIATE`
transaction. A refused operation raises and is rolled back, so it is no step at
all, and that includes the sweep of a claim that is refused after it
(`NextClaimSweeps` below).

* `job` is the jobs table, `usage` and `active` are the other tables; `clock`
  is the wall clock, which may step back; `handed` is the history of the leases
  claims returned.
* The random token of a lease is written by the UPDATE that increments
  the attempt, so the attempt number stands for it, and 0 for NULL.
  That tokens are not guessed is an assumption of this abstraction.
* `Claim` contains the sweep (`Swept`), the refusal of a second lease
  (`HoldsLease`), the scan in `ORDER BY created, id` with the jobs it fails for
  their quota (`Overdrawn`), and the grant.
* `Complete` asks for the lease before and after the validation, with time
  passing in between. The replay of an accepted completion returns
  what is stored and changes nothing, so it is no step.

Left out: the HMAC event chain, hashing, reads, and `add_principal` and
`add_catalog`, which only insert rows before the queue is used.

### ClusterWorker

EXTENDS Coordinator with invocations of `worker_once`: a main thread
and a heartbeat thread each, an outstanding request per thread (`wire`), and a
reply. A request can be served while it is waited for or after the sender gave
up, or never; a reply can be lost. `Kill` is SIGKILL, `Signal` a
SIGINT or SIGTERM. A worker restarted is another invocation of the same
principal. `Elsewhere` lets owners, the administrator and the clock act.

### EngineCoordination

Runs (`execute`), their trials' containers, cleanups and the daemon. A docker
command that is issued stays in `issued` until the daemon carries it out, and its
caller may give up first: so a create, start or rm can take effect after the run
reported a time-out or was killed. What cleanup orders removed (`ordered`) is likewise carried
out while it waits, after it gave up or ended, or never. `gen` distinguishes containers under one
name (container IDs); `Replace` is somebody else reusing a name.

### AgentBudget

The agent trials of a run on their shared ledger. Each ledger method holds the
lock, so it is one action; a call is in flight between its admission and its
settlement, and the check of the stop event is a step apart from the admission
it precedes. `Amounts` computes every dimension a ceiling exists for;
`cost_micros` is integer ceiling division. What the provider returns is
chosen from small sets, including more tokens than were reserved.

### RunBatches

One run from the inside, under the lock. `main` is where the main thread is in
`_execute_locked`; `at`, `box`, `outcome` and `left` are a call of `trial`
for each workload and each verifier: its place, its container,
the status and `cleanup_error`. `record` is `trials/<id>.json`, `manifest` the
status on disk. Pool threads take the trials of a batch in the order of the plan;
`PoolRaises` is `list(pool.map(...))` meeting an exception, which cancels
what is pending and waits for what runs. Any docker command may fail, and a
create, start or rm that was given up may be carried out later. The branch of `verify` for a
workload whose cleanup failed is no action: the loop breaks before it is reached.
Agent trials take part as any other, their containers are not shown.

### RunContract

What a run promises of `trials/*.json` and `manifest.json` and nothing about how: ADR 007
and ADR 008 of `docs/architecture.md` as a state machine of four variables. Batches are
worked through one after the other; in a batch every trial is on record before the first
provisional success is decided, these are decided in the order of the plan, and a removal
that failed lets nothing happen but the records of workloads of its batch. How a run may
end: completed only at the end of the plan, with every trial decided and nothing left;
`cleanup_failed` only if something was left; that and `interrupted` only within a batch.
RunBatches maps to it by what the records say (`Fate`) and which trials recorded a
cleanup error (`Uncleaned`; a verifier that raised recorded none, whatever it left). Threads, containers, the stop event and the pool are
stutters there, except where they write.

### Plan and Evidence

Plan is `config.plan`: which batch, repetition, profile and task the n-th trial
of the plan has, given the shuffled orders. Evidence reads the records of
RunBatches through it, in every state of the run, the way `compare.py` (arms,
pairs, exclusions, loss by identity, the task-weighted success difference),
`report.summarize` (paired counts) and `blocks.analyze` (its conditions, and a
contrast per block) do. Nothing in it moves: it is a second view of the
same state, so a property can relate what a tool concludes now to what the
runner does later. Means are sums beside their number of terms. A comparison
reads record after record and the manifest before them; as no resolved record ever
changes (`ConclusionsStand`), reading them together tells the same of what is resolved.

### Replay

`RecordedProvider.complete` over any entry a cassette may hold: some recorded
failures, then a response or none, under the limit of attempts that the call
reserved. `Replays` is a subset of what AgentBudget lets a call come to.

### Collectors

`closer` is where `close` is in the trial's thread, `reader` where the
collector's thread is; every place another thread can come in between is a step.
`sock` is what a shutdown finds: no connection, one not yet connected, an open one,
or one that a response which will close has *taken* from the connection. The
copies that `StatsStream.result` makes without a lock are two steps, the critical
section of `CliSampler.close` is one. What was buffered before a shutdown can still be read after it.

### SubscriptionCheck

One command after the other (`step`), each under `run_bounded`: `at` is where it
is, `leader`, `helper` and `stray` are the command, a process in its group and one that
has left it, `pump` is the reader thread of the pipe. `term` is the termination under way:
the next signal, and where it leads. Every `poll` reaps a zombie leader, which
until then keeps the group alive, as the comment of `_terminate_group` explains. The check ends blocked or answered, both of
which persist the artifact, or by the exception of an answer that is JSON but no object
(`AnswerRaises`), which persists nothing.

### Endpoint

Two processes, the run and a later cleanup with an environment of its own, and what
others do to the world between any two of their steps: `context` and `selected` are
the store of `docker context`, `daemon` says which engine answers at an address.
`Resolve` and `InspectContext` are `resolve` and `_from_context`, apart because a
context can be repointed in between. The one named default has no entry and goes by the
`DOCKER_HOST` of the command (`ContextHost`), and an empty `context show` is taken for it. `Pin` refuses what `require_stable_endpoint`
refuses; `Reached` is where a command goes with the flags of `cli_flags`, for which a
context is looked up at every call. `Doctor` records the engine, `Create` labels with
it, `EndRun` compares it (`engine_stability`), and `Attributable` is what `compare.py`
and the coordinator ask of it. `Identify`, `SurveyOwned` and `RemoveSurveyed` are
`cleanup`. `replaced` is a history variable: it counts replacements behind the pinned
address from the check of the engine on. Locks and late effects
are in EngineCoordination and only their outcome appears here: cleanup does not survey
while its run works.

## Runs

| Run | Module, configuration | Checks | Distinct states |
| --- | --- | --- | --- |
| coordinator | MCCoordinator.cfg | TypeOK, OneLeasePerWorker, FencedByLastLease, RevokedHoldNothing, ReceiptsVerify, AcceptedOnlyUnderLease, ImplementsLifecycle | 856 thousand |
| coordinator_quotas | MCCoordinatorQuotas.cfg | ActiveWithinQuota, UsageAccounted, EvidenceWithinQuota | 505 thousand |
| coordinator_revocation | MCCoordinatorRevoke.cfg | refutes RevokeCancelsOwnedOrLeased | |
| cluster | MCClusterWorker.cfg | EvidenceFromLeaseholder, FailedByItsHolder, CompletedMeansAccepted | 1.49 million |
| cluster_liveness | MCClusterWorkerReturns.cfg | WorkerReturns | 15 thousand |
| cluster_sweep | MCClusterWorkerSweep.cfg | refutes NextClaimSweeps | |
| engine | MCEngineCoordination.cfg | OneCoordinator, AloneWhileMeasuring, CompletedLeavesNothingRunning, CleanupRemovesOnlyOwned | 1.24 million |
| engine_release | MCEngineRelease.cfg | refutes ReleasedAfterFinalManifest | |
| budget | MCAgentBudget.cfg | CommittedReconciles, BreachedByOverrunOnly, RoundingNeverOverruns, AdmittedPlanSuffices, StatusAgreesWithLedger, ReplayWithinReservation | 1.85 million |
| batches | MCRunBatches.cfg | OnlyBatchmatesOverlap, CompletedIsDecided, PassesAreVerified, RaisedMeansInterrupted, AnalyzedIsWhole, NothingAfterFailedCleanup, ConclusionsStand, ImplementsContract, RunEnds | 946 thousand |
| readers | MCReaders.cfg | ReportStands, NoSurvivors, CleanIsComplete, PassedIsEarned, EngineAsRecorded, CollectorEnds, CheckEnds | 1.93 million |
| budget_stop | MCAgentBudgetStops.cfg | refutes RunStopsSpending | |

Bounds, and why they are enough for what the runs ask:

* *Coordinator.* Two workers, two jobs and two attempts (`MaxAttempts`) let a lease lapse
  and be granted to the other worker or the same one, and a job fail when its attempts are used
  up; the program's limit of three is in coordinator_quotas, with one worker and three jobs.
  The lease lasts one tick of a clock of three values (0 to `MaxTime`, 2), so a lease can
  be live, exactly expired, renewed and seen by a clock that stepped back. Quotas are set
  where they are reached exactly.
* *Cluster.* Two invocations under one credential are a worker restarted; both
  bundles (valid and not) can be sent, and both threads can have a request open.
  A second worker appears in the run about the sweep.
* *Engine.* Two runs with a container each and one cleanup of the first: every
  pair of processes that can meet. One container is replaced under its name.
* *Budget.* Three trials on two threads, one with two steps and a retry; eight
  budgets, each ceiling binding in some of them; prices of 3 per 4 tokens, so every
  amount rounds.

* *Replay.* Up to three recorded failures against limits of one and two attempts:
  below, at and over the limit, with a response and without.
* *Batches.* Two tasks, one of them verified, under two profiles: a batch of two
  on two threads and a batch of two on one thread. A batchmate that is still running,
  one that is still pending, a verifier with a plain trial before or after it, and a later
  batch are all there is to overtake; two tasks are two pairs, of which one, both
  or none can be lost in either arm. With one repetition there is one block; that
  sums over blocks add up for any number of them is proved (`AnalyzedTheorem`).
* *Readers.* Bounds of two samples, errors, chunks and records per chunk, so each is
  reached and passed; the sink holds three units, blocks are two, and a command
  writes up to four: output below, at and over the cap, and a block that straddles it. For the
  endpoint one local and one remote address, one context, two engines and two changes by
  others, from every environment of the run, the context named default included: a context that is repointed and selected, or an
  engine that leaves and comes back. The first engines are fixed, others can change them.
  The three modules share no state and no process, so a behaviour of `MCReaders` is one of
  a single one (`part`), the others stay where they begin.

Views (`MCView`) identify states that differ only in what no action and no
checked property reads again: the expiry of a job without a lease, the queue
position of a settled job, the generation of a container no survey has seen.
`MCSymmetry` permutes request keys, which are only compared with each
other. It is used in the runs of the coordinator only, also with `AcceptedOnlyUnderLease`
and `ImplementsLifecycle`, which are temporal formulas but safety properties that name no
key; no run that checks liveness uses it. EngineCoordination, AgentBudget, RunBatches and the readers are run with CHECK_DEADLOCK FALSE: their processes end.

## Fairness

Four properties need it. For `WorkerReturns`, `FairClusterSpec` assumes weak fairness of the
steps of each thread: a thread of a live process runs on, a request ends because
`HTTPConnection` has a time-out of 15 s, and `executor` returns (a run bounds
every trial by its profile's time-out). Nothing is assumed of the server, of
delivery, of clocks, or of kills.

For `RunEnds`, `FairRunSpec` assumes that as long as the main thread or a call
of `trial` has a step to take, one of them takes one: every docker command has a
time-out (20 s by default), and a container is killed at its deadline. It says
nothing of which thread goes on, and nothing of the daemon or of containers.

For `CollectorEnds`, `MCSpec` assumes that the collector's thread goes on, because
its socket (30 s) and `docker stats` have time-outs, and so does the thread that
closes it, because its joins are bounded. For `CheckEnds` it assumes that only of the
thread of the check: the joins, the grace periods and the deadline are its own. A
command that never exits and a pump that never reads are allowed.

## Proofs

All constants are arbitrary within the ASSUME of each module: any number of
jobs, workers, runs, cleanups, trials, prices and ceilings.

* **SumTheorems.** What quotas, ledgers and estimates need of sums (`SumFunctionOnSet` of
  the community modules): that a sum is an integer, one term taken out or changed, two sums
  added, larger terms, a part of the set, and no term that counts. The induction
  theorems of the library take an operator, which the provers cannot instantiate. So
  `FiniteInduction` is stated for a *set* `Good` of the subsets for which something holds, and
  follows from the well-foundedness of the strict subsets of a finite set by a smallest
  counterexample (`WFMin`, without operator parameter). The fold itself is a CHOOSE of
  a recursive function; that there is one comes from `Balance`, the number of units a
  function adds up to less those it takes away, for which `FoldIsBalance` is again such an induction.
* **CoordinatorProofs.** `Typed` (TypeOK and well-formed rows) is inductive on
  its own. Receipts need that a row keeps owner, worker, attempt and bundle
  from its acceptance on; OneLeasePerWorker needs the sweep to come before the
  check in `MayClaim`; RevokedHoldNothing needs that only an active principal
  submits or claims; ActiveWithinQuota that no other step makes a job active, so that the guard
  of submit bounds the count for good. Fencing needs the strengthening that tokens handed out for a
  job are numbered by attempts, so that the current row holds the last one. With these
  the refinement of JobLifecycle is one case per action. For
  UsageAccounted and EvidenceWithinQuota the sums over the jobs of an owner become sums over all jobs
  with 0 for the others', so that a row changing its owner from none is a term that changes
  (`UsageExact`, `RetainedWithin`). A grant raises the usage and one term by the same (`SpentByGrant`),
  a purge only lowers a term, and the check of `Fits` bounds the sum after an acceptance.
* **ClusterProofs.** Every step of the cluster is a coordinator transaction or
  leaves the database alone (`ClusterStep`); the only thing needed of the
  workers is that the bundles they send are bundles. The coordinator's theorems then
  hold of the cluster as corollaries, its quotas and the lifecycle of jobs among them. The properties that relate a worker's memory to the
  database need `MemoryInv`: `WorkSound` (what a lease held or a request on the wire says of the
  place of its invocation), `Evidenced` (an accepted result is the bundle of an invocation that
  was granted its lease and has executed) and `Relied` (a good reply, on its way or read,
  names a row that is accepted). They are kept because a worker never undoes its lease, its
  bundle or its giving up (`Kept`), only an accepted completion takes a result
  (`TakesOrOthers`) and settled rows stay (`SettledStays`). `FailedRightly`, for failures,
  needs besides that the usage of an owner only grows.
* **EngineProofs.** `EngineInv` states, for each trial, what its container and its
  outstanding commands can be; for each run, what its phase says of its
  trials; that whoever is between acquire and release has the flock; and that surveyed
  containers, and those ordered removed, are the ones labelled. A run is alone because the check
  happened under the lock and every later start is recorded in `started`.
* **BudgetProofs.** `BudgetInv` ties the place of a trial in the loop to its
  reservation, the number outstanding to the calls in flight, and endings to
  accounting errors. That rounding is harmless is monotonicity of ceiling division.
  CommittedReconciles needs `Reconciled`: a trial that is not calling holds no reservation, so an
  admission changes one term of the sum from nothing and a settlement changes it back
  (`SettlementFrees`). AdmittedPlanSuffices needs `WithinPlan`: calls, attempts, tool steps and, as long
  as nothing overran, output tokens stay below what the loops have had the occasion to ask
  for (`Due`: each trial's steps passed, times its limit). As a trial about to ask is not past
  its last step, what is due leaves room for it in the plan (`RoomLeft`). TLC checked both
  as invariants of the budget run before they were proved.
  For Replay: what a replayed entry may use is at most `max_attempts`, by the
  cases of the entry (attempts used up, failures only, a response after failures); each
  outcome has a settlement in AgentBudget, so replaying is one of its steps
  (`ReplaysAreSteps`). That a reservation for all attempts covers fewer of them is
  monotonicity again.
* **RunBatchesProofs.** None of the properties of RunBatches is inductive: the barrier
  between batches needs to know that everything else is settled when a batch
  begins. `RunInv` therefore has, besides types, `StageSound` (what the place of a
  stage says of its container and outcome), `RecordSound` (what a record
  says of its trial's stages), `InPlace` (which stages may be under way, raised or left
  behind at each place of the main thread), `OrderSound` (how far a batch's records
  are decided), `StatusSound` and `Threads` (a cardinality, by adding or removing one busy
  stage). Three lemmas carry the case analysis: `ProgressFrame` for a step inside
  a stage, `BeginSound` for its begin, `LeaveSound` for the ways out of the loop. `OnlyBatchmatesOverlap`
  (with `Threads`) and `NothingAfterFailedCleanup` follow from `InPlace`; `CompletedIsDecided` and
  `RaisedMeansInterrupted` from `StatusSound`; `PassesAreVerified` from `RecordSound`.
  `ConclusionsStand` holds because records are written at two places only: at a stage's
  end, where `RecordSound` says there was none, and at a verdict, where `OrderSound`
  says it was pending. `ImplementsContract` needs besides `EndSound` (with what the loop is left)
  and one lemma per kind of write: a first record, a verdict, the end of a batch, the final manifest;
  every other step stutters (`StepImplements`). A stage that left its container behind
goes no further (`LeftStays`), so what `Uncleaned` counts stays counted.
  `PlanTheorem` is about the operators of Plan: `Cell` is a bijection between task, repetition and
  profile and the trials of the plan. It is division with remainder twice (`PlannedPlace`), and that
  a shuffle which has every element in as many places has it once (`ShuffleOnce`).
  `AnalyzedIsWhole` follows from `StatusSound` and `RecordSound` for what it says of trials; for
  what it says of numbers, the sum of the differences of any set of pairs is its wins less its
  losses (`DifferenceCounts`) and the sum over all pairs that over the blocks (`DifferenceByBlocks`),
  both by induction over the set.
* **ReadersProofs.** For the collectors `CollectorInv`: types, that no sample is held that
  was not received (`Counted`), the connection each kind has at each place (`Places`), that
  who does not own up to a leak has ended (`Honest`), and how far the report is a copy of the
  buffer (`Copied`); `ThreadFrame` serves every step of the thread. For a command of the
  subscription check `GroupInv` (a termination that is over has left no one), `PumpInv` (what
  is read and cut, and that nobody writes once the pump met the end) and `EarnedInv` (the order
  of the commands, and that what a result says is still so when it is evaluated).
* **EndpointProofs.** `EndpointInv` says that who talks to an engine does so at an address no
  name can move (`Pinned`), so only a replacement behind that address matters; that no
  replacement leaves the engine as it was looked at and the first takes it away
  (`Watched`), so the comparison at the end sees a single one; and what
  follows for containers made and removed (`RunSound`, `CleanupSound`).

Every safety property and action property that a run checks is stated by a theorem;
`RunTypeOK` is proved (`RunTypes`) and in no run of its own. Only
model-checked: all liveness (`WorkerReturns`, `RunEnds`, `CollectorEnds`, `CheckEnds`), which is
out of the prover's reach, and the violations below, which are counterexamples.

Two assumptions carry weight in the proofs beyond types. `PlanAssumption` says that there is at
least one repetition (`config.py:204`) and that each shuffled order has every task and profile.
`BudgetAssumption` and `CoordinatorAssumption` say that jobs, owners and trials are finite, which
makes the sums defined.

## Where the code and its documentation disagree

1. `RevokeCancelsOwnedOrLeased` (`coordinator.py:276`). A requeued job still
   names its last worker, so revoking that worker cancels queued jobs of other
   owners; `docs/cluster.md:94` speaks of owned and leased jobs.
2. `NextClaimSweeps` (`coordinator.py:164`). A refused claim rolls back its
   sweep; `docs/cluster.md:64` says an expired lease is requeued at the next claim.
3. `ReleasedAfterFinalManifest` (`runner.py:465`). The lock is released before
   the final manifest is written; `docs/architecture.md:92` says after.
4. `RunStopsSpending` (`budget.py:163`). After an overrun only that trial stops;
   the recorded note and `docs/validation.md:149` say that the run does.

Smaller observations without a run of their own.

* An innocent call can be recorded as an accounting error because another trial passed the
  ceiling (`own` in `errors`).
* `live_holder` probes the lock by taking it, so a start at that instant is refused.
* `cancelled` overrides `cleanup_failed` in the manifest (`runner.py:452`).
* A create that timed out can leave a container that was never started; the
  orphan check lists running containers only.
* A response that ends with the connection takes the socket away from it, so the
  endpoint's `close` has nothing to shut down (`taken` in Collectors); a reader that
  then stays is reported as a leak, so what the evidence says remains true.
* A helper that keeps the pipe open past the pump's join costs a clean command the tail
  of its output, which is not marked as truncated.
* An assistant message that is JSON but no object raises an AttributeError that nothing catches
  (`subscription.py:587`, `AnswerRaises`): a check that called the model leaves no artifact, where the
  docstring at `subscription.py:602` and `docs/m3-plan.md:174` say that it writes one.
* `preflight` looks at exit statuses and outputs, not at `timed_out` or `truncated`, and
  nothing depends on what `mcp list` says.
* `run_bounded` has no `finally`: an interrupt from the keyboard leaves the child, which
  is in a session of its own.
* The report counts a pair with `unknown` or `agent_incomplete` records as complete, the
  comparison excludes it; the comparison counts a pass with a cleanup error, the block
  analysis refuses the run. `AnalyzedIsWhole` says that they agree wherever the latter accepts.

* `engine_stability` compares two moments: a daemon that left and came back in between is
  not noticed (`EngineAsRecorded` exempts two replacements and more).
* Containers made after the daemon behind the address was replaced carry the label of the
  earlier one, so neither the orphan check nor cleanup finds them on the later one.
* `revalidate` of `endpoint.py` is called by nothing in the program; the refusal of remote
  contexts does its work.

## Not modelled, and the plan

The workbench and the command line only read artifacts, print, or call what is modelled. The
probe launches an ordinary run through `execute` (`probe.py:69`), which the modules of the runner
cover, and reads its artifacts. Parsing of configurations is a pure conversion. Images are prepared before the plan starts and
verified by digest. Hash chains and envelopes are data the properties do not tell apart.
Of the comparison, the compatibility of two different runs, durations, resampling and
intervals (arithmetic on samples) are left out.

What remains: compatibility rules of the comparison as operators over two plans; a contract for
the engine in the manner of RunContract (who may start or remove what, and when), which
EngineCoordination would implement; and that the ledger's refusals are caused by what other trials
spent, a property of the history that no run checks yet.
