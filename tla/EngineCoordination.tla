------------------------- MODULE EngineCoordination -------------------------
(***************************************************************************)
(* Processes of one user that share one Docker engine: runs (runner.py's   *)
(* execute) and cleanups (recovery.py's cleanup), excluded from each other *)
(* by the advisory flock of coordination.py, and the containers they leave.*)
(*                                                                         *)
(* A Docker command is carried out by the daemon some time after it is     *)
(* issued.  The process waits for it or gives up at its timeout; it may    *)
(* also be killed.  Either way the command may still be carried out later, *)
(* or never.                                                               *)
(*                                                                         *)
(* Abstracted: one container stands for whatever a trial or a step runs;   *)
(* its limits, logs, telemetry and verdict are left out, and so are the    *)
(* order of batches and the record in the lock file, which only error      *)
(* messages and diagnose show.                                             *)
(***************************************************************************)
EXTENDS Integers, FiniteSets

CONSTANTS
  Runs,         \* calls of execute, each in a process of its own
  Cleanups,     \* calls of cleanup --confirm, likewise
  Target,       \* [Cleanups -> Runs]: the run directory given to a cleanup
  Names,        \* container names
  RunOf,        \* [Names -> Runs]: the plan a name is derived from
  MaxReplaced,  \* bound of the model: containers put in place by others
  None          \* nobody, no container, no file

Statuses == {"running", "completed", "cancelled", "cleanup_failed", "interrupted"}

ASSUME EngineAssumption ==
  /\ Runs \cap Cleanups = {} /\ None \notin Runs \cup Cleanups \cup Statuses
  /\ Target \in [Cleanups -> Runs]
  /\ RunOf \in [Names -> Runs]
  /\ MaxReplaced \in Nat

VARIABLES
  flock,        \* which process holds the kernel lock
  phase,        \* [Runs -> RunPhases]: where execute is
  status,       \* [Runs -> Statuses]: manifest["status"] in memory
  manifest,     \* [Runs -> Statuses \cup {None}]: the status on disk
  trial,        \* [Names -> TrialPhases]: where the trial of the name is
  issued,       \* commands the daemon has not carried out: <<command, name>>
  container,    \* [Names -> Containers]: what the engine has under the name
  replaced,     \* how many containers others have put in place
  started,      \* history: containers started since the last orphan check
  cleaning,     \* [Cleanups -> CleanupPhases]: where cleanup is
  survey,       \* [Cleanups -> SUBSET Containers]: candidates left to remove
  ordered       \* [Cleanups -> SUBSET Containers]: removals not carried out

runVars == <<phase, status, manifest, trial>>
engineVars == <<issued, container, replaced, started>>
cleanVars == <<cleaning, survey, ordered>>
engineAll == <<flock, runVars, engineVars, cleanVars>>

RunPhases ==
  {"start", "acquired", "checked", "measuring", "stopping", "released", "done", "raised", "killed"}

CleanupPhases == {"start", "locked", "removing", "done", "refused", "killed"}

TrialPhases == {"unused", "creating", "starting", "watching", "removing", "removed", "left"}

Commands == {"create", "start", "rm"}

\* A container under name n of generation g (the daemon's ID is <<n, g>>);
\* run is its run label, None when it is somebody else's.
Container(n, g, s, r) == [name |-> n, gen |-> g, state |-> s, run |-> r]

Containers ==
  [name : Names, gen : Nat, state : {"absent", "created", "running", "exited"},
   run : Runs \cup {None}]

Absent(n) == Container(n, 0, "absent", None)

Own(r) == {n \in Names : RunOf[n] = r}

Present(n) == container[n].state # "absent"

Running(n) == container[n].state = "running"

EngineInit ==
  /\ flock = None
  /\ phase = [r \in Runs |-> "start"]
  /\ status = [r \in Runs |-> "running"]
  /\ manifest = [r \in Runs |-> None]
  /\ trial = [n \in Names |-> "unused"]
  /\ issued = {}
  /\ container = [n \in Names |-> Absent(n)]
  /\ replaced = 0
  /\ started = {}
  /\ cleaning = [c \in Cleanups |-> "start"]
  /\ survey = [c \in Cleanups |-> {}]
  /\ ordered = [c \in Cleanups |-> {}]

-----------------------------------------------------------------------------
(* EngineLock.                                                             *)

\* Mutant of Free: LOCK_SH for LOCK_EX.
FreeAlways == TRUE

Free == flock = None

Lock(p) == Free /\ flock' = p

Unlock(p) == flock' = IF flock = p THEN None ELSE flock

-----------------------------------------------------------------------------
(* execute, _execute_locked.                                               *)

Goes(r, from, to) == phase[r] = from /\ phase' = [phase EXCEPT ![r] = to]

Acquire(r) ==
  /\ Goes(r, "start", "acquired")
  /\ Lock(r)
  /\ UNCHANGED <<status, manifest, trial, engineVars, cleanVars>>

AcquireRefused(r) ==
  /\ ~Free
  /\ Goes(r, "start", "raised")
  /\ UNCHANGED <<flock, status, manifest, trial, engineVars, cleanVars>>

\* Mutant of Orphans: nothing is listed.
OrphansUnseen(r) == {}

\* docker ps lists running containers only.
Orphans(r) == {n \in Names : Running(n) /\ container[n].run \notin {r, None}}

CheckOrphans(r) ==
  /\ Goes(r, "acquired", "checked")
  /\ Orphans(r) = {}
  /\ started' = {}
  /\ UNCHANGED <<flock, status, manifest, trial, issued, container, replaced, cleanVars>>

\* An orphan, an unreadable listing, or a directory that cannot be made:
\* raised before there is anything to record.
RaiseEarly(r) ==
  /\ phase[r] \in {"acquired", "checked"}
  /\ phase' = [phase EXCEPT ![r] = "raised"]
  /\ Unlock(r)
  /\ UNCHANGED <<status, manifest, trial, engineVars, cleanVars>>

FirstManifest(r) ==
  /\ Goes(r, "checked", "measuring")
  /\ manifest' = [manifest EXCEPT ![r] = "running"]
  /\ UNCHANGED <<flock, status, trial, engineVars, cleanVars>>

Issue(n, from, to, command) ==
  /\ phase[RunOf[n]] = "measuring"
  /\ trial[n] = from /\ trial' = [trial EXCEPT ![n] = to]
  /\ issued' = issued \cup {<<command, n>>}
  /\ UNCHANGED <<flock, phase, status, manifest, container, replaced, started, cleanVars>>

Steps(n, from, to) ==
  /\ phase[RunOf[n]] = "measuring"
  /\ trial[n] = from /\ trial' = [trial EXCEPT ![n] = to]
  /\ UNCHANGED <<flock, phase, status, manifest, engineVars, cleanVars>>

IssueCreate(n) == Issue(n, "unused", "creating", "create")

\* create answered.
IssueStart(n) ==
  /\ <<"create", n>> \notin issued
  /\ Issue(n, "creating", "starting", "start")

StartAnswered(n) == <<"start", n>> \notin issued /\ Steps(n, "starting", "watching")

\* It exited, or was killed at the deadline; or create or start failed or timed out.
IssueRemove(n) ==
  \E from \in {"creating", "starting", "watching"} : Issue(n, from, "removing", "rm")

\* Mutant of Gone: a failed removal passes for an absent container.
GoneAnyway(n) == TRUE

\* rm answered, or ps finds the name no more.
Gone(n) == <<"rm", n>> \notin issued \/ ~Present(n)

Removed(n) == Gone(n) /\ Steps(n, "removing", "removed")

RemoveFails(n) == Steps(n, "removing", "left")

\* The pool's threads have ended.
Settled(r) == \A n \in Own(r) : trial[n] \in {"unused", "removed", "left"}

\* Whatever ends the batches, and what is then in memory: cancelled comes last.
Outcomes(r) ==
  {"cancelled", "interrupted"} \cup
    IF \E n \in Own(r) : trial[n] = "left" THEN {"cleanup_failed"} ELSE {"completed"}

StopMeasuring(r) ==
  /\ Settled(r)
  /\ Goes(r, "measuring", "stopping")
  /\ \E s \in Outcomes(r) : status' = [status EXCEPT ![r] = s]
  /\ UNCHANGED <<flock, manifest, trial, engineVars, cleanVars>>

\* The first manifest could not be written.
NeverMeasured(r) ==
  /\ Goes(r, "checked", "stopping")
  /\ status' = [status EXCEPT ![r] = "interrupted"]
  /\ UNCHANGED <<flock, manifest, trial, engineVars, cleanVars>>

Release(r) ==
  /\ Goes(r, "stopping", "released")
  /\ Unlock(r)
  /\ UNCHANGED <<status, manifest, trial, engineVars, cleanVars>>

FinalManifest(r) ==
  /\ Goes(r, "released", "done")
  /\ manifest' = [manifest EXCEPT ![r] = status[r]]
  /\ UNCHANGED <<flock, status, trial, engineVars, cleanVars>>

\* SIGKILL: the kernel releases the lock; whatever was issued stays issued.
KillRun(r) ==
  /\ phase[r] \notin {"start", "done", "raised", "killed"}
  /\ phase' = [phase EXCEPT ![r] = "killed"]
  /\ Unlock(r)
  /\ UNCHANGED <<status, manifest, trial, engineVars, cleanVars>>

-----------------------------------------------------------------------------
(* The engine: commands take effect, containers exit, other users act.     *)

\* A start or a removal of what is not there fails without effect.  A name
\* carries the run's identifier and is created once: create finds it free.
Effect(command, n) ==
  CASE command = "create" -> [container[n] EXCEPT !.state = "created", !.run = RunOf[n]]
    [] command = "start" /\ container[n].state = "created" -> [container[n] EXCEPT !.state = "running"]
    [] command = "rm" /\ Present(n) -> Container(n, container[n].gen + 1, "absent", None)
    [] OTHER -> container[n]

CarryOut(command, n) ==
  /\ <<command, n>> \in issued
  /\ issued' = issued \ {<<command, n>>}
  /\ container' = [container EXCEPT ![n] = Effect(command, n)]
  /\ started' = IF container'[n].state = "running" THEN started \cup {n} ELSE started
  /\ UNCHANGED <<flock, runVars, replaced, cleanVars>>

Exit(n) ==
  /\ Running(n)
  /\ container' = [container EXCEPT ![n].state = "exited"]
  /\ UNCHANGED <<flock, runVars, issued, replaced, started, cleanVars>>

\* Somebody removes the container and makes another under the same name.
Replace(n) ==
  /\ replaced < MaxReplaced
  /\ Present(n)
  /\ replaced' = replaced + 1
  /\ container' = [container EXCEPT ![n] = Container(n, @.gen + 1, "created", None)]
  /\ UNCHANGED <<flock, runVars, issued, started, cleanVars>>

-----------------------------------------------------------------------------
(* cleanup.                                                                *)

CleanupGoes(c, from, to) == cleaning[c] = from /\ cleaning' = [cleaning EXCEPT ![c] = to]

LoadAndLock(c) ==
  /\ manifest[Target[c]] # None
  /\ CleanupGoes(c, "start", "locked")
  /\ Lock(c)
  /\ UNCHANGED <<runVars, engineVars, survey, ordered>>

LockRefused(c) ==
  /\ manifest[Target[c]] # None /\ ~Free
  /\ CleanupGoes(c, "start", "refused")
  /\ UNCHANGED <<flock, runVars, engineVars, survey, ordered>>

Candidates(r) == {container[n] : n \in {m \in Own(r) : Present(m)}}

\* Name, labels and image identity agree with the manifest.
Owned(x, r) == x.run = r

Survey(c) ==
  /\ \A x \in Candidates(Target[c]) : Owned(x, Target[c])
  /\ CleanupGoes(c, "locked", "removing")
  /\ survey' = [survey EXCEPT ![c] = Candidates(Target[c])]
  /\ UNCHANGED <<flock, runVars, engineVars, ordered>>

\* One candidate is not owned, or the engine cannot be read: nothing is removed.
SurveyRefused(c) ==
  /\ CleanupGoes(c, "locked", "refused")
  /\ Unlock(c)
  /\ UNCHANGED <<runVars, engineVars, survey, ordered>>

\* Mutant of Hit: rm --force of the name.
HitByName(x) == {n \in Names : n = x.name /\ Present(n)}

\* rm --force of the full container ID.
Hit(x) == {n \in Names : n = x.name /\ Present(n) /\ container[n].gen = x.gen}

\* Answered, or failed and listed under failures: the next candidate follows.
RemoveOne(c, x) ==
  /\ cleaning[c] = "removing"
  /\ x \in survey[c]
  /\ survey' = [survey EXCEPT ![c] = @ \ {x}]
  /\ ordered' = [ordered EXCEPT ![c] = @ \cup {x}]
  /\ UNCHANGED <<flock, runVars, engineVars, cleaning>>

\* The daemon carries it out: while cleanup waits, after it gave up, or never.
CarryOutRemoval(c, x) ==
  /\ x \in ordered[c]
  /\ ordered' = [ordered EXCEPT ![c] = @ \ {x}]
  /\ container' = [n \in Names |-> IF n \in Hit(x)
                                   THEN Container(n, container[n].gen + 1, "absent", None)
                                   ELSE container[n]]
  /\ UNCHANGED <<flock, runVars, issued, replaced, started, cleaning, survey>>

CleanupEnds(c) ==
  /\ survey[c] = {}
  /\ CleanupGoes(c, "removing", "done")
  /\ Unlock(c)
  /\ UNCHANGED <<runVars, engineVars, survey, ordered>>

KillCleanup(c) ==
  /\ cleaning[c] \in {"locked", "removing"}
  /\ cleaning' = [cleaning EXCEPT ![c] = "killed"]
  /\ Unlock(c)
  /\ UNCHANGED <<runVars, engineVars, survey, ordered>>

-----------------------------------------------------------------------------
RunStep(r) ==
  \/ Acquire(r) \/ AcquireRefused(r) \/ CheckOrphans(r) \/ RaiseEarly(r) \/ FirstManifest(r)
  \/ StopMeasuring(r) \/ NeverMeasured(r) \/ Release(r) \/ FinalManifest(r) \/ KillRun(r)

TrialStep(n) ==
  \/ IssueCreate(n) \/ IssueStart(n) \/ StartAnswered(n) \/ IssueRemove(n)
  \/ Removed(n) \/ RemoveFails(n)

DaemonStep(n) == (\E command \in Commands : CarryOut(command, n)) \/ Exit(n) \/ Replace(n)

CleanupStep(c) ==
  \/ LoadAndLock(c) \/ LockRefused(c) \/ Survey(c) \/ SurveyRefused(c)
  \/ (\E x \in survey[c] : RemoveOne(c, x)) \/ (\E x \in ordered[c] : CarryOutRemoval(c, x))
  \/ CleanupEnds(c) \/ KillCleanup(c)

EngineNext ==
  \/ \E r \in Runs : RunStep(r)
  \/ \E n \in Names : TrialStep(n) \/ DaemonStep(n)
  \/ \E c \in Cleanups : CleanupStep(c)

EngineSpec == EngineInit /\ [][EngineNext]_engineAll

-----------------------------------------------------------------------------
(* Properties.                                                             *)

\* From its lock to its release: what the lock is held for.
Coordinating ==
  {r \in Runs : phase[r] \in {"acquired", "checked", "measuring", "stopping"}}
    \cup {c \in Cleanups : cleaning[c] \in {"locked", "removing"}}

\* At most one process measures or removes on the engine at any time, also
\* after one was killed; so no cleanup works underneath a live run.
OneCoordinator == \A p, q \in Coordinating : p = q

\* While a run measures, a container of another run is running only if its
\* start arrived after the orphan check, from a run that was killed or that
\* could not remove it: a run that ended orderly never disturbs a later one.
AloneWhileMeasuring ==
  \A r \in Runs, n \in Names :
    phase[r] = "measuring" /\ Running(n) /\ container[n].run \notin {r, None} =>
      /\ n \in started
      /\ phase[RunOf[n]] = "killed" \/ trial[n] = "left"

\* A manifest that says completed leaves none of the run's containers running,
\* whatever commands timed out and arrived late.
CompletedLeavesNothingRunning ==
  \A n \in Names :
    manifest[RunOf[n]] = "completed" => ~(Running(n) /\ container[n].run = RunOf[n])

\* Cleanup removes nothing but what its run's label is on, even when the name
\* is given to another container between the survey and the moment the removal
\* is carried out, which may be after cleanup gave up or ended (recovery.py).
CleanupRemovesOnlyOwned ==
  [][\A c \in Cleanups, n \in Names :
       (\E x \in ordered[c] : CarryOutRemoval(c, x)) /\ container'[n] # container[n] =>
         container[n].run = Target[c]]_engineAll

\* docs/architecture.md:92: the lock is "released only after the final
\* manifest write".  Refuted: execute releases it first.
ReleasedAfterFinalManifest ==
  \A r \in Runs : phase[r] = "released" /\ flock # r => manifest[r] = status[r]
=============================================================================
