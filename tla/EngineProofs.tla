---------------------------- MODULE EngineProofs ----------------------------
(***************************************************************************)
(* Proofs about EngineCoordination, for any sets of runs, cleanups and     *)
(* containers.                                                             *)
(***************************************************************************)
EXTENDS EngineCoordination, TLAPS

EngineTyped ==
  /\ phase \in [Runs -> RunPhases]
  /\ status \in [Runs -> Statuses]
  /\ manifest \in [Runs -> Statuses \cup {None}]
  /\ trial \in [Names -> TrialPhases]
  /\ issued \subseteq Commands \X Names
  /\ container \in [Names -> Containers]
  /\ \A n \in Names : container[n].name = n
  /\ started \subseteq Names
  /\ cleaning \in [Cleanups -> CleanupPhases]
  /\ survey \in [Cleanups -> SUBSET Containers]
  /\ ordered \in [Cleanups -> SUBSET Containers]

\* Whoever coordinates holds the lock.
LockHeld ==
  /\ \A r \in Runs :
       phase[r] \in {"acquired", "checked", "measuring", "stopping"} => flock = r
  /\ \A c \in Cleanups : cleaning[c] \in {"locked", "removing"} => flock = c

\* Nothing the run issued can still make the container run.
Quiet(n) ==
  container[n].run = RunOf[n] => ~Running(n) /\ <<"start", n>> \notin issued

\* What a trial's phase says of its container and of its commands.
TrialSound(n) ==
  /\ container[n].run \in {RunOf[n], None}
  /\ container[n].state = "absent" => container[n].run = None
  /\ trial[n] = "unused" => container[n].state = "absent" /\ <<"create", n>> \notin issued
  /\ <<"create", n>> \in issued => container[n].state = "absent"
  /\ trial[n] \in {"unused", "creating"} => <<"start", n>> \notin issued /\ ~Running(n)
  /\ <<"start", n>> \in issued => <<"create", n>> \notin issued
  /\ trial[n] = "removing" /\ <<"rm", n>> \notin issued => Quiet(n)
  /\ trial[n] = "removed" => Quiet(n)

\* What a run's phase says of its trials and of its manifest.
RunSound(r) ==
  /\ phase[r] \in {"start", "acquired", "checked", "raised"} =>
       \A n \in Own(r) : trial[n] = "unused"
  /\ phase[r] \in {"stopping", "released", "done"} =>
       \A n \in Own(r) : trial[n] \in {"unused", "removed", "left"}
  /\ status[r] = "completed" =>
       /\ phase[r] \in {"stopping", "released", "done", "killed"}
       /\ \A n \in Own(r) : trial[n] \in {"unused", "removed"}
  /\ manifest[r] \notin {None, "running"} => phase[r] = "done" /\ manifest[r] = status[r]

\* AloneWhileMeasuring, from the orphan check on.
AloneSinceCheck ==
  \A r \in Runs, n \in Names :
    phase[r] \in {"checked", "measuring"} /\ Running(n) /\ container[n].run \notin {r, None} =>
      /\ n \in started
      /\ phase[RunOf[n]] = "killed" \/ trial[n] = "left"

\* A surveyed container was the run's, and the engine's has its ID only while it is.
SurveySound ==
  \A c \in Cleanups : \A x \in survey[c] \cup ordered[c] :
    /\ x.run = Target[c]
    /\ x.gen <= container[x.name].gen
    /\ x.gen = container[x.name].gen =>
         container[x.name].state # "absent" /\ container[x.name].run = x.run

EngineInv ==
  /\ EngineTyped
  /\ LockHeld
  /\ \A n \in Names : TrialSound(n)
  /\ \A r \in Runs : RunSound(r)
  /\ AloneSinceCheck
  /\ SurveySound

-----------------------------------------------------------------------------
(* The invariant holds at first and is kept, part by part.                 *)

\* An engine nobody coordinates satisfies the inductive invariant.
LEMMA EngineInitInv == EngineInit => EngineInv
<1> SUFFICES ASSUME EngineInit PROVE EngineInv
  OBVIOUS
<1> USE DEF EngineInit
<1>1. EngineTyped
  BY DEF EngineTyped, Absent, RunPhases, CleanupPhases, Statuses, TrialPhases, Containers, Container
<1>2. LockHeld /\ AloneSinceCheck /\ SurveySound
  BY DEF LockHeld, AloneSinceCheck, SurveySound
<1>3. ASSUME NEW n \in Names PROVE TrialSound(n)
  BY DEF TrialSound, Absent, Container, Running
<1>4. ASSUME NEW r \in Runs PROVE RunSound(r)
  BY DEF RunSound, Own
<1>5. QED
  BY <1>1, <1>2, <1>3, <1>4 DEF EngineInv

\* What a docker command does to a container leaves a container.
LEMMA EffectTyped ==
  ASSUME EngineTyped, NEW n \in Names, NEW command \in Commands
  PROVE  Effect(command, n) \in Containers /\ Effect(command, n).name = n
<1>1. container[n] \in Containers /\ container[n].name = n /\ RunOf[n] \in Runs
  BY EngineAssumption DEF EngineTyped
<1>2. CASE command = "create"
  <2>1. Effect(command, n) = [container[n] EXCEPT !.state = "created", !.run = RunOf[n]]
    BY <1>2 DEF Effect
  <2>2. QED
    BY <1>1, <2>1 DEF Containers
<1>3. CASE command = "start"
  <2>1. CASE container[n].state = "created"
    <3>1. Effect(command, n) = [container[n] EXCEPT !.state = "running"]
      BY <1>3, <2>1 DEF Effect
    <3>2. QED
      BY <1>1, <3>1 DEF Containers
  <2>2. CASE container[n].state # "created"
    BY <1>1, <1>3, <2>2 DEF Effect
  <2>3. QED
    BY <2>1, <2>2
<1>4. CASE command = "rm"
  <2>1. CASE Present(n)
    <3>1. Effect(command, n) = Container(n, container[n].gen + 1, "absent", None)
      BY <1>4, <2>1 DEF Effect
    <3>2. QED
      BY <1>1, <3>1 DEF Containers, Container
  <2>2. CASE ~Present(n)
    BY <1>1, <1>4, <2>2 DEF Effect
  <2>3. QED
    BY <2>1, <2>2
<1>5. QED
  BY <1>2, <1>3, <1>4 DEF Commands

\* Every step keeps every variable of its kind.
LEMMA EngineStepTyped ==
  ASSUME EngineTyped, [EngineNext]_engineAll PROVE EngineTyped'
<1> USE DEF RunPhases, CleanupPhases, Statuses, TrialPhases, Commands
<1>1. ASSUME NEW r \in Runs, Acquire(r) PROVE EngineTyped'
  BY <1>1 DEF Acquire, Goes, Lock, Free, EngineTyped, runVars, engineVars, cleanVars
<1>2. ASSUME NEW r \in Runs, AcquireRefused(r) PROVE EngineTyped'
  BY <1>2 DEF AcquireRefused, Goes, EngineTyped, runVars, engineVars, cleanVars
<1>3. ASSUME NEW r \in Runs, CheckOrphans(r) PROVE EngineTyped'
  BY <1>3 DEF CheckOrphans, Goes, EngineTyped, runVars, engineVars, cleanVars
<1>4. ASSUME NEW r \in Runs, RaiseEarly(r) PROVE EngineTyped'
  BY <1>4 DEF RaiseEarly, Unlock, EngineTyped, runVars, engineVars, cleanVars
<1>5. ASSUME NEW r \in Runs, FirstManifest(r) PROVE EngineTyped'
  BY <1>5 DEF FirstManifest, Goes, EngineTyped, runVars, engineVars, cleanVars
<1>6. ASSUME NEW r \in Runs, StopMeasuring(r) PROVE EngineTyped'
  BY <1>6 DEF StopMeasuring, Goes, Outcomes, EngineTyped, runVars, engineVars, cleanVars
<1>7. ASSUME NEW r \in Runs, NeverMeasured(r) PROVE EngineTyped'
  BY <1>7 DEF NeverMeasured, Goes, EngineTyped, runVars, engineVars, cleanVars
<1>8. ASSUME NEW r \in Runs, Release(r) PROVE EngineTyped'
  BY <1>8 DEF Release, Goes, Unlock, EngineTyped, runVars, engineVars, cleanVars
<1>9. ASSUME NEW r \in Runs, FinalManifest(r) PROVE EngineTyped'
  BY <1>9 DEF FinalManifest, Goes, EngineTyped, runVars, engineVars, cleanVars
<1>10. ASSUME NEW r \in Runs, KillRun(r) PROVE EngineTyped'
  BY <1>10 DEF KillRun, Unlock, EngineTyped, runVars, engineVars, cleanVars
<1>11. ASSUME NEW n \in Names, IssueCreate(n) PROVE EngineTyped'
  BY <1>11 DEF IssueCreate, Issue, EngineTyped, runVars, engineVars, cleanVars
<1>12. ASSUME NEW n \in Names, IssueStart(n) PROVE EngineTyped'
  BY <1>12 DEF IssueStart, Issue, EngineTyped, runVars, engineVars, cleanVars
<1>13. ASSUME NEW n \in Names, StartAnswered(n) PROVE EngineTyped'
  BY <1>13 DEF StartAnswered, Steps, EngineTyped, runVars, engineVars, cleanVars
<1>14. ASSUME NEW n \in Names, IssueRemove(n) PROVE EngineTyped'
  BY <1>14 DEF IssueRemove, Issue, EngineTyped, runVars, engineVars, cleanVars
<1>15. ASSUME NEW n \in Names, Removed(n) PROVE EngineTyped'
  BY <1>15 DEF Removed, Steps, EngineTyped, runVars, engineVars, cleanVars
<1>16. ASSUME NEW n \in Names, RemoveFails(n) PROVE EngineTyped'
  BY <1>16 DEF RemoveFails, Steps, EngineTyped, runVars, engineVars, cleanVars
<1>17. ASSUME NEW n \in Names, NEW command \in Commands, CarryOut(command, n) PROVE EngineTyped'
  <2>1. Effect(command, n) \in Containers /\ Effect(command, n).name = n
    BY EffectTyped
  <2>2. QED
    BY <1>17, <2>1 DEF CarryOut, EngineTyped, runVars, engineVars, cleanVars
<1>18. ASSUME NEW n \in Names, Exit(n) PROVE EngineTyped'
  BY <1>18 DEF Exit, EngineTyped, Containers, runVars, engineVars, cleanVars
<1>19. ASSUME NEW n \in Names, Replace(n) PROVE EngineTyped'
  BY <1>19 DEF Replace, EngineTyped, Containers, Container, runVars, engineVars, cleanVars
<1>20. ASSUME NEW c \in Cleanups, LoadAndLock(c) PROVE EngineTyped'
  BY <1>20 DEF LoadAndLock, CleanupGoes, Lock, Free, EngineTyped, runVars, engineVars, cleanVars
<1>21. ASSUME NEW c \in Cleanups, LockRefused(c) PROVE EngineTyped'
  BY <1>21 DEF LockRefused, CleanupGoes, EngineTyped, runVars, engineVars, cleanVars
<1>22. ASSUME NEW c \in Cleanups, Survey(c) PROVE EngineTyped'
  <2>1. Candidates(Target[c]) \subseteq Containers
    BY DEF Candidates, EngineTyped, Own
  <2>2. QED
    BY <1>22, <2>1 DEF Survey, CleanupGoes, EngineTyped, runVars, engineVars, cleanVars
<1>23. ASSUME NEW c \in Cleanups, SurveyRefused(c) PROVE EngineTyped'
  BY <1>23 DEF SurveyRefused, CleanupGoes, Unlock, EngineTyped, runVars, engineVars, cleanVars
<1>24. ASSUME NEW c \in Cleanups, NEW x \in survey[c], RemoveOne(c, x) PROVE EngineTyped'
  BY <1>24 DEF RemoveOne, EngineTyped, runVars, engineVars, cleanVars
<1>25. ASSUME NEW c \in Cleanups, CleanupEnds(c) PROVE EngineTyped'
  BY <1>25 DEF CleanupEnds, CleanupGoes, Unlock, EngineTyped, runVars, engineVars, cleanVars
<1>26. ASSUME NEW c \in Cleanups, KillCleanup(c) PROVE EngineTyped'
  BY <1>26 DEF KillCleanup, Unlock, EngineTyped, runVars, engineVars, cleanVars
<1>27. CASE UNCHANGED engineAll
  BY <1>27 DEF engineAll, EngineTyped, runVars, engineVars, cleanVars
<1>28. ASSUME NEW c \in Cleanups, NEW x \in ordered[c], CarryOutRemoval(c, x) PROVE EngineTyped'
  <2>1. ASSUME NEW n \in Names PROVE  LET x0 == Container(n, container[n].gen + 1, "absent", None)
               IN  x0 \in Containers /\ x0.name = n
    BY DEF EngineTyped, Containers, Container
  <2>2. container' \in [Names -> Containers] /\ \A n \in Names : container'[n].name = n
    BY <1>28, <2>1 DEF CarryOutRemoval, EngineTyped
  <2>3. QED
    BY <1>28, <2>2 DEF CarryOutRemoval, EngineTyped, runVars, engineVars, cleanVars
<1>29. QED
  BY <1>1, <1>2, <1>3, <1>4, <1>5, <1>6, <1>7, <1>8, <1>9, <1>10, <1>11, <1>12, <1>13, <1>14, <1>15, <1>16, <1>17, <1>18, <1>19, <1>20, <1>21, <1>22, <1>23, <1>24, <1>25, <1>26, <1>27, <1>28
  DEF EngineNext, RunStep, TrialStep, DaemonStep, CleanupStep

\* Every step keeps the lock with one live process.
LEMMA LockStep ==
  ASSUME EngineTyped, LockHeld, [EngineNext]_engineAll PROVE LockHeld'
<1> USE EngineAssumption
<1>1. ASSUME NEW r \in Runs, Acquire(r) PROVE LockHeld'
  BY <1>1 DEF Acquire, Goes, Lock, Free, LockHeld, EngineTyped, runVars, engineVars, cleanVars
<1>2. ASSUME NEW r \in Runs, AcquireRefused(r) PROVE LockHeld'
  BY <1>2 DEF AcquireRefused, Goes, LockHeld, EngineTyped, runVars, engineVars, cleanVars
<1>3. ASSUME NEW r \in Runs, CheckOrphans(r) PROVE LockHeld'
  BY <1>3 DEF CheckOrphans, Goes, LockHeld, EngineTyped, runVars, engineVars, cleanVars
<1>4. ASSUME NEW r \in Runs, RaiseEarly(r) PROVE LockHeld'
  BY <1>4 DEF RaiseEarly, Unlock, LockHeld, EngineTyped, runVars, engineVars, cleanVars
<1>5. ASSUME NEW r \in Runs, FirstManifest(r) PROVE LockHeld'
  BY <1>5 DEF FirstManifest, Goes, LockHeld, EngineTyped, runVars, engineVars, cleanVars
<1>6. ASSUME NEW r \in Runs, StopMeasuring(r) PROVE LockHeld'
  BY <1>6 DEF StopMeasuring, Goes, Outcomes, LockHeld, EngineTyped, runVars, engineVars, cleanVars
<1>7. ASSUME NEW r \in Runs, NeverMeasured(r) PROVE LockHeld'
  BY <1>7 DEF NeverMeasured, Goes, LockHeld, EngineTyped, runVars, engineVars, cleanVars
<1>8. ASSUME NEW r \in Runs, Release(r) PROVE LockHeld'
  BY <1>8 DEF Release, Goes, Unlock, LockHeld, EngineTyped, runVars, engineVars, cleanVars
<1>9. ASSUME NEW r \in Runs, FinalManifest(r) PROVE LockHeld'
  BY <1>9 DEF FinalManifest, Goes, LockHeld, EngineTyped, runVars, engineVars, cleanVars
<1>10. ASSUME NEW r \in Runs, KillRun(r) PROVE LockHeld'
  BY <1>10 DEF KillRun, Unlock, LockHeld, EngineTyped, runVars, engineVars, cleanVars
<1>11. ASSUME NEW n \in Names, IssueCreate(n) PROVE LockHeld'
  BY <1>11 DEF IssueCreate, Issue, LockHeld, EngineTyped, runVars, engineVars, cleanVars
<1>12. ASSUME NEW n \in Names, IssueStart(n) PROVE LockHeld'
  BY <1>12 DEF IssueStart, Issue, LockHeld, EngineTyped, runVars, engineVars, cleanVars
<1>13. ASSUME NEW n \in Names, StartAnswered(n) PROVE LockHeld'
  BY <1>13 DEF StartAnswered, Steps, LockHeld, EngineTyped, runVars, engineVars, cleanVars
<1>14. ASSUME NEW n \in Names, IssueRemove(n) PROVE LockHeld'
  BY <1>14 DEF IssueRemove, Issue, LockHeld, EngineTyped, runVars, engineVars, cleanVars
<1>15. ASSUME NEW n \in Names, Removed(n) PROVE LockHeld'
  BY <1>15 DEF Removed, Steps, LockHeld, EngineTyped, runVars, engineVars, cleanVars
<1>16. ASSUME NEW n \in Names, RemoveFails(n) PROVE LockHeld'
  BY <1>16 DEF RemoveFails, Steps, LockHeld, EngineTyped, runVars, engineVars, cleanVars
<1>17. ASSUME NEW n \in Names, NEW command \in Commands, CarryOut(command, n) PROVE LockHeld'
  BY <1>17 DEF CarryOut, LockHeld, EngineTyped, runVars, engineVars, cleanVars
<1>18. ASSUME NEW n \in Names, Exit(n) PROVE LockHeld'
  BY <1>18 DEF Exit, LockHeld, EngineTyped, runVars, engineVars, cleanVars
<1>19. ASSUME NEW n \in Names, Replace(n) PROVE LockHeld'
  BY <1>19 DEF Replace, LockHeld, EngineTyped, runVars, engineVars, cleanVars
<1>20. ASSUME NEW c \in Cleanups, LoadAndLock(c) PROVE LockHeld'
  BY <1>20 DEF LoadAndLock, CleanupGoes, Lock, Free, LockHeld, EngineTyped, runVars, engineVars, cleanVars
<1>21. ASSUME NEW c \in Cleanups, LockRefused(c) PROVE LockHeld'
  BY <1>21 DEF LockRefused, CleanupGoes, LockHeld, EngineTyped, runVars, engineVars, cleanVars
<1>22. ASSUME NEW c \in Cleanups, Survey(c) PROVE LockHeld'
  BY <1>22 DEF Survey, CleanupGoes, LockHeld, EngineTyped, runVars, engineVars, cleanVars
<1>23. ASSUME NEW c \in Cleanups, SurveyRefused(c) PROVE LockHeld'
  BY <1>23 DEF SurveyRefused, CleanupGoes, Unlock, LockHeld, EngineTyped, runVars, engineVars, cleanVars
<1>24. ASSUME NEW c \in Cleanups, NEW x \in survey[c], RemoveOne(c, x) PROVE LockHeld'
  BY <1>24 DEF RemoveOne, LockHeld, EngineTyped, runVars, engineVars, cleanVars
<1>25. ASSUME NEW c \in Cleanups, CleanupEnds(c) PROVE LockHeld'
  BY <1>25 DEF CleanupEnds, CleanupGoes, Unlock, LockHeld, EngineTyped, runVars, engineVars, cleanVars
<1>26. ASSUME NEW c \in Cleanups, KillCleanup(c) PROVE LockHeld'
  BY <1>26 DEF KillCleanup, Unlock, LockHeld, EngineTyped, runVars, engineVars, cleanVars
<1>27. CASE UNCHANGED engineAll
  BY <1>27 DEF engineAll, LockHeld, EngineTyped, runVars, engineVars, cleanVars
<1>28. ASSUME NEW c \in Cleanups, NEW x \in ordered[c], CarryOutRemoval(c, x) PROVE LockHeld'
  BY <1>28 DEF CarryOutRemoval, LockHeld, EngineTyped, runVars, engineVars, cleanVars
<1>29. QED
  BY <1>1, <1>2, <1>3, <1>4, <1>5, <1>6, <1>7, <1>8, <1>9, <1>10, <1>11, <1>12, <1>13, <1>14, <1>15, <1>16, <1>17, <1>18, <1>19, <1>20, <1>21, <1>22, <1>23, <1>24, <1>25, <1>26, <1>27, <1>28
  DEF EngineNext, RunStep, TrialStep, DaemonStep, CleanupStep

\* Every step keeps each trial and its container in agreement.
LEMMA TrialSoundStep ==
  ASSUME EngineTyped, NEW m \in Names, TrialSound(m), [EngineNext]_engineAll
  PROVE  TrialSound(m)'
<1> USE EngineAssumption DEF Running, Quiet
<1>1. ASSUME NEW r \in Runs, Acquire(r) PROVE TrialSound(m)'
  BY <1>1 DEF Acquire, Goes, Lock, Free, TrialSound, EngineTyped, runVars, engineVars, cleanVars
<1>2. ASSUME NEW r \in Runs, AcquireRefused(r) PROVE TrialSound(m)'
  BY <1>2 DEF AcquireRefused, Goes, TrialSound, EngineTyped, runVars, engineVars, cleanVars
<1>3. ASSUME NEW r \in Runs, CheckOrphans(r) PROVE TrialSound(m)'
  BY <1>3 DEF CheckOrphans, Goes, TrialSound, EngineTyped, runVars, engineVars, cleanVars
<1>4. ASSUME NEW r \in Runs, RaiseEarly(r) PROVE TrialSound(m)'
  BY <1>4 DEF RaiseEarly, Unlock, TrialSound, EngineTyped, runVars, engineVars, cleanVars
<1>5. ASSUME NEW r \in Runs, FirstManifest(r) PROVE TrialSound(m)'
  BY <1>5 DEF FirstManifest, Goes, TrialSound, EngineTyped, runVars, engineVars, cleanVars
<1>6. ASSUME NEW r \in Runs, StopMeasuring(r) PROVE TrialSound(m)'
  BY <1>6 DEF StopMeasuring, Goes, Outcomes, TrialSound, EngineTyped, runVars, engineVars, cleanVars
<1>7. ASSUME NEW r \in Runs, NeverMeasured(r) PROVE TrialSound(m)'
  BY <1>7 DEF NeverMeasured, Goes, TrialSound, EngineTyped, runVars, engineVars, cleanVars
<1>8. ASSUME NEW r \in Runs, Release(r) PROVE TrialSound(m)'
  BY <1>8 DEF Release, Goes, Unlock, TrialSound, EngineTyped, runVars, engineVars, cleanVars
<1>9. ASSUME NEW r \in Runs, FinalManifest(r) PROVE TrialSound(m)'
  BY <1>9 DEF FinalManifest, Goes, TrialSound, EngineTyped, runVars, engineVars, cleanVars
<1>10. ASSUME NEW r \in Runs, KillRun(r) PROVE TrialSound(m)'
  BY <1>10 DEF KillRun, Unlock, TrialSound, EngineTyped, runVars, engineVars, cleanVars
<1>11. ASSUME NEW n \in Names, IssueCreate(n) PROVE TrialSound(m)'
  BY <1>11 DEF IssueCreate, Issue, TrialSound, EngineTyped, runVars, engineVars, cleanVars
<1>12. ASSUME NEW n \in Names, IssueStart(n) PROVE TrialSound(m)'
  BY <1>12 DEF IssueStart, Issue, TrialSound, EngineTyped, runVars, engineVars, cleanVars
<1>13. ASSUME NEW n \in Names, StartAnswered(n) PROVE TrialSound(m)'
  BY <1>13 DEF StartAnswered, Steps, TrialSound, EngineTyped, runVars, engineVars, cleanVars
<1>14. ASSUME NEW n \in Names, IssueRemove(n) PROVE TrialSound(m)'
  BY <1>14 DEF IssueRemove, Issue, TrialSound, EngineTyped, runVars, engineVars, cleanVars
<1>15. ASSUME NEW n \in Names, Removed(n) PROVE TrialSound(m)'
  BY <1>15 DEF Removed, Steps, Gone, Present, TrialSound, EngineTyped, runVars, engineVars, cleanVars
<1>16. ASSUME NEW n \in Names, RemoveFails(n) PROVE TrialSound(m)'
  BY <1>16 DEF RemoveFails, Steps, TrialSound, EngineTyped, runVars, engineVars, cleanVars
<1>17. ASSUME NEW n \in Names, NEW command \in Commands, CarryOut(command, n) PROVE TrialSound(m)'
  <2>1. CASE m # n
    BY <1>17, <2>1 DEF CarryOut, TrialSound, EngineTyped, runVars
  <2>2. ASSUME m = n, command = "create" PROVE TrialSound(m)'
    <3>1. container'[n] = [container[n] EXCEPT !.state = "created", !.run = RunOf[n]]
      BY <1>17, <2>2 DEF CarryOut, Effect, EngineTyped
    <3>2. /\ container'[n].state = "created" /\ container'[n].run = RunOf[n]
          /\ <<"create", n>> \in issued /\ <<"start", n>> \notin issued
      BY <1>17, <2>2, <3>1 DEF CarryOut, TrialSound, EngineTyped, Containers
    <3>3. QED
      BY <1>17, <2>2, <3>2 DEF CarryOut, TrialSound, EngineTyped, runVars
  <2>3. ASSUME m = n, command = "start" PROVE TrialSound(m)'
    <3>1. container'[n] = IF container[n].state = "created"
                          THEN [container[n] EXCEPT !.state = "running"] ELSE container[n]
      BY <1>17, <2>3 DEF CarryOut, Effect, EngineTyped
    <3>2. /\ container'[n].run = container[n].run
          /\ container'[n].state = "absent" <=> container[n].state = "absent"
          /\ <<"start", n>> \in issued /\ <<"create", n>> \notin issued
      BY <1>17, <2>3, <3>1 DEF CarryOut, TrialSound, EngineTyped, Containers
    <3>3. QED
      BY <1>17, <2>3, <3>2 DEF CarryOut, TrialSound, EngineTyped, runVars
  <2>4. ASSUME m = n, command = "rm" PROVE TrialSound(m)'
    <3>1. container'[n].state = "absent" /\ container'[n].run = None
      BY <1>17, <2>4 DEF CarryOut, Effect, Present, Container, TrialSound, EngineTyped
    <3>2. QED
      BY <1>17, <2>4, <3>1 DEF CarryOut, TrialSound, EngineTyped, runVars
  <2>5. QED
    BY <2>1, <2>2, <2>3, <2>4 DEF Commands
<1>18. ASSUME NEW n \in Names, Exit(n) PROVE TrialSound(m)'
  BY <1>18 DEF Exit, Containers, TrialSound, EngineTyped, runVars, engineVars, cleanVars
<1>19. ASSUME NEW n \in Names, Replace(n) PROVE TrialSound(m)'
  BY <1>19 DEF Replace, Container, Containers, Present, TrialSound, EngineTyped, runVars, engineVars, cleanVars
<1>20. ASSUME NEW c \in Cleanups, LoadAndLock(c) PROVE TrialSound(m)'
  BY <1>20 DEF LoadAndLock, CleanupGoes, Lock, Free, TrialSound, EngineTyped, runVars, engineVars, cleanVars
<1>21. ASSUME NEW c \in Cleanups, LockRefused(c) PROVE TrialSound(m)'
  BY <1>21 DEF LockRefused, CleanupGoes, TrialSound, EngineTyped, runVars, engineVars, cleanVars
<1>22. ASSUME NEW c \in Cleanups, Survey(c) PROVE TrialSound(m)'
  BY <1>22 DEF Survey, CleanupGoes, TrialSound, EngineTyped, runVars, engineVars, cleanVars
<1>23. ASSUME NEW c \in Cleanups, SurveyRefused(c) PROVE TrialSound(m)'
  BY <1>23 DEF SurveyRefused, CleanupGoes, Unlock, TrialSound, EngineTyped, runVars, engineVars, cleanVars
<1>24. ASSUME NEW c \in Cleanups, NEW x \in survey[c], RemoveOne(c, x) PROVE TrialSound(m)'
  BY <1>24 DEF RemoveOne, TrialSound, EngineTyped, runVars, engineVars, cleanVars
<1>25. ASSUME NEW c \in Cleanups, CleanupEnds(c) PROVE TrialSound(m)'
  BY <1>25 DEF CleanupEnds, CleanupGoes, Unlock, TrialSound, EngineTyped, runVars, engineVars, cleanVars
<1>26. ASSUME NEW c \in Cleanups, KillCleanup(c) PROVE TrialSound(m)'
  BY <1>26 DEF KillCleanup, Unlock, TrialSound, EngineTyped, runVars, engineVars, cleanVars
<1>27. CASE UNCHANGED engineAll
  BY <1>27 DEF engineAll, TrialSound, EngineTyped, runVars, engineVars, cleanVars
<1>28. ASSUME NEW c \in Cleanups, NEW x \in ordered[c], CarryOutRemoval(c, x) PROVE TrialSound(m)'
  BY <1>28 DEF CarryOutRemoval, Container, Hit, TrialSound, EngineTyped, runVars, engineVars, cleanVars
<1>29. QED
  BY <1>1, <1>2, <1>3, <1>4, <1>5, <1>6, <1>7, <1>8, <1>9, <1>10, <1>11, <1>12, <1>13, <1>14, <1>15, <1>16, <1>17, <1>18, <1>19, <1>20, <1>21, <1>22, <1>23, <1>24, <1>25, <1>26, <1>27, <1>28
  DEF EngineNext, RunStep, TrialStep, DaemonStep, CleanupStep

\* Every step keeps each run and its trials in agreement.
LEMMA RunSoundStep ==
  ASSUME EngineTyped, NEW q \in Runs, RunSound(q), [EngineNext]_engineAll
  PROVE  RunSound(q)'
<1> USE EngineAssumption DEF Own
<1>1. ASSUME NEW r \in Runs, Acquire(r) PROVE RunSound(q)'
  BY <1>1 DEF Acquire, Goes, Lock, Free, RunSound, EngineTyped, runVars, engineVars, cleanVars
<1>2. ASSUME NEW r \in Runs, AcquireRefused(r) PROVE RunSound(q)'
  BY <1>2 DEF AcquireRefused, Goes, RunSound, EngineTyped, runVars, engineVars, cleanVars
<1>3. ASSUME NEW r \in Runs, CheckOrphans(r) PROVE RunSound(q)'
  BY <1>3 DEF CheckOrphans, Goes, RunSound, EngineTyped, runVars, engineVars, cleanVars
<1>4. ASSUME NEW r \in Runs, RaiseEarly(r) PROVE RunSound(q)'
  BY <1>4 DEF RaiseEarly, Unlock, RunSound, EngineTyped, runVars, engineVars, cleanVars
<1>5. ASSUME NEW r \in Runs, FirstManifest(r) PROVE RunSound(q)'
  BY <1>5 DEF FirstManifest, Goes, RunSound, EngineTyped, runVars, engineVars, cleanVars
<1>6. ASSUME NEW r \in Runs, StopMeasuring(r) PROVE RunSound(q)'
  BY <1>6 DEF StopMeasuring, Goes, Outcomes, Settled, RunSound, EngineTyped, runVars, engineVars, cleanVars
<1>7. ASSUME NEW r \in Runs, NeverMeasured(r) PROVE RunSound(q)'
  BY <1>7 DEF NeverMeasured, Goes, RunSound, EngineTyped, runVars, engineVars, cleanVars
<1>8. ASSUME NEW r \in Runs, Release(r) PROVE RunSound(q)'
  BY <1>8 DEF Release, Goes, Unlock, RunSound, EngineTyped, runVars, engineVars, cleanVars
<1>9. ASSUME NEW r \in Runs, FinalManifest(r) PROVE RunSound(q)'
  BY <1>9 DEF FinalManifest, Goes, RunSound, EngineTyped, runVars, engineVars, cleanVars
<1>10. ASSUME NEW r \in Runs, KillRun(r) PROVE RunSound(q)'
  BY <1>10 DEF KillRun, Unlock, RunSound, EngineTyped, runVars, engineVars, cleanVars
<1>11. ASSUME NEW n \in Names, IssueCreate(n) PROVE RunSound(q)'
  BY <1>11 DEF IssueCreate, Issue, RunSound, EngineTyped, runVars, engineVars, cleanVars
<1>12. ASSUME NEW n \in Names, IssueStart(n) PROVE RunSound(q)'
  BY <1>12 DEF IssueStart, Issue, RunSound, EngineTyped, runVars, engineVars, cleanVars
<1>13. ASSUME NEW n \in Names, StartAnswered(n) PROVE RunSound(q)'
  BY <1>13 DEF StartAnswered, Steps, RunSound, EngineTyped, runVars, engineVars, cleanVars
<1>14. ASSUME NEW n \in Names, IssueRemove(n) PROVE RunSound(q)'
  BY <1>14 DEF IssueRemove, Issue, RunSound, EngineTyped, runVars, engineVars, cleanVars
<1>15. ASSUME NEW n \in Names, Removed(n) PROVE RunSound(q)'
  BY <1>15 DEF Removed, Steps, RunSound, EngineTyped, runVars, engineVars, cleanVars
<1>16. ASSUME NEW n \in Names, RemoveFails(n) PROVE RunSound(q)'
  BY <1>16 DEF RemoveFails, Steps, RunSound, EngineTyped, runVars, engineVars, cleanVars
<1>17. ASSUME NEW n \in Names, NEW command \in Commands, CarryOut(command, n) PROVE RunSound(q)'
  BY <1>17 DEF CarryOut, RunSound, EngineTyped, runVars, engineVars, cleanVars
<1>18. ASSUME NEW n \in Names, Exit(n) PROVE RunSound(q)'
  BY <1>18 DEF Exit, RunSound, EngineTyped, runVars, engineVars, cleanVars
<1>19. ASSUME NEW n \in Names, Replace(n) PROVE RunSound(q)'
  BY <1>19 DEF Replace, RunSound, EngineTyped, runVars, engineVars, cleanVars
<1>20. ASSUME NEW c \in Cleanups, LoadAndLock(c) PROVE RunSound(q)'
  BY <1>20 DEF LoadAndLock, CleanupGoes, Lock, Free, RunSound, EngineTyped, runVars, engineVars, cleanVars
<1>21. ASSUME NEW c \in Cleanups, LockRefused(c) PROVE RunSound(q)'
  BY <1>21 DEF LockRefused, CleanupGoes, RunSound, EngineTyped, runVars, engineVars, cleanVars
<1>22. ASSUME NEW c \in Cleanups, Survey(c) PROVE RunSound(q)'
  BY <1>22 DEF Survey, CleanupGoes, RunSound, EngineTyped, runVars, engineVars, cleanVars
<1>23. ASSUME NEW c \in Cleanups, SurveyRefused(c) PROVE RunSound(q)'
  BY <1>23 DEF SurveyRefused, CleanupGoes, Unlock, RunSound, EngineTyped, runVars, engineVars, cleanVars
<1>24. ASSUME NEW c \in Cleanups, NEW x \in survey[c], RemoveOne(c, x) PROVE RunSound(q)'
  BY <1>24 DEF RemoveOne, RunSound, EngineTyped, runVars, engineVars, cleanVars
<1>25. ASSUME NEW c \in Cleanups, CleanupEnds(c) PROVE RunSound(q)'
  BY <1>25 DEF CleanupEnds, CleanupGoes, Unlock, RunSound, EngineTyped, runVars, engineVars, cleanVars
<1>26. ASSUME NEW c \in Cleanups, KillCleanup(c) PROVE RunSound(q)'
  BY <1>26 DEF KillCleanup, Unlock, RunSound, EngineTyped, runVars, engineVars, cleanVars
<1>27. CASE UNCHANGED engineAll
  BY <1>27 DEF engineAll, RunSound, EngineTyped, runVars, engineVars, cleanVars
<1>28. ASSUME NEW c \in Cleanups, NEW x \in ordered[c], CarryOutRemoval(c, x) PROVE RunSound(q)'
  BY <1>28 DEF CarryOutRemoval, RunSound, EngineTyped, runVars, engineVars, cleanVars
<1>29. QED
  BY <1>1, <1>2, <1>3, <1>4, <1>5, <1>6, <1>7, <1>8, <1>9, <1>10, <1>11, <1>12, <1>13, <1>14, <1>15, <1>16, <1>17, <1>18, <1>19, <1>20, <1>21, <1>22, <1>23, <1>24, <1>25, <1>26, <1>27, <1>28
  DEF EngineNext, RunStep, TrialStep, DaemonStep, CleanupStep

\* Every step keeps a measuring run alone on the engine, late starts of killed runs apart.
LEMMA AloneStep ==
  ASSUME EngineTyped, LockHeld, \A n \in Names : TrialSound(n), \A r \in Runs : RunSound(r),
         AloneSinceCheck, [EngineNext]_engineAll
  PROVE  AloneSinceCheck'
<1> USE EngineAssumption DEF Running
<1>1. ASSUME NEW r \in Runs, Acquire(r) PROVE AloneSinceCheck'
  BY <1>1 DEF Acquire, Goes, Lock, Free, AloneSinceCheck, EngineTyped, runVars, engineVars, cleanVars
<1>2. ASSUME NEW r \in Runs, AcquireRefused(r) PROVE AloneSinceCheck'
  BY <1>2 DEF AcquireRefused, Goes, AloneSinceCheck, EngineTyped, runVars, engineVars, cleanVars
<1>3. ASSUME NEW r \in Runs, CheckOrphans(r) PROVE AloneSinceCheck'
  <2> SUFFICES ASSUME NEW p \in Runs, NEW n \in Names, phase'[p] \in {"checked", "measuring"},
                      Running(n)', container'[n].run \notin {p, None}
               PROVE  FALSE
    BY DEF AloneSinceCheck
  <2>1. p = r
    BY <1>3 DEF CheckOrphans, Goes, LockHeld, EngineTyped
  <2>2. n \in Orphans(r)
    BY <1>3, <2>1 DEF CheckOrphans, Orphans
  <2>3. QED
    BY <1>3, <2>2 DEF CheckOrphans
<1>4. ASSUME NEW r \in Runs, RaiseEarly(r) PROVE AloneSinceCheck'
  BY <1>4 DEF RaiseEarly, Unlock, AloneSinceCheck, EngineTyped, runVars, engineVars, cleanVars
<1>5. ASSUME NEW r \in Runs, FirstManifest(r) PROVE AloneSinceCheck'
  BY <1>5 DEF FirstManifest, Goes, AloneSinceCheck, EngineTyped, runVars, engineVars, cleanVars
<1>6. ASSUME NEW r \in Runs, StopMeasuring(r) PROVE AloneSinceCheck'
  BY <1>6 DEF StopMeasuring, Goes, Outcomes, AloneSinceCheck, EngineTyped, runVars, engineVars, cleanVars
<1>7. ASSUME NEW r \in Runs, NeverMeasured(r) PROVE AloneSinceCheck'
  BY <1>7 DEF NeverMeasured, Goes, AloneSinceCheck, EngineTyped, runVars, engineVars, cleanVars
<1>8. ASSUME NEW r \in Runs, Release(r) PROVE AloneSinceCheck'
  BY <1>8 DEF Release, Goes, Unlock, AloneSinceCheck, EngineTyped, runVars, engineVars, cleanVars
<1>9. ASSUME NEW r \in Runs, FinalManifest(r) PROVE AloneSinceCheck'
  BY <1>9 DEF FinalManifest, Goes, AloneSinceCheck, EngineTyped, runVars, engineVars, cleanVars
<1>10. ASSUME NEW r \in Runs, KillRun(r) PROVE AloneSinceCheck'
  BY <1>10 DEF KillRun, Unlock, AloneSinceCheck, EngineTyped, runVars, engineVars, cleanVars
<1>11. ASSUME NEW n \in Names, IssueCreate(n) PROVE AloneSinceCheck'
  BY <1>11 DEF IssueCreate, Issue, AloneSinceCheck, EngineTyped, runVars, engineVars, cleanVars
<1>12. ASSUME NEW n \in Names, IssueStart(n) PROVE AloneSinceCheck'
  BY <1>12 DEF IssueStart, Issue, AloneSinceCheck, EngineTyped, runVars, engineVars, cleanVars
<1>13. ASSUME NEW n \in Names, StartAnswered(n) PROVE AloneSinceCheck'
  BY <1>13 DEF StartAnswered, Steps, AloneSinceCheck, EngineTyped, runVars, engineVars, cleanVars
<1>14. ASSUME NEW n \in Names, IssueRemove(n) PROVE AloneSinceCheck'
  BY <1>14 DEF IssueRemove, Issue, AloneSinceCheck, EngineTyped, runVars, engineVars, cleanVars
<1>15. ASSUME NEW n \in Names, Removed(n) PROVE AloneSinceCheck'
  BY <1>15 DEF Removed, Steps, AloneSinceCheck, EngineTyped, runVars, engineVars, cleanVars
<1>16. ASSUME NEW n \in Names, RemoveFails(n) PROVE AloneSinceCheck'
  BY <1>16 DEF RemoveFails, Steps, AloneSinceCheck, EngineTyped, runVars, engineVars, cleanVars
<1>17. ASSUME NEW n \in Names, NEW command \in Commands, CarryOut(command, n) PROVE AloneSinceCheck'
  <2> SUFFICES ASSUME NEW p \in Runs, NEW k \in Names, phase[p] \in {"checked", "measuring"},
                      Running(k)', container'[k].run \notin {p, None}
               PROVE  k \in started' /\ (phase[RunOf[k]] = "killed" \/ trial[k] = "left")
    BY <1>17 DEF CarryOut, AloneSinceCheck, runVars
  <2>1. CASE container'[k] = container[k]
    BY <1>17, <2>1 DEF CarryOut, AloneSinceCheck
  <2>2. CASE container'[k] # container[k]
    <3>1. k = n /\ container'[n] = Effect(command, n)
      BY <1>17, <2>2 DEF CarryOut, EngineTyped
    <3>2. command = "start" /\ container[n].state = "created"
      BY <2>2, <3>1 DEF Effect, Commands, Container
    <3>3. container'[n].run = container[n].run
      BY <3>1, <3>2 DEF Effect, EngineTyped, Containers
    <3>4. container[n].run = RunOf[n] /\ RunOf[n] # p
      BY <3>1, <3>3 DEF TrialSound
    <3>5. n \in started'
      BY <1>17, <3>1 DEF CarryOut
    <3>6. <<"start", n>> \in issued
      BY <1>17, <3>2 DEF CarryOut
    <3>7. trial[n] \notin {"unused", "removed"}
      BY <3>4, <3>6 DEF TrialSound, Quiet
    <3>8. phase[RunOf[n]] \notin {"start", "acquired", "checked", "raised"}
      BY <3>7, RunSound(RunOf[n]) DEF RunSound, Own
    <3>9. phase[RunOf[n]] \notin {"measuring", "stopping"}
      BY <3>4 DEF LockHeld
    <3>10. phase[RunOf[n]] \in {"stopping", "released", "done"} => trial[n] = "left"
      BY <3>7, RunSound(RunOf[n]) DEF RunSound, Own
    <3>11. QED
      BY <3>1, <3>5, <3>8, <3>9, <3>10 DEF EngineTyped, RunPhases
  <2>3. QED
    BY <2>1, <2>2
<1>18. ASSUME NEW n \in Names, Exit(n) PROVE AloneSinceCheck'
  BY <1>18 DEF Exit, Containers, AloneSinceCheck, EngineTyped, runVars, engineVars, cleanVars
<1>19. ASSUME NEW n \in Names, Replace(n) PROVE AloneSinceCheck'
  BY <1>19 DEF Replace, Container, Containers, AloneSinceCheck, EngineTyped, runVars, engineVars, cleanVars
<1>20. ASSUME NEW c \in Cleanups, LoadAndLock(c) PROVE AloneSinceCheck'
  BY <1>20 DEF LoadAndLock, CleanupGoes, Lock, Free, AloneSinceCheck, EngineTyped, runVars, engineVars, cleanVars
<1>21. ASSUME NEW c \in Cleanups, LockRefused(c) PROVE AloneSinceCheck'
  BY <1>21 DEF LockRefused, CleanupGoes, AloneSinceCheck, EngineTyped, runVars, engineVars, cleanVars
<1>22. ASSUME NEW c \in Cleanups, Survey(c) PROVE AloneSinceCheck'
  BY <1>22 DEF Survey, CleanupGoes, AloneSinceCheck, EngineTyped, runVars, engineVars, cleanVars
<1>23. ASSUME NEW c \in Cleanups, SurveyRefused(c) PROVE AloneSinceCheck'
  BY <1>23 DEF SurveyRefused, CleanupGoes, Unlock, AloneSinceCheck, EngineTyped, runVars, engineVars, cleanVars
<1>24. ASSUME NEW c \in Cleanups, NEW x \in survey[c], RemoveOne(c, x) PROVE AloneSinceCheck'
  BY <1>24 DEF RemoveOne, AloneSinceCheck, EngineTyped, runVars, engineVars, cleanVars
<1>25. ASSUME NEW c \in Cleanups, CleanupEnds(c) PROVE AloneSinceCheck'
  BY <1>25 DEF CleanupEnds, CleanupGoes, Unlock, AloneSinceCheck, EngineTyped, runVars, engineVars, cleanVars
<1>26. ASSUME NEW c \in Cleanups, KillCleanup(c) PROVE AloneSinceCheck'
  BY <1>26 DEF KillCleanup, Unlock, AloneSinceCheck, EngineTyped, runVars, engineVars, cleanVars
<1>27. CASE UNCHANGED engineAll
  BY <1>27 DEF engineAll, AloneSinceCheck, EngineTyped, runVars, engineVars, cleanVars
<1>28. ASSUME NEW c \in Cleanups, NEW x \in ordered[c], CarryOutRemoval(c, x) PROVE AloneSinceCheck'
  BY <1>28 DEF CarryOutRemoval, Container, Hit, AloneSinceCheck, EngineTyped, runVars, engineVars, cleanVars
<1>29. QED
  BY <1>1, <1>2, <1>3, <1>4, <1>5, <1>6, <1>7, <1>8, <1>9, <1>10, <1>11, <1>12, <1>13, <1>14, <1>15, <1>16, <1>17, <1>18, <1>19, <1>20, <1>21, <1>22, <1>23, <1>24, <1>25, <1>26, <1>27, <1>28
  DEF EngineNext, RunStep, TrialStep, DaemonStep, CleanupStep

\* Every step keeps the candidates of a cleanup within what was owned at the survey.
LEMMA SurveyStep ==
  ASSUME EngineTyped, \A n \in Names : TrialSound(n), SurveySound, [EngineNext]_engineAll
  PROVE  SurveySound'
<1> USE EngineAssumption DEF Containers
<1>1. ASSUME NEW r \in Runs, Acquire(r) PROVE SurveySound'
  BY <1>1 DEF Acquire, Goes, Lock, Free, SurveySound, EngineTyped, runVars, engineVars, cleanVars
<1>2. ASSUME NEW r \in Runs, AcquireRefused(r) PROVE SurveySound'
  BY <1>2 DEF AcquireRefused, Goes, SurveySound, EngineTyped, runVars, engineVars, cleanVars
<1>3. ASSUME NEW r \in Runs, CheckOrphans(r) PROVE SurveySound'
  BY <1>3 DEF CheckOrphans, Goes, SurveySound, EngineTyped, runVars, engineVars, cleanVars
<1>4. ASSUME NEW r \in Runs, RaiseEarly(r) PROVE SurveySound'
  BY <1>4 DEF RaiseEarly, Unlock, SurveySound, EngineTyped, runVars, engineVars, cleanVars
<1>5. ASSUME NEW r \in Runs, FirstManifest(r) PROVE SurveySound'
  BY <1>5 DEF FirstManifest, Goes, SurveySound, EngineTyped, runVars, engineVars, cleanVars
<1>6. ASSUME NEW r \in Runs, StopMeasuring(r) PROVE SurveySound'
  BY <1>6 DEF StopMeasuring, Goes, Outcomes, SurveySound, EngineTyped, runVars, engineVars, cleanVars
<1>7. ASSUME NEW r \in Runs, NeverMeasured(r) PROVE SurveySound'
  BY <1>7 DEF NeverMeasured, Goes, SurveySound, EngineTyped, runVars, engineVars, cleanVars
<1>8. ASSUME NEW r \in Runs, Release(r) PROVE SurveySound'
  BY <1>8 DEF Release, Goes, Unlock, SurveySound, EngineTyped, runVars, engineVars, cleanVars
<1>9. ASSUME NEW r \in Runs, FinalManifest(r) PROVE SurveySound'
  BY <1>9 DEF FinalManifest, Goes, SurveySound, EngineTyped, runVars, engineVars, cleanVars
<1>10. ASSUME NEW r \in Runs, KillRun(r) PROVE SurveySound'
  BY <1>10 DEF KillRun, Unlock, SurveySound, EngineTyped, runVars, engineVars, cleanVars
<1>11. ASSUME NEW n \in Names, IssueCreate(n) PROVE SurveySound'
  BY <1>11 DEF IssueCreate, Issue, SurveySound, EngineTyped, runVars, engineVars, cleanVars
<1>12. ASSUME NEW n \in Names, IssueStart(n) PROVE SurveySound'
  BY <1>12 DEF IssueStart, Issue, SurveySound, EngineTyped, runVars, engineVars, cleanVars
<1>13. ASSUME NEW n \in Names, StartAnswered(n) PROVE SurveySound'
  BY <1>13 DEF StartAnswered, Steps, SurveySound, EngineTyped, runVars, engineVars, cleanVars
<1>14. ASSUME NEW n \in Names, IssueRemove(n) PROVE SurveySound'
  BY <1>14 DEF IssueRemove, Issue, SurveySound, EngineTyped, runVars, engineVars, cleanVars
<1>15. ASSUME NEW n \in Names, Removed(n) PROVE SurveySound'
  BY <1>15 DEF Removed, Steps, SurveySound, EngineTyped, runVars, engineVars, cleanVars
<1>16. ASSUME NEW n \in Names, RemoveFails(n) PROVE SurveySound'
  BY <1>16 DEF RemoveFails, Steps, SurveySound, EngineTyped, runVars, engineVars, cleanVars
<1>17. ASSUME NEW n \in Names, NEW command \in Commands, CarryOut(command, n) PROVE SurveySound'
  <2> SUFFICES ASSUME NEW d \in Cleanups, NEW x \in survey[d] \cup ordered[d], x.name = n
               PROVE  /\ x.gen <= container'[n].gen
                      /\ x.gen = container'[n].gen =>
                           container'[n].state # "absent" /\ container'[n].run = x.run
    BY <1>17 DEF CarryOut, SurveySound, EngineTyped, cleanVars
  <2>1. container'[n] = Effect(command, n)
    BY <1>17 DEF CarryOut, EngineTyped
  <2>2. /\ x.gen \in Nat /\ container[n].gen \in Nat /\ x.gen <= container[n].gen
        /\ x.gen = container[n].gen => container[n].state # "absent" /\ container[n].run = x.run
    BY DEF SurveySound, EngineTyped
  <2>3. CASE command = "create"
    <3>1. container[n].state = "absent"
      BY <1>17, <2>3 DEF CarryOut, TrialSound
    <3>2. Effect(command, n).gen = container[n].gen
      <4>1. Effect(command, n) = [container[n] EXCEPT !.state = "created", !.run = RunOf[n]]
        BY <2>3 DEF Effect
      <4>2. QED
        BY <4>1 DEF EngineTyped
    <3>3. QED
      BY <2>1, <2>2, <3>1, <3>2
  <2>4. CASE command = "start"
    <3>1. /\ Effect(command, n).gen = container[n].gen /\ Effect(command, n).run = container[n].run
          /\ container[n].state # "absent" => Effect(command, n).state # "absent"
      BY <2>4 DEF Effect, EngineTyped
    <3>2. QED
      BY <2>1, <2>2, <3>1
  <2>5. CASE command = "rm"
    <3>1. CASE Present(n)
      <4>1. Effect(command, n).gen = container[n].gen + 1
        BY <2>5, <3>1 DEF Effect, Container
      <4>2. QED
        BY <2>1, <2>2, <4>1
    <3>2. CASE ~Present(n)
      BY <2>1, <2>2, <2>5, <3>2 DEF Effect
    <3>3. QED
      BY <3>1, <3>2
  <2>6. QED
    BY <2>3, <2>4, <2>5 DEF Commands
<1>18. ASSUME NEW n \in Names, Exit(n) PROVE SurveySound'
  BY <1>18 DEF Exit, SurveySound, EngineTyped, runVars, engineVars, cleanVars
<1>19. ASSUME NEW n \in Names, Replace(n) PROVE SurveySound'
  BY <1>19 DEF Replace, Container, Present, SurveySound, EngineTyped, runVars, engineVars, cleanVars
<1>20. ASSUME NEW c \in Cleanups, LoadAndLock(c) PROVE SurveySound'
  BY <1>20 DEF LoadAndLock, CleanupGoes, Lock, Free, SurveySound, EngineTyped, runVars, engineVars, cleanVars
<1>21. ASSUME NEW c \in Cleanups, LockRefused(c) PROVE SurveySound'
  BY <1>21 DEF LockRefused, CleanupGoes, SurveySound, EngineTyped, runVars, engineVars, cleanVars
<1>22. ASSUME NEW c \in Cleanups, Survey(c) PROVE SurveySound'
  <2>1. ASSUME NEW x \in Candidates(Target[c])
        PROVE  /\ x.run = Target[c] /\ x.gen = container[x.name].gen
               /\ container[x.name].state # "absent" /\ container[x.name].run = x.run
    <3>1. PICK n \in Names : x = container[n] /\ container[n].state # "absent"
      BY DEF Candidates, Own, Present
    <3>2. x.name = n
      BY <3>1 DEF EngineTyped
    <3>3. x.run = Target[c]
      BY <1>22 DEF Survey, Owned
    <3>4. QED
      BY <3>1, <3>2, <3>3
  <2>2. ASSUME NEW d \in Cleanups, NEW x \in survey'[d] \cup ordered'[d]
        PROVE  (d = c /\ x \in Candidates(Target[c])) \/ x \in survey[d] \cup ordered[d]
    BY <1>22 DEF Survey, EngineTyped
  <2>3. container' = container
    BY <1>22 DEF Survey, engineVars
  <2>4. ASSUME NEW d \in Cleanups, NEW x \in survey'[d] \cup ordered'[d]
        PROVE  /\ x.run = Target[d]
               /\ x.gen <= container[x.name].gen
               /\ x.gen = container[x.name].gen =>
                    container[x.name].state # "absent" /\ container[x.name].run = x.run
    <3>1. CASE d = c /\ x \in Candidates(Target[c])
      <4>1. x.gen = container[x.name].gen /\ x.gen \in Nat
        BY <2>1, <3>1 DEF Candidates, Own, EngineTyped
      <4>2. QED
        BY <2>1, <3>1, <4>1
    <3>2. CASE x \in survey[d] \cup ordered[d]
      BY <3>2 DEF SurveySound
    <3>3. QED
      BY <2>2, <3>1, <3>2
  <2>5. QED
    BY <2>3, <2>4 DEF SurveySound
<1>23. ASSUME NEW c \in Cleanups, SurveyRefused(c) PROVE SurveySound'
  BY <1>23 DEF SurveyRefused, CleanupGoes, Unlock, SurveySound, EngineTyped, runVars, engineVars, cleanVars
<1>24. ASSUME NEW c \in Cleanups, NEW x \in survey[c], RemoveOne(c, x) PROVE SurveySound'
  BY <1>24 DEF RemoveOne, SurveySound, EngineTyped, runVars, engineVars, cleanVars
<1>25. ASSUME NEW c \in Cleanups, CleanupEnds(c) PROVE SurveySound'
  BY <1>25 DEF CleanupEnds, CleanupGoes, Unlock, SurveySound, EngineTyped, runVars, engineVars, cleanVars
<1>26. ASSUME NEW c \in Cleanups, KillCleanup(c) PROVE SurveySound'
  BY <1>26 DEF KillCleanup, Unlock, SurveySound, EngineTyped, runVars, engineVars, cleanVars
<1>27. CASE UNCHANGED engineAll
  BY <1>27 DEF engineAll, SurveySound, EngineTyped, runVars, engineVars, cleanVars
<1>28. ASSUME NEW c \in Cleanups, NEW x \in ordered[c], CarryOutRemoval(c, x) PROVE SurveySound'
  BY <1>28 DEF CarryOutRemoval, Container, Hit, Present, SurveySound, EngineTyped, runVars, engineVars, cleanVars
<1>29. QED
  BY <1>1, <1>2, <1>3, <1>4, <1>5, <1>6, <1>7, <1>8, <1>9, <1>10, <1>11, <1>12, <1>13, <1>14, <1>15, <1>16, <1>17, <1>18, <1>19, <1>20, <1>21, <1>22, <1>23, <1>24, <1>25, <1>26, <1>27, <1>28
  DEF EngineNext, RunStep, TrialStep, DaemonStep, CleanupStep

\* The inductive invariant holds throughout.
LEMMA EngineInvariant == EngineSpec => []EngineInv
<1>1. EngineInit => EngineInv
  BY EngineInitInv
<1>2. EngineInv /\ [EngineNext]_engineAll => EngineInv'
  BY EngineStepTyped, LockStep, TrialSoundStep, RunSoundStep, AloneStep, SurveyStep DEF EngineInv
<1>3. QED
  BY <1>1, <1>2, PTL DEF EngineSpec

-----------------------------------------------------------------------------
(* The properties.                                                         *)

\* For any number of runs and cleanups, also when they are killed, at most one
\* process coordinates on the engine (coordination.py, EngineLock).
THEOREM OneCoordinatorTheorem == EngineSpec => []OneCoordinator
<1>1. EngineInv => OneCoordinator
  BY EngineAssumption DEF EngineInv, LockHeld, OneCoordinator, Coordinating
<1>2. QED
  BY <1>1, EngineInvariant, PTL

\* A run measures alone but for late starts of killed runs and of runs that
\* failed to clean up (coordination.py, refuse_orphans).
THEOREM AloneTheorem == EngineSpec => []AloneWhileMeasuring
<1>1. EngineInv => AloneWhileMeasuring
  BY DEF EngineInv, AloneSinceCheck, AloneWhileMeasuring
<1>2. QED
  BY <1>1, EngineInvariant, PTL

\* A completed manifest leaves none of its run's containers running (runner.py).
THEOREM CompletedTheorem == EngineSpec => []CompletedLeavesNothingRunning
<1>1. EngineInv => CompletedLeavesNothingRunning
  <2> SUFFICES ASSUME EngineInv, NEW n \in Names, manifest[RunOf[n]] = "completed",
                      Running(n), container[n].run = RunOf[n]
               PROVE  FALSE
    BY DEF CompletedLeavesNothingRunning
  <2>1. RunOf[n] \in Runs /\ RunSound(RunOf[n]) /\ TrialSound(n)
    BY EngineAssumption DEF EngineInv
  <2>2. status[RunOf[n]] = "completed"
    BY <2>1, EngineAssumption DEF RunSound, Statuses
  <2>3. trial[n] \in {"unused", "removed"}
    BY <2>1, <2>2 DEF RunSound, Own
  <2>4. QED
    BY <2>1, <2>3 DEF TrialSound, Quiet, Running
<1>2. QED
  BY <1>1, EngineInvariant, PTL

\* Cleanup removes only containers with its run's label, whoever renames or
\* replaces containers meanwhile (recovery.py, cleanup).
THEOREM CleanupTheorem == EngineSpec => CleanupRemovesOnlyOwned
<1> DEFINE Spares ==
      \A c \in Cleanups, n \in Names :
        (\E x \in ordered[c] : CarryOutRemoval(c, x)) /\ container'[n] # container[n] =>
          container[n].run = Target[c]
<1>1. EngineInv => Spares
  <2> SUFFICES ASSUME EngineInv, NEW c \in Cleanups, NEW n \in Names, NEW x \in ordered[c],
                      CarryOutRemoval(c, x), container'[n] # container[n]
               PROVE  container[n].run = Target[c]
    OBVIOUS
  <2>1. n \in Hit(x)
    BY DEF CarryOutRemoval, EngineInv, EngineTyped
  <2>2. QED
    BY <2>1 DEF Hit, EngineInv, SurveySound
<1>2. EngineInv /\ [EngineNext]_engineAll => [Spares]_engineAll
  BY <1>1
<1>3. QED
  BY <1>2, EngineInvariant, PTL DEF EngineSpec, CleanupRemovesOnlyOwned
=============================================================================
