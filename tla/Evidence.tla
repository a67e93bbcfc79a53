------------------------------ MODULE Evidence ------------------------------
(***************************************************************************)
(* What is concluded from a run's artifacts, at any moment of the run: the *)
(* comparison of two profiles (evalnoise/compare.py), the report's paired  *)
(* counts (evalnoise/report.py) and the block analysis                     *)
(* (evalnoise/blocks.py), over the records of RunBatches.                  *)
(*                                                                         *)
(* Abstracted: both arms are of one run; a mean is its sum, beside the     *)
(* number of its terms; durations and infrastructure errors, which are     *)
(* counted the same way; the engine's identity at the end of the run.      *)
(* Records are looked at together: compare reads them one after the other, *)
(* after the manifest, which ConclusionsStand makes no difference to what  *)
(* is resolved.                                                            *)
(***************************************************************************)
EXTENDS RunBatches, Plan, Functions

CONSTANTS Baseline, Candidate   \* the two profiles of the contrast

ASSUME EvidenceAssumption ==
  /\ Trials = PlannedTrials /\ Batches = PlannedBatches /\ BatchOf = PlannedBatch
  /\ {Baseline, Candidate} \subseteq Profiles /\ Baseline # Candidate

-----------------------------------------------------------------------------
(* compare: arms, pairs and their coverage.                                *)

UnresolvedStatuses == {"pending_verification", "cancelled", "unknown"}

\* Mutant of ResolvedStatuses: a provisional success is an outcome.
ResolvedProvisional == Records \ {"none", "cancelled", "unknown"}

ResolvedStatuses == Records \ (UnresolvedStatuses \cup {"none"})

\* The pairs that are planned, and the status an arm recorded for one.
Pairs == Tasks \X (0..Repeats - 1)

Arms == {Baseline, Candidate}

StatusIn(arm, pair) == record[Cell[pair[1], pair[2], arm]]

Lost(arm) == {pair \in Pairs : StatusIn(arm, pair) \notin ResolvedStatuses}

Complete == Pairs \ (Lost(Baseline) \cup Lost(Candidate))

\* A record that is missing goes before one that is unresolved.
Exclusion(pair) ==
  LET missing == {arm \in Arms : StatusIn(arm, pair) = "none"}
  IN  IF missing # {} THEN <<"missing", missing>>
                      ELSE <<"unresolved", {arm \in Arms : pair \in Lost(arm)}>>

Excluded(reason) == {pair \in Pairs \ Complete : Exclusion(pair) = reason}

\* Loss is compared by the pairs that are lost, not by their number.
Differential == Lost(Baseline) # Lost(Candidate)

CaseBasis == IF Complete = Pairs THEN "complete_pair" ELSE "selected_case"

-----------------------------------------------------------------------------
(* compare: descriptives and the task-weighted estimate of success.        *)

Score(arm, pair) == IF StatusIn(arm, pair) = "passed" THEN 1 ELSE 0

Transitions(pairs, from, to) ==
  Cardinality({pair \in pairs : Score(Baseline, pair) = from /\ Score(Candidate, pair) = to})

Difference(pairs) ==
  SumFunction([pair \in pairs |-> Score(Candidate, pair) - Score(Baseline, pair)])

\* A task's value is the mean over its included pairs, and undefined, not zero,
\* without one; the point is the mean over the tasks that have a value.
Included(task) == {pair \in Complete : pair[1] = task}

Contributing == {task \in Tasks : Included(task) # {}}

-----------------------------------------------------------------------------
(* report.summarize: its pairs leave out what was not decided.             *)

Reported ==
  {pair \in Pairs : \A arm \in Arms :
     StatusIn(arm, pair) \notin {"none", "cancelled", "pending_verification"}}

-----------------------------------------------------------------------------
(* blocks.analyze.                                                         *)

\* verify replaces the cleanup error of the workload by the verifier's.
CleanupError(t) == IF at[Check(t)] = "ended" THEN left[Check(t)] ELSE left[Work(t)]

\* Mutant of Analyzed: no pair is looked at.
AnalyzedAnyway == manifest = "completed" /\ ~\E t \in Trials : CleanupError(t)

\* The run completed, every planned pair is complete and nothing was left.
Analyzed ==
  /\ manifest = "completed"
  /\ Complete = Pairs
  /\ ~\E t \in Trials : CleanupError(t)

Block(repeat) == {pair \in Pairs : pair[2] = repeat}

-----------------------------------------------------------------------------
(* Properties.                                                             *)

\* Whenever it is read, also while the run goes on, what a comparison counts
\* stands: a status it counts as an outcome is never another one later, so no
\* pair is lost again, and nothing is decided once the run is over
\* (compare.pairs, coverage; the run's status is only a warning there).
ConclusionsStand ==
  [][/\ \A t \in Trials : record[t] \in ResolvedStatuses => record'[t] = record[t]
     /\ main = "ended" => UNCHANGED record]_runVars

\* The three tools agree about a run that the block analysis accepts: every
\* planned trial ended by itself and was removed, every pass of a verified task
\* has its verdict, no task or pair is selected, and the counts of the report,
\* the estimate of the comparison and the blocks' contrasts are of one sample.
AnalyzedIsWhole ==
  Analyzed =>
    /\ \A t \in Trials :
         /\ at[Work(t)] = "ended" /\ ~left[Work(t)] /\ ~left[Check(t)]
         /\ t \in Verified /\ record[t] = "passed" => outcome[Check(t)] = "passed"
    /\ CaseBasis = "complete_pair" /\ ~Differential
    /\ \A kind \in {"missing", "unresolved"}, arms \in SUBSET Arms : Excluded(<<kind, arms>>) = {}
    /\ Reported = Complete
    /\ Contributing = Tasks /\ \A task \in Tasks : Cardinality(Included(task)) = Repeats
    /\ Difference(Complete) = Transitions(Reported, 0, 1) - Transitions(Reported, 1, 0)
    /\ Difference(Complete) = SumFunction([r \in 0..Repeats - 1 |-> Difference(Block(r))])
=============================================================================
