-------------------------------- MODULE Plan --------------------------------
(***************************************************************************)
(* The plan of an experiment (plan, evalnoise/config.py): every repetition *)
(* is a block of one batch per profile, every batch has all the tasks.     *)
(*                                                                         *)
(* Abstracted: what the seeded shuffles come to is a constant, and a seed  *)
(* is the repetition it is computed from.  Trials and batches are numbered *)
(* from 1 in the order of the plan.                                        *)
(***************************************************************************)
EXTENDS Integers, FiniteSets

CONSTANTS
  Tasks, Profiles,   \* their ids
  Repeats,
  ProfileOrder,      \* [0..Repeats - 1 -> the shuffled profiles, a sequence]
  TaskOrder          \* [0..Repeats - 1 -> the shuffled tasks, a sequence]

ASSUME PlanAssumption ==
  /\ IsFiniteSet(Tasks) /\ IsFiniteSet(Profiles) /\ Repeats \in Nat \ {0}
  /\ \A r \in 0..Repeats - 1 :
       /\ {ProfileOrder[r][i] : i \in 1..Cardinality(Profiles)} = Profiles
       /\ {TaskOrder[r][i] : i \in 1..Cardinality(Tasks)} = Tasks

PlannedBatches == Repeats * Cardinality(Profiles)

PlannedTrials == 1..PlannedBatches * Cardinality(Tasks)

PlannedBatch == [n \in PlannedTrials |-> ((n - 1) \div Cardinality(Tasks)) + 1]

RepeatOf(n) == (PlannedBatch[n] - 1) \div Cardinality(Profiles)

ProfileOf(n) ==
  ProfileOrder[RepeatOf(n)][((PlannedBatch[n] - 1) % Cardinality(Profiles)) + 1]

\* The order of the tasks is shared within a block.
TaskOf(n) == TaskOrder[RepeatOf(n)][((n - 1) % Cardinality(Tasks)) + 1]

\* The trials' ids tell task, repetition and profile.
Cell ==
  [c \in Tasks \X (0..Repeats - 1) \X Profiles |->
     CHOOSE n \in PlannedTrials : c = <<TaskOf(n), RepeatOf(n), ProfileOf(n)>>]
=============================================================================
