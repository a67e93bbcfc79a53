---------------------------- MODULE JobLifecycle ----------------------------
(***************************************************************************)
(* What the coordinator of evalnoise promises about each job, and nothing  *)
(* about how it keeps the promise: no clock, no quotas, no credentials.    *)
(*                                                                         *)
(* A job is queued, is granted to workers one epoch at a time, and is      *)
(* settled once.  A result is accepted from the holder of the current      *)
(* epoch only, at most one result is ever accepted, and a settled job is   *)
(* never reopened: a completed job may only lose its evidence (purged).    *)
(* Coordinator implements this specification.                              *)
(***************************************************************************)
EXTENDS Integers

CONSTANTS
  Jobs,         \* job identifiers
  Workers,      \* worker principals
  Bundles,      \* result bundles (evidence) a worker can hand in
  MaxEpochs,    \* grants a job may receive
  None          \* no holder, no result

VARIABLES
  phase,        \* [Jobs -> Phases]
  epoch,        \* [Jobs -> Nat]: grants so far
  holder,       \* [Jobs -> Workers \cup {None}]: last worker granted the job
  result        \* [Jobs -> Results]: what was accepted, kept for ever

vars == <<phase, epoch, holder, result>>

Phases == {"absent", "queued", "leased", "completed", "failed", "cancelled", "purged"}

Result(w, e, b) == [worker |-> w, epoch |-> e, bundle |-> b]

NoResult == Result(None, 0, None)

Init ==
  /\ phase = [j \in Jobs |-> "absent"]
  /\ epoch = [j \in Jobs |-> 0]
  /\ holder = [j \in Jobs |-> None]
  /\ result = [j \in Jobs |-> NoResult]

(***************************************************************************)
(* The steps of one job.  Several jobs may step at once: one claim can     *)
(* lapse several leases and refuse several queued jobs.                    *)
(***************************************************************************)
Moves(j, from, to) == phase[j] \in from /\ phase'[j] = to

KeepsGrant(j) == epoch'[j] = epoch[j] /\ holder'[j] = holder[j]

KeepsResult(j) == result'[j] = result[j]

Submit(j) == Moves(j, {"absent"}, "queued") /\ KeepsGrant(j) /\ KeepsResult(j)

\* From "leased": the previous lease lapses and the job is granted again at once.
Grant(j) ==
  /\ Moves(j, {"queued", "leased"}, "leased")
  /\ epoch[j] < MaxEpochs
  /\ epoch'[j] = epoch[j] + 1
  /\ holder'[j] \in Workers
  /\ KeepsResult(j)

Requeue(j) ==
  Moves(j, {"leased"}, "queued") /\ epoch[j] < MaxEpochs /\ KeepsGrant(j) /\ KeepsResult(j)

Accept(j) ==
  /\ Moves(j, {"leased"}, "completed")
  /\ \E b \in Bundles : result'[j] = Result(holder[j], epoch[j], b)
  /\ KeepsGrant(j)

GiveUp(j) ==
  /\ Moves(j, {"queued", "leased"}, "failed") \/ Moves(j, {"queued", "leased"}, "cancelled")
  /\ KeepsGrant(j) /\ KeepsResult(j)

Purge(j) == Moves(j, {"completed"}, "purged") /\ KeepsGrant(j) /\ KeepsResult(j)

Rest(j) == phase'[j] = phase[j] /\ KeepsGrant(j) /\ KeepsResult(j)

JobStep(j) ==
  Submit(j) \/ Grant(j) \/ Requeue(j) \/ Accept(j) \/ GiveUp(j) \/ Purge(j) \/ Rest(j)

Next == \A j \in Jobs : JobStep(j)

Spec == Init /\ [][Next]_vars
=============================================================================
