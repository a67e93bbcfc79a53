---------------------------- MODULE RunContract -----------------------------
(***************************************************************************)
(* What a run of evalnoise promises of its records, and nothing about      *)
(* threads, containers or docker: the batch barrier and the halt after a   *)
(* failed cleanup (docs/architecture.md, ADR 007 and ADR 008).             *)
(*                                                                         *)
(* The batches are worked through one after the other.  Within a batch     *)
(* every trial is recorded before the first provisional success is         *)
(* decided, and these are decided in the order of the plan; a decided      *)
(* trial stays as it is.  A removal that failed stops everything but what  *)
(* is left of the workloads of its batch.  RunBatches implements this      *)
(* specification.                                                          *)
(***************************************************************************)
EXTENDS Integers

CONSTANTS
  Trials,    \* the planned trials, numbers in the order of the plan
  Batches,   \* the number of batches
  BatchOf,   \* [Trials -> 1..Batches]
  Verified   \* the trials whose success is provisional

VARIABLES
  fate,      \* [Trials -> Fates]: what is on record
  current,   \* the batch that is worked on
  unclean,   \* the trials that are recorded to have left a container
  verdict    \* what the manifest says of the run

vars == <<fate, current, unclean, verdict>>

Fates == {"open", "provisional", "cancelled", "decided"}

Endings == {"completed", "cancelled", "cleanup_failed", "interrupted"}

Init ==
  /\ fate = [t \in Trials |-> "open"]
  /\ current = 1
  /\ unclean = {}
  /\ verdict = "running"

Batch == {t \in Trials : BatchOf[t] = current}

Becomes(t, f) ==
  /\ fate' = [fate EXCEPT ![t] = f]
  /\ unclean' \in {unclean, unclean \cup {t}}
  /\ UNCHANGED <<current, verdict>>

Record(t) ==
  /\ verdict = "running"
  /\ t \in Batch /\ fate[t] = "open"
  /\ \E f \in Fates \ {"open"} : Becomes(t, f) /\ (f = "provisional" => t \in Verified)

Decide(t) ==
  /\ verdict = "running" /\ unclean = {}
  /\ t \in Batch /\ fate[t] = "provisional"
  /\ \A u \in Batch : fate[u] # "open" /\ (u < t => fate[u] # "provisional")
  /\ \E f \in {"cancelled", "decided"} : Becomes(t, f)

Advance ==
  /\ verdict = "running" /\ unclean = {}
  /\ current <= Batches
  /\ \A t \in Batch : fate[t] \in {"cancelled", "decided"}
  /\ current' = current + 1
  /\ UNCHANGED <<fate, unclean, verdict>>

\* A run is completed if the plan is, every trial is decided and nothing was
\* left; it is broken off, but for a cancellation, only within a batch.
Finish(e) ==
  /\ verdict = "running"
  /\ e = "completed" =>
       current = Batches + 1 /\ unclean = {} /\ \A t \in Trials : fate[t] = "decided"
  /\ e = "cleanup_failed" => unclean # {}
  /\ e \in {"cleanup_failed", "interrupted"} => current <= Batches
  /\ verdict' = e
  /\ UNCHANGED <<fate, current, unclean>>

Next ==
  \/ Advance
  \/ \E t \in Trials : Record(t) \/ Decide(t)
  \/ \E e \in Endings : Finish(e)

Spec == Init /\ [][Next]_vars
=============================================================================
