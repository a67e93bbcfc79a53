-------------------------- MODULE MCClusterWorker --------------------------
(***************************************************************************)
(* The constants of ClusterWorker's runs: a worker started again under its *)
(* credential (i1, then i3), a second worker (i2), and a bundle that is not *)
(* valid for the job.                                                      *)
(***************************************************************************)
EXTENDS ClusterWorker, TLC

CONSTANTS i1, i2, i3, k1, k2, o1, w1, w2, cheap, good, bad

MCTrials == cheap :> 1
MCServes == [w \in Workers |-> {cheap}]
MCBy == (i1 :> w1) @@ (i2 :> w2) @@ (i3 :> w1)
MCByOne == i1 :> w1
MCByRestart == (i1 :> w1) @@ (i3 :> w1)
MCValidFor == (good :> {cheap}) @@ (bad :> {})
MCSize == (good :> 1) @@ (bad :> 1)

(***************************************************************************)
(* Columns nothing reads any more, as in MCCoordinator, and stop once the   *)
(* completion is sent; handed is what the invocations' leases say.         *)
(***************************************************************************)
MCView ==
  LET Seen(row) ==
        [row EXCEPT !.expires = IF row.state = "leased" THEN @ ELSE 0,
                    !.created = 0,
                    !.worker = IF row.state \in {"failed", "cancelled"} THEN None ELSE @]
  IN  <<clock, active, [j \in Jobs |-> Seen(job[j])], usage,
        main, beat, lease, bundle, wire, reply,
        {i \in Invocations : stop[i] /\ main[i] \in {"granted", "executing", "executed"}}>>
=============================================================================
