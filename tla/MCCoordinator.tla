--------------------------- MODULE MCCoordinator ---------------------------
(***************************************************************************)
(* The constants of Coordinator's runs: two entries of different cost, a   *)
(* worker that serves both and one that serves only the cheap one, two     *)
(* bundles that do not fit side by side in an owner's artifact quota.      *)
(***************************************************************************)
EXTENDS Coordinator, TLC

CONSTANTS k1, k2, k3, o1, o2, w1, w2, cheap, dear, b1, b2

MCTrials == (cheap :> 1) @@ (dear :> 2)
MCServes == (w1 :> {cheap, dear}) @@ (w2 :> {cheap})
MCServesOne == [w \in {w1} |-> {cheap, dear}]
MCValidFor == (b1 :> {cheap, dear}) @@ (b2 :> {cheap})
MCSize == (b1 :> 1) @@ (b2 :> 2)

(***************************************************************************)
(* States that differ only in columns nothing reads any more are one: the  *)
(* expiry of a job without a lease, the queue position and the handed      *)
(* leases of a settled job, and the last worker of one without evidence.   *)
(***************************************************************************)
MCView ==
  LET Seen(row) ==
        [row EXCEPT !.expires = IF row.state = "leased" THEN @ ELSE 0,
                    !.created = IF Active(row.state) THEN @ ELSE 0,
                    !.worker = IF row.state \in {"failed", "cancelled"} THEN None ELSE @]
  IN  <<clock, active, [j \in Jobs |-> Seen(job[j])], usage,
        {h \in handed : Active(job[h[1]].state) \/ job[h[1]].state = "completed"}>>

MCSymmetry == Permutations(Keys)
=============================================================================
