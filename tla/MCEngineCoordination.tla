------------------------ MODULE MCEngineCoordination ------------------------
(***************************************************************************)
(* The constants of EngineCoordination's runs: two runs with a container   *)
(* each, and a cleanup of the first.                                       *)
(***************************************************************************)
EXTENDS EngineCoordination, TLC

CONSTANTS r1, r2, c1, n1, m1

MCTarget == c1 :> r1
MCRunOf == (n1 :> r1) @@ (m1 :> r2)

(***************************************************************************)
(* What nothing reads any more is left out: the status once it is written, *)
(* starts of containers that run no more, and generations that no survey   *)
(* has seen, of which there is only the difference to the one it has.      *)
(***************************************************************************)
MCView ==
  LET Entries(n) == {x \in UNION {survey[c] \cup ordered[c] : c \in Cleanups} : x.name = n}
      Seen(n) == [container[n] EXCEPT !.gen = {@ - x.gen : x \in Entries(n)}]
      Zeroed(entries) == {[x EXCEPT !.gen = 0] : x \in entries}
  IN  <<flock, phase, [r \in Runs |-> IF phase[r] = "done" THEN None ELSE status[r]],
        manifest, trial, issued, [n \in Names |-> Seen(n)], replaced,
        {n \in started : Running(n)}, cleaning,
        [c \in Cleanups |-> Zeroed(survey[c])], [c \in Cleanups |-> Zeroed(ordered[c])]>>
=============================================================================
