--------------------------- MODULE MCAgentBudget ----------------------------
(***************************************************************************)
(* Three agent trials on two threads, one of two steps with a retry: a     *)
(* prompt can be larger than its estimate, an output larger than its       *)
(* maximum, and prices have to be rounded up.                              *)
(***************************************************************************)
EXTENDS Replay

MCMaxSteps == [t \in Trials |-> IF t = 1 THEN 2 ELSE 1]
MCMaxAttempts == [t \in Trials |-> IF t = 1 THEN 2 ELSE 1]
MCMaxOutput == [t \in Trials |-> 2]

\* Ceilings that bind in one dimension or another, and one that admit_plan refuses.
MCBudgets ==
  {[d \in Limits |->
      CASE d = "calls" -> 4 [] d = "tool_steps" -> 4 [] d = "attempts" -> a
        [] d = "input" -> i [] d = "output" -> o [] d = "micros" -> m] :
     a \in {4, 6}, i \in {4, 7}, o \in {8, 9}, m \in {8, 14}}
=============================================================================
