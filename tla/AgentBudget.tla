---------------------------- MODULE AgentBudget -----------------------------
(***************************************************************************)
(* The agent trials of one run (evalnoise/agent.py) on the ledger they     *)
(* share (evalnoise/budget.py).  The trials run on the threads of the      *)
(* runner's pool; every ledger method holds the ledger's lock, so one      *)
(* method is one action, and a call is in flight between two of them.      *)
(*                                                                         *)
(* Abstracted: messages (a prompt has an estimate and a reported size),    *)
(* the tool container (its trial has an outcome; its life is in            *)
(* EngineCoordination), cached tokens, which are counted and never         *)
(* bounded, and the pool's batches: any trial may begin while a thread is  *)
(* free.  One model is priced.                                             *)
(***************************************************************************)
EXTENDS Integers, FiniteSets, Functions

CONSTANTS
  Trials,                     \* the planned agent trials
  Concurrency,                \* the pool's threads
  MaxSteps, MaxAttempts, MaxOutput,   \* [Trials -> Nat]: the agent block of the trial's task
  Estimates,                  \* what estimate_prompt_tokens may say
  Prompts, Completions,       \* token counts a provider may report
  InputPrice, OutputPrice, TokensPerMtok,
  Budgets                     \* the budget blocks considered

Dims == {"input", "output", "micros", "attempts"}

Limits == Dims \cup {"calls", "tool_steps"}

ASSUME BudgetAssumption ==
  /\ IsFiniteSet(Trials)
  /\ {Concurrency, InputPrice, OutputPrice} \subseteq Nat /\ TokensPerMtok \in Nat \ {0}
  /\ {MaxSteps, MaxAttempts, MaxOutput} \subseteq [Trials -> Nat \ {0}]
  /\ Estimates \cup Prompts \cup Completions \subseteq Nat
  /\ Budgets \subseteq [Limits -> Nat]

VARIABLES
  budget,       \* the declared ceilings
  calls, steps, outstanding,  \* counters of the ledger
  committed,    \* [Dims -> Int]: reserved or observed
  observed,     \* [Dims -> Nat]: reported by settled calls
  refused,      \* limits the ledger refused at
  errors,       \* accounting errors; own: the call itself used more than it reserved
  at,           \* [Trials -> where the agent loop is]
  index,        \* [Trials -> Nat]: the loop's step
  reservation,  \* [Trials -> [Dims -> Nat]]: held by the call in flight
  ending,       \* [Trials -> [status, reason]]: what finish recorded
  stop          \* the run's stop event

ledgerVars == <<calls, steps, outstanding, committed, observed, refused, errors>>

loopVars == <<at, index, reservation, ending>>

budgetVars == <<budget, ledgerVars, loopVars, stop>>

-----------------------------------------------------------------------------
(* Prices and the plan.                                                    *)

\* cost_micros: ceiling division.
Cost(tokens, price) == -((-(tokens * price)) \div TokensPerMtok)

\* What a call of so many tokens and attempts costs in every dimension.
Amounts(input, output, attempts) ==
  [d \in Dims |->
     CASE d = "input"    -> input
       [] d = "output"   -> output
       [] d = "micros"   -> Cost(input, InputPrice) + Cost(output, OutputPrice)
       [] d = "attempts" -> attempts]

Nothing == [d \in Dims |-> 0]

Planned(f) == SumFunctionOnSet(f, Trials)

\* Mutant of Admitted: retries are forgotten.
AdmittedWithoutRetries(b) ==
  /\ Planned(MaxSteps) <= b["calls"] /\ Planned(MaxSteps) <= b["tool_steps"]
  /\ Planned(MaxSteps) <= b["attempts"]
  /\ Planned([t \in Trials |-> MaxSteps[t] * MaxOutput[t]]) <= b["output"]

\* admit_plan: a plan it refuses raises before anything of the run exists.
Admitted(b) ==
  /\ Planned(MaxSteps) <= b["calls"] /\ Planned(MaxSteps) <= b["tool_steps"]
  /\ Planned([t \in Trials |-> MaxSteps[t] * MaxAttempts[t]]) <= b["attempts"]
  /\ Planned([t \in Trials |-> MaxSteps[t] * MaxOutput[t]]) <= b["output"]
  /\ \A t \in Trials : Cost(1, InputPrice) + Cost(MaxOutput[t], OutputPrice) <= b["micros"]

Statuses ==
  {"agent_incomplete", "pending_verification", "agent_error", "budget_exhausted",
   "step_limit_reached", "cancelled", "runner_error"}

Reasons ==
  {"none", "final_answer", "unusable_turn", "provider_error", "provider_attempts_exhausted",
   "tool_failed", "budget_refused_before_provider_call", "budget_refused_before_tool_container",
   "usage_overran_reservation", "step_limit", "cancelled", "raised"}

Ending(s, r) == [status |-> s, reason |-> r]

Running(t) == at[t] \notin {"waiting", "ended"}

BudgetInit ==
  /\ budget \in {b \in Budgets : Admitted(b)}
  /\ calls = 0 /\ steps = 0 /\ outstanding = 0
  /\ committed = Nothing /\ observed = Nothing
  /\ refused = {} /\ errors = {}
  /\ at = [t \in Trials |-> "waiting"]
  /\ index = [t \in Trials |-> 0]
  /\ reservation = [t \in Trials |-> Nothing]
  /\ ending = [t \in Trials |-> Ending("agent_incomplete", "none")]
  /\ stop = FALSE

-----------------------------------------------------------------------------
(* Ledger.                                                                 *)

\* Mutant of Worst: the cost is rounded up once, for the whole call.
WorstRoundedOnce(t, e) ==
  [Amounts(e, MaxOutput[t], MaxAttempts[t]) EXCEPT
     !["micros"] = -((-(e * InputPrice + MaxOutput[t] * OutputPrice)) \div TokensPerMtok)]

\* The worst case, held until the call settles.
Worst(t, e) == Amounts(e, MaxOutput[t], MaxAttempts[t])

\* Mutant of Exceeded: the ceilings are compared with what was observed.
ExceededByObserved(t, e) ==
  {d \in Dims : observed[d] + Worst(t, e)[d] > budget[d]}
    \cup IF calls + 1 > budget["calls"] THEN {"calls"} ELSE {}

\* The limits a further call would break; the refusal reports the first.
Exceeded(t, e) ==
  {d \in Dims : committed[d] + Worst(t, e)[d] > budget[d]}
    \cup IF calls + 1 > budget["calls"] THEN {"calls"} ELSE {}

Reserve(t, e) ==
  /\ calls' = calls + 1
  /\ outstanding' = outstanding + 1
  /\ committed' = [d \in Dims |-> committed[d] + Worst(t, e)[d]]
  /\ reservation' = [reservation EXCEPT ![t] = Worst(t, e)]
  /\ UNCHANGED <<steps, observed, refused, errors>>

\* Mutant of Replaced: a failed call keeps its reservation.
ReplacedIfUsed(t, used) ==
  [d \in Dims |-> IF used["output"] = 0 THEN committed[d]
                                        ELSE committed[d] + used[d] - reservation[t][d]]

\* The commitments once what was observed replaces the reservation.
Replaced(t, used) == [d \in Dims |-> committed[d] + used[d] - reservation[t][d]]

Overran(t, used) == \E d \in Dims : used[d] > reservation[t][d]

\* An overrun, or a ceiling passed, whoever passed it.
Erroneous(t, used) == Overran(t, used) \/ \E d \in Dims : Replaced(t, used)[d] > budget[d]

\* _settle: a call without usage has used its attempts and nothing else.
Settle(t, used) ==
  /\ outstanding' = outstanding - 1
  /\ committed' = Replaced(t, used)
  /\ observed' = [d \in Dims |-> observed[d] + used[d]]
  /\ errors' = IF Erroneous(t, used)
               THEN errors \cup {[trial |-> t, step |-> index[t], own |-> Overran(t, used)]}
               ELSE errors
  /\ reservation' = [reservation EXCEPT ![t] = Nothing]
  /\ UNCHANGED <<calls, steps, refused>>

-----------------------------------------------------------------------------
(* run_agent.                                                              *)

Goes(t, from, to) == at[t] = from /\ at' = [at EXCEPT ![t] = to]

\* finish, from wherever the loop is.
Finish(t, e) ==
  /\ at' = [at EXCEPT ![t] = "ended"]
  /\ ending' = [ending EXCEPT ![t] = e]

Begin(t) ==
  /\ Cardinality({u \in Trials : Running(u)}) < Concurrency
  /\ Goes(t, "waiting", "ready")
  /\ index' = [index EXCEPT ![t] = 1]
  /\ UNCHANGED <<budget, ledgerVars, reservation, ending, stop>>

ObserveStop(t) ==
  /\ at[t] = "ready" /\ stop
  /\ Finish(t, Ending("cancelled", "cancelled"))
  /\ UNCHANGED <<budget, ledgerVars, index, reservation, stop>>

\* A stop that comes after the check is seen one step later.
ObserveNoStop(t) ==
  /\ ~stop
  /\ Goes(t, "ready", "asking")
  /\ UNCHANGED <<budget, ledgerVars, index, reservation, ending, stop>>

AdmitCall(t, e) ==
  /\ Exceeded(t, e) = {}
  /\ Goes(t, "asking", "calling")
  /\ Reserve(t, e)
  /\ UNCHANGED <<budget, index, ending, stop>>

RefuseCall(t, e) ==
  /\ at[t] = "asking"
  /\ Exceeded(t, e) # {}
  /\ refused' = refused \cup Exceeded(t, e)
  /\ Finish(t, Ending("budget_exhausted", "budget_refused_before_provider_call"))
  /\ UNCHANGED <<budget, calls, steps, outstanding, committed, observed, errors,
                 index, reservation, stop>>

\* Mutant of SettlementOutcome: only the call's own overrun counts.
OutcomeOfOwnOverrun(t, used, e) ==
  IF Overran(t, used) THEN Ending("budget_exhausted", "usage_overran_reservation") ELSE e

\* An accounting error outranks the reason the call ended.
SettlementOutcome(t, used, e) ==
  IF Erroneous(t, used) THEN Ending("budget_exhausted", "usage_overran_reservation") ELSE e

\* ProviderExhausted with its failed attempts, or ProviderError with none.
CallFails(t, attempts) ==
  /\ at[t] = "calling"
  /\ Settle(t, Amounts(0, 0, attempts))
  /\ Finish(t, SettlementOutcome(t, Amounts(0, 0, attempts),
       Ending("agent_error",
              IF attempts = 0 THEN "provider_error" ELSE "provider_attempts_exhausted")))
  /\ UNCHANGED <<budget, index, stop>>

\* Usage was reported: the loop ends with an accounting error, an unusable
\* turn or a final answer, or a valid tool call goes on.
CallReturns(t, input, output, attempts) ==
  LET used == Amounts(input, output, attempts)
  IN
  /\ at[t] = "calling"
  /\ Settle(t, used)
  /\ \/ \E e \in {Ending("pending_verification", "final_answer"),
                  Ending("agent_error", "unusable_turn")} :
          Finish(t, SettlementOutcome(t, used, e))
     \/ ~Erroneous(t, used) /\ Goes(t, "calling", "acting") /\ UNCHANGED ending
  /\ UNCHANGED <<budget, index, stop>>

\* The tool container is admitted or refused.
AskStep(t) ==
  /\ at[t] = "acting"
  /\ IF steps + 1 <= budget["tool_steps"]
     THEN /\ Goes(t, "acting", "tooling")
          /\ steps' = steps + 1
          /\ UNCHANGED <<refused, ending>>
     ELSE /\ Finish(t, Ending("budget_exhausted", "budget_refused_before_tool_container"))
          /\ refused' = refused \cup {"tool_steps"}
          /\ UNCHANGED steps
  /\ UNCHANGED <<budget, calls, outstanding, committed, observed, errors,
                 index, reservation, stop>>

LastStep(t) == index[t] = MaxSteps[t]

\* The observation joins the messages of the next step, if there is one.
ToolAnswers(t) ==
  /\ at[t] = "tooling"
  /\ IF LastStep(t)
     THEN Finish(t, Ending("step_limit_reached", "step_limit")) /\ UNCHANGED index
     ELSE /\ Goes(t, "tooling", "ready")
          /\ index' = [index EXCEPT ![t] = @ + 1]
          /\ UNCHANGED ending
  /\ UNCHANGED <<budget, ledgerVars, reservation, stop>>

\* Cancelled, failed, not cleaned up, unreadable; or the tool's trial raised.
ToolFails(t) ==
  /\ at[t] = "tooling"
  /\ \E e \in {Ending("agent_error", "tool_failed"), Ending("runner_error", "raised")}
               \cup IF stop THEN {Ending("cancelled", "cancelled")} ELSE {} :
       Finish(t, e)
  /\ UNCHANGED <<budget, ledgerVars, index, reservation, stop>>

Interrupt == stop' = TRUE /\ UNCHANGED <<budget, ledgerVars, loopVars>>

-----------------------------------------------------------------------------
AgentStep(t) ==
  \/ Begin(t) \/ ObserveStop(t) \/ ObserveNoStop(t)
  \/ \E e \in Estimates : AdmitCall(t, e) \/ RefuseCall(t, e)
  \/ \E a \in 0..MaxAttempts[t] : CallFails(t, a)
  \/ \E i \in Prompts, o \in Completions, a \in 1..MaxAttempts[t] : CallReturns(t, i, o, a)
  \/ AskStep(t) \/ ToolAnswers(t) \/ ToolFails(t)

BudgetNext == (\E t \in Trials : AgentStep(t)) \/ Interrupt

BudgetSpec == BudgetInit /\ [][BudgetNext]_budgetVars

-----------------------------------------------------------------------------
(* Properties.                                                             *)

\* Counters, loop positions and reservations are of their kind, the loop stays
\* within max_steps and no more calls are in flight than there are trials.
BudgetTypeOK ==
  /\ budget \in Budgets
  /\ calls \in Nat /\ steps \in Nat /\ outstanding \in 0..Cardinality(Trials)
  /\ committed \in [Dims -> Int] /\ observed \in [Dims -> Nat]
  /\ refused \subseteq Limits
  /\ errors \subseteq [trial : Trials, step : Nat, own : BOOLEAN]
  /\ at \in [Trials -> {"waiting", "ready", "asking", "calling", "acting", "tooling", "ended"}]
  /\ index \in [Trials -> Nat] /\ \A t \in Trials : index[t] <= MaxSteps[t]
  /\ reservation \in [Trials -> [Dims -> Nat]]
  /\ ending \in [Trials -> [status : Statuses, reason : Reasons]]
  /\ stop \in BOOLEAN

\* The commitments are exactly the reservations of the calls in flight plus
\* what settled calls reported: nothing leaks on any path, so with no call
\* outstanding they are the observed totals (the reconciliation data() states).
CommittedReconciles ==
  /\ outstanding = Cardinality({t \in Trials : at[t] = "calling"})
  /\ \A d \in Dims :
       committed[d] =
         observed[d] + SumFunctionOnSet([t \in Trials |-> reservation[t][d]], Trials)

\* A ceiling is passed, or any accounting error recorded, only if some call
\* reported more than it had reserved, however many trials admit at once.
BreachedByOverrunOnly ==
  (\A x \in errors : ~x.own) =>
    errors = {} /\ calls <= budget["calls"] /\ \A d \in Dims : committed[d] <= budget[d]

\* A call whose tokens stay within its reservation never costs more than was
\* reserved, however prices are rounded (ceiling division at both ends).
RoundingNeverOverruns ==
  \A t \in Trials :
    at[t] = "calling" =>
      \A i \in Prompts, o \in Completions, a \in 0..MaxAttempts[t] :
        i <= reservation[t]["input"] /\ o <= reservation[t]["output"] =>
          ~Overran(t, Amounts(i, o, a))

\* A plan admit_plan accepted is never refused a call, an attempt or a tool
\* container, and output tokens only once a call overran its reservation.
AdmittedPlanSuffices ==
  /\ refused \cap {"calls", "attempts", "tool_steps"} = {}
  /\ "output" \in refused => errors # {}

\* The trial's status and the ledger agree about accounting errors on every
\* settlement path, and a trial with one never goes on (_settlement_outcome).
StatusAgreesWithLedger ==
  \A t \in Trials :
    (\E x \in errors : x.trial = t) <=>
      ending[t] = Ending("budget_exhausted", "usage_overran_reservation")

\* docs/validation.md:149 and the note in the record: after usage above its
\* reservation "the run stops spending".  Refuted: only that trial stops.
RunStopsSpending == [][errors # {} => calls' = calls]_budgetVars
=============================================================================
