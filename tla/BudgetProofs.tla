---------------------------- MODULE BudgetProofs ----------------------------
(***************************************************************************)
(* Proofs about AgentBudget and Replay.  The induction is BudgetInv:       *)
(* besides the three invariants it establishes, it says what a call in     *)
(* flight holds (the worst case of some estimate) and that only ended      *)
(* trials have an ending.  Two lemmas on ceiling division carry the        *)
(* prices.  What is summed over trials has two more inductions on it:      *)
(* Reconciled, and WithinPlan, in which every counter stays below what the *)
(* loops have had the occasion to ask for.                                 *)
(***************************************************************************)
EXTENDS Replay, SumTheorems

-----------------------------------------------------------------------------
(* Prices.                                                                 *)

\* Division by a positive number is monotone.
LEMMA DivMonotone ==
  ASSUME NEW a \in Int, NEW b \in Int, NEW d \in Nat \ {0}, a <= b
  PROVE  a \div d <= b \div d
  OBVIOUS

\* Multiplication by a natural number is monotone.
LEMMA TimesMonotone ==
  ASSUME NEW a \in Nat, NEW b \in Nat, NEW d \in Nat, a <= b
  PROVE  a * d <= b * d
  OBVIOUS

\* Products of natural numbers are natural numbers.
LEMMA TimesNat == ASSUME NEW a \in Nat, NEW b \in Nat PROVE a * b \in Nat
  OBVIOUS

\* Ceiling division, as cost_micros writes it, is monotone.
LEMMA CeilingMonotone ==
  ASSUME NEW x \in Nat, NEW y \in Nat, NEW d \in Nat \ {0}, x <= y
  PROVE  -((-x) \div d) <= -((-y) \div d)
<1>1. -x \in Int /\ -y \in Int /\ -y <= -x
  OBVIOUS
<1>2. (-y) \div d <= (-x) \div d
  BY <1>1, DivMonotone
<1>3. (-y) \div d \in Int /\ (-x) \div d \in Int
  BY <1>1
<1>4. QED
  BY <1>2, <1>3

\* The ceiling of a natural number over a positive one is a natural number.
LEMMA CeilingNat ==
  ASSUME NEW x \in Nat, NEW d \in Nat \ {0}
  PROVE  -((-x) \div d) \in Nat
<1>1. (-x) \div d <= 0 /\ (-x) \div d \in Int
  OBVIOUS
<1>2. QED
  BY <1>1

\* More tokens never cost less, although every cost is rounded up (cost_micros).
LEMMA CostMonotone ==
  ASSUME NEW a \in Nat, NEW b \in Nat, NEW p \in Nat, a <= b
  PROVE  Cost(a, p) <= Cost(b, p)
<1>1. a * p <= b * p
  BY TimesMonotone
<1>2. a * p \in Nat /\ b * p \in Nat
  BY TimesNat
<1>3. TokensPerMtok \in Nat \ {0}
  BY BudgetAssumption
<1>4. QED
  BY <1>1, <1>2, <1>3, CeilingMonotone DEF Cost

\* cost_micros of natural numbers is a natural number.
LEMMA CostNat ==
  ASSUME NEW a \in Nat, NEW p \in Nat
  PROVE  Cost(a, p) \in Nat
<1>1. a * p \in Nat
  BY TimesNat
<1>2. TokensPerMtok \in Nat \ {0}
  BY BudgetAssumption
<1>3. QED
  BY <1>1, <1>2, CeilingNat DEF Cost

\* What a call costs is a natural number in every dimension.
LEMMA AmountsTyped ==
  ASSUME NEW i \in Nat, NEW o \in Nat, NEW a \in Nat
  PROVE  Amounts(i, o, a) \in [Dims -> Nat]
<1>1. InputPrice \in Nat /\ OutputPrice \in Nat
  BY BudgetAssumption
<1>2. Cost(i, InputPrice) + Cost(o, OutputPrice) \in Nat
  BY <1>1, CostNat
<1>3. QED
  BY <1>2 DEF Amounts, Dims

\* A call within the tokens and attempts of its reservation is within all of it.
LEMMA AmountsMonotone ==
  ASSUME NEW i \in Nat, NEW o \in Nat, NEW a \in Nat,
         NEW e \in Nat, NEW m \in Nat, NEW n \in Nat,
         i <= e, o <= m, a <= n
  PROVE  \A d \in Dims : Amounts(i, o, a)[d] <= Amounts(e, m, n)[d]
<1>1. InputPrice \in Nat /\ OutputPrice \in Nat
  BY BudgetAssumption
<1>2. /\ Cost(i, InputPrice) <= Cost(e, InputPrice)
      /\ Cost(o, OutputPrice) <= Cost(m, OutputPrice)
  BY <1>1, CostMonotone
<1>3. /\ Cost(i, InputPrice) \in Nat /\ Cost(e, InputPrice) \in Nat
      /\ Cost(o, OutputPrice) \in Nat /\ Cost(m, OutputPrice) \in Nat
  BY <1>1, CostNat
<1>4. QED
  BY <1>2, <1>3 DEF Amounts, Dims

\* The bounds of one trial are positive.
LEMMA TrialTyped ==
  ASSUME NEW t \in Trials
  PROVE  MaxSteps[t] \in Nat \ {0} /\ MaxAttempts[t] \in Nat \ {0} /\ MaxOutput[t] \in Nat \ {0}
  BY BudgetAssumption

\* A reservation is a natural number in every dimension.
LEMMA WorstTyped ==
  ASSUME NEW t \in Trials, NEW e \in Estimates
  PROVE  Worst(t, e) \in [Dims -> Nat]
<1>1. e \in Nat
  BY BudgetAssumption
<1>2. QED
  BY <1>1, TrialTyped, AmountsTyped DEF Worst

-----------------------------------------------------------------------------
(* The inductive invariant.                                                *)

InFlight == {t \in Trials : at[t] = "calling"}

HoldsWorst ==
  \A t \in Trials : at[t] = "calling" => \E e \in Estimates : reservation[t] = Worst(t, e)

Fields ==
  /\ budget \in Budgets
  /\ calls \in Nat /\ steps \in Nat
  /\ committed \in [Dims -> Int] /\ observed \in [Dims -> Nat]
  /\ refused \subseteq Limits
  /\ errors \subseteq [trial : Trials, step : Nat, own : BOOLEAN]
  /\ at \in [Trials -> {"waiting", "ready", "asking", "calling", "acting", "tooling", "ended"}]
  /\ index \in [Trials -> Nat] /\ \A t \in Trials : index[t] <= MaxSteps[t]
  /\ reservation \in [Trials -> [Dims -> Nat]]
  /\ ending \in [Trials -> [status : Statuses, reason : Reasons]]
  /\ stop \in BOOLEAN

EndingsFinal ==
  \A t \in Trials : at[t] # "ended" => ending[t] = Ending("agent_incomplete", "none")

BudgetInv ==
  /\ Fields
  /\ outstanding = Cardinality(InFlight)
  /\ HoldsWorst
  /\ BreachedByOverrunOnly
  /\ EndingsFinal
  /\ StatusAgreesWithLedger

\* A budget has a natural number for every limit.
LEMMA BudgetTyped == ASSUME NEW b \in Budgets PROVE b \in [Limits -> Nat] /\ Dims \subseteq Limits
  BY BudgetAssumption DEF Limits, Dims

\* The calls in flight can be counted, and are no more than the trials.
LEMMA InFlightFinite == IsFiniteSet(InFlight) /\ Cardinality(InFlight) \in 0..Cardinality(Trials)
<1>1. InFlight \subseteq Trials /\ IsFiniteSet(Trials)
  BY BudgetAssumption DEF InFlight
<1>2. QED
  BY <1>1, FS_Subset, FS_CardinalityType

\* The inductive invariant implies the type invariant.
LEMMA InvTypeOK == BudgetInv => BudgetTypeOK
  BY InFlightFinite DEF BudgetInv, Fields, BudgetTypeOK

\* A fresh ledger and waiting trials satisfy the inductive invariant.
LEMMA BudgetInitInv == BudgetInit => BudgetInv
<1> SUFFICES ASSUME BudgetInit PROVE BudgetInv
  OBVIOUS
<1> USE DEF BudgetInit
<1>1. Fields
  <2>1. Nothing \in [Dims -> Nat] /\ Nothing \in [Dims -> Int]
    BY DEF Nothing
  <2>2. \A t \in Trials : MaxSteps[t] \in Nat
    BY TrialTyped
  <2>3. committed \in [Dims -> Int] /\ observed \in [Dims -> Nat]
    BY <2>1
  <2>4. reservation \in [Trials -> [Dims -> Nat]]
    BY <2>1
  <2>5. index \in [Trials -> Nat] /\ \A t \in Trials : index[t] <= MaxSteps[t]
    BY <2>2
  <2>6. ending \in [Trials -> [status : Statuses, reason : Reasons]]
    BY DEF Ending, Statuses, Reasons
  <2>7. QED
    BY <2>3, <2>4, <2>5, <2>6 DEF Fields
<1>2. InFlight = {}
  BY DEF InFlight
<1>3. outstanding = Cardinality(InFlight)
  BY <1>2, FS_EmptySet
<1>4. BreachedByOverrunOnly
  BY BudgetTyped DEF BreachedByOverrunOnly, Nothing, Limits
<1>5. HoldsWorst /\ EndingsFinal /\ StatusAgreesWithLedger
  BY DEF HoldsWorst, EndingsFinal, StatusAgreesWithLedger, Ending
<1>6. QED
  BY <1>1, <1>3, <1>4, <1>5 DEF BudgetInv

-----------------------------------------------------------------------------
(* The ledger's steps.                                                     *)

\* Ledger.admit_call: a reservation that was within every ceiling keeps the ledger sound.
LEMMA ReserveSound ==
  ASSUME BudgetInv, budget' = budget, NEW t \in Trials, NEW e \in Estimates,
         at[t] # "calling", at' = [at EXCEPT ![t] = "calling"],
         Exceeded(t, e) = {}, Reserve(t, e)
  PROVE  /\ calls' \in Nat /\ steps' \in Nat
         /\ committed' \in [Dims -> Int] /\ reservation' \in [Trials -> [Dims -> Nat]]
         /\ outstanding' = Cardinality(InFlight)'
         /\ HoldsWorst'
         /\ BreachedByOverrunOnly'
<1> USE DEF BudgetInv, Fields, Reserve
<1>1. Worst(t, e) \in [Dims -> Nat]
  BY WorstTyped
<1>2. /\ calls' \in Nat /\ steps' \in Nat
      /\ committed' \in [Dims -> Int] /\ reservation' \in [Trials -> [Dims -> Nat]]
  BY <1>1
<1>3. outstanding' = Cardinality(InFlight)'
  <2>1. InFlight' = InFlight \cup {t} /\ t \notin InFlight
    BY DEF InFlight
  <2>2. QED
    BY <2>1, InFlightFinite, FS_AddElement
<1>4. HoldsWorst'
  BY <1>1 DEF HoldsWorst, Worst
<1>5. BreachedByOverrunOnly'
  <2>1. \A d \in Dims : committed[d] + Worst(t, e)[d] <= budget[d]
    BY <1>1, BudgetTyped DEF Exceeded
  <2>2. calls + 1 <= budget["calls"]
    BY BudgetTyped DEF Exceeded, Limits
  <2>3. QED
    BY <2>1, <2>2 DEF BreachedByOverrunOnly
<1>6. QED
  BY <1>2, <1>3, <1>4, <1>5

\* The heart of the invariant: a call within its reservation frees commitments,
\* so it can neither pass a ceiling nor find one passed.
LEMMA SettleSound ==
  ASSUME BudgetInv, budget' = budget, index' = index, NEW t \in Trials,
         NEW used \in [Dims -> Nat], NEW to \in {"acting", "ended"},
         at[t] = "calling", at' = [at EXCEPT ![t] = to], Settle(t, used)
  PROVE  /\ calls' \in Nat /\ steps' \in Nat
         /\ committed' \in [Dims -> Int] /\ observed' \in [Dims -> Nat]
         /\ errors' \subseteq [trial : Trials, step : Nat, own : BOOLEAN]
         /\ reservation' \in [Trials -> [Dims -> Nat]]
         /\ outstanding' = Cardinality(InFlight)'
         /\ HoldsWorst'
         /\ BreachedByOverrunOnly'
<1> USE DEF BudgetInv, Fields, Settle
<1>1. Replaced(t, used) \in [Dims -> Int]
  BY DEF Replaced
<1>2. Overran(t, used) \in BOOLEAN
  BY DEF Overran
<1>3. /\ calls' \in Nat /\ steps' \in Nat
      /\ committed' \in [Dims -> Int] /\ observed' \in [Dims -> Nat]
  BY <1>1
<1>4. errors' \subseteq [trial : Trials, step : Nat, own : BOOLEAN]
  BY <1>2
<1>5. reservation' \in [Trials -> [Dims -> Nat]]
  BY DEF Nothing
<1>6. outstanding' = Cardinality(InFlight)'
  <2>1. InFlight' = InFlight \ {t} /\ t \in InFlight
    BY DEF InFlight
  <2>2. QED
    BY <2>1, InFlightFinite, FS_RemoveElement
<1>7. HoldsWorst'
  BY DEF HoldsWorst, Worst
<1>8. BreachedByOverrunOnly'
  <2> SUFFICES ASSUME \A x \in errors' : ~x.own
               PROVE  /\ errors' = {} /\ calls' <= budget["calls"]
                      /\ \A d \in Dims : committed'[d] <= budget[d]
    BY DEF BreachedByOverrunOnly
  <2>1. errors = {} /\ calls <= budget["calls"] /\ \A d \in Dims : committed[d] <= budget[d]
    BY DEF BreachedByOverrunOnly
  <2>2. ~Overran(t, used)
    <3> DEFINE record == [trial |-> t, step |-> index[t], own |-> Overran(t, used)]
    <3>1. CASE Erroneous(t, used)
      <4>1. record \in errors'
        BY <3>1
      <4>2. ~record.own
        BY <4>1
      <4>3. QED
        BY <4>2
    <3>2. CASE ~Erroneous(t, used)
      BY <3>2 DEF Erroneous
    <3>3. QED
      BY <3>1, <3>2
  <2>3. \A d \in Dims : used[d] <= reservation[t][d]
    BY <2>2 DEF Overran
  <2>4. \A d \in Dims : Replaced(t, used)[d] <= budget[d]
    BY <2>1, <2>3, BudgetTyped DEF Replaced
  <2>5. ~Erroneous(t, used)
    BY <2>2, <2>4, <1>1, BudgetTyped DEF Erroneous
  <2>6. QED
    BY <2>1, <2>4, <2>5
<1>9. QED
  BY <1>3, <1>4, <1>5, <1>6, <1>7, <1>8

\* Whatever the trial ends with after a settlement, its status says so.
LEMMA SettlementAgrees ==
  ASSUME BudgetInv, NEW t \in Trials, NEW used \in [Dims -> Nat], NEW e,
         at[t] = "calling", Settle(t, used), index' = index,
         e # Ending("budget_exhausted", "usage_overran_reservation"),
         Finish(t, SettlementOutcome(t, used, e))
  PROVE  StatusAgreesWithLedger' /\ EndingsFinal'
<1> USE DEF BudgetInv, Fields, Settle, Finish
<1>1. EndingsFinal'
  BY DEF EndingsFinal
<1>2. ~\E x \in errors : x.trial = t
  <2>1. ending[t] = Ending("agent_incomplete", "none")
    BY DEF EndingsFinal
  <2>2. ending[t] # Ending("budget_exhausted", "usage_overran_reservation")
    BY <2>1 DEF Ending
  <2>3. QED
    BY <2>2 DEF StatusAgreesWithLedger
<1>3. ASSUME NEW u \in Trials
      PROVE  (\E x \in errors' : x.trial = u) <=>
                ending'[u] = Ending("budget_exhausted", "usage_overran_reservation")
  <2>1. CASE u = t
    <3>1. ending'[t] = SettlementOutcome(t, used, e)
      OBVIOUS
    <3>2. CASE Erroneous(t, used)
      <4>1. [trial |-> t, step |-> index[t], own |-> Overran(t, used)] \in errors'
        BY <3>2
      <4>2. \E x \in errors' : x.trial = t
        BY <4>1
      <4>3. QED
        BY <2>1, <3>1, <3>2, <4>2 DEF SettlementOutcome
    <3>3. CASE ~Erroneous(t, used)
      BY <2>1, <3>1, <3>3, <1>2 DEF SettlementOutcome
    <3>4. QED
      BY <3>2, <3>3
  <2>2. CASE u # t
    BY <2>2 DEF StatusAgreesWithLedger
  <2>3. QED
    BY <2>1, <2>2
<1>4. QED
  BY <1>1, <1>3 DEF StatusAgreesWithLedger

-----------------------------------------------------------------------------
(* Every step.                                                             *)

\* Steps that leave the counters, the commitments and the calls in flight alone.
LEMMA QuietSound ==
  ASSUME BudgetInv,
         UNCHANGED <<budget, calls, outstanding, committed, errors, reservation>>,
         \A t \in Trials : at'[t] = "calling" <=> at[t] = "calling"
  PROVE  /\ outstanding' = Cardinality(InFlight)'
         /\ HoldsWorst'
         /\ BreachedByOverrunOnly'
<1> USE DEF BudgetInv
<1>1. InFlight' = InFlight
  BY DEF InFlight
<1>2. HoldsWorst'
  BY DEF HoldsWorst, Worst
<1>3. BreachedByOverrunOnly'
  BY DEF BreachedByOverrunOnly
<1>4. QED
  BY <1>1, <1>2, <1>3

\* An ending that is not about accounting keeps status and ledger in agreement.
LEMMA FinishSound ==
  ASSUME BudgetInv, NEW t \in Trials, NEW e \in [status : Statuses, reason : Reasons],
         at[t] \notin {"ended"}, e # Ending("budget_exhausted", "usage_overran_reservation"),
         errors' = errors, Finish(t, e)
  PROVE  /\ StatusAgreesWithLedger' /\ EndingsFinal'
         /\ at' \in [Trials -> {"waiting", "ready", "asking", "calling", "acting", "tooling", "ended"}]
         /\ ending' \in [Trials -> [status : Statuses, reason : Reasons]]
<1> USE DEF BudgetInv, Fields, Finish
<1>1. /\ at' \in [Trials -> {"waiting", "ready", "asking", "calling", "acting", "tooling", "ended"}]
      /\ ending' \in [Trials -> [status : Statuses, reason : Reasons]]
  OBVIOUS
<1>2. EndingsFinal'
  BY DEF EndingsFinal
<1>3. ending[t] # Ending("budget_exhausted", "usage_overran_reservation")
  <2>1. ending[t] = Ending("agent_incomplete", "none")
    BY DEF EndingsFinal
  <2>2. QED
    BY <2>1 DEF Ending
<1>4. StatusAgreesWithLedger'
  BY <1>3 DEF StatusAgreesWithLedger
<1>5. QED
  BY <1>1, <1>2, <1>4

\* Moving on within the loop.
LEMMA GoesSound ==
  ASSUME BudgetInv, NEW t \in Trials,
         NEW from \in {"waiting", "ready", "asking", "calling", "acting", "tooling"},
         NEW to \in {"ready", "asking", "calling", "acting", "tooling"},
         Goes(t, from, to), errors' = errors, ending' = ending
  PROVE  /\ StatusAgreesWithLedger' /\ EndingsFinal'
         /\ at' \in [Trials -> {"waiting", "ready", "asking", "calling", "acting", "tooling", "ended"}]
<1> USE DEF BudgetInv, Fields, Goes
<1>1. at' \in [Trials -> {"waiting", "ready", "asking", "calling", "acting", "tooling", "ended"}]
  OBVIOUS
<1>2. EndingsFinal'
  BY DEF EndingsFinal
<1>3. StatusAgreesWithLedger'
  BY DEF StatusAgreesWithLedger
<1>4. QED
  BY <1>1, <1>2, <1>3

\* Every step of a trial keeps the inductive invariant.
LEMMA AgentStepInv ==
  ASSUME BudgetInv, NEW t \in Trials, AgentStep(t)
  PROVE  BudgetInv'
<1> USE DEF BudgetInv
<1>1. CASE Begin(t)
  <2> USE <1>1 DEF Begin
  <2>1. StatusAgreesWithLedger' /\ EndingsFinal'
        /\ at' \in [Trials -> {"waiting", "ready", "asking", "calling", "acting", "tooling", "ended"}]
    BY GoesSound DEF ledgerVars
  <2>2. outstanding' = Cardinality(InFlight)' /\ HoldsWorst' /\ BreachedByOverrunOnly'
    BY QuietSound DEF ledgerVars, Goes, Fields
  <2>3. index' \in [Trials -> Nat] /\ \A u \in Trials : index'[u] <= MaxSteps[u]
    BY TrialTyped DEF Fields
  <2>4. Fields'
    BY <2>1, <2>3 DEF Fields, ledgerVars
  <2>5. QED
    BY <2>1, <2>2, <2>4
<1>2. CASE ObserveStop(t)
  <2> USE <1>2 DEF ObserveStop
  <2>1. Ending("cancelled", "cancelled") \in [status : Statuses, reason : Reasons]
        /\ Ending("cancelled", "cancelled") # Ending("budget_exhausted", "usage_overran_reservation")
    BY DEF Ending, Statuses, Reasons
  <2>2. StatusAgreesWithLedger' /\ EndingsFinal'
        /\ at' \in [Trials -> {"waiting", "ready", "asking", "calling", "acting", "tooling", "ended"}]
        /\ ending' \in [Trials -> [status : Statuses, reason : Reasons]]
    BY <2>1, FinishSound DEF ledgerVars
  <2>3. outstanding' = Cardinality(InFlight)' /\ HoldsWorst' /\ BreachedByOverrunOnly'
    BY QuietSound DEF ledgerVars, Finish, Fields
  <2>4. Fields'
    BY <2>2 DEF Fields, ledgerVars
  <2>5. QED
    BY <2>2, <2>3, <2>4
<1>3. ASSUME NEW e \in Estimates, AdmitCall(t, e)
      PROVE  BudgetInv'
  <2> USE <1>3 DEF AdmitCall
  <2>1. StatusAgreesWithLedger' /\ EndingsFinal'
        /\ at' \in [Trials -> {"waiting", "ready", "asking", "calling", "acting", "tooling", "ended"}]
    BY GoesSound DEF Reserve
  <2>2. /\ calls' \in Nat /\ steps' \in Nat
        /\ committed' \in [Dims -> Int] /\ reservation' \in [Trials -> [Dims -> Nat]]
        /\ outstanding' = Cardinality(InFlight)' /\ HoldsWorst' /\ BreachedByOverrunOnly'
    <3>1. at[t] # "calling" /\ at' = [at EXCEPT ![t] = "calling"] /\ budget' = budget
      BY DEF Goes
    <3>2. QED
      BY <3>1, ReserveSound
  <2>3. Fields'
    BY <2>1, <2>2 DEF Fields, Reserve
  <2>4. QED
    BY <2>1, <2>2, <2>3
<1>4. ASSUME NEW e \in Estimates, RefuseCall(t, e)
      PROVE  BudgetInv'
  <2> USE <1>4 DEF RefuseCall
  <2> DEFINE ended == Ending("budget_exhausted", "budget_refused_before_provider_call")
  <2>1. ended \in [status : Statuses, reason : Reasons]
        /\ ended # Ending("budget_exhausted", "usage_overran_reservation")
    BY DEF Ending, Statuses, Reasons
  <2>2. StatusAgreesWithLedger' /\ EndingsFinal'
        /\ at' \in [Trials -> {"waiting", "ready", "asking", "calling", "acting", "tooling", "ended"}]
        /\ ending' \in [Trials -> [status : Statuses, reason : Reasons]]
    BY <2>1, FinishSound
  <2>3. outstanding' = Cardinality(InFlight)' /\ HoldsWorst' /\ BreachedByOverrunOnly'
    BY QuietSound DEF Finish, Fields
  <2>4. refused' \subseteq Limits
    BY DEF Exceeded, Limits, Fields
  <2>5. Fields'
    BY <2>2, <2>4 DEF Fields
  <2>6. QED
    BY <2>2, <2>3, <2>5
<1>5. ASSUME NEW a \in 0..MaxAttempts[t], CallFails(t, a)
      PROVE  BudgetInv'
  <2> USE <1>5 DEF CallFails
  <2> DEFINE used == Amounts(0, 0, a)
             asked == Ending("agent_error", IF a = 0 THEN "provider_error"
                                                     ELSE "provider_attempts_exhausted")
  <2>1. used \in [Dims -> Nat]
    <3>1. a \in Nat
      BY TrialTyped
    <3>2. QED
      BY <3>1, AmountsTyped
  <2>2. asked \in [status : Statuses, reason : Reasons]
        /\ asked # Ending("budget_exhausted", "usage_overran_reservation")
    BY DEF Ending, Statuses, Reasons
  <2>3. StatusAgreesWithLedger' /\ EndingsFinal'
    BY <2>1, <2>2, SettlementAgrees
  <2>4. at' = [at EXCEPT ![t] = "ended"]
        /\ ending' = [ending EXCEPT ![t] = SettlementOutcome(t, used, asked)]
    BY DEF Finish
  <2>5. SettlementOutcome(t, used, asked) \in [status : Statuses, reason : Reasons]
    BY <2>2 DEF SettlementOutcome, Ending, Statuses, Reasons
  <2>6. /\ calls' \in Nat /\ steps' \in Nat
        /\ committed' \in [Dims -> Int] /\ observed' \in [Dims -> Nat]
        /\ errors' \subseteq [trial : Trials, step : Nat, own : BOOLEAN]
        /\ reservation' \in [Trials -> [Dims -> Nat]]
        /\ outstanding' = Cardinality(InFlight)' /\ HoldsWorst' /\ BreachedByOverrunOnly'
    BY <2>1, <2>4, SettleSound
  <2>7. Fields'
    BY <2>4, <2>5, <2>6 DEF Fields, Settle
  <2>8. QED
    BY <2>3, <2>6, <2>7
<1>6. ASSUME NEW i \in Prompts, NEW o \in Completions, NEW a \in 1..MaxAttempts[t],
             CallReturns(t, i, o, a)
      PROVE  BudgetInv'
  <2> DEFINE used == Amounts(i, o, a)
  <2>1. used \in [Dims -> Nat]
    <3>1. i \in Nat /\ o \in Nat /\ a \in Nat
      BY TrialTyped, BudgetAssumption
    <3>2. QED
      BY <3>1, AmountsTyped
  <2>2. at[t] = "calling" /\ Settle(t, used) /\ budget' = budget /\ index' = index /\ stop' = stop
    BY <1>6 DEF CallReturns
  <2>3. ASSUME NEW asked \in {Ending("pending_verification", "final_answer"),
                              Ending("agent_error", "unusable_turn")},
               Finish(t, SettlementOutcome(t, used, asked))
        PROVE  BudgetInv'
    <3>1. asked \in [status : Statuses, reason : Reasons]
          /\ asked # Ending("budget_exhausted", "usage_overran_reservation")
      BY DEF Ending, Statuses, Reasons
    <3>2. StatusAgreesWithLedger' /\ EndingsFinal'
      BY <2>1, <2>2, <2>3, <3>1, SettlementAgrees
    <3>3. at' = [at EXCEPT ![t] = "ended"]
          /\ ending' = [ending EXCEPT ![t] = SettlementOutcome(t, used, asked)]
      BY <2>3 DEF Finish
    <3>4. SettlementOutcome(t, used, asked) \in [status : Statuses, reason : Reasons]
      BY <3>1 DEF SettlementOutcome, Ending, Statuses, Reasons
    <3>5. /\ calls' \in Nat /\ steps' \in Nat
          /\ committed' \in [Dims -> Int] /\ observed' \in [Dims -> Nat]
          /\ errors' \subseteq [trial : Trials, step : Nat, own : BOOLEAN]
          /\ reservation' \in [Trials -> [Dims -> Nat]]
          /\ outstanding' = Cardinality(InFlight)' /\ HoldsWorst' /\ BreachedByOverrunOnly'
      BY <2>1, <2>2, <3>3, SettleSound
    <3>6. Fields'
      BY <2>2, <3>3, <3>4, <3>5 DEF Fields, Settle
    <3>7. QED
      BY <3>2, <3>5, <3>6
  <2>4. ASSUME ~Erroneous(t, used), Goes(t, "calling", "acting"), ending' = ending
        PROVE  BudgetInv'
    <3>1. errors' = errors
      BY <2>2, <2>4 DEF Settle
    <3>2. StatusAgreesWithLedger' /\ EndingsFinal'
          /\ at' \in [Trials -> {"waiting", "ready", "asking", "calling", "acting", "tooling", "ended"}]
      BY <2>4, <3>1, GoesSound
    <3>3. at' = [at EXCEPT ![t] = "acting"]
      BY <2>4 DEF Goes
    <3>4. /\ calls' \in Nat /\ steps' \in Nat
          /\ committed' \in [Dims -> Int] /\ observed' \in [Dims -> Nat]
          /\ errors' \subseteq [trial : Trials, step : Nat, own : BOOLEAN]
          /\ reservation' \in [Trials -> [Dims -> Nat]]
          /\ outstanding' = Cardinality(InFlight)' /\ HoldsWorst' /\ BreachedByOverrunOnly'
      BY <2>1, <2>2, <3>3, SettleSound
    <3>5. Fields'
      BY <2>2, <2>4, <3>2, <3>4 DEF Fields, Settle
    <3>6. QED
      BY <3>2, <3>4, <3>5
  <2>5. QED
    BY <1>6, <2>3, <2>4 DEF CallReturns
<1>7. CASE AskStep(t)
  <2> USE <1>7 DEF AskStep
  <2> DEFINE ended == Ending("budget_exhausted", "budget_refused_before_tool_container")
  <2>1. ended \in [status : Statuses, reason : Reasons]
        /\ ended # Ending("budget_exhausted", "usage_overran_reservation")
    BY DEF Ending, Statuses, Reasons
  <2>2. CASE steps + 1 <= budget["tool_steps"]
    <3>1. StatusAgreesWithLedger' /\ EndingsFinal'
          /\ at' \in [Trials -> {"waiting", "ready", "asking", "calling", "acting", "tooling", "ended"}]
      BY <2>2, GoesSound
    <3>2. outstanding' = Cardinality(InFlight)' /\ HoldsWorst' /\ BreachedByOverrunOnly'
      BY <2>2, QuietSound DEF Goes, Fields
    <3>3. Fields'
      BY <2>2, <3>1 DEF Fields
    <3>4. QED
      BY <3>1, <3>2, <3>3
  <2>3. CASE ~(steps + 1 <= budget["tool_steps"])
    <3>1. StatusAgreesWithLedger' /\ EndingsFinal'
          /\ at' \in [Trials -> {"waiting", "ready", "asking", "calling", "acting", "tooling", "ended"}]
          /\ ending' \in [Trials -> [status : Statuses, reason : Reasons]]
      BY <2>1, <2>3, FinishSound
    <3>2. outstanding' = Cardinality(InFlight)' /\ HoldsWorst' /\ BreachedByOverrunOnly'
      BY <2>3, QuietSound DEF Finish, Fields
    <3>3. Fields'
      BY <2>3, <3>1 DEF Fields, Limits
    <3>4. QED
      BY <3>1, <3>2, <3>3
  <2>4. QED
    BY <2>2, <2>3
<1>8. CASE ToolAnswers(t)
  <2> USE <1>8 DEF ToolAnswers
  <2>1. Ending("step_limit_reached", "step_limit") \in [status : Statuses, reason : Reasons]
        /\ Ending("step_limit_reached", "step_limit")
              # Ending("budget_exhausted", "usage_overran_reservation")
    BY DEF Ending, Statuses, Reasons
  <2>2. CASE LastStep(t)
    <3>1. StatusAgreesWithLedger' /\ EndingsFinal'
          /\ at' \in [Trials -> {"waiting", "ready", "asking", "calling", "acting", "tooling", "ended"}]
          /\ ending' \in [Trials -> [status : Statuses, reason : Reasons]]
      BY <2>1, <2>2, FinishSound DEF ledgerVars
    <3>2. outstanding' = Cardinality(InFlight)' /\ HoldsWorst' /\ BreachedByOverrunOnly'
      BY <2>2, QuietSound DEF Finish, Fields, ledgerVars
    <3>3. Fields'
      BY <2>2, <3>1 DEF Fields, ledgerVars
    <3>4. QED
      BY <3>1, <3>2, <3>3
  <2>3. CASE ~LastStep(t)
    <3>1. StatusAgreesWithLedger' /\ EndingsFinal'
          /\ at' \in [Trials -> {"waiting", "ready", "asking", "calling", "acting", "tooling", "ended"}]
      BY <2>3, GoesSound DEF ledgerVars
    <3>2. outstanding' = Cardinality(InFlight)' /\ HoldsWorst' /\ BreachedByOverrunOnly'
      BY <2>3, QuietSound DEF Goes, Fields, ledgerVars
    <3>3. index' \in [Trials -> Nat] /\ \A u \in Trials : index'[u] <= MaxSteps[u]
      <4>1. index' = [index EXCEPT ![t] = index[t] + 1] /\ index[t] # MaxSteps[t]
        BY <2>3 DEF LastStep
      <4>2. index \in [Trials -> Nat] /\ \A u \in Trials : index[u] <= MaxSteps[u]
        BY DEF Fields
      <4>3. \A u \in Trials : MaxSteps[u] \in Nat
        BY TrialTyped
      <4>4. QED
        BY <4>1, <4>2, <4>3
    <3>4. Fields'
      BY <2>3, <3>1, <3>3 DEF Fields, ledgerVars
    <3>5. QED
      BY <3>1, <3>2, <3>4
  <2>4. QED
    BY <2>2, <2>3
<1>9. CASE ToolFails(t)
  <2>1. PICK e \in {Ending("agent_error", "tool_failed"), Ending("runner_error", "raised"),
                    Ending("cancelled", "cancelled")} : Finish(t, e)
    BY <1>9 DEF ToolFails
  <2> USE <1>9, <2>1 DEF ToolFails
  <2>2. e \in [status : Statuses, reason : Reasons]
        /\ e # Ending("budget_exhausted", "usage_overran_reservation")
    BY DEF Ending, Statuses, Reasons
  <2>3. StatusAgreesWithLedger' /\ EndingsFinal'
        /\ at' \in [Trials -> {"waiting", "ready", "asking", "calling", "acting", "tooling", "ended"}]
        /\ ending' \in [Trials -> [status : Statuses, reason : Reasons]]
    BY <2>2, FinishSound DEF ledgerVars
  <2>4. outstanding' = Cardinality(InFlight)' /\ HoldsWorst' /\ BreachedByOverrunOnly'
    BY QuietSound DEF ledgerVars, Finish, Fields
  <2>5. Fields'
    BY <2>3 DEF Fields, ledgerVars
  <2>6. QED
    BY <2>3, <2>4, <2>5
<1>10. CASE ObserveNoStop(t)
  <2> USE <1>10 DEF ObserveNoStop
  <2>1. StatusAgreesWithLedger' /\ EndingsFinal'
        /\ at' \in [Trials -> {"waiting", "ready", "asking", "calling", "acting", "tooling", "ended"}]
    BY GoesSound DEF ledgerVars
  <2>2. outstanding' = Cardinality(InFlight)' /\ HoldsWorst' /\ BreachedByOverrunOnly'
    BY QuietSound DEF ledgerVars, Goes, Fields
  <2>3. Fields'
    BY <2>1 DEF Fields, ledgerVars
  <2>4. QED
    BY <2>1, <2>2, <2>3
<1>11. QED
  BY <1>1, <1>2, <1>3, <1>4, <1>5, <1>6, <1>7, <1>8, <1>9, <1>10 DEF AgentStep

\* So does every step of the run, and a step of nobody.
LEMMA BudgetNextInv == BudgetInv /\ [BudgetNext]_budgetVars => BudgetInv'
<1> SUFFICES ASSUME BudgetInv, [BudgetNext]_budgetVars PROVE BudgetInv'
  OBVIOUS
<1>1. ASSUME NEW t \in Trials, AgentStep(t) PROVE BudgetInv'
  BY <1>1, AgentStepInv
<1>2. ASSUME UNCHANGED <<budget, ledgerVars, loopVars>>, stop' \in BOOLEAN PROVE BudgetInv'
  <2> USE <1>2 DEF ledgerVars, loopVars, BudgetInv
  <2>1. outstanding' = Cardinality(InFlight)' /\ HoldsWorst' /\ BreachedByOverrunOnly'
    BY QuietSound
  <2>2. Fields'
    BY DEF Fields
  <2>3. EndingsFinal' /\ StatusAgreesWithLedger'
    BY DEF EndingsFinal, StatusAgreesWithLedger
  <2>4. QED
    BY <2>1, <2>2, <2>3
<1>3. CASE Interrupt
  BY <1>2, <1>3 DEF Interrupt
<1>4. CASE UNCHANGED budgetVars
  BY <1>2, <1>4 DEF budgetVars, BudgetInv, Fields
<1>5. QED
  BY <1>1, <1>3, <1>4 DEF BudgetNext

-----------------------------------------------------------------------------
(* Theorems.                                                               *)

\* The inductive invariant holds throughout: the ledger is sound on every path of run_agent.
THEOREM BudgetInvariant == BudgetSpec => []BudgetInv
  BY BudgetInitInv, BudgetNextInv, PTL DEF BudgetSpec

\* Counters and positions are of their kind, whatever the budget and the provider.
THEOREM BudgetTypes == BudgetSpec => []BudgetTypeOK
  BY BudgetInvariant, InvTypeOK, PTL

\* However many trials share the ledger, no ceiling is passed and no accounting
\* error recorded unless some call reported more than it had reserved (budget.py).
THEOREM CeilingsHold == BudgetSpec => []BreachedByOverrunOnly
<1>1. BudgetInv => BreachedByOverrunOnly
  BY DEF BudgetInv
<1>2. QED
  BY <1>1, BudgetInvariant, PTL

\* Status and ledger agree on every settlement path (agent.py).
THEOREM StatusTheorem == BudgetSpec => []StatusAgreesWithLedger
<1>1. BudgetInv => StatusAgreesWithLedger
  BY DEF BudgetInv
<1>2. QED
  BY <1>1, BudgetInvariant, PTL

\* Rounding never makes a call within its tokens overrun, for any prices: both
\* the reservation and the report round every price up (cost_micros).
THEOREM RoundingTheorem == BudgetSpec => []RoundingNeverOverruns
<1>1. BudgetInv => RoundingNeverOverruns
  <2> SUFFICES ASSUME BudgetInv, NEW t \in Trials, at[t] = "calling",
                      NEW i \in Prompts, NEW o \in Completions, NEW a \in 0..MaxAttempts[t],
                      i <= reservation[t]["input"], o <= reservation[t]["output"]
               PROVE  ~Overran(t, Amounts(i, o, a))
    BY DEF RoundingNeverOverruns
  <2>1. PICK e \in Estimates : reservation[t] = Amounts(e, MaxOutput[t], MaxAttempts[t])
    BY DEF BudgetInv, HoldsWorst, Worst
  <2>2. i \in Nat /\ o \in Nat /\ a \in Nat /\ e \in Nat
    BY BudgetAssumption, TrialTyped
  <2>3. i <= e /\ o <= MaxOutput[t] /\ a <= MaxAttempts[t]
    BY <2>1, TrialTyped DEF Amounts, Dims
  <2>4. \A d \in Dims : Amounts(i, o, a)[d] <= reservation[t][d]
    <3>1. MaxOutput[t] \in Nat /\ MaxAttempts[t] \in Nat
      BY TrialTyped
    <3>2. \A d \in Dims : Amounts(i, o, a)[d] <= Amounts(e, MaxOutput[t], MaxAttempts[t])[d]
      BY <2>2, <2>3, <3>1, AmountsMonotone
    <3>3. QED
      BY <2>1, <3>2
  <2>5. \A d \in Dims : Amounts(i, o, a)[d] \in Nat /\ reservation[t][d] \in Nat
    <3>1. Amounts(i, o, a) \in [Dims -> Nat]
      BY <2>2, AmountsTyped
    <3>2. reservation[t] \in [Dims -> Nat]
      BY DEF BudgetInv, Fields
    <3>3. QED
      BY <3>1, <3>2
  <2>6. QED
    BY <2>4, <2>5 DEF Overran
<1>2. QED
  BY <1>1, BudgetInvariant, PTL

-----------------------------------------------------------------------------
(* What a step does to the ledger, and where it takes the trial.           *)

Reserves(t) ==
  /\ at[t] = "asking" /\ at'[t] = "calling"
  /\ \E e \in Estimates : Exceeded(t, e) = {} /\ Reserve(t, e)

Settles(t) ==
  /\ at[t] = "calling" /\ at'[t] \in {"acting", "ended"}
  /\ \E used \in [Dims -> Nat] : used["attempts"] <= MaxAttempts[t] /\ Settle(t, used)
  /\ UNCHANGED steps

Spares(t) ==
  /\ at[t] # "calling" /\ at'[t] # "calling"
  /\ UNCHANGED <<calls, outstanding, committed, observed, errors, reservation>>

\* Where one step of the loop can lead without a new index.
Onward ==
  {<<"ready", "asking">>, <<"asking", "calling">>, <<"calling", "acting">>, <<"acting", "tooling">>}
    \cup ({"ready", "asking", "calling", "acting", "tooling"} \X {"ended"})

Moves(t) ==
  /\ budget' = budget
  /\ \A u \in Trials \ {t} : at'[u] = at[u] /\ index'[u] = index[u]
  /\ \/ at[t] = "waiting" /\ at'[t] = "ready" /\ index'[t] = 1
     \/ at[t] = "tooling" /\ at'[t] = "ready" /\ ~LastStep(t) /\ index'[t] = index[t] + 1
     \/ <<at[t], at'[t]>> \in Onward /\ index'[t] = index[t]

\* Every step of a trial is one of the ledger's three and one of the loop's.
LEMMA AgentStepKinds ==
  ASSUME BudgetInv, NEW t \in Trials, AgentStep(t)
  PROVE  Moves(t) /\ (Reserves(t) \/ Settles(t) \/ Spares(t))
<1>0. /\ at \in [Trials -> {"waiting", "ready", "asking", "calling", "acting", "tooling", "ended"}]
      /\ index \in [Trials -> Nat]
  BY DEF BudgetInv, Fields
<1> USE <1>0 DEF Moves, Onward, Goes, Finish, ledgerVars
<1>1. CASE Begin(t)
  BY <1>1 DEF Begin, Spares
<1>2. CASE ObserveStop(t)
  BY <1>2 DEF ObserveStop, Spares
<1>3. CASE ObserveNoStop(t)
  BY <1>3 DEF ObserveNoStop, Spares
<1>4. ASSUME NEW e \in Estimates, AdmitCall(t, e)
      PROVE  Moves(t) /\ Reserves(t)
  BY <1>4 DEF AdmitCall, Reserves
<1>5. ASSUME NEW e \in Estimates, RefuseCall(t, e)
      PROVE  Moves(t) /\ Spares(t)
  BY <1>5 DEF RefuseCall, Spares
<1>6. ASSUME NEW a \in 0..MaxAttempts[t], CallFails(t, a)
      PROVE  Moves(t) /\ Settles(t)
  <2>1. a \in Nat /\ a <= MaxAttempts[t]
    BY TrialTyped
  <2>2. Amounts(0, 0, a) \in [Dims -> Nat] /\ Amounts(0, 0, a)["attempts"] <= MaxAttempts[t]
    BY <2>1, AmountsTyped DEF Amounts, Dims
  <2>3. Moves(t)
    BY <1>6 DEF CallFails
  <2>4. Settles(t)
    BY <1>6, <2>2 DEF CallFails, Settles, Settle
  <2>5. QED
    BY <2>3, <2>4
<1>7. ASSUME NEW i \in Prompts, NEW o \in Completions, NEW a \in 1..MaxAttempts[t],
             CallReturns(t, i, o, a)
      PROVE  Moves(t) /\ Settles(t)
  <2>1. i \in Nat /\ o \in Nat /\ a \in Nat /\ a <= MaxAttempts[t]
    BY TrialTyped, BudgetAssumption
  <2>2. Amounts(i, o, a) \in [Dims -> Nat] /\ Amounts(i, o, a)["attempts"] <= MaxAttempts[t]
    BY <2>1, AmountsTyped DEF Amounts, Dims
  <2>3. at[t] = "calling" /\ at' \in {[at EXCEPT ![t] = "acting"], [at EXCEPT ![t] = "ended"]}
    BY <1>7 DEF CallReturns
  <2>4. Moves(t)
    BY <1>7, <2>3 DEF CallReturns
  <2>5. Settles(t)
    BY <1>7, <2>2, <2>3 DEF CallReturns, Settles, Settle
  <2>6. QED
    BY <2>4, <2>5
<1>8. CASE AskStep(t)
  BY <1>8 DEF AskStep, Spares
<1>9. CASE ToolAnswers(t)
  BY <1>9 DEF ToolAnswers, Spares
<1>10. CASE ToolFails(t)
  BY <1>10 DEF ToolFails, Spares
<1>11. QED
  BY <1>1, <1>2, <1>3, <1>4, <1>5, <1>6, <1>7, <1>8, <1>9, <1>10 DEF AgentStep

-----------------------------------------------------------------------------
(* Reconciliation.                                                         *)

Held(d) == [t \in Trials |-> reservation[t][d]]

\* Nothing is held between calls, so the calls in flight hold all there is.
Reconciled ==
  /\ \A t \in Trials : at[t] # "calling" => reservation[t] = Nothing
  /\ \A d \in Dims : committed[d] = observed[d] + SumFunctionOnSet(Held(d), Trials)

\* What is held is a number, so the sum can be reckoned with.
LEMMA HeldTyped ==
  ASSUME BudgetInv, NEW d \in Dims
  PROVE  /\ IsFiniteSet(Trials)
         /\ \A u \in Trials : Held(d)[u] = reservation[u][d] /\ Held(d)[u] \in Int
         /\ committed[d] \in Int /\ observed[d] \in Int
         /\ SumFunctionOnSet(Held(d), Trials) \in Int
<1>1. IsFiniteSet(Trials)
  BY BudgetAssumption
<1>2. \A u \in Trials : Held(d)[u] = reservation[u][d] /\ Held(d)[u] \in Int
  BY DEF Held, BudgetInv, Fields
<1>3. committed[d] \in Int /\ observed[d] \in Int
  BY DEF BudgetInv, Fields
<1>4. QED
  BY <1>1, <1>2, <1>3, SumTyped

\* The books balance after every step of a trial.
LEMMA ReconciledStep ==
  ASSUME BudgetInv, BudgetInv', Reconciled, NEW t \in Trials, AgentStep(t)
  PROVE  Reconciled'
<1>1. Moves(t) /\ (Reserves(t) \/ Settles(t) \/ Spares(t))
  BY AgentStepKinds
<1>2. ASSUME NEW d \in Dims, NEW r \in [Dims -> Nat],
             reservation' = [reservation EXCEPT ![t] = r]
      PROVE  SumFunctionOnSet(Held(d)', Trials) =
               SumFunctionOnSet(Held(d), Trials) + r[d] - reservation[t][d]
  <2>1. reservation \in [Trials -> [Dims -> Nat]]
    BY DEF BudgetInv, Fields
  <2>2. /\ Held(d)'[t] = r[d] /\ \A u \in Trials \ {t} : Held(d)'[u] = Held(d)[u]
        /\ \A u \in Trials : Held(d)'[u] \in Int
    BY <1>2, <2>1 DEF Held
  <2>3. QED
    BY <2>2, HeldTyped, SumChanges
<1>3. CASE Spares(t)
  BY <1>1, <1>3 DEF Spares, Moves, Reconciled, Held
<1>4. CASE Reserves(t)
  <2>1. PICK e \in Estimates : Reserve(t, e)
    BY <1>4 DEF Reserves
  <2>2. Worst(t, e) \in [Dims -> Nat] /\ reservation[t] = Nothing
    BY <1>4, WorstTyped DEF Reserves, Reconciled
  <2>3. \A u \in Trials : at'[u] # "calling" => reservation'[u] = Nothing
    BY <1>1, <1>4, <2>1 DEF Moves, Reserves, Reconciled, Reserve, BudgetInv, Fields
  <2>4. ASSUME NEW d \in Dims
        PROVE  committed'[d] = observed'[d] + SumFunctionOnSet(Held(d)', Trials)
    <3>1. SumFunctionOnSet(Held(d)', Trials) =
            SumFunctionOnSet(Held(d), Trials) + Worst(t, e)[d] - 0
      BY <1>2, <2>1, <2>2 DEF Reserve, Nothing
    <3>2. committed'[d] = committed[d] + Worst(t, e)[d] /\ observed'[d] = observed[d]
      BY <2>1 DEF Reserve
    <3>3. committed[d] = observed[d] + SumFunctionOnSet(Held(d), Trials) /\ Worst(t, e)[d] \in Int
      BY <2>2 DEF Reconciled
    <3>4. QED
      BY <3>1, <3>2, <3>3, HeldTyped
  <2>5. QED
    BY <2>3, <2>4 DEF Reconciled
<1>5. CASE Settles(t)
  <2>1. PICK used \in [Dims -> Nat] : Settle(t, used)
    BY <1>5 DEF Settles
  <2>2. Nothing \in [Dims -> Nat]
    BY DEF Nothing
  <2>3. \A u \in Trials : at'[u] # "calling" => reservation'[u] = Nothing
    BY <1>1, <1>5, <2>1 DEF Moves, Settles, Reconciled, Settle, BudgetInv, Fields
  <2>4. ASSUME NEW d \in Dims
        PROVE  committed'[d] = observed'[d] + SumFunctionOnSet(Held(d)', Trials)
    <3>1. SumFunctionOnSet(Held(d)', Trials) =
            SumFunctionOnSet(Held(d), Trials) + 0 - reservation[t][d]
      BY <1>2, <2>1, <2>2 DEF Settle, Nothing
    <3>2. /\ committed'[d] = committed[d] + used[d] - reservation[t][d]
          /\ observed'[d] = observed[d] + used[d]
      BY <2>1 DEF Settle, Replaced
    <3>3. /\ committed[d] = observed[d] + SumFunctionOnSet(Held(d), Trials)
          /\ used[d] \in Int /\ reservation[t][d] \in Int
      BY HeldTyped DEF Reconciled
    <3>4. QED
      BY <3>1, <3>2, <3>3, HeldTyped
  <2>5. QED
    BY <2>3, <2>4 DEF Reconciled
<1>6. QED
  BY <1>1, <1>3, <1>4, <1>5

\* On no path through the loop does a reservation leak: what is committed is
\* what the calls in flight hold and what settled calls reported (data).
THEOREM ReconcilesTheorem == BudgetSpec => []CommittedReconciles
<1>1. BudgetInit => Reconciled
  <2> SUFFICES ASSUME BudgetInit PROVE Reconciled
    OBVIOUS
  <2>1. ASSUME NEW d \in Dims
        PROVE  committed[d] = observed[d] + SumFunctionOnSet(Held(d), Trials)
    <3>1. \A u \in Trials : Held(d)[u] = 0
      BY DEF BudgetInit, Held, Nothing
    <3>2. IsFiniteSet(Trials)
      BY BudgetAssumption
    <3>3. SumFunctionOnSet(Held(d), Trials) = 0
      BY <3>1, <3>2, SumOfZeros
    <3>4. QED
      BY <3>3 DEF BudgetInit, Nothing
  <2>2. QED
    BY <2>1 DEF BudgetInit, Reconciled
<1>2. BudgetInv /\ BudgetInv' /\ Reconciled /\ [BudgetNext]_budgetVars => Reconciled'
  <2>1. UNCHANGED <<committed, observed, reservation, at>> /\ Reconciled => Reconciled'
    BY DEF Reconciled, Held
  <2>2. QED
    BY <2>1, ReconciledStep DEF BudgetNext, Interrupt, budgetVars, ledgerVars, loopVars
<1>3. BudgetInv /\ Reconciled => CommittedReconciles
  BY DEF BudgetInv, InFlight, Reconciled, Held, CommittedReconciles
<1>4. QED
  BY <1>1, <1>2, <1>3, BudgetInvariant, PTL DEF BudgetSpec

-----------------------------------------------------------------------------
(* An admitted plan suffices: what was asked of the ledger never exceeds   *)
(* what the steps taken so far may ask, and those are part of the plan.    *)

BeforeCall == {"ready", "asking"}

BeforeTool == {"ready", "asking", "calling", "acting"}

\* The steps at which t has come past the positions P.
Passed(P, t) == index[t] - IF at[t] \in P THEN 1 ELSE 0

Due(P, F) == [t \in Trials |-> Passed(P, t) * F[t]]

Allotted(F) == [t \in Trials |-> MaxSteps[t] * F[t]]

Once == [t \in Trials |-> 1]

Positions ==
  \A t \in Trials : IF at[t] = "waiting" THEN index[t] = 0 ELSE index[t] \in 1..MaxSteps[t]

WithinPlan ==
  /\ Positions
  /\ Admitted(budget)
  /\ calls <= Planned(Due(BeforeCall, Once))
  /\ steps <= Planned(Due(BeforeTool, Once))
  /\ committed["attempts"] <= Planned(Due(BeforeCall, MaxAttempts))
  /\ errors = {} => committed["output"] <= Planned(Due(BeforeCall, MaxOutput))

\* No trial is ever past more steps than it may take.
LEMMA PassedBounded ==
  ASSUME Positions, BudgetInv, NEW P \in {BeforeCall, BeforeTool}, NEW t \in Trials
  PROVE  Passed(P, t) \in Nat /\ Passed(P, t) <= MaxSteps[t]
         /\ (at[t] \in P => Passed(P, t) + 1 <= MaxSteps[t])
  BY TrialTyped DEF Positions, Passed, BeforeCall, BeforeTool

\* What is due can be summed.
LEMMA DueTyped ==
  ASSUME Positions, BudgetInv, NEW P \in {BeforeCall, BeforeTool}, NEW F \in [Trials -> Nat]
  PROVE  /\ IsFiniteSet(Trials)
         /\ \A u \in Trials : Due(P, F)[u] = Passed(P, u) * F[u] /\ Due(P, F)[u] \in Int
         /\ Planned(Due(P, F)) \in Int
<1>1. IsFiniteSet(Trials)
  BY BudgetAssumption
<1>2. ASSUME NEW u \in Trials
      PROVE  Due(P, F)[u] = Passed(P, u) * F[u] /\ Due(P, F)[u] \in Int
  <2>1. Passed(P, u) \in Nat /\ F[u] \in Nat
    BY PassedBounded
  <2>2. Passed(P, u) * F[u] \in Nat
    BY <2>1, TimesNat
  <2>3. QED
    BY <2>2 DEF Due
<1>3. QED
  BY <1>1, <1>2, SumTyped DEF Planned

\* A trial that has yet to ask leaves room in the plan for its question.
LEMMA RoomLeft ==
  ASSUME Positions, BudgetInv, NEW P \in {BeforeCall, BeforeTool}, NEW F \in [Trials -> Nat],
         NEW t \in Trials, at[t] \in P
  PROVE  Planned(Due(P, F)) + F[t] <= Planned(Allotted(F)) /\ Planned(Allotted(F)) \in Int
<1> DEFINE more == [u \in Trials |-> IF u = t THEN (Passed(P, u) + 1) * F[u]
                                              ELSE Passed(P, u) * F[u]]
<1>1. \A u \in Trials : Passed(P, u) \in Nat /\ F[u] \in Nat /\ MaxSteps[u] \in Nat
  BY PassedBounded, TrialTyped
<1>2. \A a, b \in Nat : a * b \in Nat /\ (a + 1) * b \in Nat /\ (a + 1) * b = a * b + b
  OBVIOUS
<1>3. \A u \in Trials : more[u] \in Int /\ Allotted(F)[u] \in Int
  BY <1>1, <1>2 DEF Allotted
<1>4. more[t] = Due(P, F)[t] + F[t] /\ \A u \in Trials \ {t} : more[u] = Due(P, F)[u]
  BY <1>1, <1>2, DueTyped
<1>5. ASSUME NEW u \in Trials
      PROVE  more[u] <= Allotted(F)[u]
  <2>1. CASE u = t
    <3>1. Passed(P, t) + 1 \in Nat /\ Passed(P, t) + 1 <= MaxSteps[t]
      BY <1>1, PassedBounded
    <3>2. (Passed(P, t) + 1) * F[t] <= MaxSteps[t] * F[t]
      BY <1>1, <3>1, TimesMonotone
    <3>3. QED
      BY <2>1, <3>2 DEF Allotted
  <2>2. CASE u # t
    <3>1. Passed(P, u) * F[u] <= MaxSteps[u] * F[u]
      BY <1>1, PassedBounded, TimesMonotone
    <3>2. QED
      BY <2>2, <3>1 DEF Allotted
  <2>3. QED
    BY <2>1, <2>2
<1> HIDE DEF more
<1>6. Planned(more) <= Planned(Allotted(F))
  BY <1>3, <1>5, DueTyped, SumMonotone DEF Planned
<1>7. Planned(more) = Planned(Due(P, F)) + more[t] - Due(P, F)[t]
  BY <1>3, <1>4, DueTyped, SumChanges DEF Planned
<1>8. Planned(Allotted(F)) \in Int
  BY <1>3, DueTyped, SumTyped DEF Planned
<1>9. Planned(more) = Planned(Due(P, F)) + F[t]
  BY <1>1, <1>4, <1>7, DueTyped
<1>10. QED
  BY <1>6, <1>8, <1>9

\* Every step of the loop leads past more, and past the position it leaves.
LEMMA DueGrows ==
  ASSUME Positions, BudgetInv, BudgetInv', NEW t \in Trials, Moves(t)
  PROVE  /\ Positions'
         /\ \A P \in {BeforeCall, BeforeTool}, F \in [Trials -> Nat] :
              /\ Planned(Due(P, F)) <= Planned(Due(P, F))'
              /\ at[t] \in P /\ at'[t] \notin P /\ at'[t] # "ended" =>
                   Planned(Due(P, F))' = Planned(Due(P, F)) + F[t]
<1>1. Positions'
  BY TrialTyped DEF Moves, Onward, Positions, LastStep, BudgetInv, Fields
<1>2. ASSUME NEW P \in {BeforeCall, BeforeTool}, NEW F \in [Trials -> Nat]
      PROVE  /\ Planned(Due(P, F)) <= Planned(Due(P, F))'
             /\ at[t] \in P /\ at'[t] \notin P /\ at'[t] # "ended" =>
                  Planned(Due(P, F))' = Planned(Due(P, F)) + F[t]
  <2> DEFINE f == Due(P, F)
             g == [u \in Trials |-> Passed(P, u)' * F[u]]
  <2>1. \A u \in Trials : /\ Passed(P, u) \in Nat /\ Passed(P, u)' \in Nat /\ F[u] \in Nat
                          /\ Passed(P, u) <= Passed(P, u)'
                          /\ u # t => Passed(P, u)' = Passed(P, u)
    <3>1. \A u \in Trials : Passed(P, u) \in Nat
      BY PassedBounded
    <3>2. \A u \in Trials : Passed(P, u)' \in Nat
      BY <1>1, TrialTyped DEF Positions, Passed, BeforeCall, BeforeTool
    <3>3. \A u \in Trials \ {t} : Passed(P, u)' = Passed(P, u)
      BY DEF Moves, Passed
    <3>4. Passed(P, t) <= Passed(P, t)'
      BY TrialTyped DEF Moves, Onward, Positions, Passed, BeforeCall, BeforeTool
    <3>5. QED
      BY <3>1, <3>2, <3>3, <3>4
  <2>2. at[t] \in P /\ at'[t] \notin P /\ at'[t] # "ended" => Passed(P, t)' = Passed(P, t) + 1
    BY TrialTyped DEF Moves, Onward, Positions, Passed, BeforeCall, BeforeTool
  <2>3. Planned(Due(P, F))' = SumFunctionOnSet(g, Trials) /\ Planned(f) = SumFunctionOnSet(f, Trials)
    BY DEF Planned, Due
  <2>4. \A u \in Trials : f[u] \in Int /\ g[u] \in Int /\ f[u] = Passed(P, u) * F[u]
    BY <2>1, DueTyped
  <2>5. \A u \in Trials : f[u] <= g[u] /\ (u # t => g[u] = f[u])
    BY <2>1, TimesMonotone, DueTyped
  <2>6. IsFiniteSet(Trials)
    BY BudgetAssumption
  <2>7. at[t] \in P /\ at'[t] \notin P /\ at'[t] # "ended" => g[t] = f[t] + F[t]
    <3>1. \A a, b \in Nat : (a + 1) * b = a * b + b
      OBVIOUS
    <3>2. QED
      BY <2>1, <2>2, <3>1, DueTyped
  <2> HIDE DEF f, g
  <2>8. SumFunctionOnSet(f, Trials) <= SumFunctionOnSet(g, Trials)
    BY <2>4, <2>5, <2>6, SumMonotone
  <2>9. /\ SumFunctionOnSet(g, Trials) = SumFunctionOnSet(f, Trials) + g[t] - f[t]
        /\ SumFunctionOnSet(f, Trials) \in Int
    BY <2>4, <2>5, <2>6, SumChanges
  <2>10. f[t] \in Int /\ F[t] \in Int
    BY <2>4
  <2>11. QED
    BY <2>3, <2>7, <2>8, <2>9, <2>10 DEF f
<1>3. QED
  BY <1>1, <1>2

\* What a step makes of the tool containers and of the refusals.
Tools(t) ==
  \/ UNCHANGED steps
  \/ at[t] = "acting" /\ at'[t] = "tooling" /\ steps' = steps + 1

Refusals(t) ==
  /\ errors \subseteq errors'
  /\ \/ UNCHANGED refused
     \/ at[t] = "asking" /\ \E e \in Estimates : refused' = refused \cup Exceeded(t, e)
     \/ /\ at[t] = "acting" /\ ~(steps + 1 <= budget["tool_steps"])
        /\ refused' = refused \cup {"tool_steps"}

\* Containers are counted when they are granted, and what is refused is exceeded.
LEMMA AgentStepAsks ==
  ASSUME BudgetInv, NEW t \in Trials, AgentStep(t)
  PROVE  Tools(t) /\ Refusals(t)
<1>0. at \in [Trials -> {"waiting", "ready", "asking", "calling", "acting", "tooling", "ended"}]
  BY DEF BudgetInv, Fields
<1> USE <1>0 DEF Tools, Refusals, ledgerVars
<1>1. CASE Begin(t) \/ ObserveStop(t) \/ ObserveNoStop(t)
  BY <1>1 DEF Begin, ObserveStop, ObserveNoStop
<1>2. ASSUME NEW e \in Estimates, AdmitCall(t, e) \/ RefuseCall(t, e)
      PROVE  Tools(t) /\ Refusals(t)
  BY <1>2 DEF AdmitCall, Reserve, RefuseCall
<1>3. ASSUME NEW a \in 0..MaxAttempts[t], CallFails(t, a)
      PROVE  Tools(t) /\ Refusals(t)
  BY <1>3 DEF CallFails, Settle
<1>4. ASSUME NEW i \in Prompts, NEW o \in Completions, NEW a \in 1..MaxAttempts[t],
             CallReturns(t, i, o, a)
      PROVE  Tools(t) /\ Refusals(t)
  BY <1>4 DEF CallReturns, Settle
<1>5. CASE AskStep(t)
  BY <1>5 DEF AskStep, Goes
<1>6. CASE ToolAnswers(t) \/ ToolFails(t)
  BY <1>6 DEF ToolAnswers, ToolFails
<1>7. QED
  BY <1>1, <1>2, <1>3, <1>4, <1>5, <1>6 DEF AgentStep

\* The plan that admit_plan accepted, in the terms of the invariant.
LEMMA AdmittedPlan ==
  ASSUME Admitted(budget), budget \in Budgets
  PROVE  /\ Planned(Allotted(Once)) <= budget["calls"] /\ Planned(Allotted(Once)) <= budget["tool_steps"]
         /\ Planned(Allotted(MaxAttempts)) <= budget["attempts"]
         /\ Planned(Allotted(MaxOutput)) <= budget["output"]
         /\ \A l \in Limits : budget[l] \in Nat
<1>1. MaxSteps \in [Trials -> Nat \ {0}]
  BY BudgetAssumption
<1>2. Allotted(Once) = MaxSteps
  BY <1>1 DEF Allotted, Once
<1>3. \A l \in Limits : budget[l] \in Nat
  BY BudgetTyped
<1>4. QED
  BY <1>2, <1>3 DEF Admitted, Allotted

\* What is counted for the weights the invariant uses.
LEMMA Weights ==
  /\ {Once, MaxAttempts, MaxOutput} \subseteq [Trials -> Nat]
  /\ \A t \in Trials : Once[t] = 1
  BY BudgetAssumption DEF Once

\* While a trial has yet to ask, its question is within the ceilings.
LEMMA NeverExceeded ==
  ASSUME BudgetInv, WithinPlan, NEW t \in Trials
  PROVE  /\ at[t] = "acting" => steps + 1 <= budget["tool_steps"]
         /\ at[t] = "asking" => \A e \in Estimates :
              /\ Exceeded(t, e) \cap {"calls", "attempts", "tool_steps"} = {}
              /\ errors = {} => "output" \notin Exceeded(t, e)
<1>1. /\ Positions /\ Admitted(budget) /\ budget \in Budgets
      /\ calls \in Int /\ steps \in Int /\ committed \in [Dims -> Int]
  BY DEF WithinPlan, BudgetInv, Fields
<1>2. ASSUME NEW P \in {BeforeCall, BeforeTool}, NEW F \in [Trials -> Nat], at[t] \in P
      PROVE  /\ Planned(Due(P, F)) + F[t] <= Planned(Allotted(F))
             /\ Planned(Due(P, F)) \in Int /\ Planned(Allotted(F)) \in Int /\ F[t] \in Int
  BY <1>1, <1>2, RoomLeft, DueTyped
<1>3. /\ "calls" \in Limits /\ "tool_steps" \in Limits /\ "attempts" \in Limits
      /\ "output" \in Limits /\ "attempts" \in Dims /\ "output" \in Dims
      /\ "calls" \notin Dims /\ "tool_steps" \notin Dims
  BY DEF Limits, Dims
<1>4. ASSUME at[t] = "acting"
      PROVE  steps + 1 <= budget["tool_steps"]
  <2>1. Planned(Due(BeforeTool, Once)) + 1 <= Planned(Allotted(Once))
        /\ Planned(Due(BeforeTool, Once)) \in Int /\ Planned(Allotted(Once)) \in Int
    BY <1>2, <1>4, Weights DEF BeforeTool
  <2>2. Planned(Allotted(Once)) <= budget["tool_steps"] /\ budget["tool_steps"] \in Int
    BY <1>1, <1>3, AdmittedPlan
  <2>3. steps <= Planned(Due(BeforeTool, Once))
    BY DEF WithinPlan
  <2>4. QED
    BY <1>1, <2>1, <2>2, <2>3
<1>5. ASSUME at[t] = "asking", NEW e \in Estimates
      PROVE  /\ Exceeded(t, e) \cap {"calls", "attempts", "tool_steps"} = {}
             /\ errors = {} => "output" \notin Exceeded(t, e)
  <2>1. /\ Worst(t, e)["attempts"] = MaxAttempts[t] /\ Worst(t, e)["output"] = MaxOutput[t]
    BY DEF Worst, Amounts, Dims
  <2>2. calls + 1 <= budget["calls"]
    <3>1. Planned(Due(BeforeCall, Once)) + 1 <= Planned(Allotted(Once))
          /\ Planned(Due(BeforeCall, Once)) \in Int /\ Planned(Allotted(Once)) \in Int
      BY <1>2, <1>5, Weights DEF BeforeCall
    <3>2. Planned(Allotted(Once)) <= budget["calls"] /\ budget["calls"] \in Int
      BY <1>1, <1>3, AdmittedPlan
    <3>3. calls <= Planned(Due(BeforeCall, Once))
      BY DEF WithinPlan
    <3>4. QED
      BY <1>1, <3>1, <3>2, <3>3
  <2>3. ~(committed["attempts"] + MaxAttempts[t] > budget["attempts"])
    <3>1. /\ Planned(Due(BeforeCall, MaxAttempts)) + MaxAttempts[t] <= Planned(Allotted(MaxAttempts))
          /\ Planned(Due(BeforeCall, MaxAttempts)) \in Int
          /\ Planned(Allotted(MaxAttempts)) \in Int /\ MaxAttempts[t] \in Int
      BY <1>2, <1>5, Weights DEF BeforeCall
    <3>2. Planned(Allotted(MaxAttempts)) <= budget["attempts"] /\ budget["attempts"] \in Int
      BY <1>1, <1>3, AdmittedPlan
    <3>3. committed["attempts"] <= Planned(Due(BeforeCall, MaxAttempts))
          /\ committed["attempts"] \in Int
      BY <1>1, <1>3 DEF WithinPlan
    <3>4. QED
      BY <3>1, <3>2, <3>3
  <2>4. errors = {} => ~(committed["output"] + MaxOutput[t] > budget["output"])
    <3>1. /\ Planned(Due(BeforeCall, MaxOutput)) + MaxOutput[t] <= Planned(Allotted(MaxOutput))
          /\ Planned(Due(BeforeCall, MaxOutput)) \in Int
          /\ Planned(Allotted(MaxOutput)) \in Int /\ MaxOutput[t] \in Int
      BY <1>2, <1>5, Weights DEF BeforeCall
    <3>2. Planned(Allotted(MaxOutput)) <= budget["output"] /\ budget["output"] \in Int
      BY <1>1, <1>3, AdmittedPlan
    <3>3. errors = {} => committed["output"] <= Planned(Due(BeforeCall, MaxOutput))
      BY DEF WithinPlan
    <3>4. committed["output"] \in Int
      BY <1>1, <1>3
    <3>5. QED
      BY <3>1, <3>2, <3>3, <3>4
  <2>5. budget["calls"] \in Int
    BY <1>1, <1>3, AdmittedPlan
  <2>6. ~(calls + 1 > budget["calls"])
    BY <1>1, <2>2, <2>5
  <2>7. Exceeded(t, e) = {d \in Dims : committed[d] + Worst(t, e)[d] > budget[d]}
    BY <2>6 DEF Exceeded
  <2>8. QED
    BY <1>3, <2>1, <2>3, <2>4, <2>7
<1>6. QED
  BY <1>4, <1>5

\* A settlement frees attempts, and output tokens unless it is an accounting error.
LEMMA SettlementFrees ==
  ASSUME BudgetInv, NEW t \in Trials, at[t] = "calling",
         NEW used \in [Dims -> Nat], Settle(t, used), used["attempts"] <= MaxAttempts[t]
  PROVE  /\ committed'["attempts"] <= committed["attempts"]
         /\ errors' = {} => errors = {} /\ committed'["output"] <= committed["output"]
<1>1. /\ committed \in [Dims -> Int] /\ reservation[t] \in [Dims -> Nat]
      /\ "attempts" \in Dims /\ "output" \in Dims
  BY DEF BudgetInv, Fields, Dims
<1>2. reservation[t]["attempts"] = MaxAttempts[t]
  BY DEF BudgetInv, HoldsWorst, Worst, Amounts, Dims
<1>3. committed' = [d \in Dims |-> committed[d] + used[d] - reservation[t][d]]
  BY DEF Settle, Replaced
<1>4. committed'["attempts"] <= committed["attempts"]
  BY <1>1, <1>2, <1>3
<1>5. ASSUME errors' = {}
      PROVE  errors = {} /\ committed'["output"] <= committed["output"]
  <2>1. errors = {} /\ ~Overran(t, used)
    BY <1>5 DEF Settle, Erroneous
  <2>2. used["output"] <= reservation[t]["output"]
    BY <1>1, <2>1 DEF Overran
  <2>3. QED
    BY <1>1, <1>3, <2>1, <2>2
<1>6. QED
  BY <1>4, <1>5

\* Whatever a trial does, what was asked stays within what is due.
LEMMA WithinPlanStep ==
  ASSUME BudgetInv, BudgetInv', WithinPlan, NEW t \in Trials, AgentStep(t)
  PROVE  WithinPlan'
<1>1. Moves(t) /\ Tools(t) /\ (Reserves(t) \/ Settles(t) \/ Spares(t))
  BY AgentStepKinds, AgentStepAsks
<1>2. Positions' /\ Admitted(budget)'
  BY <1>1, DueGrows DEF WithinPlan, Admitted, Moves
<1>3. ASSUME NEW P \in {BeforeCall, BeforeTool}, NEW F \in [Trials -> Nat]
      PROVE  /\ Planned(Due(P, F)) <= Planned(Due(P, F))'
             /\ at[t] \in P /\ at'[t] \notin P /\ at'[t] # "ended" =>
                  Planned(Due(P, F))' = Planned(Due(P, F)) + F[t]
             /\ Planned(Due(P, F)) \in Int /\ Planned(Due(P, F))' \in Int
  <2>1. Planned(Due(P, F)) \in Int
    BY DueTyped DEF WithinPlan
  <2>2. Planned(Due(P, F))' \in Int
    <3>1. IsFiniteSet(Trials)
      BY BudgetAssumption
    <3>2. \A u \in Trials : Due(P, F)'[u] \in Int
      BY <1>2, TimesNat, TrialTyped DEF Due, Passed, Positions, BeforeCall, BeforeTool
    <3>3. QED
      BY <3>1, <3>2, SumTyped DEF Planned
  <2>3. QED
    BY <1>1, <2>1, <2>2, DueGrows DEF WithinPlan
<1> DEFINE asked == Planned(Due(BeforeCall, Once))
           entered == Planned(Due(BeforeTool, Once))
           tries == Planned(Due(BeforeCall, MaxAttempts))
           words == Planned(Due(BeforeCall, MaxOutput))
<1>4. /\ asked <= asked' /\ entered <= entered' /\ tries <= tries' /\ words <= words'
      /\ {asked, asked', entered, entered', tries, tries', words, words'} \subseteq Int
  BY <1>3, Weights
<1>5. /\ calls <= asked /\ steps <= entered /\ committed["attempts"] <= tries
      /\ errors = {} => committed["output"] <= words
  BY DEF WithinPlan
<1>6. /\ calls \in Int /\ steps \in Int
      /\ committed["attempts"] \in Int /\ committed["output"] \in Int
      /\ calls' \in Int /\ steps' \in Int
      /\ committed'["attempts"] \in Int /\ committed'["output"] \in Int
  BY DEF BudgetInv, Fields, Dims
<1>7. at[t] = "acting" /\ at'[t] = "tooling" => entered' = entered + 1
  BY <1>3, Weights DEF BeforeTool
<1>8. at[t] = "asking" /\ at'[t] = "calling" =>
        /\ asked' = asked + 1 /\ tries' = tries + MaxAttempts[t] /\ words' = words + MaxOutput[t]
  BY <1>3, Weights DEF BeforeCall
<1> HIDE DEF asked, entered, tries, words
<1>9. steps' <= entered'
  BY <1>1, <1>4, <1>5, <1>6, <1>7 DEF Tools
<1>10. /\ calls' <= asked' /\ committed'["attempts"] <= tries'
       /\ errors' = {} => committed'["output"] <= words'
  <2>1. CASE Spares(t)
    BY <1>4, <1>5, <1>6, <2>1 DEF Spares
  <2>2. CASE Reserves(t)
    <3>1. PICK e \in Estimates : Reserve(t, e)
      BY <2>2 DEF Reserves
    <3>2. /\ calls' = calls + 1 /\ errors' = errors
          /\ committed'["attempts"] = committed["attempts"] + MaxAttempts[t]
          /\ committed'["output"] = committed["output"] + MaxOutput[t]
      BY <3>1 DEF Reserve, Worst, Amounts, Dims
    <3>3. MaxAttempts[t] \in Int /\ MaxOutput[t] \in Int
      BY TrialTyped
    <3>4. QED
      BY <1>4, <1>5, <1>6, <1>8, <2>2, <3>2, <3>3 DEF Reserves
  <2>3. CASE Settles(t)
    <3>1. PICK used \in [Dims -> Nat] : used["attempts"] <= MaxAttempts[t] /\ Settle(t, used)
      BY <2>3 DEF Settles
    <3>2. /\ committed'["attempts"] <= committed["attempts"]
          /\ errors' = {} => errors = {} /\ committed'["output"] <= committed["output"]
      BY <2>3, <3>1, SettlementFrees DEF Settles
    <3>3. calls' = calls
      BY <3>1 DEF Settle
    <3>4. QED
      BY <1>4, <1>5, <1>6, <3>2, <3>3
  <2>4. QED
    BY <1>1, <2>1, <2>2, <2>3
<1>11. QED
  BY <1>2, <1>9, <1>10 DEF WithinPlan, asked, entered, tries, words

\* A plan that admit_plan accepted never runs into a ceiling on calls, attempts
\* or tool containers, on output tokens only after an accounting error.
THEOREM AdmittedTheorem == BudgetSpec => []AdmittedPlanSuffices
<1>1. BudgetInit => WithinPlan /\ AdmittedPlanSuffices
  <2> SUFFICES ASSUME BudgetInit PROVE WithinPlan /\ AdmittedPlanSuffices
    OBVIOUS
  <2>1. ASSUME NEW P \in {BeforeCall, BeforeTool}, NEW F \in [Trials -> Nat]
        PROVE  Planned(Due(P, F)) = 0
    <3>1. \A u \in Trials : Due(P, F)[u] = 0
      BY DEF BudgetInit, Due, Passed, BeforeCall, BeforeTool
    <3>2. IsFiniteSet(Trials)
      BY BudgetAssumption
    <3>3. QED
      BY <3>1, <3>2, SumOfZeros DEF Planned
  <2>2. WithinPlan
    BY <2>1, Weights DEF BudgetInit, WithinPlan, Positions, Nothing, Dims
  <2>3. QED
    BY <2>2 DEF BudgetInit, AdmittedPlanSuffices
<1>2. /\ BudgetInv /\ BudgetInv' /\ WithinPlan /\ AdmittedPlanSuffices
      /\ [BudgetNext]_budgetVars
      => WithinPlan' /\ AdmittedPlanSuffices'
  <2> SUFFICES ASSUME BudgetInv, BudgetInv', WithinPlan, AdmittedPlanSuffices,
                      [BudgetNext]_budgetVars
               PROVE  WithinPlan' /\ AdmittedPlanSuffices'
    OBVIOUS
  <2>1. ASSUME NEW t \in Trials, AgentStep(t)
        PROVE  WithinPlan' /\ AdmittedPlanSuffices'
    <3>1. Refusals(t)
      BY <2>1, AgentStepAsks
    <3>2. AdmittedPlanSuffices'
      BY <3>1, NeverExceeded DEF Refusals, AdmittedPlanSuffices
    <3>3. QED
      BY <2>1, <3>2, WithinPlanStep
  <2>2. CASE UNCHANGED <<budget, ledgerVars, loopVars>>
    BY <2>2 DEF WithinPlan, AdmittedPlanSuffices, Positions, Admitted, Planned, Due, Passed,
                ledgerVars, loopVars
  <2>3. QED
    BY <2>1, <2>2 DEF BudgetNext, Interrupt, budgetVars
<1>3. QED
  BY <1>1, <1>2, BudgetInvariant, PTL DEF BudgetSpec

-----------------------------------------------------------------------------
(* The recorded provider.                                                  *)

\* What complete reports, by the entry alone.
LEMMA AttemptsBounded ==
  ASSUME NEW e \in Entries, NEW max \in Nat \ {0}
  PROVE  /\ AttemptsOf(e, max) \in 1..max
         /\ Answers(e, max) => AttemptsOf(e, max) = e.failed + 1
<1>1. e.failed \in Nat /\ e.answers \in BOOLEAN /\ (e.failed > 0 \/ e.answers)
  BY ReplayAssumption DEF Entries
<1>2. CASE e.failed < max
  BY <1>1, <1>2 DEF AttemptsOf, Replayed, Answers
<1>3. CASE ~(e.failed < max)
  BY <1>1, <1>3 DEF AttemptsOf, Replayed, Answers
<1>4. QED
  BY <1>2, <1>3

\* The recorded provider is one of the providers AgentBudget allows for: what
\* it makes of a call in flight is a step of the trial (run_agent).
THEOREM ReplaysAreSteps ==
  ASSUME NEW t \in Trials, NEW e \in Entries
  PROVE  Replays(t, e) => AgentStep(t)
<1>1. MaxAttempts[t] \in Nat \ {0}
  BY TrialTyped
<1>2. AttemptsOf(e, MaxAttempts[t]) \in 1..MaxAttempts[t]
  BY <1>1, AttemptsBounded
<1>3. AttemptsOf(e, MaxAttempts[t]) \in 0..MaxAttempts[t]
  BY <1>1, <1>2
<1>4. QED
  BY <1>2, <1>3 DEF Replays, AgentStep

\* Nor does one overrun the attempts the call holds (max_attempts, retries
\* included), in any run.
THEOREM ReplayTheorem == BudgetSpec => []ReplayWithinReservation
<1>1. BudgetInv => ReplayWithinReservation
  <2> SUFFICES ASSUME BudgetInv, NEW t \in Trials, NEW e \in Entries, at[t] = "calling"
               PROVE  LET a == AttemptsOf(e, MaxAttempts[t])
                      IN  /\ a \in 1..MaxAttempts[t] /\ a <= reservation[t]["attempts"]
                          /\ ~Overran(t, Amounts(0, 0, a))
                          /\ Answers(e, MaxAttempts[t]) => a = e.failed + 1
    BY DEF ReplayWithinReservation
  <2> DEFINE a == AttemptsOf(e, MaxAttempts[t])
  <2>1. MaxAttempts[t] \in Nat \ {0} /\ MaxOutput[t] \in Nat
    BY TrialTyped
  <2>2. a \in 1..MaxAttempts[t] /\ (Answers(e, MaxAttempts[t]) => a = e.failed + 1)
    BY <2>1, AttemptsBounded
  <2>3. PICK s \in Estimates : reservation[t] = Worst(t, s)
    BY DEF BudgetInv, HoldsWorst
  <2>4. s \in Nat
    BY BudgetAssumption
  <2>5. \A d \in Dims : Amounts(0, 0, a)[d] <= reservation[t][d]
    <3> HIDE DEF a
    <3>1. a \in Nat /\ a <= MaxAttempts[t]
      BY <2>1, <2>2
    <3>2. \A d \in Dims : Amounts(0, 0, a)[d] <= Amounts(s, MaxOutput[t], MaxAttempts[t])[d]
      BY <2>1, <2>4, <3>1, AmountsMonotone
    <3>3. QED
      BY <2>3, <3>2 DEF Worst
  <2>6. a <= reservation[t]["attempts"]
    <3> HIDE DEF a
    <3>1. reservation[t]["attempts"] = MaxAttempts[t]
      BY <2>3 DEF Worst, Amounts, Dims
    <3>2. QED
      BY <2>1, <2>2, <3>1
  <2>7. ~Overran(t, Amounts(0, 0, a))
    <3> HIDE DEF a
    <3>1. Amounts(0, 0, a) \in [Dims -> Nat]
      BY <2>1, <2>2, AmountsTyped
    <3>2. reservation[t] \in [Dims -> Nat]
      BY <2>3, WorstTyped
    <3>3. QED
      BY <2>5, <3>1, <3>2 DEF Overran
  <2>8. QED
    BY <2>2, <2>6, <2>7
<1>2. QED
  BY <1>1, BudgetInvariant, PTL
=============================================================================
