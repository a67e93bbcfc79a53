-------------------------- MODULE RunBatchesProofs --------------------------
(***************************************************************************)
(* Proofs about RunBatches, about the plan it follows, about what Evidence *)
(* concludes from its records, and that it implements RunContract, for any *)
(* plan, any number of threads and any moment of a stop.                   *)
(***************************************************************************)
EXTENDS Evidence, SumTheorems

-----------------------------------------------------------------------------
(* The inductive invariant.                                                *)

Mains == {"looping", "pool", "draining", "verifying", "awaiting", "closing", "ended"}

Inner == {"creating", "starting", "started", "watching", "killing", "removing"}

\* RunTypeOK, with the places of a stage named.
RunTyped ==
  /\ main \in Mains
  /\ batch \in 1..Batches + 1 /\ turn \in Nat
  /\ status \in {"running", "completed", "cancelled", "cleanup_failed"}
  /\ manifest \in {"running", "completed", "cancelled", "cleanup_failed", "interrupted"}
  /\ stop \in BOOLEAN
  /\ at \in [Stages -> Inner \cup {"waiting", "ended", "raised"}]
  /\ box \in [Stages -> {"none", "ordered", "created", "starting", "running", "exited"}]
  /\ outcome \in [Stages -> Outcomes]
  /\ left \in [Stages -> BOOLEAN]
  /\ record \in [Trials -> Records]

\* What the place of a stage says of its container and of its outcome.
StageSound(s) ==
  /\ at[s] \in {"waiting", "creating", "starting", "started", "watching"} => outcome[s] = "none"
  /\ at[s] \in {"waiting", "creating"} => box[s] = "none"
  /\ at[s] = "starting" => box[s] = "created"
  /\ at[s] = "killing" => outcome[s] \in {"cancelled", "timeout"}
  /\ at[s] = "removing" =>
       outcome[s] # "none" /\ (outcome[s] = "passed" => box[s] = "exited")
  /\ ~Over(s) => ~left[s]
  /\ Over(s) => outcome[s] # "none" /\ (at[s] = "raised" <=> outcome[s] = "runner_error")
  /\ Over(s) /\ ~left[s] => box[s] \in {"none", "ordered", "created"}
  /\ Over(s) /\ ~left[s] /\ outcome[s] = "passed" => box[s] = "none"
  /\ outcome[s] = "cancelled" => stop

\* What a record says of the stages of its trial.
RecordSound(t) ==
  /\ record[t] = "none" <=> ~Over(Work(t))
  /\ record[t] = "pending_verification" => t \in Verified /\ outcome[Work(t)] = "passed"
  /\ record[t] = "passed" /\ t \in Verified =>
       /\ outcome[Work(t)] = "passed"
       /\ at[Check(t)] = "ended" /\ outcome[Check(t)] = "passed" /\ ~left[Check(t)]
  /\ record[t] = "cancelled" => stop
  /\ record[t] = "runner_error" => at[Work(t)] = "raised"

\* Nothing of the stage is under way, raised or left behind.
Calm(s) == at[s] \in {"waiting", "ended"} /\ ~left[s]

\* What may stir, by the place of the main thread.
InPlace ==
  /\ main \in {"looping", "verifying"} => \A s \in Stages : Calm(s)
  /\ main \in {"pool", "draining"} =>
       \A s \in Stages : Calm(s) \/ (s[2] = "work" /\ BatchOf[s[1]] = batch)
  /\ main = "awaiting" =>
       \A s \in Stages : Calm(s) \/ (s[2] = "verify" /\ Current(s[1]))
  /\ main \in {"closing", "ended"} =>
       /\ \A s \in Stages : at[s] \in {"waiting", "ended", "raised"}
       /\ \A s, u \in Stages :
            \/ Calm(s) \/ Calm(u) \/ s = u
            \/ s[2] = "work" /\ u[2] = "work" /\ BatchOf[s[1]] = BatchOf[u[1]]

\* How far the records of a trial's batch are decided.
OrderSound(t) ==
  /\ BatchOf[t] < batch => record[t] \notin {"none", "pending_verification"}
  /\ BatchOf[t] = batch /\ main \in {"verifying", "awaiting"} =>
       record[t] # "none" /\ (t < turn => record[t] # "pending_verification")
  /\ main = "awaiting" /\ Current(t) => record[t] = "pending_verification"

\* What the run's status says of its stages and records.
StatusSound ==
  /\ main \in {"pool", "draining", "verifying", "awaiting"} => batch <= Batches
  /\ main \notin {"closing", "ended"} => status = "running"
  /\ manifest = IF main # "ended" THEN "running"
                ELSE IF status = "running" THEN "interrupted" ELSE status
  /\ main = "draining" => \E s \in Stages : at[s] = "raised"
  /\ main \in {"closing", "ended"} =>
       (status = "running" <=> \E s \in Stages : at[s] = "raised")
  /\ status = "completed" =>
       /\ \A s \in Stages : Calm(s)
       /\ \A t \in Trials : record[t] \notin {"none", "pending_verification", "cancelled"}

\* No profile has more busy threads than it may have.
Threads == batch <= Batches => Cardinality(Busy) <= Concurrency[batch]

RunInv ==
  /\ RunTyped
  /\ \A s \in Stages : StageSound(s)
  /\ \A t \in Trials : RecordSound(t) /\ OrderSound(t)
  /\ InPlace /\ StatusSound /\ Threads

-----------------------------------------------------------------------------
(* Facts about stages and trials.                                          *)

LEMMA StageForm ==
  /\ \A t \in Trials :
       /\ Work(t) \in Stages /\ Work(t)[1] = t /\ Work(t)[2] = "work"
       /\ Check(t) \in Stages /\ Check(t)[1] = t /\ Check(t)[2] = "verify"
  /\ \A s \in Stages :
       /\ s[1] \in Trials
       /\ \/ s[2] = "work" /\ s = Work(s[1])
          \/ s[2] = "verify" /\ s = Check(s[1])
<1>1. ASSUME NEW t \in Trials
      PROVE  /\ Work(t) \in Stages /\ Work(t)[1] = t /\ Work(t)[2] = "work"
             /\ Check(t) \in Stages /\ Check(t)[1] = t /\ Check(t)[2] = "verify"
  BY DEF Stages, Work, Check
<1>2. ASSUME NEW s \in Stages
      PROVE  /\ s[1] \in Trials
             /\ \/ s[2] = "work" /\ s = Work(s[1])
                \/ s[2] = "verify" /\ s = Check(s[1])
  <2>1. PICK t \in Trials, k \in {"work", "verify"} : s = <<t, k>>
    BY DEF Stages
  <2>2. s[1] = t /\ s[2] = k
    BY <2>1
  <2>3. QED
    BY <2>1, <2>2 DEF Work, Check
<1>3. QED
  BY <1>1, <1>2

LEMMA TrialForm ==
  \A t \in Trials : t \in Nat /\ BatchOf[t] \in 1..Batches
BY BatchesAssumption

LEMMA StagesFinite == IsFiniteSet(Stages) /\ \A S \in SUBSET Stages : IsFiniteSet(S)
<1>1. IsFiniteSet({"work", "verify"})
  <2>1. IsFiniteSet({"work"})
    BY FS_Singleton
  <2>2. IsFiniteSet({"work"} \cup {"verify"})
    BY <2>1, FS_AddElement
  <2>3. {"work"} \cup {"verify"} = {"work", "verify"}
    OBVIOUS
  <2>4. QED
    BY <2>2, <2>3, Zenon
<1>2. IsFiniteSet(Stages)
  BY <1>1, BatchesAssumption, FS_Product DEF Stages
<1>3. QED
  BY <1>2, FS_Subset

\* Only one trial is current.
LEMMA CurrentUnique ==
  ASSUME NEW t \in Trials, NEW u \in Trials, Current(t), Current(u)
  PROVE  t = u
BY TrialForm DEF Current, InBatch

\* Threads holds as long as no stage becomes busy.
LEMMA FewerThreads ==
  ASSUME Threads, Busy' \subseteq Busy, batch' = batch, RunTyped
  PROVE  Threads'
<1> SUFFICES ASSUME batch <= Batches
             PROVE  Cardinality(Busy') <= Concurrency[batch]
  BY DEF Threads
<1>1. Busy \in SUBSET Stages
  BY DEF Busy
<1>2. IsFiniteSet(Busy)
  BY <1>1, StagesFinite
<1>3. Cardinality(Busy') <= Cardinality(Busy) /\ Cardinality(Busy) \in Nat /\ Cardinality(Busy') \in Nat
  BY <1>2, FS_Subset, FS_CardinalityType
<1>4. Concurrency[batch] \in Nat
  BY BatchesAssumption DEF RunTyped
<1>5. QED
  BY <1>3, <1>4 DEF Threads

\* One more is allowed when there is an idle thread.
LEMMA OneMoreThread ==
  ASSUME RunTyped, IdleThread, NEW s, Busy' \subseteq Busy \cup {s}, batch' = batch
  PROVE  Threads'
<1> SUFFICES ASSUME batch <= Batches
             PROVE  Cardinality(Busy') <= Concurrency[batch]
  BY DEF Threads
<1>1. Busy \in SUBSET Stages
  BY DEF Busy
<1>2. IsFiniteSet(Busy) /\ Cardinality(Busy) \in Nat
  BY <1>1, StagesFinite, FS_CardinalityType
<1>3. IsFiniteSet(Busy \cup {s}) /\ Cardinality(Busy \cup {s}) <= Cardinality(Busy) + 1
  <2> DEFINE B == Busy
  <2>1. IsFiniteSet(B) /\ Cardinality(B) \in Nat
    BY <1>2
  <2> HIDE DEF B
  <2>2. IsFiniteSet(B \cup {s})
    BY <2>1, FS_AddElement, Zenon
  <2>3. Cardinality(B \cup {s}) = IF s \in B THEN Cardinality(B) ELSE Cardinality(B) + 1
    BY <2>1, FS_AddElement, Zenon
  <2>4. Cardinality(B \cup {s}) <= Cardinality(B) + 1
    BY <2>1, <2>3
  <2>5. QED
    BY <2>2, <2>4 DEF B
<1>4. Cardinality(Busy') <= Cardinality(Busy \cup {s})
      /\ Cardinality(Busy') \in Nat /\ Cardinality(Busy \cup {s}) \in Nat
  BY <1>3, FS_Subset, FS_CardinalityType
<1>5. Concurrency[batch] \in Nat
  BY BatchesAssumption DEF RunTyped
<1>6. QED
  BY <1>2, <1>3, <1>4, <1>5 DEF IdleThread

\* When all is calm, nothing is busy and a thread is idle.
LEMMA CalmIsIdle ==
  ASSUME RunTyped, \A s \in Stages : at[s] \in {"waiting", "ended", "raised"}
  PROVE  Busy = {} /\ Threads /\ (batch <= Batches => IdleThread)
<1>1. Busy = {}
  BY DEF Busy, Over
<1>2. Cardinality(Busy) = 0
  BY <1>1, FS_EmptySet
<1>3. batch <= Batches => Concurrency[batch] \in Nat \ {0}
  BY BatchesAssumption DEF RunTyped
<1>4. QED
  BY <1>1, <1>2, <1>3 DEF Threads, IdleThread

-----------------------------------------------------------------------------
(* The invariant holds initially.                                          *)

LEMMA InitSound == RunInit => RunInv
<1> SUFFICES ASSUME RunInit PROVE RunInv
  OBVIOUS
<1>1. RunTyped
  <2>1. 1 \in 1..Batches + 1
    BY BatchesAssumption
  <2>2. left \in [Stages -> BOOLEAN] /\ stop \in BOOLEAN
    BY DEF RunInit
  <2>3. at \in [Stages -> Inner \cup {"waiting", "ended", "raised"}]
    BY DEF RunInit
  <2>4. outcome \in [Stages -> Outcomes] /\ record \in [Trials -> Records]
    BY DEF RunInit, Outcomes, Records
  <2>5. box \in [Stages -> {"none", "ordered", "created", "starting", "running", "exited"}]
    BY DEF RunInit
  <2>6. QED
    BY <2>1, <2>2, <2>3, <2>4, <2>5 DEF RunInit, RunTyped, Mains
<1>2. \A s \in Stages : StageSound(s)
  BY DEF RunInit, StageSound, Over
<1>3. \A t \in Trials : RecordSound(t)
  BY StageForm DEF RunInit, RecordSound, Over
<1>4. \A t \in Trials : OrderSound(t)
  BY TrialForm DEF RunInit, OrderSound
<1>5. \A s \in Stages : Calm(s)
  BY DEF RunInit, Calm
<1>6. InPlace
  BY <1>5 DEF RunInit, InPlace
<1>7. StatusSound
  BY DEF RunInit, StatusSound
<1>8. Threads
  BY <1>1, <1>5, CalmIsIdle DEF Calm
<1>9. QED
  BY <1>1, <1>2, <1>3, <1>4, <1>6, <1>7, <1>8 DEF RunInv

-----------------------------------------------------------------------------
(* Steps of a stage that is under way and stays under way.                 *)

Boxes == {"none", "ordered", "created", "starting", "running", "exited"}

Progress(s) ==
  /\ at[s] \in Inner
  /\ \E p \in Inner : at' = [at EXCEPT ![s] = p]
  /\ \E b \in Boxes : box' = [box EXCEPT ![s] = b]
  /\ \E o \in Outcomes : outcome' = [outcome EXCEPT ![s] = o]
  /\ UNCHANGED <<mainVars, stop, left, record>>

\* Such a step only matters to its stage.
LEMMA ProgressFrame ==
  ASSUME RunInv, NEW s \in Stages, Progress(s), StageSound(s)'
  PROVE  RunInv'
<1> USE DEF RunInv
<1>1. RunTyped'
  BY DEF Progress, RunTyped, Inner, Boxes, mainVars
<1>2. \A u \in Stages : u # s => at'[u] = at[u] /\ box'[u] = box[u] /\ outcome'[u] = outcome[u]
  BY DEF Progress, RunTyped
<1>3. at[s] \in Inner /\ at'[s] \in Inner
  BY DEF Progress, RunTyped
<1>4. \A u \in Stages : (Over(u) <=> Over(u)') /\ (Calm(u) <=> Calm(u)')
  BY <1>2, <1>3 DEF Progress, Over, Calm, Inner
<1>5. \A u \in Stages : StageSound(u)'
  <2> SUFFICES ASSUME NEW u \in Stages, u # s PROVE StageSound(u)'
    OBVIOUS
  <2>1. StageSound(u)
    OBVIOUS
  <2>2. QED
    BY <1>2, <2>1 DEF Progress, StageSound, Over
<1>6. \A u \in Stages : Over(u) => at'[u] = at[u] /\ outcome'[u] = outcome[u]
  BY <1>2, <1>3 DEF Over, Inner
<1>7. \A t \in Trials : RecordSound(t)'
  <2> SUFFICES ASSUME NEW t \in Trials PROVE RecordSound(t)'
    OBVIOUS
  <2>1. RecordSound(t) /\ record' = record /\ left' = left /\ stop' = stop
    BY DEF Progress
  <2>2. Work(t) \in Stages /\ Check(t) \in Stages
    BY StageForm
  <2>3. record[t] # "none" => at'[Work(t)] = at[Work(t)] /\ outcome'[Work(t)] = outcome[Work(t)]
    BY <1>6, <2>1, <2>2 DEF RecordSound
  <2>4. at[Check(t)] = "ended" => at'[Check(t)] = "ended" /\ outcome'[Check(t)] = outcome[Check(t)]
    BY <1>6, <2>2 DEF Over
  <2>5. Over(Work(t)) <=> Over(Work(t))'
    BY <1>4, <2>2
  <2>6. QED
    BY <2>1, <2>3, <2>4, <2>5 DEF RecordSound
<1>8. \A t \in Trials : OrderSound(t)'
  BY DEF Progress, OrderSound, mainVars, Current, InBatch
<1>9. InPlace'
  BY <1>2, <1>3, <1>4 DEF Progress, InPlace, mainVars, Current, InBatch, Inner
<1>10. main \notin {"closing", "ended"} /\ status # "completed"
  BY <1>3 DEF InPlace, StatusSound, Inner
<1>11. StatusSound'
  <2>1. \A u \in Stages : at[u] = "raised" => at'[u] = "raised"
    BY <1>2, <1>3 DEF Inner
  <2>2. QED
    BY <1>10, <2>1 DEF Progress, StatusSound, mainVars
<1>12. Threads'
  <2>1. Busy' = Busy
    BY <1>2, <1>3 DEF Busy, Over, Inner
  <2>2. QED
    BY <2>1, FewerThreads DEF Progress, mainVars
<1>13. QED
  BY <1>1, <1>5, <1>7, <1>8, <1>9, <1>11, <1>12

LEMMA InnerStep ==
  ASSUME RunInv, NEW s \in Stages,
         Create(s) \/ Start(s) \/ StartReturns(s) \/ Look(s) \/ Kill(s) \/ Breaks(s)
  PROVE  RunInv'
<1> USE DEF RunInv
<1>1. StageSound(s) /\ RunTyped
  OBVIOUS
<1>2. at[s] \in Inner => ~left[s] /\ left[s] \in BOOLEAN
  BY <1>1 DEF StageSound, Over, Inner, RunTyped
<1>3. CASE Create(s)
  <2>1. Progress(s)
    BY <1>1, <1>3 DEF Create, Concludes, Progress, RunTyped, Inner, Boxes, Outcomes
  <2>2. StageSound(s)'
    BY <1>1, <1>2, <1>3 DEF Create, Concludes, StageSound, RunTyped, Inner, Over
  <2>3. QED
    BY <2>1, <2>2, ProgressFrame
<1>4. CASE Start(s)
  <2>1. Progress(s)
    BY <1>1, <1>4 DEF Start, Goes, Progress, RunTyped, Inner, Boxes, Outcomes
  <2>2. StageSound(s)'
    BY <1>1, <1>2, <1>4 DEF Start, Goes, StageSound, RunTyped, Inner, Over
  <2>3. QED
    BY <2>1, <2>2, ProgressFrame
<1>5. CASE StartReturns(s)
  <2>1. Progress(s)
    BY <1>1, <1>5 DEF StartReturns, Concludes, Progress, RunTyped, Inner, Boxes, Outcomes
  <2>2. StageSound(s)'
    BY <1>1, <1>2, <1>5 DEF StartReturns, Concludes, StageSound, RunTyped, Inner, Over
  <2>3. QED
    BY <2>1, <2>2, ProgressFrame
<1>6. CASE Look(s)
  <2>1. Progress(s)
    BY <1>1, <1>6 DEF Look, Concludes, Progress, RunTyped, Inner, Boxes, Outcomes
  <2>2. StageSound(s)'
    BY <1>1, <1>2, <1>6 DEF Look, Concludes, StageSound, RunTyped, Inner, Over
  <2>3. QED
    BY <2>1, <2>2, ProgressFrame
<1>7. CASE Kill(s)
  <2>1. Progress(s)
    BY <1>1, <1>7 DEF Kill, Goes, Progress, RunTyped, Inner, Boxes, Outcomes
  <2>2. StageSound(s)'
    BY <1>1, <1>2, <1>7 DEF Kill, Goes, StageSound, RunTyped, Inner, Over
  <2>3. QED
    BY <2>1, <2>2, ProgressFrame
<1>8. CASE Breaks(s)
  <2>1. Progress(s)
    BY <1>1, <1>8 DEF Breaks, Concludes, Progress, RunTyped, Inner, Boxes, Outcomes
  <2>2. StageSound(s)'
    BY <1>1, <1>2, <1>8 DEF Breaks, Concludes, StageSound, RunTyped, Inner, Over
  <2>3. QED
    BY <2>1, <2>2, ProgressFrame
<1>9. QED
  BY <1>3, <1>4, <1>5, <1>6, <1>7, <1>8

-----------------------------------------------------------------------------
(* The end of a stage, the engine, and the stop event.                     *)

\* What Concluded makes of a record of a trial that has none.
LEMMA RecordedSound ==
  ASSUME NEW t \in Trials, NEW o \in Outcomes \ {"none"}
  PROVE  /\ Recorded(t, o) \in Records \ {"none"}
         /\ Recorded(t, o) = "pending_verification" => t \in Verified /\ o = "passed"
         /\ Recorded(t, o) = "passed" => t \notin Verified
         /\ Recorded(t, o) \in {"cancelled", "runner_error"} => Recorded(t, o) = o
BY DEF Recorded, Records, Outcomes

LEMMA SettleStep ==
  ASSUME RunInv, NEW s \in Stages, Settle(s)
  PROVE  RunInv'
<1> USE DEF RunInv
<1>1. PICK o \in {outcome[s], "runner_error"} : Concluded(s, o)
  BY DEF Settle
<1>2. PICK p \in {"ended", "raised"} : at' = [at EXCEPT ![s] = p]
                                       /\ (p = "raised" <=> o = "runner_error")
  BY <1>1 DEF Concluded
<1>3. at[s] = "removing" /\ UNCHANGED <<mainVars, stop>>
  BY DEF Settle
<1>4. PICK l \in BOOLEAN, b \in Boxes :
        /\ left' = [left EXCEPT ![s] = l] /\ box' = [box EXCEPT ![s] = b]
        /\ ~l => b = IF box[s] = "ordered" THEN "ordered" ELSE "none"
  <2>1. ~left[s] /\ left \in [Stages -> BOOLEAN] /\ box \in [Stages -> Boxes]
    BY <1>3 DEF StageSound, Over, RunTyped, Boxes
  <2>2. CASE left' = left /\ box' = [box EXCEPT ![s] = IF @ = "ordered" THEN @ ELSE "none"]
    <3>1. left' = [left EXCEPT ![s] = FALSE]
      BY <2>1, <2>2
    <3>2. QED
      BY <2>1, <2>2, <3>1 DEF Boxes
  <2>3. CASE /\ left' = [left EXCEPT ![s] = TRUE]
             /\ \E b \in {box[s], "none"} : box' = [box EXCEPT ![s] = b]
    BY <2>1, <2>3 DEF Boxes
  <2>4. QED
    BY <2>2, <2>3 DEF Settle
<1>5. o \in Outcomes \ {"none"} /\ outcome' = [outcome EXCEPT ![s] = o]
  <2>1. outcome[s] # "none" /\ outcome[s] \in Outcomes
    BY <1>3 DEF StageSound, RunTyped
  <2>2. QED
    BY <1>1, <2>1 DEF Concluded, Outcomes
<1>6. \/ s[2] = "verify" /\ record' = record
      \/ s = Work(s[1]) /\ record' = [record EXCEPT ![s[1]] = Recorded(s[1], o)]
  BY <1>1, StageForm DEF Concluded
<1>7. s[1] \in Trials /\ (s[2] = "verify" => s = Check(s[1]))
  BY StageForm
<1>8. RunTyped'
  <2>1. record' \in [Trials -> Records]
    BY <1>5, <1>6, <1>7, RecordedSound DEF RunTyped
  <2>2. QED
    BY <1>2, <1>3, <1>4, <1>5, <2>1 DEF RunTyped, mainVars, Boxes
<1>9. \A u \in Stages : u # s =>
        at'[u] = at[u] /\ box'[u] = box[u] /\ outcome'[u] = outcome[u] /\ left'[u] = left[u]
  BY <1>2, <1>4, <1>5 DEF RunTyped
<1>10. at'[s] = p /\ box'[s] = b /\ outcome'[s] = o /\ left'[s] = l
  BY <1>2, <1>4, <1>5 DEF RunTyped
<1>11. \A u \in Stages : StageSound(u)'
  <2> SUFFICES ASSUME NEW u \in Stages PROVE StageSound(u)'
    OBVIOUS
  <2>1. StageSound(u) /\ StageSound(s)
    OBVIOUS
  <2>2. CASE u # s
    BY <1>3, <1>9, <2>1, <2>2 DEF StageSound, Over
  <2>3. CASE u = s
    <3>1. Over(s)'
      BY <1>2, <1>10 DEF Over
    <3>2. o = "passed" /\ ~l => b = "none"
      BY <1>3, <1>4, <2>1 DEF StageSound
    <3>3. o = "cancelled" => stop'
      BY <1>3, <2>1 DEF StageSound
    <3>4. QED
      BY <1>2, <1>4, <1>5, <1>10, <2>3, <3>1, <3>2, <3>3 DEF StageSound
  <2>4. QED
    BY <2>2, <2>3
<1>12. ~Over(s) /\ Over(s)'
  BY <1>2, <1>3, <1>10 DEF Over
<1>13. \A t \in Trials : RecordSound(t)'
  <2> SUFFICES ASSUME NEW t \in Trials PROVE RecordSound(t)'
    OBVIOUS
  <2>1. RecordSound(t) /\ Work(t) \in Stages /\ Check(t) \in Stages
    BY StageForm
  <2>2. CASE s # Work(t)
    <3>1. record'[t] = record[t]
      BY <1>6, <1>7, <2>2 DEF RunTyped
    <3>2. Over(Work(t))' <=> Over(Work(t))
      BY <1>9, <2>1, <2>2 DEF Over
    <3>3. s = Check(t) => at[Check(t)] # "ended"
      BY <1>3
    <3>4. at[Check(t)] = "ended" =>
            at'[Check(t)] = "ended" /\ outcome'[Check(t)] = outcome[Check(t)]
            /\ left'[Check(t)] = left[Check(t)]
      BY <1>9, <2>1, <3>3
    <3>5. QED
      BY <1>3, <1>9, <2>1, <2>2, <3>1, <3>2, <3>4 DEF RecordSound
  <2>3. CASE s = Work(t)
    <3>1. s[1] = t /\ s[2] = "work"
      BY <2>3, StageForm
    <3>2. record'[t] = Recorded(t, o)
      BY <1>6, <3>1 DEF RunTyped
    <3>3. outcome[s] = "cancelled" => stop
      BY DEF StageSound
    <3>4. o = "cancelled" => stop'
      BY <1>3, <3>3
    <3>5. QED
      BY <1>2, <1>5, <1>10, <1>12, <2>3, <3>2, <3>4, RecordedSound DEF RecordSound, Records
  <2>4. QED
    BY <2>2, <2>3
<1>14. ~Calm(s) /\ main \in {"pool", "draining", "awaiting"}
  BY <1>3 DEF Calm, InPlace, RunTyped, Mains
<1>15. \A t \in Trials : OrderSound(t)'
  <2> SUFFICES ASSUME NEW t \in Trials PROVE OrderSound(t)'
    OBVIOUS
  <2>1. OrderSound(t) /\ RecordSound(t)
    OBVIOUS
  <2>2. CASE s # Work(t)
    <3>1. record'[t] = record[t]
      BY <1>6, <1>7, <2>2 DEF RunTyped
    <3>2. QED
      BY <1>3, <2>1, <3>1 DEF OrderSound, mainVars, Current, InBatch
  <2>3. CASE s = Work(t)
    <3>1. s[1] = t /\ s[2] = "work"
      BY <2>3, StageForm
    <3>2. main \in {"pool", "draining"} /\ BatchOf[t] = batch
      BY <1>14, <3>1 DEF InPlace
    <3>3. QED
      BY <1>3, <3>2, TrialForm DEF OrderSound, mainVars, RunTyped
  <2>4. QED
    BY <2>2, <2>3
<1>16. InPlace'
  <2>1. \A u \in Stages : Calm(u) => Calm(u)'
    BY <1>9, <1>14 DEF Calm
  <2>2. QED
    BY <1>3, <1>14, <2>1 DEF InPlace, mainVars, Current, InBatch
<1>17. StatusSound'
  <2>1. \A u \in Stages : at[u] = "raised" => at'[u] = "raised"
    BY <1>3, <1>9
  <2>2. QED
    BY <1>3, <1>14, <2>1 DEF StatusSound, mainVars
<1>18. Threads'
  <2>1. Busy' \subseteq Busy
    BY <1>9, <1>12 DEF Busy, Over
  <2>2. QED
    BY <1>3, <2>1, FewerThreads DEF mainVars
<1>19. QED
  BY <1>8, <1>11, <1>13, <1>15, <1>16, <1>17, <1>18

LEMMA EngineSound ==
  ASSUME RunInv, NEW s \in Stages, EngineStep(s)
  PROVE  RunInv'
<1> USE DEF RunInv
<1>1. UNCHANGED <<mainVars, stop, at, outcome, left, record>>
  BY DEF EngineStep
<1>2. PICK b \in Boxes :
        /\ box' = [box EXCEPT ![s] = b]
        /\ \/ box[s] = "ordered" /\ b = "created"
           \/ box[s] = "starting" /\ b = "running"
           \/ box[s] = "running" /\ b = "exited"
           \/ left[s] /\ b = "none"
  BY DEF EngineStep, Changes, Boxes
<1>3. RunTyped'
  BY <1>1, <1>2 DEF RunTyped, mainVars, Boxes
<1>4. \A u \in Stages : StageSound(u)'
  <2> SUFFICES ASSUME NEW u \in Stages PROVE StageSound(u)'
    OBVIOUS
  <2>1. StageSound(u) /\ (u # s => box'[u] = box[u]) /\ box'[s] = b
    BY <1>2 DEF RunTyped
  <2>2. left' = left /\ at' = at /\ outcome' = outcome /\ stop' = stop
    BY <1>1
  <2>3. CASE u # s
    BY <2>1, <2>2, <2>3 DEF StageSound, Over
  <2>4. CASE u = s
    BY <1>2, <2>1, <2>2, <2>4 DEF StageSound, Over
  <2>5. QED
    BY <2>3, <2>4
<1>5. \A t \in Trials : RecordSound(t)' /\ OrderSound(t)'
  BY <1>1 DEF RecordSound, OrderSound, Over, mainVars, Current, InBatch
<1>6. InPlace' /\ StatusSound'
  BY <1>1 DEF InPlace, StatusSound, Calm, mainVars, Current, InBatch
<1>7. Threads'
  BY <1>1 DEF Threads, Busy, Over, mainVars
<1>8. QED
  BY <1>3, <1>4, <1>5, <1>6, <1>7

LEMMA SignalSound ==
  ASSUME RunInv, Signal
  PROVE  RunInv'
<1> USE DEF RunInv
<1>1. UNCHANGED <<mainVars, at, box, outcome, left, record>> /\ stop' = TRUE
  BY DEF Signal, stageVars
<1>2. RunTyped'
  BY <1>1 DEF RunTyped, mainVars
<1>3. \A u \in Stages : StageSound(u)'
  BY <1>1 DEF StageSound, Over
<1>4. \A t \in Trials : RecordSound(t)' /\ OrderSound(t)'
  BY <1>1 DEF RecordSound, OrderSound, Over, mainVars, Current, InBatch
<1>5. InPlace' /\ StatusSound'
  BY <1>1 DEF InPlace, StatusSound, Calm, mainVars, Current, InBatch
<1>6. Threads'
  BY <1>1 DEF Threads, Busy, Over, mainVars
<1>7. QED
  BY <1>2, <1>3, <1>4, <1>5, <1>6

-----------------------------------------------------------------------------
(* Steps of the main thread that leave stages and records alone.           *)

LEMMA MainFrame ==
  ASSUME RunInv, UNCHANGED <<stop, stageVars, record>>
  PROVE  /\ \A s \in Stages : StageSound(s)' /\ at'[s] = at[s] /\ (Calm(s)' <=> Calm(s))
         /\ \A t \in Trials : RecordSound(t)' /\ record'[t] = record[t]
         /\ batch' = batch => Threads'
         /\ Busy' = Busy
<1> USE DEF RunInv, stageVars
<1>1. \A s \in Stages : StageSound(s)'
  BY DEF StageSound, Over
<1>2. \A t \in Trials : RecordSound(t)'
  BY DEF RecordSound, Over
<1>3. \A s \in Stages : Calm(s)' <=> Calm(s)
  BY DEF Calm
<1>4. Busy' = Busy
  BY DEF Busy, Over
<1>5. batch' = batch => Threads'
  BY <1>4 DEF Threads
<1>6. QED
  BY <1>1, <1>2, <1>3, <1>4, <1>5

LEMMA NextBatchStep ==
  ASSUME RunInv, NextBatch
  PROVE  RunInv'
<1> USE DEF RunInv, NextBatch
<1>1. UNCHANGED <<stop, stageVars, record, batch, turn, status, manifest>>
  OBVIOUS
<1>2. RunTyped'
  BY <1>1 DEF RunTyped, Mains, stageVars
<1>3. \A t \in Trials : OrderSound(t)'
  BY <1>1 DEF OrderSound
<1>4. InPlace'
  BY <1>1, MainFrame DEF InPlace
<1>5. StatusSound'
  BY <1>1, MainFrame DEF StatusSound
<1>6. QED
  BY <1>1, <1>2, <1>3, <1>4, <1>5, MainFrame

LEMMA PoolRaisesStep ==
  ASSUME RunInv, NEW t \in Trials, PoolRaises(t)
  PROVE  RunInv'
<1> USE DEF RunInv, PoolRaises
<1>1. UNCHANGED <<stop, stageVars, record, batch, turn, status, manifest>>
  OBVIOUS
<1>2. RunTyped'
  BY <1>1 DEF RunTyped, Mains, stageVars
<1>3. \A u \in Trials : OrderSound(u)'
  BY <1>1 DEF OrderSound
<1>4. InPlace'
  BY <1>1, MainFrame DEF InPlace
<1>5. StatusSound'
  BY <1>1, MainFrame, StageForm DEF StatusSound
<1>6. QED
  BY <1>1, <1>2, <1>3, <1>4, <1>5, MainFrame

LEMMA PoolDrainedStep ==
  ASSUME RunInv, PoolDrained
  PROVE  RunInv'
<1> USE DEF RunInv, PoolDrained
<1>1. UNCHANGED <<stop, stageVars, record, batch, turn, status, manifest>>
  OBVIOUS
<1>2. RunTyped'
  BY <1>1 DEF RunTyped, Mains, stageVars
<1>3. \A t \in Trials : OrderSound(t)'
  BY <1>1 DEF OrderSound
<1>4. InPlace'
  BY <1>1, MainFrame DEF InPlace, Drained, Busy, Over
<1>5. StatusSound'
  BY <1>1, MainFrame DEF StatusSound
<1>6. QED
  BY <1>1, <1>2, <1>3, <1>4, <1>5, MainFrame

\* The loop is left: nothing is busy, and what is not calm is of one batch.
LEMMA LeaveSound ==
  ASSUME RunInv, NEW s \in {"completed", "cleanup_failed"}, Leave(s),
         turn' \in Nat, UNCHANGED <<stop, stageVars>>, RunTyped', main \notin {"closing", "ended"},
         \A u \in Stages : StageSound(u)',
         \A t \in Trials : RecordSound(t)',
         \A t \in Trials : BatchOf[t] < batch => record'[t] = record[t],
         \A u \in Stages : at[u] \in {"waiting", "ended"},
         s = "completed" =>
           /\ \A u \in Stages : Calm(u)
           /\ \A t \in Trials : record'[t] \notin {"none", "pending_verification"},
         \A u, w \in Stages :
           \/ Calm(u) \/ Calm(w) \/ u = w
           \/ u[2] = "work" /\ w[2] = "work" /\ BatchOf[u[1]] = BatchOf[w[1]]
  PROVE  RunInv'
<1> USE DEF RunInv, Leave, stageVars
<1>1. main' = "closing" /\ batch' = batch /\ manifest' = manifest /\ stop' = stop
  OBVIOUS
<1>2. \A t \in Trials : OrderSound(t)'
  BY <1>1 DEF OrderSound
<1>3. \A u \in Stages : Calm(u)' <=> Calm(u)
  BY DEF Calm
<1>4. InPlace'
  BY <1>1, <1>3 DEF InPlace
<1>5. status' \in {"completed", "cleanup_failed", "cancelled"} /\ (status' = "completed" => s = "completed" /\ ~stop')
  BY DEF RunTyped
<1>6. StatusSound'
  <2>1. manifest' = "running"
    BY <1>1 DEF StatusSound
  <2>2. ~\E u \in Stages : at'[u] = "raised"
    OBVIOUS
  <2>3. status' = "completed" => \A t \in Trials : record'[t] # "cancelled"
    BY <1>5 DEF RecordSound
  <2>4. QED
    BY <1>1, <1>3, <1>5, <2>1, <2>2, <2>3 DEF StatusSound
<1>7. Threads'
  BY <1>1 DEF Threads, Busy, Over
<1>8. QED
  BY <1>2, <1>4, <1>6, <1>7

LEMMA PoolReturnsStep ==
  ASSUME RunInv, PoolReturns
  PROVE  RunInv'
<1> USE DEF RunInv
<1>1. UNCHANGED <<stop, stageVars, record>> /\ main = "pool"
  BY DEF PoolReturns
<1>2. \A s \in Stages : at[s] \in {"waiting", "ended"}
  <2>1. \A t \in Trials : BatchOf[t] = batch => at[Work(t)] = "ended"
    BY DEF PoolReturns, Returned, InBatch
  <2>2. \A s \in Stages : Calm(s) \/ (s = Work(s[1]) /\ s[1] \in Trials /\ BatchOf[s[1]] = batch)
    BY <1>1, StageForm DEF InPlace
  <2>3. QED
    BY <2>1, <2>2 DEF Calm
<1>3. CASE CleanupFailed
  <2>1. Leave("cleanup_failed") /\ turn' = turn
    BY <1>3 DEF PoolReturns
  <2>2. RunTyped'
    BY <1>1, <2>1 DEF Leave, RunTyped, Mains, stageVars
  <2>3. QED
    BY <1>1, <1>2, <2>1, <2>2, MainFrame, LeaveSound DEF RunTyped, InPlace
<1>4. CASE ~CleanupFailed
  <2>1. main' = "verifying" /\ turn' = 0 /\ UNCHANGED <<batch, status, manifest>>
    BY <1>4 DEF PoolReturns
  <2>2. RunTyped'
    BY <1>1, <2>1 DEF RunTyped, Mains, stageVars
  <2>3. \A s \in Stages : Calm(s)
    BY <1>1, <1>2, <1>4, StageForm DEF InPlace, Calm, CleanupFailed
  <2>4. \A t \in Trials : BatchOf[t] = batch => record[t] # "none" /\ ~(t < 0)
    BY TrialForm DEF PoolReturns, Returned, InBatch, RecordSound, Over
  <2>5. \A t \in Trials : OrderSound(t)'
    BY <1>1, <2>1, <2>4 DEF OrderSound
  <2>6. InPlace' /\ StatusSound'
    BY <1>1, <2>1, <2>3, MainFrame DEF InPlace, StatusSound
  <2>7. QED
    BY <1>1, <2>1, <2>2, <2>5, <2>6, MainFrame
<1>5. QED
  BY <1>3, <1>4

LEMMA SkipTrialStep ==
  ASSUME RunInv, NEW t \in Trials, SkipTrial(t)
  PROVE  RunInv'
<1> USE DEF RunInv
<1>1. UNCHANGED <<main, batch, status, manifest, stop, stageVars, record>>
      /\ main = "verifying" /\ turn' = t + 1
  BY DEF SkipTrial
<1>2. RunTyped'
  BY <1>1, TrialForm DEF RunTyped, stageVars
<1>3. \A u \in Trials : BatchOf[u] = batch /\ u < t + 1 => u < turn \/ u = t
  BY <1>2, TrialForm DEF SkipTrial, Current, InBatch, RunTyped
<1>4. record[t] # "pending_verification"
  BY DEF SkipTrial, Pending, RecordSound
<1>5. \A u \in Trials : OrderSound(u)'
  BY <1>1, <1>3, <1>4 DEF OrderSound
<1>6. InPlace' /\ StatusSound'
  BY <1>1, MainFrame DEF InPlace, StatusSound
<1>7. QED
  BY <1>1, <1>2, <1>5, <1>6, MainFrame

LEMMA BatchVerifiedStep ==
  ASSUME RunInv, BatchVerified
  PROVE  RunInv'
<1> USE DEF RunInv
<1>1. UNCHANGED <<turn, status, manifest, stop, stageVars, record>>
      /\ main = "verifying" /\ main' = "looping" /\ batch' = batch + 1 /\ batch <= Batches
  BY DEF BatchVerified, StatusSound
<1>2. RunTyped'
  BY <1>1, BatchesAssumption DEF RunTyped, Mains, stageVars
<1>3. \A t \in Trials : BatchOf[t] < batch + 1 => BatchOf[t] < batch \/ (BatchOf[t] = batch /\ t < turn)
  BY TrialForm DEF BatchVerified, InBatch, RunTyped
<1>4. \A t \in Trials : OrderSound(t)'
  BY <1>1, <1>3 DEF OrderSound
<1>5. InPlace' /\ StatusSound'
  BY <1>1, MainFrame DEF InPlace, StatusSound
<1>6. Threads'
  <2>1. \A s \in Stages : Calm(s)'
    BY <1>1, MainFrame DEF InPlace
  <2>2. Busy' = {} /\ Cardinality(Busy') = 0
    BY <2>1, FS_EmptySet DEF Busy, Over, Calm
  <2>3. batch' <= Batches => Concurrency'[batch'] \in Nat
    BY <1>2, BatchesAssumption DEF RunTyped
  <2>4. QED
    BY <2>2, <2>3 DEF Threads
<1>7. QED
  BY <1>1, <1>2, <1>4, <1>5, <1>6, MainFrame

LEMMA LoopEndsStep ==
  ASSUME RunInv, LoopEnds
  PROVE  RunInv'
<1> USE DEF RunInv
<1>1. UNCHANGED <<turn, stop, stageVars, record>> /\ main = "looping" /\ Leave("completed")
  BY DEF LoopEnds
<1>2. \A s \in Stages : Calm(s)
  BY <1>1 DEF InPlace
<1>3. RunTyped'
  BY <1>1 DEF Leave, RunTyped, Mains, stageVars
<1>4. CASE stop
  <2>1. Leave("cleanup_failed")
    BY <1>1, <1>4 DEF Leave
  <2>2. QED
    BY <1>1, <1>2, <1>3, <2>1, MainFrame, LeaveSound DEF RunTyped, Calm
<1>5. CASE batch > Batches
  <2>1. \A t \in Trials : BatchOf[t] < batch
    BY <1>5, TrialForm, BatchesAssumption DEF RunTyped
  <2>2. \A t \in Trials : record'[t] \notin {"none", "pending_verification"}
    BY <1>1, <2>1 DEF OrderSound
  <2>3. QED
    BY <1>1, <1>2, <1>3, <2>2, MainFrame, LeaveSound DEF RunTyped, Calm
<1>6. QED
  BY <1>4, <1>5 DEF LoopEnds

LEMMA CloseStep ==
  ASSUME RunInv, Close
  PROVE  RunInv'
<1> USE DEF RunInv
<1>1. UNCHANGED <<batch, turn, status, stop, stageVars, record>>
      /\ main = "closing" /\ main' = "ended"
      /\ manifest' = IF status = "running" THEN "interrupted" ELSE status
  BY DEF Close
<1>2. RunTyped'
  BY <1>1 DEF RunTyped, Mains, stageVars
<1>3. \A t \in Trials : OrderSound(t)'
  BY <1>1 DEF OrderSound
<1>4. InPlace' /\ StatusSound'
  BY <1>1, MainFrame DEF InPlace, StatusSound
<1>5. QED
  BY <1>1, <1>2, <1>3, <1>4, MainFrame

-----------------------------------------------------------------------------
(* The beginning of a stage.                                               *)

LEMMA BeginSound ==
  ASSUME RunInv, NEW s \in Stages, at[s] = "waiting", Begins(s), UNCHANGED <<stop, box, left>>
  PROVE  /\ at' \in [Stages -> Inner \cup {"waiting", "ended", "raised"}]
         /\ outcome' \in [Stages -> Outcomes] /\ record' \in [Trials -> Records]
         /\ at'[s] \in {"creating", "ended"}
         /\ \A u \in Stages : u # s => at'[u] = at[u] /\ (Calm(u)' <=> Calm(u))
         /\ \A u \in Stages : at[u] = "raised" => at'[u] = "raised"
         /\ \A u \in Stages : StageSound(u)'
         /\ \A t \in Trials : RecordSound(t)'
         /\ \A t \in Trials : record'[t] = record[t] \/ (s = Work(t) /\ record'[t] = "cancelled")
         /\ Busy' \subseteq Busy \cup {s}
<1> USE DEF RunInv
<1>1. PICK p \in {"creating", "ended"}, o \in {"none", "cancelled"} :
        /\ at' = [at EXCEPT ![s] = p] /\ outcome' = [outcome EXCEPT ![s] = o]
        /\ p = "creating" => o = "none" /\ record' = record
        /\ p = "ended" => stop /\ o = "cancelled"
                          /\ record' = IF s[2] = "work"
                                       THEN [record EXCEPT ![s[1]] = "cancelled"] ELSE record
  <2>1. outcome = [outcome EXCEPT ![s] = "none"]
    BY DEF RunTyped, StageSound
  <2>2. CASE stop
    BY <2>2 DEF Begins, Concluded, Recorded
  <2>3. CASE ~stop
    BY <2>1, <2>3 DEF Begins
  <2>4. QED
    BY <2>2, <2>3
<1>2. /\ at' \in [Stages -> Inner \cup {"waiting", "ended", "raised"}]
      /\ outcome' \in [Stages -> Outcomes] /\ record' \in [Trials -> Records]
  BY <1>1, StageForm DEF RunTyped, Inner, Outcomes, Records
<1>3. at'[s] = p /\ outcome'[s] = o
      /\ \A u \in Stages : u # s => at'[u] = at[u] /\ outcome'[u] = outcome[u]
  BY <1>1 DEF RunTyped
<1>4. ~left[s] /\ box[s] = "none"
  BY DEF StageSound, Over
<1>5. \A u \in Stages : StageSound(u)'
  <2> SUFFICES ASSUME NEW u \in Stages PROVE StageSound(u)'
    OBVIOUS
  <2>1. StageSound(u)
    OBVIOUS
  <2>2. CASE u # s
    BY <1>3, <2>1, <2>2 DEF StageSound, Over
  <2>3. CASE u = s
    BY <1>1, <1>3, <1>4, <2>3 DEF StageSound, Over
  <2>4. QED
    BY <2>2, <2>3
<1>6. \A t \in Trials : record'[t] = IF s = Work(t) /\ p = "ended" THEN "cancelled" ELSE record[t]
  BY <1>1, StageForm DEF RunTyped
<1>7. \A t \in Trials : RecordSound(t)'
  <2> SUFFICES ASSUME NEW t \in Trials PROVE RecordSound(t)'
    OBVIOUS
  <2>1. RecordSound(t) /\ Work(t) \in Stages /\ Check(t) \in Stages
    BY StageForm
  <2>2. CASE s = Work(t)
    <3>1. record[t] = "none"
      BY <2>1, <2>2 DEF RecordSound, Over
    <3>2. QED
      BY <1>1, <1>3, <1>6, <2>2, <3>1 DEF RecordSound, Over
  <2>3. CASE s # Work(t)
    <3>1. record'[t] = record[t] /\ (s = Check(t) => at[Check(t)] # "ended")
      BY <1>6, <2>3
    <3>2. QED
      BY <1>3, <2>1, <2>3, <3>1 DEF RecordSound, Over
  <2>4. QED
    BY <2>2, <2>3
<1>8. Busy' \subseteq Busy \cup {s}
  BY <1>3 DEF Busy, Over
<1>9. QED
  BY <1>2, <1>3, <1>5, <1>6, <1>7, <1>8 DEF Calm

LEMMA TakeTrialStep ==
  ASSUME RunInv, NEW t \in Trials, TakeTrial(t)
  PROVE  RunInv'
<1> USE DEF RunInv
<1>1. Work(t) \in Stages /\ Work(t)[1] = t /\ Work(t)[2] = "work"
  BY StageForm
<1>2. main = "pool" /\ BatchOf[t] = batch /\ at[Work(t)] = "waiting" /\ IdleThread
      /\ Begins(Work(t)) /\ UNCHANGED <<mainVars, stop, box, left>>
  BY DEF TakeTrial, InBatch
<1>3. \A s \in Stages : s # Work(t) => (Calm(s)' <=> Calm(s))
  BY <1>1, <1>2, BeginSound
<1>4. RunTyped'
  BY <1>1, <1>2, BeginSound DEF RunTyped, mainVars
<1>5. \A u \in Trials : OrderSound(u)'
  <2> SUFFICES ASSUME NEW u \in Trials PROVE OrderSound(u)'
    OBVIOUS
  <2>1. record'[u] = record[u] \/ record'[u] = "cancelled"
    BY <1>1, <1>2, BeginSound
  <2>2. QED
    BY <1>2, <2>1 DEF OrderSound, mainVars
<1>6. InPlace'
  BY <1>1, <1>2, <1>3 DEF InPlace, mainVars
<1>7. StatusSound'
  BY <1>2 DEF StatusSound, mainVars
<1>8. Threads'
  <2>1. Busy' \subseteq Busy \cup {Work(t)}
    BY <1>1, <1>2, BeginSound
  <2>2. QED
    BY <1>2, <2>1, OneMoreThread DEF mainVars
<1>9. QED
  BY <1>1, <1>2, <1>4, <1>5, <1>6, <1>7, <1>8, BeginSound

\* While trials are verified, a current one is of the batch at hand.
LEMMA CurrentForm ==
  ASSUME RunInv, main \in {"verifying", "awaiting"}, NEW t \in Trials, Current(t)
  PROVE  /\ BatchOf[t] = batch /\ turn <= t
         /\ \A u \in Trials : BatchOf[u] = batch /\ u < t + 1 => u < turn \/ u = t
BY TrialForm DEF RunInv, RunTyped, Current, InBatch

LEMMA NoVerifierStep ==
  ASSUME RunInv, NEW t \in Trials, NoVerifier(t)
  PROVE  RunInv'
<1> USE DEF RunInv
<1>1. UNCHANGED <<main, batch, status, manifest, stop, stageVars>> /\ main = "verifying"
      /\ turn' = t + 1 /\ Current(t) /\ record[t] = "pending_verification"
  BY DEF NoVerifier, Pending
<1>2. PICK v \in {"cancelled", "artifact_error"} :
        record' = [record EXCEPT ![t] = v] /\ (v = "cancelled" => stop)
  BY DEF NoVerifier
<1>3. RunTyped'
  BY <1>1, <1>2, TrialForm DEF RunTyped, stageVars, Records, Outcomes
<1>4. \A u \in Trials : record'[u] = IF u = t THEN v ELSE record[u]
  BY <1>2 DEF RunTyped
<1>5. \A s \in Stages : StageSound(s)'
  BY <1>1 DEF StageSound, Over, stageVars
<1>6. \A u \in Trials : RecordSound(u)'
  <2> SUFFICES ASSUME NEW u \in Trials PROVE RecordSound(u)'
    OBVIOUS
  <2>1. RecordSound(u) /\ RecordSound(t)
    OBVIOUS
  <2>2. QED
    BY <1>1, <1>2, <1>4, <2>1 DEF RecordSound, Over, stageVars
<1>7. \A u \in Trials : OrderSound(u)'
  BY <1>1, <1>4, CurrentForm DEF OrderSound
<1>8. InPlace'
  BY <1>1 DEF InPlace, Calm, stageVars
<1>9. StatusSound'
  BY <1>1 DEF StatusSound, stageVars
<1>10. Threads'
  BY <1>1 DEF Threads, Busy, Over, stageVars
<1>11. QED
  BY <1>3, <1>5, <1>6, <1>7, <1>8, <1>9, <1>10

LEMMA BeginVerifierStep ==
  ASSUME RunInv, NEW t \in Trials, BeginVerifier(t)
  PROVE  RunInv'
<1> USE DEF RunInv
<1>1. Check(t) \in Stages /\ Check(t)[1] = t /\ Check(t)[2] = "verify"
      /\ \A u \in Trials : Check(t) # Work(u)
  BY StageForm
<1>2. main = "verifying" /\ main' = "awaiting" /\ Current(t) /\ Pending(t)
      /\ at[Check(t)] = "waiting" /\ Begins(Check(t))
      /\ UNCHANGED <<batch, turn, status, manifest, stop, box, left>>
  BY DEF BeginVerifier
<1>3. RunTyped'
  BY <1>1, <1>2, BeginSound DEF RunTyped, Mains
<1>4. \A u \in Trials : record'[u] = record[u]
  BY <1>1, <1>2, BeginSound
<1>5. \A u \in Trials : OrderSound(u)'
  <2>1. \A u \in Trials : Current(u)' => u = t
    BY <1>2, CurrentUnique DEF Current, InBatch
  <2>2. QED
    BY <1>2, <1>4, <2>1 DEF OrderSound, Pending
<1>6. InPlace'
  <2>1. \A s \in Stages : s # Check(t) => Calm(s)'
    BY <1>1, <1>2, BeginSound DEF InPlace
  <2>2. Current(t)'
    BY <1>2 DEF Current, InBatch
  <2>3. QED
    BY <1>1, <1>2, <2>1, <2>2 DEF InPlace
<1>7. StatusSound'
  BY <1>2 DEF StatusSound
<1>8. Threads'
  <2>1. \A s \in Stages : at[s] \in {"waiting", "ended", "raised"}
    BY <1>2 DEF InPlace, Calm
  <2>2. batch <= Batches => IdleThread
    BY <2>1, CalmIsIdle
  <2>3. batch <= Batches
    BY <1>2 DEF StatusSound
  <2>4. Busy' \subseteq Busy \cup {Check(t)}
    BY <1>1, <1>2, BeginSound
  <2>5. QED
    BY <1>2, <2>2, <2>3, <2>4, OneMoreThread
<1>9. QED
  BY <1>1, <1>2, <1>3, <1>5, <1>6, <1>7, <1>8, BeginSound

\* A verdict replaces a provisional record and nothing else.
LEMMA VerdictSound ==
  ASSUME RunInv, NEW t \in Trials, main = "awaiting", Current(t), Over(Check(t)),
         NEW v \in {"cancelled", "verifier_error", "verification_failed", "passed"},
         record' = [record EXCEPT ![t] = v], UNCHANGED <<stop, stageVars>>,
         v = "cancelled" => outcome[Check(t)] = "cancelled",
         v = "passed" => at[Check(t)] = "ended" /\ outcome[Check(t)] = "passed" /\ ~left[Check(t)]
  PROVE  /\ record' \in [Trials -> Records]
         /\ \A u \in Trials : record'[u] = IF u = t THEN v ELSE record[u]
         /\ \A u \in Trials : RecordSound(u)'
         /\ \A s \in Stages : StageSound(s)'
<1> USE DEF RunInv
<1>1. record' \in [Trials -> Records]
  BY DEF RunTyped, Records, Outcomes
<1>2. \A u \in Trials : record'[u] = IF u = t THEN v ELSE record[u]
  BY DEF RunTyped
<1>3. record[t] = "pending_verification"
  BY DEF OrderSound
<1>4. v = "cancelled" => stop
  <2>1. Check(t) \in Stages
    BY StageForm
  <2>2. QED
    BY <2>1 DEF StageSound
<1>5. \A u \in Trials : RecordSound(u)'
  <2> SUFFICES ASSUME NEW u \in Trials PROVE RecordSound(u)'
    OBVIOUS
  <2>1. RecordSound(u) /\ RecordSound(t)
    OBVIOUS
  <2>2. QED
    BY <1>2, <1>3, <1>4, <2>1 DEF RecordSound, Over, stageVars
<1>6. \A s \in Stages : StageSound(s)'
  BY DEF StageSound, Over, stageVars
<1>7. QED
  BY <1>1, <1>2, <1>5, <1>6

\* Nothing but the verifier that is waited for may stir.
LEMMA OnlyCheckStirs ==
  ASSUME RunInv, main = "awaiting", NEW t \in Trials, Current(t)
  PROVE  \A s \in Stages : Calm(s) \/ s = Check(t)
<1> SUFFICES ASSUME NEW s \in Stages, ~Calm(s) PROVE s = Check(t)
  OBVIOUS
<1>1. s[2] = "verify" /\ Current(s[1]) /\ s[1] \in Trials /\ s = Check(s[1])
  BY StageForm DEF RunInv, InPlace
<1>2. s[1] = t
  BY <1>1, CurrentUnique
<1>3. QED
  BY <1>1, <1>2

LEMMA VerifierReturnsStep ==
  ASSUME RunInv, NEW t \in Trials, VerifierReturns(t)
  PROVE  RunInv'
<1> USE DEF RunInv
<1>1. main = "awaiting" /\ Current(t) /\ at[Check(t)] = "ended" /\ turn' = t + 1
      /\ UNCHANGED <<stop, stageVars>>
  BY DEF VerifierReturns
<1>2. PICK v \in Verdicts(t) : record' = [record EXCEPT ![t] = v]
  BY DEF VerifierReturns
<1>3. /\ v \in {"cancelled", "verifier_error", "verification_failed", "passed"}
      /\ v = "cancelled" => outcome[Check(t)] = "cancelled"
      /\ v = "passed" => at[Check(t)] = "ended" /\ outcome[Check(t)] = "passed" /\ ~left[Check(t)]
  BY <1>1, <1>2 DEF Verdicts
<1>4. /\ record' \in [Trials -> Records]
      /\ \A u \in Trials : record'[u] = IF u = t THEN v ELSE record[u]
      /\ \A u \in Trials : RecordSound(u)'
      /\ \A s \in Stages : StageSound(s)'
  BY <1>1, <1>2, <1>3, VerdictSound DEF Over
<1>5. \A s \in Stages : Calm(s) \/ s = Check(t)
  BY <1>1, OnlyCheckStirs
<1>6. \A s \in Stages : at[s] \in {"waiting", "ended"}
  BY <1>1, <1>5 DEF Calm
<1>7. turn' \in Nat /\ BatchOf[t] = batch
  BY <1>1, TrialForm, CurrentForm
<1>8. CASE left[Check(t)]
  <2>1. Leave("cleanup_failed")
    BY <1>8 DEF VerifierReturns
  <2>2. RunTyped'
    BY <1>1, <1>4, <1>7, <2>1 DEF Leave, RunTyped, Mains, stageVars
  <2>3. \A u \in Trials : BatchOf[u] < batch => record'[u] = record[u]
    BY <1>4, <1>7, TrialForm DEF RunTyped
  <2>4. QED
    BY <1>1, <1>4, <1>5, <1>6, <1>7, <2>1, <2>2, <2>3, LeaveSound
<1>9. CASE ~left[Check(t)]
  <2>1. main' = "verifying" /\ UNCHANGED <<batch, status, manifest>>
    BY <1>9 DEF VerifierReturns
  <2>2. RunTyped'
    BY <1>1, <1>4, <1>7, <2>1 DEF RunTyped, Mains, stageVars
  <2>3. \A u \in Trials : OrderSound(u)'
    BY <1>1, <1>3, <1>4, <2>1, CurrentForm DEF OrderSound
  <2>4. \A s \in Stages : Calm(s)'
    BY <1>1, <1>5, <1>9 DEF Calm, stageVars
  <2>5. InPlace' /\ StatusSound'
    BY <1>1, <2>1, <2>4 DEF InPlace, StatusSound
  <2>6. Threads'
    BY <1>1, <2>1 DEF Threads, Busy, Over, stageVars
  <2>7. QED
    BY <1>4, <2>2, <2>3, <2>5, <2>6
<1>10. QED
  BY <1>8, <1>9

LEMMA VerifierRaisesStep ==
  ASSUME RunInv, NEW t \in Trials, VerifierRaises(t)
  PROVE  RunInv'
<1> USE DEF RunInv
<1>1. main = "awaiting" /\ Current(t) /\ at[Check(t)] = "raised" /\ main' = "closing"
      /\ record' = [record EXCEPT ![t] = "verifier_error"]
      /\ UNCHANGED <<batch, turn, status, manifest, stop, stageVars>>
  BY DEF VerifierRaises
<1>2. /\ record' \in [Trials -> Records]
      /\ \A u \in Trials : record'[u] = IF u = t THEN "verifier_error" ELSE record[u]
      /\ \A u \in Trials : RecordSound(u)'
      /\ \A s \in Stages : StageSound(s)'
  BY <1>1, VerdictSound DEF Over
<1>3. \A s \in Stages : Calm(s) \/ s = Check(t)
  BY <1>1, OnlyCheckStirs
<1>4. Check(t) \in Stages /\ BatchOf[t] = batch
  BY <1>1, StageForm, CurrentForm
<1>5. RunTyped'
  BY <1>1, <1>2 DEF RunTyped, Mains, stageVars
<1>6. \A u \in Trials : OrderSound(u)'
  BY <1>1, <1>2 DEF OrderSound
<1>7. InPlace'
  BY <1>1, <1>3 DEF InPlace, Calm, stageVars
<1>8. StatusSound'
  <2>1. at'[Check(t)] = "raised"
    BY <1>1 DEF stageVars
  <2>2. QED
    BY <1>1, <1>4, <2>1 DEF StatusSound
<1>9. Threads'
  BY <1>1 DEF Threads, Busy, Over, stageVars
<1>10. QED
  BY <1>2, <1>5, <1>6, <1>7, <1>8, <1>9

-----------------------------------------------------------------------------
(* The invariant, and what follows from it.                                *)

LEMMA StepSound ==
  ASSUME RunInv, [RunNext]_runVars
  PROVE  RunInv'
<1>1. CASE UNCHANGED runVars
  <2>1. UNCHANGED <<stop, stageVars, record, batch, turn, status, manifest, main>>
    BY <1>1 DEF runVars, mainVars
  <2>2. RunTyped' /\ InPlace' /\ StatusSound' /\ \A t \in Trials : OrderSound(t)'
    BY <2>1 DEF RunInv, RunTyped, InPlace, Calm, StatusSound, OrderSound, stageVars,
                Current, InBatch
  <2>3. QED
    BY <2>1, <2>2, MainFrame DEF RunInv
<1>2. CASE MainStep
  BY <1>2, NextBatchStep, PoolDrainedStep, PoolReturnsStep, BatchVerifiedStep, LoopEndsStep,
     CloseStep, TakeTrialStep, PoolRaisesStep, SkipTrialStep, NoVerifierStep, BeginVerifierStep,
     VerifierReturnsStep, VerifierRaisesStep DEF MainStep
<1>3. CASE Signal
  BY <1>3, SignalSound
<1>4. ASSUME NEW s \in Stages, StageStep(s) PROVE RunInv'
  BY <1>4, InnerStep, SettleStep DEF StageStep
<1>5. ASSUME NEW s \in Stages, EngineStep(s) PROVE RunInv'
  BY <1>5, EngineSound
<1>6. QED
  BY <1>1, <1>2, <1>3, <1>4, <1>5 DEF RunNext

THEOREM RunInvariant == RunSpec => []RunInv
BY InitSound, StepSound, PTL DEF RunSpec

\* The state of a run is well-formed: every variable is of its kind and the loop
\* stays within the plan (_execute_locked).
THEOREM RunTypes == RunSpec => []RunTypeOK
<1>1. RunInv => RunTypeOK
  BY DEF RunInv, RunTyped, RunTypeOK, Mains, Inner
<1>2. QED
  BY <1>1, RunInvariant, PTL

\* A container that runs belongs to a stage that is not calm.
LEMMA RunningStirs ==
  ASSUME RunInv, NEW s \in Stages, box[s] = "running"
  PROVE  ~Calm(s)
BY DEF RunInv, StageSound, Calm, Over

\* Containers run together only if they are workloads of one batch, and no more
\* stages are under way than the profile has threads.
THEOREM OverlapTheorem == RunSpec => []OnlyBatchmatesOverlap
<1>1. RunInv => \A s, u \in Stages :
        s # u /\ box[s] = "running" /\ box[u] = "running" =>
          s[2] = "work" /\ u[2] = "work" /\ BatchOf[s[1]] = BatchOf[u[1]]
  <2> SUFFICES ASSUME RunInv, NEW s \in Stages, NEW u \in Stages, s # u,
                      box[s] = "running", box[u] = "running"
               PROVE  s[2] = "work" /\ u[2] = "work" /\ BatchOf[s[1]] = BatchOf[u[1]]
    OBVIOUS
  <2>1. ~Calm(s) /\ ~Calm(u)
    BY RunningStirs
  <2>2. main # "awaiting"
    <3> SUFFICES ASSUME main = "awaiting" PROVE FALSE
      OBVIOUS
    <3>1. Current(s[1]) /\ Current(u[1]) /\ s[2] = "verify" /\ u[2] = "verify"
      BY <2>1 DEF RunInv, InPlace
    <3>2. s = Check(s[1]) /\ u = Check(u[1]) /\ s[1] \in Trials /\ u[1] \in Trials
      BY <3>1, StageForm
    <3>3. QED
      BY <3>1, <3>2, CurrentUnique
  <2>3. QED
    BY <2>1, <2>2 DEF RunInv, RunTyped, Mains, InPlace
<1>2. RunInv => OnlyBatchmatesOverlap
  BY <1>1 DEF OnlyBatchmatesOverlap, RunInv, Threads
<1>3. QED
  BY <1>2, RunInvariant, PTL

\* A completed run has a decided record of every trial of the plan and left
\* nothing behind that can run.
THEOREM CompletedTheorem == RunSpec => []CompletedIsDecided
<1>1. RunInv => CompletedIsDecided
  <2> SUFFICES ASSUME RunInv, manifest = "completed", NEW t \in Trials
               PROVE  /\ record[t] \notin {"none", "pending_verification", "cancelled", "runner_error"}
                      /\ \A s \in {Work(t), Check(t)} :
                           ~left[s] /\ box[s] \in {"none", "ordered", "created"}
    BY DEF CompletedIsDecided
  <2>1. status = "completed"
    BY DEF RunInv, StatusSound
  <2>2. /\ \A s \in Stages : Calm(s)
        /\ record[t] \notin {"none", "pending_verification", "cancelled"}
    BY <2>1 DEF RunInv, StatusSound
  <2>3. Work(t) \in Stages /\ Check(t) \in Stages
    BY StageForm
  <2>4. record[t] # "runner_error"
    BY <2>2, <2>3 DEF RunInv, RecordSound, Calm
  <2>5. \A s \in Stages : ~left[s] /\ box[s] \in {"none", "ordered", "created"}
    BY <2>2 DEF RunInv, StageSound, Calm, Over
  <2>6. QED
    BY <2>2, <2>3, <2>4, <2>5
<1>2. QED
  BY <1>1, RunInvariant, PTL

\* No trial of a verified task passes without a verdict whose verifier passed
\* and is gone.
THEOREM PassesTheorem == RunSpec => []PassesAreVerified
<1>1. RunInv => PassesAreVerified
  <2> SUFFICES ASSUME RunInv, NEW t \in Verified, record[t] = "passed"
               PROVE  /\ outcome[Work(t)] = "passed"
                      /\ at[Check(t)] = "ended" /\ outcome[Check(t)] = "passed"
                      /\ ~left[Check(t)] /\ box[Check(t)] = "none"
    BY DEF PassesAreVerified
  <2>1. t \in Trials /\ Check(t) \in Stages
    BY BatchesAssumption, StageForm
  <2>2. /\ outcome[Work(t)] = "passed"
        /\ at[Check(t)] = "ended" /\ outcome[Check(t)] = "passed" /\ ~left[Check(t)]
    BY <2>1 DEF RunInv, RecordSound
  <2>3. QED
    BY <2>1, <2>2 DEF RunInv, StageSound, Over
<1>2. QED
  BY <1>1, RunInvariant, PTL

\* The manifest of a run that is over says interrupted exactly if a trial or a
\* verifier raised.
THEOREM RaisedTheorem == RunSpec => []RaisedMeansInterrupted
<1>1. RunInv => RaisedMeansInterrupted
  BY DEF RunInv, RunTyped, StatusSound, RaisedMeansInterrupted
<1>2. QED
  BY <1>1, RunInvariant, PTL

\* Where a stage can be begun.
LEMMA BegunWhere ==
  ASSUME RunInv, RunNext, NEW s \in Stages, at[s] = "waiting", at'[s] # "waiting"
  PROVE  \/ main = "pool" /\ s[2] = "work" /\ BatchOf[s[1]] = batch
         \/ main = "verifying"
<1>1. at \in [Stages -> Inner \cup {"waiting", "ended", "raised"}]
  BY DEF RunInv, RunTyped
<1>2. CASE MainStep
  <2>1. CASE UNCHANGED stageVars
    BY <2>1 DEF stageVars
  <2>2. ASSUME NEW t \in Trials, TakeTrial(t)
        PROVE  main = "pool" /\ s[2] = "work" /\ BatchOf[s[1]] = batch
    <3>1. s = Work(t)
      BY <1>1, <2>2, StageForm DEF TakeTrial, Begins, Concluded
    <3>2. QED
      BY <2>2, <3>1, StageForm DEF TakeTrial, InBatch
  <2>3. ASSUME NEW t \in Trials, BeginVerifier(t) PROVE main = "verifying"
    BY <2>3 DEF BeginVerifier
  <2>4. QED
    BY <1>2, <2>1, <2>2, <2>3
       DEF MainStep, NextBatch, PoolDrained, PoolReturns, BatchVerified, LoopEnds, Close,
           PoolRaises, SkipTrial, NoVerifier, VerifierReturns, VerifierRaises
<1>3. CASE Signal
  BY <1>3 DEF Signal, stageVars
<1>4. ASSUME NEW u \in Stages, StageStep(u) PROVE FALSE
  <2>1. at[u] # "waiting" /\ \E p \in Inner \cup {"ended", "raised"} : at' = [at EXCEPT ![u] = p]
    BY <1>4 DEF StageStep, Create, Start, StartReturns, Look, Kill, Breaks, Settle, Goes,
                Concludes, Concluded, Inner
  <2>2. QED
    BY <1>1, <2>1
<1>5. ASSUME NEW u \in Stages, EngineStep(u) PROVE FALSE
  BY <1>5 DEF EngineStep
<1>6. QED
  BY <1>2, <1>3, <1>4, <1>5 DEF RunNext

\* After a failed cleanup only batchmates of the trial that left something
\* behind are begun.
THEOREM CleanupHaltsTheorem == RunSpec => NothingAfterFailedCleanup
<1>1. ASSUME RunInv, [RunNext]_runVars, NEW s \in Stages, NEW u \in Stages,
             left[u], at[s] = "waiting", at'[s] # "waiting"
      PROVE  s[2] = "work" /\ u[2] = "work" /\ BatchOf[s[1]] = BatchOf[u[1]]
  <2>1. RunNext
    BY <1>1 DEF runVars, stageVars
  <2>2. ~Calm(u)
    BY <1>1 DEF Calm
  <2>3. main # "verifying"
    BY <1>1, <2>2 DEF RunInv, InPlace
  <2>4. main = "pool" /\ s[2] = "work" /\ BatchOf[s[1]] = batch
    BY <1>1, <2>1, <2>3, BegunWhere
  <2>5. u[2] = "work" /\ BatchOf[u[1]] = batch
    BY <1>1, <2>2, <2>4 DEF RunInv, InPlace
  <2>6. QED
    BY <2>4, <2>5
<1>2. RunInv /\ [RunNext]_runVars =>
        [\A s, u \in Stages :
           left[u] /\ at[s] = "waiting" /\ at'[s] # "waiting" =>
             s[2] = "work" /\ u[2] = "work" /\ BatchOf[s[1]] = BatchOf[u[1]]]_runVars
  BY <1>1
<1>3. QED
  BY <1>2, RunInvariant, PTL DEF RunSpec, NothingAfterFailedCleanup

\* What a comparison counts as an outcome is never replaced, and the records of
\* a run that is over do not change.
THEOREM ConclusionsTheorem == RunSpec => ConclusionsStand
<1>1. ASSUME RunInv, [RunNext]_runVars
      PROVE  /\ \A t \in Trials : record[t] \in ResolvedStatuses => record'[t] = record[t]
             /\ main = "ended" => UNCHANGED record
  <2>1. \A t \in Trials : record[t] \in ResolvedStatuses =>
          record[t] \notin {"none", "pending_verification"}
    BY DEF ResolvedStatuses, UnresolvedStatuses
  <2>2. record \in [Trials -> Records] /\ RunTyped
    BY <1>1 DEF RunInv, RunTyped
  <2> DEFINE Kept == /\ \A t \in Trials : record[t] \notin {"none", "pending_verification"} =>
                          record'[t] = record[t]
                     /\ main = "ended" => UNCHANGED record
  <2>3. ASSUME UNCHANGED record PROVE Kept
    BY <2>3
  <2>4. ASSUME NEW s \in Stages, NEW o, Concluded(s, o), ~Over(s),
               main # "ended"
        PROVE  Kept
    <3>1. CASE s[2] = "verify"
      BY <2>4, <3>1 DEF Concluded
    <3>2. CASE s[2] = "work"
      <4>1. s[1] \in Trials /\ s = Work(s[1])
        BY <3>2, StageForm
      <4>2. record[s[1]] = "none"
        BY <1>1, <2>4, <4>1 DEF RunInv, RecordSound
      <4>3. record' = [record EXCEPT ![s[1]] = Recorded(s[1], o)]
        BY <2>4, <3>2 DEF Concluded
      <4>4. QED
        BY <2>2, <2>4, <4>1, <4>2, <4>3
    <3>3. QED
      BY <3>1, <3>2, StageForm
  <2>5. ASSUME NEW t \in Trials, record[t] = "pending_verification", main # "ended",
               NEW v, record' = [record EXCEPT ![t] = v]
        PROVE  Kept
    BY <2>2, <2>5
  <2>6. ASSUME MainStep PROVE Kept
    <3>1. ASSUME NEW t \in Trials, TakeTrial(t) PROVE Kept
      <4>1. Work(t) \in Stages /\ main # "ended" /\ at[Work(t)] = "waiting" /\ Begins(Work(t))
        BY <3>1, StageForm DEF TakeTrial
      <4>2. CASE stop
        BY <2>4, <4>1, <4>2 DEF Begins, Over
      <4>3. CASE ~stop
        BY <4>1, <4>3 DEF Begins
      <4>4. QED
        BY <4>2, <4>3
    <3>2. ASSUME NEW t \in Trials, BeginVerifier(t) PROVE Kept
      <4>1. Check(t) \in Stages /\ main # "ended" /\ at[Check(t)] = "waiting" /\ Begins(Check(t))
        BY <3>2, StageForm DEF BeginVerifier
      <4>2. CASE stop
        BY <2>4, <4>1, <4>2 DEF Begins, Over
      <4>3. CASE ~stop
        BY <4>1, <4>3 DEF Begins
      <4>4. QED
        BY <4>2, <4>3
    <3>3. ASSUME NEW t \in Trials, NoVerifier(t) PROVE Kept
      BY <2>5, <3>3 DEF NoVerifier, Pending
    <3>4. ASSUME NEW t \in Trials, VerifierReturns(t) \/ VerifierRaises(t) PROVE Kept
      <4>1. record[t] = "pending_verification" /\ main # "ended"
        BY <1>1, <3>4 DEF RunInv, OrderSound, VerifierReturns, VerifierRaises
      <4>2. \E v : record' = [record EXCEPT ![t] = v]
        BY <3>4 DEF VerifierReturns, VerifierRaises
      <4>3. QED
        BY <2>5, <4>1, <4>2
    <3>5. CASE UNCHANGED record
      BY <3>5
    <3>6. ASSUME \/ NextBatch \/ PoolDrained \/ PoolReturns \/ BatchVerified \/ LoopEnds \/ Close
                 \/ \E t \in Trials : PoolRaises(t) \/ SkipTrial(t)
          PROVE  UNCHANGED record
      BY <3>6 DEF NextBatch, PoolDrained, PoolReturns, BatchVerified, LoopEnds, Close,
                  PoolRaises, SkipTrial
    <3> HIDE DEF Kept
    <3>7. QED
      BY ONLY <2>6, <3>1, <3>2, <3>3, <3>4, <3>5, <3>6 DEF MainStep
  <2>7. ASSUME NEW s \in Stages, StageStep(s) PROVE Kept
    <3>1. CASE Settle(s)
      <4>1. at[s] = "removing" /\ \E o : Concluded(s, o)
        BY <3>1 DEF Settle
      <4>2. main # "ended"
        BY <1>1, <4>1 DEF RunInv, InPlace
      <4>3. QED
        BY <2>4, <4>1, <4>2 DEF Over
    <3>2. CASE UNCHANGED record
      BY <3>2
    <3>3. QED
      BY <2>7, <3>1, <3>2 DEF StageStep, Create, Start, StartReturns, Look, Kill, Breaks
  <2>8. ASSUME UNCHANGED runVars \/ Signal \/ \E s \in Stages : EngineStep(s) PROVE Kept
    BY <2>8 DEF runVars, Signal, EngineStep
  <2>9. Kept
    <3> HIDE DEF Kept
    <3> QED
      BY ONLY <1>1, <2>6, <2>7, <2>8 DEF RunNext
  <2>10. QED
    BY <2>1, <2>9
<1>2. RunInv /\ [RunNext]_runVars =>
        [/\ \A t \in Trials : record[t] \in ResolvedStatuses => record'[t] = record[t]
         /\ main = "ended" => UNCHANGED record]_runVars
  BY <1>1
<1>3. QED
  BY <1>2, RunInvariant, PTL DEF RunSpec, ConclusionsStand

-----------------------------------------------------------------------------
(* The plan has every trial once.                                          *)

LEMMA Division ==
  ASSUME NEW a \in Nat, NEW d \in Nat \ {0}
  PROVE  a = (a \div d) * d + (a % d) /\ a \div d \in Nat /\ a % d \in 0..d - 1
<1>1. a % d \in 0..d - 1
  OBVIOUS
<1>2. a \div d \in Int /\ a \div d >= 0
  OBVIOUS
<1>3. a = (a \div d) * d + (a % d)
  OBVIOUS
<1>4. QED
  BY <1>1, <1>2, <1>3

LEMMA Quotient ==
  ASSUME NEW q \in Nat, NEW d \in Nat \ {0}, NEW r \in 0..d - 1
  PROVE  (q * d + r) \div d = q /\ (q * d + r) % d = r
OBVIOUS

LEMMA Products ==
  ASSUME NEW q \in Nat, NEW m \in Nat, NEW d \in Nat
  PROVE  /\ q * d \in Nat
         /\ q < m => q * d + d <= m * d
         /\ q >= m => q * d >= m * d
<1>1. q * d \in Nat /\ m * d \in Nat
  OBVIOUS
<1>2. ASSUME q < m PROVE q * d + d <= m * d
  <2>1. PICK k \in Nat : m = q + 1 + k
    <3>1. m - q - 1 \in Nat /\ m = q + 1 + (m - q - 1)
      BY <1>2
    <3>2. QED
      BY <3>1
  <2>2. (q + 1 + k) * d = q * d + d + k * d /\ k * d \in Nat
    OBVIOUS
  <2>3. QED
    BY <1>1, <2>1, <2>2
<1>3. ASSUME q >= m PROVE q * d >= m * d
  <2>1. PICK k \in Nat : q = m + k
    <3>1. q - m \in Nat /\ q = m + (q - m)
      BY <1>3
    <3>2. QED
      BY <3>1
  <2>2. (m + k) * d = m * d + k * d /\ k * d \in Nat
    OBVIOUS
  <2>3. QED
    BY <1>1, <2>1, <2>2
<1>4. QED
  BY <1>1, <1>2, <1>3

\* A shuffle that has all of S in Cardinality(S) places has each of them once.
LEMMA ShuffleOnce ==
  ASSUME NEW S, IsFiniteSet(S), NEW order,
         {order[i] : i \in 1..Cardinality(S)} = S,
         NEW i \in 1..Cardinality(S), NEW j \in 1..Cardinality(S), order[i] = order[j]
  PROVE  i = j
<1> DEFINE f == [k \in 1..Cardinality(S) |-> order[k]]
           places == 1..Cardinality(S)
<1>1. Cardinality(S) \in Nat
  BY FS_CardinalityType
<1>2. IsFiniteSet(places) /\ Cardinality(places) = Cardinality(S)
  BY <1>1, FS_Interval
<1>3. f \in Surjection(places, S)
  BY DEF Surjection
<1>4. f[i] = f[j] /\ i \in places /\ j \in places
  OBVIOUS
<1> HIDE DEF f, places
<1>5. f \in Injection(places, S)
  BY <1>2, <1>3, FS_SurjSameCardinalityImpliesInj
<1>6. QED
  BY <1>4, <1>5 DEF Injection, IsInjective

\* The places of a trial in its batch, and of its batch in its block.
Place(n) == ((n - 1) % Cardinality(Tasks)) + 1

Position(n) == ((PlannedBatch[n] - 1) % Cardinality(Profiles)) + 1

\* Where in the plan a trial stands.
LEMMA PlannedPlace ==
  ASSUME NEW n \in PlannedTrials
  PROVE  /\ PlannedBatch[n] \in 1..PlannedBatches /\ RepeatOf(n) \in 0..Repeats - 1
         /\ Place(n) \in 1..Cardinality(Tasks) /\ Position(n) \in 1..Cardinality(Profiles)
         /\ PlannedBatch[n] = RepeatOf(n) * Cardinality(Profiles) + Position(n)
         /\ n = (PlannedBatch[n] - 1) * Cardinality(Tasks) + Place(n)
         /\ TaskOf(n) = TaskOrder[RepeatOf(n)][Place(n)]
         /\ ProfileOf(n) = ProfileOrder[RepeatOf(n)][Position(n)]
<1> DEFINE T == Cardinality(Tasks)
           P == Cardinality(Profiles)
           N == n - 1
           b == N \div T
           i == N % T
           r == b \div P
           j == b % P
<1>1. T \in Nat /\ P \in Nat /\ Repeats \in Nat \ {0}
  BY PlanAssumption, FS_CardinalityType
<1>2. PlannedTrials = 1..(Repeats * P) * T /\ PlannedBatches = Repeats * P
  BY DEF PlannedTrials, PlannedBatches
<1>3. PlannedBatch[n] = b + 1
  BY DEF PlannedBatch
<1>4. /\ Place(n) = i + 1 /\ TaskOf(n) = TaskOrder[RepeatOf(n)][Place(n)]
      /\ ProfileOf(n) = ProfileOrder[RepeatOf(n)][Position(n)]
  BY DEF TaskOf, ProfileOf, Place, Position
<1>5. RepeatOf(n) = (PlannedBatch[n] - 1) \div P /\ Position(n) = ((PlannedBatch[n] - 1) % P) + 1
  BY DEF RepeatOf, Position
<1> HIDE DEF T, P
<1>6. Repeats * P \in Nat /\ (Repeats * P) * T \in Nat
  BY <1>1
<1>7. n \in Nat /\ 1 <= n /\ n <= (Repeats * P) * T
  BY <1>2, <1>6
<1>8. T # 0 /\ P # 0
  <2>1. ASSUME T = 0 \/ P = 0 PROVE (Repeats * P) * T = 0
    BY <1>1, <2>1
  <2>2. QED
    BY <1>7, <2>1
<1>9. N \in Nat /\ N < (Repeats * P) * T /\ n = N + 1
  BY <1>6, <1>7
<1> HIDE DEF N
<1>10. N = b * T + i /\ b \in Nat /\ i \in 0..T - 1
  BY <1>1, <1>8, <1>9, Division
<1> HIDE DEF b, i
<1>11. b = r * P + j /\ r \in Nat /\ j \in 0..P - 1
  BY <1>1, <1>8, <1>10, Division
<1>12. PlannedBatch[n] - 1 = b
  BY <1>3, <1>10
<1>13. RepeatOf(n) = r /\ Position(n) = j + 1
  BY <1>5, <1>12
<1> HIDE DEF r, j
<1>14. b < Repeats * P
  <2>1. b >= Repeats * P => b * T >= (Repeats * P) * T
    BY <1>1, <1>6, <1>10, Products
  <2>2. b * T \in Nat
    BY <1>1, <1>10
  <2>3. QED
    BY <1>1, <1>6, <1>9, <1>10, <2>1, <2>2
<1>15. r < Repeats
  <2>1. r >= Repeats => r * P >= Repeats * P
    BY <1>1, <1>11, Products
  <2>2. r * P \in Nat
    BY <1>1, <1>11
  <2>3. QED
    BY <1>1, <1>6, <1>11, <1>14, <2>1, <2>2
<1>16. r * P \in Nat /\ b * T \in Nat
  BY <1>1, <1>10, <1>11
<1>17. i + 1 \in 1..T /\ j + 1 \in 1..P /\ r \in 0..Repeats - 1 /\ b + 1 \in 1..Repeats * P
  BY <1>1, <1>6, <1>10, <1>11, <1>14, <1>15
<1>18. b + 1 = r * P + (j + 1) /\ n = b * T + (i + 1)
  BY <1>1, <1>9, <1>10, <1>11, <1>16
<1>19. QED
  BY <1>2, <1>3, <1>4, <1>12, <1>13, <1>17, <1>18 DEF T, P

\* Every task has one planned trial in each repetition under each profile, and
\* every planned trial is that of its own cell.
THEOREM PlanTheorem ==
  /\ \A c \in Tasks \X (0..Repeats - 1) \X Profiles :
       Cell[c] \in PlannedTrials
       /\ c = <<TaskOf(Cell[c]), RepeatOf(Cell[c]), ProfileOf(Cell[c])>>
  /\ \A n \in PlannedTrials :
       /\ <<TaskOf(n), RepeatOf(n), ProfileOf(n)>> \in Tasks \X (0..Repeats - 1) \X Profiles
       /\ Cell[<<TaskOf(n), RepeatOf(n), ProfileOf(n)>>] = n
<1> DEFINE T == Cardinality(Tasks)
           P == Cardinality(Profiles)
           Name(n) == <<TaskOf(n), RepeatOf(n), ProfileOf(n)>>
           Cells == Tasks \X (0..Repeats - 1) \X Profiles
<1>1. T \in Nat /\ P \in Nat /\ Repeats \in Nat \ {0}
  BY PlanAssumption, FS_CardinalityType
<1>2. ASSUME NEW task \in Tasks, NEW r \in 0..Repeats - 1, NEW profile \in Profiles
      PROVE  \E n \in PlannedTrials : <<task, r, profile>> = Name(n)
  <2>1. PICK i \in 1..T : TaskOrder[r][i] = task
    BY PlanAssumption
  <2>2. PICK j \in 1..P : ProfileOrder[r][j] = profile
    BY PlanAssumption
  <2> DEFINE b == r * P + (j - 1)
             n == b * T + i
  <2> HIDE DEF T, P
  <2>3. r \in Nat /\ r < Repeats /\ r * P \in Nat /\ b \in Nat /\ Repeats * P \in Nat
    BY <1>1, <2>2
  <2>4. r * P + P <= Repeats * P
    BY <1>1, <2>3, Products
  <2>5. b < Repeats * P
    BY <1>1, <2>2, <2>3, <2>4
  <2> HIDE DEF b
  <2>6. b * T + T <= (Repeats * P) * T /\ b * T \in Nat
    BY <1>1, <2>3, <2>5, Products
  <2>7. n \in 1..(Repeats * P) * T
    <3>1. (Repeats * P) * T \in Nat
      BY <1>1, <2>3
    <3>2. QED
      BY <1>1, <2>1, <2>6, <3>1
  <2>8. n \in PlannedTrials
    BY <2>7 DEF PlannedTrials, PlannedBatches, T, P
  <2>9. T \in Nat \ {0} /\ P \in Nat \ {0} /\ i - 1 \in 0..T - 1 /\ j - 1 \in 0..P - 1
    BY <1>1, <2>1, <2>2
  <2>10. n - 1 = b * T + (i - 1)
    BY <1>1, <2>1, <2>6
  <2>11. (n - 1) \div T = b /\ (n - 1) % T = i - 1
    <3>1. (b * T + (i - 1)) \div T = b /\ (b * T + (i - 1)) % T = i - 1
      BY <2>3, <2>9, Quotient
    <3> HIDE DEF n
    <3>2. QED
      BY <2>10, <3>1
  <2>12. b \div P = r /\ b % P = j - 1
    BY <2>3, <2>9, Quotient DEF b
  <2>13. PlannedBatch[n] - 1 = b
    <3>1. PlannedBatch[n] = b + 1
      BY <2>8, <2>11 DEF PlannedBatch, T
    <3>2. QED
      BY <2>3, <3>1
  <2>14. RepeatOf(n) = r
    BY <2>12, <2>13 DEF RepeatOf, P
  <2>15. (j - 1) + 1 = j /\ (i - 1) + 1 = i
    BY <2>1, <2>2
  <2> HIDE DEF n
  <2>16. TaskOf(n) = task
    BY <2>1, <2>11, <2>14, <2>15 DEF TaskOf, T
  <2>17. ProfileOf(n) = profile
    BY <2>2, <2>12, <2>13, <2>14, <2>15 DEF ProfileOf, P
  <2>18. QED
    BY <2>8, <2>14, <2>16, <2>17
<1>3. ASSUME NEW n \in PlannedTrials
      PROVE  Name(n) \in Cells
  <2>1. TaskOf(n) \in {TaskOrder[RepeatOf(n)][i] : i \in 1..T}
    BY PlannedPlace
  <2>2. ProfileOf(n) \in {ProfileOrder[RepeatOf(n)][j] : j \in 1..P}
    BY PlannedPlace
  <2>3. RepeatOf(n) \in 0..Repeats - 1
    BY PlannedPlace
  <2>4. QED
    BY <2>1, <2>2, <2>3, PlanAssumption
<1>4. ASSUME NEW n \in PlannedTrials, NEW m \in PlannedTrials, Name(n) = Name(m)
      PROVE  n = m
  <2> DEFINE r == RepeatOf(n)
  <2>1. RepeatOf(m) = r /\ TaskOf(m) = TaskOf(n) /\ ProfileOf(m) = ProfileOf(n)
    BY <1>4
  <2>2. r \in 0..Repeats - 1
    BY PlannedPlace
  <2>3. /\ IsFiniteSet(Tasks) /\ {TaskOrder[r][i] : i \in 1..Cardinality(Tasks)} = Tasks
        /\ IsFiniteSet(Profiles) /\ {ProfileOrder[r][i] : i \in 1..Cardinality(Profiles)} = Profiles
    BY <2>2, PlanAssumption
  <2>4. /\ Place(n) \in 1..Cardinality(Tasks) /\ Position(n) \in 1..Cardinality(Profiles)
        /\ PlannedBatch[n] = r * P + Position(n) /\ n = (PlannedBatch[n] - 1) * T + Place(n)
        /\ TaskOf(n) = TaskOrder[r][Place(n)] /\ ProfileOf(n) = ProfileOrder[r][Position(n)]
    BY PlannedPlace
  <2>5. /\ Place(m) \in 1..Cardinality(Tasks) /\ Position(m) \in 1..Cardinality(Profiles)
        /\ PlannedBatch[m] = r * P + Position(m) /\ m = (PlannedBatch[m] - 1) * T + Place(m)
        /\ TaskOf(m) = TaskOrder[r][Place(m)] /\ ProfileOf(m) = ProfileOrder[r][Position(m)]
    BY <2>1, PlannedPlace
  <2>6. Place(n) = Place(m)
    BY <2>1, <2>3, <2>4, <2>5, ShuffleOnce
  <2>7. Position(n) = Position(m)
    BY <2>1, <2>3, <2>4, <2>5, ShuffleOnce
  <2>8. QED
    BY <2>4, <2>5, <2>6, <2>7
<1>5. \A c \in Cells : \E n \in PlannedTrials : c = Name(n)
  BY <1>2
<1>6. \A c \in Cells : Cell[c] = CHOOSE n \in PlannedTrials : c = Name(n)
  BY DEF Cell
<1> HIDE DEF Name, Cells
<1>7. \A c \in Cells : Cell[c] \in PlannedTrials /\ c = Name(Cell[c])
  BY <1>5, <1>6
<1>8. \A n \in PlannedTrials : Name(n) \in Cells /\ Cell[Name(n)] = n
  BY <1>3, <1>4, <1>7
<1>9. QED
  BY <1>7, <1>8 DEF Name, Cells

-----------------------------------------------------------------------------
(* What is added up over pairs.                                            *)

Gain(pair) == Score(Candidate, pair) - Score(Baseline, pair)

Gains == [pair \in Pairs |-> Gain(pair)]

Within(pairs, from, to) ==
  {pair \in pairs : Score(Baseline, pair) = from /\ Score(Candidate, pair) = to}

Of(R) == {pair \in Pairs : pair[2] \in R}

LEMMA PairsFinite ==
  /\ IsFiniteSet(0..Repeats - 1) /\ Cardinality(0..Repeats - 1) = Repeats
  /\ IsFiniteSet(Pairs) /\ \A S \in SUBSET Pairs : IsFiniteSet(S)
<1>1. Repeats \in Nat \ {0} /\ IsFiniteSet(Tasks)
  BY PlanAssumption
<1>2. IsFiniteSet(0..Repeats - 1) /\ Cardinality(0..Repeats - 1) = Repeats
  BY <1>1, FS_Interval
<1>3. IsFiniteSet(Pairs)
  BY <1>1, <1>2, FS_Product DEF Pairs
<1>4. QED
  BY <1>2, <1>3, FS_Subset

LEMMA ScoreForm ==
  \A arm, pair : Score(arm, pair) \in {0, 1}
BY DEF Score

LEMMA DifferenceForm ==
  ASSUME NEW S \in SUBSET Pairs
  PROVE  Difference(S) = SumFunctionOnSet(Gains, S) /\ Difference(S) \in Int
<1> DEFINE g == [pair \in S |-> Gain(pair)]
<1>1. IsFiniteSet(S) /\ DOMAIN g = S
  BY PairsFinite
<1>2. \A pair \in S : g[pair] \in Int /\ Gains[pair] = g[pair]
  BY ScoreForm DEF Gains, Gain
<1>3. Difference(S) = SumFunctionOnSet(g, S)
  BY <1>1 DEF Difference, SumFunction, Gain
<1> HIDE DEF g
<1>4. QED
  BY <1>1, <1>2, <1>3, SumSame, SumTyped

\* The sum of the differences is the number of the pairs that were won less
\* the number of those that were lost.
LEMMA DifferenceCounts ==
  ASSUME NEW S \in SUBSET Pairs
  PROVE  Difference(S) = Transitions(S, 0, 1) - Transitions(S, 1, 0)
<1> DEFINE Won(T) == Cardinality(Within(T, 0, 1))
           Less(T) == Cardinality(Within(T, 1, 0))
           D(T) == SumFunctionOnSet(Gains, T)
           Good == {T \in SUBSET S : D(T) = Won(T) - Less(T)}
<1>1. {} \in Good
  <2>1. Within({}, 0, 1) = {} /\ Within({}, 1, 0) = {}
    BY DEF Within
  <2>2. D({}) = 0 /\ Cardinality({}) = 0
    BY SumOfNone, FS_EmptySet
  <2>3. QED
    BY <2>1, <2>2
<1>2. ASSUME NEW T \in SUBSET S, T # {}, \A x \in T : T \ {x} \in Good
      PROVE  T \in Good
  <2>1. PICK x \in T : D(T \ {x}) = Won(T \ {x}) - Less(T \ {x})
    BY <1>2
  <2>2. IsFiniteSet(T) /\ T \ {x} \in SUBSET Pairs /\ x \in Pairs
    BY PairsFinite
  <2>3. D(T) = Gain(x) + D(T \ {x}) /\ D(T \ {x}) \in Int
    <3>1. \A y \in T : Gains[y] \in Int
      BY ScoreForm DEF Gains, Gain
    <3>2. Gains[x] = Gain(x)
      BY <2>2 DEF Gains
    <3>3. /\ SumFunctionOnSet(Gains, T) = Gains[x] + SumFunctionOnSet(Gains, T \ {x})
          /\ SumFunctionOnSet(Gains, T \ {x}) \in Int
      BY <2>2, <3>1, SumTakesOut
    <3>4. QED
      BY <3>2, <3>3
  <2>4. \A a, b \in {0, 1} :
          /\ Cardinality(Within(T, a, b)) =
               Cardinality(Within(T \ {x}, a, b))
                 + IF Score(Baseline, x) = a /\ Score(Candidate, x) = b THEN 1 ELSE 0
          /\ Cardinality(Within(T \ {x}, a, b)) \in Nat
    <3> SUFFICES ASSUME NEW a \in {0, 1}, NEW b \in {0, 1}
                 PROVE  /\ Cardinality(Within(T, a, b)) =
                             Cardinality(Within(T \ {x}, a, b))
                               + IF Score(Baseline, x) = a /\ Score(Candidate, x) = b THEN 1 ELSE 0
                        /\ Cardinality(Within(T \ {x}, a, b)) \in Nat
      OBVIOUS
    <3> DEFINE rest == Within(T \ {x}, a, b)
    <3>1. rest \in SUBSET Pairs /\ x \notin rest
      BY DEF Within
    <3>2. IsFiniteSet(rest) /\ Cardinality(rest) \in Nat
      BY <3>1, PairsFinite, FS_CardinalityType
    <3>3. CASE Score(Baseline, x) = a /\ Score(Candidate, x) = b
      <4>1. Within(T, a, b) = rest \cup {x}
        BY <3>3 DEF Within
      <4> HIDE DEF rest
      <4>2. Cardinality(rest \cup {x}) = Cardinality(rest) + 1
        BY <3>1, <3>2, FS_AddElement
      <4>3. QED
        BY <3>2, <3>3, <4>1, <4>2 DEF rest
    <3>4. CASE ~(Score(Baseline, x) = a /\ Score(Candidate, x) = b)
      <4>1. Within(T, a, b) = rest
        BY <3>4 DEF Within
      <4>2. QED
        BY <3>2, <3>4, <4>1
    <3>5. QED
      BY <3>3, <3>4
  <2>5. Score(Baseline, x) \in {0, 1} /\ Score(Candidate, x) \in {0, 1}
    BY ScoreForm
  <2>6. Won(T) = Won(T \ {x}) + (IF Score(Baseline, x) = 0 /\ Score(Candidate, x) = 1 THEN 1 ELSE 0)
        /\ Won(T \ {x}) \in Nat
    BY <2>4
  <2>7. Less(T) = Less(T \ {x}) + (IF Score(Baseline, x) = 1 /\ Score(Candidate, x) = 0 THEN 1 ELSE 0)
        /\ Less(T \ {x}) \in Nat
    BY <2>4
  <2> HIDE DEF Won, Less, D
  <2>8. D(T) = Won(T) - Less(T)
    BY <2>1, <2>3, <2>5, <2>6, <2>7 DEF Gain
  <2>9. QED
    BY <2>8 DEF Won, Less, D
<1>3. S \in Good
  <2>1. IsFiniteSet(S)
    BY PairsFinite
  <2> HIDE DEF Good
  <2>2. QED
    BY <1>1, <1>2, <2>1, FiniteInduction
<1>4. QED
  BY <1>3, DifferenceForm DEF Transitions, Within

\* The pairs' differences may be added up block by block.
LEMMA DifferenceByBlocks ==
  Difference(Pairs) = SumFunction([r \in 0..Repeats - 1 |-> Difference(Block(r))])
<1> DEFINE rounds == 0..Repeats - 1
           blocks == [r \in rounds |-> Difference(Block(r))]
           D(R) == SumFunctionOnSet(Gains, Of(R))
           B(R) == SumFunctionOnSet(blocks, R)
           Good == {R \in SUBSET rounds : D(R) = B(R)}
<1>1. \A r \in rounds : blocks[r] = SumFunctionOnSet(Gains, Block(r)) /\ blocks[r] \in Int
  <2>1. \A r : Block(r) \in SUBSET Pairs
    BY DEF Block
  <2>2. QED
    BY <2>1, DifferenceForm
<1>2. {} \in Good
  <2>1. Of({}) = {}
    BY DEF Of
  <2>2. QED
    BY <2>1, SumOfNone
<1>3. ASSUME NEW R \in SUBSET rounds, R # {}, \A r \in R : R \ {r} \in Good
      PROVE  R \in Good
  <2>1. PICK r \in R : D(R \ {r}) = B(R \ {r})
    BY <1>3
  <2>2. B(R) = blocks[r] + B(R \ {r}) /\ B(R \ {r}) \in Int
    <3>1. IsFiniteSet(R) /\ \A q \in R : blocks[q] \in Int
      BY <1>1, PairsFinite, FS_Subset
    <3> HIDE DEF blocks
    <3>2. QED
      BY <3>1, SumTakesOut
  <2>3. D(R) = SumFunctionOnSet(Gains, Block(r)) + D(R \ {r})
    <3> DEFINE S == Of(R)
               rest == Of(R \ {r})
               f == [pair \in S |-> IF pair \in Block(r) THEN Gains[pair] ELSE 0]
               g == [pair \in S |-> IF pair \in rest THEN Gains[pair] ELSE 0]
    <3>1. S \in SUBSET Pairs /\ IsFiniteSet(S)
      BY PairsFinite DEF Of
    <3>2. Block(r) \in SUBSET S /\ rest \in SUBSET S
      BY DEF Block, Of
    <3>3. \A pair \in S : Gains[pair] \in Int
      BY <3>1, ScoreForm DEF Gains, Gain
    <3>4. SumFunctionOnSet(Gains, Block(r)) = SumFunctionOnSet(f, S)
      <4> HIDE DEF S
      <4>1. QED
        BY <3>1, <3>2, <3>3, SumOverPart
    <3>5. SumFunctionOnSet(Gains, rest) = SumFunctionOnSet(g, S)
      <4> HIDE DEF S, rest
      <4>1. QED
        BY <3>1, <3>2, <3>3, SumOverPart
    <3>6. \A pair \in S : f[pair] \in Int /\ g[pair] \in Int /\ Gains[pair] = f[pair] + g[pair]
      <4>1. \A pair \in S : (pair \in Block(r) <=> pair[2] = r) /\ (pair \in rest <=> pair[2] # r)
        BY DEF Block, Of
      <4>2. \A pair \in S : \/ f[pair] = Gains[pair] /\ g[pair] = 0
                            \/ f[pair] = 0 /\ g[pair] = Gains[pair]
        <5> HIDE DEF S, rest
        <5>1. QED
          BY <4>1
      <4> HIDE DEF f, g
      <4>3. QED
        BY <3>3, <4>2
    <3> HIDE DEF S, f, g
    <3>7. SumFunctionOnSet(Gains, S) = SumFunctionOnSet(f, S) + SumFunctionOnSet(g, S)
      BY <3>1, <3>6, SumAdds
    <3>8. QED
      BY <3>4, <3>5, <3>7 DEF S
  <2>4. blocks[r] = SumFunctionOnSet(Gains, Block(r))
    BY <1>1
  <2> HIDE DEF D, B, blocks
  <2>5. D(R) = B(R)
    BY <2>1, <2>2, <2>3, <2>4
  <2>6. QED
    BY <2>5 DEF D, B
<1>4. rounds \in Good
  <2>1. IsFiniteSet(rounds)
    BY PairsFinite
  <2> HIDE DEF Good, rounds
  <2>2. QED
    BY <1>2, <1>3, <2>1, FiniteInduction
<1>5. Of(rounds) = Pairs
  BY DEF Of, Pairs
<1>6. Difference(Pairs) = SumFunctionOnSet(Gains, Pairs)
  BY DifferenceForm
<1>7. SumFunction(blocks) = SumFunctionOnSet(blocks, rounds)
  BY DEF SumFunction
<1>8. QED
  BY <1>4, <1>5, <1>6, <1>7

\* Every task has as many pairs as there are repetitions.
LEMMA TaskPairs ==
  ASSUME NEW task \in Tasks, Complete = Pairs
  PROVE  Included(task) # {} /\ Cardinality(Included(task)) = Repeats
<1> DEFINE rounds == 0..Repeats - 1
<1>1. Included(task) = {task} \X rounds
  BY DEF Included, Pairs
<1>2. IsFiniteSet({task}) /\ Cardinality({task}) = 1
  BY FS_Singleton
<1>3. IsFiniteSet(rounds) /\ Cardinality(rounds) = Repeats /\ Repeats \in Nat \ {0}
  BY PairsFinite, PlanAssumption
<1> HIDE DEF rounds
<1>4. Cardinality({task} \X rounds) = 1 * Repeats
  BY <1>2, <1>3, FS_Product
<1>5. Cardinality({task} \X rounds) = Repeats
  BY <1>3, <1>4
<1>6. {task} \X rounds # {}
  BY <1>3, <1>5, FS_EmptySet
<1>7. QED
  BY <1>1, <1>5, <1>6 DEF rounds

\* What the block analysis accepts is whole, and the three tools count the same.
THEOREM AnalyzedTheorem == RunSpec => []AnalyzedIsWhole
<1>1. RunInv => AnalyzedIsWhole
  <2> SUFFICES ASSUME RunInv, Analyzed PROVE AnalyzedIsWhole
    BY DEF AnalyzedIsWhole
  <2>1. Complete = Pairs /\ status = "completed" /\ RunTyped
    BY DEF Analyzed, RunInv, StatusSound, RunTyped
  <2>2. ASSUME NEW t \in Trials
        PROVE  /\ at[Work(t)] = "ended" /\ ~left[Work(t)] /\ ~left[Check(t)]
               /\ t \in Verified /\ record[t] = "passed" => outcome[Check(t)] = "passed"
    <3>1. Work(t) \in Stages /\ Check(t) \in Stages
      BY StageForm
    <3>2. Calm(Work(t)) /\ Calm(Check(t)) /\ record[t] # "none"
      BY <2>1, <3>1 DEF RunInv, StatusSound
    <3>3. RecordSound(t)
      BY DEF RunInv
    <3>4. QED
      BY <3>2, <3>3 DEF RecordSound, Calm, Over
  <2>3. Lost(Baseline) = {} /\ Lost(Candidate) = {}
    <3>1. Lost(Baseline) \subseteq Pairs /\ Lost(Candidate) \subseteq Pairs
      BY DEF Lost
    <3>2. QED
      BY <2>1, <3>1 DEF Complete
  <2>4. CaseBasis = "complete_pair" /\ ~Differential
    BY <2>1, <2>3 DEF CaseBasis, Differential
  <2>5. \A reason : Excluded(reason) = {}
    BY <2>1 DEF Excluded
  <2>6. Reported = Complete
    <3>1. \A arm \in Arms, pair \in Pairs : StatusIn(arm, pair) \in ResolvedStatuses
      BY <2>3 DEF Lost, Arms
    <3>2. \A pair \in Pairs : pair \in Reported
      BY <3>1 DEF Reported, ResolvedStatuses, UnresolvedStatuses
    <3>3. Reported \subseteq Pairs
      BY DEF Reported
    <3>4. QED
      BY <2>1, <3>2, <3>3
  <2>7. Contributing = Tasks /\ \A task \in Tasks : Cardinality(Included(task)) = Repeats
    BY <2>1, TaskPairs DEF Contributing
  <2>8. Difference(Complete) = Transitions(Reported, 0, 1) - Transitions(Reported, 1, 0)
    BY <2>1, <2>6, DifferenceCounts
  <2>9. Difference(Complete) = SumFunction([r \in 0..Repeats - 1 |-> Difference(Block(r))])
    BY <2>1, DifferenceByBlocks
  <2>10. QED
    BY <2>2, <2>4, <2>5, <2>6, <2>7, <2>8, <2>9 DEF AnalyzedIsWhole
<1>2. QED
  BY <1>1, RunInvariant, PTL

-----------------------------------------------------------------------------
(* RunBatches implements RunContract.                                      *)

\* Besides RunInv: what a run that is over leaves its loop with.
EndSound ==
  main \in {"closing", "ended"} =>
    /\ status = "completed" => batch = Batches + 1
    /\ status \in {"running", "cleanup_failed"} => batch <= Batches
    /\ status = "cleanup_failed" => Uncleaned # {}

\* A stage whose container was left behind is over, and stays as it ended.
LeftStay == \A s \in Stages : left[s] => at'[s] = at[s]

LEMMA LeftStays ==
  ASSUME RunInv, [RunNext]_runVars
  PROVE  LeftStay
<1> SUFFICES ASSUME NEW u \in Stages, left[u] PROVE at'[u] = at[u]
  BY DEF LeftStay
<1>1. at[u] \in {"ended", "raised"} /\ at \in [Stages -> Inner \cup {"waiting", "ended", "raised"}]
  BY DEF RunInv, RunTyped, StageSound, Over
<1>2. ASSUME NEW s \in Stages, StageStep(s) PROVE at'[u] = at[u]
  BY <1>1, <1>2 DEF StageStep, Create, Start, StartReturns, Look, Kill, Breaks, Settle, Goes,
     Concludes, Concluded
<1>3. ASSUME NEW t \in Trials, TakeTrial(t) \/ BeginVerifier(t) PROVE at'[u] = at[u]
  BY <1>1, <1>3 DEF TakeTrial, BeginVerifier, Begins, Concluded
<1>4. CASE MainStep /\ ~\E t \in Trials : TakeTrial(t) \/ BeginVerifier(t)
  BY <1>4 DEF MainStep, NextBatch, PoolDrained, PoolReturns, BatchVerified, LoopEnds, Close,
     PoolRaises, SkipTrial, NoVerifier, VerifierReturns, VerifierRaises, stageVars
<1>5. CASE UNCHANGED runVars \/ Signal \/ \E s \in Stages : EngineStep(s)
  BY <1>5 DEF runVars, stageVars, Signal, EngineStep
<1>6. QED
  BY <1>2, <1>3, <1>4, <1>5 DEF RunNext

LEMMA EndStep ==
  ASSUME RunInv, EndSound, [RunNext]_runVars
  PROVE  EndSound'
<1> USE DEF EndSound
<1>1. /\ main \in {"pool", "draining", "verifying", "awaiting"} => batch <= Batches
      /\ main \notin {"closing", "ended"} => status = "running"
      /\ batch \in Nat /\ Batches \in Nat /\ batch <= Batches + 1
  BY BatchesAssumption DEF RunInv, StatusSound, RunTyped
<1>2. ASSUME UNCHANGED <<main, batch, status, left, record>>
      PROVE  EndSound'
  BY <1>2, LeftStays, StageForm DEF Uncleaned, LeftStay
<1>3. CASE main \in {"closing", "ended"}
  <2>1. \A s \in Stages : at[s] \notin Inner
    BY <1>3 DEF RunInv, InPlace, Inner
  <2>2. ~\E s \in Stages : StageStep(s)
    BY <2>1 DEF StageStep, Create, Start, StartReturns, Look, Kill, Breaks, Settle, Goes, Inner
  <2>3. CASE MainStep
    <3>1. Close
      BY <1>3, <2>3 DEF MainStep, NextBatch, PoolDrained, PoolReturns, BatchVerified, LoopEnds,
         TakeTrial, PoolRaises, SkipTrial, NoVerifier, BeginVerifier, VerifierReturns, VerifierRaises
    <3>2. UNCHANGED <<batch, status, at, left, record>>
      BY <3>1 DEF Close, stageVars
    <3>3. QED
      BY <1>3, <3>2 DEF Uncleaned
  <2>4. CASE UNCHANGED runVars \/ Signal \/ \E s \in Stages : EngineStep(s)
    BY <1>2, <2>4 DEF runVars, mainVars, stageVars, Signal, EngineStep
  <2>5. QED
    BY <2>2, <2>3, <2>4 DEF RunNext
<1>4. CASE main \notin {"closing", "ended"}
  <2> SUFFICES ASSUME main' \in {"closing", "ended"} PROVE EndSound'
    OBVIOUS
  <2>1. PoolDrained \/ PoolReturns \/ LoopEnds
        \/ \E t \in Trials : VerifierReturns(t) \/ VerifierRaises(t)
    BY <1>4 DEF RunNext, MainStep, runVars, mainVars, NextBatch, BatchVerified, Close, TakeTrial,
         PoolRaises, SkipTrial, NoVerifier, BeginVerifier, Signal, StageStep, EngineStep,
         Create, Start, StartReturns, Look, Kill, Breaks, Settle
  <2>2. CASE PoolDrained
    BY <1>1, <2>2 DEF PoolDrained
  <2>3. CASE PoolReturns
    <3>1. CleanupFailed /\ Leave("cleanup_failed") /\ UNCHANGED <<left, record>> /\ main = "pool"
      BY <2>3 DEF PoolReturns, stageVars
    <3>2. Uncleaned' # {}
      BY <3>1 DEF CleanupFailed, Uncleaned
    <3>3. QED
      BY <1>1, <3>1, <3>2 DEF Leave
  <2>4. CASE LoopEnds
    BY <1>1, <2>4 DEF LoopEnds, Leave
  <2>5. ASSUME NEW t \in Trials, VerifierReturns(t) PROVE EndSound'
    <3>1. /\ left[Check(t)] /\ at[Check(t)] = "ended" /\ UNCHANGED <<at, left>>
          /\ Leave("cleanup_failed") /\ main = "awaiting"
      BY <2>5 DEF VerifierReturns, stageVars
    <3>2. PICK v \in Verdicts(t) : record' = [record EXCEPT ![t] = v]
      BY <2>5 DEF VerifierReturns
    <3>3. record'[t] # "pending_verification"
      BY <3>2 DEF Verdicts, RunInv, RunTyped
    <3>4. t \in Uncleaned'
      BY <3>1, <3>3 DEF Uncleaned
    <3>5. QED
      BY <1>1, <3>1, <3>4 DEF Leave
  <2>6. ASSUME NEW t \in Trials, VerifierRaises(t) PROVE EndSound'
    BY <1>1, <2>6 DEF VerifierRaises
  <2>7. QED
    BY <2>1, <2>2, <2>3, <2>4, <2>5, <2>6
<1>5. QED
  BY <1>3, <1>4

LEMMA EndInvariant == RunSpec => []EndSound
<1>1. RunInit => EndSound
  BY DEF RunInit, EndSound
<1>2. QED
  BY <1>1, EndStep, RunInvariant, PTL DEF RunSpec

-----------------------------------------------------------------------------
(* A step of the run is a step of the contract.                            *)

LEMMA StutterImplements ==
  ASSUME LeftStay, UNCHANGED <<record, left, batch, manifest>>
  PROVE  UNCHANGED Contract!vars
BY StageForm DEF Contract!vars, Fate, Uncleaned, LeftStay

\* A trial gets its first record.
LEMMA RecordImplements ==
  ASSUME RunInv, NEW t \in Trials, NEW v \in Records \ {"none"}, NEW l \in BOOLEAN,
         main \in {"pool", "draining"}, BatchOf[t] = batch, ~Over(Work(t)),
         record' = [record EXCEPT ![t] = v], left' = [left EXCEPT ![Work(t)] = l],
         v = "pending_verification" => t \in Verified,
         LeftStay, UNCHANGED <<batch, manifest>>
  PROVE  Contract!Record(t)
<1>1. /\ record \in [Trials -> Records] /\ left \in [Stages -> BOOLEAN]
      /\ manifest = "running" /\ record[t] = "none"
  BY DEF RunInv, RunTyped, StatusSound, RecordSound
<1>2. ~left[Work(t)] /\ ~left[Check(t)] /\ Work(t) # Check(t)
  <2>1. Work(t) \in Stages /\ Check(t) \in Stages /\ Check(t)[2] = "verify" /\ Work(t)[2] = "work"
    BY StageForm
  <2>2. Calm(Check(t)) /\ StageSound(Work(t))
    BY <2>1 DEF RunInv, InPlace
  <2>3. QED
    BY <2>1, <2>2 DEF Calm, StageSound
<1>3. \A u \in Trials : u # t => record'[u] = record[u] /\ left'[Work(u)] = left[Work(u)]
                                  /\ left'[Check(u)] = left[Check(u)]
  <2>1. \A u \in Trials : /\ Work(u) \in Stages /\ Check(u) \in Stages /\ Check(u) # Work(t)
                          /\ u # t => Work(u) # Work(t)
    BY StageForm
  <2>2. QED
    BY <1>1, <2>1
<1>4. record'[t] = v /\ left'[Check(t)] = left[Check(t)]
  BY <1>1, <1>2, StageForm
<1>5. [u \in Trials |-> Fate(u)]' = [[u \in Trials |-> Fate(u)] EXCEPT ![t] = Fate(t)']
  <2>1. \A u \in Trials : u # t => Fate(u)' = Fate(u)
    BY <1>3 DEF Fate
  <2> HIDE DEF Fate
  <2>2. QED
    BY <2>1
<1>6. Uncleaned' \in {Uncleaned, Uncleaned \cup {t}}
  <2>1. t \notin Uncleaned
    BY <1>2 DEF Uncleaned
  <2>2. \A u \in Trials : u # t => (u \in Uncleaned' <=> u \in Uncleaned)
    BY <1>3, StageForm DEF Uncleaned, LeftStay
  <2>3. Uncleaned \subseteq Trials /\ Uncleaned' \subseteq Trials
    BY DEF Uncleaned
  <2>4. QED
    BY <2>1, <2>2, <2>3
<1>7. /\ Fate(t) = "open" /\ Fate(t)' \in Contract!Fates \ {"open"}
      /\ Fate(t)' = "provisional" => t \in Verified
  BY <1>1, <1>4 DEF Fate, Contract!Fates
<1>8. Contract!Becomes(t, Fate(t)')
  BY <1>5, <1>6 DEF Contract!Becomes
<1>9. QED
  BY <1>1, <1>7, <1>8 DEF Contract!Record, Contract!Batch

\* While nothing or only the current verifier is under way, nothing was left.
LEMMA CleanSoFar ==
  ASSUME RunInv, main \in {"looping", "verifying", "awaiting"}
  PROVE  Uncleaned = {}
<1> SUFFICES ASSUME NEW t \in Trials
             PROVE  ~left[Work(t)] /\ (record[t] # "pending_verification" => ~left[Check(t)])
  BY DEF Uncleaned
<1>1. Work(t) \in Stages /\ Check(t) \in Stages /\ Check(t)[1] = t /\ Work(t)[2] = "work"
  BY StageForm
<1>2. CASE main \in {"looping", "verifying"}
  BY <1>1, <1>2 DEF RunInv, InPlace, Calm
<1>3. CASE main = "awaiting"
  <2>1. Calm(Work(t)) /\ (Calm(Check(t)) \/ Current(t))
    BY <1>1, <1>3 DEF RunInv, InPlace
  <2>2. Current(t) => record[t] = "pending_verification"
    BY <1>3 DEF RunInv, OrderSound
  <2>3. QED
    BY <2>1, <2>2 DEF Calm
<1>4. QED
  BY <1>2, <1>3

\* A provisional success is decided.
LEMMA DecideImplements ==
  ASSUME RunInv, NEW t \in Trials, NEW v \in Records \ {"none", "pending_verification"},
         main \in {"verifying", "awaiting"}, Current(t), record[t] = "pending_verification",
         record' = [record EXCEPT ![t] = v], UNCHANGED <<at, left, batch, manifest>>
  PROVE  Contract!Decide(t)
<1>1. record \in [Trials -> Records] /\ manifest = "running" /\ Uncleaned = {} /\ turn \in Nat
  BY CleanSoFar DEF RunInv, RunTyped, StatusSound
<1>2. /\ record'[t] = v
      /\ \A u \in Trials : u # t => record'[u] = record[u]
  BY <1>1
<1>3. [u \in Trials |-> Fate(u)]' = [[u \in Trials |-> Fate(u)] EXCEPT ![t] = Fate(t)']
  <2>1. \A u \in Trials : u # t => Fate(u)' = Fate(u)
    BY <1>2 DEF Fate
  <2> HIDE DEF Fate
  <2>2. QED
    BY <2>1
<1>4. Uncleaned' \in {Uncleaned, Uncleaned \cup {t}}
  <2>1. \A u \in Trials : u # t => (u \in Uncleaned' <=> u \in Uncleaned)
    BY <1>2 DEF Uncleaned
  <2>2. Uncleaned' \subseteq Trials
    BY DEF Uncleaned
  <2>3. QED
    BY <1>1, <2>1, <2>2
<1>5. Fate(t) = "provisional" /\ Fate(t)' \in {"cancelled", "decided"}
  BY <1>2 DEF Fate
<1>6. t \in Contract!Batch /\ \A u \in Contract!Batch :
        Fate(u) # "open" /\ (u < t => Fate(u) # "provisional")
  <2>1. t \in InBatch /\ t >= turn /\ \A u \in InBatch : u >= turn => t <= u
    BY DEF Current
  <2>2. \A u \in InBatch : record[u] # "none" /\ (u < turn => record[u] # "pending_verification")
    BY DEF RunInv, OrderSound, InBatch
  <2>3. \A u \in InBatch : u \in Nat /\ t \in Nat
    BY TrialForm DEF InBatch
  <2>4. \A u \in InBatch : u < t => u < turn
    BY <1>1, <2>1, <2>3
  <2>5. Contract!Batch = InBatch
    BY DEF Contract!Batch, InBatch
  <2>6. QED
    BY <2>1, <2>2, <2>4, <2>5 DEF Fate
<1>7. \A u \in Contract!Batch : u \in Trials
  BY DEF Contract!Batch
<1>8. Contract!Becomes(t, Fate(t)')
  BY <1>3, <1>4 DEF Contract!Becomes
<1> HIDE DEF Fate
<1>9. QED
  BY <1>1, <1>5, <1>6, <1>7, <1>8 DEF Contract!Decide

LEMMA AdvanceImplements ==
  ASSUME RunInv, BatchVerified
  PROVE  Contract!Advance
<1>1. /\ main = "verifying" /\ batch' = batch + 1 /\ UNCHANGED <<manifest, at, left, record>>
      /\ \A t \in InBatch : t < turn
  BY DEF BatchVerified, stageVars
<1>2. manifest = "running" /\ batch <= Batches /\ Uncleaned = {}
  BY <1>1, CleanSoFar DEF RunInv, StatusSound
<1>3. \A t \in Contract!Batch : t \in Trials /\ Fate(t) \in {"cancelled", "decided"}
  <2>1. \A t \in InBatch : record[t] \notin {"none", "pending_verification"}
    BY <1>1 DEF RunInv, OrderSound, InBatch
  <2>2. QED
    BY <2>1 DEF Fate, Contract!Batch, InBatch
<1>4. [t \in Trials |-> Fate(t)]' = [t \in Trials |-> Fate(t)] /\ Uncleaned' = Uncleaned
  BY <1>1 DEF Fate, Uncleaned
<1>5. QED
  BY <1>1, <1>2, <1>3, <1>4 DEF Contract!Advance

LEMMA FinishImplements ==
  ASSUME RunInv, EndSound, Close
  PROVE  manifest' \in Contract!Endings /\ Contract!Finish(manifest')
<1>1. /\ main = "closing" /\ manifest = "running" /\ UNCHANGED <<batch, at, left, record>>
      /\ manifest' = IF status = "running" THEN "interrupted" ELSE status
  BY DEF Close, RunInv, StatusSound, stageVars
<1>2. status \in {"running", "completed", "cancelled", "cleanup_failed"}
  BY DEF RunInv, RunTyped
<1>3. status = "completed" =>
        Uncleaned = {} /\ \A t \in Trials : Fate(t) = "decided"
  <2> SUFFICES ASSUME status = "completed", NEW t \in Trials
               PROVE  ~left[Work(t)] /\ ~left[Check(t)] /\ Fate(t) = "decided"
    BY DEF Uncleaned
  <2>1. Calm(Work(t)) /\ Calm(Check(t))
    BY StageForm DEF RunInv, StatusSound
  <2>2. record[t] \notin {"none", "pending_verification", "cancelled"}
    BY DEF RunInv, StatusSound
  <2>3. QED
    BY <2>1, <2>2 DEF Calm, Fate
<1>4. [t \in Trials |-> Fate(t)]' = [t \in Trials |-> Fate(t)] /\ Uncleaned' = Uncleaned
  BY <1>1 DEF Fate, Uncleaned
<1>5. /\ status = "completed" => batch = Batches + 1
      /\ status \in {"running", "cleanup_failed"} => batch <= Batches
      /\ status = "cleanup_failed" => Uncleaned # {}
  BY <1>1 DEF EndSound
<1>6. manifest' \in Contract!Endings
  BY <1>1, <1>2 DEF Contract!Endings
<1> HIDE DEF Fate
<1>7. /\ manifest' = "completed" =>
           batch = Batches + 1 /\ Uncleaned = {} /\ \A t \in Trials : Fate(t) = "decided"
      /\ manifest' = "cleanup_failed" => Uncleaned # {}
      /\ manifest' \in {"cleanup_failed", "interrupted"} => batch <= Batches
  BY <1>1, <1>2, <1>3, <1>5
<1>8. QED
  BY <1>1, <1>4, <1>6, <1>7 DEF Contract!Finish

\* The end of a stage: of a workload its first record, of a verifier nothing yet.
LEMMA SettleImplements ==
  ASSUME RunInv, LeftStay, NEW s \in Stages, Settle(s)
  PROVE  [Contract!Next]_(Contract!vars)
<1>1. at[s] = "removing" /\ UNCHANGED mainVars
  BY DEF Settle
<1>2. PICK o \in {outcome[s], "runner_error"} : Concluded(s, o)
  BY DEF Settle
<1>3. left \in [Stages -> BOOLEAN] /\ ~Over(s) /\ ~Calm(s) /\ o \in Outcomes \ {"none"}
  BY <1>1 DEF RunInv, RunTyped, StageSound, Over, Calm, Outcomes
<1>4. PICK l \in BOOLEAN : left' = [left EXCEPT ![s] = l]
  <2>1. left' = left => left' = [left EXCEPT ![s] = left[s]]
    BY <1>3
  <2>2. QED
    BY <1>3, <2>1 DEF Settle
<1>5. main \in {"pool", "draining", "awaiting"}
  BY <1>1, <1>3 DEF RunInv, InPlace, RunTyped, Mains
<1>6. CASE s[2] = "work"
  <2>1. s[1] \in Trials /\ s = Work(s[1]) /\ Work(s[1]) \in Stages
    BY <1>6, StageForm
  <2>2. main \in {"pool", "draining"} /\ BatchOf[s[1]] = batch
    BY <1>3, <1>5, <1>6 DEF RunInv, InPlace
  <2>3. record' = [record EXCEPT ![s[1]] = Recorded(s[1], o)]
    BY <1>2, <1>6 DEF Concluded
  <2>4. Contract!Record(s[1])
    BY <1>1, <1>3, <1>4, <2>1, <2>2, <2>3, RecordImplements, RecordedSound DEF mainVars
  <2>5. QED
    BY <2>1, <2>4 DEF Contract!Next
<1>7. CASE s[2] = "verify"
  <2>1. s[1] \in Trials /\ s = Check(s[1])
    BY <1>7, StageForm
  <2>2. main = "awaiting" /\ Current(s[1])
    BY <1>3, <1>5, <1>7 DEF RunInv, InPlace
  <2>3. record[s[1]] = "pending_verification" /\ record' = record
    BY <1>2, <1>7, <2>1, <2>2 DEF Concluded, RunInv, OrderSound
  <2>4. \A u \in Trials : /\ left'[Work(u)] = left[Work(u)]
                          /\ u # s[1] => left'[Check(u)] = left[Check(u)]
    <3>1. \A u \in Trials : /\ Work(u) \in Stages /\ Check(u) \in Stages
                            /\ Work(u) # s /\ (u # s[1] => Check(u) # s)
      BY <1>7, StageForm
    <3>2. QED
      BY <1>3, <1>4, <3>1
  <2>5. Uncleaned' = Uncleaned
    BY <2>3, <2>4, StageForm DEF Uncleaned, LeftStay
  <2>6. UNCHANGED Contract!vars
    BY <1>1, <2>3, <2>5 DEF Contract!vars, Fate, mainVars
  <2>7. QED
    BY <2>6
<1>8. QED
  BY <1>6, <1>7, StageForm

LEMMA TakeImplements ==
  ASSUME RunInv, LeftStay, NEW t \in Trials, TakeTrial(t)
  PROVE  [Contract!Next]_(Contract!vars)
<1>1. /\ main = "pool" /\ BatchOf[t] = batch /\ at[Work(t)] = "waiting"
      /\ UNCHANGED <<mainVars, left>> /\ Begins(Work(t))
  BY DEF TakeTrial, InBatch
<1>2. CASE stop
  <2>1. Work(t) \in Stages /\ Work(t)[1] = t /\ Work(t)[2] = "work"
    BY StageForm
  <2>2. record' = [record EXCEPT ![t] = Recorded(t, "cancelled")]
    BY <1>1, <1>2, <2>1 DEF Begins, Concluded
  <2>3. Recorded(t, "cancelled") = "cancelled" /\ "cancelled" \in Records
    BY DEF Recorded, Records, Outcomes
  <2>4. left' = [left EXCEPT ![Work(t)] = left[Work(t)]] /\ left[Work(t)] \in BOOLEAN
    BY <1>1, <2>1 DEF RunInv, RunTyped
  <2>5. ~Over(Work(t))
    BY <1>1 DEF Over
  <2>6. Contract!Record(t)
    BY <1>1, <2>2, <2>3, <2>4, <2>5, RecordImplements DEF mainVars
  <2>7. QED
    BY <2>6 DEF Contract!Next
<1>3. CASE ~stop
  <2>1. UNCHANGED <<record, left, batch, manifest>>
    BY <1>1, <1>3 DEF Begins, mainVars
  <2>2. QED
    BY <2>1, StutterImplements
<1>4. QED
  BY <1>2, <1>3

LEMMA VerdictImplements ==
  ASSUME RunInv, NEW t \in Trials, NoVerifier(t) \/ VerifierReturns(t) \/ VerifierRaises(t)
  PROVE  [Contract!Next]_(Contract!vars)
<1>1. /\ main \in {"verifying", "awaiting"} /\ Current(t)
      /\ UNCHANGED <<at, left, batch, manifest>>
  BY DEF NoVerifier, VerifierReturns, VerifierRaises, Leave, stageVars
<1>2. record[t] = "pending_verification"
  BY DEF NoVerifier, Pending, VerifierReturns, VerifierRaises, RunInv, OrderSound
<1>3. PICK v \in Records \ {"none", "pending_verification"} : record' = [record EXCEPT ![t] = v]
  BY DEF NoVerifier, VerifierReturns, Verdicts, VerifierRaises, Records, Outcomes
<1>4. Contract!Decide(t)
  BY <1>1, <1>2, <1>3, DecideImplements
<1>5. QED
  BY <1>4 DEF Contract!Next

LEMMA StepImplements ==
  ASSUME RunInv, EndSound, [RunNext]_runVars
  PROVE  [Contract!Next]_(Contract!vars)
<1>0. LeftStay
  BY LeftStays
<1>1. ASSUME UNCHANGED <<record, left, batch, manifest>> PROVE [Contract!Next]_(Contract!vars)
  BY <1>0, <1>1, StutterImplements
<1>2. CASE UNCHANGED runVars \/ Signal \/ \E s \in Stages : EngineStep(s)
  BY <1>1, <1>2 DEF runVars, mainVars, stageVars, Signal, EngineStep
<1>3. ASSUME NEW s \in Stages, StageStep(s) PROVE [Contract!Next]_(Contract!vars)
  <2>1. CASE Settle(s)
    BY <1>0, <2>1, SettleImplements
  <2>2. CASE ~Settle(s)
    <3>1. UNCHANGED <<record, left, batch, manifest>>
      BY <1>3, <2>2 DEF StageStep, Create, Start, StartReturns, Look, Kill, Breaks, mainVars
    <3>2. QED
      BY <1>1, <3>1
  <2>3. QED
    BY <2>1, <2>2
<1>4. CASE MainStep
  <2>1. CASE BatchVerified
    BY <2>1, AdvanceImplements DEF Contract!Next
  <2>2. CASE Close
    BY <2>2, FinishImplements DEF Contract!Next
  <2>3. ASSUME NEW t \in Trials, TakeTrial(t) PROVE [Contract!Next]_(Contract!vars)
    BY <1>0, <2>3, TakeImplements
  <2>4. ASSUME NEW t \in Trials, NoVerifier(t) \/ VerifierReturns(t) \/ VerifierRaises(t)
        PROVE  [Contract!Next]_(Contract!vars)
    BY <2>4, VerdictImplements
  <2>5. ASSUME NEW t \in Trials, BeginVerifier(t) PROVE [Contract!Next]_(Contract!vars)
    <3>1. Begins(Check(t)) /\ UNCHANGED <<left, batch, manifest>> /\ Check(t)[2] = "verify"
      BY <2>5, StageForm DEF BeginVerifier
    <3>2. record' = record
      BY <3>1 DEF Begins, Concluded
    <3>3. QED
      BY <1>1, <3>1, <3>2
  <2>6. ASSUME \/ NextBatch \/ PoolDrained \/ PoolReturns \/ LoopEnds
               \/ \E t \in Trials : PoolRaises(t) \/ SkipTrial(t)
        PROVE  [Contract!Next]_(Contract!vars)
    <3>1. UNCHANGED <<record, left, batch, manifest>>
      BY <2>6 DEF NextBatch, PoolDrained, PoolReturns, LoopEnds, PoolRaises, SkipTrial, Leave,
           stageVars
    <3>2. QED
      BY <1>1, <3>1
  <2>7. QED
    BY <1>4, <2>1, <2>2, <2>3, <2>4, <2>5, <2>6 DEF MainStep
<1>5. QED
  BY <1>2, <1>3, <1>4 DEF RunNext

\* Whatever threads, containers and docker do, the records and the manifest
\* follow the contract: batch after batch, all recorded before any is verified,
\* nothing after a failed removal, and a final status that is true.
THEOREM ContractRefinement == RunSpec => ImplementsContract
<1>1. RunInit => Contract!Init
  <2> SUFFICES ASSUME RunInit PROVE Contract!Init
    OBVIOUS
  <2>1. \A t \in Trials : Fate(t) = "open" /\ ~left[Work(t)] /\ ~left[Check(t)]
    BY StageForm DEF RunInit, Fate
  <2>2. Uncleaned = {}
    BY <2>1 DEF Uncleaned
  <2>3. [t \in Trials |-> Fate(t)] = [t \in Trials |-> "open"]
    BY <2>1
  <2>4. QED
    BY <2>2, <2>3 DEF RunInit, Contract!Init
<1>2. QED
  BY <1>1, StepImplements, EndInvariant, RunInvariant, PTL
     DEF RunSpec, ImplementsContract, Contract!Spec
=============================================================================
