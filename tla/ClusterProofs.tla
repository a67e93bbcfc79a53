--------------------------- MODULE ClusterProofs ----------------------------
(***************************************************************************)
(* What workers and the wire do to the coordinator is what Coordinator     *)
(* says, so its theorems hold of the whole cluster.                        *)
(***************************************************************************)
EXTENDS ClusterWorker, CoordinatorProofs

MainPhases ==
  {"start", "claiming", "granted", "executing", "executed", "completing", "failing"} \cup Final

\* A completion on the wire carries the evidence of its executor.
BundleSound ==
  /\ main \in [Invocations -> MainPhases]
  /\ bundle \in [Invocations -> Bundles \cup {None}]
  /\ \A i \in Invocations :
       main[i] = "executed" \/ <<i, "complete">> \in wire => bundle[i] \in Bundles

ClusterInv == Typed /\ BundleSound

-----------------------------------------------------------------------------
\* The main thread of a worker leaves the database alone.
LEMMA MainStepSound ==
  ASSUME BundleSound, NEW i \in Invocations, MainStep(i)
  PROVE  BundleSound' /\ UNCHANGED coordVars
<1> USE DEF BundleSound, MainPhases, Final, Goes, Send, Accepts, Errs
<1>1. CASE SendClaim(i) \/ ClaimReturns(i) \/ ClaimErrs(i)
  BY <1>1 DEF SendClaim, ClaimReturns, ClaimErrs
<1>2. CASE StartExecution(i)
  BY <1>2 DEF StartExecution
<1>3. ASSUME NEW b \in Bundles, Execute(i, b) PROVE BundleSound' /\ UNCHANGED coordVars
  BY <1>3 DEF Execute
<1>4. CASE SendComplete(i) \/ CompleteReturns(i)
  BY <1>4 DEF SendComplete, CompleteReturns
<1>5. CASE SendFail(i) \/ FailReturns(i)
  BY <1>5 DEF SendFail, FailReturns
<1>6. QED
  BY <1>1, <1>2, <1>3, <1>4, <1>5 DEF MainStep

\* So does its heartbeat thread.
LEMMA BeatStepSound ==
  ASSUME BundleSound, NEW i \in Invocations, BeatStep(i) \/ Signal(i) \/ Kill(i)
  PROVE  BundleSound' /\ UNCHANGED coordVars
BY DEF BeatStep, SendHeartbeat, HeartbeatReturns, HeartbeatErrs, BeatEnds, Signal, Kill,
  BundleSound, MainPhases, Final, Send, Accepts, Errs

\* What the server does for a request is one transaction of the coordinator.
LEMMA ServeSound ==
  ASSUME Typed, BundleSound, NEW i \in Invocations, Serve(i)
  PROVE  BundleSound' /\ [Next]_coordVars
<1>1. /\ By[i] \in Workers
      /\ \A j, w, l : <<j, w, l>> \in handed => j \in Jobs /\ l \in Attempts
  BY ClusterAssumption DEF Typed, TypeOK
<1>2. BundleSound'
  BY DEF Serve, ServeClaim, ServeHeartbeat, ServeComplete, ServeFail, Reads, Refuses, Answers,
    BundleSound
<1>3. ASSUME ServeClaim(i) PROVE [Next]_coordVars
  <2>1. ASSUME NEW j \in Jobs, ClaimJob(By[i], j) PROVE Next
    BY <1>1, <2>1 DEF Next, Claim
  <2>2. ClaimNothing(By[i]) => Next
    BY <1>1 DEF Next, Claim
  <2>3. QED
    BY <1>3, <2>1, <2>2 DEF ServeClaim, Refuses
<1>4. ASSUME ServeHeartbeat(i) PROVE [Next]_coordVars
  <2>1. ASSUME NEW t \in Time, Heartbeat(By[i], lease[i].job, lease[i].token, t) PROVE Next
    <3>1. lease[i].job \in Jobs /\ lease[i].token \in Attempts
      BY <1>1, <2>1 DEF Heartbeat
    <3>2. QED
      BY <1>1, <2>1, <3>1 DEF Next
  <2>2. QED
    BY <1>4, <2>1 DEF ServeHeartbeat, Refuses
<1>5. ASSUME ServeComplete(i) PROVE [Next]_coordVars
  <2>1. ASSUME NEW t \in Time, Complete(By[i], lease[i].job, lease[i].token, bundle[i], t)
        PROVE  Next
    <3>1. lease[i].job \in Jobs /\ lease[i].token \in Attempts
      BY <1>1, <2>1 DEF Complete
    <3>2. bundle[i] \in Bundles
      BY <1>5 DEF ServeComplete, Reads, BundleSound
    <3>3. QED
      BY <1>1, <2>1, <3>1, <3>2 DEF Next
  <2>2. ASSUME NEW t \in Time, Tick(t) PROVE Next
    BY <2>2 DEF Next
  <2>3. QED
    BY <1>5, <2>1, <2>2 DEF ServeComplete
<1>6. ASSUME ServeFail(i) PROVE [Next]_coordVars
  <2>1. ASSUME Fail(By[i], lease[i].job, lease[i].token) PROVE Next
    <3>1. lease[i].job \in Jobs /\ lease[i].token \in Attempts
      BY <1>1, <2>1 DEF Fail
    <3>2. QED
      BY <1>1, <2>1, <3>1 DEF Next
  <2>2. QED
    BY <1>6, <2>1 DEF ServeFail, Refuses
<1>7. QED
  BY <1>2, <1>3, <1>4, <1>5, <1>6 DEF Serve

\* What other clients do is a transaction of the coordinator.
LEMMA ElsewhereSound ==
  ASSUME BundleSound, Elsewhere PROVE BundleSound' /\ Next
BY DEF Elsewhere, Next, workerVars, BundleSound

\* Every step of the cluster is a transaction or leaves the database alone.
LEMMA ClusterStep ==
  ASSUME ClusterInv, [ClusterNext]_allVars PROVE ClusterInv' /\ [Next]_coordVars
<1>1. BundleSound' /\ [Next]_coordVars
  <2>1. CASE ClusterNext
    BY <2>1, MainStepSound, BeatStepSound, ServeSound, ElsewhereSound DEF ClusterInv, ClusterNext
  <2>2. CASE UNCHANGED allVars
    BY <2>2 DEF allVars, workerVars, ClusterInv, BundleSound
  <2>3. QED
    BY <2>1, <2>2
<1>2. QED
  BY <1>1, TypedStep DEF ClusterInv

\* Every invocation starts without a bundle, beside an empty database.
LEMMA ClusterBegins == Init /\ WorkerInit => ClusterInv
<1>1. Init => Typed
  BY InitTyped
<1>2. WorkerInit => BundleSound
  BY DEF WorkerInit, BundleSound, MainPhases
<1>3. QED
  BY <1>1, <1>2 DEF ClusterInv

\* Whatever is lost, late, repeated by a restarted worker or killed, the
\* cluster takes the coordinator through transactions of its own only
\* (cluster.py, dispatch and worker_once).
THEOREM ClusterImplementsCoordinator == ClusterSpec => Spec
<1>1. Init /\ WorkerInit => ClusterInv
  BY ClusterBegins
<1>2. ClusterInv /\ [ClusterNext]_allVars => ClusterInv' /\ [Next]_coordVars
  BY ClusterStep
<1>3. QED
  BY <1>1, <1>2, PTL DEF ClusterSpec, Spec

\* So the lease a worker's request presents is the last one handed out, or it
\* is refused, in every run of the whole cluster.
COROLLARY ClusterFencing == ClusterSpec => []FencedByLastLease
BY ClusterImplementsCoordinator, FencingInvariant, PTL

\* And what the coordinator accepts in the cluster always verifies.
COROLLARY ClusterReceipts == ClusterSpec => []ReceiptsVerify
BY ClusterImplementsCoordinator, ReceiptsInvariant, PTL

\* And whatever is retried or lost on the way, no owner's attempts cost more
\* than its quota, and no owner's evidence takes more room.
COROLLARY ClusterQuotas == ClusterSpec => []UsageAccounted /\ []EvidenceWithinQuota
BY ClusterImplementsCoordinator, UsageTheorem, EvidenceQuotaTheorem, PTL

\* And every job keeps the lifecycle it is promised, through both modules.
COROLLARY ClusterLifecycle == ClusterSpec => ImplementsLifecycle
BY ClusterImplementsCoordinator, LifecycleRefinement, PTL

-----------------------------------------------------------------------------
(* What the workers remember and what the database holds.                  *)

\* An invocation that has done with its execution, and one that gave up.
Past == {"completing", "failing"} \cup Final

GaveUp == {"failing", "raised", "killed"}

\* A lease is granted once, to a claim sent once; what is asked for a job has
\* been decided in worker_once before.
WorkSound ==
  /\ main \in [Invocations -> MainPhases]
  /\ lease \in [Invocations -> [job : Jobs \cup {None}, token : Attempts]]
  /\ \A i \in Invocations :
       /\ main[i] = "start" => lease[i] = NoLease /\ <<i, "claim">> \notin wire
       /\ <<i, "claim">> \in wire => lease[i] = NoLease
       /\ lease[i] # NoLease => lease[i].job \in Jobs
       /\ <<i, "complete">> \in wire => main[i] \in Past
       /\ <<i, "fail">> \in wire => main[i] \in GaveUp

\* What no step takes from an invocation.
Kept(i) ==
  /\ lease[i] # NoLease => lease'[i] = lease[i]
  /\ main[i] \in Past => main'[i] \in Past /\ bundle'[i] = bundle[i]
  /\ main[i] \in GaveUp => main'[i] \in GaveUp
  /\ main'[i] = "completed" => main[i] = "completed" \/ <<i, "complete", TRUE>> \in reply

LEMMA WorkersKept ==
  ASSUME BundleSound, WorkSound, NEW i \in Invocations, MainStep(i) \/ BeatStep(i) \/ Signal(i) \/ Kill(i)
  PROVE  WorkSound' /\ \A k \in Invocations : Kept(k)
<1> USE DEF WorkSound, BundleSound, Kept, MainPhases, Past, GaveUp, Final, Goes, Send
<1>1. CASE SendClaim(i)
  BY <1>1 DEF SendClaim
<1>2. CASE ClaimReturns(i) \/ ClaimErrs(i)
  BY <1>2 DEF ClaimReturns, ClaimErrs
<1>3. CASE StartExecution(i)
  BY <1>3 DEF StartExecution
<1>4. ASSUME NEW b \in Bundles, Execute(i, b)
      PROVE  WorkSound' /\ \A k \in Invocations : Kept(k)
  BY <1>4 DEF Execute
<1>5. CASE SendComplete(i)
  BY <1>5 DEF SendComplete
<1>6. CASE CompleteReturns(i)
  BY <1>6 DEF CompleteReturns, Accepts
<1>7. CASE SendFail(i)
  BY <1>7 DEF SendFail
<1>8. CASE FailReturns(i)
  BY <1>8 DEF FailReturns
<1>9. CASE Signal(i)
  BY <1>9 DEF Signal
<1>10. CASE Kill(i)
  BY <1>10 DEF Kill
<1>11. CASE BeatStep(i)
  BY <1>11 DEF BeatStep, SendHeartbeat, HeartbeatReturns, HeartbeatErrs, BeatEnds
<1>12. QED
  BY <1>1, <1>2, <1>3, <1>4, <1>5, <1>6, <1>7, <1>8, <1>9, <1>10, <1>11 DEF MainStep

\* The server changes nothing of an invocation but the lease it grants.
LEMMA ServeKeeps ==
  ASSUME Typed, BundleSound, WorkSound, NEW i \in Invocations, Serve(i)
  PROVE  WorkSound' /\ \A k \in Invocations : Kept(k)
<1> USE DEF WorkSound, BundleSound, Kept
<1>1. CASE UNCHANGED <<main, bundle, lease>> /\ wire' \subseteq wire
  BY <1>1
<1>2. CASE ServeHeartbeat(i) \/ ServeComplete(i) \/ ServeFail(i)
  BY <1>1, <1>2 DEF ServeHeartbeat, ServeComplete, ServeFail, Reads, Refuses, Answers
<1>3. CASE ServeClaim(i)
  <2>1. UNCHANGED <<main, bundle>> /\ wire' = wire \ {<<i, "claim">>} /\ <<i, "claim">> \in wire
    BY <1>3 DEF ServeClaim, Reads, Refuses, Answers
  <2>2. CASE UNCHANGED lease
    BY <1>1, <2>1, <2>2
  <2>3. ASSUME NEW j \in Jobs, ClaimJob(By[i], j),
               lease' = [lease EXCEPT ![i] = [job |-> j, token |-> job'[j].lease]]
        PROVE  WorkSound' /\ \A k \in Invocations : Kept(k)
    <3>1. Typed'
      <4>1. By[i] \in Workers
        BY ClusterAssumption
      <4>2. Next
        BY <2>3, <4>1 DEF Next, Claim
      <4>3. QED
        BY <4>2, TypedStep
    <3>2. job'[j].lease \in Attempts
      BY <3>1 DEF Typed, TypeOK, Row
    <3>3. QED
      BY <2>1, <2>3, <3>2
  <2>4. QED
    BY <1>3, <2>2, <2>3 DEF ServeClaim, Refuses
<1>4. QED
  BY <1>2, <1>3 DEF Serve

LEMMA WorkSteps ==
  ASSUME ClusterInv, WorkSound, [ClusterNext]_allVars
  PROVE  WorkSound' /\ \A k \in Invocations : Kept(k)
<1>1. CASE Elsewhere \/ UNCHANGED allVars
  BY <1>1 DEF Elsewhere, allVars, workerVars, WorkSound, Kept
<1>2. CASE ClusterNext /\ ~Elsewhere
  BY <1>2, WorkersKept, ServeKeeps DEF ClusterNext, ClusterInv
<1>3. QED
  BY <1>1, <1>2

-----------------------------------------------------------------------------
(* What is settled stays settled, and who settled it.                      *)

Taken == {"completed", "purged"}

\* An accepted result keeps its owner and its receipt, a failed job its row.
LEMMA SettledStays ==
  ASSUME Typed, [Next]_coordVars, NEW j \in Jobs
  PROVE  /\ job[j].state \in Taken =>
              /\ job'[j].state \in Taken /\ job'[j].receipt = job[j].receipt
              /\ job'[j].owner = job[j].owner
         /\ job[j].state = "failed" => job'[j] = job[j]
<1>1. RowStep(j) /\ job[j] \in Row
  BY EveryRowSteps DEF Typed, TypeOK
<1>2. CASE Purged(j)
  BY <1>1, <1>2 DEF Purged, Settle, Row, Taken
<1>3. CASE ~Purged(j) /\ job[j].state \in Taken \cup {"failed"}
  <2>1. job'[j] = job[j]
    BY <1>1, <1>3 DEF RowStep, Submitted, Renewed, AcceptedRow, Closed, Active, Scan, Seen, Taken
  <2>2. QED
    BY <1>3, <2>1
<1>4. QED
  BY <1>2, <1>3 DEF Purged, Taken

\* A claim takes no result ...
LEMMA ScanTakesNothing ==
  ASSUME Typed, NEW j \in Jobs, Scan(j), job[j].state \notin Taken
  PROVE  job'[j].state \notin Taken
<1>1. PICK row \in Seen(j) :
        \/ job'[j] = row
        \/ job'[j] = [row EXCEPT !.state = "failed"]
        \/ \E v \in Workers, t \in Time : job'[j] = Granted(row, v, t)
  BY DEF Scan
<1>2. job[j] \in Row /\ Shaped(job[j])
  BY DEF Typed, TypeOK, Shape
<1>3. row \in Row /\ row.state \notin Taken
  <2>1. CASE row = job[j]
    BY <1>2, <2>1
  <2>2. CASE job[j].state = "leased" /\ row = Lapsed(job[j])
    <3>1. row \in Row
      BY <1>2, <2>2, LapsedTyped
    <3>2. row.state \in {"queued", "failed"}
      BY <1>2, <2>2 DEF Lapsed, Settle, Row
    <3>3. QED
      BY <3>1, <3>2 DEF Taken
  <2>3. QED
    BY <2>1, <2>2 DEF Seen
<1>4. QED
  BY <1>1, <1>3 DEF Granted, Row, Taken

\* The coordinator's transactions but for the one that accepts a result.
Others ==
  \/ \E o \in Owners, i \in Items, k \in Keys : Submit(o, i, k)
  \/ \E w \in Workers : Claim(w)
  \/ \E w \in Workers, j \in Jobs, l \in Attempts, t \in Time : Heartbeat(w, j, l, t)
  \/ \E w \in Workers, j \in Jobs, l \in Attempts : Fail(w, j, l)
  \/ \E o \in Owners, j \in Jobs : Cancel(o, j) \/ Purge(o, j)
  \/ \E p \in Owners \cup Workers : Revoke(p)
  \/ \E t \in Time : Tick(t)
  \/ UNCHANGED coordVars

\* ... nor does anything else but an accepted completion.
LEMMA OthersTakeNothing ==
  ASSUME Typed, NEW j \in Jobs, job[j].state \notin Taken, Others
  PROVE  job'[j].state \notin Taken
<1>1. job \in [Jobs -> Row]
  BY DEF Typed, TypeOK
<1> DEFINE Not == job'[j].state \notin Taken
<1>2. ASSUME NEW w \in Workers, Claim(w) PROVE Not
  BY <1>2, ClaimRowStep, ScanTakesNothing
<1>3. ASSUME NEW w \in Workers, NEW i \in Jobs, NEW l \in Attempts, NEW t \in Time,
             Heartbeat(w, i, l, t)
      PROVE  Not
  BY <1>1, <1>3 DEF Heartbeat, Row
<1>4. ASSUME NEW w \in Workers, NEW i \in Jobs, NEW l \in Attempts, Fail(w, i, l) PROVE Not
  BY <1>1, <1>4 DEF Fail, Settle, Row, Taken
<1>5. ASSUME NEW o \in Owners, NEW i \in Jobs, Cancel(o, i) \/ Purge(o, i) PROVE Not
  BY <1>1, <1>5 DEF Cancel, Purge, Settle, Row, Taken
<1>6. ASSUME NEW p \in Owners \cup Workers, Revoke(p) PROVE Not
  BY <1>1, <1>6 DEF Revoke, Settle, Row, Taken
<1>7. ASSUME NEW o \in Owners, NEW i \in Items, NEW k \in Keys, Submit(o, i, k) PROVE Not
  BY <1>1, <1>7 DEF Submit, Queued, NoRow, Taken
<1>8. ASSUME (\E t \in Time : Tick(t)) \/ UNCHANGED coordVars PROVE Not
  BY <1>8 DEF Tick, coordVars
<1> HIDE DEF Not
<1>9. Not
  BY <1>2, <1>3, <1>4, <1>5, <1>6, <1>7, <1>8 DEF Others
<1>10. QED
  BY <1>9 DEF Not

\* What the server does for a completion it accepts.
Takes(i) ==
  \E t \in Time :
    /\ Complete(By[i], lease[i].job, lease[i].token, bundle[i], t)
    /\ <<i, "complete">> \in wire
    /\ Answers(i, "complete", TRUE) /\ UNCHANGED lease

\* Replies to other requests are no replies to a completion.
LEMMA OtherReplies ==
  ASSUME NEW i, NEW op, op # "complete", NEW ok, Answers(i, op, ok), NEW k,
         <<k, "complete", TRUE>> \in reply'
  PROVE  <<k, "complete", TRUE>> \in reply
<1>1. <<k, "complete", TRUE>> \in reply \/ <<k, "complete", TRUE>> = <<i, op, ok>>
  BY DEF Answers
<1>2. ASSUME <<k, "complete", TRUE>> = <<i, op, ok>> PROVE FALSE
  <2>1. <<k, "complete", TRUE>>[2] = <<i, op, ok>>[2]
    BY <1>2
  <2>2. QED
    BY <2>1
<1>3. QED
  BY <1>1, <1>2

\* Every other step of the cluster is one of Others, and adds no good reply to
\* a completion.
LEMMA TakesOrOthers ==
  ASSUME ClusterInv, WorkSound, [ClusterNext]_allVars
  PROVE  \/ \E i \in Invocations : Takes(i)
         \/ /\ Others
            /\ \A i \in Invocations : <<i, "complete", TRUE>> \in reply' => <<i, "complete", TRUE>> \in reply
<1> DEFINE NoNews == \A i \in Invocations :
                       <<i, "complete", TRUE>> \in reply' => <<i, "complete", TRUE>> \in reply
<1>1. CASE Elsewhere
  BY <1>1 DEF Elsewhere, Others, workerVars
<1>2. CASE UNCHANGED allVars
  BY <1>2 DEF allVars, workerVars, Others
<1>3. ASSUME NEW i \in Invocations, MainStep(i) \/ BeatStep(i) \/ Signal(i) \/ Kill(i)
      PROVE  Others /\ NoNews
  <2>1. UNCHANGED coordVars
    BY <1>3, MainStepSound, BeatStepSound DEF ClusterInv
  <2>2. reply' \subseteq reply
    BY <1>3 DEF MainStep, SendClaim, ClaimReturns, ClaimErrs, StartExecution, Execute,
         SendComplete, CompleteReturns, SendFail, FailReturns, BeatStep, SendHeartbeat,
         HeartbeatReturns, HeartbeatErrs, BeatEnds, Signal, Kill, Accepts, Errs
  <2>3. QED
    BY <2>1, <2>2 DEF Others
<1>4. ASSUME NEW i \in Invocations, Serve(i)
      PROVE  Takes(i) \/ (Others /\ NoNews)
  <2>1. /\ By[i] \in Workers
        /\ \A j, w, l : <<j, w, l>> \in handed => j \in Jobs /\ l \in Attempts
    BY ClusterAssumption DEF ClusterInv, Typed, TypeOK
  <2>2. CASE ServeClaim(i)
    <3>1. NoNews
      <4>1. \E ok : Answers(i, "claim", ok)
        BY <2>2 DEF ServeClaim, Refuses
      <4>2. QED
        BY <4>1, OtherReplies
    <3>2. Others
      <4>1. ASSUME NEW j \in Jobs, ClaimJob(By[i], j) PROVE Others
        BY <2>1, <4>1 DEF Others, Claim
      <4>2. ClaimNothing(By[i]) => Others
        BY <2>1 DEF Others, Claim
      <4>3. UNCHANGED coordVars => Others
        BY DEF Others
      <4>4. QED
        BY <2>2, <4>1, <4>2, <4>3 DEF ServeClaim, Refuses
    <3>3. QED
      BY <3>1, <3>2
  <2>3. CASE ServeHeartbeat(i)
    <3>1. NoNews
      <4>1. \E ok : Answers(i, "heartbeat", ok)
        BY <2>3 DEF ServeHeartbeat, Refuses
      <4>2. QED
        BY <4>1, OtherReplies
    <3>2. ASSUME NEW t \in Time, Heartbeat(By[i], lease[i].job, lease[i].token, t) PROVE Others
      <4>1. lease[i].job \in Jobs /\ lease[i].token \in Attempts
        BY <2>1, <3>2 DEF Heartbeat
      <4>2. QED
        BY <2>1, <3>2, <4>1 DEF Others
    <3>3. UNCHANGED coordVars => Others
      BY DEF Others
    <3>4. QED
      BY <2>3, <3>1, <3>2, <3>3 DEF ServeHeartbeat, Refuses
  <2>4. CASE ServeComplete(i)
    <3>1. ASSUME NEW t \in Time, Complete(By[i], lease[i].job, lease[i].token, bundle[i], t),
                 Answers(i, "complete", TRUE)
          PROVE  Takes(i)
      BY <2>4, <3>1 DEF ServeComplete, Reads, Takes
    <3>2. ASSUME NEW t \in Time, Tick(t), Answers(i, "complete", FALSE) PROVE Others /\ NoNews
      BY <3>2 DEF Others, Answers
    <3>3. QED
      BY <2>4, <3>1, <3>2 DEF ServeComplete
  <2>5. CASE ServeFail(i)
    <3>1. NoNews
      <4>1. \E ok : Answers(i, "fail", ok)
        BY <2>5 DEF ServeFail, Refuses
      <4>2. QED
        BY <4>1, OtherReplies
    <3>2. ASSUME Fail(By[i], lease[i].job, lease[i].token) PROVE Others
      <4>1. lease[i].job \in Jobs /\ lease[i].token \in Attempts
        BY <2>1, <3>2 DEF Fail
      <4>2. QED
        BY <2>1, <3>2, <4>1 DEF Others
    <3>3. UNCHANGED coordVars => Others
      BY DEF Others
    <3>4. QED
      BY <2>5, <3>1, <3>2, <3>3 DEF ServeFail, Refuses
  <2>6. QED
    BY <1>4, <2>2, <2>3, <2>4, <2>5 DEF Serve
<1>5. QED
  BY <1>1, <1>2, <1>3, <1>4 DEF ClusterNext

\* What an accepted completion leaves in the row of its job.
LEMMA TakenRow ==
  ASSUME ClusterInv, WorkSound, AllFenced, NEW i \in Invocations, Takes(i)
  PROVE  LET j == lease[i].job
         IN  /\ j \in Jobs /\ lease[i] = [job |-> j, token |-> job[j].attempt]
             /\ lease[i] # NoLease /\ main[i] \in Past
             /\ job'[j].state = "completed" /\ job'[j].owner = job[j].owner
             /\ job'[j].receipt = Receipt(job[j].owner, By[i], job[j].attempt, bundle[i])
             /\ \A k \in Jobs \ {j} : job'[k] = job[k]
<1> DEFINE j == lease[i].job
           l == lease[i].token
<1>1. PICK t \in Time : /\ Complete(By[i], j, l, bundle[i], t)
                        /\ <<i, "complete">> \in wire
  BY DEF Takes
<1>2. j \in Jobs /\ job[j] \in Row /\ job \in [Jobs -> Row]
  BY <1>1 DEF Complete, ClusterInv, Typed, TypeOK
<1>3. job[j].state = "leased" /\ job[j].lease = l /\ job' = [job EXCEPT ![j] = Accepted(@, By[i], bundle[i])]
  BY <1>1 DEF Complete, HoldsThroughout, Holds
<1>4. l = job[j].attempt /\ l > 0
  BY <1>2, <1>3 DEF AllFenced, Fenced, TokenSound
<1>5. lease[i] = [job |-> j, token |-> l]
  BY DEF WorkSound
<1>6. lease[i] # NoLease
  BY <1>4 DEF NoLease
<1>7. main[i] \in Past
  BY <1>1 DEF WorkSound
<1>8. /\ job'[j].state = "completed" /\ job'[j].owner = job[j].owner
      /\ job'[j].receipt = Receipt(job[j].owner, By[i], job[j].attempt, bundle[i])
  BY <1>2, <1>3 DEF Accepted, Row
<1>9. \A k \in Jobs \ {j} : job'[k] = job[k]
  BY <1>2, <1>3
<1>10. QED
  BY <1>2, <1>4, <1>5, <1>6, <1>7, <1>8, <1>9

-----------------------------------------------------------------------------
(* Whose result the coordinator keeps.                                     *)

Evidenced(j) ==
  job[j].state \in Taken =>
    \E i \in Invocations :
      /\ By[i] = job[j].receipt.worker
      /\ lease[i] = [job |-> j, token |-> job[j].receipt.attempt]
      /\ lease[i] # NoLease
      /\ bundle[i] = job[j].receipt.bundle
      /\ main[i] \in Past

LEMMA EvidenceSteps ==
  ASSUME ClusterInv, WorkSound, AllFenced, [ClusterNext]_allVars, NEW j \in Jobs, Evidenced(j)
  PROVE  Evidenced(j)'
<1>1. (\A k \in Invocations : Kept(k)) /\ [Next]_coordVars /\ Typed
  BY WorkSteps, ClusterStep DEF ClusterInv
<1>2. CASE job[j].state \in Taken
  <2>1. job'[j].state \in Taken /\ job'[j].receipt = job[j].receipt
    BY <1>1, <1>2, SettledStays
  <2>2. PICK i \in Invocations :
          /\ By[i] = job[j].receipt.worker
          /\ lease[i] = [job |-> j, token |-> job[j].receipt.attempt]
          /\ lease[i] # NoLease
          /\ bundle[i] = job[j].receipt.bundle
          /\ main[i] \in Past
    BY <1>2 DEF Evidenced
  <2>3. lease'[i] = lease[i] /\ bundle'[i] = bundle[i] /\ main'[i] \in Past
    BY <1>1, <2>2 DEF Kept
  <2>4. QED
    BY <2>1, <2>2, <2>3 DEF Evidenced
<1>3. CASE job[j].state \notin Taken /\ job'[j].state \in Taken
  <2>1. ~Others
    BY <1>1, <1>3, OthersTakeNothing
  <2>2. PICK i \in Invocations : Takes(i)
    BY <2>1, TakesOrOthers
  <2>3. lease[i].job = j
    BY <1>3, <2>2, TakenRow
  <2>4. /\ lease[i] = [job |-> j, token |-> job[j].attempt] /\ lease[i] # NoLease
        /\ main[i] \in Past
        /\ job'[j].receipt = Receipt(job[j].owner, By[i], job[j].attempt, bundle[i])
    BY <2>2, <2>3, TakenRow
  <2>5. lease'[i] = lease[i] /\ bundle'[i] = bundle[i] /\ main'[i] \in Past
    BY <1>1, <2>4 DEF Kept
  <2>6. QED
    BY <2>4, <2>5 DEF Evidenced, Receipt
<1>4. CASE job'[j].state \notin Taken
  BY <1>4 DEF Evidenced
<1>5. QED
  BY <1>2, <1>3, <1>4

-----------------------------------------------------------------------------
(* What a completed invocation may rely on.                                *)

TakenBy(i) ==
  LET row == job[lease[i].job]
  IN  /\ row.state \in Taken
      /\ row.receipt = Receipt(row.owner, By[i], lease[i].token, bundle[i])

\* The good reply to a completion, on its way or read.
Relied(i) ==
  main[i] = "completed" \/ <<i, "complete", TRUE>> \in reply =>
    lease[i] # NoLease /\ main[i] \in Past /\ TakenBy(i)

LEMMA ReliedSteps ==
  ASSUME ClusterInv, WorkSound, AllFenced, [ClusterNext]_allVars, NEW i \in Invocations, Relied(i)
  PROVE  Relied(i)'
<1>1. (\A k \in Invocations : Kept(k)) /\ [Next]_coordVars /\ Typed
  BY WorkSteps, ClusterStep DEF ClusterInv
<1>2. ASSUME main[i] = "completed" \/ <<i, "complete", TRUE>> \in reply
      PROVE  (lease[i] # NoLease /\ main[i] \in Past /\ TakenBy(i))'
  <2>1. lease[i] # NoLease /\ main[i] \in Past /\ TakenBy(i)
    BY <1>2 DEF Relied
  <2>2. lease[i].job \in Jobs
    BY <2>1 DEF WorkSound
  <2>3. lease'[i] = lease[i] /\ bundle'[i] = bundle[i] /\ main'[i] \in Past
    BY <1>1, <2>1 DEF Kept
  <2>4. /\ job'[lease[i].job].state \in Taken
        /\ job'[lease[i].job].receipt = job[lease[i].job].receipt
        /\ job'[lease[i].job].owner = job[lease[i].job].owner
    BY <1>1, <2>1, <2>2, SettledStays DEF TakenBy
  <2>5. QED
    BY <2>1, <2>3, <2>4 DEF TakenBy
<1>3. ASSUME <<i, "complete", TRUE>> \in reply', <<i, "complete", TRUE>> \notin reply
      PROVE  (lease[i] # NoLease /\ main[i] \in Past /\ TakenBy(i))'
  <2>1. PICK k \in Invocations : Takes(k)
    BY <1>3, TakesOrOthers
  <2>2. k = i
    <3>1. <<i, "complete", TRUE>> = <<k, "complete", TRUE>>
      <4>1. Answers(k, "complete", TRUE)
        BY <2>1 DEF Takes
      <4>2. \A r \in reply' : r \in reply \/ r = <<k, "complete", TRUE>>
        BY <4>1 DEF Answers
      <4>3. QED
        BY <1>3, <4>2
    <3>2. <<i, "complete", TRUE>>[1] = <<k, "complete", TRUE>>[1]
      BY <3>1
    <3>3. QED
      BY <3>2
  <2>3. LET j == lease[i].job
        IN  /\ j \in Jobs /\ lease[i] = [job |-> j, token |-> job[j].attempt]
            /\ lease[i] # NoLease /\ main[i] \in Past
            /\ job'[j].state = "completed" /\ job'[j].owner = job[j].owner
            /\ job'[j].receipt = Receipt(job[j].owner, By[i], job[j].attempt, bundle[i])
    BY <2>1, <2>2, TakenRow
  <2>4. lease'[i] = lease[i] /\ bundle'[i] = bundle[i] /\ main'[i] \in Past
    BY <1>1, <2>3 DEF Kept
  <2>5. lease[i].token = job[lease[i].job].attempt
    BY <2>3
  <2>6. QED
    BY <2>3, <2>4, <2>5 DEF TakenBy, Taken
<1>4. main'[i] = "completed" => main[i] = "completed" \/ <<i, "complete", TRUE>> \in reply
  BY <1>1 DEF Kept
<1>5. QED
  BY <1>2, <1>3, <1>4 DEF Relied

\* What the workers remember of the database is true of it.
MemoryInv ==
  /\ WorkSound
  /\ \A j \in Jobs : Evidenced(j)
  /\ \A i \in Invocations : Relied(i)

LEMMA ClusterInvariant == ClusterSpec => []ClusterInv /\ []AllFenced
<1>1. Init /\ WorkerInit => ClusterInv
  BY ClusterBegins
<1>2. ClusterInv /\ [ClusterNext]_allVars => ClusterInv'
  BY ClusterStep
<1>3. QED
  BY <1>1, <1>2, ClusterImplementsCoordinator, TokensInvariant, PTL DEF ClusterSpec

LEMMA MemoryInvariant == ClusterSpec => []MemoryInv
<1>1. Init /\ WorkerInit => MemoryInv
  <2>1. WorkerInit => WorkSound
    BY CoordinatorAssumption
       DEF WorkerInit, WorkSound, MainPhases, NoLease, Attempts
  <2>2. Init => \A j \in Jobs : Evidenced(j)
    BY DEF Init, NoRow, Evidenced, Taken
  <2>3. WorkerInit => \A i \in Invocations : Relied(i)
    BY DEF WorkerInit, Relied
  <2>4. QED
    BY <2>1, <2>2, <2>3 DEF MemoryInv
<1>2. ClusterInv /\ AllFenced /\ MemoryInv /\ [ClusterNext]_allVars => MemoryInv'
  BY WorkSteps, EvidenceSteps, ReliedSteps DEF MemoryInv
<1>3. QED
  BY <1>1, <1>2, ClusterInvariant, PTL DEF ClusterSpec

\* What the coordinator keeps was produced by the invocation that was granted
\* the lease in the receipt, in every run of the cluster.
THEOREM EvidenceTheorem == ClusterSpec => []EvidenceFromLeaseholder
<1>1. MemoryInv => EvidenceFromLeaseholder
  BY DEF MemoryInv, Evidenced, Taken, EvidenceFromLeaseholder
<1>2. QED
  BY <1>1, MemoryInvariant, PTL

\* An invocation that returns a receipt was accepted, for good.
THEOREM AcceptedTheorem == ClusterSpec => []CompletedMeansAccepted
<1>1. MemoryInv => CompletedMeansAccepted
  BY DEF MemoryInv, Relied, TakenBy, Taken, CompletedMeansAccepted
<1>2. QED
  BY <1>1, MemoryInvariant, PTL

-----------------------------------------------------------------------------
(* Who fails a job.                                                        *)

\* A claim reserves, and nothing else changes the usage.
LEMMA UsageGrows ==
  ASSUME Typed, [Next]_coordVars, NEW o \in Owners
  PROVE  usage[o] \in Nat /\ usage'[o] \in Nat /\ usage[o] <= usage'[o]
<1>1. usage \in [Owners -> Nat] /\ usage' \in [Owners -> Nat]
  BY TypedStep DEF Typed, TypeOK
<1>2. CASE UNCHANGED usage
  BY <1>1, <1>2
<1>3. ASSUME NEW w \in Workers, NEW j \in Jobs, ClaimJob(w, j)
      PROVE  usage[o] <= usage'[o]
  <2> DEFINE row == Swept(clock)[j]
  <2>1. row \in Row /\ Shaped(row) /\ row.state = "queued"
    BY <1>3, SweptTyped DEF ClaimJob, First, Eligible, Typed, TypeOK
  <2>2. row.item \in Items /\ Trials[row.item] \in Nat
    BY <2>1, CoordinatorAssumption DEF Shaped
  <2>3. usage' = [usage EXCEPT ![row.owner] = @ + Trials[row.item]]
    BY <1>3 DEF ClaimJob, Reserve
  <2> HIDE DEF row
  <2>4. QED
    BY <1>1, <2>2, <2>3
<1>4. (\E w \in Workers, j \in Jobs : ClaimJob(w, j)) \/ UNCHANGED usage
  BY DEF Next, coordVars, Submit, Claim, ClaimNothing, Heartbeat, Complete, Fail, Cancel, Purge,
         Revoke, Tick
<1>5. QED
  BY <1>1, <1>2, <1>3, <1>4

\* The two reasons a claim has to fail a job: a lease lapsed once too often, or
\* the owner cannot afford another attempt.
Exhausted(j) == job[j].attempt = MaxAttempts \/ ~Affordable(job[j])

\* Neither ever ceases to hold.
LEMMA ExhaustedStays ==
  ASSUME Typed, [Next]_coordVars, NEW j \in Jobs, job[j].state = "failed", Exhausted(j)
  PROVE  Exhausted(j)'
<1>1. job'[j] = job[j] /\ job[j] \in Row /\ job[j].owner \in Owners /\ job[j].item \in Items
  BY SettledStays DEF Typed, TypeOK, Shape, Shaped
<1>2. Trials[job[j].item] \in Nat /\ TrialQuota \in Nat
  BY <1>1, CoordinatorAssumption
<1>3. QED
  BY <1>1, <1>2, UsageGrows DEF Exhausted, Affordable

LEMMA ClaimFails ==
  ASSUME Typed, NEW w \in Workers, Claim(w), NEW j \in Jobs,
         job[j].state # "failed", job'[j].state = "failed"
  PROVE  Exhausted(j)'
<1> DEFINE rows == Swept(clock)
<1>1. /\ rows[j] \in Row /\ Shaped(rows[j]) /\ job[j] \in Row
      /\ Scanned(w) \in [Jobs -> Row]
  BY SweptTyped, ScannedTyped DEF Typed, TypeOK
<1>2. job'[j] = Scanned(w)[j]
  <2>1. CASE job' = Scanned(w)
    BY <2>1
  <2>2. ASSUME NEW i \in First(rows, w), job' = [Scanned(w) EXCEPT ![i] = Granted(@, w, clock)]
        PROVE  job'[j] = Scanned(w)[j]
    <3>1. CASE i = j
      <4>1. job'[j].state = "leased"
        BY <1>1, <2>2, <3>1 DEF Granted, Row
      <4>2. QED
        BY <4>1
    <3>2. CASE i # j
      BY <1>1, <2>2, <3>2
    <3>3. QED
      BY <3>1, <3>2
  <2>3. QED
    BY <2>1, <2>2 DEF Claim, ClaimNothing, ClaimJob
<1>3. CASE j \in Overdrawn(rows, w)
  <2>1. job'[j] = [rows[j] EXCEPT !.state = "failed"] /\ ~Affordable(rows[j])
        /\ rows[j].state = "queued"
    BY <1>2, <1>3 DEF Scanned, Overdrawn, Eligible
  <2>2. job'[j].owner = rows[j].owner /\ job'[j].item = rows[j].item
    BY <1>1, <2>1 DEF Row
  <2>3. rows[j].owner \in Owners /\ Trials[rows[j].item] \in Nat /\ TrialQuota \in Nat
    BY <1>1, <2>1, CoordinatorAssumption DEF Shaped
  <2>4. usage[rows[j].owner] \in Nat /\ usage'[rows[j].owner] \in Nat
        /\ usage[rows[j].owner] <= usage'[rows[j].owner]
    BY <2>3, UsageGrows DEF Next
  <2> HIDE DEF rows
  <2>5. QED
    BY <2>1, <2>2, <2>3, <2>4 DEF Exhausted, Affordable
<1>4. CASE j \notin Overdrawn(rows, w)
  <2>1. job'[j] = rows[j]
    BY <1>2, <1>4 DEF Scanned
  <2>2. job[j].state = "leased" /\ rows[j] = Lapsed(job[j])
    BY <2>1 DEF Swept, Expired
  <2>3. job[j].attempt >= MaxAttempts
    BY <1>1, <2>1, <2>2 DEF Lapsed, Settle, Row
  <2>4. job'[j].attempt = job[j].attempt
    BY <1>1, <2>1, <2>2 DEF Lapsed, Settle, Row
  <2>5. job[j].attempt \in Nat /\ job[j].attempt <= MaxAttempts /\ MaxAttempts \in Nat
    BY <1>1, CoordinatorAssumption DEF Row, Attempts
  <2>6. job'[j].attempt = MaxAttempts
    BY <2>3, <2>4, <2>5
  <2>7. QED
    BY <2>6 DEF Exhausted
<1>5. QED
  BY <1>3, <1>4

\* Every other step of the cluster that fails a job is a /fail of its holder.
LEMMA HolderFails ==
  ASSUME ClusterInv, WorkSound, AllFenced, [ClusterNext]_allVars, NEW j \in Jobs,
         job[j].state # "failed", job'[j].state = "failed"
  PROVE  \/ Exhausted(j)'
         \/ \E i \in Invocations :
              /\ lease[i] = [job |-> j, token |-> job'[j].attempt] /\ lease[i] # NoLease
              /\ main[i] \in GaveUp
<1>1. job \in [Jobs -> Row] /\ Typed
  BY DEF ClusterInv, Typed, TypeOK
<1> DEFINE Not == job'[j].state # "failed"
<1>2. CASE Elsewhere
  <2>1. ASSUME NEW o \in Owners, NEW i \in Items, NEW k \in Keys, Submit(o, i, k) PROVE Not
    BY <1>1, <2>1 DEF Submit, Queued, NoRow
  <2>2. ASSUME NEW o \in Owners, NEW i \in Jobs, Cancel(o, i) \/ Purge(o, i) PROVE Not
    BY <1>1, <2>2 DEF Cancel, Purge, Settle, Row
  <2>3. ASSUME NEW p \in Owners \cup Workers, Revoke(p) PROVE Not
    BY <1>1, <2>3 DEF Revoke, Settle, Row
  <2>4. ASSUME NEW t \in Time, Tick(t) PROVE Not
    BY <2>4 DEF Tick
  <2>5. QED
    BY <1>2, <2>1, <2>2, <2>3, <2>4 DEF Elsewhere
<1>3. CASE UNCHANGED allVars
  BY <1>3 DEF allVars, coordVars
<1>4. ASSUME NEW i \in Invocations, MainStep(i) \/ BeatStep(i) \/ Signal(i) \/ Kill(i) PROVE Not
  BY <1>4, MainStepSound, BeatStepSound DEF ClusterInv, coordVars
<1>5. ASSUME NEW i \in Invocations, ServeClaim(i) PROVE Exhausted(j)'
  <2>1. By[i] \in Workers
    BY ClusterAssumption
  <2>2. Claim(By[i]) \/ UNCHANGED coordVars
    BY <1>5 DEF ServeClaim, Refuses, Claim
  <2>3. QED
    BY <1>1, <2>1, <2>2, ClaimFails DEF coordVars
<1>6. ASSUME NEW i \in Invocations, ServeHeartbeat(i) PROVE Not
  <2>1. ASSUME NEW w, NEW k, NEW l, NEW t, Heartbeat(w, k, l, t) PROVE Not
    <3>1. job' = [job EXCEPT ![k].expires = t + LeaseSeconds]
      BY <2>1 DEF Heartbeat
    <3>2. job'[j].state = job[j].state
      BY <1>1, <3>1 DEF Row
    <3>3. QED
      BY <3>2
  <2>2. UNCHANGED coordVars => Not
    BY DEF coordVars
  <2> HIDE DEF Not
  <2>3. QED
    BY <1>6, <2>1, <2>2 DEF ServeHeartbeat, Refuses
<1>7. ASSUME NEW i \in Invocations, ServeComplete(i) PROVE Not
  <2>1. ASSUME NEW w, NEW k, NEW l, NEW b, NEW t, Complete(w, k, l, b, t) PROVE Not
    <3>1. job' = [job EXCEPT ![k] = Accepted(@, w, b)]
      BY <2>1 DEF Complete
    <3>2. job'[j] = job[j] \/ job'[j] = Accepted(job[j], w, b)
      BY <1>1, <3>1
    <3>3. QED
      BY <1>1, <3>2 DEF Accepted, Row
  <2>2. \A t \in Time : Tick(t) => Not
    BY DEF Tick
  <2> HIDE DEF Not
  <2>3. QED
    BY <1>7, <2>1, <2>2 DEF ServeComplete
<1>8. ASSUME NEW i \in Invocations, ServeFail(i)
      PROVE  /\ lease[i] = [job |-> j, token |-> job'[j].attempt] /\ lease[i] # NoLease
             /\ main[i] \in GaveUp
  <2>1. main[i] \in GaveUp
    BY <1>8 DEF ServeFail, Reads, WorkSound
  <2>2. Fail(By[i], lease[i].job, lease[i].token)
    BY <1>8 DEF ServeFail, Refuses, coordVars
  <2>3. lease[i].job = j
    BY <1>1, <2>2 DEF Fail
  <2>4. job[j].state = "leased" /\ job[j].lease = lease[i].token /\ job'[j] = Settle(job[j], "failed")
    BY <1>1, <2>2, <2>3 DEF Fail, Holds
  <2>5. job'[j].attempt = job[j].attempt
    BY <1>1, <2>4 DEF Settle, Row
  <2>6. job[j].lease = job[j].attempt /\ job[j].attempt > 0
    BY <2>4 DEF AllFenced, Fenced, TokenSound
  <2>7. lease[i] = [job |-> lease[i].job, token |-> lease[i].token]
    BY DEF WorkSound
  <2>8. lease[i] # NoLease
    <3>1. lease[i].token > 0
      BY <2>4, <2>6
    <3>2. QED
      BY <3>1 DEF NoLease
  <2>9. QED
    BY <2>1, <2>3, <2>4, <2>5, <2>6, <2>7, <2>8
<1>9. QED
  BY <1>2, <1>3, <1>4, <1>5, <1>6, <1>7, <1>8 DEF ClusterNext, Serve

FailedRightly(j) ==
  job[j].state = "failed" =>
    \/ Exhausted(j)
    \/ \E i \in Invocations :
         /\ lease[i] = [job |-> j, token |-> job[j].attempt] /\ lease[i] # NoLease
         /\ main[i] \in GaveUp

LEMMA FailureSteps ==
  ASSUME ClusterInv, WorkSound, AllFenced, [ClusterNext]_allVars, NEW j \in Jobs, FailedRightly(j)
  PROVE  FailedRightly(j)'
<1>1. (\A k \in Invocations : Kept(k)) /\ [Next]_coordVars /\ Typed
  BY WorkSteps, ClusterStep DEF ClusterInv
<1>2. CASE job[j].state = "failed"
  <2>1. job'[j] = job[j]
    BY <1>1, <1>2, SettledStays
  <2>2. CASE Exhausted(j)
    BY <1>1, <1>2, <2>2, ExhaustedStays DEF FailedRightly
  <2>3. ASSUME NEW i \in Invocations,
               lease[i] = [job |-> j, token |-> job[j].attempt], lease[i] # NoLease,
               main[i] \in GaveUp
        PROVE  FailedRightly(j)'
    <3>1. lease'[i] = lease[i] /\ main'[i] \in GaveUp
      BY <1>1, <2>3 DEF Kept
    <3>2. QED
      BY <2>1, <2>3, <3>1 DEF FailedRightly
  <2>4. QED
    BY <1>2, <2>2, <2>3 DEF FailedRightly
<1>3. CASE job[j].state # "failed" /\ job'[j].state = "failed"
  <2>1. CASE Exhausted(j)'
    BY <2>1 DEF FailedRightly
  <2>2. ASSUME NEW i \in Invocations,
               lease[i] = [job |-> j, token |-> job'[j].attempt], lease[i] # NoLease,
               main[i] \in GaveUp
        PROVE  FailedRightly(j)'
    <3>1. lease'[i] = lease[i] /\ main'[i] \in GaveUp
      BY <1>1, <2>2 DEF Kept
    <3>2. QED
      BY <2>2, <3>1 DEF FailedRightly
  <2>3. QED
    BY <1>3, <2>1, <2>2, HolderFails
<1>4. CASE job'[j].state # "failed"
  BY <1>4 DEF FailedRightly
<1>5. QED
  BY <1>2, <1>3, <1>4

\* A job fails because it is exhausted, or because the holder of its last lease
\* gave up, in every run of the cluster.
THEOREM FailureTheorem == ClusterSpec => []FailedByItsHolder
<1>1. Init => \A j \in Jobs : FailedRightly(j)
  BY DEF Init, NoRow, FailedRightly
<1>2. /\ ClusterInv /\ AllFenced /\ MemoryInv /\ (\A j \in Jobs : FailedRightly(j))
      /\ [ClusterNext]_allVars
      => (\A j \in Jobs : FailedRightly(j))'
  BY FailureSteps DEF MemoryInv
<1>3. (\A j \in Jobs : FailedRightly(j)) => FailedByItsHolder
  BY DEF FailedRightly, Exhausted, GaveUp, FailedByItsHolder
<1>4. QED
  BY <1>1, <1>2, <1>3, ClusterInvariant, MemoryInvariant, PTL DEF ClusterSpec
=============================================================================
