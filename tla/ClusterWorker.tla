--------------------------- MODULE ClusterWorker ----------------------------
(***************************************************************************)
(* Invocations of evalnoise/cluster.py's worker_once against the           *)
(* coordinator, over HTTP.  The server is single-threaded: it reads one    *)
(* request at a time and runs it as one transaction (dispatch).  A request *)
(* may be lost, or be read after its client has given up; a reply may be   *)
(* lost after the transaction committed; an invocation may be killed, with *)
(* its heartbeat thread, between any two steps.                            *)
(*                                                                         *)
(* Abstracted: HTTP framing and JSON; owners and the administrator act on  *)
(* the coordinator directly.  The server restarts without a step: all its  *)
(* state is in the database.                                               *)
(***************************************************************************)
EXTENDS Coordinator

CONSTANTS
  Invocations,  \* the calls of worker_once that may ever be made
  By            \* [Invocations -> Workers]: whose credential the call uses

ASSUME ClusterAssumption == By \in [Invocations -> Workers]

VARIABLES
  main,         \* where worker_once is
  beat,         \* where its heartbeat thread is
  lease,        \* the lease its claim was granted, whether or not the reply arrived
  bundle,       \* the evidence its executor produced
  stop,         \* the stop event, or a heartbeat error: line 176 asks for either
  wire,         \* requests the server has not read: <<invocation, operation>>;
                \* a lost one is never read
  reply         \* replies on their way: <<invocation, operation, accepted>>

workerVars == <<main, beat, lease, bundle, stop, wire, reply>>

allVars == <<coordVars, workerVars>>

Ops == {"claim", "heartbeat", "complete", "fail"}

Final == {"idle", "completed", "raised", "killed"}

NoLease == [job |-> None, token |-> 0]

WorkerInit ==
  /\ main = [i \in Invocations |-> "start"]
  /\ beat = [i \in Invocations |-> "unborn"]
  /\ lease = [i \in Invocations |-> NoLease]
  /\ bundle = [i \in Invocations |-> None]
  /\ stop = [i \in Invocations |-> FALSE]
  /\ wire = {}
  /\ reply = {}

-----------------------------------------------------------------------------
(* The client side of a request (Client.request).                          *)

Goes(i, from, to) == main[i] = from /\ main' = [main EXCEPT ![i] = to]

Send(i, op) == wire' = wire \cup {<<i, op>>}

Waits(i, op) ==
  CASE op = "claim"     -> main[i] = "claiming"
    [] op = "complete"  -> main[i] = "completing"
    [] op = "fail"      -> main[i] = "failing"
    [] op = "heartbeat" -> beat[i] = "beating"

\* Mutant of Accepts: the status of the reply is not looked at.
AcceptsAnyStatus(i, op) ==
  \E ok \in BOOLEAN : <<i, op, ok>> \in reply /\ reply' = reply \ {<<i, op, ok>>}

\* The reply is read and its status is 200.
Accepts(i, op) == <<i, op, TRUE>> \in reply /\ reply' = reply \ {<<i, op, TRUE>>}

\* The request fails: an error reply, a refused connection or the 15 second
\* timeout, which leaves the request on the wire.
Errs(i, op) == reply' = reply \ {<<i, op, TRUE>>, <<i, op, FALSE>>}

-----------------------------------------------------------------------------
(* worker_once.                                                            *)

SendClaim(i) ==
  /\ Goes(i, "start", "claiming")
  /\ Send(i, "claim")
  /\ UNCHANGED <<coordVars, beat, lease, bundle, stop, reply>>

\* {'job': None} returns idle.
ClaimReturns(i) ==
  /\ Goes(i, "claiming", IF lease[i] = NoLease THEN "idle" ELSE "granted")
  /\ Accepts(i, "claim")
  /\ UNCHANGED <<coordVars, beat, lease, bundle, stop, wire>>

\* Nothing is caught around the claim.
ClaimErrs(i) ==
  /\ Goes(i, "claiming", "raised")
  /\ Errs(i, "claim")
  /\ UNCHANGED <<coordVars, beat, lease, bundle, stop, wire>>

\* Digest and allowlist hold: the heartbeat thread starts, then the executor.
StartExecution(i) ==
  /\ Goes(i, "granted", "executing")
  /\ beat' = [beat EXCEPT ![i] = "waiting"]
  /\ UNCHANGED <<coordVars, lease, bundle, stop, wire, reply>>

\* The executor returned and its artifacts were read.
Execute(i, b) ==
  /\ Goes(i, "executing", "executed")
  /\ bundle' = [bundle EXCEPT ![i] = b]
  /\ UNCHANGED <<coordVars, beat, lease, stop, wire, reply>>

MayComplete(i) == ~stop[i]

SendComplete(i) ==
  /\ MayComplete(i)
  /\ Goes(i, "executed", "completing")
  /\ Send(i, "complete")
  /\ UNCHANGED <<coordVars, beat, lease, bundle, stop, reply>>

CompleteReturns(i) ==
  /\ Goes(i, "completing", "completed")
  /\ Accepts(i, "complete")
  /\ UNCHANGED <<coordVars, beat, lease, bundle, stop, wire>>

\* The except clause: allowlist or executor or artifact error, a stop seen
\* after execution, or a completion that failed for all the client can tell.
SendFail(i) ==
  /\ \/ main[i] \in {"granted", "executing", "completing"}
     \/ main[i] = "executed" /\ ~MayComplete(i)
  /\ main' = [main EXCEPT ![i] = "failing"]
  /\ stop' = [stop EXCEPT ![i] = TRUE]
  /\ Send(i, "fail")
  /\ Errs(i, "complete")
  /\ UNCHANGED <<coordVars, beat, lease, bundle>>

\* Reported, refused or unanswered: the original error is raised again.
FailReturns(i) ==
  /\ Goes(i, "failing", "raised")
  /\ Errs(i, "fail")
  /\ UNCHANGED <<coordVars, beat, lease, bundle, stop, wire>>

\* SIGINT or SIGTERM once the handlers are installed.
Signal(i) ==
  /\ main[i] \in {"granted", "executing", "executed", "completing"}
  /\ stop' = [stop EXCEPT ![i] = TRUE]
  /\ UNCHANGED <<coordVars, main, beat, lease, bundle, wire, reply>>

\* SIGKILL, or an interrupt before the handlers are installed.
Kill(i) ==
  /\ main[i] \notin Final \cup {"start"}
  /\ main' = [main EXCEPT ![i] = "killed"]
  /\ beat' = [beat EXCEPT ![i] = "ended"]
  /\ reply' = {r \in reply : r[1] # i}
  /\ UNCHANGED <<coordVars, lease, bundle, stop, wire>>

-----------------------------------------------------------------------------
(* The heartbeat thread (beat).  It ends with done, set on every way out.  *)

\* Mutant of Done: set after a success only.
DoneOnSuccess(i) == main[i] = "completed"

Done(i) == main[i] \in Final

SendHeartbeat(i) ==
  /\ beat[i] = "waiting" /\ ~Done(i)
  /\ beat' = [beat EXCEPT ![i] = "beating"]
  /\ Send(i, "heartbeat")
  /\ UNCHANGED <<coordVars, main, lease, bundle, stop, reply>>

HeartbeatReturns(i) ==
  /\ beat[i] = "beating"
  /\ Accepts(i, "heartbeat")
  /\ beat' = [beat EXCEPT ![i] = "waiting"]
  /\ UNCHANGED <<coordVars, main, lease, bundle, stop, wire>>

HeartbeatErrs(i) ==
  /\ beat[i] = "beating"
  /\ Errs(i, "heartbeat")
  /\ beat' = [beat EXCEPT ![i] = "ended"]
  /\ stop' = [stop EXCEPT ![i] = TRUE]
  /\ UNCHANGED <<coordVars, main, lease, bundle, wire>>

BeatEnds(i) ==
  /\ beat[i] = "waiting" /\ Done(i)
  /\ beat' = [beat EXCEPT ![i] = "ended"]
  /\ UNCHANGED <<coordVars, main, lease, bundle, stop, wire, reply>>

-----------------------------------------------------------------------------
(* The server (dispatch): one request, one transaction, one reply.         *)

Reads(i, op) == <<i, op>> \in wire /\ wire' = wire \ {<<i, op>>}

\* A client that has given up does not read its reply.
Answers(i, op, ok) ==
  /\ reply' = IF Waits(i, op) THEN reply \cup {<<i, op, ok>>} ELSE reply
  /\ UNCHANGED <<main, beat, bundle, stop>>

Refuses(i, op) == Answers(i, op, FALSE) /\ UNCHANGED <<coordVars, lease>>

ServeClaim(i) ==
  /\ Reads(i, "claim")
  /\ \/ /\ \E j \in Jobs :
             /\ ClaimJob(By[i], j)
             /\ lease' = [lease EXCEPT ![i] = [job |-> j, token |-> job'[j].lease]]
        /\ Answers(i, "claim", TRUE)
     \/ ClaimNothing(By[i]) /\ Answers(i, "claim", TRUE) /\ UNCHANGED lease
     \/ ~MayClaim(By[i]) /\ Refuses(i, "claim")

ServeHeartbeat(i) ==
  LET j == lease[i].job
      l == lease[i].token
  IN
  /\ Reads(i, "heartbeat")
  /\ \/ /\ \E t \in Time : Heartbeat(By[i], j, l, t)
        /\ Answers(i, "heartbeat", TRUE)
        /\ UNCHANGED lease
     \/ ~Holds(job[j], By[i], l, clock) /\ Refuses(i, "heartbeat")

\* Refused at once, at the second look after validation, or for the bundle.
ServeComplete(i) ==
  LET j == lease[i].job
      l == lease[i].token
      b == bundle[i]
  IN
  /\ Reads(i, "complete")
  /\ \E t \in Time :
       \/ Complete(By[i], j, l, b, t) /\ Answers(i, "complete", TRUE)
       \/ /\ \/ ~HoldsThroughout(job[j], By[i], l, clock, t)
             \/ job[j].item \notin ValidFor[b]
             \/ ~Fits(job[j].owner, b)
          /\ Tick(t)
          /\ Answers(i, "complete", FALSE)
  /\ UNCHANGED lease

ServeFail(i) ==
  LET j == lease[i].job
      l == lease[i].token
  IN
  /\ Reads(i, "fail")
  /\ \/ Fail(By[i], j, l) /\ Answers(i, "fail", TRUE) /\ UNCHANGED lease
     \/ ~Holds(job[j], By[i], l, clock) /\ Refuses(i, "fail")

Serve(i) == ServeClaim(i) \/ ServeHeartbeat(i) \/ ServeComplete(i) \/ ServeFail(i)

-----------------------------------------------------------------------------
MainStep(i) ==
  \/ SendClaim(i) \/ ClaimReturns(i) \/ ClaimErrs(i) \/ StartExecution(i)
  \/ \E b \in Bundles : Execute(i, b)
  \/ SendComplete(i) \/ CompleteReturns(i) \/ SendFail(i) \/ FailReturns(i)

BeatStep(i) ==
  SendHeartbeat(i) \/ HeartbeatReturns(i) \/ HeartbeatErrs(i) \/ BeatEnds(i)

\* What happens to the coordinator besides the workers' requests.
Elsewhere ==
  /\ \/ \E o \in Owners, i \in Items, k \in Keys : Submit(o, i, k)
     \/ \E o \in Owners, j \in Jobs : Cancel(o, j)
     \/ \E o \in Owners, j \in Jobs : Purge(o, j)
     \/ \E p \in Owners \cup Workers : Revoke(p)
     \/ \E t \in Time : Tick(t)
  /\ UNCHANGED workerVars

ClusterNext ==
  \/ \E i \in Invocations : MainStep(i) \/ BeatStep(i) \/ Serve(i)
  \/ \E i \in Invocations : Signal(i) \/ Kill(i)
  \/ Elsewhere

(***************************************************************************)
(* The clients' own steps are fair: every request of theirs ends within 15 *)
(* seconds whatever the server does, and the executor returns because its  *)
(* trials run under deadlines.  A claim is made by an operator, and nothing*)
(* is assumed of the server or of the wire.                                *)
(***************************************************************************)
ClusterFairness ==
  \A i \in Invocations :
    /\ WF_allVars(main[i] # "start" /\ MainStep(i))
    /\ WF_allVars(BeatStep(i))

ClusterSpec == Init /\ WorkerInit /\ [][ClusterNext]_allVars

FairClusterSpec == ClusterSpec /\ ClusterFairness

-----------------------------------------------------------------------------
(* Properties.                                                             *)

\* What the coordinator keeps as a job's result was produced by the executor
\* of the one invocation that was granted the lease in the receipt, whatever
\* was lost, late, killed or restarted under the same credential (complete).
EvidenceFromLeaseholder ==
  \A j \in Jobs :
    LET r == job[j].receipt IN
    job[j].state \in {"completed", "purged"} =>
      \E i \in Invocations :
        /\ By[i] = r.worker
        /\ lease[i] = [job |-> j, token |-> r.attempt]
        /\ bundle[i] = r.bundle

\* worker_once returns a receipt only for a result the coordinator accepted
\* from this very invocation and never takes back (cluster.py:177-178).
CompletedMeansAccepted ==
  \A i \in Invocations :
    main[i] = "completed" =>
      LET row == job[lease[i].job] IN
      /\ row.state \in {"completed", "purged"}
      /\ row.receipt = Receipt(row.owner, By[i], lease[i].token, bundle[i])

\* A job fails because its attempts or its owner's trials ran out, or because
\* the invocation that held its last lease gave up: a late /fail or an
\* earlier holder never fails the work of a later one.
FailedByItsHolder ==
  \A j \in Jobs :
    job[j].state = "failed" =>
      \/ job[j].attempt = MaxAttempts
      \/ ~Affordable(job[j])
      \/ \E i \in Invocations :
           /\ lease[i] = [job |-> j, token |-> job[j].attempt]
           /\ main[i] \in {"failing", "raised", "killed"}

\* Every invocation returns and leaves no heartbeat behind, also when the
\* server stops answering (the finally clause: done is set on every way out).
WorkerReturns ==
  \A i \in Invocations :
    main[i] = "claiming" ~> main[i] \in Final /\ beat[i] \in {"unborn", "ended"}

\* docs/cluster.md:64: "An expired lease is requeued at the next claim".
\* Refuted: a claim refused because the worker still holds a lease rolls its
\* sweep back.
NextClaimSweeps ==
  [][\A i \in Invocations :
       ServeClaim(i) /\ active[By[i]] => ~\E j \in Jobs : Expired(job'[j], clock)]_allVars
=============================================================================
