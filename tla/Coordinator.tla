---------------------------- MODULE Coordinator -----------------------------
(***************************************************************************)
(* The leased job queue of evalnoise/coordinator.py.  Every operation is   *)
(* one BEGIN IMMEDIATE transaction, so one operation is one action; a      *)
(* refused operation raises, is rolled back and is no step at all.  That   *)
(* includes the expiry sweep of a claim that is then refused.              *)
(*                                                                         *)
(* Left out: the HMAC audit chain (append-only logging), hashing and       *)
(* encoding, and reads.  A lease token is fresh and random in the code and *)
(* is written by the same UPDATE that increments the attempt, so the token *)
(* of a job's n-th attempt is represented by n, and SQL NULL by 0.         *)
(***************************************************************************)
EXTENDS Integers, FiniteSets, Functions

CONSTANTS
  Owners, Workers,      \* principals; the one administrator is never revoked
  Jobs,                 \* job identifiers: numbers, ORDER BY created, id needs an order
  Keys,                 \* request (idempotency) keys
  Items,                \* catalog entries
  Bundles,              \* evidence bundles a worker can hand in
  Trials,               \* [Items -> Nat]: tasks * profiles * repeats of the entry
  Serves,               \* [Workers -> SUBSET Items]: pool and image match
  ValidFor,             \* [Bundles -> SUBSET Items]: validate_bundle accepts
  Size,                 \* [Bundles -> Nat]: length of the encoded bundle
  LeaseSeconds, TrialQuota, ArtifactQuota,
  MaxActive,            \* 2 in the code
  MaxRetained,          \* 100 in the code
  MaxAttempts,          \* 3 in the code
  MaxTime,              \* bound of the model: the clock shows 0..MaxTime
  None                  \* SQL NULL where a name is expected

ASSUME CoordinatorAssumption ==
  /\ Jobs \subseteq Nat /\ IsFiniteSet(Jobs)
  /\ Owners \cap Workers = {}
  /\ None \notin Owners \cup Workers \cup Items \cup Keys \cup Bundles
  /\ Trials \in [Items -> Nat \ {0}]
  /\ Serves \in [Workers -> SUBSET Items]
  /\ ValidFor \in [Bundles -> SUBSET Items]
  /\ Size \in [Bundles -> Nat \ {0}]
  /\ {LeaseSeconds, TrialQuota, ArtifactQuota, MaxTime} \subseteq Nat
  /\ {MaxActive, MaxRetained, MaxAttempts} \subseteq Nat \ {0}

VARIABLES
  clock,        \* Control.clock, the wall clock: it may step back
  active,       \* principals.active, for owners and workers
  job,          \* the jobs table: [Jobs -> Row]
  usage,        \* the usage table: trials reserved by each owner
  handed        \* history: the leases returned by claims, as <<job, worker, lease>>

coordVars == <<clock, active, job, usage, handed>>

-----------------------------------------------------------------------------
(* The tables.                                                             *)

Time == 0..MaxTime

States == {"absent", "queued", "leased", "completed", "failed", "cancelled", "purged"}

Attempts == 0..MaxAttempts

Receipt(o, w, a, b) == [owner |-> o, worker |-> w, attempt |-> a, bundle |-> b]

Receipts ==
  [owner : Owners \cup {None}, worker : Workers \cup {None},
   attempt : Attempts, bundle : Bundles \cup {None}]

NoReceipt == Receipt(None, None, 0, None)

Row ==
  [state : States, owner : Owners \cup {None}, item : Items \cup {None},
   key : Keys \cup {None}, attempt : Attempts, worker : Workers \cup {None},
   lease : Attempts, expires : Nat, bundle : Bundles \cup {None},
   receipt : Receipts, created : Time]

NoRow ==
  [state |-> "absent", owner |-> None, item |-> None, key |-> None, attempt |-> 0,
   worker |-> None, lease |-> 0, expires |-> 0, bundle |-> None,
   receipt |-> NoReceipt, created |-> 0]

Queued(o, i, k, t) ==
  [NoRow EXCEPT !.state = "queued", !.owner = o, !.item = i, !.key = k, !.created = t]

\* Mutant of Settle: the token stays in the row.
SettleKeepsLease(row, s) == [row EXCEPT !.state = s]

\* UPDATE jobs SET state=...,lease=NULL: the worker column keeps its last value.
Settle(row, s) == [row EXCEPT !.state = s, !.lease = 0]

OwnedBy(o) == {j \in Jobs : job[j].owner = o}

\* Mutants of Active: the count of submit forgets leases; cancel takes whatever has not failed.
ActiveWhenQueued(s) == s = "queued"
ActiveUnlessFailed(s) == s \in {"queued", "leased", "completed"}

Active(s) == s \in {"queued", "leased"}

Occupied(o) ==
  SumFunctionOnSet([j \in Jobs |-> IF job[j].bundle = None THEN 0 ELSE Size[job[j].bundle]],
                   OwnedBy(o))

Init ==
  /\ clock = 0
  /\ active = [p \in Owners \cup Workers |-> TRUE]
  /\ job = [j \in Jobs |-> NoRow]
  /\ usage = [o \in Owners |-> 0]
  /\ handed = {}

-----------------------------------------------------------------------------
(* submit, claim.                                                          *)

\* An existing (owner, key) row is returned or refused: no step either way.
Submit(o, i, k) ==
  /\ active[o]
  /\ ~\E j \in OwnedBy(o) : job[j].key = k
  /\ Cardinality({j \in OwnedBy(o) : Active(job[j].state)}) < MaxActive
  /\ Cardinality(OwnedBy(o)) < MaxRetained
  /\ \E j \in Jobs :
       /\ job[j].state = "absent"
       /\ job' = [job EXCEPT ![j] = Queued(o, i, k, clock)]
  /\ UNCHANGED <<clock, active, usage, handed>>

\* Mutant of Expired: a completed job keeps its lease, so it lapses too.
ExpiredWithToken(row, now) == row.state \in {"leased", "completed"} /\ row.expires <= now

Expired(row, now) == row.state = "leased" /\ row.expires <= now

\* Mutant of Lapsed: one attempt too many.
LapsedOffByOne(row) == Settle(row, IF row.attempt > MaxAttempts THEN "failed" ELSE "queued")

Lapsed(row) == Settle(row, IF row.attempt >= MaxAttempts THEN "failed" ELSE "queued")

Swept(now) == [j \in Jobs |-> IF Expired(job[j], now) THEN Lapsed(job[j]) ELSE job[j]]

\* Mutant of HoldsLease: a worker may claim on.
HoldsLeaseNever(rows, w) == FALSE

HoldsLease(rows, w) == \E j \in Jobs : rows[j].state = "leased" /\ rows[j].worker = w

Before(rows, i, j) ==
  rows[i].created < rows[j].created \/ (rows[i].created = rows[j].created /\ i < j)

Eligible(rows, w) == {j \in Jobs : rows[j].state = "queued" /\ rows[j].item \in Serves[w]}

\* Mutant of Affordable: the cost of this attempt is forgotten.
AffordableBeforeCost(row) == usage[row.owner] < TrialQuota

Affordable(row) == usage[row.owner] + Trials[row.item] <= TrialQuota

\* Where the scan of the queue stops: at most one job.
First(rows, w) ==
  {j \in Eligible(rows, w) :
     /\ Affordable(rows[j])
     /\ \A i \in Eligible(rows, w) : Affordable(rows[i]) => ~Before(rows, i, j)}

\* What the scan refuses for good on its way there.
Overdrawn(rows, w) ==
  {j \in Eligible(rows, w) :
     ~Affordable(rows[j]) /\ \A f \in First(rows, w) : Before(rows, j, f)}

Granted(row, w, now) ==
  [row EXCEPT !.state = "leased", !.attempt = @ + 1, !.worker = w,
              !.lease = row.attempt + 1, !.expires = now + LeaseSeconds]

\* The rows once leases lapsed and overdrawn jobs failed, before any grant.
Scanned(w) ==
  LET rows == Swept(clock)
  IN  [j \in Jobs |-> IF j \in Overdrawn(rows, w) THEN [rows[j] EXCEPT !.state = "failed"]
                                                  ELSE rows[j]]

\* Reservations are never refunded: each attempt reserves the whole job again.
Reserve(o, i) == usage' = [usage EXCEPT ![o] = @ + Trials[i]]

MayClaim(w) == active[w] /\ ~HoldsLease(Swept(clock), w)

ClaimNothing(w) ==
  /\ MayClaim(w)
  /\ First(Swept(clock), w) = {}
  /\ job' = Scanned(w)
  /\ UNCHANGED <<clock, active, usage, handed>>

ClaimJob(w, j) ==
  LET row == Swept(clock)[j]
  IN
  /\ MayClaim(w)
  /\ j \in First(Swept(clock), w)
  /\ job' = [Scanned(w) EXCEPT ![j] = Granted(@, w, clock)]
  /\ Reserve(row.owner, row.item)
  /\ handed' = handed \cup {<<j, w, row.attempt + 1>>}
  /\ UNCHANGED <<clock, active>>

Claim(w) == ClaimNothing(w) \/ \E j \in Jobs : ClaimJob(w, j)

-----------------------------------------------------------------------------
(* heartbeat, complete, fail: the operations fenced by a lease.  Each may  *)
(* come late, so a worker may present any lease it was ever handed.  t is  *)
(* the clock when the transaction reads it again.                          *)

\* Mutant of Holds: whichever of its leases the worker presents.
HoldsAnyToken(row, w, l, now) == row.state = "leased" /\ row.worker = w /\ row.expires > now

Holds(row, w, l, now) ==
  row.state = "leased" /\ row.worker = w /\ row.expires > now /\ row.lease = l

Heartbeat(w, j, l, t) ==
  /\ <<j, w, l>> \in handed
  /\ active[w]
  /\ Holds(job[j], w, l, clock)
  /\ job' = [job EXCEPT ![j].expires = t + LeaseSeconds]
  /\ clock' = t
  /\ UNCHANGED <<active, usage, handed>>

\* Mutant of HoldsThroughout: the lease is not asked again after validation.
HoldsAtFirst(row, w, l, from, to) == Holds(row, w, l, from)

\* leased is asked before and after validate_bundle, which takes its time.
HoldsThroughout(row, w, l, from, to) == Holds(row, w, l, from) /\ Holds(row, w, l, to)

\* Mutant of Fits: the new bundle is not counted.
FitsBefore(o, b) == Occupied(o) <= ArtifactQuota

Fits(o, b) == Occupied(o) + Size[b] <= ArtifactQuota

Accepted(row, w, b) ==
  [row EXCEPT !.state = "completed", !.bundle = b,
              !.receipt = Receipt(row.owner, w, row.attempt, b)]

\* Repeating an accepted completion returns the receipt or is refused: no step.
Complete(w, j, l, b, t) ==
  /\ <<j, w, l>> \in handed
  /\ active[w]
  /\ HoldsThroughout(job[j], w, l, clock, t)
  /\ job[j].item \in ValidFor[b]
  /\ Fits(job[j].owner, b)
  /\ job' = [job EXCEPT ![j] = Accepted(@, w, b)]
  /\ clock' = t
  /\ UNCHANGED <<active, usage, handed>>

Fail(w, j, l) ==
  /\ <<j, w, l>> \in handed
  /\ active[w]
  /\ Holds(job[j], w, l, clock)
  /\ job' = [job EXCEPT ![j] = Settle(@, "failed")]
  /\ UNCHANGED <<clock, active, usage, handed>>

-----------------------------------------------------------------------------
(* owner_action, revoke, and the clock.                                    *)

Cancel(o, j) ==
  /\ active[o]
  /\ job[j].owner = o
  /\ Active(job[j].state)
  /\ job' = [job EXCEPT ![j] = Settle(@, "cancelled")]
  /\ UNCHANGED <<clock, active, usage, handed>>

Purge(o, j) ==
  /\ active[o]
  /\ job[j].owner = o
  /\ job[j].state = "completed" /\ job[j].bundle # None
  /\ job' = [job EXCEPT ![j] = [Settle(@, "purged") EXCEPT !.bundle = None]]
  /\ UNCHANGED <<clock, active, usage, handed>>

\* Mutant of Touches: queued jobs of a revoked owner stay.
TouchesLeased(row, p) == (row.owner = p \/ row.worker = p) /\ row.state = "leased"

\* WHERE (owner=? OR worker=?) AND state IN ('queued','leased'): a requeued
\* job still carries the worker of its lapsed lease.
Touches(row, p) == (row.owner = p \/ row.worker = p) /\ Active(row.state)

Revoke(p) ==
  /\ active' = [active EXCEPT ![p] = FALSE]
  /\ job' = [j \in Jobs |-> IF Touches(job[j], p) THEN Settle(job[j], "cancelled") ELSE job[j]]
  /\ UNCHANGED <<clock, usage, handed>>

\* time.time may jump either way.
Tick(t) == clock' = t /\ UNCHANGED <<active, job, usage, handed>>

-----------------------------------------------------------------------------
Next ==
  \/ \E o \in Owners, i \in Items, k \in Keys : Submit(o, i, k)
  \/ \E w \in Workers : Claim(w)
  \/ \E w \in Workers, j \in Jobs, l \in Attempts, t \in Time : Heartbeat(w, j, l, t)
  \/ \E w \in Workers, j \in Jobs, l \in Attempts, b \in Bundles, t \in Time :
       Complete(w, j, l, b, t)
  \/ \E w \in Workers, j \in Jobs, l \in Attempts : Fail(w, j, l)
  \/ \E o \in Owners, j \in Jobs : Cancel(o, j)
  \/ \E o \in Owners, j \in Jobs : Purge(o, j)
  \/ \E p \in Owners \cup Workers : Revoke(p)
  \/ \E t \in Time : Tick(t)

Spec == Init /\ [][Next]_coordVars

-----------------------------------------------------------------------------
(* Properties.                                                             *)

\* The tables hold what their columns allow; no attempt exceeds the limit.
TypeOK ==
  /\ clock \in Time
  /\ active \in [Owners \cup Workers -> BOOLEAN]
  /\ job \in [Jobs -> Row]
  /\ usage \in [Owners -> Nat]
  /\ handed \in SUBSET (Jobs \X Workers \X Attempts)

\* No worker ever holds two leases, whatever lapsed, was requeued or was
\* granted to another worker meanwhile (claim).
OneLeasePerWorker ==
  \A i, j \in Jobs :
    /\ job[i].state = "leased" /\ job[j].state = "leased"
    /\ job[i].worker = job[j].worker
    => i = j

\* A capability is in the row exactly while it can be presented: leased and
\* complete never compare a token with NULL, and it is the token of the last
\* claim, handed to the worker in the row, so every earlier holder is fenced.
FencedByLastLease ==
  \A j \in Jobs :
    IF job[j].state \in {"leased", "completed"}
    THEN /\ job[j].lease > 0
         /\ <<j, job[j].worker, job[j].lease>> \in handed
         /\ \A w \in Workers, l \in Attempts : <<j, w, l>> \in handed => l <= job[j].lease
    ELSE job[j].lease = 0

\* Revocation leaves nothing behind: a revoked owner has no active job and a
\* revoked worker no lease, also after later claims, sweeps and submissions.
RevokedHoldNothing ==
  \A j \in Jobs :
    /\ job[j].state \in {"queued", "leased"} => active[job[j].owner]
    /\ job[j].state = "leased" => active[job[j].worker]

\* Requeueing never lifts an owner above the active-job quota of submit.
ActiveWithinQuota ==
  \A o \in Owners : 
    Cardinality({j \in OwnedBy(o) : job[j].state \in {"queued", "leased"}}) <= MaxActive

\* The usage table is the sum over all attempts ever granted of the owner's
\* jobs, and stays within the quota although attempts are reserved anew.
UsageAccounted ==
  \A o \in Owners :
    /\ usage[o] <= TrialQuota
    /\ usage[o] = SumFunctionOnSet([j \in Jobs |-> job[j].attempt * Trials[job[j].item]],
                                   OwnedBy(o))

\* The evidence an owner's jobs occupy stays within the artifact quota.
EvidenceWithinQuota == \A o \in Owners : Occupied(o) <= ArtifactQuota

\* What check_receipt and audit verify never fails: a receipt names the row's
\* owner, worker and attempt, and the retained bundle; only an accepted job has one.
ReceiptsVerify ==
  \A j \in Jobs :
    LET row == job[j] IN
    IF row.state \in {"completed", "purged"}
    THEN /\ row.receipt = Receipt(row.owner, row.worker, row.attempt, row.receipt.bundle)
         /\ row.receipt.bundle \in Bundles
         /\ row.item \in ValidFor[row.receipt.bundle]
         /\ row.bundle = IF row.state = "completed" THEN row.receipt.bundle ELSE None
    ELSE row.receipt = NoReceipt /\ row.bundle = None

\* A result is accepted only under a lease that has not run out by then,
\* however long its validation took (the second call of leased in complete).
AcceptedOnlyUnderLease ==
  [][\A j \in Jobs :
       job[j].state # "completed" /\ job'[j].state = "completed" =>
         /\ job[j].state = "leased" /\ active[job[j].worker]
         /\ job[j].expires > clock'
         /\ job'[j].receipt.attempt = job[j].lease]_coordVars

\* docs/cluster.md: "Revocation cancels active owned/leased jobs immediately":
\* those and no others.  Refuted: see Touches.
RevokeCancelsOwnedOrLeased ==
  [][\A p \in Owners \cup Workers, j \in Jobs :
       Revoke(p) /\ job[j].state # "cancelled" /\ job'[j].state = "cancelled" =>
         job[j].owner = p \/ (job[j].state = "leased" /\ job[j].worker = p)]_coordVars

\* Every behaviour of the queue is one of the job lifecycle: results are
\* accepted once, from the current holder; settled jobs are never reopened.
Lifecycle ==
  INSTANCE JobLifecycle WITH
    MaxEpochs <- MaxAttempts,
    phase <- [j \in Jobs |-> job[j].state],
    epoch <- [j \in Jobs |-> job[j].attempt],
    holder <- [j \in Jobs |-> job[j].worker],
    result <- [j \in Jobs |-> [worker |-> job[j].receipt.worker,
                               epoch |-> job[j].receipt.attempt,
                               bundle |-> job[j].receipt.bundle]]

ImplementsLifecycle == Lifecycle!Spec
=============================================================================
