------------------------- MODULE CoordinatorProofs --------------------------
(***************************************************************************)
(* Machine-checked facts about Coordinator for every value of its          *)
(* constants: the typing invariant, the fencing of leases, revocation, the *)
(* receipts, the quotas, and that the queue implements JobLifecycle.       *)
(***************************************************************************)
EXTENDS Coordinator, SumTheorems

\* What TypeOK needs to be inductive: which columns a state leaves NULL, and
\* that only a job with attempts left waits for another claim.
Shaped(row) ==
  /\ row.state = "absent" => row = NoRow
  /\ row.state # "absent" => row.owner \in Owners /\ row.item \in Items
  /\ row.state = "queued" => row.attempt < MaxAttempts
  /\ row.state = "leased" => row.worker \in Workers

Shape == \A j \in Jobs : Shaped(job[j])

Typed == TypeOK /\ Shape

-----------------------------------------------------------------------------
(* The rows written by each operation are rows of the right shape.         *)

\* Settling a job (expiry, failure, cancellation) keeps its row well-formed.
LEMMA SettleTyped ==
  ASSUME NEW row \in Row, Shaped(row), row.state # "absent",
         NEW s \in States \ {"absent", "leased"},
         s = "queued" => row.attempt < MaxAttempts
  PROVE  Settle(row, s) \in Row /\ Shaped(Settle(row, s))
<1>1. s \in States /\ 0 \in Attempts
  BY CoordinatorAssumption DEF Attempts
<1>2. Settle(row, s) \in Row
  BY <1>1 DEF Row, Settle
<1>3. Shaped(Settle(row, s))
  BY DEF Row, Shaped, Settle
<1> QED
  BY <1>2, <1>3

\* A lapsed lease leaves a well-formed queued or failed row.
LEMMA LapsedTyped ==
  ASSUME NEW row \in Row, Shaped(row), row.state = "leased"
  PROVE  Lapsed(row) \in Row /\ Shaped(Lapsed(row))
<1>1. row.attempt \in Nat /\ MaxAttempts \in Nat
  BY CoordinatorAssumption DEF Row, Attempts
<1>2. CASE row.attempt >= MaxAttempts
  BY <1>2, SettleTyped DEF Lapsed, States
<1>3. CASE row.attempt < MaxAttempts
  BY <1>1, <1>3, SettleTyped DEF Lapsed, States
<1> QED
  BY <1>1, <1>2, <1>3

\* A claim writes a well-formed leased row.
LEMMA GrantedTyped ==
  ASSUME NEW row \in Row, Shaped(row), row.state = "queued",
         NEW w \in Workers, NEW now \in Time
  PROVE  Granted(row, w, now) \in Row /\ Shaped(Granted(row, w, now))
<1>1. row.attempt + 1 \in Attempts
  BY CoordinatorAssumption DEF Row, Shaped, Attempts
<1>2. now + LeaseSeconds \in Nat
  BY CoordinatorAssumption DEF Time
<1>3. Granted(row, w, now) \in Row
  BY <1>1, <1>2 DEF Row, Granted, States
<1>4. Shaped(Granted(row, w, now))
  BY DEF Row, Shaped, Granted
<1> QED
  BY <1>3, <1>4

\* An acceptance writes a well-formed completed row.
LEMMA AcceptedTyped ==
  ASSUME NEW row \in Row, Shaped(row), row.state = "leased",
         NEW w \in Workers, NEW b \in Bundles
  PROVE  Accepted(row, w, b) \in Row /\ Shaped(Accepted(row, w, b))
<1>1. Receipt(row.owner, w, row.attempt, b) \in Receipts
  BY DEF Row, Shaped, Receipt, Receipts
<1>2. Accepted(row, w, b) \in Row
  BY <1>1 DEF Row, Accepted, States
<1>3. Shaped(Accepted(row, w, b))
  BY DEF Row, Shaped, Accepted
<1> QED
  BY <1>2, <1>3

\* The empty row is well-formed.
LEMMA NoRowTyped == NoRow \in Row /\ Shaped(NoRow)
<1>1. 0 \in Attempts /\ 0 \in Time /\ "absent" \in States
  BY CoordinatorAssumption DEF Attempts, Time, States
<1>2. NoReceipt \in Receipts
  BY <1>1 DEF NoReceipt, Receipt, Receipts
<1>3. NoRow \in Row
  BY <1>1, <1>2 DEF NoRow, Row
<1>4. Shaped(NoRow)
  BY DEF NoRow, Shaped
<1> QED
  BY <1>3, <1>4

\* A submission writes a well-formed queued row.
LEMMA QueuedTyped ==
  ASSUME NEW o \in Owners, NEW i \in Items, NEW k \in Keys, NEW t \in Time
  PROVE  Queued(o, i, k, t) \in Row /\ Shaped(Queued(o, i, k, t))
<1>1. Queued(o, i, k, t) \in Row
  BY NoRowTyped DEF Queued, Row, States
<1>2. Shaped(Queued(o, i, k, t))
  BY CoordinatorAssumption DEF Queued, NoRow, Shaped
<1> QED
  BY <1>1, <1>2

\* The expiry sweep leaves every row well-formed.
LEMMA SweptTyped ==
  ASSUME Typed, NEW now \in Time, NEW j \in Jobs
  PROVE  Swept(now)[j] \in Row /\ Shaped(Swept(now)[j])
  BY LapsedTyped DEF Swept, Expired, Typed, TypeOK, Shape

\* So does the scan of the queue, and it leaves alone the job it stops at.
LEMMA ScannedTyped ==
  ASSUME Typed, NEW w \in Workers
  PROVE  /\ Scanned(w) \in [Jobs -> Row]
         /\ \A j \in Jobs : Shaped(Scanned(w)[j])
         /\ \A j \in First(Swept(clock), w) : Scanned(w)[j] = Swept(clock)[j]
<1> DEFINE rows == Swept(clock)
<1>1. \A j \in Jobs : rows[j] \in Row /\ Shaped(rows[j])
  BY SweptTyped DEF Typed, TypeOK
<1>2. ASSUME NEW j \in Jobs
      PROVE  Scanned(w)[j] \in Row /\ Shaped(Scanned(w)[j])
  <2>1. CASE j \in Overdrawn(rows, w)
    <3>1. rows[j].state = "queued"
      BY <2>1 DEF Overdrawn, Eligible
    <3>2. Scanned(w)[j] = [rows[j] EXCEPT !.state = "failed"]
      BY <2>1 DEF Scanned
    <3>3. Scanned(w)[j] \in Row
      BY <1>1, <3>2 DEF Row, States
    <3>4. Shaped(Scanned(w)[j])
      BY <1>1, <3>1, <3>2 DEF Row, Shaped
    <3> QED
      BY <3>3, <3>4
  <2>2. CASE j \notin Overdrawn(rows, w)
    BY <1>1, <2>2 DEF Scanned
  <2> QED
    BY <2>1, <2>2
<1>3. Scanned(w) \in [Jobs -> Row]
  BY <1>2 DEF Scanned
<1>4. \A j \in First(rows, w) : j \in Jobs /\ Scanned(w)[j] = rows[j]
  BY DEF First, Overdrawn, Eligible, Scanned
<1> QED
  BY <1>2, <1>3, <1>4

-----------------------------------------------------------------------------
(* Typing.                                                                 *)

\* An empty database is typed.
LEMMA InitTyped == Init => Typed
<1> SUFFICES ASSUME Init PROVE Typed
  OBVIOUS
<1> QED
  BY NoRowTyped, CoordinatorAssumption DEF Init, Typed, TypeOK, Shape, Time

\* Every transaction keeps the tables typed.
LEMMA TypedStep ==
  ASSUME Typed, [Next]_coordVars PROVE Typed'
<1>1. ASSUME NEW o \in Owners, NEW i \in Items, NEW k \in Keys, Submit(o, i, k)
      PROVE  Typed'
  BY <1>1, QueuedTyped DEF Submit, Typed, TypeOK, Shape
<1>2. ASSUME NEW w \in Workers, Claim(w)
      PROVE  Typed'
  <2> DEFINE rows == Swept(clock)
  <2>1. CASE First(rows, w) = {} /\ job' = Scanned(w) /\ UNCHANGED <<usage, handed>>
    BY <1>2, <2>1, ScannedTyped DEF Claim, ClaimNothing, ClaimJob, Typed, TypeOK, Shape
  <2>2. ASSUME NEW j \in First(rows, w),
               job' = [Scanned(w) EXCEPT ![j] = Granted(@, w, clock)],
               Reserve(rows[j].owner, rows[j].item),
               handed' = handed \cup {<<j, w, rows[j].attempt + 1>>}
        PROVE  Typed'
    <3>1. j \in Jobs /\ rows[j].state = "queued"
      BY DEF First, Eligible
    <3>2. rows[j] \in Row /\ Shaped(rows[j]) /\ clock \in Time
      BY <3>1, SweptTyped DEF Typed, TypeOK
    <3>3. rows[j].attempt + 1 \in Attempts
      BY <3>1, <3>2, CoordinatorAssumption DEF Row, Shaped, Attempts
    <3>4. rows[j].owner \in Owners /\ Trials[rows[j].item] \in Nat
      BY <3>1, <3>2, CoordinatorAssumption DEF Shaped
    <3>5. Granted(rows[j], w, clock) \in Row /\ Shaped(Granted(rows[j], w, clock))
      BY <3>1, <3>2, GrantedTyped
    <3>6. job' \in [Jobs -> Row] /\ \A i \in Jobs : Shaped(job'[i])
      BY <2>2, <3>1, <3>5, ScannedTyped
    <3>7. usage' \in [Owners -> Nat]
      BY <2>2, <3>4 DEF Reserve, Typed, TypeOK
    <3>8. handed' \in SUBSET (Jobs \X Workers \X Attempts)
      BY <2>2, <3>1, <3>3 DEF Typed, TypeOK
    <3> QED
      BY <1>2, <3>6, <3>7, <3>8 DEF Claim, ClaimNothing, ClaimJob, Typed, TypeOK, Shape
  <2> QED
    BY <1>2, <2>1, <2>2 DEF Claim, ClaimNothing, ClaimJob, MayClaim
<1>3. ASSUME NEW w \in Workers, NEW j \in Jobs, NEW l \in Attempts, NEW t \in Time,
             Heartbeat(w, j, l, t)
      PROVE  Typed'
  <2>1. [job[j] EXCEPT !.expires = t + LeaseSeconds] \in Row
    BY CoordinatorAssumption DEF Typed, TypeOK, Row, Time
  <2>2. Shaped([job[j] EXCEPT !.expires = t + LeaseSeconds])
    BY <1>3 DEF Typed, TypeOK, Shape, Shaped, Heartbeat, Holds, Row
  <2> QED
    BY <1>3, <2>1, <2>2 DEF Heartbeat, Typed, TypeOK, Shape
<1>4. ASSUME NEW w \in Workers, NEW j \in Jobs, NEW l \in Attempts, NEW b \in Bundles,
             NEW t \in Time, Complete(w, j, l, b, t)
      PROVE  Typed'
  BY <1>4, AcceptedTyped
  DEF Complete, HoldsThroughout, Holds, Typed, TypeOK, Shape
<1>5. ASSUME NEW w \in Workers, NEW j \in Jobs, NEW l \in Attempts, Fail(w, j, l)
      PROVE  Typed'
  BY <1>5, SettleTyped DEF Fail, Holds, Typed, TypeOK, Shape, States
<1>6. ASSUME NEW o \in Owners, NEW j \in Jobs, Cancel(o, j)
      PROVE  Typed'
  BY <1>6, SettleTyped DEF Cancel, Active, Typed, TypeOK, Shape, States
<1>7. ASSUME NEW o \in Owners, NEW j \in Jobs, Purge(o, j)
      PROVE  Typed'
  <2>1. Settle(job[j], "purged") \in Row /\ Shaped(Settle(job[j], "purged"))
    BY <1>7, SettleTyped DEF Purge, Typed, TypeOK, Shape, States
  <2>2. job'[j] \in Row /\ Shaped(job'[j])
    BY <1>7, <2>1 DEF Purge, Settle, Typed, TypeOK, Row, Shaped
  <2> QED
    BY <1>7, <2>2 DEF Purge, Typed, TypeOK, Shape
<1>8. ASSUME NEW p \in Owners \cup Workers, Revoke(p)
      PROVE  Typed'
  BY <1>8, SettleTyped DEF Revoke, Touches, Active, Typed, TypeOK, Shape, States
<1>9. ASSUME NEW t \in Time, Tick(t)
      PROVE  Typed'
  BY <1>9 DEF Tick, Typed, TypeOK, Shape
<1>10. CASE UNCHANGED coordVars
  BY <1>10 DEF coordVars, Typed, TypeOK, Shape
<1> QED
  BY <1>1, <1>2, <1>3, <1>4, <1>5, <1>6, <1>7, <1>8, <1>9, <1>10 DEF Next

\* Every transaction of the coordinator leaves well-typed, well-formed tables.
THEOREM TypedInvariant == Spec => []Typed
<1>1. Init => Typed
  BY InitTyped
<1>2. Typed /\ [Next]_coordVars => Typed'
  BY TypedStep
<1> QED
  BY <1>1, <1>2, PTL DEF Spec

\* The tables hold what their columns allow, for any constants.
THEOREM TypeInvariant == Spec => []TypeOK
<1>1. Typed => TypeOK
  BY DEF Typed
<1>2. QED
  BY <1>1, TypedInvariant, PTL

-----------------------------------------------------------------------------
(* What a transaction does to one row.  The remaining theorems go through  *)
(* these cases instead of the actions.                                     *)

Submitted(j) ==
  /\ job[j].state = "absent"
  /\ \E o \in Owners, i \in Items, k \in Keys, t \in Time : job'[j] = Queued(o, i, k, t)

Renewed(j) ==
  job[j].state = "leased" /\ \E n \in Nat : job'[j] = [job[j] EXCEPT !.expires = n]

AcceptedRow(j) ==
  /\ job[j].state = "leased"
  /\ \E b \in Bundles :
       job[j].item \in ValidFor[b] /\ job'[j] = Accepted(job[j], job[j].worker, b)

Closed(j) ==
  Active(job[j].state) /\ \E s \in {"failed", "cancelled"} : job'[j] = Settle(job[j], s)

Purged(j) ==
  job[j].state = "completed" /\ job'[j] = [Settle(job[j], "purged") EXCEPT !.bundle = None]

\* The row as a claim sees it after its sweep.
Seen(j) == IF job[j].state = "leased" THEN {job[j], Lapsed(job[j])} ELSE {job[j]}

Scan(j) ==
  \E row \in Seen(j) :
    \/ job'[j] = row
    \/ row.state = "queued" /\ job'[j] = [row EXCEPT !.state = "failed"]
    \/ /\ row.state = "queued"
       /\ \E w \in Workers, t \in Time :
            job'[j] = Granted(row, w, t) /\ <<j, w, row.attempt + 1>> \in handed'

RowStep(j) ==
  \/ job'[j] = job[j]
  \/ Submitted(j) \/ Renewed(j) \/ AcceptedRow(j) \/ Closed(j) \/ Purged(j) \/ Scan(j)

\* A claim does nothing to a row but lapse it, fail it or grant it.
LEMMA ClaimRowStep ==
  ASSUME Typed, NEW w \in Workers, Claim(w), NEW j \in Jobs
  PROVE  Scan(j)
<1> DEFINE rows == Swept(clock)
<1>1. rows[j] \in Seen(j)
  BY DEF Swept, Seen, Expired
<1>2. \/ Scanned(w)[j] = rows[j]
      \/ rows[j].state = "queued" /\ Scanned(w)[j] = [rows[j] EXCEPT !.state = "failed"]
  BY DEF Scanned, Overdrawn, Eligible
<1>3. CASE job' = Scanned(w)
  BY <1>1, <1>2, <1>3 DEF Scan
<1>4. ASSUME NEW i \in First(rows, w), job' = [Scanned(w) EXCEPT ![i] = Granted(@, w, clock)],
             handed' = handed \cup {<<i, w, rows[i].attempt + 1>>}
      PROVE  Scan(j)
  <2>1. i \in Jobs /\ rows[i].state = "queued" /\ Scanned(w)[i] = rows[i]
    BY ScannedTyped DEF First, Eligible
  <2>2. clock \in Time
    BY DEF Typed, TypeOK
  <2>3. CASE i = j
    BY <1>1, <1>4, <2>1, <2>2, <2>3, ScannedTyped DEF Scan
  <2>4. CASE i # j
    <3>1. job'[j] = Scanned(w)[j]
      BY <1>4, <2>4, ScannedTyped
    <3> QED
      BY <1>1, <1>2, <3>1 DEF Scan
  <2> QED
    BY <2>3, <2>4
<1> QED
  BY <1>3, <1>4 DEF Claim, ClaimNothing, ClaimJob, MayClaim

\* Every step of the coordinator is a RowStep of every job.
LEMMA EveryRowSteps ==
  ASSUME Typed, [Next]_coordVars, NEW j \in Jobs
  PROVE  RowStep(j)
<1> USE DEF Typed, TypeOK
<1>1. ASSUME NEW o \in Owners, NEW i \in Items, NEW k \in Keys, Submit(o, i, k)
      PROVE  RowStep(j)
  BY <1>1 DEF Submit, RowStep, Submitted
<1>2. ASSUME NEW w \in Workers, Claim(w)
      PROVE  RowStep(j)
  BY <1>2, ClaimRowStep DEF RowStep
<1>3. ASSUME NEW w \in Workers, NEW i \in Jobs, NEW l \in Attempts, NEW t \in Time,
             Heartbeat(w, i, l, t)
      PROVE  RowStep(j)
  <2>1. t + LeaseSeconds \in Nat
    BY CoordinatorAssumption DEF Time
  <2> QED
    BY <1>3, <2>1 DEF Heartbeat, Holds, RowStep, Renewed
<1>4. ASSUME NEW w \in Workers, NEW i \in Jobs, NEW l \in Attempts, NEW b \in Bundles,
             NEW t \in Time, Complete(w, i, l, b, t)
      PROVE  RowStep(j)
  BY <1>4 DEF Complete, HoldsThroughout, Holds, RowStep, AcceptedRow
<1>5. ASSUME NEW w \in Workers, NEW i \in Jobs, NEW l \in Attempts, Fail(w, i, l)
      PROVE  RowStep(j)
  BY <1>5 DEF Fail, Holds, RowStep, Closed, Active
<1>6. ASSUME NEW o \in Owners, NEW i \in Jobs, Cancel(o, i)
      PROVE  RowStep(j)
  BY <1>6 DEF Cancel, RowStep, Closed
<1>7. ASSUME NEW o \in Owners, NEW i \in Jobs, Purge(o, i)
      PROVE  RowStep(j)
  BY <1>7 DEF Purge, RowStep, Purged
<1>8. ASSUME NEW p \in Owners \cup Workers, Revoke(p)
      PROVE  RowStep(j)
  BY <1>8 DEF Revoke, Touches, RowStep, Closed
<1>9. ASSUME NEW t \in Time, Tick(t)
      PROVE  RowStep(j)
  BY <1>9 DEF Tick, RowStep
<1>10. CASE UNCHANGED coordVars
  BY <1>10 DEF coordVars, RowStep
<1> QED
  BY <1>1, <1>2, <1>3, <1>4, <1>5, <1>6, <1>7, <1>8, <1>9, <1>10 DEF Next

-----------------------------------------------------------------------------
(* Receipts.                                                               *)

ReceiptSound(row) ==
  IF row.state \in {"completed", "purged"}
  THEN /\ row.receipt = Receipt(row.owner, row.worker, row.attempt, row.receipt.bundle)
       /\ row.receipt.bundle \in Bundles
       /\ row.item \in ValidFor[row.receipt.bundle]
       /\ row.bundle = IF row.state = "completed" THEN row.receipt.bundle ELSE None
  ELSE row.receipt = NoReceipt /\ row.bundle = None

\* The scan of a claim neither makes nor loses evidence.
LEMMA ScanKeepsReceipts ==
  ASSUME Typed, NEW j \in Jobs, Scan(j), ReceiptSound(job[j])
  PROVE  ReceiptSound(job'[j])
<1>1. PICK row \in Seen(j) :
        \/ job'[j] = row
        \/ row.state = "queued" /\ job'[j] = [row EXCEPT !.state = "failed"]
        \/ row.state = "queued" /\ \E w \in Workers, t \in Time : job'[j] = Granted(row, w, t)
  BY DEF Scan
<1>2. row \in Row /\ ReceiptSound(row)
  <2>1. CASE row = job[j]
    BY <2>1 DEF Typed, TypeOK
  <2>2. CASE job[j].state = "leased" /\ row = Lapsed(job[j])
    <3>1. job[j] \in Row /\ row \in Row
      BY <2>2, LapsedTyped DEF Typed, TypeOK, Shape
    <3>2. row.state \in {"queued", "failed"}
      BY <2>2, <3>1 DEF Lapsed, Settle, Row
    <3>3. row.receipt = job[j].receipt /\ row.bundle = job[j].bundle
      BY <2>2, <3>1 DEF Lapsed, Settle, Row
    <3> QED
      BY <2>2, <3>1, <3>2, <3>3 DEF ReceiptSound
  <2> QED
    BY <2>1, <2>2 DEF Seen
<1>3. CASE job'[j] = row
  BY <1>2, <1>3
<1>4. CASE row.state = "queued" /\ job'[j] = [row EXCEPT !.state = "failed"]
  BY <1>2, <1>4 DEF ReceiptSound, Row
<1>5. ASSUME row.state = "queued", NEW w \in Workers, NEW t \in Time,
             job'[j] = Granted(row, w, t)
      PROVE  ReceiptSound(job'[j])
  BY <1>2, <1>5 DEF ReceiptSound, Granted, Row
<1> QED
  BY <1>1, <1>3, <1>4, <1>5

\* check_receipt and audit never refuse what the coordinator itself stored: a
\* receipt always names the row's owner, worker, attempt and retained bundle.
THEOREM ReceiptsInvariant == Spec => []ReceiptsVerify
<1>1. Init => ReceiptsVerify
  BY DEF Init, ReceiptsVerify, NoRow
<1>2. Typed /\ ReceiptsVerify /\ [Next]_coordVars => ReceiptsVerify'
  <2> SUFFICES ASSUME Typed, ReceiptsVerify, [Next]_coordVars, NEW j \in Jobs
               PROVE  ReceiptSound(job'[j])
    BY DEF ReceiptsVerify, ReceiptSound
  <2>1. ReceiptSound(job[j]) /\ job[j] \in Row /\ RowStep(j)
    BY EveryRowSteps DEF ReceiptsVerify, ReceiptSound, Typed, TypeOK
  <2>2. CASE job'[j] = job[j]
    BY <2>1, <2>2
  <2>3. CASE Submitted(j)
    BY <2>3 DEF Submitted, Queued, NoRow, ReceiptSound
  <2>4. CASE Renewed(j)
    BY <2>1, <2>4 DEF Renewed, ReceiptSound, Row
  <2>5. CASE AcceptedRow(j)
    BY <2>1, <2>5 DEF AcceptedRow, Accepted, Receipt, ReceiptSound, Row
  <2>6. CASE Closed(j)
    BY <2>1, <2>6 DEF Closed, Active, Settle, ReceiptSound, Row
  <2>7. CASE Purged(j)
    BY <2>1, <2>7 DEF Purged, Settle, ReceiptSound, Row
  <2>8. CASE Scan(j)
    BY <2>1, <2>8, ScanKeepsReceipts
  <2> QED
    BY <2>1, <2>2, <2>3, <2>4, <2>5, <2>6, <2>7, <2>8 DEF RowStep
<1> QED
  BY <1>1, <1>2, TypedInvariant, PTL DEF Spec

-----------------------------------------------------------------------------
(* Who holds leases: one per worker, and none after revocation.            *)

\* No grant and no new job: what a step other than submit and claim does.
Quiet(j) ==
  /\ Active(job'[j].state) => Active(job[j].state) /\ job'[j].owner = job[j].owner
  /\ job'[j].state = "leased" => job[j].state = "leased" /\ job'[j].worker = job[j].worker

QuietNext ==
  \/ \E w \in Workers, i \in Jobs, l \in Attempts, t \in Time : Heartbeat(w, i, l, t)
  \/ \E w \in Workers, i \in Jobs, l \in Attempts, b \in Bundles, t \in Time :
       Complete(w, i, l, b, t)
  \/ \E w \in Workers, i \in Jobs, l \in Attempts : Fail(w, i, l)
  \/ \E o \in Owners, i \in Jobs : Cancel(o, i) \/ Purge(o, i)
  \/ \E p \in Owners \cup Workers : Revoke(p)
  \/ \E t \in Time : Tick(t)
  \/ UNCHANGED coordVars

\* Only submit and claim make a job active or leased.
LEMMA QuietSteps ==
  ASSUME Typed, NEW j \in Jobs,
         QuietNext
  PROVE  Quiet(j)
<1> USE DEF Typed, TypeOK, Quiet, Active
<1>1. ASSUME NEW w \in Workers, NEW i \in Jobs, NEW l \in Attempts, NEW t \in Time,
             Heartbeat(w, i, l, t)
      PROVE  Quiet(j)
  BY <1>1 DEF Heartbeat, Row
<1>2. ASSUME NEW w \in Workers, NEW i \in Jobs, NEW l \in Attempts, NEW b \in Bundles,
             NEW t \in Time, Complete(w, i, l, b, t)
      PROVE  Quiet(j)
  BY <1>2 DEF Complete, Accepted, Row
<1>3. ASSUME NEW w \in Workers, NEW i \in Jobs, NEW l \in Attempts, Fail(w, i, l)
      PROVE  Quiet(j)
  BY <1>3 DEF Fail, Settle, Row
<1>4. ASSUME NEW o \in Owners, NEW i \in Jobs, Cancel(o, i) \/ Purge(o, i)
      PROVE  Quiet(j)
  BY <1>4 DEF Cancel, Purge, Settle, Row
<1>5. ASSUME NEW p \in Owners \cup Workers, Revoke(p)
      PROVE  Quiet(j)
  BY <1>5 DEF Revoke, Settle, Row
<1>6. CASE (\E t \in Time : Tick(t)) \/ UNCHANGED coordVars
  BY <1>6 DEF Tick, coordVars
<1> QED
  BY <1>1, <1>2, <1>3, <1>4, <1>5, <1>6 DEF QuietNext

\* A submission leases nothing and makes active only a job of an active owner.
LEMMA SubmitQuiet ==
  ASSUME Typed, NEW o \in Owners, NEW i \in Items, NEW k \in Keys, Submit(o, i, k),
         NEW j \in Jobs
  PROVE  /\ active[o]
         /\ Quiet(j) \/ (job'[j].state = "queued" /\ job'[j].owner = o)
  BY DEF Submit, Queued, NoRow, Quiet, Typed, TypeOK

\* After a claim by w, a job is leased to w that was waiting for it, or is
\* quiet and not leased to w.
LEMMA ClaimGrantsOne ==
  ASSUME Typed, NEW w \in Workers, Claim(w)
  PROVE  /\ active[w]
         /\ \E G \in SUBSET Jobs :
              /\ \A i, j \in G : i = j
              /\ \A j \in G :
                   Active(job[j].state) /\ job'[j].owner = job[j].owner /\ job'[j].worker = w
              /\ \A j \in Jobs \ G :
                   Quiet(j) /\ (job'[j].state = "leased" => job'[j].worker # w)
<1> DEFINE rows == Swept(clock)
<1>1. active[w]
  BY DEF Claim, ClaimNothing, ClaimJob, MayClaim
<1>2. \A j \in Jobs :
        /\ Active(rows[j].state) => Active(job[j].state)
        /\ rows[j].owner = job[j].owner
        /\ rows[j].state = "leased" => job[j].state = "leased" /\ rows[j].worker = job[j].worker
  BY DEF Swept, Expired, Lapsed, Settle, Active, Typed, TypeOK, Row
<1>3. \A j \in Jobs : rows[j].state = "leased" => rows[j].worker # w
  BY DEF Claim, ClaimNothing, ClaimJob, MayClaim, HoldsLease
<1>4. \A j \in Jobs : \/ Scanned(w)[j] = rows[j]
                     \/ Scanned(w)[j].state = "failed"
  BY SweptTyped DEF Scanned, Typed, TypeOK, Row
<1>5. CASE job' = Scanned(w)
  <2>1. ASSUME NEW j \in Jobs
        PROVE  Quiet(j) /\ (job'[j].state = "leased" => job'[j].worker # w)
    <3>1. CASE job'[j] = rows[j]
      BY <1>2, <1>3, <3>1 DEF Quiet
    <3>2. CASE job'[j].state = "failed"
      BY <3>2 DEF Quiet, Active
    <3> QED
      BY <1>4, <1>5, <3>1, <3>2
  <2>2. {} \in SUBSET Jobs /\ Jobs \ {} = Jobs
    OBVIOUS
  <2> QED
    BY <1>1, <2>1, <2>2
<1>6. ASSUME NEW g \in First(rows, w), job' = [Scanned(w) EXCEPT ![g] = Granted(@, w, clock)]
      PROVE  /\ \A j \in {g} :
                  Active(job[j].state) /\ job'[j].owner = job[j].owner /\ job'[j].worker = w
             /\ \A j \in Jobs \ {g} :
                  Quiet(j) /\ (job'[j].state = "leased" => job'[j].worker # w)
  <2>1. g \in Jobs /\ rows[g].state = "queued" /\ Scanned(w)[g] = rows[g] /\ rows[g] \in Row
    BY ScannedTyped, SweptTyped DEF First, Eligible, Typed, TypeOK
  <2>2. job'[g] = Granted(rows[g], w, clock)
    BY <1>6, <2>1, ScannedTyped
  <2>3. job'[g].owner = rows[g].owner /\ job'[g].worker = w
    BY <2>1, <2>2 DEF Granted, Row
  <2>4. \A j \in Jobs \ {g} : job'[j] = Scanned(w)[j]
    BY <1>6, ScannedTyped
  <2>5. ASSUME NEW j \in Jobs \ {g}
        PROVE  Quiet(j) /\ (job'[j].state = "leased" => job'[j].worker # w)
    <3>1. CASE job'[j] = rows[j]
      BY <1>2, <1>3, <3>1 DEF Quiet
    <3>2. CASE job'[j].state = "failed"
      BY <3>2 DEF Quiet, Active
    <3> QED
      BY <1>4, <2>4, <3>1, <3>2
  <2>6. Active(job[g].state) /\ rows[g].owner = job[g].owner
    BY <1>2, <2>1 DEF Active
  <2> QED
    BY <2>3, <2>5, <2>6
<1>7. First(rows, w) \subseteq Jobs
  BY DEF First, Eligible
<1> QED
  <2>1. CASE \E g \in First(rows, w) : job' = [Scanned(w) EXCEPT ![g] = Granted(@, w, clock)]
    <3>1. PICK g \in First(rows, w) : job' = [Scanned(w) EXCEPT ![g] = Granted(@, w, clock)]
      BY <2>1
    <3>2. {g} \in SUBSET Jobs /\ \A i, j \in {g} : i = j
      BY <1>7
    <3> QED
      BY <1>1, <1>6, <3>1, <3>2
  <2> QED
    BY <1>5, <2>1 DEF Claim, ClaimNothing, ClaimJob, MayClaim

\* However leases lapse, are requeued, granted again or revoked, a worker never
\* holds two at a time.
THEOREM OneLeaseInvariant == Spec => []OneLeasePerWorker
<1>1. Init => OneLeasePerWorker
  BY DEF Init, OneLeasePerWorker, NoRow
<1>2. Typed /\ OneLeasePerWorker /\ [Next]_coordVars => OneLeasePerWorker'
  <2> SUFFICES ASSUME Typed, OneLeasePerWorker, [Next]_coordVars,
                      NEW i \in Jobs, NEW j \in Jobs,
                      job'[i].state = "leased", job'[j].state = "leased",
                      job'[i].worker = job'[j].worker
               PROVE  i = j
    BY DEF OneLeasePerWorker
  <2>1. CASE Quiet(i) /\ Quiet(j)
    BY <2>1 DEF Quiet, OneLeasePerWorker
  <2>2. CASE QuietNext
    BY <2>1, <2>2, QuietSteps
  <2>3. ASSUME NEW o \in Owners, NEW it \in Items, NEW k \in Keys, Submit(o, it, k)
        PROVE  i = j
    BY <2>1, <2>3, SubmitQuiet
  <2>4. ASSUME NEW w \in Workers, Claim(w)
        PROVE  i = j
    BY <2>1, <2>4, ClaimGrantsOne
  <2> QED
    BY <2>2, <2>3, <2>4 DEF Next, QuietNext
<1> QED
  BY <1>1, <1>2, TypedInvariant, PTL DEF Spec

\* Revocation is complete and lasting: whatever happens afterwards, no active
\* job belongs to a revoked owner and no lease to a revoked worker.
THEOREM RevocationInvariant == Spec => []RevokedHoldNothing
<1>1. Init => RevokedHoldNothing
  BY DEF Init, RevokedHoldNothing, NoRow
<1>2. Typed /\ RevokedHoldNothing /\ [Next]_coordVars => RevokedHoldNothing'
  <2> SUFFICES ASSUME Typed, RevokedHoldNothing, [Next]_coordVars, NEW j \in Jobs
               PROVE  /\ Active(job'[j].state) => active'[job'[j].owner]
                      /\ job'[j].state = "leased" => active'[job'[j].worker]
    BY DEF RevokedHoldNothing, Active
  <2>1. /\ Active(job[j].state) => active[job[j].owner]
        /\ job[j].state = "leased" => active[job[j].worker]
    BY DEF RevokedHoldNothing, Active
  <2>2. CASE Quiet(j) /\ active' = active
    BY <2>1, <2>2 DEF Quiet
  <2>3. ASSUME NEW p \in Owners \cup Workers, Revoke(p)
        PROVE  /\ Active(job'[j].state) => active'[job'[j].owner]
               /\ job'[j].state = "leased" => active'[job'[j].worker]
    <3>1. CASE Touches(job[j], p)
      BY <2>3, <3>1 DEF Revoke, Settle, Active, Typed, TypeOK, Row
    <3>2. CASE ~Touches(job[j], p)
      <4>1. job'[j] = job[j] /\ active' = [active EXCEPT ![p] = FALSE]
        BY <2>3, <3>2 DEF Revoke
      <4>2. Active(job[j].state) => job[j].owner # p /\ job[j].worker # p
        BY <3>2 DEF Touches
      <4>3. \A q : q # p => (active[q] => active'[q])
        BY <4>1, <4>2 DEF Typed, TypeOK
      <4> QED
        BY <2>1, <4>1, <4>2, <4>3 DEF Active
    <3> QED
      BY <3>1, <3>2
  <2>4. CASE QuietNext /\ active' = active
    BY <2>2, <2>4, QuietSteps
  <2>5. ASSUME NEW o \in Owners, NEW i \in Items, NEW k \in Keys, Submit(o, i, k)
        PROVE  /\ Active(job'[j].state) => active'[job'[j].owner]
               /\ job'[j].state = "leased" => active'[job'[j].worker]
    BY <2>2, <2>5, SubmitQuiet DEF Submit
  <2>6. ASSUME NEW w \in Workers, Claim(w)
        PROVE  /\ Active(job'[j].state) => active'[job'[j].owner]
               /\ job'[j].state = "leased" => active'[job'[j].worker]
    <3>1. active' = active
      BY <2>6 DEF Claim, ClaimNothing, ClaimJob, MayClaim
    <3> QED
      BY <2>1, <2>2, <2>6, <3>1, ClaimGrantsOne
  <2> QED
    <3>1. Next /\ ~(\E p \in Owners \cup Workers : Revoke(p)) => active' = active
      BY DEF Next, Submit, Claim, ClaimNothing, ClaimJob, Heartbeat, Complete, Fail, Cancel, Purge, Tick
    <3>2. UNCHANGED coordVars => active' = active
      BY DEF coordVars
    <3> QED
      BY <2>3, <2>4, <2>5, <2>6, <3>1, <3>2 DEF Next, QuietNext
<1> QED
  BY <1>1, <1>2, TypedInvariant, PTL DEF Spec

-----------------------------------------------------------------------------
(* How many jobs of an owner are active.                                   *)

ActiveJobs(o) == {j \in OwnedBy(o) : Active(job[j].state)}

\* A subset of a finite set is no larger.
LEMMA Smaller ==
  ASSUME NEW S, IsFiniteSet(S), NEW T \in SUBSET S
  PROVE  /\ IsFiniteSet(T) /\ Cardinality(T) <= Cardinality(S)
         /\ Cardinality(T) \in Nat /\ Cardinality(S) \in Nat
<1>1. IsFiniteSet(T) /\ Cardinality(T) <= Cardinality(S)
  BY FS_Subset
<1> QED
  BY <1>1, FS_CardinalityType

\* The active jobs of an owner can be counted.
LEMMA ActiveCounted ==
  ASSUME NEW o \in Owners
  PROVE  IsFiniteSet(ActiveJobs(o)) /\ Cardinality(ActiveJobs(o)) \in Nat
<1>1. ActiveJobs(o) \in SUBSET Jobs
  BY DEF ActiveJobs, OwnedBy
<1>2. IsFiniteSet(Jobs)
  BY CoordinatorAssumption
<1> QED
  BY <1>1, <1>2, Smaller

\* A submission adds one active job to its owner, under the guard of submit.
LEMMA SubmitAddsOne ==
  ASSUME Typed, NEW o \in Owners, NEW i \in Items, NEW k \in Keys, Submit(o, i, k)
  PROVE  /\ Cardinality(ActiveJobs(o)) < MaxActive
         /\ \E new \in Jobs : \A p \in Owners : ActiveJobs(p)' \subseteq ActiveJobs(p) \cup
                                                  IF p = o THEN {new} ELSE {}
<1>1. PICK new \in Jobs : job' = [job EXCEPT ![new] = Queued(o, i, k, clock)]
  BY DEF Submit
<1>2. ASSUME NEW p \in Owners, NEW j \in Jobs, j \in ActiveJobs(p)', j \notin ActiveJobs(p)
      PROVE  j = new /\ p = o
  BY <1>1, <1>2 DEF ActiveJobs, OwnedBy, Active, Queued, Typed, TypeOK
<1>3. Cardinality(ActiveJobs(o)) < MaxActive
  BY DEF Submit, ActiveJobs
<1>4. \A p \in Owners : ActiveJobs(p)' \subseteq Jobs
  BY DEF ActiveJobs, OwnedBy
<1> QED
  BY <1>2, <1>3, <1>4

\* No other transaction makes a job active or gives it to another owner.
LEMMA OthersAddNone ==
  ASSUME Typed, [Next]_coordVars, NEW p \in Owners,
         ~\E o \in Owners, i \in Items, k \in Keys : Submit(o, i, k)
  PROVE  ActiveJobs(p)' \subseteq ActiveJobs(p)
<1> SUFFICES ASSUME NEW j \in Jobs, Active(job'[j].state), job'[j].owner = p
             PROVE  Active(job[j].state) /\ job[j].owner = p
  BY DEF ActiveJobs, OwnedBy
<1>1. CASE Quiet(j)
  BY <1>1 DEF Quiet
<1>2. CASE QuietNext
  BY <1>1, <1>2, QuietSteps
<1>3. ASSUME NEW w \in Workers, Claim(w)
      PROVE  Active(job[j].state) /\ job[j].owner = p
  BY <1>1, <1>3, ClaimGrantsOne
<1> QED
  BY <1>2, <1>3 DEF Next, QuietNext

\* However often jobs lapse and are requeued, no owner has more active jobs
\* than submit allows.
THEOREM ActiveTheorem == Spec => []ActiveWithinQuota
<1> DEFINE Bounded == \A o \in Owners : Cardinality(ActiveJobs(o)) <= MaxActive
<1>1. Init => Bounded
  <2>1. Init => \A o \in Owners : ActiveJobs(o) = {}
    BY DEF Init, ActiveJobs, OwnedBy, Active, NoRow
  <2>2. Cardinality({}) = 0 /\ 0 <= MaxActive
    BY FS_EmptySet, CoordinatorAssumption
  <2> QED
    BY <2>1, <2>2, Zenon
<1>2. Typed /\ Bounded /\ [Next]_coordVars => Bounded'
  <2> SUFFICES ASSUME Typed, Bounded, [Next]_coordVars, NEW p \in Owners
               PROVE  Cardinality(ActiveJobs(p)') <= MaxActive
    OBVIOUS
  <2>1. MaxActive \in Nat
    BY CoordinatorAssumption
  <2>2. CASE ActiveJobs(p)' \subseteq ActiveJobs(p)
    <3>1. Cardinality(ActiveJobs(p)') <= Cardinality(ActiveJobs(p))
          /\ Cardinality(ActiveJobs(p)') \in Nat /\ Cardinality(ActiveJobs(p)) \in Nat
      BY <2>2, ActiveCounted, Smaller
    <3> QED
      BY <2>1, <3>1
  <2>3. ASSUME NEW o \in Owners, NEW i \in Items, NEW k \in Keys, Submit(o, i, k)
        PROVE  Cardinality(ActiveJobs(p)') <= MaxActive
    <3>1. PICK new \in Jobs : ActiveJobs(p)' \subseteq ActiveJobs(p) \cup
                                IF p = o THEN {new} ELSE {}
      BY <2>3, SubmitAddsOne
    <3>2. CASE p # o
      BY <2>2, <3>1, <3>2
    <3>3. CASE p = o
      <4>1. ActiveJobs(p)' \in SUBSET (ActiveJobs(p) \cup {new})
        BY <3>1, <3>3
      <4>2. /\ IsFiniteSet(ActiveJobs(p) \cup {new})
            /\ Cardinality(ActiveJobs(p) \cup {new}) <= Cardinality(ActiveJobs(p)) + 1
            /\ Cardinality(ActiveJobs(p)) \in Nat
        <5>1. IsFiniteSet(ActiveJobs(p)) /\ Cardinality(ActiveJobs(p)) \in Nat
          BY ActiveCounted
        <5>2. /\ IsFiniteSet(ActiveJobs(p) \cup {new})
              /\ Cardinality(ActiveJobs(p) \cup {new}) =
                   IF new \in ActiveJobs(p) THEN Cardinality(ActiveJobs(p))
                                            ELSE Cardinality(ActiveJobs(p)) + 1
          BY <5>1, FS_AddElement, Zenon
        <5> QED
          BY <5>1, <5>2
      <4>3. Cardinality(ActiveJobs(p)') <= Cardinality(ActiveJobs(p) \cup {new})
            /\ Cardinality(ActiveJobs(p)') \in Nat
            /\ Cardinality(ActiveJobs(p) \cup {new}) \in Nat
        BY <4>1, <4>2, Smaller
      <4>4. Cardinality(ActiveJobs(p)) < MaxActive
        BY <2>3, <3>3, SubmitAddsOne
      <4> QED
        BY <2>1, <4>2, <4>3, <4>4
    <3> QED
      BY <3>2, <3>3
  <2> QED
    BY <2>2, <2>3, OthersAddNone
<1>3. Bounded => ActiveWithinQuota
  BY DEF ActiveJobs, Active, ActiveWithinQuota
<1> QED
  BY <1>1, <1>2, <1>3, TypedInvariant, PTL DEF Spec

-----------------------------------------------------------------------------
(* Fencing.                                                                *)

\* FencedByLastLease, made inductive: the token in a row is the one of the
\* row's last attempt, and no token beyond the last attempt was handed out.
TokenSound(row) ==
  IF row.state \in {"leased", "completed"}
  THEN row.attempt > 0 /\ row.lease = row.attempt
  ELSE row.lease = 0

Fenced(j) ==
  /\ TokenSound(job[j])
  /\ job[j].state \in {"leased", "completed"} => <<j, job[j].worker, job[j].attempt>> \in handed
  /\ \A w \in Workers, l \in Attempts : <<j, w, l>> \in handed => l <= job[j].attempt

\* Only a grant hands out a token, and it is the token of the new attempt.
LEMMA HandedGrows ==
  ASSUME Typed, [Next]_coordVars, NEW j \in Jobs
  PROVE  /\ handed \subseteq handed'
         /\ \A w \in Workers, l \in Attempts :
              <<j, w, l>> \in handed' \ handed => l = job'[j].attempt
<1>1. ASSUME NEW w \in Workers, Claim(w)
      PROVE  /\ handed \subseteq handed'
             /\ \A v \in Workers, l \in Attempts :
                  <<j, v, l>> \in handed' \ handed => l = job'[j].attempt
  <2> DEFINE rows == Swept(clock)
  <2>1. CASE UNCHANGED handed
    BY <2>1
  <2>2. ASSUME NEW i \in First(rows, w), job' = [Scanned(w) EXCEPT ![i] = Granted(@, w, clock)],
               handed' = handed \cup {<<i, w, rows[i].attempt + 1>>}
        PROVE  /\ handed \subseteq handed'
               /\ \A v \in Workers, l \in Attempts :
                    <<j, v, l>> \in handed' \ handed => l = job'[j].attempt
    <3>1. i \in Jobs /\ Scanned(w)[i] = rows[i] /\ rows[i] \in Row
      BY ScannedTyped, SweptTyped DEF First, Eligible, Typed, TypeOK
    <3>2. job'[i] = Granted(rows[i], w, clock)
      BY <2>2, <3>1, ScannedTyped
    <3>3. job'[i].attempt = rows[i].attempt + 1
      BY <3>1, <3>2 DEF Granted, Row
    <3> QED
      BY <2>2, <3>3
  <2> QED
    BY <1>1, <2>1, <2>2 DEF Claim, ClaimNothing, ClaimJob, MayClaim
<1>2. CASE UNCHANGED handed
  BY <1>2
<1>3. ~(\E w \in Workers : Claim(w)) => UNCHANGED handed
  BY DEF Next, coordVars, Submit, Heartbeat, Complete, Fail, Cancel, Purge, Revoke, Tick
<1> QED
  BY <1>1, <1>2, <1>3

\* No step loses an attempt, and each leaves in the row the token of its last attempt.
LEMMA TokensStaySound ==
  ASSUME Typed, [Next]_coordVars, NEW j \in Jobs, TokenSound(job[j])
  PROVE  /\ TokenSound(job'[j])
         /\ job'[j].attempt \in Nat /\ job[j].attempt <= job'[j].attempt
         /\ \/ <<j, job'[j].worker, job'[j].attempt>> \in handed'
            \/ job'[j].state \notin {"leased", "completed"}
            \/ /\ job[j].state \in {"leased", "completed"}
               /\ job'[j].worker = job[j].worker /\ job'[j].attempt = job[j].attempt
<1>1. RowStep(j) /\ job[j] \in Row /\ Shaped(job[j]) /\ job[j].attempt \in Nat
  BY EveryRowSteps, CoordinatorAssumption DEF Typed, TypeOK, Shape, Row, Attempts
<1>2. CASE job'[j] = job[j]
  BY <1>1, <1>2
<1>3. CASE Submitted(j)
  BY <1>1, <1>3 DEF Submitted, Shaped, Queued, NoRow, TokenSound
<1>4. CASE Renewed(j)
  BY <1>1, <1>4 DEF Renewed, TokenSound, Row
<1>5. CASE AcceptedRow(j)
  BY <1>1, <1>5 DEF AcceptedRow, Accepted, TokenSound, Row
<1>6. CASE Closed(j)
  BY <1>1, <1>6 DEF Closed, Active, Settle, TokenSound, Row
<1>7. CASE Purged(j)
  BY <1>1, <1>7 DEF Purged, Settle, TokenSound, Row
<1>8. CASE Scan(j)
  <2>1. PICK row \in Seen(j) :
          \/ job'[j] = row
          \/ row.state = "queued" /\ job'[j] = [row EXCEPT !.state = "failed"]
          \/ /\ row.state = "queued"
             /\ \E w \in Workers, t \in Time :
                  job'[j] = Granted(row, w, t) /\ <<j, w, row.attempt + 1>> \in handed'
    BY <1>8 DEF Scan
  <2>2. /\ row \in Row /\ TokenSound(row) /\ row.attempt = job[j].attempt
        /\ row.state \in {"leased", "completed"} => row = job[j]
    <3>1. CASE row = job[j]
      BY <1>1, <3>1
    <3>2. CASE job[j].state = "leased" /\ row = Lapsed(job[j])
      BY <1>1, <3>2, LapsedTyped DEF Lapsed, Settle, TokenSound, Row
    <3> QED
      BY <3>1, <3>2 DEF Seen
  <2>3. CASE job'[j] = row
    BY <1>1, <2>2, <2>3
  <2>4. CASE row.state = "queued" /\ job'[j] = [row EXCEPT !.state = "failed"]
    BY <1>1, <2>2, <2>4 DEF TokenSound, Row
  <2>5. CASE /\ row.state = "queued"
             /\ \E w \in Workers, t \in Time :
                  job'[j] = Granted(row, w, t) /\ <<j, w, row.attempt + 1>> \in handed'
    <3>1. PICK w \in Workers, t \in Time :
            job'[j] = Granted(row, w, t) /\ <<j, w, row.attempt + 1>> \in handed'
      BY <2>5
    <3>2. /\ job'[j].state = "leased" /\ job'[j].worker = w
          /\ job'[j].attempt = row.attempt + 1 /\ job'[j].lease = row.attempt + 1
      BY <2>2, <3>1 DEF Granted, Row
    <3> QED
      BY <1>1, <2>2, <3>1, <3>2 DEF TokenSound
  <2> QED
    BY <2>1, <2>3, <2>4, <2>5
<1> QED
  BY <1>1, <1>2, <1>3, <1>4, <1>5, <1>6, <1>7, <1>8 DEF RowStep

AllFenced == \A j \in Jobs : Fenced(j)

\* The inductive form of the fencing invariant.
LEMMA TokensInvariant == Spec => []AllFenced
<1>1. Init => AllFenced
  BY DEF Init, AllFenced, Fenced, TokenSound, NoRow
<1>2. Typed /\ AllFenced /\ [Next]_coordVars => AllFenced'
  <2> SUFFICES ASSUME Typed, AllFenced, [Next]_coordVars, NEW j \in Jobs
               PROVE  Fenced(j)'
    BY DEF AllFenced
  <2>1. Fenced(j) /\ job[j].attempt \in Nat
    BY CoordinatorAssumption DEF AllFenced, Typed, TypeOK, Row, Attempts
  <2>2. TokenSound(job'[j]) /\ job'[j].attempt \in Nat /\ job[j].attempt <= job'[j].attempt
    BY <2>1, TokensStaySound DEF Fenced
  <2>3. job'[j].state \in {"leased", "completed"} =>
          <<j, job'[j].worker, job'[j].attempt>> \in handed'
    BY <2>1, TokensStaySound, HandedGrows DEF Fenced
  <2>4. ASSUME NEW w \in Workers, NEW l \in Attempts, <<j, w, l>> \in handed'
        PROVE  l <= job'[j].attempt
    <3>1. l \in Nat
      BY CoordinatorAssumption DEF Attempts
    <3>2. CASE <<j, w, l>> \in handed
      BY <2>1, <2>2, <3>1, <3>2 DEF Fenced
    <3>3. CASE <<j, w, l>> \notin handed
      BY <2>2, <2>4, <3>3, HandedGrows
    <3> QED
      BY <3>2, <3>3
  <2> QED
    BY <2>2, <2>3, <2>4 DEF Fenced
<1> QED
  BY <1>1, <1>2, TypedInvariant, PTL DEF Spec

\* A leased or completed row holds the token of the last claim and no other:
\* complete, fail and heartbeat are fenced against every earlier holder, and
\* no token is ever compared with NULL.
THEOREM FencingInvariant == Spec => []FencedByLastLease
<1>1. AllFenced => FencedByLastLease
  BY DEF AllFenced, Fenced, TokenSound, FencedByLastLease
<1> QED
  BY <1>1, TokensInvariant, PTL

Completes == \E w \in Workers, i \in Jobs, l \in Attempts, b \in Bundles, t \in Time :
               Complete(w, i, l, b, t)

\* Only complete makes a job completed.
LEMMA OnlyCompleteAccepts ==
  ASSUME Typed, [Next]_coordVars, ~Completes, NEW j \in Jobs, job'[j].state = "completed"
  PROVE  job[j].state = "completed"
<1> job \in [Jobs -> Row] /\ job[j] \in Row /\ Shaped(job[j])
  BY DEF Typed, TypeOK, Shape
<1>1. ASSUME NEW w \in Workers, Claim(w)
      PROVE  job[j].state = "completed"
  <2>1. Scan(j)
    BY <1>1, ClaimRowStep
  <2>2. PICK row \in Seen(j) :
          \/ job'[j] = row
          \/ job'[j] = [row EXCEPT !.state = "failed"]
          \/ \E v \in Workers, t \in Time : job'[j] = Granted(row, v, t)
    BY <2>1 DEF Scan
  <2>3. row \in Row /\ (row.state = "completed" => row = job[j])
    BY LapsedTyped DEF Seen, Lapsed, Settle, Row
  <2>4. QED
    BY <2>2, <2>3 DEF Granted, Row
<1>2. ASSUME NEW w \in Workers, NEW i \in Jobs, NEW l \in Attempts, NEW t \in Time,
             Heartbeat(w, i, l, t)
      PROVE  job[j].state = "completed"
  BY <1>2 DEF Heartbeat, Row
<1>3. ASSUME NEW w \in Workers, NEW i \in Jobs, NEW l \in Attempts, Fail(w, i, l)
      PROVE  job[j].state = "completed"
  BY <1>3 DEF Fail, Settle, Row
<1>4. ASSUME NEW o \in Owners, NEW i \in Jobs, Cancel(o, i) \/ Purge(o, i)
      PROVE  job[j].state = "completed"
  BY <1>4 DEF Cancel, Purge, Settle, Row
<1>5. ASSUME NEW p \in Owners \cup Workers, Revoke(p)
      PROVE  job[j].state = "completed"
  BY <1>5 DEF Revoke, Settle, Row
<1>6. ASSUME NEW o \in Owners, NEW i \in Items, NEW k \in Keys, Submit(o, i, k)
      PROVE  job[j].state = "completed"
  BY <1>6 DEF Submit, Queued, NoRow
<1>7. CASE (\E t \in Time : Tick(t)) \/ UNCHANGED coordVars
  BY <1>7 DEF Tick, coordVars
<1>8. QED
  BY <1>1, <1>2, <1>3, <1>4, <1>5, <1>6, <1>7 DEF Next, Completes

\* A result is accepted only from the holder of a lease that has not run out
\* when its validation ends, and it is accepted for that lease's attempt.
THEOREM AcceptanceStep == Spec => AcceptedOnlyUnderLease
<1> DEFINE UnderLease(j) ==
      job[j].state # "completed" /\ job'[j].state = "completed" =>
        /\ job[j].state = "leased" /\ active[job[j].worker]
        /\ job[j].expires > clock'
        /\ job'[j].receipt.attempt = job[j].lease
<1>1. ASSUME Typed, AllFenced, [Next]_coordVars, NEW j \in Jobs
      PROVE  UnderLease(j)
  <2>0. /\ job[j] \in Row /\ Shaped(job[j]) /\ Fenced(j)
        /\ \A i \in Jobs : job[i] \in Row
        /\ job \in [Jobs -> Row]
    BY <1>1 DEF Typed, TypeOK, Shape, AllFenced
  <2>1. ASSUME NEW w \in Workers, NEW i \in Jobs, NEW l \in Attempts, NEW b \in Bundles,
               NEW t \in Time, Complete(w, i, l, b, t)
        PROVE  UnderLease(j)
    <3>1. CASE i = j
      <4>1. job'[j] = Accepted(job[j], w, b) /\ clock' = t /\ active[w]
        BY <2>0, <2>1, <3>1 DEF Complete
      <4>2. job[j].state = "leased" /\ job[j].worker = w /\ job[j].expires > t
        BY <2>1, <3>1 DEF Complete, HoldsThroughout, Holds
      <4>3. job[j].attempt = job[j].lease
        BY <2>0, <4>2 DEF Fenced, TokenSound
      <4> QED
        BY <2>0, <4>1, <4>2, <4>3 DEF Accepted, Receipt, Row
    <3>2. CASE i # j
      BY <2>0, <2>1, <3>2 DEF Complete
    <3> QED
      BY <3>1, <3>2
  <2>2. CASE ~Completes
    BY <1>1, <2>2, OnlyCompleteAccepts
  <2>3. QED
    BY <2>1, <2>2 DEF Completes
<1>2. Typed /\ AllFenced /\ [Next]_coordVars =>
        [\A j \in Jobs : UnderLease(j)]_coordVars
  BY <1>1
<1> QED
  BY <1>2, TypedInvariant, TokensInvariant, PTL DEF Spec, AcceptedOnlyUnderLease

-----------------------------------------------------------------------------
(* What the jobs of an owner cost: trials reserved and evidence kept.  The *)
(* sums of the model run over the owner's jobs; here they run over all     *)
(* jobs, of which those of others count nothing.                           *)

Spent(row, o) == IF row.owner = o THEN row.attempt * Trials[row.item] ELSE 0

Weight(row) == IF row.bundle = None THEN 0 ELSE Size[row.bundle]

Retained(row, o) == IF row.owner = o THEN Weight(row) ELSE 0

SpentBy(o) == [j \in Jobs |-> Spent(job[j], o)]

RetainedBy(o) == [j \in Jobs |-> Retained(job[j], o)]

\* What a row costs its owner is a number.
LEMMA CostsTyped ==
  ASSUME NEW row \in Row, Shaped(row), NEW o \in Owners
  PROVE  Spent(row, o) \in Nat /\ Weight(row) \in Nat /\ Retained(row, o) \in Nat
<1>1. Weight(row) \in Nat
  BY CoordinatorAssumption DEF Weight, Row
<1>2. CASE row.owner = o
  <2>1. row.item \in Items
    BY <1>2, CoordinatorAssumption DEF Shaped, NoRow
  <2>2. Trials[row.item] \in Nat /\ row.attempt \in Nat
    BY <2>1, CoordinatorAssumption DEF Row, Attempts
  <2>3. row.attempt * Trials[row.item] \in Nat
    BY <2>2
  <2>4. QED
    BY <1>1, <1>2, <2>3 DEF Spent, Retained
<1>3. CASE row.owner # o
  BY <1>1, <1>3 DEF Spent, Retained
<1>4. QED
  BY <1>2, <1>3

\* So are the terms of the sums, before a step and after it.
LEMMA TermsTyped ==
  ASSUME Typed, NEW o \in Owners, NEW j \in Jobs
  PROVE  SpentBy(o)[j] = Spent(job[j], o) /\ SpentBy(o)[j] \in Int
         /\ RetainedBy(o)[j] = Retained(job[j], o) /\ RetainedBy(o)[j] \in Int
  BY CostsTyped DEF SpentBy, RetainedBy, Typed, TypeOK, Shape

\* The sums of the model, over all jobs.
LEMMA CostsOverAll ==
  ASSUME Typed, NEW o \in Owners
  PROVE  /\ SumFunctionOnSet([j \in Jobs |-> job[j].attempt * Trials[job[j].item]], OwnedBy(o))
              = SumFunctionOnSet(SpentBy(o), Jobs)
         /\ Occupied(o) = SumFunctionOnSet(RetainedBy(o), Jobs)
<1>1. IsFiniteSet(Jobs) /\ OwnedBy(o) \in SUBSET Jobs
  BY CoordinatorAssumption DEF OwnedBy
<1>2. ASSUME NEW f, \A j \in OwnedBy(o) : f[j] \in Int
      PROVE  SumFunctionOnSet(f, OwnedBy(o)) =
               SumFunctionOnSet([j \in Jobs |-> IF j \in OwnedBy(o) THEN f[j] ELSE 0], Jobs)
  BY <1>1, <1>2, SumOverPart
<1>3. ASSUME NEW f, NEW g, \A j \in OwnedBy(o) : f[j] \in Int,
             g = [j \in Jobs |-> IF j \in OwnedBy(o) THEN f[j] ELSE 0]
      PROVE  SumFunctionOnSet(f, OwnedBy(o)) = SumFunctionOnSet(g, Jobs)
  BY <1>2, <1>3
<1> DEFINE spent == [j \in Jobs |-> job[j].attempt * Trials[job[j].item]]
           kept == [j \in Jobs |-> IF job[j].bundle = None THEN 0 ELSE Size[job[j].bundle]]
<1>4. /\ \A j \in OwnedBy(o) : spent[j] \in Int
      /\ SpentBy(o) = [j \in Jobs |-> IF j \in OwnedBy(o) THEN spent[j] ELSE 0]
  BY TermsTyped DEF OwnedBy, SpentBy, Spent
<1>5. /\ \A j \in OwnedBy(o) : kept[j] \in Int
      /\ RetainedBy(o) = [j \in Jobs |-> IF j \in OwnedBy(o) THEN kept[j] ELSE 0]
  BY TermsTyped DEF OwnedBy, RetainedBy, Retained, Weight
<1> HIDE DEF spent, kept
<1>6. QED
  BY <1>3, <1>4, <1>5 DEF spent, kept, Occupied

\* The row a claim sees costs what the row in the table does.
LEMMA SeenCosts ==
  ASSUME Typed, NEW j \in Jobs, NEW row \in Seen(j)
  PROVE  /\ row \in Row /\ row.owner = job[j].owner /\ row.item = job[j].item
         /\ row.attempt = job[j].attempt /\ row.bundle = job[j].bundle
<1>1. CASE row = job[j]
  BY <1>1 DEF Typed, TypeOK
<1>2. CASE job[j].state = "leased" /\ row = Lapsed(job[j])
  BY <1>2, LapsedTyped DEF Lapsed, Settle, Row, Typed, TypeOK, Shape
<1>3. QED
  BY <1>1, <1>2 DEF Seen

\* Only a claim that hands out a token makes a job cost its owner more trials.
LEMMA SpentStep ==
  ASSUME Typed, AllFenced, NEW j \in Jobs, RowStep(j), NEW o \in Owners,
         ~\E w \in Workers, l \in Attempts : <<j, w, l>> \in handed' \ handed
  PROVE  Spent(job'[j], o) = Spent(job[j], o)
<1>1. job[j] \in Row /\ Shaped(job[j]) /\ Fenced(j) /\ job[j].attempt \in Nat
  BY CoordinatorAssumption DEF Typed, TypeOK, Shape, AllFenced, Row, Attempts
<1> DEFINE Same == /\ job'[j].owner = job[j].owner /\ job'[j].item = job[j].item
                   /\ job'[j].attempt = job[j].attempt
<1>2. Same => Spent(job'[j], o) = Spent(job[j], o)
  BY DEF Spent
<1>3. CASE job'[j] = job[j]
  BY <1>2, <1>3
<1>4. CASE Submitted(j)
  <2>1. PICK p \in Owners, i \in Items, k \in Keys, t \in Time : job'[j] = Queued(p, i, k, t)
    BY <1>4 DEF Submitted
  <2>2. job[j] = NoRow
    BY <1>1, <1>4 DEF Submitted, Shaped
  <2>3. Spent(job[j], o) = 0
    BY <2>2, CoordinatorAssumption DEF NoRow, Spent
  <2>4. job'[j].item \in Items /\ job'[j].attempt = 0 /\ Trials[job'[j].item] \in Nat
    BY <2>1, CoordinatorAssumption DEF Queued, NoRow
  <2>5. QED
    BY <2>3, <2>4 DEF Spent
<1>5. CASE Renewed(j)
  BY <1>1, <1>2, <1>5 DEF Renewed, Row
<1>6. CASE AcceptedRow(j)
  BY <1>1, <1>2, <1>6 DEF AcceptedRow, Accepted, Row
<1>7. CASE Closed(j)
  BY <1>1, <1>2, <1>7 DEF Closed, Settle, Row
<1>8. CASE Purged(j)
  BY <1>1, <1>2, <1>8 DEF Purged, Settle, Row
<1>9. CASE Scan(j)
  <2>1. PICK row \in Seen(j) :
          \/ job'[j] = row
          \/ row.state = "queued" /\ job'[j] = [row EXCEPT !.state = "failed"]
          \/ /\ row.state = "queued"
             /\ \E w \in Workers, t \in Time :
                  job'[j] = Granted(row, w, t) /\ <<j, w, row.attempt + 1>> \in handed'
    BY <1>9 DEF Scan
  <2>2. /\ row \in Row /\ row.owner = job[j].owner /\ row.item = job[j].item
        /\ row.attempt = job[j].attempt /\ row.bundle = job[j].bundle
    BY SeenCosts
  <2>3. CASE job'[j] = row
    BY <1>2, <2>2, <2>3
  <2>4. CASE job'[j] = [row EXCEPT !.state = "failed"]
    BY <1>2, <2>2, <2>4 DEF Row
  <2>5. ASSUME NEW w \in Workers, row.state = "queued", <<j, w, row.attempt + 1>> \in handed'
        PROVE  FALSE
    <3>1. row.attempt + 1 \in Attempts
      <4>1. row.attempt < MaxAttempts
        <5>1. Shaped(row)
          BY <1>1, LapsedTyped DEF Seen
        <5>2. QED
          BY <2>5, <5>1 DEF Shaped
      <4>2. QED
        BY <1>1, <2>2, <4>1, CoordinatorAssumption DEF Attempts
    <3>2. <<j, w, row.attempt + 1>> \in handed
      BY <2>5, <3>1
    <3>3. row.attempt + 1 <= job[j].attempt
      BY <1>1, <3>1, <3>2 DEF Fenced
    <3>4. QED
      BY <1>1, <2>2, <3>3
  <2>6. QED
    BY <2>1, <2>3, <2>4, <2>5
<1>10. QED
  BY <1>3, <1>4, <1>5, <1>6, <1>7, <1>8, <1>9 DEF RowStep

\* A grant is one more attempt of the same job.
LEMMA GrantedCosts ==
  ASSUME NEW row \in Row, NEW w, NEW now
  PROVE  /\ Granted(row, w, now).owner = row.owner /\ Granted(row, w, now).item = row.item
         /\ Granted(row, w, now).attempt = row.attempt + 1
         /\ Granted(row, w, now).bundle = row.bundle
  BY DEF Granted, Row

\* A grant adds one attempt of its job to what its owner spent.
LEMMA SpentByGrant ==
  ASSUME Typed, NEW w \in Workers, NEW g \in First(Swept(clock), w),
         job' = [Scanned(w) EXCEPT ![g] = Granted(@, w, clock)]
  PROVE  /\ g \in Jobs /\ job[g].owner \in Owners /\ job[g].item \in Items
         /\ Swept(clock)[g].owner = job[g].owner /\ Swept(clock)[g].item = job[g].item
         /\ \A o \in Owners : Spent(job'[g], o) =
              Spent(job[g], o) + IF job[g].owner = o THEN Trials[job[g].item] ELSE 0
<1> DEFINE row == Swept(clock)[g]
<1>1. /\ g \in Jobs /\ row.state = "queued" /\ Scanned(w)[g] = row
      /\ row \in Row /\ Shaped(row)
  BY ScannedTyped, SweptTyped DEF First, Eligible, Typed, TypeOK
<1>2. row \in Seen(g)
  BY <1>1 DEF Swept, Seen, Expired
<1>3. row.owner = job[g].owner /\ row.item = job[g].item /\ row.attempt = job[g].attempt
  BY <1>1, <1>2, SeenCosts
<1>4. row.owner \in Owners /\ row.item \in Items /\ row.attempt \in Nat /\ Trials[row.item] \in Nat
  BY <1>1, CoordinatorAssumption DEF Shaped, Row, Attempts
<1>5. job'[g] = Granted(row, w, clock)
  BY <1>1, ScannedTyped
<1> HIDE DEF row
<1>6. /\ job'[g].owner = row.owner /\ job'[g].item = row.item
      /\ job'[g].attempt = row.attempt + 1
  BY <1>1, <1>5, GrantedCosts
<1>7. (row.attempt + 1) * Trials[row.item] = row.attempt * Trials[row.item] + Trials[row.item]
  <2>1. \A a, n \in Nat : (a + 1) * n = a * n + n
    OBVIOUS
  <2>2. QED
    BY <1>4, <2>1
<1>8. row.attempt * Trials[row.item] \in Nat
  BY <1>4
<1>9. \A o \in Owners : Spent(job'[g], o) =
              Spent(job[g], o) + IF job[g].owner = o THEN Trials[job[g].item] ELSE 0
  BY <1>3, <1>4, <1>6, <1>7, <1>8 DEF Spent
<1>10. QED
  BY <1>1, <1>3, <1>4, <1>9 DEF row

UsageExact ==
  \A o \in Owners : usage[o] <= TrialQuota /\ usage[o] = SumFunctionOnSet(SpentBy(o), Jobs)

\* The usage table is exactly what attempts cost, and within the quota, however
\* often the jobs lapse, are requeued and granted again.
THEOREM UsageTheorem == Spec => []UsageAccounted
<1>1. Init => UsageExact
  <2> SUFFICES ASSUME Init, NEW o \in Owners
               PROVE  usage[o] <= TrialQuota /\ usage[o] = SumFunctionOnSet(SpentBy(o), Jobs)
    BY DEF UsageExact
  <2>1. usage[o] = 0 /\ 0 <= TrialQuota
    BY CoordinatorAssumption DEF Init
  <2>2. \A j \in Jobs : SpentBy(o)[j] = 0
    BY CoordinatorAssumption DEF Init, NoRow, SpentBy, Spent
  <2>3. SumFunctionOnSet(SpentBy(o), Jobs) = 0
    BY <2>2, SumOfZeros, CoordinatorAssumption
  <2>4. QED
    BY <2>1, <2>3
<1>2. Typed /\ Typed' /\ AllFenced /\ UsageExact /\ [Next]_coordVars => UsageExact'
  <2> SUFFICES ASSUME Typed, Typed', AllFenced, UsageExact, [Next]_coordVars, NEW o \in Owners
               PROVE  usage'[o] <= TrialQuota /\ usage'[o] = SumFunctionOnSet(SpentBy(o)', Jobs)
    BY DEF UsageExact
  <2>1. \A j \in Jobs : RowStep(j)
    BY EveryRowSteps
  <2>2. /\ IsFiniteSet(Jobs) /\ usage[o] <= TrialQuota
        /\ usage[o] = SumFunctionOnSet(SpentBy(o), Jobs)
    BY CoordinatorAssumption DEF UsageExact
  <2>3. \A j \in Jobs : /\ SpentBy(o)[j] = Spent(job[j], o) /\ SpentBy(o)'[j] = Spent(job'[j], o)
                        /\ SpentBy(o)[j] \in Int /\ SpentBy(o)'[j] \in Int
    <3>1. \A j \in Jobs : job'[j] \in Row /\ Shaped(job'[j])
      BY DEF Typed, TypeOK, Shape
    <3>2. \A j \in Jobs : Spent(job'[j], o) \in Nat
      BY <3>1, CostsTyped
    <3>3. QED
      BY <3>2, TermsTyped DEF SpentBy
  <2>4. CASE UNCHANGED <<usage, handed>>
    <3>1. \A j \in Jobs : SpentBy(o)'[j] = SpentBy(o)[j]
      BY <2>1, <2>3, <2>4, SpentStep
    <3>2. SumFunctionOnSet(SpentBy(o)', Jobs) = SumFunctionOnSet(SpentBy(o), Jobs)
      BY <2>2, <2>3, <3>1, SumSame
    <3>3. QED
      BY <2>2, <2>4, <3>2
  <2>5. ASSUME NEW w \in Workers, NEW g \in Jobs, ClaimJob(w, g)
        PROVE  usage'[o] <= TrialQuota /\ usage'[o] = SumFunctionOnSet(SpentBy(o)', Jobs)
    <3> DEFINE more == IF job[g].owner = o THEN Trials[job[g].item] ELSE 0
    <3>1. /\ g \in First(Swept(clock), w)
          /\ job' = [Scanned(w) EXCEPT ![g] = Granted(@, w, clock)]
          /\ handed' = handed \cup {<<g, w, Swept(clock)[g].attempt + 1>>}
          /\ Reserve(Swept(clock)[g].owner, Swept(clock)[g].item)
      BY <2>5 DEF ClaimJob
    <3>2. /\ job[g].owner \in Owners /\ job[g].item \in Items
          /\ Swept(clock)[g].owner = job[g].owner /\ Swept(clock)[g].item = job[g].item
          /\ SpentBy(o)'[g] = SpentBy(o)[g] + more
      <4>1. Spent(job'[g], o) = Spent(job[g], o) + more
        BY <3>1, SpentByGrant
      <4>2. QED
        BY <2>3, <3>1, <4>1, SpentByGrant
    <3>3. \A j \in Jobs \ {g} : SpentBy(o)'[j] = SpentBy(o)[j]
      BY <2>1, <2>3, <3>1, SpentStep
    <3>4. more \in Nat
      BY <3>2, CoordinatorAssumption
    <3>5. /\ SumFunctionOnSet(SpentBy(o)', Jobs) =
               SumFunctionOnSet(SpentBy(o), Jobs) + SpentBy(o)'[g] - SpentBy(o)[g]
          /\ SumFunctionOnSet(SpentBy(o), Jobs) \in Int
      BY <2>2, <2>3, <3>3, SumChanges
    <3>6. usage'[o] = usage[o] + more
      BY <3>1, <3>2 DEF Reserve, Typed, TypeOK
    <3>7. job[g].owner = o => usage[o] + Trials[job[g].item] <= TrialQuota
      BY <3>1, <3>2 DEF First, Affordable
    <3>8. usage'[o] <= TrialQuota
      BY <2>2, <3>6, <3>7 DEF Typed, TypeOK
    <3>9. SpentBy(o)[g] \in Int
      BY <2>3
    <3> HIDE DEF more
    <3>10. usage'[o] = SumFunctionOnSet(SpentBy(o)', Jobs)
      BY <2>2, <3>2, <3>4, <3>5, <3>6, <3>9
    <3>11. QED
      BY <3>8, <3>10
  <2>6. QED
    <3>1. ~(\E w \in Workers, g \in Jobs : ClaimJob(w, g)) => UNCHANGED <<usage, handed>>
      BY DEF Next, coordVars, Submit, Claim, ClaimNothing, Heartbeat, Complete, Fail, Cancel,
             Purge, Revoke, Tick
    <3>2. QED
      BY <2>4, <2>5, <3>1
<1>3. Typed /\ UsageExact => UsageAccounted
  BY CostsOverAll DEF UsageExact, UsageAccounted
<1>4. QED
  BY <1>1, <1>2, <1>3, TypedInvariant, TokensInvariant, PTL DEF Spec

\* A job occupies no more than before unless its result is accepted in the step.
LEMMA RetainedStep ==
  ASSUME Typed, ReceiptsVerify, NEW j \in Jobs, RowStep(j), NEW o \in Owners,
         job'[j].state = "completed" => job[j].state = "completed"
  PROVE  Retained(job'[j], o) <= Retained(job[j], o)
<1>1. job[j] \in Row /\ Shaped(job[j]) /\ ReceiptSound(job[j])
  BY DEF Typed, TypeOK, Shape, ReceiptsVerify, ReceiptSound
<1>2. Retained(job[j], o) \in Nat
  BY <1>1, CostsTyped
<1>3. job'[j].bundle = None => Retained(job'[j], o) <= Retained(job[j], o)
  BY <1>2 DEF Retained, Weight
<1>4. job'[j].bundle = job[j].bundle /\ job'[j].owner = job[j].owner =>
        Retained(job'[j], o) <= Retained(job[j], o)
  BY <1>2 DEF Retained, Weight
<1>5. CASE job'[j] = job[j]
  BY <1>2, <1>5
<1>6. CASE Submitted(j)
  BY <1>3, <1>6 DEF Submitted, Queued, NoRow
<1>7. CASE Renewed(j)
  BY <1>1, <1>4, <1>7 DEF Renewed, Row
<1>8. CASE AcceptedRow(j)
  BY <1>1, <1>8 DEF AcceptedRow, Accepted, Row
<1>9. CASE Closed(j)
  BY <1>1, <1>4, <1>9 DEF Closed, Settle, Row
<1>10. CASE Purged(j)
  BY <1>1, <1>3, <1>10 DEF Purged, Settle, Row
<1>11. CASE Scan(j)
  <2>1. PICK row \in Seen(j) :
          \/ job'[j] = row
          \/ job'[j] = [row EXCEPT !.state = "failed"]
          \/ \E w \in Workers, t \in Time : job'[j] = Granted(row, w, t)
    BY <1>11 DEF Scan
  <2>2. row \in Row /\ row.owner = job[j].owner /\ row.bundle = job[j].bundle
    BY SeenCosts
  <2>3. QED
    BY <1>4, <2>1, <2>2, GrantedCosts DEF Row
<1>12. QED
  BY <1>5, <1>6, <1>7, <1>8, <1>9, <1>10, <1>11 DEF RowStep

RetainedWithin == \A o \in Owners : SumFunctionOnSet(RetainedBy(o), Jobs) <= ArtifactQuota

\* The evidence kept for an owner never exceeds the quota: what complete adds
\* was counted first, and nothing else adds any.
THEOREM EvidenceQuotaTheorem == Spec => []EvidenceWithinQuota
<1>1. Init => RetainedWithin
  <2> SUFFICES ASSUME Init, NEW o \in Owners
               PROVE  SumFunctionOnSet(RetainedBy(o), Jobs) <= ArtifactQuota
    BY DEF RetainedWithin
  <2>1. \A j \in Jobs : RetainedBy(o)[j] = 0
    BY DEF Init, NoRow, RetainedBy, Retained, Weight
  <2>2. SumFunctionOnSet(RetainedBy(o), Jobs) = 0
    BY <2>1, SumOfZeros, CoordinatorAssumption
  <2>3. QED
    BY <2>2, CoordinatorAssumption
<1>2. Typed /\ Typed' /\ ReceiptsVerify /\ RetainedWithin /\ [Next]_coordVars => RetainedWithin'
  <2> SUFFICES ASSUME Typed, Typed', ReceiptsVerify, RetainedWithin, [Next]_coordVars,
                      NEW o \in Owners
               PROVE  SumFunctionOnSet(RetainedBy(o)', Jobs) <= ArtifactQuota
    BY DEF RetainedWithin
  <2>1. /\ IsFiniteSet(Jobs) /\ ArtifactQuota \in Int
        /\ SumFunctionOnSet(RetainedBy(o), Jobs) <= ArtifactQuota
    BY CoordinatorAssumption DEF RetainedWithin
  <2>2. \A j \in Jobs : RowStep(j)
    BY EveryRowSteps
  <2>3. \A j \in Jobs : /\ RetainedBy(o)[j] = Retained(job[j], o) /\ RetainedBy(o)'[j] = Retained(job'[j], o)
                        /\ RetainedBy(o)[j] \in Int /\ RetainedBy(o)'[j] \in Int
    <3>1. \A j \in Jobs : job'[j] \in Row /\ Shaped(job'[j])
      BY DEF Typed, TypeOK, Shape
    <3>2. \A j \in Jobs : Retained(job'[j], o) \in Nat
      BY <3>1, CostsTyped
    <3>3. QED
      BY <3>2, TermsTyped DEF RetainedBy
  <2>4. /\ SumFunctionOnSet(RetainedBy(o), Jobs) \in Int
        /\ SumFunctionOnSet(RetainedBy(o)', Jobs) \in Int
    BY <2>1, <2>3, SumTyped
  <2>5. CASE ~Completes
    <3>1. \A j \in Jobs : RetainedBy(o)'[j] <= RetainedBy(o)[j]
      BY <2>2, <2>3, <2>5, OnlyCompleteAccepts, RetainedStep
    <3>2. SumFunctionOnSet(RetainedBy(o)', Jobs) <= SumFunctionOnSet(RetainedBy(o), Jobs)
      BY <2>1, <2>3, <3>1, SumMonotone
    <3>3. QED
      BY <2>1, <2>4, <3>2
  <2>6. ASSUME NEW w \in Workers, NEW g \in Jobs, NEW l \in Attempts, NEW b \in Bundles,
               NEW t \in Time, Complete(w, g, l, b, t)
        PROVE  SumFunctionOnSet(RetainedBy(o)', Jobs) <= ArtifactQuota
    <3>1. /\ job[g] \in Row /\ job[g].state = "leased" /\ job[g].bundle = None
          /\ job' = [job EXCEPT ![g] = Accepted(@, w, b)] /\ job \in [Jobs -> Row]
          /\ Fits(job[g].owner, b)
      BY <2>6 DEF Complete, HoldsThroughout, Holds, ReceiptsVerify, Typed, TypeOK
    <3>2. job'[g].owner = job[g].owner /\ job'[g].bundle = b
      BY <3>1 DEF Accepted, Row
    <3>3. \A j \in Jobs \ {g} : RetainedBy(o)'[j] = RetainedBy(o)[j]
      BY <2>3, <3>1
    <3>4. /\ SumFunctionOnSet(RetainedBy(o)', Jobs) =
               SumFunctionOnSet(RetainedBy(o), Jobs) + RetainedBy(o)'[g] - RetainedBy(o)[g]
      BY <2>1, <2>3, <3>3, SumChanges
    <3>5. RetainedBy(o)[g] = 0
      BY <2>3, <3>1 DEF Retained, Weight
    <3>6. CASE job[g].owner = o
      <4>1. RetainedBy(o)'[g] = Size[b]
        BY <2>3, <3>2, <3>6, CoordinatorAssumption DEF Retained, Weight
      <4>2. SumFunctionOnSet(RetainedBy(o), Jobs) + Size[b] <= ArtifactQuota
        BY <3>1, <3>6, CostsOverAll DEF Fits
      <4>3. Size[b] \in Int
        BY CoordinatorAssumption
      <4>4. QED
        BY <2>4, <3>4, <3>5, <4>1, <4>2, <4>3
    <3>7. CASE job[g].owner # o
      <4>1. RetainedBy(o)'[g] = 0
        BY <2>3, <3>2, <3>7 DEF Retained
      <4>2. QED
        BY <2>1, <2>4, <3>4, <3>5, <4>1
    <3>8. QED
      BY <3>6, <3>7
  <2>7. QED
    BY <2>5, <2>6 DEF Completes
<1>3. Typed /\ RetainedWithin => EvidenceWithinQuota
  BY CostsOverAll DEF RetainedWithin, EvidenceWithinQuota
<1>4. QED
  BY <1>1, <1>2, <1>3, TypedInvariant, ReceiptsInvariant, PTL DEF Spec

-----------------------------------------------------------------------------
(* The queue implements the job lifecycle.                                 *)

\* The initial tables are an initial state of every job's lifecycle.
LEMMA InitImplements == Init => Lifecycle!Init
  BY DEF Init, Lifecycle!Init, NoRow, NoReceipt, Receipt, Lifecycle!NoResult, Lifecycle!Result

\* What a claim's scan does to a row is a grant, a requeue or a rejection.
LEMMA ScanImplements ==
  ASSUME Typed, NEW j \in Jobs, Scan(j)
  PROVE  Lifecycle!JobStep(j)
<1> USE DEF Lifecycle!Moves, Lifecycle!KeepsGrant, Lifecycle!KeepsResult
<1>1. job[j] \in Row /\ Shaped(job[j])
  BY DEF Typed, TypeOK, Shape
<1>2. PICK row \in Seen(j) :
        \/ job'[j] = row
        \/ row.state = "queued" /\ job'[j] = [row EXCEPT !.state = "failed"]
        \/ row.state = "queued" /\ \E w \in Workers, t \in Time : job'[j] = Granted(row, w, t)
  BY DEF Scan
<1>3. /\ row \in Row /\ Shaped(row)
      /\ row.attempt = job[j].attempt /\ row.worker = job[j].worker
      /\ row.receipt = job[j].receipt
      /\ row = job[j] \/ (job[j].state = "leased" /\ row.state \in {"queued", "failed"})
  <2>1. CASE row = job[j]
    BY <1>1, <2>1
  <2>2. CASE job[j].state = "leased" /\ row = Lapsed(job[j])
    BY <1>1, <2>2, LapsedTyped DEF Lapsed, Settle, Row
  <2> QED
    BY <2>1, <2>2 DEF Seen
<1>4. CASE job'[j] = row
  <2>1. CASE row = job[j]
    BY <1>4, <2>1 DEF Lifecycle!JobStep, Lifecycle!Rest
  <2>2. CASE job[j].state = "leased" /\ row.state = "queued"
    BY <1>3, <1>4, <2>2 DEF Lifecycle!JobStep, Lifecycle!Requeue, Shaped
  <2>3. CASE job[j].state = "leased" /\ row.state = "failed"
    BY <1>3, <1>4, <2>3 DEF Lifecycle!JobStep, Lifecycle!GiveUp
  <2> QED
    BY <1>3, <2>1, <2>2, <2>3
<1>5. CASE row.state = "queued" /\ job'[j] = [row EXCEPT !.state = "failed"]
  BY <1>3, <1>5 DEF Lifecycle!JobStep, Lifecycle!GiveUp, Row
<1>6. ASSUME row.state = "queued", NEW w \in Workers, NEW t \in Time,
             job'[j] = Granted(row, w, t)
      PROVE  Lifecycle!JobStep(j)
  BY <1>3, <1>6 DEF Granted, Lifecycle!JobStep, Lifecycle!Grant, Row, Shaped
<1> QED
  BY <1>2, <1>4, <1>5, <1>6

\* Every row step is a step of the job's lifecycle.
LEMMA RowStepImplements ==
  ASSUME Typed, NEW j \in Jobs, RowStep(j)
  PROVE  Lifecycle!JobStep(j)
<1> USE DEF Lifecycle!Moves, Lifecycle!KeepsGrant, Lifecycle!KeepsResult
<1>1. job[j] \in Row /\ Shaped(job[j])
  BY DEF Typed, TypeOK, Shape
<1>2. CASE job'[j] = job[j]
  BY <1>2 DEF Lifecycle!JobStep, Lifecycle!Rest
<1>3. CASE Submitted(j)
  <2>1. PICK o \in Owners, i \in Items, k \in Keys, t \in Time : job'[j] = Queued(o, i, k, t)
    BY <1>3 DEF Submitted
  <2>2. job[j] = NoRow
    BY <1>1, <1>3 DEF Submitted, Shaped
  <2>3. /\ job[j].state = "absent" /\ job'[j].state = "queued"
        /\ job'[j].attempt = job[j].attempt /\ job'[j].worker = job[j].worker
        /\ job'[j].receipt = job[j].receipt
    BY <2>1, <2>2 DEF Queued, NoRow
  <2> QED
    BY <2>3 DEF Lifecycle!JobStep, Lifecycle!Submit
<1>4. CASE Renewed(j)
  BY <1>1, <1>4 DEF Renewed, Row, Lifecycle!JobStep, Lifecycle!Rest
<1>5. CASE AcceptedRow(j)
  <2>1. PICK b \in Bundles : job'[j] = Accepted(job[j], job[j].worker, b)
    BY <1>5 DEF AcceptedRow
  <2>2. /\ job[j].state = "leased" /\ job'[j].state = "completed"
        /\ job'[j].attempt = job[j].attempt /\ job'[j].worker = job[j].worker
        /\ job'[j].receipt = Receipt(job[j].owner, job[j].worker, job[j].attempt, b)
    BY <1>1, <1>5, <2>1 DEF AcceptedRow, Accepted, Row
  <2> QED
    BY <2>2 DEF Receipt, Lifecycle!JobStep, Lifecycle!Accept, Lifecycle!Result
<1>6. CASE Closed(j)
  BY <1>1, <1>6 DEF Closed, Active, Settle, Row, Lifecycle!JobStep, Lifecycle!GiveUp
<1>7. CASE Purged(j)
  BY <1>1, <1>7 DEF Purged, Settle, Row, Lifecycle!JobStep, Lifecycle!Purge
<1>8. CASE Scan(j)
  BY <1>8, ScanImplements
<1> QED
  BY <1>2, <1>3, <1>4, <1>5, <1>6, <1>7, <1>8 DEF RowStep

\* The coordinator implements JobLifecycle: a result is accepted at most once,
\* from the holder of the current epoch; attempts are bounded; and nothing that
\* happens later reopens a settled job.
THEOREM LifecycleRefinement == Spec => ImplementsLifecycle
<1>1. Init => Lifecycle!Init
  BY InitImplements
<1>2. Typed /\ [Next]_coordVars => [Lifecycle!Next]_(Lifecycle!vars)
  BY EveryRowSteps, RowStepImplements DEF Lifecycle!Next
<1> QED
  BY <1>1, <1>2, TypedInvariant, PTL DEF Spec, ImplementsLifecycle, Lifecycle!Spec
=============================================================================
