--------------------------- MODULE ReadersProofs ---------------------------
(***************************************************************************)
(* Proofs about the collector of a trial and about the subscription check, *)
(* for any bounds on samples, errors, bytes, blocks and output.            *)
(***************************************************************************)
EXTENDS Collectors, SubscriptionCheck, TLAPS

LEMMA Bounds ==
  /\ MaxSamples \in Nat /\ MaxErrors \in Nat
  /\ Limit \in Nat /\ Block \in Nat /\ Block > 0
BY CollectorsAssumption, CheckAssumption

-----------------------------------------------------------------------------
(* Collectors.                                                             *)

Buffers == [samples : Nat, errors : Nat, received : Nat, truncated : BOOLEAN]

CollectorTypes ==
  /\ kind \in {"stream", "sampler"}
  /\ sock \in {"none", "unconnected", "open", "taken", "shut"}
  /\ buffer \in Buffers
  /\ report \in [leaked : BOOLEAN, held : Buffers]

\* No sample is held that was not received; a stream counts it before it is looked at.
Counted ==
  /\ buffer.samples <= buffer.received
  /\ kind = "stream" /\ reader = "recording" => buffer.samples < buffer.received
  /\ kind = "sampler" => buffer.samples <= MaxSamples

\* A sampler has no connection, a stream that ended has none left, and each
\* kind has its own way through close.
Places ==
  /\ kind = "sampler" => sock = "none" /\ closer \notin {"shutting", "copying", "counting"}
  /\ kind = "stream" => closer # "detaching"
  /\ kind = "sampler" /\ closer = "closed" => detached
  /\ reader = "ended" => sock = "none"

\* Who does not own up to a leak has ended.
Honest ==
  closer \in {"detaching", "copying", "counting", "closed"} /\ ~report.leaked => reader = "ended"

\* How far the report is copied, and what the copy has to do with the buffer.
Copied ==
  /\ closer = "counting" =>
       /\ report.held.samples <= buffer.received
       /\ ~report.leaked => report.held.samples = buffer.samples /\ report.held.errors = buffer.errors
  /\ closer = "closed" =>
       /\ report.held.samples <= report.held.received
       /\ kind = "sampler" \/ ~report.leaked => report.held = buffer

CollectorInv == CollectorTypes /\ Counted /\ Places /\ Honest /\ Copied

LEMMA Flags == TRUE \in BOOLEAN /\ FALSE \in BOOLEAN /\ Alive \in BOOLEAN
BY DEF Alive

\* What is left of a buffer after two of its fields were set.
LEMMA TwoFields ==
  ASSUME NEW b \in Buffers, NEW n \in Nat, NEW m \in Nat, NEW c \in BOOLEAN
  PROVE  /\ [b EXCEPT !.errors = n, !.truncated = c] \in Buffers
         /\ [b EXCEPT !.errors = n, !.truncated = c].samples = b.samples
         /\ [b EXCEPT !.errors = n, !.truncated = c].received = b.received
         /\ [b EXCEPT !.received = n, !.truncated = c] \in Buffers
         /\ [b EXCEPT !.received = n, !.truncated = c].samples = b.samples
         /\ [b EXCEPT !.received = n, !.truncated = c].received = n
         /\ [b EXCEPT !.received = n, !.samples = m] \in Buffers
         /\ [b EXCEPT !.received = n, !.samples = m].samples = m
         /\ [b EXCEPT !.received = n, !.samples = m].received = n
BY DEF Buffers

LEMMA CollectorsBegin == CollectorsInit => CollectorInv
BY Bounds, Flags
   DEF CollectorsInit, CollectorInv, CollectorTypes, Buffers, Counted, Places, Honest, Copied, Empty

\* What a step of a thread has to leave true of the buffer and of its place.
\* A thread that is alive is one that close cannot have reported as over.
LEMMA ThreadFrame ==
  ASSUME CollectorInv, reader # "ended",
         UNCHANGED <<kind, closer, stop, detached, report>>,
         buffer' \in Buffers, Counted',
         kind = "stream" => buffer.received <= buffer'.received,
         kind = "sampler" => UNCHANGED sock /\ (detached => UNCHANGED buffer),
         sock' \in {"none", "unconnected", "open", "taken", "shut"},
         reader' = "ended" => sock' = "none"
  PROVE  CollectorInv'
<1>1. CollectorTypes'
  BY DEF CollectorInv, CollectorTypes
<1>2. Places' /\ Honest'
  BY DEF CollectorInv, Places, Honest
<1>3. Copied'
  BY DEF CollectorInv, CollectorTypes, Places, Honest, Copied, Buffers
<1>4. QED
  BY <1>1, <1>2, <1>3 DEF CollectorInv

\* A stream's reader counts a record before it looks at it.
LEMMA StreamSound ==
  ASSUME CollectorInv, StreamStep, UNCHANGED <<kind, closer, stop, detached, report>>
  PROVE  CollectorInv'
<1> USE DEF CollectorInv, CollectorTypes, Counted, Goes
<1>0. kind = "stream" /\ buffer.samples \in Nat /\ buffer.received \in Nat
  BY DEF StreamStep, Buffers
<1> DEFINE Grows(n, r) == /\ buffer' \in Buffers
                          /\ buffer'.samples = n /\ buffer'.received = r
<1>1. CASE UNCHANGED buffer /\ (Open \/ Connect \/ Respond \/ LoopStream \/ Finish)
  BY <1>0, <1>1, ThreadFrame DEF Open, Connect, Respond, LoopStream, Finish
<1>2. CASE Open \/ Connect \/ LoopStream \/ Finish
  BY <1>1, <1>2 DEF Open, Connect, LoopStream, Finish
<1>3. ASSUME Errs PROVE Grows(buffer.samples, buffer.received)
  BY <1>3 DEF Errs, Buffers
<1>4. CASE Respond
  <2>1. CASE UNCHANGED buffer
    BY <1>1, <1>4, <2>1
  <2>2. CASE Errs
    BY <1>0, <1>3, <1>4, <2>2, ThreadFrame DEF Respond
  <2>3. QED
    BY <1>4, <2>1, <2>2 DEF Respond
<1>5. CASE ReadChunk
  <2>1. Grows(buffer.samples, buffer.received)
    BY <1>5, Flags DEF ReadChunk, Buffers
  <2>2. QED
    BY <1>0, <1>5, <2>1, ThreadFrame DEF ReadChunk
<1>6. CASE ReadEnds
  <2>1. Grows(buffer.samples, buffer.received)
    BY <1>3, <1>6 DEF ReadEnds
  <2>2. QED
    BY <1>0, <1>6, <2>1, ThreadFrame DEF ReadEnds
<1>7. CASE Parse
  <2>1. \/ reader' = "recording" /\ Grows(buffer.samples, buffer.received + 1)
        \/ reader' \in {"looping", "finishing"} /\ Grows(buffer.samples, buffer.received)
    <3>1. CASE buffer' = [buffer EXCEPT !.received = @ + 1] /\ reader' = "recording"
      BY <3>1 DEF Buffers
    <3>2. CASE UNCHANGED buffer /\ reader' = "looping"
      BY <3>2
    <3>3. CASE /\ buffer' = [buffer EXCEPT !.errors = @ + 1, !.truncated = TRUE]
               /\ reader' = "finishing"
      <4>1. buffer.errors + 1 \in Nat
        BY DEF Buffers
      <4>2. QED
        BY ONLY <3>3, <4>1, Flags, TwoFields, buffer \in Buffers
    <3>4. QED
      BY ONLY <1>7, <3>1, <3>2, <3>3 DEF Parse, Goes
  <2>2. QED
    BY <1>0, <1>7, <2>1, ThreadFrame DEF Parse
<1>8. CASE Record
  <2>1. \/ Grows(buffer.samples, buffer.received)
        \/ Grows(buffer.samples + 1, buffer.received)
    <3>1. CASE Errs \/ UNCHANGED buffer
      BY <1>3, <3>1
    <3>2. CASE buffer' = [buffer EXCEPT !.truncated = TRUE]
      BY <3>2, Flags DEF Buffers
    <3>3. CASE buffer' = [buffer EXCEPT !.samples = @ + 1]
      BY <3>3 DEF Buffers
    <3>4. QED
      BY <1>8, <3>1, <3>2, <3>3 DEF Record
  <2>2. reader = "recording" /\ reader' \in {"finishing", "parsing"} /\ UNCHANGED sock
    BY <1>8 DEF Record
  <2>3. QED
    BY <1>0, <2>1, <2>2, ThreadFrame
<1>9. CASE Fail
  <2>1. Grows(buffer.samples, buffer.received)
    BY <1>3, <1>9 DEF Fail
  <2>2. QED
    BY <1>0, <1>9, <2>1, ThreadFrame DEF Fail
<1>10. QED
  BY <1>2, <1>4, <1>5, <1>6, <1>7, <1>8, <1>9 DEF StreamStep

\* A sampler's thread: once it is detached it records nothing.
LEMMA SamplerSound ==
  ASSUME CollectorInv, SamplerStep, UNCHANGED <<kind, closer, stop, detached, report>>
  PROVE  CollectorInv'
<1> USE DEF CollectorInv, CollectorTypes, Counted, Goes
<1>0. /\ kind = "sampler" /\ UNCHANGED sock /\ sock = "none"
      /\ buffer.samples \in Nat /\ buffer.received \in Nat
  BY DEF SamplerStep, Places, Buffers
<1>1. CASE reader # "ended" /\ UNCHANGED buffer
  BY <1>0, <1>1, ThreadFrame
<1>2. CASE LoopSampler \/ Collect \/ Sleep
  BY <1>1, <1>2 DEF LoopSampler, Collect, Sleep
<1>3. CASE RecordSnapshot /\ ~detached
  <2>1. /\ buffer' \in Buffers
        /\ \/ /\ buffer.samples < MaxSamples /\ buffer'.samples = buffer.samples + 1
              /\ buffer'.received = buffer.received + 1
           \/ /\ buffer'.samples = buffer.samples
              /\ buffer'.received = MaxSamples + 1
    <3>1. CASE buffer.samples < MaxSamples
      <4>1. buffer' = [buffer EXCEPT !.received = buffer.received + 1, !.samples = buffer.samples + 1]
        BY <1>3, <3>1 DEF RecordSnapshot, Recording
      <4>2. buffer.received + 1 \in Nat /\ buffer.samples + 1 \in Nat
        BY <1>0
      <4>3. QED
        BY ONLY <3>1, <4>1, <4>2, buffer \in Buffers DEF Buffers
    <3>2. CASE ~(buffer.samples < MaxSamples)
      <4>1. buffer' = [buffer EXCEPT !.received = MaxSamples + 1, !.truncated = TRUE]
        BY <1>3, <3>2 DEF RecordSnapshot, Recording
      <4>2. MaxSamples + 1 \in Nat
        BY Bounds
      <4>3. QED
        BY ONLY <4>1, <4>2, Flags, TwoFields, buffer \in Buffers
    <3>3. QED
      BY <3>1, <3>2
  <2>2. QED
    BY <1>0, <1>3, <2>1, Bounds, ThreadFrame DEF RecordSnapshot
<1>4. CASE NoteFault /\ ~detached
  <2>1. /\ buffer' \in Buffers
        /\ buffer'.samples = buffer.samples /\ buffer'.received = buffer.received
    BY <1>4, Bounds DEF NoteFault, Recording, Buffers
  <2>2. QED
    BY <1>0, <1>4, <2>1, ThreadFrame DEF NoteFault
<1>5. CASE (RecordSnapshot \/ NoteFault) /\ detached
  BY <1>1, <1>5 DEF RecordSnapshot, NoteFault, Recording
<1>6. QED
  BY <1>2, <1>3, <1>4, <1>5 DEF SamplerStep

LEMMA CloserSound ==
  ASSUME CollectorInv, CloserStep, UNCHANGED <<kind, reader, frames, bytes>>
  PROVE  CollectorInv'
<1> USE Flags DEF CollectorInv, CollectorTypes, Buffers, Counted, Places, Honest, Copied, Closes,
            Shuts, Errs, Alive
<1>1. CASE CloseBegins
  BY <1>1 DEF CloseBegins
<1>2. CASE Shutdown
  BY <1>2 DEF Shutdown
<1>3. CASE JoinAgain
  BY <1>3 DEF JoinAgain
<1>4. CASE JoinEnds
  BY <1>4 DEF JoinEnds
<1>5. CASE Check
  <2>1. buffer' \in Buffers /\ buffer'.samples = buffer.samples /\ buffer'.received = buffer.received
    BY <1>5 DEF Check
  <2>2. /\ report' \in [leaked : BOOLEAN, held : Buffers] /\ (report'.leaked <=> Alive)
        /\ closer' \in {"copying", "detaching"} /\ (closer' = "copying" <=> kind = "stream")
        /\ UNCHANGED <<sock, stop, detached>>
    BY <1>5 DEF Check
  <2> HIDE DEF Buffers
  <2>3. QED
    BY ONLY CollectorInv, <2>1, <2>2, UNCHANGED <<kind, reader, frames, bytes>>
       DEF CollectorInv, CollectorTypes, Counted, Places, Honest, Copied, Alive
<1>6. CASE Detach
  BY <1>6 DEF Detach
<1>7. CASE Copy
  <2>1. CASE Closes("copying", "counting")
    <3>1. report' = [report EXCEPT !.held = [report.held EXCEPT !.samples = buffer.samples,
                                                                !.errors = buffer.errors]]
      BY <1>7, <2>1 DEF Copy
    <3>2. /\ report' \in [leaked : BOOLEAN, held : Buffers] /\ report'.leaked = report.leaked
          /\ report'.held.samples = buffer.samples /\ report'.held.errors = buffer.errors
      BY <3>1
    <3>3. UNCHANGED <<sock, buffer, stop, detached>>
      BY <1>7 DEF Copy
    <3> HIDE DEF Buffers
    <3>4. QED
      BY <2>1, <3>2, <3>3, buffer.samples <= buffer.received
  <2>2. CASE Closes("counting", "closed")
    <3>1. report' = [report EXCEPT !.held = [report.held EXCEPT !.received = buffer.received,
                                                                !.truncated = buffer.truncated]]
      BY <1>7, <2>2 DEF Copy
    <3>2. /\ report' \in [leaked : BOOLEAN, held : Buffers] /\ report'.leaked = report.leaked
          /\ report'.held \in Buffers
          /\ report'.held.samples = report.held.samples /\ report'.held.errors = report.held.errors
          /\ report'.held.received = buffer.received /\ report'.held.truncated = buffer.truncated
      BY <3>1
    <3>3. UNCHANGED <<sock, buffer, stop, detached>>
      BY <1>7 DEF Copy
    <3>4. ASSUME ~report.leaked PROVE report'.held = buffer
      BY <2>2, <3>2, <3>4
    <3> HIDE DEF Buffers
    <3>5. QED
      BY <2>2, <3>2, <3>3, <3>4
  <2>3. QED
    BY <1>7, <2>1, <2>2 DEF Copy
<1>8. QED
  BY <1>1, <1>2, <1>3, <1>4, <1>5, <1>6, <1>7 DEF CloserStep

\* What a trial reports of its telemetry stands, whatever its thread still does.
THEOREM ReportTheorem == CollectorsSpec => []ReportStands
<1>1. CollectorInv /\ [CollectorsNext]_collectorVars => CollectorInv'
  <2>1. CASE UNCHANGED collectorVars
    BY <2>1 DEF collectorVars, CollectorInv, CollectorTypes, Counted, Places, Honest, Copied
  <2>2. CASE CollectorsNext
    BY <2>2, StreamSound, SamplerSound, CloserSound DEF CollectorsNext, ReaderStep
  <2>3. QED
    BY <2>1, <2>2
<1>2. CollectorInv => ReportStands
  BY DEF CollectorInv, Places, Honest, Copied, ReportStands
<1>3. QED
  BY <1>1, <1>2, CollectorsBegin, PTL DEF CollectorsSpec

-----------------------------------------------------------------------------
(* The subscription check: what the process group comes to.                *)

Gone == leader # "running" /\ helper # "running"

\* A termination that is over, or has sent SIGKILL, leaves no one running.
GroupInv ==
  /\ term = [signal |-> term.signal, then |-> term.then]
  /\ at \in {"signalling", "grace"} => term.then \in {"joining", "reading out"}
  /\ at = "grace" /\ term.signal # "TERM" => Gone
  /\ at \in {"reading out", "returned"} => Gone

LEMMA GroupBegin == SubscriptionInit => GroupInv
BY DEF SubscriptionInit, NoTerm, GroupInv

LEMMA GroupSteps ==
  ASSUME GroupInv, [SubscriptionNext]_subscriptionVars
  PROVE  GroupInv'
<1> USE DEF GroupInv, Gone
<1>1. CASE UNCHANGED subscriptionVars
  BY <1>1 DEF subscriptionVars, processVars
<1>2. CASE CheckBegins
  BY <1>2 DEF CheckBegins, processVars
<1>3. CASE ProcessStep
  BY <1>3 DEF ProcessStep, Write, Exit, Spawn, HelperEnds
<1>4. CASE Pump
  BY <1>4 DEF Pump, processVars
<1>5. CASE Exited
  BY <1>5 DEF Exited, Poll, Reaped
<1>11. CASE Breach
  BY <1>11 DEF Breach, Terminate, processVars
<1>12. CASE Join
  BY <1>12 DEF Join, Terminate, processVars
<1>6. CASE Signal
  <2>1. CASE GroupAlive /\ term.signal = "TERM"
    BY <1>6, <2>1 DEF Signal, Sent, Reaped
  <2>2. CASE GroupAlive /\ term.signal # "TERM"
    BY <1>6, <2>2 DEF Signal, Sent, Reaped, Doomed
  <2>3. CASE ~GroupAlive
    <3>1. at' = term.then /\ term' = NoTerm /\ leader' = Reaped /\ helper' = helper
      BY <1>6, <2>3 DEF Signal, Terminated
    <3>2. at' \in {"joining", "reading out"}
      BY <1>6, <3>1 DEF Signal
    <3>3. leader' # "running" /\ helper' # "running"
      BY <2>3, <3>1 DEF GroupAlive, Reaped
    <3>4. QED
      BY <3>1, <3>2, <3>3 DEF NoTerm
  <2>4. QED
    BY <2>1, <2>2, <2>3
<1>7. CASE GraceEnds
  BY <1>7 DEF GraceEnds, Poll, GroupAlive, Terminated, NoTerm, Reaped
<1>8. CASE ReadOut
  BY <1>8 DEF ReadOut, Poll, Reaped
<1>9. CASE CheckStep
  BY <1>9 DEF CheckStep, Blocked, Answered, AnswerRaises, NextCommand, Persist, Quiet
<1>10. QED
  BY <1>1, <1>2, <1>3, <1>4, <1>5, <1>6, <1>7, <1>8, <1>9, <1>11, <1>12
     DEF SubscriptionNext, MainStep, BoundedStep

\* When a command has returned no process of its group runs on.
THEOREM SurvivorsTheorem == SubscriptionSpec => []NoSurvivors
<1>1. GroupInv => NoSurvivors
  BY DEF GroupInv, Gone, NoSurvivors
<1>2. QED
  BY <1>1, GroupBegin, GroupSteps, PTL DEF SubscriptionSpec

-----------------------------------------------------------------------------
(* The subscription check: what was read of the output.                    *)

\* The reader has read what it says, and nobody writes once it met the end.
PumpInv ==
  /\ written \in Nat /\ read \in Nat /\ read <= written
  /\ pump \in {"reading", "overflow", "ended"}
  /\ truncated <=> pump = "overflow"
  /\ ~truncated => read <= Limit
  /\ pump = "ended" => read = written /\ ~PipeOpen
  /\ at = "returned" /\ ~result.cut => result.complete \/ result.open

LEMMA PumpSteps ==
  ASSUME GroupInv, PumpInv, [SubscriptionNext]_subscriptionVars
  PROVE  PumpInv'
<1> USE Bounds DEF PumpInv, PipeOpen
<1>1. CASE UNCHANGED subscriptionVars
  BY <1>1 DEF subscriptionVars, processVars, readVars
<1>2. CASE CheckBegins
  BY <1>2 DEF CheckBegins, processVars, readVars
<1>3. CASE ProcessStep
  BY <1>3 DEF ProcessStep, Write, Exit, Spawn, HelperEnds, readVars
<1>4. CASE Pump
  <2> DEFINE n == Least(written - read, Block)
  <2>1. /\ n \in Nat /\ read + n <= written
        /\ n = 0 => read = written
    BY <1>4 DEF Pump, Least
  <2>2. n = Block \/ ~PipeOpen
    BY <1>4 DEF Pump
  <2>3. /\ read' = read + n /\ (truncated' <=> read + n > Limit)
        /\ pump' = IF read + n > Limit THEN "overflow" ELSE IF n = 0 THEN "ended" ELSE "reading"
        /\ UNCHANGED <<at, processVars, result>>
    BY <1>4 DEF Pump, Overflows
  <2> HIDE DEF n
  <2>4. CASE read + n > Limit
    BY <2>1, <2>3, <2>4 DEF processVars
  <2>5. CASE ~(read + n > Limit)
    BY <2>1, <2>2, <2>3, <2>5 DEF processVars
  <2>6. QED
    BY <2>4, <2>5
<1>5. CASE Exited /\ UNCHANGED <<readVars, result, checkVars>>
  BY <1>5 DEF Exited, Poll, Reaped, readVars
<1>11. CASE Breach /\ UNCHANGED <<readVars, result, checkVars>>
  BY <1>11 DEF Breach, Terminate, processVars, readVars
<1>12. CASE Join /\ UNCHANGED <<readVars, result, checkVars>>
  BY <1>12 DEF Join, Terminate, processVars, readVars
<1>6. CASE Signal /\ UNCHANGED <<readVars, result, checkVars>>
  <2>1. (~PipeOpen => ~PipeOpen') /\ UNCHANGED written
    BY <1>6 DEF Signal, Sent, GroupAlive, Reaped, Doomed
  <2>2. at' # "returned"
    BY <1>6 DEF Signal, Terminated, GroupInv
  <2>3. QED
    BY <1>6, <2>1, <2>2 DEF readVars
<1>7. CASE GraceEnds /\ UNCHANGED <<readVars, result, checkVars>>
  <2>1. (~PipeOpen => ~PipeOpen') /\ UNCHANGED written
    BY <1>7 DEF GraceEnds, Poll, Reaped
  <2>2. at' # "returned"
    BY <1>7 DEF GraceEnds, Terminated, GroupInv
  <2>3. QED
    BY <1>7, <2>1, <2>2 DEF readVars
<1>8. CASE ReadOut
  <2>1. (~PipeOpen => ~PipeOpen') /\ UNCHANGED <<written, readVars>>
    BY <1>8 DEF ReadOut, Poll, Reaped
  <2>2. (result'.cut <=> truncated) /\ (result'.complete <=> Complete) /\ (result'.open <=> pump = "reading")
    <3>1. PICK s : result' = [code |-> IF Reaped = "reaped" THEN code ELSE "none", says |-> s,
                              complete |-> Complete, cut |-> truncated, late |-> timed_out,
                              open |-> pump = "reading"]
      BY <1>8 DEF ReadOut
    <3>2. /\ result'.cut = truncated /\ result'.complete = Complete
          /\ result'.open = (pump = "reading")
      BY ONLY <3>1
    <3>3. QED
      BY ONLY <3>2
  <2>3. pump = "ended" => Complete
    BY DEF Complete, Least
  <2>4. ~result'.cut => result'.complete \/ result'.open
    BY <2>2, <2>3
  <2>5. QED
    BY <2>1, <2>4 DEF readVars
<1>9. CASE CheckStep
  BY <1>9 DEF CheckStep, Blocked, Answered, AnswerRaises, NextCommand, Persist, Quiet,
              Launch, processVars, readVars
<1>10. QED
  BY <1>1, <1>2, <1>3, <1>4, <1>5, <1>6, <1>7, <1>8, <1>9, <1>11, <1>12
     DEF SubscriptionNext, MainStep, BoundedStep

\* Output that was not cut is all of it, unless the pipe was still held open.
THEOREM CleanTheorem == SubscriptionSpec => []CleanIsComplete
<1>1. SubscriptionInit => PumpInv
  BY Bounds DEF SubscriptionInit, Fresh, PumpInv
<1>2. PumpInv => CleanIsComplete
  BY DEF PumpInv, CleanIsComplete
<1>3. QED
  BY <1>1, <1>2, GroupBegin, GroupSteps, PumpSteps, PTL DEF SubscriptionSpec

-----------------------------------------------------------------------------
(* The subscription check: what a pass stands for.                         *)

LEMMA CommandNames ==
  /\ Commands[1] = "version" /\ Commands[2] = "login" /\ Commands[3] = "features"
  /\ Commands[5] = "prompt"
  /\ \A i \in 1..6 : (Commands[i] = "exec" <=> i = 6) /\ (Commands[i] = "mcp" <=> i = 4)
BY DEF Commands

\* The commands come in their order, each deciding one having passed, and only
\* the last one calls the model.
OrderInv ==
  /\ step \in 1..6
  /\ called \in {0, 1}
  /\ called = 1 => step = 6
  /\ step = 6 /\ at # "ended" => called = 1
  /\ \A i \in 1..6 : i < step /\ i # 4 => Commands[i] \in passed

\* What the result says of a command is still so when it is evaluated, and
\* nothing happens to a command after the check's end.
ResultInv ==
  /\ at = "returned" =>
       /\ pump = "reading" => result.open
       /\ truncated => result.cut \/ result.open
       /\ timed_out => result.late
       /\ result.code = "zero" => leader = "reaped" /\ code = "zero"
  /\ status = "passed" =>
       /\ at = "ended" /\ called = 1 /\ leader = "reaped" /\ code = "zero" /\ ~timed_out
       /\ truncated => result.open

EarnedInv == OrderInv /\ ResultInv

LEMMA OrderSteps ==
  ASSUME OrderInv, [SubscriptionNext]_subscriptionVars
  PROVE  OrderInv'
<1>1. CASE UNCHANGED <<step, called, passed>> /\ (at = "ended" => at' = "ended")
  BY <1>1 DEF OrderInv
<1>2. CASE UNCHANGED subscriptionVars \/ CheckBegins \/ ProcessStep \/ Pump \/ BoundedStep \/ ReadOut
  <2>1. UNCHANGED <<step, called, passed>>
    BY <1>2 DEF subscriptionVars, CheckBegins, ProcessStep, Pump, BoundedStep, ReadOut, checkVars
  <2>2. at = "ended" => at' = "ended"
    BY <1>2 DEF subscriptionVars, CheckBegins, ProcessStep, Pump, BoundedStep, ReadOut, Exited,
                Breach, Signal, GraceEnds, Join
  <2>3. QED
    BY <1>1, <2>1, <2>2
<1>3. CASE Blocked \/ Answered \/ AnswerRaises
  BY <1>1, <1>3 DEF Blocked, Answered, AnswerRaises, Persist, checkVars
<1>4. CASE NextCommand
  <2>1. /\ at = "returned" /\ step \in 1..5 /\ step' = step + 1
        /\ called = 0
    BY <1>4, CommandNames DEF NextCommand, Command, OrderInv
  <2>2. \/ at' = "ended" /\ called' = 0
        \/ called' = IF step' = 6 THEN 1 ELSE 0
    BY <1>4, <2>1, CommandNames DEF NextCommand
  <2>3. passed \subseteq passed' /\ (step # 4 => Commands[step] \in passed')
    BY <1>4, <2>1, CommandNames DEF NextCommand, Verified, Command
  <2>4. \A i \in 1..6 : i < step' /\ i # 4 => Commands[i] \in passed'
    BY <2>1, <2>3 DEF OrderInv
  <2>5. QED
    BY <2>1, <2>2, <2>4 DEF OrderInv
<1>5. QED
  BY <1>2, <1>3, <1>4 DEF SubscriptionNext, MainStep, CheckStep

LEMMA ResultSteps ==
  ASSUME OrderInv, GroupInv, ResultInv, [SubscriptionNext]_subscriptionVars
  PROVE  ResultInv'
<1> USE DEF ResultInv
<1>1. CASE UNCHANGED subscriptionVars
  BY <1>1 DEF subscriptionVars, processVars, readVars, checkVars
<1>2. CASE CheckBegins
  BY <1>2 DEF CheckBegins, checkVars
<1>3. CASE ProcessStep
  BY <1>3 DEF ProcessStep, Write, Exit, Spawn, HelperEnds, readVars, checkVars
<1>4. CASE Pump
  BY <1>4 DEF Pump, Overflows, processVars, checkVars
<1>5. CASE BoundedStep
  <2>1. at # "ended" /\ at' # "returned" /\ UNCHANGED status
    BY <1>5 DEF BoundedStep, Exited, Breach, Signal, GraceEnds, Join, Terminate, Terminated,
                GroupInv, checkVars
  <2>2. QED
    BY <2>1
<1>6. CASE ReadOut
  <2>1. PICK s : result' = [code |-> IF Reaped = "reaped" THEN code ELSE "none", says |-> s,
                            complete |-> Complete, cut |-> truncated, late |-> timed_out,
                            open |-> pump = "reading"]
    BY <1>6 DEF ReadOut
  <2>2. /\ result'.cut = truncated /\ result'.late = timed_out
        /\ result'.open = (pump = "reading")
    BY ONLY <2>1
  <2>3. result'.code = IF Reaped = "reaped" THEN code ELSE "none"
    BY ONLY <2>1
  <2>4. /\ at = "reading out" /\ leader' = Reaped /\ code' = code
        /\ UNCHANGED <<pump, truncated, timed_out, status>>
    BY <1>6 DEF ReadOut, Poll, readVars, checkVars
  <2>5. /\ pump' = "reading" => result'.open
        /\ truncated' => result'.cut \/ result'.open
        /\ timed_out' => result'.late
    BY ONLY <2>2, <2>4
  <2>6. result'.code = "zero" => leader' = "reaped" /\ code' = "zero"
    BY ONLY <2>3, <2>4
  <2>7. QED
    BY <2>4, <2>5, <2>6
<1>7. CASE Blocked
  BY <1>7 DEF Blocked, Persist
<1>8. CASE Answered
  <2>1. /\ at = "returned" /\ Commands[step] = "exec" /\ at' = "ended"
        /\ UNCHANGED <<called, leader, code, timed_out, truncated, result>>
    BY <1>8 DEF Answered, Command, Persist, Quiet, processVars, readVars
  <2>2. called = 1
    BY <2>1, CommandNames DEF OrderInv
  <2>3. status' = "passed" => Evaluated
    BY <1>8 DEF Answered, Persist
  <2>4. QED
    BY <2>1, <2>2, <2>3 DEF Evaluated
<1>9. CASE AnswerRaises \/ NextCommand
  BY <1>9 DEF AnswerRaises, NextCommand, Quiet, checkVars
<1>10. QED
  BY <1>1, <1>2, <1>3, <1>4, <1>5, <1>6, <1>7, <1>8, <1>9
     DEF SubscriptionNext, MainStep, CheckStep

\* A check passes only as the whole of its preflight and one model call earned it.
THEOREM EarnedTheorem == SubscriptionSpec => []PassedIsEarned
<1>1. SubscriptionInit => EarnedInv
  BY CommandNames DEF SubscriptionInit, EarnedInv, OrderInv, ResultInv
<1>2. EarnedInv => PassedIsEarned
  BY CommandNames DEF EarnedInv, OrderInv, ResultInv, PassedIsEarned
<1>3. EarnedInv /\ GroupInv /\ [SubscriptionNext]_subscriptionVars => EarnedInv'
  BY OrderSteps, ResultSteps DEF EarnedInv
<1>4. QED
  BY <1>1, <1>2, <1>3, GroupBegin, GroupSteps, PTL DEF SubscriptionSpec
=============================================================================
