-------------------------- MODULE SubscriptionCheck --------------------------
(***************************************************************************)
(* The subscription smoke check (evalnoise/subscription.py): the preflight *)
(* commands and the one model call, each run by run_bounded with its pump  *)
(* thread, its deadline and the termination of its process group.          *)
(*                                                                         *)
(* Abstracted: of the two pipes, which differ in their caps only, one is   *)
(* modelled; output is counted in units and says, as a whole, what the     *)
(* command is asked to say or something else, and a part of it may read as *)
(* either; time (a deadline may pass at any moment).  The command may have *)
(* one helper in its group and one process that left it, each of which     *)
(* holds the pipe open.  Signals are allowed, and group ids are not reused.*)
(***************************************************************************)
EXTENDS Integers

CONSTANTS
  Limit,        \* the sink's cap
  Block,        \* what stream.read(8192) returns unless the pipe ends
  MaxOutput     \* bound on what a command writes

ASSUME CheckAssumption == {Limit, Block, MaxOutput} \subseteq Nat \ {0}

VARIABLES
  step,         \* the command in flight, a position of Commands
  at,           \* where run_bounded is, or check when no command is in flight
  term,         \* the termination under way: the next signal, and what follows it
  leader,       \* the command's process: running, doomed, a zombie, reaped
  code,         \* its exit status: "zero", "other" or "signal"
  helper,       \* the helper in its group: none, running, doomed, dead
  stray,        \* a process outside of the group holds the pipe
  written,      \* what the command wrote
  whole,        \* whether all of it says what it should
  read,         \* what the reader thread took from the pipe
  pump,         \* the reader thread: "reading", "overflow" or "ended"
  truncated,    \* sink.truncated
  timed_out,
  result,       \* the Execution
  passed,       \* the steps whose checks passed
  called,       \* how many times the model was called
  status        \* of the artifact; "none" until it is written

processVars == <<leader, code, helper, stray, written, whole>>

readVars == <<read, pump, truncated>>

checkVars == <<step, passed, called, status>>

subscriptionVars == <<at, term, processVars, readVars, timed_out, result, checkVars>>

\* In the order of preflight and check; what "mcp list" says decides nothing.
Commands == <<"version", "login", "features", "mcp", "prompt", "exec">>

NoTerm == [signal |-> "none", then |-> "none"]

NoResult == [code |-> "none", says |-> FALSE, complete |-> FALSE, cut |-> FALSE,
             late |-> FALSE, open |-> FALSE]

Fresh ==
  /\ leader = "running" /\ code = "none" /\ helper = "none" /\ stray = FALSE
  /\ written = 0 /\ whole \in BOOLEAN
  /\ read = 0 /\ pump = "reading" /\ truncated = FALSE
  /\ timed_out = FALSE

Launch ==
  /\ leader' = "running" /\ code' = "none" /\ helper' = "none" /\ stray' = FALSE
  /\ written' = 0 /\ whole' \in BOOLEAN
  /\ read' = 0 /\ pump' = "reading" /\ truncated' = FALSE
  /\ timed_out' = FALSE

SubscriptionInit ==
  /\ step = 1 /\ at = "idle" /\ term = NoTerm /\ Fresh
  /\ result = NoResult /\ passed = {} /\ called = 0 /\ status = "none"

-----------------------------------------------------------------------------
(* The command and what it leaves behind.                                  *)

PipeOpen == leader \in {"running", "doomed"} \/ helper \in {"running", "doomed"} \/ stray

Write ==
  /\ leader = "running" /\ written < MaxOutput
  /\ written' = written + 1
  /\ UNCHANGED <<leader, code, helper, stray, whole>>

\* It exits by itself, also when it is told to terminate; or it is killed.
Exit ==
  /\ \/ leader = "running" /\ code' \in {"zero", "other", "signal"}
     \/ leader = "doomed" /\ code' = "signal"
  /\ leader' = "zombie"
  /\ UNCHANGED <<helper, stray, written, whole>>

\* A helper may outlive its command, and need not heed SIGTERM.
Spawn ==
  /\ leader = "running"
  /\ \/ helper = "none" /\ helper' = "running" /\ UNCHANGED stray
     \/ ~stray /\ stray' = TRUE /\ UNCHANGED helper
  /\ UNCHANGED <<leader, code, written, whole>>

HelperEnds ==
  /\ \/ helper \in {"running", "doomed"} /\ helper' = "dead" /\ UNCHANGED stray
     \/ stray /\ stray' = FALSE /\ UNCHANGED helper
  /\ UNCHANGED <<leader, code, written, whole>>

ProcessStep ==
  /\ at \notin {"idle", "ended"}
  /\ Write \/ Exit \/ Spawn \/ HelperEnds
  /\ UNCHANGED <<at, term, readVars, timed_out, result, checkVars>>

-----------------------------------------------------------------------------
(* pump: _Sink.feed and the end of the pipe.                               *)

Least(m, n) == IF m < n THEN m ELSE n

\* Mutant of Overflows: one unit more than there is room for goes unnoticed.
OverflowsByTwo(n) == read + n > Limit + 1

\* feed is given more than the sink has room for.
Overflows(n) == read + n > Limit

\* A full block, or what there is when nobody holds the pipe any more; after
\* an overflow nothing more is read.
Pump ==
  /\ pump = "reading" /\ at \notin {"idle", "ended"}
  /\ LET n == Least(written - read, Block)
     IN  /\ n = Block \/ ~PipeOpen
         /\ read' = read + n
         /\ truncated' = Overflows(n)
         /\ pump' = IF Overflows(n) THEN "overflow" ELSE IF n = 0 THEN "ended" ELSE "reading"
  /\ UNCHANGED <<at, term, processVars, timed_out, result, checkVars>>

-----------------------------------------------------------------------------
(* run_bounded and _terminate_group.                                       *)

Reaped == IF leader = "zombie" THEN "reaped" ELSE leader

\* A zombie leader counts as alive until it is reaped, a helper's zombie does not.
GroupAlive == leader \in {"running", "doomed"} \/ helper \in {"running", "doomed"}

\* A termination starts with SIGTERM and leads to then.
Terminate(then) == at' = "signalling" /\ term' = [signal |-> "TERM", then |-> then]

Terminated == at' = term.then /\ term' = NoTerm

Poll == leader' = Reaped /\ UNCHANGED <<code, helper, stray, written, whole>>

Exited ==
  /\ at = "watching" /\ leader = "zombie"
  /\ Poll
  /\ at' = "joining"
  /\ UNCHANGED <<term, timed_out>>

Breach ==
  /\ at = "watching" /\ leader # "zombie"
  /\ Terminate("joining")
  /\ \/ pump = "overflow" /\ UNCHANGED timed_out
     \/ pump # "overflow" /\ timed_out' = TRUE
  /\ UNCHANGED processVars

Doomed(p) == IF p = "running" THEN "doomed" ELSE p

\* Mutant of Sent: nothing stronger than SIGTERM is ever sent.
SentMildly(s) == leader' = Reaped /\ UNCHANGED helper

\* SIGTERM is up to the processes; SIGKILL is carried out, sooner or later.
Sent(s) ==
  IF s = "TERM" THEN leader' = Reaped /\ UNCHANGED helper
                ELSE leader' = Doomed(Reaped) /\ helper' = Doomed(helper)

\* Reap, probe the group, and signal it if anything of it lives.
Signal ==
  /\ at = "signalling"
  /\ IF GroupAlive
     THEN Sent(term.signal) /\ at' = "grace" /\ UNCHANGED term
     ELSE leader' = Reaped /\ UNCHANGED helper /\ Terminated
  /\ UNCHANGED <<code, stray, written, whole, timed_out>>

\* Mutant of GraceEnds: the grace has no deadline.
GraceEndsWhenGone ==
  /\ at = "grace"
  /\ Poll
  /\ ~GroupAlive /\ Terminated
  /\ UNCHANGED timed_out

\* The group is gone, or the grace is over and the next signal is due, if any.
GraceEnds ==
  /\ at = "grace"
  /\ Poll
  /\ \/ (~GroupAlive \/ term.signal = "KILL") /\ Terminated
     \/ term.signal = "TERM" /\ at' = "signalling" /\ term' = [term EXCEPT !.signal = "KILL"]
  /\ UNCHANGED timed_out

\* The reader is over, or the join is.
Join ==
  /\ at = "joining"
  /\ Terminate("reading out")
  /\ UNCHANGED <<processVars, timed_out>>

BoundedStep ==
  /\ Exited \/ Breach \/ Signal \/ GraceEnds \/ Join
  /\ UNCHANGED <<readVars, result, checkVars>>

\* The sink holds all that was written.
Complete == Least(read, Limit) = written

\* The last poll and what the sink holds; the pump may still be reading.
ReadOut ==
  /\ at = "reading out"
  /\ at' = "returned"
  /\ Poll
  /\ \E s \in IF Complete THEN {whole} ELSE BOOLEAN :
       result' = [code |-> IF Reaped = "reaped" THEN code ELSE "none", says |-> s,
                  complete |-> Complete, cut |-> truncated, late |-> timed_out,
                  open |-> pump = "reading"]
  /\ UNCHANGED <<term, readVars, timed_out, checkVars>>

-----------------------------------------------------------------------------
(* preflight, evaluate and check.                                          *)

Command == Commands[step]

\* preflight looks at the exit status and the output, not at how it ended.
Verified == Command = "mcp" \/ (result.code = "zero" /\ result.says)

\* Mutant of Evaluated: the deadline is not looked at.
EvaluatedLate == ~result.cut /\ result.says /\ result.code = "zero"

Evaluated == ~result.late /\ ~result.cut /\ result.says /\ result.code = "zero"

Quiet == UNCHANGED <<term, processVars, readVars, timed_out, result>>

\* The artifact: blocked by the preflight, or what the model call came to.
Persist(s) ==
  /\ at' = "ended" /\ status' = s
  /\ Quiet /\ UNCHANGED <<step, passed, called>>

Blocked == at = "returned" /\ Command # "exec" /\ ~Verified /\ Persist("blocked")

Answered ==
  at = "returned" /\ Command = "exec" /\ Persist(IF Evaluated THEN "passed" ELSE "failed")

\* The one answer is JSON but no object, and has no get: nothing catches what that raises.
AnswerRaises ==
  /\ at = "returned" /\ Command = "exec"
  /\ result.code = "zero" /\ ~result.late /\ ~result.cut /\ ~result.says
  /\ at' = "ended" /\ Quiet
  /\ UNCHANGED checkVars

\* The next command; the executable may be gone, which ends it without an artifact.
NextCommand ==
  /\ at = "returned" /\ Command # "exec" /\ Verified
  /\ step' = step + 1
  /\ passed' = IF result.code = "zero" /\ result.says THEN passed \cup {Command} ELSE passed
  /\ \/ /\ at' = "watching" /\ Launch /\ result' = NoResult /\ UNCHANGED term
        /\ called' = IF Commands[step + 1] = "exec" THEN called + 1 ELSE called
     \/ at' = "ended" /\ Quiet /\ UNCHANGED called
  /\ UNCHANGED status

CheckStep == Blocked \/ Answered \/ AnswerRaises \/ NextCommand

MainStep == BoundedStep \/ ReadOut \/ CheckStep

\* The user confirms, the executable and a home are there, and version is asked.
CheckBegins ==
  /\ at = "idle" /\ at' = "watching"
  /\ UNCHANGED <<term, processVars, readVars, timed_out, result, checkVars>>

SubscriptionNext == CheckBegins \/ ProcessStep \/ Pump \/ MainStep

SubscriptionSpec == SubscriptionInit /\ [][SubscriptionNext]_subscriptionVars

-----------------------------------------------------------------------------
(* Properties.                                                             *)

\* When a command has returned, whatever it left in its process group is dead
\* or has been killed: a command that exited first, ignored SIGTERM, or timed
\* out strands no helper (_terminate_group).
NoSurvivors ==
  at = "returned" => leader # "running" /\ helper # "running"

\* Output that is not cut is all that the command wrote, at the cap and one byte
\* over it, whether it ended or was terminated; it can only be short when another
\* process still held the pipe as the join gave up.
CleanIsComplete ==
  at = "returned" /\ ~result.cut => result.complete \/ result.open

\* A check passes only if every deciding preflight command passed, the model was
\* called once, and that command ended by itself, within its deadline and its
\* cap (check, evaluate: no retries, no override).
PassedIsEarned ==
  /\ called <= 1
  /\ called = 1 => {"version", "login", "features", "prompt"} \subseteq passed
  /\ status = "passed" =>
       /\ called = 1 /\ leader = "reaped" /\ code = "zero" /\ ~timed_out
       /\ truncated => result.open

\* The check ends, whatever its commands do: every wait has a deadline.
CheckEnds == (at = "watching") ~> (at = "ended")
=============================================================================
