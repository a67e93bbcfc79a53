------------------------------- MODULE Replay -------------------------------
(***************************************************************************)
(* The recorded provider (RecordedProvider.complete, evalnoise/provider.py)*)
(* as it answers the calls AgentBudget admits: what a call of a trial may  *)
(* come to is not any number of attempts but what a cassette's entry says. *)
(*                                                                         *)
(* Abstracted: requests, responses and their usage; an entry is how many   *)
(* failed attempts it records and whether a response comes after them.     *)
(***************************************************************************)
EXTENDS AgentBudget

CONSTANT MaxRecorded   \* MAX_RECORDED_ATTEMPTS

ASSUME ReplayAssumption == MaxRecorded \in Nat

\* _entry: a response, failed attempts, or both.
Entries ==
  {e \in [failed : 0..MaxRecorded, answers : BOOLEAN] : e.failed > 0 \/ e.answers}

\* The recorded failures that are replayed before the limit ends it.
Replayed(e, max) == IF e.failed < max THEN e.failed ELSE max

\* Mutant of Answers: failures may use the limit up.
AnswersAtLimit(e, max) == e.answers /\ e.failed <= max

\* The response takes an attempt of its own.
Answers(e, max) == e.answers /\ e.failed < max

\* The attempts that complete reports, with its answer or with the exception.
AttemptsOf(e, max) == Replayed(e, max) + IF Answers(e, max) THEN 1 ELSE 0

\* Of the steps AgentBudget lets a call in flight take, the one that replays e:
\* an exhausted call reports the attempts it made, and one that is not recorded
\* (UNRECORDED) made none.
Replays(t, e) ==
  IF Answers(e, MaxAttempts[t])
  THEN \E i \in Prompts, o \in Completions : CallReturns(t, i, o, AttemptsOf(e, MaxAttempts[t]))
  ELSE CallFails(t, AttemptsOf(e, MaxAttempts[t]))

\* A call that is replayed never uses more attempts than it has reserved, and
\* is always one that the agent loop has a settlement for: an answer within
\* 1..max_attempts, or a failure that made at least one attempt and is
\* reported as exhausted, never as a request that is not recorded.
ReplayWithinReservation ==
  \A t \in Trials, e \in Entries :
    at[t] = "calling" =>
      LET a == AttemptsOf(e, MaxAttempts[t])
      IN  /\ a \in 1..MaxAttempts[t] /\ a <= reservation[t]["attempts"]
          /\ ~Overran(t, Amounts(0, 0, a))
          /\ Answers(e, MaxAttempts[t]) => a = e.failed + 1
=============================================================================
