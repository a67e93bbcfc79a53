----------------------------- MODULE Collectors -----------------------------
(***************************************************************************)
(* A trial's telemetry collector: the engine stream and its reader thread  *)
(* (StatsStream, evalnoise/endpoint.py), or the snapshot sampler and its   *)
(* thread (CliSampler, evalnoise/runner.py), which trial closes before it  *)
(* removes the container.                                                  *)
(*                                                                         *)
(* Abstracted: a sample is counted, not stored; a chunk is one unit of     *)
(* bytes and completes up to MaxFrames records; time (a join or a socket   *)
(* may time out at any moment).  Every step another thread can come        *)
(* between is an action of its own.                                        *)
(***************************************************************************)
EXTENDS Integers

CONSTANTS
  MaxSamples,   \* max_samples, MAX_SNAPSHOT_SAMPLES
  MaxErrors,    \* MAX_SNAPSHOT_ERRORS
  MaxBytes,     \* max_total_bytes, in chunks
  MaxFrames     \* the records one chunk may complete

ASSUME CollectorsAssumption == {MaxSamples, MaxErrors, MaxBytes, MaxFrames} \subseteq Nat \ {0}

VARIABLES
  kind,         \* the collector of the trial: "stream" or "sampler"
  closer,       \* where close() is, in the trial's thread
  reader,       \* where the collector's thread is
  sock,         \* the stream's connection, as a shutdown finds it
  frames,       \* complete records of the chunk still to be recorded
  bytes,        \* bytes_read
  buffer,       \* samples and errors held, samples_received, truncated
  stop,         \* the collector's stop event
  detached,     \* the sampler's _detached
  report        \* what close() returns

collectorVars ==
  <<kind, closer, reader, sock, frames, bytes, buffer, stop, detached, report>>

Empty == [samples |-> 0, errors |-> 0, received |-> 0, truncated |-> FALSE]

CollectorsInit ==
  /\ kind \in {"stream", "sampler"}
  /\ closer = "measuring"
  /\ reader = IF kind = "stream" THEN "opening" ELSE "looping"
  /\ sock = "none" /\ frames = 0 /\ bytes = 0
  /\ buffer = Empty
  /\ stop = FALSE /\ detached = FALSE
  /\ report = [leaked |-> FALSE, held |-> Empty]

Alive == reader # "ended"

Goes(from, to) == reader = from /\ reader' = to

Errs == buffer' = [buffer EXCEPT !.errors = @ + 1]

\* Mutant of Stopped: the loops never look at the event.
StoppedUnseen == FALSE

Stopped == stop

-----------------------------------------------------------------------------
(* The stream's reader.                                                    *)

\* _open: the connection is published, or the stream was closed before.
Open ==
  /\ \/ stop /\ Goes("opening", "finishing") /\ UNCHANGED sock
     \/ ~stop /\ Goes("opening", "connecting") /\ sock' = "unconnected"
  /\ UNCHANGED <<frames, bytes, buffer>>

Connect ==
  /\ \/ Goes("connecting", "requesting") /\ sock' = "open"
     \/ Goes("connecting", "failing") /\ UNCHANGED sock
  /\ UNCHANGED <<frames, bytes, buffer>>

\* A response, which may have been buffered before a shutdown.  One that will
\* close takes the socket with it, where no shutdown finds it; another status
\* ends the stream with an error, stopped or not.
Respond ==
  /\ \/ Goes("requesting", "looping") /\ sock' \in {sock, "taken"} /\ UNCHANGED buffer
     \/ Goes("requesting", "finishing") /\ Errs /\ UNCHANGED sock
     \/ Goes("requesting", "failing") /\ UNCHANGED <<sock, buffer>>
  /\ UNCHANGED <<frames, bytes>>

LoopStream ==
  /\ Goes("looping", IF Stopped THEN "finishing" ELSE "reading")
  /\ UNCHANGED <<sock, frames, bytes, buffer>>

\* read1: a chunk, which may have been buffered before a shutdown ...
ReadChunk ==
  /\ Goes("reading", IF bytes < MaxBytes THEN "parsing" ELSE "finishing")
  /\ bytes' = bytes + 1
  /\ IF bytes < MaxBytes
     THEN frames' \in 0..MaxFrames /\ UNCHANGED buffer
     ELSE buffer' = [buffer EXCEPT !.truncated = TRUE] /\ UNCHANGED frames
  /\ UNCHANGED sock

\* ... the end, between two records or inside one; or an exception.
ReadEnds ==
  /\ \/ Goes("reading", "finishing") /\ (Errs \/ UNCHANGED buffer)
     \/ Goes("reading", "failing") /\ UNCHANGED buffer
  /\ UNCHANGED <<sock, frames, bytes>>

\* A complete record is counted before it is looked at; what is left of the
\* chunk waits for the next one; a record over the frame bound ends the stream.
Parse ==
  /\ \/ frames > 0 /\ Goes("parsing", "recording")
        /\ buffer' = [buffer EXCEPT !.received = @ + 1]
     \/ frames = 0 /\ Goes("parsing", "looping") /\ UNCHANGED buffer
     \/ Goes("parsing", "finishing")
        /\ buffer' = [buffer EXCEPT !.errors = @ + 1, !.truncated = TRUE]
  /\ UNCHANGED <<sock, frames, bytes>>

\* _record: over the bound; or not an object, dropped by the interval, or kept.
Record ==
  /\ \/ buffer.samples >= MaxSamples /\ Goes("recording", "finishing")
        /\ buffer' = [buffer EXCEPT !.truncated = TRUE]
     \/ buffer.samples < MaxSamples /\ Goes("recording", "parsing")
        /\ (Errs \/ UNCHANGED buffer \/ buffer' = [buffer EXCEPT !.samples = @ + 1])
  /\ frames' = frames - 1
  /\ UNCHANGED <<sock, bytes>>

\* An exception is an error unless the stream is being closed; the event may
\* be set between the look at it and the error.
Fail ==
  /\ \/ Goes("failing", IF stop THEN "finishing" ELSE "noting") /\ UNCHANGED buffer
     \/ Goes("noting", "finishing") /\ Errs
  /\ UNCHANGED <<sock, frames, bytes>>

Finish == Goes("finishing", "ended") /\ sock' = "none" /\ UNCHANGED <<frames, bytes, buffer>>

StreamStep ==
  /\ kind = "stream"
  /\ \/ Open \/ Connect \/ Respond \/ LoopStream \/ ReadChunk \/ ReadEnds
     \/ Parse \/ Record \/ Fail \/ Finish

-----------------------------------------------------------------------------
(* The sampler's thread.                                                   *)

LoopSampler == Goes("looping", IF Stopped THEN "ended" ELSE "collecting") /\ UNCHANGED buffer

\* docker stats answers or fails, within its own time-out.
Collect ==
  /\ \/ Goes("collecting", "recording")
     \/ Goes("collecting", IF stop THEN "waiting" ELSE "noting")
  /\ UNCHANGED buffer

\* Mutant of Recording: the sampler records although it was detached.
RecordingAnyway(b) == buffer' = b

\* In the critical section: nothing is recorded once the sampler is detached.
Recording(b) == buffer' = IF detached THEN buffer ELSE b

\* The model's count of received samples saturates one over the bound.
RecordSnapshot ==
  /\ Goes("recording", "waiting")
  /\ Recording(IF buffer.samples < MaxSamples
               THEN [buffer EXCEPT !.received = @ + 1, !.samples = @ + 1]
               ELSE [buffer EXCEPT !.received = MaxSamples + 1, !.truncated = TRUE])

\* The last error within the bound brings the note about the bound with it.
NoteFault ==
  /\ Goes("noting", "waiting")
  /\ Recording(IF buffer.errors >= MaxErrors THEN buffer
               ELSE [buffer EXCEPT !.errors = IF @ = MaxErrors - 1 THEN MaxErrors + 1 ELSE @ + 1])

Sleep == Goes("waiting", "looping") /\ UNCHANGED buffer

SamplerStep ==
  /\ kind = "sampler"
  /\ LoopSampler \/ Collect \/ RecordSnapshot \/ NoteFault \/ Sleep
  /\ UNCHANGED <<sock, frames, bytes>>

-----------------------------------------------------------------------------
(* close(), in the trial's thread.                                         *)

Closes(from, to) == closer = from /\ closer' = to

Shuts == sock' = IF sock = "open" THEN "shut" ELSE sock

\* The trial has ended, one way or another, and closes its collector.
CloseBegins ==
  /\ Closes("measuring", IF kind = "stream" THEN "shutting" ELSE "joining")
  /\ stop' = TRUE
  /\ UNCHANGED <<sock, buffer, detached, report>>

\* Before every short join: the reader may have connected since the last one.
Shutdown == Closes("shutting", "joining") /\ Shuts /\ UNCHANGED <<buffer, stop, detached, report>>

\* A short join of a live reader, before the deadline.
JoinAgain ==
  /\ kind = "stream" /\ Alive
  /\ Closes("joining", "shutting")
  /\ UNCHANGED <<sock, buffer, stop, detached, report>>

\* The thread is over, or the deadline; the stream is shut down once more.
JoinEnds ==
  /\ Closes("joining", "checking")
  /\ IF kind = "stream" THEN Shuts ELSE UNCHANGED sock
  /\ UNCHANGED <<buffer, stop, detached, report>>

\* A leak is an error of the stream; the sampler's report gets its own.
Check ==
  /\ Closes("checking", IF kind = "stream" THEN "copying" ELSE "detaching")
  /\ report' = [report EXCEPT !.leaked = Alive]
  /\ IF kind = "stream" /\ Alive THEN Errs ELSE UNCHANGED buffer
  /\ UNCHANGED <<sock, stop, detached>>

\* The sampler is detached and copied in one critical section.
Detach ==
  /\ Closes("detaching", "closed")
  /\ detached' = TRUE
  /\ report' = [report EXCEPT !.held = buffer]
  /\ UNCHANGED <<sock, buffer, stop>>

\* result(), without a lock: the lists are copied, and then the counts.
Copy ==
  /\ \/ /\ Closes("copying", "counting")
        /\ report' = [report EXCEPT !.held.samples = buffer.samples, !.held.errors = buffer.errors]
     \/ /\ Closes("counting", "closed")
        /\ report' = [report EXCEPT !.held.received = buffer.received,
                                    !.held.truncated = buffer.truncated]
  /\ UNCHANGED <<sock, buffer, stop, detached>>

CloserStep ==
  CloseBegins \/ Shutdown \/ JoinAgain \/ JoinEnds \/ Check \/ Detach \/ Copy

-----------------------------------------------------------------------------
ReaderStep == (StreamStep \/ SamplerStep) /\ UNCHANGED <<kind, closer, stop, detached, report>>

CollectorsNext ==
  ReaderStep \/ (CloserStep /\ UNCHANGED <<kind, reader, frames, bytes>>)

CollectorsSpec == CollectorsInit /\ [][CollectorsNext]_collectorVars

-----------------------------------------------------------------------------
(* Properties.                                                             *)

\* What a trial reports of its telemetry stands: the counts it reports fit the
\* samples it reports even if the thread runs on between the copies, the
\* sampler's buffers never change again, leaked or not, and a stream that does
\* not own up to a leak has ended and holds no connection that could block the
\* removal of the container (CliSampler, StatsStream.close).
ReportStands ==
  closer = "closed" =>
    /\ report.held.samples <= report.held.received
    /\ kind = "sampler" \/ ~report.leaked => report.held = buffer
    /\ ~report.leaked => reader = "ended" /\ sock = "none"

\* close returns and the thread ends after it, wherever close found the
\* thread: about to open its connection, waiting for a response, or asleep.
CollectorEnds == stop ~> closer = "closed" /\ reader = "ended"
=============================================================================
