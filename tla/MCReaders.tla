----------------------------- MODULE MCReaders ------------------------------
(***************************************************************************)
(* The parts that read what other programs go on changing: the telemetry   *)
(* collector of a trial, the pump of a subscription check, and the         *)
(* endpoint that a context names.  No state is shared between them, so a   *)
(* behaviour is one of a single part; the others stay where they begin.    *)
(***************************************************************************)
EXTENDS Collectors, SubscriptionCheck, Endpoint

VARIABLE part   \* which of the three the behaviour is of

readerVars == <<collectorVars, subscriptionVars, endpointVars, part>>

\* The endpoint begins with two daemons and a selected context, which others can
\* change, and a cleanup with at most one of its variables set.  Where it stays as
\* it begins there is one world only.
MCWorld ==
  /\ daemon = [h \in Hosts |-> IF h = DefaultSocket THEN "A" ELSE "B"]
  /\ selected # "default"
  /\ \E v \in {"DOCKER_CONTEXT", "DOCKER_HOST"} : variables["cleanup"][v] = None
  /\ part # "endpoint" =>
       /\ \A n \in Names : context[n] = DefaultSocket
       /\ \A p \in Clients, v \in {"DOCKER_CONTEXT", "DOCKER_HOST"} : variables[p][v] = None
  /\ part # "collectors" => kind = "stream"

MCInit ==
  /\ part \in {"collectors", "check", "endpoint"}
  /\ CollectorsInit /\ SubscriptionInit /\ EndpointInit /\ MCWorld

OfCollectors(A) == part = "collectors" /\ A /\ UNCHANGED <<subscriptionVars, endpointVars, part>>

OfCheck(A) == part = "check" /\ A /\ UNCHANGED <<collectorVars, endpointVars, part>>

OfEndpoint(A) == part = "endpoint" /\ A /\ UNCHANGED <<collectorVars, subscriptionVars, part>>

MCNext == OfCollectors(CollectorsNext) \/ OfCheck(SubscriptionNext) \/ OfEndpoint(EndpointNext)

\* Sockets and docker stats have time-outs of their own, so a reader of
\* telemetry goes on; joins and graces are bounded, so the closing thread and
\* the check go on.  No step of a command or of its pump is taken for granted.
MCSpec ==
  /\ MCInit /\ [][MCNext]_readerVars
  /\ WF_readerVars(OfCollectors(ReaderStep))
  /\ WF_readerVars(OfCollectors(CloserStep /\ UNCHANGED <<kind, reader, frames, bytes>>))
  /\ WF_readerVars(OfCheck(MainStep))
=============================================================================
