--------------------------- MODULE EndpointProofs ----------------------------
(***************************************************************************)
(* Proofs about Endpoint, for any addresses, contexts and daemons and any  *)
(* number of changes others make.                                          *)
(***************************************************************************)
EXTENDS Endpoint, TLAPS

-----------------------------------------------------------------------------
(* The inductive invariant.                                                *)

EndpointTypes ==
  /\ daemon \in [Hosts -> Engines \cup {None}]
  /\ context \in [Names -> Hosts]
  /\ selected \in Names \cup {"default"}
  /\ variables \in [Clients -> Variables]
  /\ place \in [Clients -> ClientPlaces]
  /\ naming \in [Clients -> Named \cup {None}]
  /\ endpoint \in [Clients -> Endpoints \cup {None}]
  /\ replaced \in [Clients -> Nat]
  /\ \A p \in Clients : place[p] = "naming" => naming[p] \in Named

Early == {"start", "naming", "pinned"}

\* Who talks to an engine does so at an address that no context can move.
Pinned ==
  /\ \A p \in Clients :
       place[p] \in {"pinned", "admitted", "working", "ended", "killed"} =>
         endpoint[p] \in Endpoints /\ ~ByName(endpoint[p])
  /\ telemetry = "engine_stream" =>
       place["run"] \notin Early /\ endpoint["run"] \in Endpoints /\ endpoint["run"].host \in Local

\* While a client works, one replacement takes away the engine it looked at.
Watched(p) ==
  IF place[p] \in Early THEN replaced[p] = 0
  ELSE place[p] \in {"admitted", "working"} =>
         /\ replaced[p] = 0 => daemon[endpoint[p].host] = recorded
         /\ replaced[p] = 1 => daemon[endpoint[p].host] # recorded

RunSound ==
  /\ place["run"] \in Early => used = {}
  /\ place["run"] # "ended" => final = "none"
  /\ replaced["run"] = 0 => used \subseteq {recorded}
  /\ final = "stable" /\ replaced["run"] = 1 => used \subseteq {recorded}

CleanupSound ==
  /\ place["cleanup"] \notin {"working", "ended", "killed"} => removed = {}
  /\ place["cleanup"] \notin {"start", "raised"} => place["run"] \in {"working", "ended", "killed"}
  /\ replaced["cleanup"] = 0 => \A c \in removed : c.on = recorded

EndpointInv ==
  EndpointTypes /\ Pinned /\ (\A p \in Clients : Watched(p)) /\ RunSound /\ CleanupSound

LEMMA EndpointBegins == EndpointInit => EndpointInv
BY DEF EndpointInit, EndpointInv, EndpointTypes, Pinned, Watched, RunSound, CleanupSound,
       Clients, ClientPlaces, Early

\* An address that is pinned is the one that is reached.
LEMMA ReachesPinned ==
  ASSUME Pinned, NEW p \in Clients, place[p] \in {"pinned", "admitted", "working"}
  PROVE  Reached(p) = daemon[endpoint[p].host]
BY DEF Pinned, Reached

-----------------------------------------------------------------------------
(* Every step keeps it.                                                    *)

\* Resolution records nothing, and what it pins does not go by a name.
LEMMA ResolutionSound ==
  ASSUME EndpointInv, NEW p \in Clients, Resolve(p) \/ InspectContext(p)
  PROVE  EndpointInv'
<1> USE EndpointAssumption DEF EndpointInv, Clients, Early
<1>1. ASSUME NEW from \in Early, NEW e \in Endpoints, Pin(p, from, e),
             p = "cleanup" => place["run"] \in {"working", "ended", "killed"}
      PROVE  EndpointInv'
  <2>1. /\ place[p] = from /\ endpoint' = [endpoint EXCEPT ![p] = e]
        /\ place' = [place EXCEPT ![p] = IF MutableRemote(e) THEN "raised" ELSE "pinned"]
        /\ UNCHANGED <<daemon, context, selected, variables, naming, replaced>>
        /\ UNCHANGED <<telemetry, recorded, final, used, removed>>
    BY <1>1 DEF Pin, PlaceGoes, worldVars, recordVars, workVars
  <2>2. EndpointTypes'
    BY <2>1 DEF EndpointTypes, ClientPlaces
  <2>3. MutableRemote(e) <=> ByName(e)
    BY DEF MutableRemote, ByName
  <2>4. Pinned'
    BY <2>1, <2>3 DEF Pinned, EndpointTypes, MutableRemote, ByName
  <2>5. Watched("run")' /\ Watched("cleanup")'
    BY <2>1 DEF Watched, EndpointTypes
  <2>6. RunSound' /\ CleanupSound'
    BY <1>1, <2>1 DEF RunSound, CleanupSound, EndpointTypes
  <2>7. QED
    BY <2>2, <2>4, <2>5, <2>6
<1>2. ASSUME NEW source \in {"DOCKER_CONTEXT", "context"}, NEW name \in Names \cup {"default"},
             Asks(p, source, name), MayBegin(p)
      PROVE  EndpointInv'
  <2>1. /\ place[p] = "start" /\ place' = [place EXCEPT ![p] = "naming"]
        /\ naming' = [naming EXCEPT ![p] = [source |-> source, name |-> name]]
        /\ UNCHANGED <<daemon, context, selected, variables, endpoint, replaced>>
        /\ UNCHANGED <<telemetry, recorded, final, used, removed>>
    BY <1>2 DEF Asks, PlaceGoes, worldVars, recordVars, workVars
  <2>2. EndpointTypes'
    BY <2>1 DEF EndpointTypes, ClientPlaces, Named
  <2>3. Pinned' /\ Watched("run")' /\ Watched("cleanup")'
    BY <2>1 DEF Pinned, Watched, EndpointTypes, ByName
  <2>4. RunSound' /\ CleanupSound'
    BY <1>2, <2>1 DEF RunSound, CleanupSound, EndpointTypes, MayBegin
  <2>5. QED
    BY <2>2, <2>3, <2>4
<1>3. CASE InspectContext(p)
  <2>1. place[p] = "naming" /\ naming[p] \in Named
    BY <1>3 DEF InspectContext, EndpointTypes
  <2> DEFINE n == naming[p].name
             host == ContextHost(n, variables[p].DOCKER_HOST)
  <2>2. host \in Hosts
    BY <2>1 DEF ContextHost, Named, EndpointTypes, Variables, Hosts
  <2>3. From(naming[p].source, n, host) \in Endpoints
    BY <2>1, <2>2 DEF From, Named, Endpoints
  <2>4. p = "cleanup" => place["run"] \in {"working", "ended", "killed"}
    BY <2>1 DEF CleanupSound
  <2>5. QED
    BY <1>1, <1>3, <2>3, <2>4 DEF InspectContext
<1>4. CASE Resolve(p)
  <2>1. MayBegin(p) /\ variables[p] \in Variables
    BY <1>4 DEF Resolve, EndpointTypes
  <2>2. p = "cleanup" => place["run"] \in {"working", "ended", "killed"}
    BY <2>1 DEF MayBegin
  <2>3. CASE variables[p].DOCKER_CONTEXT # None /\
             Asks(p, "DOCKER_CONTEXT", variables[p].DOCKER_CONTEXT)
    BY <1>2, <2>1, <2>3 DEF Variables
  <2>4. CASE variables[p].DOCKER_HOST # None /\
             Pin(p, "start", From("DOCKER_HOST", None, variables[p].DOCKER_HOST))
    <3>1. From("DOCKER_HOST", None, variables[p].DOCKER_HOST) \in Endpoints
      BY <2>1, <2>4 DEF Variables, From, Endpoints
    <3>2. QED
      BY <1>1, <2>2, <2>4, <3>1
  <2>5. CASE Pin(p, "start", From("default", "default", DefaultSocket))
    <3>1. From("default", "default", DefaultSocket) \in Endpoints
      BY DEF From, Endpoints, Hosts
    <3>2. QED
      BY <1>1, <2>2, <2>5, <3>1
  <2>6. CASE Asks(p, "context", selected)
    BY <1>2, <2>1, <2>6 DEF EndpointTypes
  <2>7. QED
    BY <1>4, <2>3, <2>4, <2>5, <2>6 DEF Resolve
<1>5. QED
  BY <1>3, <1>4

\* The steps of a run record an engine once and count where containers are made.
LEMMA RunStepsSound ==
  ASSUME EndpointInv, RecordedRunStep
  PROVE  EndpointInv'
<1> USE DEF EndpointInv, Clients, Early, worldVars, pinVars, recordVars, workVars
<1>1. CASE Doctor
  <2>1. /\ place["run"] = "pinned" /\ place' = [place EXCEPT !["run"] = "admitted"]
        /\ recorded' = Reached("run")
        /\ telemetry' = "engine_stream" => endpoint["run"].host \in Local
        /\ UNCHANGED <<daemon, context, selected, variables, naming, endpoint, replaced>>
        /\ UNCHANGED <<final, used, removed>>
    BY <1>1 DEF Doctor, PlaceGoes, Negotiated
  <2>2. EndpointTypes'
    BY <2>1 DEF EndpointTypes, ClientPlaces
  <2>3. Pinned'
    BY <2>1 DEF Pinned, EndpointTypes
  <2>4. recorded' = daemon[endpoint["run"].host]
    BY <2>1, ReachesPinned
  <2>5. place["cleanup"] \in {"start", "raised"} /\ removed = {}
    BY <2>1 DEF CleanupSound
  <2>6. Watched("run")' /\ Watched("cleanup")'
    BY <2>1, <2>4, <2>5 DEF Watched, EndpointTypes
  <2>7. RunSound' /\ CleanupSound'
    BY <2>1, <2>5 DEF RunSound, CleanupSound, EndpointTypes
  <2>8. QED
    BY <2>2, <2>3, <2>6, <2>7
<1>2. CASE BeginRun
  <2>1. /\ place["run"] = "admitted" /\ place' = [place EXCEPT !["run"] = "working"]
        /\ UNCHANGED <<daemon, context, selected, variables, naming, endpoint, replaced>>
        /\ UNCHANGED <<telemetry, recorded, final, used, removed>>
    BY <1>2 DEF BeginRun, PlaceGoes
  <2>2. EndpointTypes' /\ Pinned'
    BY <2>1 DEF EndpointTypes, ClientPlaces, Pinned, ByName
  <2>3. Watched("run")' /\ Watched("cleanup")'
    BY <2>1 DEF Watched, EndpointTypes
  <2>4. RunSound' /\ CleanupSound'
    BY <2>1 DEF RunSound, CleanupSound, EndpointTypes
  <2>5. QED
    BY <2>2, <2>3, <2>4
<1>3. CASE Create
  <2>1. /\ place["run"] = "working" /\ used' = used \cup {Reached("run")}
        /\ UNCHANGED <<daemon, context, selected, variables, naming, endpoint, replaced>>
        /\ UNCHANGED <<place, telemetry, recorded, final, removed>>
    BY <1>3 DEF Create
  <2>2. Reached("run") = daemon[endpoint["run"].host]
    BY <2>1, ReachesPinned
  <2>3. EndpointTypes' /\ Pinned' /\ CleanupSound'
    BY <2>1 DEF EndpointTypes, Pinned, CleanupSound, ByName
  <2>4. Watched("run")' /\ Watched("cleanup")'
    BY <2>1 DEF Watched
  <2>5. RunSound'
    BY <2>1, <2>2 DEF RunSound, Watched
  <2>6. QED
    BY <2>3, <2>4, <2>5
<1>4. CASE RemoveOwn
  <2>1. /\ UNCHANGED <<daemon, context, selected, variables, naming, endpoint, replaced>>
        /\ UNCHANGED <<place, telemetry, recorded, final, used, removed>>
    BY <1>4 DEF RemoveOwn
  <2>2. QED
    BY <2>1 DEF EndpointTypes, Pinned, Watched, RunSound, CleanupSound, ByName
<1>5. CASE EndRun
  <2>1. /\ place["run"] = "working" /\ place' = [place EXCEPT !["run"] = "ended"]
        /\ final' = IF Reached("run") = recorded THEN "stable" ELSE "unstable"
        /\ UNCHANGED <<daemon, context, selected, variables, naming, endpoint, replaced>>
        /\ UNCHANGED <<telemetry, recorded, used, removed>>
    BY <1>5 DEF EndRun, PlaceGoes, Stable
  <2>2. EndpointTypes' /\ Pinned'
    BY <2>1 DEF EndpointTypes, ClientPlaces, Pinned, ByName
  <2>3. Watched("run")' /\ Watched("cleanup")'
    BY <2>1 DEF Watched, EndpointTypes
  <2>4. Reached("run") = daemon[endpoint["run"].host]
    BY <2>1, ReachesPinned
  <2>5. RunSound' /\ CleanupSound'
    BY <2>1, <2>4 DEF RunSound, CleanupSound, EndpointTypes, Watched
  <2>6. QED
    BY <2>2, <2>3, <2>5
<1>6. QED
  BY <1>1, <1>2, <1>3, <1>4, <1>5 DEF RecordedRunStep

\* The steps of a cleanup remove only where they reach.
LEMMA CleanupStepsSound ==
  ASSUME EndpointInv, CheckedCleanupStep
  PROVE  EndpointInv'
<1> USE DEF EndpointInv, Clients, Early, worldVars, pinVars, recordVars, workVars
<1>1. UNCHANGED <<daemon, context, selected, variables, naming, endpoint, replaced, telemetry, recorded, final, used>>
  BY DEF CheckedCleanupStep, Identify, SurveyOwned, RemoveSurveyed, EndCleanup
<1>2. CASE Identify \/ SurveyOwned \/ EndCleanup
  <2>1. /\ UNCHANGED removed
        /\ \/ /\ place["cleanup"] = "pinned" /\ Reached("cleanup") = recorded
              /\ place' = [place EXCEPT !["cleanup"] = "admitted"]
           \/ place["cleanup"] = "admitted" /\ place' = [place EXCEPT !["cleanup"] = "working"]
           \/ place["cleanup"] = "working" /\ place' = [place EXCEPT !["cleanup"] = "ended"]
    BY <1>2 DEF Identify, SurveyOwned, EndCleanup, PlaceGoes
  <2>2. EndpointTypes' /\ Pinned'
    BY <1>1, <2>1 DEF EndpointTypes, ClientPlaces, Pinned, ByName
  <2>3. place["cleanup"] = "pinned" => Reached("cleanup") = daemon[endpoint["cleanup"].host]
    BY ReachesPinned
  <2>4. Watched("run")' /\ Watched("cleanup")'
    BY <1>1, <2>1, <2>3 DEF Watched, EndpointTypes
  <2>5. RunSound' /\ CleanupSound'
    BY <1>1, <2>1 DEF RunSound, CleanupSound, EndpointTypes
  <2>6. QED
    BY <2>2, <2>4, <2>5
<1>3. ASSUME NEW c \in surveyed, RemoveSurveyed(c)
      PROVE  EndpointInv'
  <2>1. /\ place["cleanup"] = "working" /\ UNCHANGED place
        /\ \A x \in removed' : x \in removed \/ x.on = Reached("cleanup")
    BY <1>3 DEF RemoveSurveyed
  <2>2. Reached("cleanup") = daemon[endpoint["cleanup"].host]
    BY <2>1, ReachesPinned
  <2>3. EndpointTypes' /\ Pinned' /\ RunSound'
    BY <1>1, <2>1 DEF EndpointTypes, Pinned, ByName, RunSound
  <2>4. Watched("run")' /\ Watched("cleanup")'
    BY <1>1, <2>1 DEF Watched
  <2>5. CleanupSound'
    BY <1>1, <2>1, <2>2 DEF CleanupSound, Watched
  <2>6. QED
    BY <2>3, <2>4, <2>5
<1>4. QED
  BY <1>2, <1>3 DEF CheckedCleanupStep

\* Others change contexts, which nothing pinned depends on, or replace daemons.
LEMMA WorldStepsSound ==
  ASSUME EndpointInv, WorldStep
  PROVE  EndpointInv'
<1> USE DEF EndpointInv, Clients, Early, pinVars, recordVars, workVars
<1>1. UNCHANGED <<variables, place, naming, endpoint, telemetry, recorded, final, used, removed>>
  BY DEF WorldStep, Repoint, Select, ReplaceDaemon
<1>2. Pinned'
  BY <1>1 DEF Pinned, ByName
<1>3. CASE \/ \E n \in Names, h \in Hosts : Repoint(n, h)
           \/ \E n \in Names \cup {"default"} : Select(n)
  <2>1. /\ UNCHANGED <<daemon, replaced>>
        /\ context' \in [Names -> Hosts] /\ selected' \in Names \cup {"default"}
    BY <1>3 DEF Repoint, Select, EndpointTypes
  <2>2. EndpointTypes' /\ Watched("run")' /\ Watched("cleanup")' /\ RunSound' /\ CleanupSound'
    BY <1>1, <2>1 DEF EndpointTypes, Watched, RunSound, CleanupSound
  <2>3. QED
    BY <1>2, <2>2
<1>4. ASSUME NEW h \in Hosts, NEW e \in Engines \cup {None}, ReplaceDaemon(h, e)
      PROVE  EndpointInv'
  <2>1. /\ UNCHANGED <<context, selected>>
        /\ daemon[h] # e /\ daemon' = [daemon EXCEPT ![h] = e]
        /\ replaced' = [p \in Clients |-> IF Attached(p) /\ endpoint[p].host = h
                                          THEN replaced[p] + 1 ELSE replaced[p]]
    BY <1>4 DEF ReplaceDaemon
  <2>2. EndpointTypes'
    BY <1>1, <2>1 DEF EndpointTypes
  <2>3. ASSUME NEW p \in Clients PROVE Watched(p)'
    <3>1. CASE Attached(p) /\ endpoint[p].host = h
      <4>1. replaced'[p] = replaced[p] + 1 /\ replaced[p] \in Nat /\ daemon'[h] = e
        BY <2>1, <3>1 DEF EndpointTypes
      <4>2. QED
        BY <1>1, <2>1, <3>1, <4>1 DEF Watched, Attached
    <3>2. CASE ~Attached(p)
      BY <1>1, <2>1, <3>2 DEF Watched, Attached
    <3>3. CASE Attached(p) /\ endpoint[p].host # h
      BY <1>1, <2>1, <3>3 DEF Watched, Attached, EndpointTypes
    <3>4. QED
      BY <3>1, <3>2, <3>3
  <2>4. /\ replaced["run"] \in Nat /\ replaced["cleanup"] \in Nat
        /\ replaced'["run"] \in Nat /\ replaced'["run"] >= replaced["run"]
        /\ replaced'["cleanup"] \in Nat /\ replaced'["cleanup"] >= replaced["cleanup"]
    BY <2>1 DEF EndpointTypes
  <2>5. RunSound' /\ CleanupSound'
    BY <1>1, <2>4 DEF RunSound, CleanupSound
  <2>6. QED
    BY <1>2, <2>2, <2>3, <2>5
<1>5. QED
  BY <1>3, <1>4 DEF WorldStep

LEMMA EndpointSteps ==
  ASSUME EndpointInv, [EndpointNext]_endpointVars
  PROVE  EndpointInv'
<1>1. ASSUME NEW p \in Clients, RaiseClient(p) \/ KillClient(p)
      PROVE  EndpointInv'
  <2> USE DEF EndpointInv, Clients, Early
  <2>1. /\ UNCHANGED <<daemon, context, selected, variables, naming, endpoint, replaced>>
        /\ UNCHANGED <<telemetry, recorded, final, used, removed>>
        /\ \/ /\ place[p] \in {"start", "naming", "pinned", "admitted"}
              /\ place' = [place EXCEPT ![p] = "raised"]
           \/ place[p] = "working" /\ place' = [place EXCEPT ![p] = "killed"]
    BY <1>1 DEF RaiseClient, KillClient, PlaceGoes, worldVars, recordVars, workVars
  <2>2. EndpointTypes' /\ Pinned'
    BY <2>1 DEF EndpointTypes, ClientPlaces, Pinned, ByName
  <2>3. Watched("run")' /\ Watched("cleanup")'
    BY <2>1 DEF Watched, EndpointTypes
  <2>4. RunSound' /\ CleanupSound'
    BY <2>1 DEF RunSound, CleanupSound, EndpointTypes
  <2>5. QED
    BY <2>2, <2>3, <2>4
<1>2. CASE UNCHANGED endpointVars
  BY <1>2 DEF endpointVars, worldVars, pinVars, recordVars, workVars, EndpointInv,
              EndpointTypes, Pinned, ByName, Watched, RunSound, CleanupSound
<1>3. QED
  BY <1>1, <1>2, ResolutionSound, RunStepsSound, CleanupStepsSound, WorldStepsSound
  DEF EndpointNext, ClientStep

\* Whatever contexts are repointed or selected and whichever daemons are
\* replaced: a run that is attributed to an engine ran on it, a cleanup removes
\* on the engine it checked, and telemetry is read where commands go.
THEOREM EngineTheorem == EndpointSpec => []EngineAsRecorded
<1>1. EndpointInv => EngineAsRecorded
  <2> SUFFICES ASSUME EndpointInv PROVE EngineAsRecorded
    OBVIOUS
  <2>1. replaced["run"] \in Nat
    BY DEF EndpointInv, EndpointTypes, Clients
  <2>2. Attributable /\ replaced["run"] <= 1 => used \subseteq {recorded}
    BY <2>1 DEF EndpointInv, RunSound, Attributable
  <2>3. telemetry = "engine_stream" => Reached("run") = daemon[endpoint["run"].host]
    BY DEF EndpointInv, Pinned, Reached, ByName
  <2>4. QED
    BY <2>2, <2>3 DEF EndpointInv, CleanupSound, EngineAsRecorded
<1>2. QED
  BY <1>1, EndpointBegins, EndpointSteps, PTL DEF EndpointSpec
=============================================================================
