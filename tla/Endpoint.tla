------------------------------ MODULE Endpoint ------------------------------
(***************************************************************************)
(* Which Docker engine a process talks to: the resolution and pinning of   *)
(* the endpoint (evalnoise/endpoint.py and class Docker), the identity a   *)
(* run records of its engine and compares at its end (runner.py), and the  *)
(* check of it by a later cleanup (recovery.py), while users repoint and   *)
(* select contexts and daemons are replaced behind their addresses.        *)
(*                                                                         *)
(* Abstracted: a daemon is its ID; TLS settings; containers of one daemon  *)
(* are one.  What EngineCoordination says of the lock is taken for granted *)
(* here: cleanup does not work while the run of the manifest does.         *)
(***************************************************************************)
EXTENDS Integers

CONSTANTS
  Local, Remote,   \* addresses: local sockets, and those of any other scheme
  DefaultSocket,   \* DEFAULT_SOCKETS
  Names,           \* names of contexts, other than "default"
  Engines,         \* daemon IDs
  MaxChanges,      \* bound of the model: what others change meanwhile
  None             \* an unset variable, no engine

ASSUME EndpointAssumption ==
  /\ DefaultSocket \in Local /\ Local \cap Remote = {}
  /\ None \notin Local \cup Remote \cup Names \cup Engines
  /\ "default" \notin Names
  /\ MaxChanges \in Nat

VARIABLES
  daemon,      \* [Hosts -> Engines \cup {None}]: which daemon answers there
  context,     \* [Names -> Hosts]: the store of contexts
  selected,    \* the context of docker context use
  changes,     \* how often others changed any of these
  variables,   \* [Clients -> Variables]: Docker.environment, a copy at its start
  place,       \* [Clients -> ClientPlaces]: where the process is
  naming,      \* [Clients -> Named]: the context it is about to inspect
  endpoint,    \* [Clients -> Endpoints]: Docker.endpoint
  recorded,    \* environment.engine_identity.id of the run, the key of its lock
  telemetry,   \* environment.telemetry.telemetry_source of the run
  final,       \* engine_identity_final.stable of the run
  containers,  \* the containers of the run, each on an engine and with a label
  used,        \* history: where the run made containers
  surveyed,    \* the candidates of cleanup
  removed,     \* history: what cleanup removed
  replaced     \* history: [Clients -> Nat]: replacements behind the pinned
               \* address from the check of the identity to the end

worldVars == <<daemon, context, selected, changes>>
pinVars == <<variables, place, naming, endpoint>>
recordVars == <<recorded, telemetry, final>>
workVars == <<containers, used, surveyed, removed, replaced>>
endpointVars == <<worldVars, pinVars, recordVars, workVars>>

Hosts == Local \cup Remote

Clients == {"run", "cleanup"}

ClientPlaces ==
  {"start", "naming", "pinned", "admitted", "working", "ended", "raised", "killed"}

Variables == [DOCKER_CONTEXT : Names \cup {None, "default"}, DOCKER_HOST : Hosts \cup {None}]

Named == [source : {"DOCKER_CONTEXT", "context"}, name : Names \cup {"default"}]

From(source, name, host) == [source |-> source, context |-> name, host |-> host]

Endpoints ==
  [source : {"DOCKER_CONTEXT", "DOCKER_HOST", "context", "default"},
   context : Names \cup {None, "default"}, host : Hosts]

EndpointInit ==
  /\ daemon \in [Hosts -> Engines]
  /\ context \in [Names -> Hosts]
  /\ selected \in Names \cup {"default"}
  /\ changes = 0
  /\ variables \in [Clients -> Variables]
  /\ place = [p \in Clients |-> "start"]
  /\ naming = [p \in Clients |-> None]
  /\ endpoint = [p \in Clients |-> None]
  /\ recorded = None /\ telemetry = "cli_snapshot" /\ final = "none"
  /\ containers = {} /\ used = {} /\ surveyed = {} /\ removed = {}
  /\ replaced = [p \in Clients |-> 0]

-----------------------------------------------------------------------------
(* endpoint.resolve, require_stable_endpoint and Docker.pin.               *)

PlaceGoes(p, from, to) == place[p] = from /\ place' = [place EXCEPT ![p] = to]

\* Mutant of MutableRemote: no context is refused.
MutableNever(e) == FALSE

MutableRemote(e) == e.host \notin Local /\ e.source \in {"DOCKER_CONTEXT", "context"}

\* The endpoint is kept, and refused if its name could be repointed.
Pin(p, from, e) ==
  /\ endpoint' = [endpoint EXCEPT ![p] = e]
  /\ PlaceGoes(p, from, IF MutableRemote(e) THEN "raised" ELSE "pinned")
  /\ UNCHANGED <<worldVars, variables, naming, recordVars, workVars>>

\* cleanup reads the manifest of the run before anything else.
MayBegin(p) == p = "run" \/ place["run"] \in {"working", "ended", "killed"}

Asks(p, source, name) ==
  /\ naming' = [naming EXCEPT ![p] = [source |-> source, name |-> name]]
  /\ PlaceGoes(p, "start", "naming")
  /\ UNCHANGED <<worldVars, variables, endpoint, recordVars, workVars>>

\* DOCKER_CONTEXT goes before DOCKER_HOST, and both before docker context show;
\* should that show nothing, it is taken for the default.
Resolve(p) ==
  LET v == variables[p]
  IN
  /\ MayBegin(p)
  /\ \/ v.DOCKER_CONTEXT # None /\ Asks(p, "DOCKER_CONTEXT", v.DOCKER_CONTEXT)
     \/ /\ v.DOCKER_CONTEXT = None /\ v.DOCKER_HOST # None
        /\ Pin(p, "start", From("DOCKER_HOST", None, v.DOCKER_HOST))
     \/ /\ v.DOCKER_CONTEXT = None /\ v.DOCKER_HOST = None
        /\ \E current \in {selected, None} :
             IF current \in {"default", None}
             THEN Pin(p, "start", From("default", "default", DefaultSocket))
             ELSE Asks(p, "context", current)

\* Where the context n leads to; the one named default has no entry of its own and
\* goes by the variable DOCKER_HOST of the command.
ContextHost(n, host) ==
  IF n # "default" THEN context[n] ELSE IF host = None THEN DefaultSocket ELSE host

\* docker context inspect: the context may have been repointed since.
InspectContext(p) ==
  /\ place[p] = "naming"
  /\ LET n == naming[p].name
     IN  Pin(p, "naming", From(naming[p].source, n, ContextHost(n, variables[p].DOCKER_HOST)))

\* A context or an engine that cannot be read or used, a lock that is held,
\* orphans: raised with nothing recorded or removed.
RaiseClient(p) ==
  /\ place[p] \in {"start", "naming", "pinned", "admitted"}
  /\ place' = [place EXCEPT ![p] = "raised"]
  /\ UNCHANGED <<worldVars, variables, naming, endpoint, recordVars, workVars>>

-----------------------------------------------------------------------------
(* Docker.call: which daemon a command reaches.                            *)

\* Mutant of ByName: a context is always pinned by its name.
ByNameAlways(e) == e.source \in {"DOCKER_CONTEXT", "context"}

\* cli_flags: --context for a remote context, --host for everything else.
ByName(e) == e.host \notin Local /\ e.source \in {"DOCKER_CONTEXT", "context"}

\* The command line program looks a context up at every call, made without the
\* variables (child_environment).
Reached(p) ==
  LET e == endpoint[p]
  IN  daemon[IF ByName(e) THEN ContextHost(e.context, None) ELSE e.host]

\* negotiate: only a local socket whose version can be read and used is streamed.
Negotiated(e, usable) ==
  IF e.host \in Local /\ usable THEN "engine_stream" ELSE "cli_snapshot"

-----------------------------------------------------------------------------
(* The run: doctor, execute, engine_stability.                             *)

Doctor ==
  /\ PlaceGoes("run", "pinned", "admitted")
  /\ Reached("run") # None
  /\ recorded' = Reached("run")
  /\ \E usable \in BOOLEAN : telemetry' = Negotiated(endpoint["run"], usable)
  /\ UNCHANGED <<worldVars, variables, naming, endpoint, final, workVars>>

\* The lock of the engine is taken, and the first manifest written.
BeginRun ==
  /\ PlaceGoes("run", "admitted", "working")
  /\ UNCHANGED <<worldVars, variables, naming, endpoint, recordVars, workVars>>

\* Docker.create labels it with the engine that was recorded.
Create ==
  LET e == Reached("run")
  IN  /\ place["run"] = "working" /\ e # None
      /\ containers' = containers \cup {[on |-> e, engine |-> recorded]}
      /\ used' = used \cup {e}
      /\ UNCHANGED <<worldVars, pinVars, recordVars, surveyed, removed, replaced>>

RemoveOwn ==
  /\ place["run"] = "working"
  /\ \E c \in containers : c.on = Reached("run") /\ containers' = containers \ {c}
  /\ UNCHANGED <<worldVars, pinVars, recordVars, used, surveyed, removed, replaced>>

\* Mutant of Stable: what was recorded is compared with itself.
StableAnyway(observed) == IF observed # None THEN "stable" ELSE "unstable"

\* An engine that cannot be reached is not a stable one.
Stable(observed) == IF observed = recorded THEN "stable" ELSE "unstable"

EndRun ==
  /\ PlaceGoes("run", "working", "ended")
  /\ final' = Stable(Reached("run"))
  /\ UNCHANGED <<worldVars, variables, naming, endpoint, recorded, telemetry, workVars>>

KillClient(p) ==
  /\ PlaceGoes(p, "working", "killed")
  /\ UNCHANGED <<worldVars, variables, naming, endpoint, recordVars, workVars>>

\* What a comparison of two runs and the coordinator ask of a manifest.
Attributable == final = "stable"

-----------------------------------------------------------------------------
(* cleanup --confirm, by a process with an environment of its own.         *)

\* The connected daemon must be the one in the manifest.
Identify ==
  /\ PlaceGoes("cleanup", "pinned", "admitted")
  /\ Reached("cleanup") = recorded
  /\ UNCHANGED <<worldVars, variables, naming, endpoint, recordVars, workVars>>

\* Under the lock: the run's containers on the daemon, owned by their label.
SurveyOwned ==
  LET found == {c \in containers : c.on = Reached("cleanup")}
  IN  /\ place["run"] # "working"
      /\ PlaceGoes("cleanup", "admitted", "working")
      /\ \A c \in found : c.engine = recorded
      /\ surveyed' = found
      /\ UNCHANGED <<worldVars, variables, naming, endpoint, recordVars,
                     containers, used, removed, replaced>>

\* rm of the full container ID: another daemon has no such container.
RemoveSurveyed(c) ==
  /\ place["cleanup"] = "working" /\ c \in surveyed
  /\ surveyed' = surveyed \ {c}
  /\ \E hit \in {{}, {c} \cap {x \in containers : x.on = Reached("cleanup")}} :
       containers' = containers \ hit /\ removed' = removed \cup hit
  /\ UNCHANGED <<worldVars, pinVars, recordVars, used, replaced>>

EndCleanup ==
  /\ surveyed = {}
  /\ PlaceGoes("cleanup", "working", "ended")
  /\ UNCHANGED <<worldVars, variables, naming, endpoint, recordVars, workVars>>

-----------------------------------------------------------------------------
(* What others do: docker context update and use, daemons come and go.     *)

Change == changes < MaxChanges /\ changes' = changes + 1

Repoint(n, h) ==
  /\ Change /\ context' = [context EXCEPT ![n] = h]
  /\ UNCHANGED <<daemon, selected, pinVars, recordVars, workVars>>

Select(n) ==
  /\ Change /\ selected' = n
  /\ UNCHANGED <<daemon, context, pinVars, recordVars, workVars>>

Attached(p) == place[p] \in {"admitted", "working"}

ReplaceDaemon(h, e) ==
  /\ Change /\ daemon[h] # e /\ daemon' = [daemon EXCEPT ![h] = e]
  /\ replaced' = [p \in Clients |-> IF Attached(p) /\ endpoint[p].host = h
                                    THEN replaced[p] + 1 ELSE replaced[p]]
  /\ UNCHANGED <<context, selected, pinVars, recordVars, containers, used, surveyed, removed>>

-----------------------------------------------------------------------------
ClientStep(p) == Resolve(p) \/ InspectContext(p) \/ RaiseClient(p) \/ KillClient(p)

RecordedRunStep == Doctor \/ BeginRun \/ Create \/ RemoveOwn \/ EndRun

CheckedCleanupStep == Identify \/ SurveyOwned \/ (\E c \in surveyed : RemoveSurveyed(c)) \/ EndCleanup

WorldStep ==
  \/ \E n \in Names, h \in Hosts : Repoint(n, h)
  \/ \E n \in Names \cup {"default"} : Select(n)
  \/ \E h \in Hosts, e \in Engines \cup {None} : ReplaceDaemon(h, e)

EndpointNext ==
  (\E p \in Clients : ClientStep(p)) \/ RecordedRunStep \/ CheckedCleanupStep \/ WorldStep

EndpointSpec == EndpointInit /\ [][EndpointNext]_endpointVars

-----------------------------------------------------------------------------
(* Properties.                                                             *)

\* Whatever contexts are repointed or selected, at any moment: a run that a
\* comparison attributes to its engine made every container there, unless the
\* daemon behind its address left and came back; cleanup removes on the engine
\* in the manifest, unless the daemon was replaced after the check; and
\* telemetry is read where commands go (require_stable_endpoint, cli_flags,
\* engine_stability, cleanup).
EngineAsRecorded ==
  /\ Attributable /\ replaced["run"] <= 1 => used \subseteq {recorded}
  /\ replaced["cleanup"] = 0 => \A c \in removed : c.on = recorded
  /\ telemetry = "engine_stream" => Reached("run") = daemon[endpoint["run"].host]
=============================================================================
