----------------------------- MODULE HttpFront -----------------------------
(***************************************************************************)
(* The HTTP side of the platform: the REST API sidecar and an ambassador   *)
(* as the backends of the gateway.  The sidecar advertises the operations  *)
(* its server was generated from, the ambassador the paths of its schemas. *)
(***************************************************************************)
EXTENDS RestApiSidecar, HttpGateway

CONSTANTS
    Represented,  \* paths of the ambassador's schemas
    MaxFaults     \* crashes, outages and failed polls of a behaviour

ASSUME FrontAssumption ==
    NBackends = 2 /\ Path = Operation \cup Represented /\ MaxFaults \in Nat

VARIABLE faults

vars == <<sidecarVars, gatewayVars, faults>>

RestApi == 1
Ambassador == 2

\* discovery_document, generated with the rest of the server.
Advertised == IF server.at = "serving" THEN server.routes ELSE NoAnswer

TypeOK == SidecarTypeOK /\ GatewayTypeOK /\ faults \in 0 .. MaxFaults

Init ==
    /\ SidecarInit /\ GatewayInit /\ faults = 0
    /\ offer = [b \in Backend |-> IF b = RestApi THEN NoAnswer ELSE Represented]

OnlyOffer == UNCHANGED <<controller, ready, rds, envoy>>
Sidecar(A) ==
    /\ A /\ offer' = [offer EXCEPT ![RestApi] = Advertised'] /\ OnlyOffer

Fault == faults < MaxFaults /\ faults' = faults + 1
NoFault == UNCHANGED faults

ServicesMove == Sidecar(Services) /\ NoFault
MonitorMoves == Sidecar(Monitor) /\ NoFault
MonitorSignals == Sidecar(Signal) /\ NoFault
WatchdogMoves == Sidecar(Watchdog) /\ NoFault
ServerListens == Sidecar(Listen) /\ NoFault
QueryBegins == Sidecar(BeginQuery) /\ NoFault
QueryEnds == Sidecar(EndQuery) /\ NoFault
QueryLeaks == Sidecar(QueryRaises) /\ Fault
ServerFails == Sidecar(ServerCrash) /\ Fault

ControllerMoves == Controller /\ NoFault /\ UNCHANGED sidecarVars
Fetches(b) ==
    /\ IF offer[b] = NoAnswer THEN FetchFails(b) ELSE Fetch(b)
    /\ NoFault /\ UNCHANGED sidecarVars
PollFails(b) == offer[b] # NoAnswer /\ FetchFails(b) /\ Fault /\ UNCHANGED sidecarVars
ControllerFails == ControllerCrash /\ Fault /\ UNCHANGED sidecarVars
EnvoyMoves == (EnvoyStarts \/ EnvoyReloads) /\ NoFault /\ UNCHANGED sidecarVars

AmbassadorStops ==
    /\ offer[Ambassador] # NoAnswer /\ offer' = [offer EXCEPT ![Ambassador] = NoAnswer]
    /\ Fault /\ OnlyOffer /\ UNCHANGED sidecarVars
AmbassadorStarts ==
    /\ offer[Ambassador] = NoAnswer /\ offer' = [offer EXCEPT ![Ambassador] = Represented]
    /\ NoFault /\ OnlyOffer /\ UNCHANGED sidecarVars

Next ==
    \/ ServicesMove \/ MonitorMoves \/ MonitorSignals \/ WatchdogMoves \/ ServerListens
    \/ QueryBegins \/ QueryEnds \/ QueryLeaks \/ ServerFails
    \/ ControllerMoves \/ ControllerFails \/ EnvoyMoves
    \/ \E b \in Backend : Fetches(b) \/ PollFails(b)
    \/ AmbassadorStops \/ AmbassadorStarts

Spec == Init /\ [][Next]_vars

\* The signal is repeated every 0.1 s: a server that stays idle gets it.
\* Neither does a query have to end nor a signal to hit a gap between two.
Fairness ==
    /\ WF_vars(MonitorMoves) /\ WF_vars(MonitorSignals) /\ WF_vars(WatchdogMoves)
    /\ WF_vars(ServerListens) /\ WF_vars(ControllerMoves)
    /\ (\A b \in Backend : WF_vars(Fetches(b))) /\ WF_vars(EnvoyMoves) /\ WF_vars(AmbassadorStarts)
FairSpec == Spec /\ Fairness

-----------------------------------------------------------------------------
\* Envoy never runs without routes: READY, which lets it start, is written
\* only behind the other files, in every incarnation of the controller.
EnvoyHasRoutes == envoy # NoFile

\* A controller that is up shows READY only after it has itself discovered
\* every backend: a READY left by an earlier incarnation is gone by then.
ReadyMeansDiscovered ==
    ready # NoFile /\ ~ At("down") => Discovered(controller.snapshots)

\* Between two polls a discovered controller has published exactly its last
\* valid snapshots, in both files, each path with the last backend that
\* advertises it.
LastOwner(p) ==
    CHOOSE b \in Backend :
        /\ p \in controller.snapshots[b]
        /\ \A c \in b + 1 .. NBackends : p \notin controller.snapshots[c]
PublishedRoutesAreCurrent ==
    At("wait") /\ Discovered(controller.snapshots) =>
        /\ rds = [p \in UNION {controller.snapshots[b] : b \in Backend} |-> LastOwner(p)]
        /\ ready = rds

\* When the services have settled and the server is at last left without
\* queries, Envoy routes every documented operation that exists, and no
\* withdrawn one, to its owner, unless the sidecar gave up or a withdrawal
\* went unreported since the READMEs were last counted.  A query that hangs,
\* or was never counted out, keeps the server on its old routes.
Routed ==
    /\ documented \subseteq server.routes /\ server.routes \subseteq exported
    /\ envoy = [p \in server.routes \cup Represented |->
                   IF p \in Represented THEN Ambassador ELSE RestApi]
RoutesFollowTheApi == <>[]Idle => <>[](monitor.at = "exited" \/ missed \/ Routed)
=============================================================================
