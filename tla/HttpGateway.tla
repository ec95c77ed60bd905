---------------------------- MODULE HttpGateway ----------------------------
(***************************************************************************)
(* fs_api_proxy/http_api_gateway: controller.py polls its backends for the *)
(* paths they own and publishes the merged routes as files on a volume,    *)
(* rds and READY (the third, between them, is read by nobody here); Envoy  *)
(* starts when the controller is healthy and follows rds.                  *)
(***************************************************************************)
EXTENDS Naturals

CONSTANTS
    NBackends,  \* BACKENDS_FOR_FRONTENDS, in order
    Path,       \* paths a backend can advertise
    NoAnswer, Unknown,           \* of a backend, instead of a document
    NoFile, Down                 \* of a file or of Envoy, instead of routes

Backend == 1 .. NBackends
Advert == SUBSET Path
Routes == UNION {[owned -> Backend] : owned \in SUBSET Path}

\* What stands for the lack of a document or of routes is neither.
ASSUME GatewayAssumption ==
    /\ NBackends \in Nat \ {0} /\ NoFile # Down
    /\ \A document \in Advert : document \notin {NoAnswer, Unknown}
    /\ \A routes \in Routes : routes \notin {Unknown, NoFile, Down}

VARIABLES
    offer,       \* what each backend answers to discovery now
    controller,  \* controller.py
    ready,       \* the revision in READY_PATH; it stands for its routes
    rds,         \* RDS_PATH
    envoy        \* the routes Envoy serves by

gatewayVars == <<offer, controller, ready, rds, envoy>>

NoSnapshots == [b \in Backend |-> Unknown]

\* merge_routes: backends from left to right, a later one replaces an owner.
\* Mutant: the first backend keeps a path, as setdefault would have it.
ClaimFirst(owners, b, document) ==
    [p \in DOMAIN owners \cup document |-> IF p \in DOMAIN owners THEN owners[p] ELSE b]

Claim(owners, b, document) ==
    [p \in DOMAIN owners \cup document |-> IF p \in document THEN b ELSE owners[p]]
MergeRoutes(snapshots) ==
    LET merged[n \in 0 .. NBackends] ==
            IF n = 0 THEN <<>> ELSE Claim(merged[n - 1], n, snapshots[n])
    IN  merged[NBackends]

ControllerState ==
    [at : {"down", "wait", "poll", "rds", "ready"}, pending : SUBSET Backend,
     snapshots : [Backend -> {Unknown} \cup Advert],
     changed : BOOLEAN, published : {Unknown} \cup Routes]

GatewayTypeOK ==
    /\ offer \in [Backend -> {NoAnswer} \cup Advert]
    /\ controller \in ControllerState
    /\ {ready, rds} \subseteq {NoFile} \cup Routes
    /\ envoy \in {Down, NoFile} \cup Routes

NoController == [at |-> "down", pending |-> {}, snapshots |-> NoSnapshots,
                 changed |-> FALSE, published |-> Unknown]

GatewayInit ==
    /\ controller = NoController
    /\ ready = NoFile /\ rds = NoFile /\ envoy = Down

At(here) == controller.at = here
Goes(there) == controller' = [controller EXCEPT !.at = there]

\* Mutant: a new incarnation trusts the READY it finds.
StartControllerTrusting ==
    /\ At("down") /\ Goes("wait")
    /\ UNCHANGED <<offer, ready, rds, envoy>>

\* Mutant: a new incarnation clears the whole directory.
StartControllerClearing ==
    /\ At("down") /\ Goes("wait") /\ ready' = NoFile /\ rds' = NoFile
    /\ UNCHANGED <<offer, envoy>>

\* The READY of an earlier incarnation goes first.
StartController ==
    /\ At("down") /\ Goes("wait") /\ ready' = NoFile
    /\ UNCHANGED <<offer, rds, envoy>>

PollBackends ==
    /\ At("wait")
    /\ controller' = [controller EXCEPT !.at = "poll", !.pending = Backend]
    /\ UNCHANGED <<offer, ready, rds, envoy>>

Discovered(snapshots) == \A b \in Backend : snapshots[b] # Unknown

\* What poll_backends has of a backend, NoAnswer if that failed, and, after the
\* last one, whether there is something to publish.
Polled(b, document) ==
    LET pending == controller.pending \ {b}
        fresh == document \notin {NoAnswer, controller.snapshots[b]}
        changed == controller.changed \/ fresh
        snapshots == IF fresh THEN [controller.snapshots EXCEPT ![b] = document]
                     ELSE controller.snapshots
        due == /\ Discovered(snapshots)
               /\ changed \/ MergeRoutes(snapshots) # controller.published
    IN controller' = [controller EXCEPT
           !.pending = pending, !.snapshots = snapshots,
           !.changed = changed /\ pending # {},
           !.at = IF pending # {} THEN "poll" ELSE IF due THEN "rds" ELSE "wait"]

\* fetch_backend, in one thread for each backend, which read at different times
\* and end in any order.
Fetch(b) ==
    /\ At("poll") /\ b \in controller.pending /\ offer[b] # NoAnswer
    /\ Polled(b, offer[b])
    /\ UNCHANGED <<offer, ready, rds, envoy>>

\* No answer, or not a valid document: the last snapshot stays.
FetchFails(b) ==
    /\ At("poll") /\ b \in controller.pending
    /\ Polled(b, NoAnswer)
    /\ UNCHANGED <<offer, ready, rds, envoy>>

\* publish_routes: each file is replaced atomically, READY last.
PublishRds ==
    /\ At("rds") /\ Goes("ready") /\ rds' = MergeRoutes(controller.snapshots)
    /\ UNCHANGED <<offer, ready, envoy>>

PublishReady ==
    /\ At("ready") /\ ready' = MergeRoutes(controller.snapshots)
    /\ controller' = [controller EXCEPT !.at = "wait", !.published = ready']
    /\ UNCHANGED <<offer, rds, envoy>>

\* A kill, a file that cannot be written, or an exception of a fetch that is
\* not a DiscoveryError; "restart: unless-stopped" starts it again.
ControllerCrash ==
    /\ ~ At("down") /\ controller' = NoController
    /\ UNCHANGED <<offer, ready, rds, envoy>>

Controller ==
    \/ StartController \/ PollBackends \/ PublishRds \/ PublishReady

EnvoyStarts ==
    /\ envoy = Down /\ ready # NoFile /\ envoy' = rds
    /\ UNCHANGED <<offer, controller, ready, rds>>

EnvoyReloads ==
    /\ envoy # Down /\ envoy # rds /\ envoy' = rds
    /\ UNCHANGED <<offer, controller, ready, rds>>
=============================================================================
