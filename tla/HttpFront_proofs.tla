-------------------------- MODULE HttpFront_proofs --------------------------
(***************************************************************************)
(* Theorems about HttpFront and the two modules it composes, for any       *)
(* operations, paths and limits; the lemmas on the merge hold for any      *)
(* number of backends.                                                     *)
(***************************************************************************)
EXTENDS HttpFront, FiniteSetTheorems, WellFoundedInduction, TLAPS

-----------------------------------------------------------------------------
(* The merge of the routes.                                                *)

(* Induction as a minimal counterexample.                                  *)
LEMMA LeastNumber ==
    ASSUME NEW S \in SUBSET Nat, S # {}
    PROVE  \E n \in S : \A m \in S : n <= m
<1> DEFINE less == OpToRel(<, Nat)
<1>1. \E n \in S : \A m \in S : ~(<<m, n>> \in less)
  <2> HIDE DEF less
  <2>1. IsWellFoundedOn(less, Nat)
    BY NatLessThanWellFounded DEF less
  <2> QED BY <2>1, WFMin
<1>2. \A m, n \in S : m < n => <<m, n>> \in less
  BY DEF OpToRel
<1> HIDE DEF less
<1>3. PICK n \in S : \A m \in S : ~(<<m, n>> \in less)
  BY <1>1
<1>4. \A m \in S : ~(m < n)
  BY <1>2, <1>3
<1>5. \A m \in S : n <= m
  BY <1>4
<1> QED BY <1>5

(* b is the last of the first n backends that advertises p. *)
Owns(snapshots, n, p, b) ==
    /\ b \in 1 .. n /\ p \in snapshots[b]
    /\ \A c \in b + 1 .. n : p \notin snapshots[c]
Claimed(snapshots, n) == UNION {snapshots[b] : b \in 1 .. n}

LEMMA OwnerIsUnique ==
    ASSUME NEW snapshots, NEW n \in Nat, NEW p, NEW b, NEW c, Owns(snapshots, n, p, b), Owns(snapshots, n, p, c)
    PROVE  b = c
BY DEF Owns

(* What merge_routes has after n backends: each path that one of them      *)
(* advertises, with the last that does.                                    *)
Merged(snapshots, owners, n) ==
    /\ owners = [p \in Claimed(snapshots, n) |-> owners[p]]
    /\ \A p \in Claimed(snapshots, n) : Owns(snapshots, n, p, owners[p])

LEMMA ClaimStep ==
    ASSUME NEW snapshots, NEW n \in Nat \ {0}, NEW owners, Merged(snapshots, owners, n - 1)
    PROVE  Merged(snapshots, Claim(owners, n, snapshots[n]), n)
<1> DEFINE all == Claim(owners, n, snapshots[n])
<1>1. DOMAIN owners = Claimed(snapshots, n - 1)
  BY DEF Merged
<1>2. Claimed(snapshots, n) = Claimed(snapshots, n - 1) \cup snapshots[n]
  <2>1. 1 .. n = (1 .. n - 1) \cup {n}
    OBVIOUS
  <2> QED BY <2>1 DEF Claimed
<1>3. all = [p \in Claimed(snapshots, n) |-> IF p \in snapshots[n] THEN n ELSE owners[p]]
  BY <1>1, <1>2 DEF Claim
<1>4. ASSUME NEW p \in Claimed(snapshots, n)
      PROVE  Owns(snapshots, n, p, IF p \in snapshots[n] THEN n ELSE owners[p])
  <2>1. CASE p \in snapshots[n]
    BY <2>1 DEF Owns
  <2>2. CASE p \notin snapshots[n]
    <3>1. Owns(snapshots, n - 1, p, owners[p])
      BY <2>2, <1>2, <1>4 DEF Merged
    <3> QED BY <2>2, <3>1 DEF Owns
  <2> QED BY <2>1, <2>2
<1> HIDE DEF all
<1> QED BY <1>3, <1>4 DEF Merged, all

(* Whatever the number of backends, the loop of merge_routes is well       *)
(* defined, and ends with the last owner of each advertised path.          *)
LEMMA MergeIs ==
    ASSUME NEW snapshots \in [Backend -> Advert]
    PROVE  Merged(snapshots, MergeRoutes(snapshots), NBackends)
<1> DEFINE owner(n, p) == CHOOSE b : Owns(snapshots, n, p, b)
           table(n) == [p \in Claimed(snapshots, n) |-> owner(n, p)]
           step(g) == [n \in 0 .. NBackends |->
                          IF n = 0 THEN <<>> ELSE Claim(g[n - 1], n, snapshots[n])]
           f == [n \in 0 .. NBackends |-> table(n)]
<1>0. NBackends \in Nat \ {0}
  BY GatewayAssumption
<1>1. ASSUME NEW n \in Nat, NEW owners, Merged(snapshots, owners, n)
      PROVE  owners = table(n)
  <2>1. \A p \in Claimed(snapshots, n) : owners[p] = owner(n, p)
    BY <1>1, OwnerIsUnique DEF Merged
  <2> QED BY <2>1, <1>1 DEF Merged
<1>2. Claimed(snapshots, 0) = {} /\ Merged(snapshots, <<>>, 0)
  BY DEF Claimed, Merged
<1> HIDE DEF table
<1>3. \A n \in 0 .. NBackends : Merged(snapshots, table(n), n)
  <2> SUFFICES ASSUME \E n \in 0 .. NBackends : ~Merged(snapshots, table(n), n) PROVE FALSE
    OBVIOUS
  <2> DEFINE wrong == {n \in 0 .. NBackends : ~Merged(snapshots, table(n), n)}
  <2>1. wrong \in SUBSET Nat /\ wrong # {} /\ \A n \in wrong : n \in 0 .. NBackends /\ ~Merged(snapshots, table(n), n)
    BY <1>0
  <2>2. \A m \in 0 .. NBackends : m \notin wrong => Merged(snapshots, table(m), m)
    OBVIOUS
  <2> HIDE DEF wrong
  <2>3. PICK n \in wrong : \A m \in wrong : n <= m
    BY <2>1, LeastNumber
  <2>4. n \in 0 .. NBackends /\ ~Merged(snapshots, table(n), n) /\ \A m \in 0 .. n - 1 : Merged(snapshots, table(m), m)
    BY <1>0, <2>1, <2>2, <2>3
  <2>5. n # 0
    BY <2>4, <1>1, <1>2
  <2>6. Merged(snapshots, Claim(table(n - 1), n, snapshots[n]), n)
    BY <2>4, <2>5, ClaimStep
  <2> QED BY <2>4, <2>6, <1>1
<1>4. \A n \in 0 .. NBackends : table(n) = IF n = 0 THEN <<>> ELSE Claim(table(n - 1), n, snapshots[n])
  <2>1. table(0) = <<>>
    BY <1>1, <1>2
  <2>2. ASSUME NEW n \in 1 .. NBackends
        PROVE  table(n) = Claim(table(n - 1), n, snapshots[n])
    BY <1>0, <1>1, <1>3, ClaimStep
  <2> QED BY <2>1, <2>2
<1>5. f = step(f)
  <2>1. \A n \in 0 .. NBackends : f[n] = table(n) /\ (n # 0 => f[n - 1] = table(n - 1))
    BY <1>0
  <2>2. \A n \in 0 .. NBackends : f[n] = IF n = 0 THEN <<>> ELSE Claim(f[n - 1], n, snapshots[n])
    BY <1>4, <2>1
  <2> QED BY <2>2
<1> DEFINE merged == CHOOSE g : g = step(g)
<1>6. merged = step(merged)
  <2> HIDE DEF f, step
  <2> QED BY <1>5
<1>7. MergeRoutes(snapshots) = merged[NBackends]
  BY DEF MergeRoutes
<1> HIDE DEF merged, f
<1>8. \A n \in 0 .. NBackends : Merged(snapshots, merged[n], n)
  <2> SUFFICES ASSUME \E n \in 0 .. NBackends : ~Merged(snapshots, merged[n], n) PROVE FALSE
    OBVIOUS
  <2> DEFINE wrong == {n \in 0 .. NBackends : ~Merged(snapshots, merged[n], n)}
  <2>1. wrong \in SUBSET Nat /\ wrong # {} /\ \A n \in wrong : n \in 0 .. NBackends /\ ~Merged(snapshots, merged[n], n)
    BY <1>0
  <2>2. \A m \in 0 .. NBackends : m \notin wrong => Merged(snapshots, merged[m], m)
    OBVIOUS
  <2> HIDE DEF wrong
  <2>3. PICK n \in wrong : \A m \in wrong : n <= m
    BY <2>1, LeastNumber
  <2>4. n \in 0 .. NBackends /\ ~Merged(snapshots, merged[n], n) /\ \A m \in 0 .. n - 1 : Merged(snapshots, merged[m], m)
    BY <1>0, <2>1, <2>2, <2>3
  <2>5. merged[n] = IF n = 0 THEN <<>> ELSE Claim(merged[n - 1], n, snapshots[n])
    BY <2>4, <1>6
  <2>6. n # 0
    BY <2>4, <2>5, <1>2
  <2> QED BY <2>4, <2>5, <2>6, ClaimStep
<1> QED BY <1>0, <1>7, <1>8

LEMMA MergedRoutes ==
    ASSUME NEW snapshots \in [Backend -> Advert]
    PROVE  /\ MergeRoutes(snapshots) \in Routes
           /\ MergeRoutes(snapshots) \notin {Unknown, NoFile, Down}
           /\ MergeRoutes(snapshots) =
                 [p \in UNION {snapshots[b] : b \in Backend} |->
                     CHOOSE b \in Backend : /\ p \in snapshots[b]
                                            /\ \A c \in b + 1 .. NBackends : p \notin snapshots[c]]
<1> DEFINE owners == MergeRoutes(snapshots)
           all == Claimed(snapshots, NBackends)
<1>1. NBackends \in Nat /\ Backend = 1 .. NBackends
  BY GatewayAssumption DEF Backend
<1>2. owners = [p \in all |-> owners[p]] /\ \A p \in all : Owns(snapshots, NBackends, p, owners[p])
  BY MergeIs DEF Merged
<1>3. all = UNION {snapshots[b] : b \in Backend} /\ all \in SUBSET Path
  BY <1>1 DEF Claimed, Advert
<1> HIDE DEF owners, all
<1>4. owners \in Routes
  <2>1. \A p \in all : owners[p] \in Backend
    BY <1>1, <1>2 DEF Owns
  <2>2. owners \in [all -> Backend]
    BY <1>2, <2>1
  <2> QED BY <2>2, <1>3 DEF Routes
<1>5. ASSUME NEW p \in all
      PROVE  owners[p] = CHOOSE b \in Backend : /\ p \in snapshots[b]
                                                /\ \A c \in b + 1 .. NBackends : p \notin snapshots[c]
  <2> DEFINE Last(b) == p \in snapshots[b] /\ \A c \in b + 1 .. NBackends : p \notin snapshots[c]
  <2>1. owners[p] \in Backend /\ Last(owners[p])
    BY <1>1, <1>2 DEF Owns
  <2>2. \A b \in Backend : Last(b) => b = owners[p]
    <3> SUFFICES ASSUME NEW b \in Backend, Last(b) PROVE b = owners[p]
      OBVIOUS
    <3>1. Owns(snapshots, NBackends, p, b) /\ Owns(snapshots, NBackends, p, owners[p])
      BY <1>1, <1>2 DEF Owns
    <3> QED BY <3>1, <1>1, OwnerIsUnique
  <2> HIDE DEF Last
  <2>3. owners[p] = CHOOSE b \in Backend : Last(b)
    BY <2>1, <2>2
  <2> QED BY <2>3 DEF Last
<1>6. owners = [p \in UNION {snapshots[b] : b \in Backend} |->
                   CHOOSE b \in Backend : /\ p \in snapshots[b]
                                          /\ \A c \in b + 1 .. NBackends : p \notin snapshots[c]]
  BY <1>2, <1>3, <1>5
<1> QED BY <1>4, <1>6, GatewayAssumption DEF owners

-----------------------------------------------------------------------------
(* The sidecar's state.                                                    *)

SidecarStep ==
    \/ Services \/ Monitor \/ Signal \/ Watchdog
    \/ Listen \/ BeginQuery \/ EndQuery \/ QueryRaises \/ ServerCrash

LEMMA SidecarTypes ==
    ASSUME SidecarTypeOK, SidecarStep
    PROVE  SidecarTypeOK'
<1>0. /\ exported \subseteq Operation /\ documented \subseteq exported /\ retired \subseteq Operation
      /\ monitor \in MonitorState /\ watchdog \in WatchdogState /\ server \in ServerState
      /\ pidfile \in BOOLEAN /\ missed \in BOOLEAN
  BY DEF SidecarTypeOK
<1>1. ReadmeCount \in 0 .. Cardinality(Operation) /\ 0 \in 0 .. Cardinality(Operation)
  <2>1. IsFiniteSet(Operation) /\ documented \subseteq Operation
    BY <1>0, SidecarAssumption
  <2>2. /\ Cardinality(documented) \in Nat /\ Cardinality(Operation) \in Nat
        /\ Cardinality(documented) <= Cardinality(Operation)
    BY <2>1, FS_Subset, FS_CardinalityType
  <2> QED BY <2>2 DEF ReadmeCount
<1>2. AttemptLimit \in Nat
  BY SidecarAssumption
<1>3. /\ NoServer \in ServerState /\ ServerOf("booting", exported) \in ServerState
      /\ NoAttempts \in [{"api", "owners", "server"} -> 0 .. AttemptLimit]
  BY <1>0, <1>2, SidecarAssumption DEF NoServer, ServerOf, ServerState, NoAttempts
<1>4. CASE Services
  <2>1. \A seen \in BOOLEAN : Noticed(seen) => monitor' \in MonitorState
    BY <1>0 DEF Noticed, MonitorState
  <2>2. PICK o \in Operation : Export(o) \/ Document(o) \/ Withdraw(o)
    BY <1>4 DEF Services
  <2>3. exported' \subseteq Operation /\ documented' \subseteq exported' /\ retired' \subseteq Operation
    BY <1>0, <2>2 DEF Export, Document, Withdraw
  <2>4. monitor' \in MonitorState /\ missed' \in BOOLEAN /\ UNCHANGED <<watchdog, server, pidfile>>
    BY <1>0, <2>1, <2>2 DEF Export, Document, Withdraw
  <2> QED BY <1>0, <2>3, <2>4 DEF SidecarTypeOK
<1>5. CASE Monitor \/ Signal
  <2>1. UNCHANGED <<exported, documented, retired, watchdog, pidfile>> /\ missed' \in BOOLEAN
    BY <1>0, <1>5 DEF Monitor, WatchEnds, StillStarting, GiveUp, Settled, Restart, Stopped, Signal
  <2>2. monitor' \in MonitorState
    BY <1>0, <1>1, <1>5
       DEF Monitor, WatchEnds, StillStarting, GiveUp, Settled, Restart, Stopped, Signal, MonitorGoes, MonitorState
  <2>3. server' \in ServerState
    BY <1>0, <1>3, <1>5 DEF Monitor, WatchEnds, StillStarting, GiveUp, Settled, Restart, Stopped, Signal
  <2> QED BY <1>0, <2>1, <2>2, <2>3 DEF SidecarTypeOK
<1>6. CASE Watchdog
  <2>1. UNCHANGED <<exported, documented, retired, monitor, missed>> /\ pidfile' \in BOOLEAN
    BY <1>0, <1>6 DEF Watchdog, Clean, GatherFails, Gather, ProbeFails, PublishPid, ServerGone
  <2>2. server' \in ServerState
    BY <1>0, <1>3, <1>6 DEF Watchdog, Clean, GatherFails, Gather, ProbeFails, PublishPid, ServerGone
  <2>3. \A wait \in {"api", "owners", "server"}, there \in {"clean", "probe"} :
           Retry(wait, there) => watchdog' \in WatchdogState
    <3> SUFFICES ASSUME NEW wait \in {"api", "owners", "server"}, NEW there \in {"clean", "probe"},
                        Retry(wait, there)
                 PROVE  watchdog' \in WatchdogState
      OBVIOUS
    <3> DEFINE attempts == [watchdog.attempts EXCEPT ![wait] = @ + 1]
    <3>1. [watchdog EXCEPT !.at = "exited"] \in WatchdogState
      BY <1>0 DEF WatchdogState
    <3>2. watchdog.attempts \in [{"api", "owners", "server"} -> 0 .. AttemptLimit]
      BY <1>0 DEF WatchdogState
    <3>3. CASE watchdog.attempts[wait] # AttemptLimit
      <4>1. attempts \in [{"api", "owners", "server"} -> 0 .. AttemptLimit]
        BY <3>2, <3>3, <1>2
      <4>2. watchdog' = [watchdog EXCEPT !.at = there, !.attempts = attempts]
        BY <3>3, <1>0 DEF Retry, WatchdogState
      <4> HIDE DEF attempts
      <4> QED BY <4>1, <4>2, <1>0 DEF WatchdogState
    <3> QED BY <3>1, <3>3 DEF Retry
  <2>4. watchdog' \in WatchdogState
    <3>1. CASE GatherFails \/ ProbeFails
      BY <3>1, <2>3 DEF GatherFails, ProbeFails
    <3>2. CASE Clean \/ ServerGone
      BY <3>2, <1>0 DEF Clean, ServerGone, WatchdogState
    <3>3. CASE Gather \/ PublishPid
      BY <3>3, <1>3 DEF Gather, PublishPid, WatchdogState
    <3> QED BY <3>1, <3>2, <3>3, <1>6 DEF Watchdog
  <2> QED BY <1>0, <2>1, <2>2, <2>4 DEF SidecarTypeOK
<1>7. CASE Listen \/ BeginQuery \/ EndQuery \/ QueryRaises \/ ServerCrash
  <2>1. UNCHANGED <<exported, documented, retired, monitor, watchdog, pidfile, missed>>
    BY <1>7 DEF Listen, BeginQuery, EndQuery, QueryRaises, ServerCrash
  <2>2. server' \in ServerState
    <3>1. server.running < MaxQueries => server.running + 1 \in 0 .. MaxQueries
      BY <1>0, SidecarAssumption DEF ServerState
    <3>2. server.running > 0 => server.running - 1 \in 0 .. MaxQueries
      BY <1>0, SidecarAssumption DEF ServerState
    <3> QED BY <1>0, <1>3, <1>7, <3>1, <3>2
            DEF Listen, BeginQuery, EndQuery, QueryRaises, ServerCrash, ServerState
  <2> QED BY <1>0, <2>1, <2>2 DEF SidecarTypeOK
<1> QED BY <1>4, <1>5, <1>6, <1>7 DEF SidecarStep

-----------------------------------------------------------------------------
(* The controller, its files and Envoy.  What a controller knows to have   *)
(* published is in both files unless it is just replacing it, and a READY  *)
(* left by another incarnation is gone before this one looks at a backend. *)

Current == MergeRoutes(controller.snapshots)

Publishing ==
    /\ At("down") => controller = NoController
    /\ At("rds") \/ At("ready") => Discovered(controller.snapshots)
    /\ ready # NoFile /\ ~ At("down") => Discovered(controller.snapshots)
    /\ At("ready") => rds = Current
    /\ At("wait") \/ At("poll") => controller.published \in {Unknown, ready} /\ controller.published \in {Unknown, rds}
    /\ At("wait") /\ Discovered(controller.snapshots) => controller.published = Current
    /\ ready # NoFile \/ envoy # Down => rds # NoFile
    /\ EnvoyHasRoutes

FInv == TypeOK /\ Publishing

LEMMA GatewayFields ==
    ASSUME GatewayTypeOK
    PROVE  /\ controller \in ControllerState
           /\ controller.snapshots \in [Backend -> {Unknown} \cup Advert]
           /\ controller.published \in {Unknown} \cup Routes /\ controller.pending \in SUBSET Backend
           /\ controller.changed \in BOOLEAN
           /\ offer \in [Backend -> {NoAnswer} \cup Advert]
           /\ ready \in {NoFile} \cup Routes /\ rds \in {NoFile} \cup Routes
           /\ envoy \in {Down, NoFile} \cup Routes
           /\ Discovered(controller.snapshots) => controller.snapshots \in [Backend -> Advert]
BY DEF GatewayTypeOK, ControllerState, Discovered

LEMMA PolledIs ==
    ASSUME GatewayTypeOK, NEW b \in Backend, NEW document \in {NoAnswer} \cup Advert, Polled(b, document)
    PROVE  /\ controller' \in ControllerState /\ controller'.published = controller.published
           /\ controller'.at \in {"poll", "rds", "wait"}
           /\ Discovered(controller.snapshots) => Discovered(controller'.snapshots)
           /\ controller'.at = "rds" => Discovered(controller'.snapshots)
           /\ controller'.at = "wait" /\ Discovered(controller'.snapshots) =>
                 controller'.published = MergeRoutes(controller'.snapshots)
<1> DEFINE pending == controller.pending \ {b}
           fresh == document \notin {NoAnswer, controller.snapshots[b]}
           changed == controller.changed \/ fresh
           snapshots == IF fresh THEN [controller.snapshots EXCEPT ![b] = document] ELSE controller.snapshots
           due == Discovered(snapshots) /\ (changed \/ MergeRoutes(snapshots) # controller.published)
           still == changed /\ pending # {}
           next == IF pending # {} THEN "poll" ELSE IF due THEN "rds" ELSE "wait"
<1>1. controller' = [controller EXCEPT !.pending = pending, !.snapshots = snapshots, !.changed = still, !.at = next]
  BY DEF Polled
<1>2. pending \in SUBSET Backend /\ still \in BOOLEAN /\ next \in {"poll", "rds", "wait"}
  BY GatewayFields
<1>3. fresh => document \in Advert /\ document # Unknown
  BY GatewayAssumption
<1>4. snapshots \in [Backend -> {Unknown} \cup Advert]
  BY <1>3, GatewayFields
<1>5. Discovered(controller.snapshots) => Discovered(snapshots)
  BY <1>3, GatewayFields DEF Discovered
<1>6. next = "rds" => Discovered(snapshots)
  OBVIOUS
<1>7. next = "wait" /\ Discovered(snapshots) => controller.published = MergeRoutes(snapshots)
  OBVIOUS
<1> HIDE DEF pending, changed, snapshots, due, still, next, fresh
<1>8. /\ controller' \in ControllerState /\ controller'.published = controller.published
      /\ controller'.at = next /\ controller'.snapshots = snapshots
  BY <1>1, <1>2, <1>4, GatewayFields DEF ControllerState
<1> QED BY <1>2, <1>5, <1>6, <1>7, <1>8

LEMMA InitInvariant == Init => FInv
<1> SUFFICES ASSUME Init PROVE FInv
  OBVIOUS
<1>0. SidecarInit /\ GatewayInit /\ faults = 0
  BY DEF Init
<1>1. SidecarTypeOK
  <2>1. AttemptLimit \in Nat /\ Cardinality(Operation) \in Nat
    BY SidecarAssumption, FS_CardinalityType
  <2>2. monitor \in MonitorState
    BY <1>0, <2>1 DEF SidecarInit, MonitorState
  <2>3. watchdog \in WatchdogState
    <3>1. NoAttempts \in [{"api", "owners", "server"} -> 0 .. AttemptLimit]
      BY <2>1 DEF NoAttempts
    <3> QED BY <1>0, <3>1 DEF SidecarInit, WatchdogState
  <2>4. server \in ServerState
    BY <1>0, SidecarAssumption DEF SidecarInit, NoServer, ServerOf, ServerState
  <2> QED BY <1>0, <2>2, <2>3, <2>4 DEF SidecarInit, SidecarTypeOK
<1>2. controller = NoController /\ ready = NoFile /\ rds = NoFile /\ envoy = Down
  BY <1>0 DEF GatewayInit
<1>3. NoController \in ControllerState
  <2>1. NoSnapshots \in [Backend -> {Unknown} \cup Advert]
    BY DEF NoSnapshots
  <2> QED BY <2>1 DEF NoController, ControllerState
<1>4. offer \in [Backend -> {NoAnswer} \cup Advert]
  BY FrontAssumption DEF Init, Advert
<1>5. TypeOK
  BY <1>0, <1>1, <1>2, <1>3, <1>4, FrontAssumption DEF TypeOK, GatewayTypeOK
<1>6. Publishing
  BY <1>2, GatewayAssumption DEF Publishing, At, NoController, EnvoyHasRoutes
<1> QED BY <1>5, <1>6 DEF FInv

LEMMA InvariantStep ==
    ASSUME FInv, [Next]_vars
    PROVE  FInv'
<1>0. /\ TypeOK /\ SidecarTypeOK /\ GatewayTypeOK /\ Publishing /\ faults \in 0 .. MaxFaults
      /\ controller \in ControllerState /\ RestApi \in Backend /\ Ambassador \in Backend
      /\ ready \in {NoFile} \cup Routes /\ rds \in {NoFile} \cup Routes /\ envoy \in {Down, NoFile} \cup Routes
      /\ offer \in [Backend -> {NoAnswer} \cup Advert]
  BY GatewayFields, FrontAssumption DEF FInv, TypeOK, Backend, RestApi, Ambassador
<1>1. NoFault \/ Fault => faults' \in 0 .. MaxFaults
  BY <1>0, FrontAssumption DEF NoFault, Fault
<1>2. ASSUME UNCHANGED <<controller, ready, rds, envoy>>
      PROVE  Publishing'
  BY <1>0, <1>2 DEF Publishing, At, Current, EnvoyHasRoutes
<1>3. CASE \/ ServicesMove \/ MonitorMoves \/ MonitorSignals \/ WatchdogMoves \/ ServerListens
           \/ QueryBegins \/ QueryEnds \/ QueryLeaks \/ ServerFails
  <2>1. /\ SidecarStep /\ (NoFault \/ Fault) /\ OnlyOffer
        /\ offer' = [offer EXCEPT ![RestApi] = Advertised']
    BY <1>3 DEF ServicesMove, MonitorMoves, MonitorSignals, WatchdogMoves, ServerListens,
                QueryBegins, QueryEnds, QueryLeaks, ServerFails, Sidecar, SidecarStep
  <2>2. SidecarTypeOK'
    BY <2>1, <1>0, SidecarTypes
  <2>3. Advertised' \in {NoAnswer} \cup Advert
    BY <2>2, FrontAssumption DEF Advertised, Advert, SidecarTypeOK, ServerState
  <2>4. offer' \in [Backend -> {NoAnswer} \cup Advert]
    BY <2>1, <2>3, <1>0
  <2>5. GatewayTypeOK'
    BY <2>1, <2>4, <1>0 DEF GatewayTypeOK, OnlyOffer
  <2> QED BY <2>1, <2>2, <2>5, <1>1, <1>2 DEF FInv, TypeOK, OnlyOffer
<1>4. CASE AmbassadorStops \/ AmbassadorStarts
  <2>1. /\ offer' \in [Backend -> {NoAnswer} \cup Advert] /\ OnlyOffer /\ UNCHANGED sidecarVars /\ (NoFault \/ Fault)
    BY <1>0, <1>4, FrontAssumption DEF AmbassadorStops, AmbassadorStarts, Advert
  <2>2. GatewayTypeOK' /\ SidecarTypeOK'
    BY <2>1, <1>0 DEF GatewayTypeOK, OnlyOffer, SidecarTypeOK, sidecarVars
  <2> QED BY <2>1, <2>2, <1>1, <1>2 DEF FInv, TypeOK, OnlyOffer
<1>5. ASSUME UNCHANGED sidecarVars, NoFault \/ Fault, GatewayTypeOK', Publishing'
      PROVE  FInv'
  BY <1>0, <1>1, <1>5 DEF FInv, TypeOK, SidecarTypeOK, sidecarVars
<1>6. /\ \A to : Goes(to) => /\ controller'.at = to /\ controller'.snapshots = controller.snapshots
                             /\ controller'.published = controller.published
                             /\ (to \in {"wait", "rds", "ready"} => controller' \in ControllerState)
  BY <1>0 DEF Goes, ControllerState
<1>7. Discovered(controller.snapshots) => /\ Current \in Routes /\ Current \notin {Unknown, NoFile, Down}
  BY <1>0, GatewayFields, MergedRoutes DEF Current
<1>8. CASE ControllerMoves
  <2>1. CASE StartController
    <3>1. /\ controller'.at = "wait" /\ controller' \in ControllerState
          /\ controller'.snapshots = NoSnapshots /\ controller'.published = Unknown
          /\ ready' = NoFile /\ UNCHANGED <<offer, rds, envoy>>
      BY <2>1, <1>0, <1>6 DEF StartController, Publishing, NoController
    <3>2. ~Discovered(NoSnapshots)
      BY <1>0 DEF Discovered, NoSnapshots
    <3>3. GatewayTypeOK'
      BY <3>1, <1>0 DEF GatewayTypeOK
    <3>4. Publishing'
      BY <3>1, <3>2, <1>0 DEF Publishing, At, EnvoyHasRoutes
    <3> QED BY <3>3, <3>4, <1>5, <1>8 DEF ControllerMoves
  <2>2. CASE PollBackends
    <3>1. /\ controller'.at = "poll" /\ controller' \in ControllerState
          /\ controller'.snapshots = controller.snapshots /\ controller'.published = controller.published
          /\ At("wait") /\ UNCHANGED <<offer, ready, rds, envoy>>
      BY <2>2, <1>0 DEF PollBackends, ControllerState
    <3>2. GatewayTypeOK'
      BY <3>1, <1>0 DEF GatewayTypeOK
    <3>3. Publishing'
      BY <3>1, <1>0 DEF Publishing, At, Current, EnvoyHasRoutes
    <3> QED BY <3>2, <3>3, <1>5, <1>8 DEF ControllerMoves
  <2>3. CASE PublishRds
    <3>1. /\ At("rds") /\ controller'.at = "ready" /\ controller' \in ControllerState
          /\ controller'.snapshots = controller.snapshots /\ controller'.published = controller.published
          /\ rds' = Current /\ UNCHANGED <<offer, ready, envoy>>
      BY <2>3, <1>6 DEF PublishRds, Current
    <3>2. Discovered(controller.snapshots)
      BY <3>1, <1>0 DEF Publishing
    <3>3. GatewayTypeOK'
      BY <3>1, <3>2, <1>0, <1>7 DEF GatewayTypeOK
    <3>4. Publishing'
      BY <3>1, <3>2, <1>0, <1>7 DEF Publishing, At, Current, EnvoyHasRoutes
    <3> QED BY <3>3, <3>4, <1>5, <1>8 DEF ControllerMoves
  <2>4. CASE PublishReady
    <3>1. At("ready") /\ Discovered(controller.snapshots) /\ rds = Current
      BY <2>4, <1>0 DEF PublishReady, Publishing
    <3>2. /\ controller'.at = "wait" /\ controller' \in ControllerState
          /\ controller'.snapshots = controller.snapshots /\ controller'.published = Current
          /\ ready' = Current /\ UNCHANGED <<offer, rds, envoy>>
      <4>1. ready' = Current /\ Current \in Routes
        BY <2>4, <3>1, <1>7 DEF PublishReady, Current
      <4>2. controller' = [controller EXCEPT !.at = "wait", !.published = ready'] /\ UNCHANGED <<offer, rds, envoy>>
        BY <2>4 DEF PublishReady
      <4> QED BY <4>1, <4>2, <1>0 DEF ControllerState
    <3>3. GatewayTypeOK'
      BY <3>1, <3>2, <1>0, <1>7 DEF GatewayTypeOK
    <3>4. Publishing'
      BY <3>1, <3>2, <1>0, <1>7 DEF Publishing, At, Current, EnvoyHasRoutes
    <3> QED BY <3>3, <3>4, <1>5, <1>8 DEF ControllerMoves
  <2> QED BY <2>1, <2>2, <2>3, <2>4, <1>8 DEF ControllerMoves, Controller
<1>9. CASE ControllerFails
  <2>1. controller' = NoController /\ NoController \in ControllerState /\ UNCHANGED <<offer, ready, rds, envoy>>
    BY <1>9 DEF ControllerFails, ControllerCrash, NoController, NoSnapshots, ControllerState
  <2>2. GatewayTypeOK'
    BY <2>1, <1>0 DEF GatewayTypeOK
  <2>3. Publishing'
    BY <2>1, <1>0 DEF Publishing, At, NoController, EnvoyHasRoutes
  <2> QED BY <2>2, <2>3, <1>5, <1>9 DEF ControllerFails
<1>10. CASE EnvoyMoves
  <2>1. UNCHANGED <<offer, controller, ready, rds>> /\ envoy' = rds /\ rds # NoFile
    BY <1>0, <1>10 DEF EnvoyMoves, EnvoyStarts, EnvoyReloads, Publishing
  <2>2. GatewayTypeOK'
    BY <2>1, <1>0 DEF GatewayTypeOK
  <2>3. Publishing'
    BY <2>1, <1>0 DEF Publishing, At, Current, EnvoyHasRoutes
  <2> QED BY <2>2, <2>3, <1>5, <1>10 DEF EnvoyMoves
<1>11. ASSUME NEW b \in Backend, Fetches(b) \/ PollFails(b)
       PROVE  FInv'
  <2>1. PICK document \in {NoAnswer} \cup Advert : At("poll") /\ Polled(b, document)
    BY <1>0, <1>11 DEF Fetches, PollFails, Fetch, FetchFails
  <2>2. /\ controller' \in ControllerState /\ controller'.published = controller.published
        /\ controller'.at \in {"poll", "rds", "wait"}
        /\ Discovered(controller.snapshots) => Discovered(controller'.snapshots)
        /\ controller'.at = "rds" => Discovered(controller'.snapshots)
        /\ controller'.at = "wait" /\ Discovered(controller'.snapshots) =>
              controller'.published = MergeRoutes(controller'.snapshots)
    BY <2>1, <1>0, PolledIs
  <2>3. UNCHANGED <<offer, ready, rds, envoy>> /\ UNCHANGED sidecarVars /\ (NoFault \/ Fault)
    BY <1>11 DEF Fetches, PollFails, Fetch, FetchFails
  <2>4. GatewayTypeOK'
    BY <2>2, <2>3, <1>0 DEF GatewayTypeOK
  <2>5. Publishing'
    BY <2>1, <2>2, <2>3, <1>0 DEF Publishing, At, Current, EnvoyHasRoutes
  <2> QED BY <2>3, <2>4, <2>5, <1>5
<1>12. CASE UNCHANGED vars
  <2>1. UNCHANGED <<sidecarVars, gatewayVars, faults>>
    BY <1>12 DEF vars
  <2> QED BY <2>1, <1>0, <1>2 DEF FInv, TypeOK, SidecarTypeOK, sidecarVars, GatewayTypeOK, gatewayVars
<1> QED BY <1>3, <1>4, <1>8, <1>9, <1>10, <1>11, <1>12 DEF Next

(* Every variable of the sidecar, the gateway and Envoy keeps its type: no *)
(* wait of watchdog_server.sh is tried more often than its limit.          *)
THEOREM TypeCorrect == Spec => []TypeOK
<1>1. FInv => TypeOK
  BY DEF FInv
<1> QED BY InitInvariant, InvariantStep, <1>1, PTL DEF Spec

(* Envoy never runs without routes: whatever crashes between the two       *)
(* files, a READY that lets it start stands for an rds that is there       *)
(* (publish_routes writes it last, run removes it first: controller.py).   *)
THEOREM EnvoyNeverBare == Spec => []EnvoyHasRoutes
<1>1. FInv => EnvoyHasRoutes
  BY DEF FInv, Publishing
<1> QED BY InitInvariant, InvariantStep, <1>1, PTL DEF Spec

(* No controller is ready on the word of an earlier incarnation (run of    *)
(* controller.py removes READY_PATH before it discovers).                  *)
THEOREM ReadyIsOwn == Spec => []ReadyMeansDiscovered
<1>1. FInv => ReadyMeansDiscovered
  BY DEF FInv, Publishing, ReadyMeansDiscovered
<1> QED BY InitInvariant, InvariantStep, <1>1, PTL DEF Spec

(* Between two polls both files hold the merge of the last valid           *)
(* snapshots, and the merge gives each path to its last owner              *)
(* (merge_routes and publish_routes of controller.py).                     *)
THEOREM RoutesAreCurrent == Spec => []PublishedRoutesAreCurrent
<1>1. FInv => PublishedRoutesAreCurrent
  <2> SUFFICES ASSUME FInv, At("wait"), Discovered(controller.snapshots)
               PROVE  /\ rds = [p \in UNION {controller.snapshots[b] : b \in Backend} |-> LastOwner(p)]
                      /\ ready = rds
    BY DEF PublishedRoutesAreCurrent
  <2>1. controller.snapshots \in [Backend -> Advert]
    BY GatewayFields DEF FInv, TypeOK
  <2>2. rds = Current /\ ready = rds
    BY <2>1, MergedRoutes DEF FInv, Publishing, Current
  <2>3. Current = [p \in UNION {controller.snapshots[b] : b \in Backend} |-> LastOwner(p)]
    BY <2>1, MergedRoutes DEF Current, LastOwner
  <2> QED BY <2>2, <2>3
<1> QED BY InitInvariant, InvariantStep, <1>1, PTL DEF Spec
=============================================================================
