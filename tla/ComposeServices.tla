---------------------------- MODULE ComposeServices ----------------------------
(***************************************************************************)
(* internal/adapters/targets/compose/render.go: the services of a bundle,  *)
(* from the provider resources a plan has and from its change capture.     *)
(*                                                                         *)
(* A bundle is a function of the names of its services.  What the code     *)
(* takes from the iteration of a map, or from the order of the names of    *)
(* the planned resources, is any of the answers: an operator below gives   *)
(* the set of them.                                                        *)
(***************************************************************************)
EXTENDS ChangeCapture

EventStreamService == <<"event", "stream">>
UtilityService == <<"runtime", "utility">>

\* talksTo: the broker of a worker, the endpoint of a registration job.
composeService(capability, dependsOn, talksTo) ==
  [capability |-> capability, dependsOn |-> dependsOn, talksTo |-> talksTo]

\* The functions that have one of its answers for each; most have only one.
Answers(answers) ==
  LET loose == {x \in DOMAIN answers : \E a, b \in answers[x] : a # b}
      picks == {f \in [loose -> UNION {answers[x] : x \in loose}] :
                  \A x \in loose : f[x] \in answers[x]}
  IN {[x \in DOMAIN answers |-> IF x \in loose THEN f[x] ELSE CHOOSE a \in answers[x] : TRUE] :
        f \in picks}

namesOf(services) == {s[1] : s \in services}
namedAs(services, n) == {s[2] : s \in {t \in services : t[1] = n}}

\* Services of one name are one service: the first, with all their
\* dependencies.
merged(services, first) ==
  LET dependsOn(n) == UNION {s.dependsOn : s \in namedAs(services, n)} IN
  Answers([n \in DOMAIN first |-> {[s EXCEPT !.dependsOn = dependsOn(n)] : s \in first[n]}])

providerServices(planned) ==
  LET services == {<<s.name, composeService(s.capability, s.dependsOn, None)>> :
                     s \in {t \in UNION {p.services : p \in planned} : t.name # None}}
  IN merged(services, [n \in namesOf(services) |-> namedAs(services, n)])

Publishers(provided) == {n \in DOMAIN provided : provided[n].capability = "stream.publish"}

\* None: there is no such service.
streamServiceName(stream, provided) ==
  IF stream.name \in DOMAIN provided THEN {stream.name}
  ELSE IF EventStreamService \in DOMAIN provided THEN {EventStreamService}
  ELSE IF Publishers(provided) # {} THEN Publishers(provided) ELSE {None}

defaultBootstrapServers(provided) ==
  IF EventStreamService \in DOMAIN provided \/ Publishers(provided) = {}
    THEN {EventStreamService} ELSE Publishers(provided)

\* The databases and the brokers that are services of the bundle; streams:
\* the answers of streamServiceName.
cdcWorkerDependencies(connectors, provided, streams) ==
  {c.connection.host : c \in {d \in connectors : d.connection.host \in DOMAIN provided}}
    \cup ({streams[c] : c \in connectors} \ {None})

registerDependsOn_Never(instance, worker) == {}

registerDependsOn(instance, worker) ==
  IF instance.ownership = "managed" THEN {worker} ELSE {}

connectEndpoint(instance, worker) ==
  IF instance.ownership = "managed" THEN worker
  ELSE IF instance.endpoint # Unset THEN <<instance.endpoint>> ELSE <<"external", "cdc">>

Registered(instance) ==
  instance.ownership = "managed" \/ instance.policy = "ManagedConnectors"

\* The workers of managed instances that have connectors, and the jobs that
\* register these.
cdcServices(instances, connectors, provided, streams, brokers) ==
  UNION {LET own == {c \in connectors : c.instance = i.id}
             worker == cdcWorkerServiceName(i.id)
         IN {<<worker, composeService("source.change-stream",
                         cdcWorkerDependencies(own, provided, streams), brokers[i])>> :
               j \in {k \in {i} : k.ownership = "managed" /\ own # {}}}
            \cup {<<cdcRegisterServiceName(c),
                    composeService("source.change-stream", registerDependsOn(i, worker),
                                   connectEndpoint(i, worker))>> :
                    c \in {d \in own : Registered(i)}} :
           i \in instances}

\* Those of the providers come first.
withCDC(provided, cdc) ==
  LET all == cdc \cup {<<n, provided[n]>> : n \in DOMAIN provided} IN
  merged(all, [n \in namesOf(all) |->
                 IF n \in DOMAIN provided THEN {provided[n]} ELSE namedAs(cdc, n)])

rendered(services) ==
  [n \in DOMAIN services \ {UtilityService} |-> services[n]]

\* collectServices: the bundles that a plan may become.
collectServices(planned, instances, connectors) ==
  {rendered(services) : services \in
     UNION {UNION {withCDC(provided, cdcServices(instances, connectors, provided, a[1], a[2])) :
              a \in Answers([c \in connectors |-> streamServiceName(c.stream, provided)])
                      \X Answers([i \in instances |-> defaultBootstrapServers(provided)])} :
       provided \in providerServices(planned)}}
=============================================================================
