----------------------------- MODULE DoctorProbes ----------------------------
(***************************************************************************)
(* The rows of zegel doctor (cli/src/core/probes.ts, core/anchor.ts) and   *)
(* what the command says on their strength (commands/doctor.ts).           *)
(***************************************************************************)
EXTENDS SealBackend, FiniteSets

Ids == {"mobula-demo", "mobula-graphql", "mobula-prod", "mobula-flaky", "swarm-gateway", "bee-node",
        "rpc-ethereum", "rpc-base", "anchor-base"}
Capability == {"ok", "degraded", "unavailable", "not-configured"}

\* What the hosts answer that no command of this model depends on: the GraphQL
\* host, the three flaky routes, the Base RPC and the contract behind it.
Elsewhere == [graphql : BOOLEAN, flaky : 0..3, base : {"none", "other chain", "chain"},
              anchor : {"none", "valid", "another status"}]

\* One GET under a timeout: an error status and no answer are the same to a row,
\* and so is any body of a 200.
request(answered) == IF answered THEN "ok" ELSE "unavailable"

mobulaDemo == request(up("demo"))

mobulaGraphql(e) == request(e.graphql)

mobulaProd == IF settings.apiKey \in {"unset", "empty"} THEN "not-configured" ELSE request(settings.apiKey = "good")

\* All of the three routes, some or none.
mobulaFlaky(e) == CASE e.flaky = 3 -> "ok" [] e.flaky = 0 -> "unavailable" [] OTHER -> "degraded"

swarmGateway == request(up("gateway"))

\* usable, and not full; the depth is not asked for.
usableBatches == world.bee.batch \in {"shallow", "good"}

\* Each request has 8 s of its own. The key has to come from /addresses: a
\* configured one is not looked at.
beeNode ==
    IF ~isNode THEN "unavailable"
    ELSE IF world.bee.reports /\ usableBatches THEN "ok" ELSE "degraded"

\* eth_chainId, against the chain expected.
rpc(answer) == CASE answer = "none" -> "unavailable" [] answer = "chain" -> "ok" [] OTHER -> "degraded"

\* verify() for a reference known to be anchored.
probeAnchor(e) == CASE e.anchor = "none" -> "unavailable" [] e.anchor = "valid" -> "ok" [] OTHER -> "degraded"

\* --deep adds the flaky routes; without it the row is not there.
runProbes(deep, e) ==
    [id \in IF deep THEN Ids ELSE Ids \ {"mobula-flaky"} |->
        CASE id = "mobula-demo" -> mobulaDemo
          [] id = "mobula-graphql" -> mobulaGraphql(e)
          [] id = "mobula-prod" -> mobulaProd
          [] id = "mobula-flaky" -> mobulaFlaky(e)
          [] id = "swarm-gateway" -> swarmGateway
          [] id = "bee-node" -> beeNode
          [] id = "rpc-ethereum" -> rpc(IF settings.ethRpc \/ up("eth") THEN "chain" ELSE "none")
          [] id = "rpc-base" -> rpc(e.base)
          [] id = "anchor-base" -> probeAnchor(e)]

required == {"mobula-demo", "swarm-gateway"}

summarise(rows) ==
    [tally |-> [c \in Capability |-> Cardinality({id \in DOMAIN rows : rows[id] = c})],
     blocking |-> {id \in required : rows[id] # "ok"}]

demoPathReady(rows) == summarise(rows).blocking = {}

\* What a reader takes from the table: that scan and issue will run, that
\* readers can be named, that names resolve.
told(rows) ==
    {t \in {"run", "grant", "names"} :
        /\ t = "run" => demoPathReady(rows)
        /\ t = "grant" => rows["bee-node"] = "ok"
        /\ t = "names" => rows["rpc-ethereum"] = "ok"}

\* Every report doctor may give now, reduced to its exit code and what it tells.
doctor ==
    {[code |-> IF demoPathReady(rows) THEN 0 ELSE 1, told |-> told(rows)] :
        rows \in {runProbes(deep, e) : deep \in BOOLEAN, e \in Elsewhere}}
=============================================================================
