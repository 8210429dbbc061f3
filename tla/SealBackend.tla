----------------------------- MODULE SealBackend -----------------------------
(***************************************************************************)
(* Which Swarm node a SealClient works with: connectBackend                *)
(* (packages/seal/src/backend.ts), the batch it stamps with (postage.ts)   *)
(* and the publisher it reports, over services that come and go and an     *)
(* environment the operator has set once. Every operator reads the         *)
(* services as they are at that moment.                                    *)
(***************************************************************************)
EXTENDS Naturals

CONSTANTS Unset,       \* no publisher: none configured, none reported
          NodeKey,     \* the publisher key of the operator's own Bee node
          GatewayKey,  \* the publisher key of the public gateway's node
          Malformed    \* a configured publisher that is no compressed key

VARIABLES
    world,     \* the services as they are
    settings   \* the environment variables of the process

\* The hosts that may answer: Mobula's demo host, the public Swarm gateway, the
\* public Ethereum RPCs.
Hosts == {"demo", "gateway", "eth"}

\* What a Bee URL may lead to. The batch is the one the node has, if any:
\* bought and not usable yet, of a depth below DEMO_BATCH_DEPTH, with its
\* buckets full, or good. A slow node takes longer over /health and /gateway than
\* probeNode waits, and no longer than doctor does.
Batches == {"none", "pending", "shallow", "full", "good"}
NoNode == [kind : {"down", "gateway"}, reports : {FALSE}, batch : {"none"}, slow : {FALSE}]
Nodes == NoNode \cup [kind : {"node"}, reports : BOOLEAN, batch : Batches, slow : BOOLEAN]

\* The Mobula hosts are garbled while they answer some route of a collection with
\* a 200 whose body is no JSON.
Worlds == [hosts : SUBSET Hosts, garbled : BOOLEAN, bee : Nodes]

\* MOBULA_API_KEY, ZEGEL_POSTAGE_BATCH_ID (none, the batch above, or one the node
\* does not have), ZEGEL_ACT_PUBLISHER and ETH_RPC_URL, whose endpoint is up.
AllSettings == [apiKey : {"unset", "empty", "rejected", "good"}, batchId : {"unset", "own", "foreign"},
                actPublisher : {Unset, NodeKey, GatewayKey, Malformed}, ethRpc : BOOLEAN]

up(host) == host \in world.hosts

\* A gateway that answers /health at the Bee URL advertises itself and is not
\* taken for a node.
isNode == world.bee.kind = "node"

\* One timer of 1.5 s over both requests.
probeNode == isNode /\ ~world.bee.slow

resolveKind(kind) == IF kind # "auto" THEN kind ELSE IF probeNode THEN "node" ELSE "gateway"

\* Any value set is parsed, and one that does not parse is thrown at the caller.
publisherThrows == settings.actPublisher = Malformed

\* The configured key wins over the one the node reports.
resolvePublisher(own, reports) ==
    IF settings.actPublisher # Unset THEN settings.actPublisher
    ELSE IF reports THEN own ELSE Unset

\* A batch that bee.stamp.getAll offers for reuse.
reusable(batch) == batch = "good"

\* Whether a connection to the node finds a batch. A configured one is taken as
\* it is once usable, full or not; while it is pending the wait ends with the
\* batch usable or with an error. One the node does not have is an error. No
\* caller allows a purchase.
ensureUsableBatch ==
    \/ settings.batchId = "own" /\ world.bee.batch \in {"shallow", "full", "good"}
    \/ settings.batchId = "unset" /\ reusable(world.bee.batch)

NoClient == [kind |-> "none", publisher |-> Unset]

\* The node has to answer, however long it takes, and to have a batch.
connectNode ==
    IF isNode /\ ~publisherThrows /\ ensureUsableBatch
    THEN [kind |-> "node", publisher |-> resolvePublisher(NodeKey, world.bee.reports)]
    ELSE NoClient

\* The gateway has to answer; it 404s /addresses and takes the null stamp.
connectGateway ==
    IF up("gateway") /\ ~publisherThrows
    THEN [kind |-> "gateway", publisher |-> resolvePublisher(GatewayKey, FALSE)]
    ELSE NoClient

connectBackend(kind) == IF resolveKind(kind) = "node" THEN connectNode ELSE connectGateway

canManageGrantees(client) == client.kind = "node"

\* Whether a stamped write comes through: the backend is there and, on our own
\* node, the batch has room.
accepts(client) ==
    \/ client.kind = "gateway" /\ up("gateway")
    \/ client.kind = "node" /\ isNode /\ world.bee.batch \in {"shallow", "good"}

\* Whose key an object uploaded there is sealed with.
ownKey(client) == IF client.kind = "node" THEN NodeKey ELSE GatewayKey
=============================================================================
