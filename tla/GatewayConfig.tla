--------------------------- MODULE GatewayConfig ----------------------------
(***************************************************************************)
(* What a gateway process is configured to be: loadConfig                  *)
(* (gateway/src/config.ts) and the choice of store of the three entry      *)
(* points (index.ts, worker.ts, vercel-entry.ts, store/factory.ts), from   *)
(* the environment variables. A variable that is set is a value or         *)
(* Malformed. The two times to live are SignatureTtl and HttpTtl of        *)
(* CcipRead; the texts of the warnings are left out.                       *)
(***************************************************************************)
EXTENDS StoredEnvelope

CONSTANTS
    Nodes,       \* ENS names, by namehash
    Owners,      \* accounts that own names and sign publishes
    NoOwner,     \* nobody: the zero address
    Seeds,       \* the records a Worker may be deployed with
    NoRecord,
    Unset,       \* a variable that is not set
    Wrapper,     \* the NameWrapper's address
    EnsRegistry, \* the registry's
    Stray,       \* a contract that is neither, and holds no name
    Resolvers,   \* addresses of deployed and other resolvers
    SignerKey    \* the key a deployed resolver may allow

optional(values) == {Unset, Malformed} \cup values

Env == [entry : {"node", "worker", "vercel"}, production : BOOLEAN, rpcUrl : BOOLEAN,
        signerKey : optional({SignerKey}), resolver : optional(Resolvers),
        nameWrapper : optional({Wrapper, Stray}), ensRegistry : optional({EnsRegistry, Stray}),
        nameOwners : {Malformed} \cup [Nodes -> Owners \cup {NoOwner}],
        store : optional({"memory", "file", "swarm-feed"}), feedOwner : optional(Owners),
        seed : optional([Nodes -> Seeds \cup {NoRecord}])]
----------------------------------------------------------------------------
\* The store an entry point makes: a Worker's seed comes before ZEGEL_STORE,
\* and only the Node process has a disk to default to.
storeOf(env) ==
    IF env.entry = "worker" /\ env.seed # Unset THEN "memory"
    ELSE IF env.store # Unset THEN env.store
    ELSE IF env.entry = "node" THEN "file" ELSE "swarm-feed"

storeBoots(env) ==
    LET kind == storeOf(env)
    IN  /\ kind # Malformed
        /\ kind = "file" => env.entry = "node"
        /\ kind = "swarm-feed" => env.feedOwner \notin {Unset, Malformed}
        /\ env.entry = "worker" /\ env.seed # Unset =>
              /\ env.seed # Malformed
              /\ \A n \in Nodes : env.seed[n] # NoRecord => parses(env.seed[n].envelope)

\* Nothing in the environment makes the process throw: an address has to be one,
\* whosever it is. The map of owners is read only if there is no chain to ask.
boots(env) ==
    /\ storeBoots(env)
    /\ env.signerKey # Malformed
    /\ env.signerKey = Unset => ~env.production
    /\ Malformed \notin {env.resolver, env.nameWrapper, env.ensRegistry}
    /\ ~env.rpcUrl => env.nameOwners # Malformed

\* Mutant of ownersOf: a configured map of owners goes before the chain.
ownersOf_MapFirst(env) ==
    IF env.nameOwners # [n \in Nodes |-> NoOwner] \/ ~env.rpcUrl
    THEN [kind |-> "static", map |-> env.nameOwners]
    ELSE [kind |-> "chain", registry |-> EnsRegistry, nameWrapper |-> env.nameWrapper]

\* With a chain to ask, who owns a name is read from it; else it is what the
\* operator states.
ownersOf(env) ==
    IF env.rpcUrl
    THEN [kind |-> "chain", nameWrapper |-> env.nameWrapper,
          registry |-> IF env.ensRegistry = Unset THEN EnsRegistry ELSE env.ensRegistry]
    ELSE [kind |-> "static", map |-> env.nameOwners]

\* Resolvers are one or none: /health asks about the first only.
loadConfig(env) ==
    [ephemeralSigner |-> env.signerKey = Unset,
     resolver |-> env.resolver,
     client |-> env.rpcUrl,
     owners |-> ownersOf(env),
     store |-> storeOf(env),
     writable |-> storeOf(env) # "swarm-feed",
     seed |-> IF env.entry = "worker" /\ env.seed # Unset THEN env.seed ELSE [n \in Nodes |-> NoRecord]]
=============================================================================
