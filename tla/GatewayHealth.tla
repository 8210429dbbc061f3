--------------------------- MODULE GatewayHealth ----------------------------
(***************************************************************************)
(* GET /health (gateway/src/health.ts) beside the publishes and lookups of *)
(* a gateway, and the resolver on chain the gateway is configured for:     *)
(* whether it allows the configured key and names a gateway.               *)
(*                                                                         *)
(* The probes await the store, the owner lookup and the chain one after    *)
(* the other. A report says nothing of what changes meanwhile, so it is    *)
(* taken of one moment: buildHealthReport is an operator.                  *)
(***************************************************************************)
EXTENDS GatewayPublish

CONSTANT MaxFaults  \* bound: things wrong with resolver and RPC at once

VARIABLES
    allowed,  \* the resolver's signers(SignerKey)
    urls      \* whether its gatewayUrls() has any

serviceVars == <<vars, allowed, urls>>

Statuses == {"ok", "degraded", "down"}
----------------------------------------------------------------------------
(* Lookups, at one moment. *)

\* serveLookup and GET /envelopes/:node up to the record: 404 is no record.
held(n) == IF loaded = "ok" THEN mem.records[n] ELSE NoRecord

\* 410 is an envelope that has expired.
signable(n) == held(n) # NoRecord /\ expiresAtSeconds(held(n).envelope) > now

\* What the resolver's callback, and its own lookup before it, make of a response.
ResolverAccepts ==
    /\ config.resolver \in Deployed
    /\ urls
    /\ key = SignerKey /\ allowed
----------------------------------------------------------------------------
(* The probes. *)

worst(statuses) ==
    IF "down" \in statuses THEN "down" ELSE IF "degraded" \in statuses THEN "degraded" ELSE "ok"

records == Cardinality({n \in Nodes : mem.records[n] # NoRecord})

\* What the store's probe may find: the file store loads its file and asks
\* whether it may write there, the memory store is always well, and the feed
\* store asks its node, with any number of feeds read before.
storeStatus ==
    CASE config.store = "memory" -> {"ok"}
      [] config.store = "file" -> (IF loaded = "ok" THEN {"ok"} ELSE {})
                                    \cup {IF records > 0 THEN "degraded" ELSE "down"}
      [] config.store = "swarm-feed" -> Statuses

\* A gateway that takes publishes and cannot tell whose a name is still serves.
ownersStatus == IF config.writable /\ ~OwnersProbeOk THEN "degraded" ELSE "ok"

\* Mutant: an empty answer to gatewayUrls() is none of its business.
resolverStatus_AnyUrls ==
    IF ~config.client \/ config.resolver = Unset THEN "ok"
    ELSE IF ~reachable THEN "degraded"
    ELSE IF config.resolver \notin Deployed THEN "down"
    ELSE IF key # SignerKey \/ ~allowed THEN "degraded" ELSE "ok"

\* probeResolverOnChain; a probe that is skipped says nothing against the rest.
resolverStatus ==
    IF ~config.client \/ config.resolver = Unset THEN "ok"
    ELSE IF ~reachable THEN "degraded"
    ELSE IF config.resolver \notin Deployed THEN "down"
    ELSE IF key # SignerKey \/ ~allowed \/ ~urls THEN "degraded" ELSE "ok"

\* The status of the report, once the file has been read or has not.
buildHealthReport ==
    LET signer == IF config.ephemeralSigner THEN "degraded" ELSE "ok"
        allowlist == IF config.resolver = Unset THEN "degraded" ELSE "ok"
    IN  {worst({signer, status, allowlist, ownersStatus, resolverStatus}) : status \in storeStatus}
----------------------------------------------------------------------------
\* The owner of the resolver allows or bars the key, or sets its gateways. With
\* no resolver named, nothing of the gateway's depends on it.
Administer ==
    /\ config.resolver # Unset
    /\ \/ allowed' = ~allowed /\ UNCHANGED urls
       \/ urls' = ~urls /\ UNCHANGED allowed
    /\ UNCHANGED vars

Faults == {f \in {"rpc", "allowed", "urls"} :
              \/ f = "rpc" /\ ~reachable
              \/ f = "allowed" /\ ~allowed
              \/ f = "urls" /\ ~urls}

ServiceInit == Init /\ allowed = TRUE /\ urls = TRUE

ServiceNext ==
    /\ (Next /\ UNCHANGED <<allowed, urls>>) \/ Administer
    /\ Cardinality(Faults') =< MaxFaults

ServiceSpec == ServiceInit /\ [][ServiceNext]_serviceVars /\ Fairness
----------------------------------------------------------------------------
\* gateway/src/health.ts:40 and :66. A report that all is well, from a gateway
\* with a chain to ask, means that every name it can sign for resolves and, if it
\* takes publishes, that the owner lookup finds who holds a name and nobody else.
\* That does not go for a registry at another contract's address, nor for a
\* wrapped name without the wrapper's address or with a wrong one: the report
\* cannot tell. A report that it is down means that no name resolves through it.
HealthForetells ==
    loaded # "no" =>
        /\ "ok" \in buildHealthReport /\ config.client =>
              /\ loaded = "ok" /\ ResolverAccepts
              /\ config.writable => RegistryAnswers /\ \A n \in Nodes :
                    \/ config.owners.registry # EnsRegistry
                    \/ Wrapped(n) /\ config.owners.nameWrapper # Wrapper
                    \/ lookedUp(n) = {holder(n)}
        /\ "down" \in buildHealthReport /\ config.writable =>
              \A n \in Nodes : ~signable(n) \/ config.resolver \notin Deployed

\* gateway/src/envelope.ts:39: a name never serves a blob no client can read.
\* Whatever was published, seeded or read back from the file, an envelope the
\* gateway signs for passes the client's own check, every tier of it can be
\* asked for, and it has not expired at any instant of this second.
ServedIsReadable ==
    \A n \in Nodes : signable(n) =>
        LET text == held(n).envelope
        IN  /\ assertEnvelope(text)
            /\ \A i \in DOMAIN text.tiers : text.tiers[i].swarmRef /\ text.tiers[i].actHistoryAddress
            /\ text.expiresAt >= TicksPerSecond * (now + 1)
=============================================================================
