------------------------------ MODULE CcipRead ------------------------------
(***************************************************************************)
(* A name resolved through the gateway (ERC-3668): the resolver on chain   *)
(* sends the client to the gateway, serveLookup (gateway/src/app.ts) reads *)
(* the feed store and signs an answer with an expiry, and the resolver     *)
(* verifies whatever response and extraData a client brings back, at any   *)
(* time and as often as it likes.                                          *)
(*                                                                         *)
(* Lookups the gateway refuses change nothing and are not steps. A         *)
(* response is kept until it can no longer be accepted by any block.       *)
(***************************************************************************)
EXTENDS FeedStore, ZegelResolver

CONSTANTS
    Resolvers,    \* contracts that trust the gateway's key, This among them
    Names,        \* names a query may be about, by namehash
    Keys,         \* data keys a query may name
    Served,       \* config.resolvers, or every resolver if it is empty
    Gateway,      \* the gateway's signing key
    Asked,        \* the queries clients send
    SignatureTtl, \* signatureTtlSeconds
    HttpTtl,      \* cacheTtlSeconds
    Lag, Ahead,   \* how far a block's timestamp may be from the gateway's clock
    MaxResponses  \* bound: responses at large

\* The callData of an OffchainLookup: data(node, key), or resolve(name, data(node, key)).
Query == [kind : {"data", "resolve"}, name : Names, node : Names, key : Keys]

ASSUME CcipConstants ==
    /\ This \in Resolvers /\ Served \subseteq Resolvers
    /\ EnvelopeKey \in Keys /\ Nodes \subseteq Names /\ Storable \subseteq Names
    /\ Envelopes = 1..MaxVersion
    /\ Asked \subseteq Resolvers \X Query
    /\ CacheTtl > 0 /\ HttpTtl =< SignatureTtl
    /\ SignatureTtl \in Nat /\ HttpTtl \in Nat /\ Lag \in Nat /\ Ahead \in Nat

VARIABLES
    responses  \* the responses clients and HTTP caches hold

vars == <<feedVars, resolverVars, responses>>

BlockTimes == {t \in 0..(MaxTime + Ahead) : now =< t + Lag /\ t =< now + Ahead}
----------------------------------------------------------------------------
\* decodeQuery: the node has to be the namehash of the name.
decodes(query) == query.kind = "resolve" => query.name = query.node

\* What serveLookup checks before it awaits the store.
Servable(sender, query) ==
    /\ sender \in Served
    /\ decodes(query)
    /\ query.key = EnvelopeKey

\* A lookup about n begins. Which one it is matters when it is answered.
Lookup(g, n) ==
    /\ \E a \in Asked : Servable(a[1], a[2]) /\ a[2].node = n
    /\ Get(g, n)
    /\ UNCHANGED <<resolverVars, responses>>

encodeResult(query, envelope) ==
    IF query.kind = "data" THEN plain(envelope) ELSE wrapped(envelope)

least(x, y) == IF x < y THEN x ELSE y

\* Mutant: the envelope's own expiry does not cap the signature's.
expiresOf_Uncapped(record) == now + SignatureTtl

expiresOf(record) == least(now + SignatureTtl, Expiry[record])

maxAge(expires) == least(HttpTtl, expires - now)

signedResponse(sender, query, record, isFallback) ==
    LET expires == expiresOf(record)
        result == encodeResult(query, record)
    IN  [sender |-> sender, query |-> query, result |-> result, expires |-> expires,
         signature |-> [signer |-> Gateway, digest |-> makeSignatureHash(sender, expires, query, result)],
         maxAge |-> maxAge(expires), at |-> now, fallback |-> isFallback]

\* The rest of serveLookup: 404 for no record, 410 for an expired one, or a
\* signed response, which the client may or may not keep.
Respond(g) ==
    LET record == get[g].record
    IN  /\ Return(g)
        /\ \/ UNCHANGED responses
           \/ /\ record # 0 /\ unexpired(record) /\ Cardinality(responses) < MaxResponses
              /\ \E a \in Asked :
                    /\ Servable(a[1], a[2]) /\ a[2].node = get[g].node
                    /\ responses' = responses \cup {signedResponse(a[1], a[2], record, get[g].fallback)}
        /\ UNCHANGED resolverVars

\* Time passes for everybody.
Pass ==
    /\ Tick
    /\ responses' = {r \in responses : now' =< r.expires + Lag}
    /\ UNCHANGED resolverVars

Init ==
    /\ FeedInit /\ ResolverInit
    /\ responses = {}

Next ==
    \/ \E g \in Gets :
          \/ \E n \in Nodes : Lookup(g, n)
          \/ (Hear(g) \/ Finish(g) \/ Fail(g)) /\ UNCHANGED <<resolverVars, responses>>
          \/ Respond(g)
    \/ \E n \in Nodes : WriteFeed(n) /\ UNCHANGED <<resolverVars, responses>>
    \/ Administer /\ UNCHANGED <<feedVars, responses>>
    \/ Pass

Spec == Init /\ [][Next]_vars
----------------------------------------------------------------------------
Result == [wrapped : BOOLEAN, envelope : Envelopes]

Response == [sender : Resolvers, query : Query, result : Result, expires : Nat,
             signature : [signer : {Gateway}, digest : Resolvers \X Nat \X Query \X Result],
             maxAge : Nat, at : Nat, fallback : BOOLEAN]

\* Store, contract and lookups are of their types, and a cached record is one
\* that has been written.
TypeOK ==
    /\ FeedTypeOK /\ ResolverTypeOK
    /\ responses \subseteq Response

\* What This accepts as the answer to a query at a block time, from a client
\* that has a signature of a response at large and fills in the rest at will.
Accepted(query, result, expires, t) ==
    \E sender \in Resolvers, r \in responses :
        resolveWithProof(query, sender, result, expires, r.signature, t)

\* gateway/src/signing.ts:10-13: a response cannot be replayed into another
\* contract that trusts the same signer nor onto another name or key, and its
\* expiry holds. What This accepts, the gateway answered to that very query,
\* for This, with that expiry, from the feed of the name that was asked for. An
\* accepted answer and one from the contract's own storage decode alike.
ProofIsBound ==
    /\ responses # {} => \A query \in Query, result \in Result, expires \in now..(now + SignatureTtl) :
        Accepted(query, result, expires, now) =>
            /\ \E r \in responses : r.sender = This /\ r.query = query /\ r.result = result /\ r.expires = expires
            /\ query.kind = "resolve" => query.name = query.node
            /\ result.wrapped <=> query.kind = "resolve"
    /\ \A query \in Query : Stored(query) => (storedAnswer(query).wrapped <=> query.kind = "resolve")

\* gateway/src/app.ts:196: no response is accepted past the expiry of the
\* envelope in it, whatever the clocks of the gateway and the chain, the caches
\* and the reads that failed.
NoEnvelopeOutlivesItself ==
    \A r \in responses, t \in BlockTimes :
        Accepted(r.query, r.result, r.expires, t) => t =< Expiry[r.result.envelope]

\* gateway/src/config.ts:17: a superseded envelope stays resolvable for a
\* window. With the feed cache in front of the signature the window is the
\* time of a read, the cache's and the signature's together: after that no block
\* accepts the old version, also when an older read finished last and took the
\* cache back. What is left is a feed that cannot be read, whose cached envelope
\* is served until it expires.
StalenessIsBounded ==
    \A r \in responses, t \in BlockTimes :
        /\ Accepted(r.query, r.result, r.expires, t)
        /\ ~r.fallback
        /\ Superseded(r.query.node, r.result.envelope)
        => t < SupersededAt(r.query.node, r.result.envelope) + ReadTime + CacheTtl + SignatureTtl

=============================================================================
