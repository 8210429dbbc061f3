------------------------- MODULE MCGatewayPublish --------------------------
(* Two names, and an older and a newer publish of the first, each of which  *)
(* may be sent again.                                                       *)
EXTENDS GatewayPublish

CONSTANTS node, shop, alice, bob, zegel

tier == [tier |-> 1, swarmRef |-> TRUE, actHistoryAddress |-> TRUE, actPublisher |-> TRUE]

\* An envelope that expires in the middle of a second.
text(tiers) ==
    [object |-> TRUE, schema |-> TRUE, referenceId |-> TRUE, commitment |-> TRUE, issuedAt |-> 0, expiresAt |-> 3,
     tiers |-> tiers, anchors |-> TRUE, revocationHint |-> TRUE]

publish(n, signer, nonce) ==
    [node |-> n, signer |-> signer, nonce |-> nonce, validUntil |-> 1, gateway |-> SignerKey,
     envelope |-> [text(<<tier>>) EXCEPT !.expiresAt = 5]]

\* It comes from the same owner.
MCReissued == {publish(node, alice, 1), publish(node, alice, 2)}
MCOwners == {alice, bob}

nobody == [n \in Nodes |-> NoOwner]

\* A Node process on a chain, with an old map of owners left in its environment.
production ==
    [entry |-> "node", production |-> TRUE, rpcUrl |-> TRUE, signerKey |-> SignerKey, resolver |-> zegel,
     nameWrapper |-> Wrapper, ensRegistry |-> Unset, nameOwners |-> [nobody EXCEPT ![node] = alice],
     store |-> Unset, feedOwner |-> Unset, seed |-> Unset]

MCProduction == {production}
=============================================================================
