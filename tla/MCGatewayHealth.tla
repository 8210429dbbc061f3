-------------------------- MODULE MCGatewayHealth --------------------------
(* The gateway in six environments, one of which does not start.            *)
EXTENDS MCGatewayPublish, GatewayHealth

CONSTANTS boot1, boot2

\* The later publish of the first name comes from a new owner, which is a
\* contract. One publish is for a key made at boot, one seals nothing.
MCTransferred ==
    {publish(node, alice, 1), publish(node, bob, 2), publish(shop, alice, 1),
     [publish(shop, alice, 1) EXCEPT !.envelope = text(<<>>)],
     [publish(node, alice, 1) EXCEPT !.gateway = boot1]}

seed == [node |-> node, signer |-> NoOwner, nonce |-> 0, validUntil |-> 0, gateway |-> SignerKey,
         envelope |-> text(<<tier>>)]
MCSeeds == {seed}

\* On a laptop: nothing is set but who owns the name.
laptop ==
    [production EXCEPT !.production = FALSE, !.rpcUrl = FALSE, !.signerKey = Unset, !.resolver = Unset,
                       !.nameWrapper = Unset, !.store = "memory"]

\* A Worker with a pinned envelope and the address of another contract for the
\* wrapper's, and one without, which reads feeds.
pinned ==
    [production EXCEPT !.entry = "worker", !.nameWrapper = Stray,
                       !.seed = [n \in Nodes |-> IF n = node THEN seed ELSE NoRecord]]
feeds == [production EXCEPT !.entry = "worker", !.feedOwner = alice]

\* The address of another contract for the registry's, and none for the wrapper's.
strayed == [production EXCEPT !.store = "memory", !.nameWrapper = Unset, !.ensRegistry = Stray]

MCEnvs == {production, laptop, pinned, feeds, strayed, [production EXCEPT !.signerKey = Unset]}
=============================================================================
