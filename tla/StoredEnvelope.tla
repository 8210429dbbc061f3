--------------------------- MODULE StoredEnvelope ---------------------------
(***************************************************************************)
(* parseEnvelope (gateway/src/envelope.ts): what the gateway requires of   *)
(* the text it is given, and beside it what a client requires of the text  *)
(* it is served, assertEnvelope of packages/sdk/src/resolve.ts. A text is  *)
(* the record of what the two look at; a field that is a BOOLEAN says      *)
(* whether it has its format. The text that is signed, digested and served *)
(* is the one that was published.                                          *)
(***************************************************************************)
EXTENDS Naturals, Sequences

CONSTANTS Malformed, TicksPerSecond

ASSUME TicksAssumption == TicksPerSecond \in Nat \ {0}

Tier == [tier : {1, 2, 3}, swarmRef : BOOLEAN, actHistoryAddress : BOOLEAN, actPublisher : BOOLEAN]

EnvelopeText == [object : BOOLEAN, schema : BOOLEAN, referenceId : BOOLEAN, commitment : BOOLEAN,
                 issuedAt : Nat \cup {Malformed}, expiresAt : Nat \cup {Malformed},
                 tiers : Seq(Tier), anchors : BOOLEAN, revocationHint : BOOLEAN]
----------------------------------------------------------------------------
requireTier(tier) ==
    /\ tier.tier \in {1, 2}
    /\ tier.swarmRef /\ tier.actHistoryAddress /\ tier.actPublisher

\* Mutant: an empty list of tiers will do.
parses_NoTiers(text) ==
    /\ text.object /\ text.schema /\ text.referenceId /\ text.commitment
    /\ Malformed \notin {text.issuedAt, text.expiresAt} /\ text.expiresAt > text.issuedAt
    /\ \A i \in DOMAIN text.tiers : requireTier(text.tiers[i])
    /\ text.anchors /\ text.revocationHint

parses(text) ==
    /\ text.object /\ text.schema /\ text.referenceId /\ text.commitment
    /\ Malformed \notin {text.issuedAt, text.expiresAt} /\ text.expiresAt > text.issuedAt
    /\ text.tiers # <<>>
    /\ \A i \in DOMAIN text.tiers : requireTier(text.tiers[i])
    /\ text.anchors /\ text.revocationHint

\* Mutant: the expiry is rounded up.
expiresAtSeconds_Up(text) == (text.expiresAt + TicksPerSecond - 1) \div TicksPerSecond

\* The expiry in whole seconds, rounded down.
expiresAtSeconds(text) == text.expiresAt \div TicksPerSecond

\* What the client checks before it hands the envelope on.
assertEnvelope(text) ==
    /\ text.object /\ text.schema
    /\ text.tiers # <<>>
=============================================================================
