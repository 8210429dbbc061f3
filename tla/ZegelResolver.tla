--------------------------- MODULE ZegelResolver ----------------------------
(***************************************************************************)
(* contracts/src/ZegelResolver.sol with                                    *)
(* libraries/SignatureVerifier.sol: an ENS resolver that answers from an   *)
(* envelope stored on chain, or sends the client to a gateway and verifies *)
(* what it brings back. Its functions are views, so they are operators; a  *)
(* transaction of the owner's is an action. Which gateways it names, and   *)
(* how its owner changes, is left out.                                     *)
(*                                                                         *)
(* A digest is the tuple it is the hash of, and a signature the signer and *)
(* the digest: ecrecover is exact.                                         *)
(***************************************************************************)
EXTENDS Naturals

CONSTANTS
    This,       \* address(this)
    Signers,    \* the keys that may be allow-listed
    Storable,   \* nodes an envelope may be stored for
    Envelopes,  \* envelopes, by version
    NoEnvelope, \* empty bytes
    EnvelopeKey \* ENVELOPE_KEY

ASSUME ResolverConstants == NoEnvelope \notin Envelopes

VARIABLES
    signers,    \* the allow-listed ones
    envelopes   \* _envelopes, under the envelope key

resolverVars == <<signers, envelopes>>
----------------------------------------------------------------------------
(* Administration: the owner's transactions. *)

setSigner(signer, allowed) ==
    /\ signers' = IF allowed THEN signers \cup {signer} ELSE signers \ {signer}
    /\ UNCHANGED envelopes

\* Empty bytes clear the envelope.
setEnvelope(n, envelope) ==
    /\ envelopes' = [envelopes EXCEPT ![n] = envelope]
    /\ UNCHANGED signers

Administer ==
    \/ \E signer \in Signers, allowed \in BOOLEAN : setSigner(signer, allowed)
    \/ \E n \in Storable, envelope \in Envelopes \cup {NoEnvelope} : setEnvelope(n, envelope)

ResolverInit ==
    /\ signers = Signers
    /\ envelopes = [n \in Storable |-> NoEnvelope]
----------------------------------------------------------------------------
(* Resolution. *)

\* The two encodings of an envelope: as it is, and as the return data of data().
plain(envelope) == [wrapped |-> FALSE, envelope |-> envelope]
wrapped(envelope) == [wrapped |-> TRUE, envelope |-> envelope]

\* What resolve() and data() return for a query if they do not send it off chain.
Stored(query) == query.key = EnvelopeKey /\ query.node \in Storable /\ envelopes[query.node] # NoEnvelope

storedAnswer(query) ==
    IF query.kind = "resolve" THEN wrapped(envelopes[query.node]) ELSE plain(envelopes[query.node])

\* Mutant: the digest leaves out the query.
makeSignatureHash_Unbound(target, expires, query, result) == <<target, expires, result>>

makeSignatureHash(target, expires, query, result) == <<target, expires, query, result>>

\* resolveWithProof, at a block's timestamp: extraData is the caller's, as is
\* the response.
resolveWithProof(query, sender, result, expires, signature, timestamp) ==
    /\ sender = This
    /\ expires >= timestamp
    /\ signature.digest = makeSignatureHash(sender, expires, query, result)
    /\ signature.signer \in signers
----------------------------------------------------------------------------
ResolverTypeOK ==
    /\ signers \subseteq Signers
    /\ envelopes \in [Storable -> Envelopes \cup {NoEnvelope}]
=============================================================================
