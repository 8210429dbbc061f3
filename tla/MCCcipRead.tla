----------------------------- MODULE MCCcipRead -----------------------------
(* One feed of two versions, read by up to two lookups at once, and a second *)
(* name and a second resolver that trusts the same key.                      *)
EXTENDS CcipRead, TLC

CONSTANTS zegel, other, r1, r2, g1, g2, note

\* The second version lapses before the first one would have.
MCExpiry == <<5, 2>>

ask(kind) == [kind |-> kind, name |-> zegel, node |-> zegel, key |-> EnvelopeKey]

\* The forms of a query, one for the other resolver, and one whose name is not its node's.
MCAsked == {<<r1, ask("resolve")>>, <<r2, ask("data")>>, <<r1, [ask("resolve") EXCEPT !.name = other]>>}

Calls == Permutations(Gets)
=============================================================================
