------------------------- MODULE MCIssuerRegistry --------------------------
(* A small instance of IssuerRegistry: one name whose registration lapses,  *)
(* is dropped, bumped and taken again, one record, a root and two accounts  *)
(* that are in turn owner, delegate and stranger.                           *)
EXTENDS IssuerRegistry, TLC

CONSTANTS n1, k1, root, a1, a2, v0, v1, zero, t1

MCAccounts == {root, a1, a2}

\* What callers pass: nothing, as for a name emancipated at birth, or what owner
\* and delegate alike are given: to write the record and to drop the name, each
\* with its admin half.
MCBitmaps == {{}, {"SET_DATA", "UNREGISTER"} \X {"use", "admin"}}

\* A registrar's role at the root.
MCRootBitmaps == {{Use("REGISTRAR")}}

Symmetry == Permutations({a1, a2})
=============================================================================
