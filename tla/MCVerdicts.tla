----------------------------- MODULE MCVerdicts -----------------------------
(* A small instance of Verdicts: one reference with two claim sets, read by  *)
(* two verifications at once.                                                *)
EXTENDS Verdicts, TLC

CONSTANTS r0, r1, c0, c1, c2, a0, a1, a2, v1, v2

MCReferenceIds == {r0, r1}
MCCommitments == {c0, c1, c2}
MCAccounts == {a1, a2}
MCReaders == {v1, v2}

Envelope(commitment, expiresAt, tiers, hint) ==
    [referenceId |-> r1, commitment |-> commitment, expiresAt |-> expiresAt, tiers |-> tiers, hint |-> hint]

Document(envelope) == [zegel |-> TRUE, envelope |-> envelope]

\* The envelope that was issued, one doctored to other claims and a contract of
\* its own, one with nothing to open, and a document that is no envelope.
MCDocuments ==
    {Document(Envelope(c1, 2, <<1, 2>>, "anchor")), Document(Envelope(c2, 3, <<1>>, "other")),
     Document(Envelope(c1, 2, <<>>, "none")), [zegel |-> FALSE, envelope |-> Envelope(c2, 3, <<1>>, "other")]}

MCHeld == [envelope |-> Envelope(c1, 2, <<1, 2>>, "anchor"), claims |-> c1]

ClaimsOf(c) == [schema |-> "claims", claims |-> c, bodies |-> TRUE, agree |-> TRUE, terms |-> TRUE]
BundleOf(c, bodies, agree, terms) ==
    [schema |-> "bundle", claims |-> c, bodies |-> bodies, agree |-> agree, terms |-> terms]

MCObjects ==
    {[sealed |-> "intact", payload |-> ClaimsOf(c1)], [sealed |-> "bare", payload |-> BundleOf(c1, TRUE, TRUE, TRUE)],
     [sealed |-> "intact", payload |-> BundleOf(c1, FALSE, TRUE, TRUE)],
     [sealed |-> "intact", payload |-> BundleOf(c1, TRUE, TRUE, FALSE)],
     [sealed |-> "intact", payload |-> BundleOf(c2, TRUE, FALSE, TRUE)],
     [sealed |-> "swapped", payload |-> ClaimsOf(c1)], [sealed |-> "junk", payload |-> ClaimsOf(c1)]}

MCSamples ==
    {[referenceId |-> [i \in 1..6 |-> (i * a) % 16], commitment |-> [i \in 1..12 |-> (i * b + a) % 16],
      from |-> <<2, a, 0, b, 1, 9>>, expiry |-> <<2, b, 1, a, 0, 3>>] : a \in {1, 8}, b \in {7}}

\* Bounds: a verification sees at most two transactions on the reference. Requests
\* of the page overlap in the first block only, before the second of them, and
\* with one request past its reads at a time.
FewAtOnce ==
    /\ (\E r \in Readers : runs[r].phase # "idle") => Len(events[r1]) =< 2
    /\ (\A r \in Readers : runs[r].phase # "idle") =>
          /\ now = 1 /\ Len(events[r1]) =< 1
          /\ \E r \in Readers : runs[r].phase # "verdict"

Symmetry == Permutations(MCAccounts) \cup Permutations(MCReaders)
=============================================================================
