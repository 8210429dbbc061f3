---------------------------- MODULE ZegelAnchor ----------------------------
(***************************************************************************)
(* contracts/src/ZegelAnchor.sol: the commitment, the expiry and the       *)
(* revocation of a reference, readable without decrypting anything. The    *)
(* contract has no owner: any account may claim an unclaimed id, and only  *)
(* that account may re-anchor or revoke it.                                *)
(*                                                                         *)
(* The chain executes one transaction at a time; several transactions may  *)
(* share a block timestamp. A call that reverts leaves no trace and is not *)
(* a step. `events` is the log the contract emits, which indexers and the  *)
(* command line read back.                                                 *)
(***************************************************************************)
EXTENDS Naturals, Sequences

CONSTANTS
    ReferenceIds,     \* bytes32 ids a caller may pass, ZeroReference among them
    Commitments,      \* bytes32 commitments a caller may pass, ZeroCommitment among them
    Accounts,         \* callers
    ZeroReference,
    ZeroCommitment,
    ZeroAddress,
    MaxReasonBytes,   \* MAX_REASON_BYTES
    MaxTime,          \* bound: the last block timestamp of the model
    MaxEvents         \* bound: log entries per reference

ASSUME AnchorConstants ==
    /\ ZeroReference \in ReferenceIds
    /\ ZeroCommitment \in Commitments
    /\ ZeroAddress \notin Accounts
    /\ MaxReasonBytes \in Nat
    /\ MaxTime \in Nat
    /\ MaxEvents \in Nat

VARIABLES
    anchors,   \* the mapping _anchors
    now,       \* block.timestamp
    events     \* events[id]: the Anchored and Revoked events of the id, in order

vars == <<anchors, now, events>>

Times == Nat

Anchor == [commitment : Commitments, issuer : Accounts \cup {ZeroAddress},
           expiresAt : Times, anchoredAt : Times, revokedAt : Times]

\* What the mapping holds for an id nobody has claimed.
Unanchored == [commitment |-> ZeroCommitment, issuer |-> ZeroAddress,
               expiresAt |-> 0, anchoredAt |-> 0, revokedAt |-> 0]

AnchoredEvent == [kind : {"Anchored"}, commitment : Commitments \ {ZeroCommitment}, issuer : Accounts, expiresAt : Times]

RevokedEvent == [kind : {"Revoked"}, issuer : Accounts, at : Times]

Anchored(a) == a.anchoredAt # 0
Revoked(a) == a.revokedAt # 0
----------------------------------------------------------------------------
(* The views. *)

isValid(id) ==
    LET a == anchors[id]
    IN  a.anchoredAt # 0 /\ a.revokedAt = 0 /\ a.expiresAt > now

\* Lifecycle first, content last: a revoked reference says so whatever
\* commitment the reader brings.
verify(id, commitment) ==
    LET a == anchors[id]
    IN  IF ~Anchored(a) THEN "NeverAnchored"
        ELSE IF Revoked(a) THEN "Revoked"
        ELSE IF a.expiresAt =< now THEN "Expired"
        ELSE IF a.commitment # commitment THEN "CommitmentMismatch"
        ELSE "Valid"
----------------------------------------------------------------------------
(* The transactions. *)

\* Mutant of mayAnchor: anyone may anchor what someone has anchored.
mayAnchorByStranger(caller, id, commitment, expiresAt) ==
    /\ id # ZeroReference /\ commitment # ZeroCommitment
    /\ expiresAt > now
    /\ Anchored(anchors[id]) => ~Revoked(anchors[id])

\* The checks of anchor: an unclaimed id is anybody's, a claimed one is its
\* issuer's until it is revoked, expired or not.
mayAnchor(caller, id, commitment, expiresAt) ==
    /\ id # ZeroReference /\ commitment # ZeroCommitment
    /\ expiresAt > now
    /\ Anchored(anchors[id]) => anchors[id].issuer = caller /\ ~Revoked(anchors[id])

\* anchor claims an unclaimed id for its caller, or refreshes the expiry or
\* the commitment of an id the caller already has.
anchor(caller, id, commitment, expiresAt) ==
    /\ mayAnchor(caller, id, commitment, expiresAt)
    /\ Len(events[id]) < MaxEvents
    /\ anchors' = [anchors EXCEPT ![id] =
          [commitment |-> commitment,
           issuer |-> IF Anchored(@) THEN @.issuer ELSE caller,
           expiresAt |-> expiresAt,
           anchoredAt |-> now,
           revokedAt |-> @.revokedAt]]
    /\ events' = [events EXCEPT ![id] = Append(@,
          [kind |-> "Anchored", commitment |-> commitment,
           issuer |-> caller, expiresAt |-> expiresAt])]
    /\ UNCHANGED now

\* Mutant: revoking deletes the record, and with it the memory of the revocation.
revokeDeletes(caller, id, reasonBytes) ==
    /\ Anchored(anchors[id]) /\ anchors[id].issuer = caller /\ ~Revoked(anchors[id])
    /\ reasonBytes =< MaxReasonBytes
    /\ Len(events[id]) < MaxEvents
    /\ anchors' = [anchors EXCEPT ![id] = Unanchored]
    /\ events' = [events EXCEPT ![id] = Append(@,
          [kind |-> "Revoked", issuer |-> caller, at |-> now])]
    /\ UNCHANGED now

\* revoke is the issuer's alone, once, and also open after the expiry.
revoke(caller, id, reasonBytes) ==
    /\ Anchored(anchors[id]) /\ anchors[id].issuer = caller /\ ~Revoked(anchors[id])
    /\ reasonBytes =< MaxReasonBytes
    /\ Len(events[id]) < MaxEvents
    /\ anchors' = [anchors EXCEPT ![id].revokedAt = now]
    /\ events' = [events EXCEPT ![id] = Append(@,
          [kind |-> "Revoked", issuer |-> caller, at |-> now])]
    /\ UNCHANGED now

\* The next block carries a later timestamp.
Tick ==
    /\ now < MaxTime
    /\ now' = now + 1
    /\ UNCHANGED <<anchors, events>>
----------------------------------------------------------------------------
\* No block has timestamp zero, which the contract uses for "never".
Init ==
    /\ anchors = [id \in ReferenceIds |-> Unanchored]
    /\ now = 1
    /\ events = [id \in ReferenceIds |-> <<>>]

Next ==
    \/ \E caller \in Accounts, id \in ReferenceIds, commitment \in Commitments,
          expiresAt \in 0..MaxTime : anchor(caller, id, commitment, expiresAt)
    \/ \E caller \in Accounts, id \in ReferenceIds, reasonBytes \in {0, MaxReasonBytes, MaxReasonBytes + 1} :
          revoke(caller, id, reasonBytes)
    \/ Tick

Spec == Init /\ [][Next]_vars
----------------------------------------------------------------------------
\* The mapping and the log hold what the contract's types and checks allow:
\* in particular no event ever carries the zero commitment.
TypeOK ==
    /\ anchors \in [ReferenceIds -> Anchor]
    /\ now \in Times \ {0}
    /\ events \in [ReferenceIds -> Seq(AnchoredEvent \cup RevokedEvent)]

\* What an indexer concludes about an anchor from the log of its id.
LogMatches(a, log) ==
    LET last == IF Revoked(a) THEN Len(log) - 1 ELSE Len(log)
    IN  /\ log = <<>> => a = Unanchored
        /\ log # <<>> =>
              /\ Anchored(a)
              /\ last >= 1
              /\ log[last].commitment = a.commitment
              /\ log[last].expiresAt = a.expiresAt
        /\ \A i \in 1..Len(log) :
              /\ log[i].issuer = a.issuer
              /\ log[i].kind = (IF i =< last THEN "Anchored" ELSE "Revoked")
        /\ Revoked(a) => log[Len(log)].at = a.revokedAt

\* Re-anchoring is auditable rather than silent: an indexer that has only the
\* events of an id knows its issuer, its terms and whether it is withdrawn.
\* All its events come from one issuer, a Revoked event is the last one and
\* never the first, and the last Anchored event carries the terms in force.
LogTellsState == \A id \in ReferenceIds : LogMatches(anchors[id], events[id])

OrderedTimes(a, t) ==
    /\ a.anchoredAt =< t /\ a.revokedAt =< t
    /\ Anchored(a) => a.anchoredAt < a.expiresAt
    /\ Revoked(a) => Anchored(a) /\ a.anchoredAt =< a.revokedAt

\* An anchor's times never contradict each other: it was claimed before it
\* expires, and withdrawn, if it was, no earlier than it was last claimed.
TimesInOrder == \A id \in ReferenceIds : OrderedTimes(anchors[id], now)

\* The cheap view and the full one agree: isValid is true exactly when some
\* claim set exists for which verify answers Valid, at the expiry instant too.
ViewsAgree ==
    \A id \in ReferenceIds :
        isValid(id) <=> \E commitment \in Commitments : verify(id, commitment) = "Valid"

\* Revocation is one-way: once withdrawn, an anchor and its log are frozen,
\* so no later transaction or passage of time rehabilitates the reference.
RevocationIsPermanent ==
    [][\A id \in ReferenceIds :
          Revoked(anchors[id]) => anchors'[id] = anchors[id] /\ events'[id] = events[id]]_vars
----------------------------------------------------------------------------
(* The reader's view of a reference, as ReferenceLifecycle describes it. *)

StandingOf(id) ==
    IF ~Anchored(anchors[id]) THEN "unclaimed"
    ELSE IF Revoked(anchors[id]) THEN "withdrawn"
    ELSE IF isValid(id) THEN "live" ELSE "lapsed"

Lifecycle == INSTANCE ReferenceLifecycle WITH
    Ids <- ReferenceIds,
    Issuers <- Accounts,
    Nobody <- ZeroAddress,
    standing <- [id \in ReferenceIds |-> StandingOf(id)],
    holder <- [id \in ReferenceIds |-> anchors[id].issuer]

\* The contract implements the reader's lifecycle: no transaction moves a
\* reference, or its holder, in a way the lifecycle does not allow.
ImplementsLifecycle == Lifecycle!Spec
=============================================================================
