------------------------- MODULE ZegelAnchorProofs -------------------------
(***************************************************************************)
(* Theorems about ZegelAnchor for every set of references, commitments and *)
(* accounts and every bound, and about those who read it (Verdicts): for   *)
(* every set of documents and of sealed objects, and any number of         *)
(* verifications at once.                                                  *)
(*                                                                         *)
(* What a verification has read of the contract may be out of date, but    *)
(* never in its favour: a withdrawal is final, and what was anchored once  *)
(* stays in the log. The invariant of the readers rests on that. The last  *)
(* theorem is about the line a reader may be handed on paper (Mrz).        *)
(***************************************************************************)
EXTENDS Verdicts, SequenceTheorems, TLAPS

Events == AnchoredEvent \cup RevokedEvent

IInv == TypeOK /\ LogTellsState /\ TimesInOrder

\* Init establishes the inductive invariant: an unclaimed id has no events.
LEMMA InitInductive == Init => IInv
<1> SUFFICES ASSUME Init PROVE IInv
  OBVIOUS
<1>1. Unanchored \in Anchor
  BY AnchorConstants DEF Unanchored, Anchor, Times
<1>2. TypeOK
  BY <1>1 DEF Init, TypeOK, Times
<1>3. ~Revoked(Unanchored) /\ ~Anchored(Unanchored)
  BY DEF Unanchored, Revoked, Anchored
<1>4. LogMatches(Unanchored, <<>>)
  BY <1>3 DEF LogMatches
<1>5. OrderedTimes(Unanchored, 1)
  BY <1>3 DEF OrderedTimes, Unanchored
<1>6. LogTellsState /\ TimesInOrder
  BY <1>4, <1>5 DEF Init, LogTellsState, TimesInOrder
<1> QED
  BY <1>2, <1>6 DEF IInv

\* anchor keeps the inductive invariant.
LEMMA AnchorInductive ==
    ASSUME IInv, NEW caller \in Accounts, NEW id \in ReferenceIds,
           NEW commitment \in Commitments, NEW expiresAt \in 0..MaxTime,
           anchor(caller, id, commitment, expiresAt)
    PROVE  IInv'
<1> DEFINE a == anchors[id]
           b == [commitment |-> commitment,
                 issuer |-> IF Anchored(a) THEN a.issuer ELSE caller,
                 expiresAt |-> expiresAt, anchoredAt |-> now, revokedAt |-> a.revokedAt]
           e == [kind |-> "Anchored", commitment |-> commitment,
                 issuer |-> caller, expiresAt |-> expiresAt]
           log == events[id]
           new == Append(log, e)
<1>1. /\ anchors' = [anchors EXCEPT ![id] = b]
      /\ events' = [events EXCEPT ![id] = new]
      /\ now' = now
  BY DEF anchor
<1>2. /\ commitment # ZeroCommitment
      /\ expiresAt > now
      /\ Anchored(a) => a.issuer = caller /\ ~Revoked(a)
  BY DEF anchor, mayAnchor
<1>3. a \in Anchor /\ log \in Seq(Events) /\ now \in Nat \ {0}
  BY DEF IInv, TypeOK, Events, Times
<1>4. b \in Anchor /\ e \in Events
  BY <1>2, <1>3, AnchorConstants DEF Anchor, Events, AnchoredEvent, Times
<1>5. TypeOK'
  <2>1. anchors' \in [ReferenceIds -> Anchor]
    BY <1>1, <1>4 DEF IInv, TypeOK
  <2>2. new \in Seq(Events)
    BY <1>3, <1>4
  <2>3. events' \in [ReferenceIds -> Seq(Events)]
    BY <1>1, <2>2 DEF IInv, TypeOK, Events
  <2> QED
    BY <1>1, <2>1, <2>3 DEF IInv, TypeOK, Events
<1>6. LogMatches(a, log) /\ OrderedTimes(a, now)
  BY DEF IInv, LogTellsState, TimesInOrder
<1>7. ~Revoked(a)
  BY <1>2, <1>6 DEF OrderedTimes
<1>8. LogMatches(b, new)
  <2>1. /\ Len(log) \in Nat /\ Len(new) = Len(log) + 1
        /\ new[Len(new)] = e
        /\ \A i \in 1..Len(log) : new[i] = log[i]
    BY <1>3, <1>4
  <2>2. ~Revoked(b) /\ Anchored(b) /\ b.issuer = caller
    BY <1>2, <1>3, <1>7 DEF Revoked, Anchored
  <2>3. new # <<>>
    BY <1>3, <1>4
  <2>4. new[Len(new)].commitment = b.commitment /\ new[Len(new)].expiresAt = b.expiresAt
    BY <2>1
  <2>5. ASSUME NEW i \in 1..Len(new)
        PROVE  new[i].issuer = b.issuer /\ new[i].kind = "Anchored"
    <3>1. CASE i = Len(new)
      BY <3>1, <2>1, <2>2
    <3>2. CASE i # Len(new)
      <4>1. i \in 1..Len(log)
        BY <3>2, <2>1
      <4>2. log # <<>>
        BY <4>1, <1>3
      <4>3. Anchored(a)
        BY <4>2, <1>6 DEF LogMatches
      <4>4. log[i].issuer = a.issuer /\ log[i].kind = "Anchored"
        BY <4>1, <1>6, <1>7, <2>1 DEF LogMatches
      <4> QED
        BY <4>1, <4>3, <4>4, <2>1, <2>2, <1>2
    <3> QED
      BY <3>1, <3>2
  <2> HIDE DEF new, b
  <2> QED
    BY <2>1, <2>2, <2>3, <2>4, <2>5 DEF LogMatches
<1>9. OrderedTimes(b, now)
  BY <1>2, <1>3, <1>7 DEF OrderedTimes, Revoked, Anchored, Anchor, Times
<1>10. LogTellsState'
  <2> SUFFICES ASSUME NEW other \in ReferenceIds
               PROVE  LogMatches(anchors'[other], events'[other])
    BY DEF LogTellsState
  <2>1. CASE other = id
    BY <2>1, <1>1, <1>8 DEF IInv, TypeOK
  <2>2. CASE other # id
    <3>1. anchors'[other] = anchors[other] /\ events'[other] = events[other]
      BY <2>2, <1>1 DEF IInv, TypeOK
    <3> QED
      BY <3>1 DEF IInv, LogTellsState
  <2> QED
    BY <2>1, <2>2
<1>11. TimesInOrder'
  <2> SUFFICES ASSUME NEW other \in ReferenceIds
               PROVE  OrderedTimes(anchors'[other], now')
    BY DEF TimesInOrder
  <2>1. CASE other = id
    BY <2>1, <1>1, <1>9 DEF IInv, TypeOK
  <2>2. CASE other # id
    BY <2>2, <1>1 DEF IInv, TypeOK, TimesInOrder
  <2> QED
    BY <2>1, <2>2
<1> QED
  BY <1>5, <1>10, <1>11 DEF IInv

\* revoke keeps the inductive invariant.
LEMMA RevokeInductive ==
    ASSUME IInv, NEW caller \in Accounts, NEW id \in ReferenceIds, NEW reasonBytes,
           revoke(caller, id, reasonBytes)
    PROVE  IInv'
<1> DEFINE a == anchors[id]
           b == [a EXCEPT !.revokedAt = now]
           e == [kind |-> "Revoked", issuer |-> caller, at |-> now]
           log == events[id]
           new == Append(log, e)
<1>1. /\ anchors' = [anchors EXCEPT ![id] = b]
      /\ events' = [events EXCEPT ![id] = new]
      /\ now' = now
  BY DEF revoke
<1>2. Anchored(a) /\ a.issuer = caller /\ ~Revoked(a)
  BY DEF revoke
<1>3. a \in Anchor /\ log \in Seq(Events) /\ now \in Nat \ {0}
  BY DEF IInv, TypeOK, Events, Times
<1>4. b \in Anchor /\ e \in Events
  BY <1>3 DEF Anchor, Events, RevokedEvent, Times
<1>5. TypeOK'
  <2>1. anchors' \in [ReferenceIds -> Anchor]
    BY <1>1, <1>4 DEF IInv, TypeOK
  <2>2. new \in Seq(Events)
    BY <1>3, <1>4
  <2>3. events' \in [ReferenceIds -> Seq(Events)]
    BY <1>1, <2>2 DEF IInv, TypeOK, Events
  <2> QED
    BY <1>1, <2>1, <2>3 DEF IInv, TypeOK, Events
<1>6. LogMatches(a, log) /\ OrderedTimes(a, now)
  BY DEF IInv, LogTellsState, TimesInOrder
<1>7. /\ b.issuer = a.issuer /\ b.commitment = a.commitment
      /\ b.expiresAt = a.expiresAt /\ b.anchoredAt = a.anchoredAt
      /\ b.revokedAt = now
  BY <1>3 DEF Anchor
<1>8. Revoked(b) /\ Anchored(b)
  BY <1>2, <1>3, <1>7 DEF Revoked, Anchored
<1>9. LogMatches(b, new)
  <2>1. /\ Len(log) \in Nat /\ Len(new) = Len(log) + 1
        /\ new[Len(new)] = e
        /\ \A i \in 1..Len(log) : new[i] = log[i]
    BY <1>3, <1>4
  <2>2. log # <<>>
    BY <1>2, <1>6 DEF LogMatches, Unanchored, Anchored
  <2>3. Len(log) >= 1
    BY <2>2, <1>3
  <2>4. log[Len(log)].commitment = a.commitment /\ log[Len(log)].expiresAt = a.expiresAt
    BY <2>2, <1>2, <1>6 DEF LogMatches
  <2>5. \A i \in 1..Len(log) : log[i].issuer = a.issuer /\ log[i].kind = "Anchored"
    BY <2>1, <1>2, <1>6 DEF LogMatches
  <2>6. new # <<>>
    BY <1>3, <1>4
  <2>7. new[Len(log)].commitment = b.commitment /\ new[Len(log)].expiresAt = b.expiresAt
    BY <2>1, <2>3, <2>4, <1>7
  <2>8. ASSUME NEW i \in 1..Len(new)
        PROVE  /\ new[i].issuer = b.issuer
               /\ new[i].kind = (IF i =< Len(log) THEN "Anchored" ELSE "Revoked")
    <3>1. CASE i = Len(new)
      BY <3>1, <2>1, <1>2, <1>7
    <3>2. CASE i # Len(new)
      BY <3>2, <2>1, <2>5, <1>7
    <3> QED
      BY <3>1, <3>2
  <2>9. new[Len(new)].at = b.revokedAt
    BY <2>1, <1>7
  <2>10. Len(new) - 1 = Len(log)
    BY <2>1
  <2> HIDE DEF new, b, log
  <2> QED
    BY <1>8, <2>1, <2>3, <2>6, <2>7, <2>8, <2>9, <2>10 DEF LogMatches
<1>10. OrderedTimes(b, now)
  BY <1>3, <1>6, <1>7, <1>8, <1>2 DEF OrderedTimes, Anchored, Anchor, Times
<1>11. LogTellsState'
  <2> SUFFICES ASSUME NEW other \in ReferenceIds
               PROVE  LogMatches(anchors'[other], events'[other])
    BY DEF LogTellsState
  <2>1. CASE other = id
    BY <2>1, <1>1, <1>9 DEF IInv, TypeOK
  <2>2. CASE other # id
    <3>1. anchors'[other] = anchors[other] /\ events'[other] = events[other]
      BY <2>2, <1>1 DEF IInv, TypeOK
    <3> QED
      BY <3>1 DEF IInv, LogTellsState
  <2> QED
    BY <2>1, <2>2
<1>12. TimesInOrder'
  <2> SUFFICES ASSUME NEW other \in ReferenceIds
               PROVE  OrderedTimes(anchors'[other], now')
    BY DEF TimesInOrder
  <2>1. CASE other = id
    BY <2>1, <1>1, <1>10 DEF IInv, TypeOK
  <2>2. CASE other # id
    BY <2>2, <1>1 DEF IInv, TypeOK, TimesInOrder
  <2> QED
    BY <2>1, <2>2
<1> QED
  BY <1>5, <1>11, <1>12 DEF IInv

\* Time passing keeps the inductive invariant: no time an anchor records lies ahead.
LEMMA TickInductive ==
    ASSUME IInv, Tick
    PROVE  IInv'
<1>1. TypeOK'
  BY DEF IInv, TypeOK, Tick, Times
<1>2. LogTellsState'
  BY DEF IInv, LogTellsState, Tick
<1>3. TimesInOrder'
  <2> SUFFICES ASSUME NEW id \in ReferenceIds
               PROVE  OrderedTimes(anchors[id], now + 1)
    BY DEF TimesInOrder, Tick
  <2>1. anchors[id] \in Anchor /\ now \in Nat /\ OrderedTimes(anchors[id], now)
    BY DEF IInv, TypeOK, TimesInOrder, Times
  <2> QED
    BY <2>1 DEF OrderedTimes, Anchor, Times
<1> QED
  BY <1>1, <1>2, <1>3 DEF IInv

LEMMA NextInductive == IInv /\ [Next]_vars => IInv'
<1> SUFFICES ASSUME IInv, [Next]_vars PROVE IInv'
  OBVIOUS
<1>1. ASSUME NEW caller \in Accounts, NEW id \in ReferenceIds, NEW commitment \in Commitments,
             NEW expiresAt \in 0..MaxTime, anchor(caller, id, commitment, expiresAt)
      PROVE  IInv'
  BY <1>1, AnchorInductive
<1>2. ASSUME NEW caller \in Accounts, NEW id \in ReferenceIds, NEW reasonBytes,
             revoke(caller, id, reasonBytes)
      PROVE  IInv'
  BY <1>2, RevokeInductive
<1>3. CASE Tick
  BY <1>3, TickInductive
<1>4. CASE UNCHANGED vars
  BY <1>4 DEF vars, IInv, TypeOK, LogTellsState, TimesInOrder
<1> QED
  BY <1>1, <1>2, <1>3, <1>4 DEF Next

\* The log of an id always tells its state, its times never contradict each
\* other, and no event carries the zero commitment (ZegelAnchor.sol, anchor
\* and revoke), whatever the references, commitments, accounts and bounds.
THEOREM AnchorInvariant == Spec => []IInv
<1> QED
  BY InitInductive, NextInductive, PTL DEF Spec

\* What anchor and revoke write is of the contract's types and never an event
\* with the zero commitment.
THEOREM TypeCorrect == Spec => []TypeOK
<1>1. IInv => TypeOK
  BY DEF IInv
<1> QED
  BY <1>1, AnchorInvariant, PTL

\* An indexer that has only the events of an id knows the anchor's issuer, its
\* terms and whether it is withdrawn.
THEOREM LogAlwaysTellsState == Spec => []LogTellsState
<1>1. IInv => LogTellsState
  BY DEF IInv
<1> QED
  BY <1>1, AnchorInvariant, PTL

\* isValid and verify agree in every reachable state, at the expiry instant too.
THEOREM ViewsAlwaysAgree == Spec => []ViewsAgree
<1>1. IInv => ViewsAgree
  <2> SUFFICES ASSUME IInv, NEW id \in ReferenceIds
               PROVE  isValid(id) <=> \E c \in Commitments : verify(id, c) = "Valid"
    BY DEF ViewsAgree
  <2>1. anchors[id] \in Anchor /\ now \in Nat
    BY DEF IInv, TypeOK, Times
  <2>2. anchors[id].commitment \in Commitments
    BY <2>1 DEF Anchor
  <2>3. ASSUME isValid(id)
        PROVE  verify(id, anchors[id].commitment) = "Valid"
    BY <2>1, <2>3 DEF isValid, verify, Anchored, Revoked, Anchor, Times
  <2>4. ASSUME NEW c \in Commitments, verify(id, c) = "Valid"
        PROVE  isValid(id)
    BY <2>1, <2>4 DEF isValid, verify, Anchored, Revoked, Anchor, Times
  <2> QED
    BY <2>2, <2>3, <2>4
<1> QED
  BY <1>1, AnchorInvariant, PTL

\* Revocation is one-way: a withdrawn anchor and its log never change again.
THEOREM RevokedForever == Spec => RevocationIsPermanent
<1>1. ASSUME IInv, [Next]_vars, NEW id \in ReferenceIds, Revoked(anchors[id])
      PROVE  anchors'[id] = anchors[id] /\ events'[id] = events[id]
  <2>1. Anchored(anchors[id])
    BY <1>1 DEF IInv, TimesInOrder, OrderedTimes
  <2>2. ASSUME NEW caller \in Accounts, NEW other \in ReferenceIds, NEW commitment \in Commitments,
               NEW expiresAt \in 0..MaxTime, anchor(caller, other, commitment, expiresAt)
        PROVE  anchors'[id] = anchors[id] /\ events'[id] = events[id]
    <3>1. other # id
      BY <1>1, <2>1, <2>2 DEF anchor, mayAnchor
    <3> QED
      BY <3>1, <1>1, <2>2 DEF anchor, IInv, TypeOK
  <2>3. ASSUME NEW caller \in Accounts, NEW other \in ReferenceIds, NEW reasonBytes,
               revoke(caller, other, reasonBytes)
        PROVE  anchors'[id] = anchors[id] /\ events'[id] = events[id]
    <3>1. other # id
      BY <1>1, <2>3 DEF revoke
    <3> QED
      BY <3>1, <1>1, <2>3 DEF revoke, IInv, TypeOK
  <2>4. CASE Tick \/ UNCHANGED vars
    BY <2>4 DEF Tick, vars
  <2> QED
    BY <1>1, <2>2, <2>3, <2>4 DEF Next
<1>2. IInv /\ [Next]_vars =>
        [\A id \in ReferenceIds :
           Revoked(anchors[id]) => anchors'[id] = anchors[id] /\ events'[id] = events[id]]_vars
  BY <1>1
<1> QED
  BY <1>2, AnchorInvariant, PTL DEF Spec, RevocationIsPermanent

\* The initial state of the contract is the lifecycle's: every id unclaimed.
LEMMA InitRefines == Init => Lifecycle!Init
<1> SUFFICES ASSUME Init PROVE Lifecycle!Init
  OBVIOUS
<1>1. \A id \in ReferenceIds : anchors[id] = Unanchored
  BY DEF Init
<1>2. ~Anchored(Unanchored) /\ Unanchored.issuer = ZeroAddress
  BY DEF Anchored, Unanchored
<1> QED
  BY <1>1, <1>2 DEF Lifecycle!Init, StandingOf

\* A step that touches one id leaves the standing and holder of the others alone.
LEMMA OthersStay ==
    ASSUME IInv, NEW id \in ReferenceIds, NEW b, now' = now,
           anchors' = [anchors EXCEPT ![id] = b]
    PROVE  \A other \in ReferenceIds \ {id} :
              /\ StandingOf(other)' = StandingOf(other)
              /\ anchors'[other].issuer = anchors[other].issuer
<1>1. \A other \in ReferenceIds \ {id} : anchors'[other] = anchors[other]
  BY DEF IInv, TypeOK
<1> QED
  BY <1>1 DEF StandingOf, isValid, IInv, TypeOK

\* anchor is a claim, a revival, or a refresh the lifecycle does not see.
LEMMA AnchorRefines ==
    ASSUME IInv, NEW caller \in Accounts, NEW id \in ReferenceIds, NEW commitment \in Commitments,
           NEW expiresAt \in 0..MaxTime, anchor(caller, id, commitment, expiresAt)
    PROVE  [Lifecycle!Next]_(Lifecycle!vars)
<1> DEFINE a == anchors[id]
           b == [commitment |-> commitment,
                 issuer |-> IF Anchored(a) THEN a.issuer ELSE caller,
                 expiresAt |-> expiresAt, anchoredAt |-> now, revokedAt |-> a.revokedAt]
<1>1. anchors' = [anchors EXCEPT ![id] = b] /\ now' = now
  BY DEF anchor
<1>2. expiresAt > now /\ (Anchored(a) => a.issuer = caller /\ ~Revoked(a))
  BY DEF anchor, mayAnchor
<1>3. a \in Anchor /\ now \in Nat \ {0} /\ OrderedTimes(a, now)
  BY DEF IInv, TypeOK, TimesInOrder, Times
<1>4. ~Revoked(a)
  BY <1>2, <1>3 DEF OrderedTimes
<1>5. anchors'[id] = b
  BY <1>1 DEF IInv, TypeOK
<1>6. StandingOf(id)' = "live" /\ anchors'[id].issuer = caller
  BY <1>1, <1>2, <1>3, <1>4, <1>5 DEF StandingOf, isValid, Anchored, Revoked, Anchor, Times
<1>7. \A other \in ReferenceIds \ {id} :
         StandingOf(other)' = StandingOf(other) /\ anchors'[other].issuer = anchors[other].issuer
  BY <1>1, OthersStay
<1>8. CASE ~Anchored(a)
  <2>1. StandingOf(id) = "unclaimed"
    BY <1>8 DEF StandingOf
  <2>2. Lifecycle!Claim(id, caller)
    BY <2>1, <1>6, <1>7 DEF Lifecycle!Claim
  <2> QED
    BY <2>2 DEF Lifecycle!Next
<1>9. CASE Anchored(a) /\ isValid(id)
  <2>1. StandingOf(id) = "live" /\ a.issuer = caller
    BY <1>9, <1>4, <1>2 DEF StandingOf
  <2>2. UNCHANGED Lifecycle!vars
    BY <2>1, <1>6, <1>7 DEF Lifecycle!vars
  <2> QED
    BY <2>2
<1>10. CASE Anchored(a) /\ ~isValid(id)
  <2>1. StandingOf(id) = "lapsed" /\ a.issuer = caller
    BY <1>10, <1>4, <1>2 DEF StandingOf
  <2>2. Lifecycle!Revive(id)
    BY <2>1, <1>6, <1>7 DEF Lifecycle!Revive
  <2> QED
    BY <2>2 DEF Lifecycle!Next
<1> QED
  BY <1>8, <1>9, <1>10

\* revoke is a withdrawal.
LEMMA RevokeRefines ==
    ASSUME IInv, NEW caller \in Accounts, NEW id \in ReferenceIds, NEW reasonBytes,
           revoke(caller, id, reasonBytes)
    PROVE  Lifecycle!Next
<1> DEFINE a == anchors[id]
           b == [a EXCEPT !.revokedAt = now]
<1>1. anchors' = [anchors EXCEPT ![id] = b] /\ now' = now
  BY DEF revoke
<1>2. Anchored(a) /\ ~Revoked(a)
  BY DEF revoke
<1>3. a \in Anchor /\ now \in Nat \ {0}
  BY DEF IInv, TypeOK, Times
<1>4. b.anchoredAt = a.anchoredAt /\ b.revokedAt = now /\ b.issuer = a.issuer
  BY <1>3 DEF Anchor
<1>5. anchors'[id] = b
  BY <1>1 DEF IInv, TypeOK
<1>6. StandingOf(id)' = "withdrawn" /\ anchors'[id].issuer = a.issuer
  BY <1>2, <1>3, <1>4, <1>5 DEF StandingOf, Anchored, Revoked
<1>7. StandingOf(id) \in {"live", "lapsed"}
  BY <1>2 DEF StandingOf
<1>8. \A other \in ReferenceIds \ {id} :
         StandingOf(other)' = StandingOf(other) /\ anchors'[other].issuer = anchors[other].issuer
  BY <1>1, OthersStay
<1>9. Lifecycle!Withdraw(id)
  BY <1>6, <1>7, <1>8 DEF Lifecycle!Withdraw
<1> QED
  BY <1>9 DEF Lifecycle!Next

\* Time passing lapses the live references whose expiry has come, and no other.
LEMMA TickRefines ==
    ASSUME IInv, Tick
    PROVE  Lifecycle!Next
<1> DEFINE some == {id \in ReferenceIds : StandingOf(id) = "live" /\ StandingOf(id)' # "live"}
<1>1. anchors' = anchors /\ now' = now + 1
  BY DEF Tick
<1>2. ASSUME NEW id \in ReferenceIds
      PROVE  StandingOf(id)' = IF id \in some THEN "lapsed" ELSE StandingOf(id)
  <2>1. anchors[id] \in Anchor /\ now \in Nat
    BY DEF IInv, TypeOK, Times
  <2>2. isValid(id)' => isValid(id)
    BY <1>1, <2>1 DEF isValid, Anchor, Times
  <2> QED
    BY <1>1, <2>2 DEF StandingOf
<1>3. Lifecycle!Lapse(some)
  BY <1>1, <1>2 DEF Lifecycle!Lapse
<1> QED
  BY <1>3 DEF Lifecycle!Next

\* The contract implements the lifecycle a counterparty reads: every call and
\* every passage of time moves a reference, and its holder, as the lifecycle
\* allows or not at all.
THEOREM Implementation == Spec => ImplementsLifecycle
<1>1. IInv /\ [Next]_vars => [Lifecycle!Next]_(Lifecycle!vars)
  <2> SUFFICES ASSUME IInv, [Next]_vars PROVE [Lifecycle!Next]_(Lifecycle!vars)
    OBVIOUS
  <2>1. CASE UNCHANGED vars
    BY <2>1 DEF vars, Lifecycle!vars, StandingOf, isValid
  <2> QED
    BY <2>1, AnchorRefines, RevokeRefines, TickRefines DEF Next
<1> QED
  BY <1>1, InitRefines, AnchorInvariant, PTL DEF Spec, ImplementsLifecycle, Lifecycle!Spec
----------------------------------------------------------------------------
(* The readers. *)

Derivations == {"not-run", "claims-differ", "bodies-differ", "terms-differ", "ok"}

Words == {"none", "valid", "expired", "revoked", "tampered", "malformed", "unverifiable", "not-granted", "not-found"}

Run == [tool : {"none", "desk", "command"}, phase : {"idle", "reading", "verdict", "answered"},
        kind : queue \cup {"none"}, envelope : Shapes \cup {NoEnvelope}, claims : Claims \cup {NoClaims},
        rederived : Derivations, asks : {"none", "anchor", "other"},
        reads : {"not-attempted", "not-granted", "granted"}, anchor : Statuses \cup {Unread},
        verdict : Words, withdrawn : BOOLEAN]

ReadersTypeOK ==
    /\ runs \in [Readers -> Run]
    /\ desk \in [selected : queue \cup {"none"}, busy : BOOLEAN, shows : Words \cup {"nothing", "failure"}]

\* The issuer of an id has anchored a commitment at some time.
EverAnchored(id, commitment) ==
    \E i \in DOMAIN events[id] : events[id][i].kind = "Anchored" /\ events[id][i].commitment = commitment

\* A verification under way: what it has read of the anchor was so once and, where
\* it matters, is so still; and a forged copy is inspected for the claims it was given.
RunOk(run) ==
    /\ run.phase \in {"reading", "verdict"} =>
          /\ run.tool # "none" /\ run.envelope \in Shapes
          /\ run.withdrawn => Revoked(anchors[run.envelope.referenceId])
          /\ run.kind = "forgery" => run.claims # NoClaims /\ run.claims # run.envelope.commitment
    /\ run.phase = "verdict" /\ run.asks = "anchor" =>
          /\ run.withdrawn /\ run.anchor # Unread => run.anchor = "Revoked"
          /\ run.anchor = "Valid" =>
                EverAnchored(run.envelope.referenceId, commitmentFor(run.envelope, run.claims))

RunsOk == \A r \in Readers : RunOk(runs[r])

VerdictInv == IInv /\ ReadersTypeOK /\ RunsOk

\* What a transaction or a block does to what was read: nothing.
LEMMA ReadStays ==
    ASSUME IInv, [Next]_vars, NEW id \in ReferenceIds
    PROVE  /\ Revoked(anchors[id]) => Revoked(anchors'[id])
           /\ DOMAIN events[id] \subseteq DOMAIN events'[id] /\ \A i \in DOMAIN events[id] : events'[id][i] = events[id][i]
<1>1. events[id] \in Seq(Events) /\ now \in Nat \ {0} /\ anchors \in [ReferenceIds -> Anchor]
      /\ events \in [ReferenceIds -> Seq(Events)]
  BY DEF IInv, TypeOK, Events, Times
<1>2. ASSUME NEW caller \in Accounts, NEW other \in ReferenceIds, NEW commitment \in Commitments,
             NEW expiresAt \in 0..MaxTime, anchor(caller, other, commitment, expiresAt)
      PROVE  /\ Revoked(anchors[id]) => Revoked(anchors'[id])
             /\ \E e : events'[id] = events[id] \/ events'[id] = Append(events[id], e)
  <2>1. (Revoked(anchors[id]) => Revoked(anchors'[id]))
    BY <1>1, <1>2 DEF anchor, Revoked
  <2> QED
    BY <1>1, <1>2, <2>1 DEF anchor
<1>3. ASSUME NEW caller \in Accounts, NEW other \in ReferenceIds, NEW reasonBytes, revoke(caller, other, reasonBytes)
      PROVE  /\ Revoked(anchors[id]) => Revoked(anchors'[id])
             /\ \E e : events'[id] = events[id] \/ events'[id] = Append(events[id], e)
  <2>1. Revoked(anchors[id]) => Revoked(anchors'[id])
    <3>1. CASE other = id
      BY <1>3, <3>1 DEF revoke
    <3>2. CASE other # id
      BY <1>1, <1>3, <3>2 DEF revoke
    <3> QED
      BY <3>1, <3>2
  <2> QED
    BY <1>1, <1>3, <2>1 DEF revoke
<1>4. CASE Tick \/ UNCHANGED vars
  BY <1>4 DEF Tick, vars
<1>5. ASSUME NEW e, events'[id] = events[id] \/ events'[id] = Append(events[id], e)
      PROVE  DOMAIN events[id] \subseteq DOMAIN events'[id] /\ \A i \in DOMAIN events[id] : events'[id][i] = events[id][i]
  BY <1>1, <1>5
<1> QED
  BY <1>2, <1>3, <1>4, <1>5 DEF Next

LEMMA RunStays ==
    ASSUME IInv, [Next]_vars, NEW run \in Run, RunOk(run)
    PROVE  RunOk(run)'
<1>1. run.phase \in {"reading", "verdict"} => run.envelope.referenceId \in ReferenceIds
  BY VerdictConstants DEF RunOk
<1>2. run.phase \in {"reading", "verdict"} /\ run.withdrawn => Revoked(anchors'[run.envelope.referenceId])
  BY <1>1, ReadStays DEF RunOk
<1>3. ASSUME NEW id \in ReferenceIds, NEW c, EverAnchored(id, c) PROVE EverAnchored(id, c)'
  BY <1>3, ReadStays DEF EverAnchored
<1>4. run.phase = "verdict" /\ run.asks = "anchor" /\ run.anchor = "Valid" =>
        EverAnchored(run.envelope.referenceId, commitmentFor(run.envelope, run.claims))'
  BY <1>1, <1>3 DEF RunOk
<1> QED
  BY <1>2, <1>4 DEF RunOk, Revoked, commitmentFor

\* What the contract answers, and what it says of the past.
LEMMA StatusFacts ==
    ASSUME IInv, NEW id \in ReferenceIds, NEW commitment
    PROVE  /\ verify(id, commitment) \in Statuses
           /\ Revoked(anchors[id]) => verify(id, commitment) = "Revoked"
           /\ verify(id, commitment) = "Valid" => EverAnchored(id, commitment)
<1>1. LogMatches(anchors[id], events[id]) /\ OrderedTimes(anchors[id], now) /\ events[id] \in Seq(Events)
  BY DEF IInv, TypeOK, Events, LogTellsState, TimesInOrder
<1>2. verify(id, commitment) \in Statuses
  BY DEF verify, Statuses
<1>3. Revoked(anchors[id]) => verify(id, commitment) = "Revoked"
  BY <1>1 DEF verify, OrderedTimes
<1>4. ASSUME verify(id, commitment) = "Valid" PROVE EverAnchored(id, commitment)
  <2>1. Anchored(anchors[id]) /\ ~Revoked(anchors[id]) /\ anchors[id].commitment = commitment
    BY <1>4 DEF verify
  <2>2. events[id] # <<>>
    BY <1>1, <2>1 DEF LogMatches, Unanchored, Anchored
  <2>3. Len(events[id]) \in 1..Len(events[id]) /\ DOMAIN events[id] = 1..Len(events[id])
    BY <1>1, <2>2
  <2>4. events[id][Len(events[id])].kind = "Anchored" /\ events[id][Len(events[id])].commitment = commitment
    BY <1>1, <2>1, <2>2, <2>3 DEF LogMatches
  <2> QED
    BY <2>3, <2>4 DEF EverAnchored
<1> QED
  BY <1>2, <1>3, <1>4

\* What the tiers can open to.
LEMMA OpenedFacts ==
    ASSUME NEW n \in 0..2, NEW reads \in [1..n -> Objects \cup {Refused}], NEW schema
    PROVE  opened(reads, schema).claims \in Claims \cup {NoClaims}
<1> DEFINE found == {i \in DOMAIN reads : readable(reads[i]) /\ openPayload(reads[i]).schema = schema}
           last == CHOOSE i \in found : \A j \in found : j =< i
<1>1. CASE found = {}
  BY <1>1 DEF opened, OtherPayload
<1>2. CASE found # {}
  <2>1. found \subseteq 1..n
    OBVIOUS
  <2>2. \E i \in found : \A j \in found : j =< i
    <3> HIDE DEF found
    <3>1. CASE 2 \in found
      BY <2>1, <3>1
    <3>2. CASE 2 \notin found
      <4>1. \A j \in found : j = 1
        BY <2>1, <3>2
      <4>2. 1 \in found
        BY <1>2, <4>1
      <4> QED
        BY <4>1, <4>2
    <3> QED
      BY <3>1, <3>2
  <2>3. last \in found
    <3> HIDE DEF found
    <3> QED
      BY <2>2
  <2>4. reads[last] \in Objects
    BY <2>3 DEF readable
  <2>5. openPayload(reads[last]).claims \in Claims \cup {NoClaims}
    BY <2>4, VerdictConstants DEF openPayload, OtherPayload
  <2> QED
    BY <1>2, <2>5 DEF opened
<1> QED
  BY <1>1, <1>2

LEMMA OpeningFacts ==
    ASSUME NEW n \in 0..2, NEW opening \in Openings[n] \cup {NotAttempted}
    PROVE  /\ opening.reads \in {"not-attempted", "not-granted", "granted"}
           /\ opening.claims \in Claims \cup {NoClaims}
           /\ opening.rederived \in Derivations
<1>1. CASE opening = NotAttempted
  BY <1>1 DEF NotAttempted, Derivations
<1>2. CASE opening \in Openings[n]
  <2>1. PICK reads \in [1..n -> Objects \cup {Refused}] :
          opening = [reads |-> IF \E i \in 1..n : readable(reads[i]) THEN "granted" ELSE "not-granted",
                     claims |-> IF opened(reads, "claims").claims # NoClaims
                                THEN opened(reads, "claims").claims ELSE opened(reads, "bundle").claims,
                     rederived |-> rederive(opened(reads, "bundle"))]
    BY <1>2 DEF Openings
  <2>2. opened(reads, "claims").claims \in Claims \cup {NoClaims} /\ opened(reads, "bundle").claims \in Claims \cup {NoClaims}
    BY OpenedFacts
  <2>3. rederive(opened(reads, "bundle")) \in Derivations
    BY DEF rederive, Derivations
  <2> QED
    BY <2>1, <2>2, <2>3
<1> QED
  BY <1>1, <1>2
----------------------------------------------------------------------------
(* A step of a verification. *)

LEMMA RunReplaced ==
    ASSUME ReadersTypeOK, RunsOk, NEW r \in Readers, NEW new \in Run, RunOk(new),
           runs' = [runs EXCEPT ![r] = new], UNCHANGED vars
    PROVE  runs' \in [Readers -> Run] /\ RunsOk'
<1>1. runs' \in [Readers -> Run]
  BY DEF ReadersTypeOK
<1>2. ASSUME NEW q \in Readers PROVE RunOk(runs'[q])
  BY <1>2 DEF ReadersTypeOK, RunsOk
<1>3. \A q \in Readers : RunOk(runs[q])' <=> RunOk(runs'[q])
  BY DEF RunOk, vars, EverAnchored, Revoked, commitmentFor
<1> QED
  BY <1>1, <1>2, <1>3 DEF RunsOk

LEMMA NoRunOk == NoRun \in Run /\ RunOk(NoRun)
BY DEF NoRun, Run, RunOk, Words, Statuses, Derivations, queue

LEMMA AnsweredOk ==
    ASSUME NEW tool \in {"desk", "command"}, NEW kind \in queue \cup {"none"}, NEW verdict \in Words
    PROVE  LET new == answered(tool, kind, verdict)
           IN  new \in Run /\ RunOk(new) /\ new.phase = "answered" /\ new.verdict = verdict
BY NoRunOk DEF answered, NoRun, Run, RunOk

LEMMA StartedOk ==
    ASSUME IInv, NEW tool \in {"desk", "command"}, NEW kind \in queue \cup {"none"}, NEW envelope \in Shapes,
           NEW claims \in Claims \cup {NoClaims}, NEW asks \in {"anchor", "other"},
           kind = "forgery" => claims # NoClaims /\ claims # envelope.commitment
    PROVE  started(tool, kind, envelope, claims, asks) \in Run /\ RunOk(started(tool, kind, envelope, claims, asks))
<1>1. PICK withdrawn \in BOOLEAN : withdrawn = Revoked(anchors[envelope.referenceId])
  BY DEF Revoked
<1>2. started(tool, kind, envelope, claims, asks) =
        [NoRun EXCEPT !.tool = tool, !.kind = kind, !.envelope = envelope, !.claims = claims, !.asks = asks,
                      !.phase = "reading", !.withdrawn = withdrawn]
  BY <1>1 DEF started
<1> DEFINE new == [NoRun EXCEPT !.tool = tool, !.kind = kind, !.envelope = envelope, !.claims = claims, !.asks = asks,
                                !.phase = "reading", !.withdrawn = withdrawn]
<1> DEFINE asked == [NoRun EXCEPT !.tool = tool, !.kind = kind, !.envelope = envelope]
<1>3. asked \in Run /\ asked.tool = tool /\ asked.kind = kind /\ asked.envelope = envelope
  BY NoRunOk DEF Run
<1>4. new = [asked EXCEPT !.claims = claims, !.asks = asks, !.phase = "reading", !.withdrawn = withdrawn]
  OBVIOUS
<1> HIDE DEF asked, new
<1>5. new \in Run
  BY <1>3, <1>4 DEF Run
<1>6. /\ new.phase = "reading" /\ new.tool = tool /\ new.kind = kind /\ new.envelope = envelope
      /\ new.claims = claims /\ new.withdrawn = withdrawn
  BY <1>3, <1>4 DEF Run
<1>7. RunOk(new)
  BY <1>1, <1>6 DEF RunOk
<1> QED
  BY <1>2, <1>5, <1>7 DEF new

LEMMA WordFacts ==
    ASSUME NEW f
    PROVE  decide(f) \in Words /\ assessReference(f) \in Words
BY DEF decide, assessReference, Words

\* What the desk gathers, the command reads: an answer about the claims at hand,
\* the anchor's if the anchor is asked.
LEMMA GatheredOk ==
    ASSUME IInv, NEW run \in Run, RunOk(run), run.phase = "reading", NEW new \in Run,
           new.phase = "verdict", new.tool = run.tool, new.kind = run.kind, new.envelope = run.envelope,
           new.withdrawn = run.withdrawn, run.claims # NoClaims => new.claims = run.claims,
           new.asks = run.asks, new.asks = "anchor" => new.anchor \in {verifyAnchor(new.envelope, new.claims), Unread}
    PROVE  RunOk(new)
<1>1. run.envelope \in Shapes /\ run.envelope.referenceId \in ReferenceIds /\ run.tool # "none"
  BY VerdictConstants DEF RunOk
<1> DEFINE status == verify(run.envelope.referenceId, commitmentFor(new.envelope, new.claims))
<1>2. new.asks = "anchor" => new.anchor \in {status, Unread}
  BY DEF verifyAnchor
<1>3. /\ Revoked(anchors[run.envelope.referenceId]) => status = "Revoked"
      /\ status = "Valid" => EverAnchored(run.envelope.referenceId, commitmentFor(new.envelope, new.claims))
  BY <1>1, StatusFacts
<1> HIDE DEF status
<1>4. Unread # "Valid"
  BY DEF Unread
<1> QED
  BY <1>1, <1>2, <1>3, <1>4 DEF RunOk

LEMMA InspectOk ==
    ASSUME VerdictInv, NEW r \in Readers, NEW kind \in queue, inspect(r, kind)
    PROVE  runs' \in [Readers -> Run] /\ RunsOk'
<1>1. PICK envelope \in envelopesOf(kind) :
        runs' = [runs EXCEPT ![r] =
           IF envelope \in Shapes
           THEN started("desk", kind, envelope, IF kind = "forgery" THEN forge(Held.claims) ELSE NoClaims, "anchor")
           ELSE answered("desk", kind, "not-found")]
  BY DEF inspect
<1>2. UNCHANGED vars
  BY DEF inspect
<1>3. forge(Held.claims) \in Claims /\ forge(Held.claims) # Held.claims
  BY VerdictConstants DEF forge
<1>4. kind = "forgery" => envelope = Held.envelope
  BY DEF envelopesOf
<1>5. CASE envelope \in Shapes
  <2> DEFINE claims == IF kind = "forgery" THEN forge(Held.claims) ELSE NoClaims
  <2>1. claims \in Claims \cup {NoClaims} /\ (kind = "forgery" => claims # NoClaims /\ claims # envelope.commitment)
    BY <1>3, <1>4, VerdictConstants
  <2> HIDE DEF claims
  <2>2. started("desk", kind, envelope, claims, "anchor") \in Run /\ RunOk(started("desk", kind, envelope, claims, "anchor"))
    BY <1>5, <2>1, StartedOk DEF VerdictInv
  <2>3. runs' = [runs EXCEPT ![r] = started("desk", kind, envelope, claims, "anchor")]
    BY <1>1, <1>5 DEF claims
  <2> QED
    BY <1>2, <2>2, <2>3, RunReplaced DEF VerdictInv
<1>6. CASE envelope \notin Shapes
  <2>1. answered("desk", kind, "not-found") \in Run /\ RunOk(answered("desk", kind, "not-found"))
    BY AnsweredOk DEF Words
  <2>2. runs' = [runs EXCEPT ![r] = answered("desk", kind, "not-found")]
    BY <1>1, <1>6
  <2> QED
    BY <1>2, <2>1, <2>2, RunReplaced DEF VerdictInv
<1> QED
  BY <1>5, <1>6

LEMMA GatherOk ==
    ASSUME VerdictInv, NEW r \in Readers, gather(r)
    PROVE  runs' \in [Readers -> Run] /\ RunsOk'
<1> DEFINE run == runs[r]
<1>1. run \in Run /\ RunOk(run) /\ run.phase = "reading" /\ UNCHANGED vars
  BY DEF VerdictInv, ReadersTypeOK, RunsOk, gather
<1>2. Len(run.envelope.tiers) \in 0..2 /\ run.envelope.referenceId \in ReferenceIds
  BY <1>1, VerdictConstants DEF RunOk
<1>0. PICK opening \in Openings[Len(run.envelope.tiers)] \cup {NotAttempted} :
        \E status \in readAnchor(run.envelope, claimSet(run.claims, opening)) :
          runs' = [runs EXCEPT ![r].phase = "verdict", ![r].anchor = status, ![r].claims = claimSet(@, opening),
                               ![r].rederived = opening.rederived, ![r].reads = opening.reads]
  BY DEF gather
<1>3. PICK status \in readAnchor(run.envelope, claimSet(run.claims, opening)) :
        runs' = [runs EXCEPT ![r].phase = "verdict", ![r].anchor = status, ![r].claims = claimSet(@, opening),
                             ![r].rederived = opening.rederived, ![r].reads = opening.reads]
  BY <1>0
<1> DEFINE claims == claimSet(run.claims, opening)
           new == [run EXCEPT !.phase = "verdict", !.anchor = status, !.claims = claims,
                              !.rederived = opening.rederived, !.reads = opening.reads]
<1>4. runs' = [runs EXCEPT ![r] = new]
  BY <1>3 DEF VerdictInv, ReadersTypeOK
<1>5. /\ opening.reads \in {"not-attempted", "not-granted", "granted"}
      /\ opening.claims \in Claims \cup {NoClaims}
      /\ opening.rederived \in Derivations
  BY <1>2, OpeningFacts
<1>6. claims \in Claims \cup {NoClaims} /\ (run.claims # NoClaims => claims = run.claims)
  BY <1>1, <1>5 DEF claimSet, Run
<1>7. status \in {verifyAnchor(run.envelope, claims), Unread} /\ status \in Statuses \cup {Unread}
  BY <1>2, StatusFacts DEF readAnchor, verifyAnchor, VerdictInv
<1> HIDE DEF run, claims
<1>8. /\ new \in Run /\ new.phase = "verdict" /\ new.tool = run.tool /\ new.kind = run.kind
      /\ new.envelope = run.envelope /\ new.withdrawn = run.withdrawn /\ new.claims = claims /\ new.anchor = status
      /\ new.asks = run.asks
  BY <1>1, <1>5, <1>6, <1>7 DEF Run
<1> HIDE DEF new
<1>9. RunOk(new)
  BY <1>1, <1>6, <1>7, <1>8, GatheredOk DEF VerdictInv
<1> QED
  BY <1>1, <1>4, <1>8, <1>9, RunReplaced DEF VerdictInv

LEMMA ConsultOk ==
    ASSUME VerdictInv, NEW r \in Readers, consultAnchor(r)
    PROVE  runs' \in [Readers -> Run] /\ RunsOk'
<1> DEFINE run == runs[r]
<1>1. run \in Run /\ RunOk(run) /\ run.phase = "reading" /\ UNCHANGED vars
  BY DEF VerdictInv, ReadersTypeOK, RunsOk, consultAnchor
<1>2. PICK status \in IF run.asks = "anchor" THEN readAnchor(run.envelope, run.claims) ELSE Statuses \cup {Unread} :
        runs' = [runs EXCEPT ![r].anchor = status, ![r].phase = "verdict"]
  BY DEF consultAnchor
<1> DEFINE new == [run EXCEPT !.anchor = status, !.phase = "verdict"]
<1>3. runs' = [runs EXCEPT ![r] = new]
  BY <1>2 DEF VerdictInv, ReadersTypeOK
<1>4. /\ status \in Statuses \cup {Unread}
      /\ run.asks = "anchor" => status \in {verifyAnchor(run.envelope, run.claims), Unread}
  BY <1>1, <1>2, StatusFacts, VerdictConstants DEF readAnchor, verifyAnchor, VerdictInv, RunOk
<1> HIDE DEF run
<1>5. /\ new \in Run /\ new.phase = "verdict" /\ new.tool = run.tool /\ new.kind = run.kind
      /\ new.envelope = run.envelope /\ new.withdrawn = run.withdrawn /\ new.claims = run.claims /\ new.anchor = status
      /\ new.asks = run.asks
  BY <1>1, <1>4 DEF Run
<1> HIDE DEF new
<1>6. RunOk(new)
  BY <1>1, <1>4, <1>5, GatheredOk DEF VerdictInv, run
<1> QED
  BY <1>1, <1>3, <1>5, <1>6, RunReplaced DEF VerdictInv

LEMMA LoadOk ==
    ASSUME VerdictInv, NEW r \in Readers, load(r)
    PROVE  runs' \in [Readers -> Run] /\ RunsOk'
<1>1. PICK envelope \in loadEnvelope, claims \in loadClaims, chosen \in BOOLEAN :
        runs' = [runs EXCEPT ![r] =
           IF envelope = Malformed THEN answered("command", "none", "malformed")
           ELSE IF envelope \notin Shapes \/ claims = Failed THEN answered("command", "none", "none")
           ELSE started("command", "none", envelope, claims, anchorAsked(envelope, chosen))]
  BY DEF load
<1>2. UNCHANGED vars
  BY DEF load
<1>3. PICK new : /\ runs' = [runs EXCEPT ![r] = new]
                 /\ \/ new = answered("command", "none", "malformed")
                    \/ new = answered("command", "none", "none")
                    \/ /\ envelope \in Shapes /\ claims # Failed
                       /\ new = started("command", "none", envelope, claims, anchorAsked(envelope, chosen))
  BY <1>1
<1>4. claims # Failed => claims \in Claims \cup {NoClaims}
  BY DEF loadClaims
<1>6. anchorAsked(envelope, chosen) \in {"anchor", "other"}
  BY DEF anchorAsked
<1>5. new \in Run /\ RunOk(new)
  BY <1>3, <1>4, <1>6, AnsweredOk, StartedOk DEF Words, VerdictInv
<1> QED
  BY <1>2, <1>3, <1>5, RunReplaced DEF VerdictInv

\* The steps that answer, show or give up.
LEMMA EndOk ==
    ASSUME VerdictInv, NEW r \in Readers, answer(r) \/ assess(r) \/ show(r) \/ fail(r) \/ exit(r)
    PROVE  runs' \in [Readers -> Run] /\ RunsOk'
<1>1. UNCHANGED vars /\ runs[r] \in Run
  BY DEF answer, assess, show, fail, exit, VerdictInv, ReadersTypeOK
<1>2. PICK new : /\ runs' = [runs EXCEPT ![r] = new]
                 /\ \/ new = NoRun
                    \/ new = answered("desk", runs[r].kind, decide(runs[r]))
                    \/ \E outcome \in openTier(runs[r].envelope) :
                          new = answered("command", "none", assessReference([runs[r] EXCEPT !.reads = outcome]))
  BY DEF answer, assess, show, fail, exit
<1>3. runs[r].kind \in queue \cup {"none"}
  BY <1>1 DEF Run
<1>4. new \in Run /\ RunOk(new)
  <2>1. CASE new = NoRun
    BY <2>1, NoRunOk
  <2>2. ASSUME NEW tool \in {"desk", "command"}, NEW kind \in queue \cup {"none"}, NEW verdict \in Words,
               new = answered(tool, kind, verdict)
        PROVE  new \in Run /\ RunOk(new)
    BY <2>2, AnsweredOk
  <2>3. CASE new = answered("desk", runs[r].kind, decide(runs[r]))
    <3>1. decide(runs[r]) \in Words
      BY WordFacts
    <3> QED
      BY <1>3, <2>2, <2>3, <3>1
  <2>4. CASE \E outcome \in openTier(runs[r].envelope) :
               new = answered("command", "none", assessReference([runs[r] EXCEPT !.reads = outcome]))
    <3>1. PICK verdict \in Words : new = answered("command", "none", verdict)
      BY <2>4, WordFacts
    <3> QED
      BY <2>2, <3>1
  <2> QED
    BY <1>2, <2>1, <2>3, <2>4
<1> QED
  BY <1>1, <1>2, <1>4, RunReplaced DEF VerdictInv

LEMMA DeskTyped ==
    ASSUME VerdictInv, VerdictNext
    PROVE  desk' \in [selected : queue \cup {"none"}, busy : BOOLEAN, shows : Words \cup {"nothing", "failure"}]
<1>1. desk \in [selected : queue \cup {"none"}, busy : BOOLEAN, shows : Words \cup {"nothing", "failure"}]
  BY DEF VerdictInv, ReadersTypeOK
<1>2. ASSUME NEW r \in Readers, NEW kind \in queue, inspect(r, kind)
      PROVE  desk' \in [selected : queue \cup {"none"}, busy : BOOLEAN, shows : Words \cup {"nothing", "failure"}]
  BY <1>2 DEF inspect
<1>3. ASSUME NEW r \in Readers, show(r) \/ fail(r)
      PROVE  desk' \in [selected : queue \cup {"none"}, busy : BOOLEAN, shows : Words \cup {"nothing", "failure"}]
  <2>1. runs[r].verdict \in Words
    BY DEF VerdictInv, ReadersTypeOK, Run
  <2> QED
    BY <1>1, <1>3, <2>1 DEF show, fail
<1>4. ASSUME NEW r \in Readers, gather(r) \/ answer(r) \/ CommandStep(r) PROVE desk' = desk
  BY <1>4 DEF gather, answer, CommandStep, load, consultAnchor, assess, exit
<1>5. CASE Next /\ UNCHANGED readerVars
  BY <1>1, <1>5 DEF readerVars
<1> QED
  BY <1>1, <1>2, <1>3, <1>4, <1>5 DEF VerdictNext, DeskStep

LEMMA ReadersLookOnly == VerdictNext => [Next]_vars
<1> SUFFICES ASSUME NEW r \in Readers, DeskStep(r) \/ CommandStep(r) PROVE UNCHANGED vars
  BY DEF VerdictNext
<1> QED
  BY DEF DeskStep, CommandStep, inspect, gather, answer, show, fail, load, consultAnchor, assess, exit

LEMMA VerdictInductive == VerdictInv /\ [VerdictNext]_verdictVars => VerdictInv'
<1> SUFFICES ASSUME VerdictInv, [VerdictNext]_verdictVars PROVE VerdictInv'
  OBVIOUS
<1>1. [Next]_vars
  BY ReadersLookOnly DEF verdictVars
<1>2. IInv'
  BY <1>1, NextInductive DEF VerdictInv
<1>3. CASE UNCHANGED readerVars
  <2>1. UNCHANGED <<runs, desk>>
    BY <1>3 DEF readerVars
  <2>2. ASSUME NEW r \in Readers PROVE RunOk(runs[r])'
    <3>1. runs[r] \in Run /\ RunOk(runs[r])
      BY DEF VerdictInv, ReadersTypeOK, RunsOk
    <3>2. PICK run \in Run : run = runs[r] /\ RunOk(run)
      BY <3>1
    <3>3. RunOk(run)'
      BY <1>1, <3>2, RunStays DEF VerdictInv
    <3>4. run = runs'[r]
      BY <2>1, <3>2
    <3> QED
      BY <3>3, <3>4
  <2>3. RunsOk'
    BY <2>2 DEF RunsOk
  <2> QED
    BY <1>2, <2>1, <2>3 DEF VerdictInv, ReadersTypeOK
<1>4. ASSUME NEW r \in Readers, DeskStep(r) \/ CommandStep(r) PROVE VerdictInv'
  <2>1. runs' \in [Readers -> Run] /\ RunsOk'
    BY <1>4, InspectOk, GatherOk, ConsultOk, LoadOk, EndOk DEF DeskStep, CommandStep
  <2>2. VerdictNext
    BY <1>4 DEF VerdictNext
  <2> QED
    BY <1>2, <2>1, <2>2, DeskTyped DEF VerdictInv, ReadersTypeOK
<1> QED
  BY <1>3, <1>4 DEF VerdictNext, verdictVars, readerVars

LEMMA VerdictInitInductive == VerdictInit => VerdictInv
<1> SUFFICES ASSUME VerdictInit PROVE VerdictInv
  OBVIOUS
<1>1. IInv
  BY InitInductive DEF VerdictInit
<1>2. ReadersTypeOK
  BY NoRunOk DEF VerdictInit, ReadersTypeOK, Words
<1>3. RunsOk
  BY NoRunOk DEF VerdictInit, RunsOk
<1> QED
  BY <1>1, <1>2, <1>3 DEF VerdictInv

\* The inductive invariant of the readers: what a verification read of the
\* contract and still goes by was so, and in what matters is so still.
THEOREM VerdictInvariant == VerdictSpec => []VerdictInv
<1> QED
  BY VerdictInitInductive, VerdictInductive, PTL DEF VerdictSpec

\* Verifications, by the page (api/verify/route.ts) or the command (verify.ts),
\* only look: whatever they do, the contract does what it does without them. All
\* that is proved of the contract holds beside its readers.
THEOREM ReadersChangeNothing == VerdictSpec => Spec
<1>1. VerdictInit => Init
  BY DEF VerdictInit
<1>2. [VerdictNext]_verdictVars => [Next]_vars
  BY ReadersLookOnly DEF verdictVars
<1> QED
  BY <1>1, <1>2, PTL DEF VerdictSpec, Spec

\* What answers a verification: the desk's decision on what it gathered, or the
\* command's with the outcome of the tier it opened.
LEMMA AnswerCases ==
    ASSUME VerdictInv, [VerdictNext]_verdictVars, NEW r \in Readers, Answers(r)
    PROVE  /\ runs[r] \in Run /\ RunOk(runs[r]) /\ runs[r].phase = "verdict"
           /\ runs[r].envelope \in Shapes /\ runs[r].envelope.expiresAt \in Nat /\ now \in Nat
           /\ \/ runs[r].tool = "desk" /\ runs'[r].verdict = decide(runs[r])
              \/ /\ runs[r].tool = "command"
                 /\ \E outcome \in openTier(runs[r].envelope) :
                       runs'[r].verdict = assessReference([runs[r] EXCEPT !.reads = outcome])
<1>1. runs \in [Readers -> Run] /\ RunOk(runs[r]) /\ runs[r].phase = "verdict" /\ runs'[r].phase = "answered"
  BY DEF VerdictInv, ReadersTypeOK, RunsOk, Answers
<1>2. runs[r].envelope \in Shapes /\ runs[r].envelope.expiresAt \in Nat /\ now \in Nat
  <2>1. runs[r].envelope \in Shapes
    BY <1>1 DEF RunOk
  <2> QED
    BY <2>1, VerdictConstants DEF VerdictInv, IInv, TypeOK, Times
<1>3. runs' # runs
  BY <1>1
<1>4. PICK q \in Readers : DeskStep(q) \/ CommandStep(q)
  BY <1>3 DEF VerdictNext, verdictVars, readerVars
<1>5. ASSUME NEW new, runs' = [runs EXCEPT ![q] = new] PROVE q = r /\ runs'[r] = new
  BY <1>1, <1>5
<1>6. ASSUME NEW kind \in queue, inspect(q, kind) PROVE FALSE
  <2>1. PICK new : runs' = [runs EXCEPT ![q] = new]
    BY <1>6 DEF inspect
  <2> QED
    BY <1>1, <1>5, <1>6, <2>1 DEF inspect
<1>7. CASE gather(q)
  <2>1. runs[q].phase = "reading"
    BY <1>7 DEF gather
  <2>2. \A p \in Readers : p # q => runs'[p] = runs[p]
    BY <1>1, <1>7 DEF gather
  <2> QED
    BY <1>1, <2>1, <2>2
<1>8. CASE consultAnchor(q)
  <2>1. runs[q].phase = "reading"
    BY <1>8 DEF consultAnchor
  <2>2. \A p \in Readers : p # q => runs'[p] = runs[p]
    BY <1>1, <1>8 DEF consultAnchor
  <2> QED
    BY <1>1, <2>1, <2>2
<1>9. CASE load(q)
  BY <1>1, <1>9 DEF load
<1>10. CASE show(q) \/ fail(q) \/ exit(q)
  <2>1. runs' = [runs EXCEPT ![q] = NoRun]
    BY <1>10 DEF show, fail, exit
  <2>2. runs'[r] = NoRun
    BY <1>5, <2>1
  <2> QED
    BY <1>1, <2>2 DEF NoRun
<1>11. CASE answer(q)
  <2>1. runs' = [runs EXCEPT ![q] = answered("desk", runs[q].kind, decide(runs[q]))] /\ runs[q].tool = "desk"
    BY <1>11 DEF answer
  <2>2. q = r /\ runs'[r] = answered("desk", runs[r].kind, decide(runs[r]))
    BY <1>5, <2>1
  <2>3. runs[r].kind \in queue \cup {"none"} /\ decide(runs[r]) \in Words
    BY <1>1, WordFacts DEF Run
  <2>4. runs'[r].verdict = decide(runs[r])
    BY <2>2, <2>3, AnsweredOk
  <2> QED
    BY <1>1, <1>2, <2>1, <2>2, <2>4
<1>12. CASE assess(q)
  <2>1. PICK outcome \in openTier(runs[q].envelope) :
          runs' = [runs EXCEPT ![q] = answered("command", "none", assessReference([runs[q] EXCEPT !.reads = outcome]))]
    BY <1>12 DEF assess
  <2>2. runs[q].tool = "command"
    BY <1>12 DEF assess
  <2> DEFINE verdict == assessReference([runs[r] EXCEPT !.reads = outcome])
  <2>3. q = r /\ runs'[r] = answered("command", "none", verdict)
    BY <1>5, <2>1
  <2>4. verdict \in Words
    BY WordFacts
  <2> HIDE DEF verdict
  <2>5. runs'[r].verdict = verdict
    BY <2>3, <2>4, AnsweredOk
  <2> QED
    BY <1>1, <1>2, <2>1, <2>2, <2>3, <2>5 DEF verdict
<1> QED
  BY <1>4, <1>6, <1>7, <1>8, <1>9, <1>10, <1>11, <1>12 DEF DeskStep, CommandStep

\* The command's facts, but for the tier it opened last.
LEMMA OpenedLast ==
    ASSUME NEW run \in Run, NEW outcome
    PROVE  LET f == [run EXCEPT !.reads = outcome]
           IN  /\ f.reads = outcome /\ f.claims = run.claims /\ f.envelope = run.envelope /\ f.anchor = run.anchor
               /\ f.rederived = run.rederived
BY DEF Run
----------------------------------------------------------------------------
(* What the readers conclude. *)

\* decide (api/verify/route.ts) and assessReference (status.ts): a reference
\* revoked before a verification began is called revoked or tampered by it, if the
\* anchor was asked and could be read, whatever else became of the reference.
THEOREM WithdrawalSeen == VerdictSpec => WithdrawnIsSeen
<1>1. VerdictInv /\ [VerdictNext]_verdictVars =>
        [\A r \in Readers : Answers(r) /\ runs[r].withdrawn /\ runs[r].asks = "anchor" /\ runs[r].anchor # Unread =>
            runs'[r].verdict \in {"revoked", "tampered"}]_verdictVars
  <2> SUFFICES ASSUME VerdictInv, [VerdictNext]_verdictVars, NEW r \in Readers,
                      Answers(r), runs[r].withdrawn, runs[r].asks = "anchor", runs[r].anchor # Unread
               PROVE  runs'[r].verdict \in {"revoked", "tampered"}
    OBVIOUS
  <2>1. runs[r].anchor = "Revoked"
    BY AnswerCases DEF RunOk
  <2>2. CASE runs'[r].verdict = decide(runs[r])
    BY <2>1, <2>2 DEF decide
  <2>3. ASSUME NEW outcome, runs'[r].verdict = assessReference([runs[r] EXCEPT !.reads = outcome])
        PROVE  runs'[r].verdict \in {"revoked", "tampered"}
    <3> DEFINE f == [runs[r] EXCEPT !.reads = outcome]
    <3>1. f.anchor = "Revoked"
      BY <2>1, AnswerCases, OpenedLast
    <3> HIDE DEF f
    <3>2. assessReference(f) \in {"revoked", "tampered"}
      BY <3>1 DEF assessReference
    <3> QED
      BY <2>3, <3>2 DEF f
  <2> QED
    BY <2>2, <2>3, AnswerCases
<1> QED
  BY <1>1, VerdictInvariant, PTL DEF VerdictSpec, WithdrawnIsSeen

\* What both tools require before they call a reference valid.
LEMMA ValidFacts ==
    ASSUME NEW f
    PROVE  /\ decide(f) = "valid" =>
                 /\ ~mismatch(f) /\ f.anchor \notin {"CommitmentMismatch", "Revoked", "NeverAnchored", "Expired"}
                 /\ ~(f.envelope.expiresAt < now) /\ f.reads # "not-granted"
                 /\ ~rederivationFailed(f)
           /\ assessReference(f) = "valid" =>
                 /\ ~mismatch(f) /\ f.anchor \notin {"CommitmentMismatch", "Revoked", "Expired"}
                 /\ ~(f.envelope.expiresAt =< now) /\ f.reads # "not-granted" /\ provedSomething(f)
           /\ mismatch(f) => decide(f) = "tampered" /\ assessReference(f) = "tampered"
BY DEF decide, assessReference

\* sdk/verify.ts, api/verify/route.ts: claims that are called valid are those of
\* the envelope and, where the anchor was asked and answered, were anchored by the
\* issuer of the id, or the command was told that nobody has anchored it; a forged
\* copy is called tampered.
THEOREM ValidIsBound == VerdictSpec => ValidBindsClaims
<1>1. ASSUME VerdictInv, [VerdictNext]_verdictVars, NEW r \in Readers, Answers(r)
      PROVE  /\ runs'[r].verdict = "valid" /\ runs[r].claims # NoClaims =>
                   /\ matches(runs[r])
                   /\ runs[r].asks = "anchor" /\ runs[r].anchor # Unread =>
                         \/ runs[r].tool = "command" /\ runs[r].anchor = "NeverAnchored"
                         \/ \E e \in Range(events[runs[r].envelope.referenceId]) :
                               e.kind = "Anchored" /\ e.commitment = runs[r].claims
             /\ runs[r].kind = "forgery" => runs'[r].verdict = "tampered"
  <2>1. /\ runs[r] \in Run /\ RunOk(runs[r]) /\ runs[r].phase = "verdict"
        /\ \/ runs[r].tool = "desk" /\ runs'[r].verdict = decide(runs[r])
           \/ /\ runs[r].tool = "command"
              /\ \E outcome : runs'[r].verdict = assessReference([runs[r] EXCEPT !.reads = outcome])
    BY <1>1, AnswerCases
  <2>2. PICK f : /\ f.claims = runs[r].claims /\ f.envelope = runs[r].envelope /\ f.anchor = runs[r].anchor
                 /\ \/ runs[r].tool = "desk" /\ runs'[r].verdict = decide(f)
                    \/ runs[r].tool = "command" /\ runs'[r].verdict = assessReference(f)
    BY <2>1, OpenedLast
  <2>3. mismatch(f) <=> mismatch(runs[r])
    BY <2>2 DEF mismatch, matches
  <2>4. ASSUME runs'[r].verdict = "valid", runs[r].claims # NoClaims
        PROVE  /\ matches(runs[r])
               /\ runs[r].asks = "anchor" /\ runs[r].anchor # Unread =>
                     \/ runs[r].tool = "command" /\ runs[r].anchor = "NeverAnchored"
                     \/ \E e \in Range(events[runs[r].envelope.referenceId]) :
                           e.kind = "Anchored" /\ e.commitment = runs[r].claims
    <3>1. /\ ~mismatch(runs[r]) /\ runs[r].anchor \notin {"CommitmentMismatch", "Revoked", "Expired"}
          /\ runs[r].anchor = "NeverAnchored" => runs[r].tool = "command"
      BY <2>2, <2>3, <2>4, ValidFacts
    <3>2. matches(runs[r])
      BY <2>4, <3>1 DEF mismatch
    <3>3. ASSUME runs[r].asks = "anchor", runs[r].anchor \notin {Unread, "NeverAnchored"}
          PROVE  \E e \in Range(events[runs[r].envelope.referenceId]) :
                    e.kind = "Anchored" /\ e.commitment = runs[r].claims
      <4>1. runs[r].anchor = "Valid"
        BY <2>1, <3>1, <3>3 DEF Run, Statuses
      <4>2. EverAnchored(runs[r].envelope.referenceId, runs[r].claims)
        BY <2>1, <2>4, <3>3, <4>1 DEF RunOk, commitmentFor
      <4> QED
        BY <4>2 DEF EverAnchored, Range
    <3> QED
      BY <3>1, <3>2, <3>3
  <2>5. ASSUME runs[r].kind = "forgery" PROVE runs'[r].verdict = "tampered"
    <3>1. mismatch(runs[r])
      BY <2>1, <2>5 DEF RunOk, mismatch, matches
    <3> QED
      BY <2>2, <2>3, <3>1, ValidFacts
  <2> QED
    BY <2>4, <2>5
<1>2. VerdictInv /\ [VerdictNext]_verdictVars =>
        [\A r \in Readers : Answers(r) =>
          /\ runs'[r].verdict = "valid" /\ runs[r].claims # NoClaims =>
                /\ matches(runs[r])
                /\ runs[r].asks = "anchor" /\ runs[r].anchor # Unread =>
                      \/ runs[r].tool = "command" /\ runs[r].anchor = "NeverAnchored"
                      \/ \E e \in Range(events[runs[r].envelope.referenceId]) :
                            e.kind = "Anchored" /\ e.commitment = runs[r].claims
          /\ runs[r].kind = "forgery" => runs'[r].verdict = "tampered"]_verdictVars
  BY <1>1
<1> QED
  BY <1>2, VerdictInvariant, PTL DEF VerdictSpec, ValidBindsClaims

\* On the facts the desk has, status.ts and route.ts come to the same verdict, but
\* for the four cases the property names.
THEOREM ReadersAgree == VerdictSpec => DeskAndCommandAgree
<1>1. ASSUME VerdictInv, [VerdictNext]_verdictVars, NEW r \in Readers, runs[r].tool = "desk", Answers(r)
      PROVE  LET here == runs'[r].verdict
                 there == assessReference(runs[r])
             IN  \/ here = there
                 \/ here = "tampered" /\ rederivationFailed(runs[r])
                 \/ here = "not-found" /\ runs[r].anchor = "NeverAnchored"
                 \/ here = "valid" /\ there = "unverifiable"
                 \/ there = "expired" /\ runs[r].envelope.expiresAt = now
  <2> DEFINE f == runs[r]
  <2>1. runs'[r].verdict = decide(f) /\ f.envelope.expiresAt \in Nat /\ now \in Nat
    BY <1>1, AnswerCases
  <2> HIDE DEF f
  <2>2. (f.envelope.expiresAt < now) <=> (f.envelope.expiresAt =< now /\ f.envelope.expiresAt # now)
    BY <2>1
  <2>3. \/ decide(f) = assessReference(f)
        \/ decide(f) = "tampered" /\ rederivationFailed(f)
        \/ decide(f) = "not-found" /\ f.anchor = "NeverAnchored"
        \/ decide(f) = "valid" /\ assessReference(f) = "unverifiable"
        \/ assessReference(f) = "expired" /\ f.envelope.expiresAt = now
    <3>1. CASE mismatch(f) \/ f.anchor = "CommitmentMismatch" \/ rederivationFailed(f)
      BY <3>1 DEF decide, assessReference
    <3>2. CASE ~(mismatch(f) \/ f.anchor = "CommitmentMismatch" \/ rederivationFailed(f))
      <4>1. CASE f.anchor \in {"Revoked", "NeverAnchored", "Expired"}
        BY <3>2, <4>1 DEF decide, assessReference
      <4>2. CASE f.anchor \notin {"Revoked", "NeverAnchored", "Expired"}
        <5>1. CASE f.envelope.expiresAt < now
          BY <2>2, <3>2, <4>2, <5>1 DEF decide, assessReference
        <5>2. CASE f.envelope.expiresAt = now
          BY <2>1, <3>2, <4>2, <5>2 DEF assessReference
        <5>3. CASE ~(f.envelope.expiresAt =< now)
          BY <2>2, <3>2, <4>2, <5>3 DEF decide, assessReference
        <5> QED
          BY <2>2, <5>1, <5>2, <5>3
      <4> QED
        BY <4>1, <4>2
    <3> QED
      BY <3>1, <3>2
  <2> QED
    BY <2>1, <2>3 DEF f
<1>2. VerdictInv /\ [VerdictNext]_verdictVars =>
        [\A r \in Readers : runs[r].tool = "desk" /\ Answers(r) =>
          LET here == runs'[r].verdict
              there == assessReference(runs[r])
          IN  \/ here = there
              \/ here = "tampered" /\ rederivationFailed(runs[r])
              \/ here = "not-found" /\ runs[r].anchor = "NeverAnchored"
              \/ here = "valid" /\ there = "unverifiable"
              \/ there = "expired" /\ runs[r].envelope.expiresAt = now]_verdictVars
  BY <1>1
<1> QED
  BY <1>2, VerdictInvariant, PTL DEF VerdictSpec, DeskAndCommandAgree

\* The command's rows beside its verdict.
FailedChecks(f) == {c \in DOMAIN checks(f) : checks(f)[c] = "fail"}

LEMMA CheckFacts ==
    ASSUME NEW f
    PROVE  /\ "expiry" \in FailedChecks(f) <=> f.envelope.expiresAt =< now
           /\ "commitment" \in FailedChecks(f) <=> mismatch(f)
           /\ "anchor" \in FailedChecks(f) <=> f.anchor \notin {"Valid", Unread, "NeverAnchored"}
           /\ "tier" \in FailedChecks(f) <=> f.reads = "not-granted"
           /\ FailedChecks(f) \subseteq {"expiry", "commitment", "anchor", "tier"}
<1>1. /\ DOMAIN checks(f) = {"expiry", "commitment", "anchor", "tier"}
      /\ checks(f)["expiry"] = IF f.envelope.expiresAt =< now THEN "fail" ELSE "pass"
      /\ checks(f)["commitment"] = IF f.claims = NoClaims THEN "skipped" ELSE IF matches(f) THEN "pass" ELSE "fail"
      /\ checks(f)["anchor"] = IF f.anchor = "Valid" THEN "pass"
                               ELSE IF f.anchor \in {Unread, "NeverAnchored"} THEN "skipped" ELSE "fail"
      /\ checks(f)["tier"] = IF f.reads = "granted" THEN "pass" ELSE IF f.reads = "not-granted" THEN "fail" ELSE "skipped"
  BY DEF checks
<1>2. "commitment" \in FailedChecks(f) <=> mismatch(f)
  BY <1>1 DEF FailedChecks, mismatch
<1>3. "expiry" \in FailedChecks(f) <=> f.envelope.expiresAt =< now
  BY <1>1 DEF FailedChecks
<1>4. "anchor" \in FailedChecks(f) <=> f.anchor \notin {"Valid", Unread, "NeverAnchored"}
  BY <1>1 DEF FailedChecks
<1>5. "tier" \in FailedChecks(f) <=> f.reads = "not-granted"
  BY <1>1 DEF FailedChecks
<1>6. FailedChecks(f) \subseteq {"expiry", "commitment", "anchor", "tier"}
  BY <1>1 DEF FailedChecks
<1> QED
  BY <1>2, <1>3, <1>4, <1>5, <1>6

LEMMA CommandRows ==
    ASSUME NEW f, f.anchor \in Statuses \cup {Unread}
    PROVE  LET verdict == assessReference(f)
           IN  /\ verdict = "valid" => FailedChecks(f) = {} /\ provedSomething(f)
               /\ verdict \in {"tampered", "revoked", "not-granted"} => FailedChecks(f) # {}
<1>1. assessReference(f) = "valid" => FailedChecks(f) = {} /\ provedSomething(f)
  BY CheckFacts, ValidFacts DEF Statuses
<1>2. assessReference(f) = "tampered" => mismatch(f) \/ f.anchor = "CommitmentMismatch"
  BY DEF assessReference
<1>3. assessReference(f) = "revoked" => f.anchor = "Revoked"
  BY DEF assessReference
<1>4. assessReference(f) = "not-granted" => f.reads = "not-granted"
  BY DEF assessReference
<1>5. Unread \notin {"Revoked", "CommitmentMismatch"}
  BY DEF Unread
<1>6. assessReference(f) \in {"tampered", "revoked", "not-granted"} =>
        "commitment" \in FailedChecks(f) \/ "anchor" \in FailedChecks(f) \/ "tier" \in FailedChecks(f)
  BY <1>2, <1>3, <1>4, <1>5, CheckFacts
<1> QED
  BY <1>1, <1>6

\* Zero is the exit code of one verdict.
LEMMA ExitZero ==
    ASSUME NEW run, NEW f, run.verdict = assessReference(f), exitCode(run) = 0
    PROVE  run.verdict = "valid"
<1>1. run.verdict \in {"valid", "expired", "revoked", "tampered", "unverifiable", "not-granted"}
  BY DEF assessReference
<1>2. EXIT_CODES[run.verdict] = 0
  BY <1>1 DEF exitCode
<1>3. /\ EXIT_CODES["expired"] = 2 /\ EXIT_CODES["revoked"] = 3 /\ EXIT_CODES["tampered"] = 4
      /\ EXIT_CODES["unverifiable"] = 7 /\ EXIT_CODES["not-granted"] = 5
  BY DEF EXIT_CODES
<1> QED
  BY <1>1, <1>2, <1>3

\* The page's rows, crossed out.
LEMMA RowFacts ==
    ASSUME NEW f
    PROVE  /\ "anchor" \in Inspection(f) <=> f.anchor # "Valid"
           /\ "commitment" \in Inspection(f) <=> mismatch(f)
           /\ "claims" \in Inspection(f) <=> f.rederived = "claims-differ"
           /\ "bodies" \in Inspection(f) <=> rederivationFailed(f)
           /\ "tier" \in Inspection(f) <=> f.reads = "not-granted"
           /\ Inspection(f) \subseteq {"anchor", "commitment", "claims", "bodies", "tier"}
BY DEF Inspection

LEMMA DeskRows ==
    ASSUME NEW f, f.anchor \in Statuses \cup {Unread}
    PROVE  LET verdict == decide(f)
           IN  /\ verdict \in {"tampered", "revoked", "not-granted"} => Inspection(f) # {}
               /\ verdict = "valid" => Inspection(f) \subseteq {"anchor"}
<1>1. decide(f) = "tampered" =>
        mismatch(f) \/ f.anchor = "CommitmentMismatch" \/ rederivationFailed(f)
  BY DEF decide
<1>2. decide(f) = "revoked" => f.anchor = "Revoked"
  BY DEF decide
<1>3. decide(f) = "not-granted" => f.reads = "not-granted"
  BY DEF decide
<1>4. decide(f) \in {"tampered", "revoked", "not-granted"} =>
        \E line \in {"anchor", "commitment", "bodies", "tier"} : line \in Inspection(f)
  BY <1>1, <1>2, <1>3, RowFacts
<1>5. decide(f) = "valid" => Inspection(f) \subseteq {"anchor"}
  BY RowFacts, ValidFacts DEF rederivationFailed
<1> QED
  BY <1>4, <1>5

\* The page's sentences, one verdict at a time.
LEMMA DeskWords ==
    ASSUME NEW f, f.anchor \in Statuses \cup {Unread}, f.rederived \in Derivations,
           NEW sentence \in explain(f, decide(f))
    PROVE  holds(f, sentence) \/ overstates(f, sentence)
<1>1. decide(f) \in {"tampered", "revoked", "not-found", "expired", "not-granted", "valid"}
  BY DEF decide
<1>2. CASE decide(f) = "tampered"
  <2>1. mismatch(f) \/ f.anchor = "CommitmentMismatch" \/ rederivationFailed(f)
    BY <1>2 DEF decide
  <2>2. CASE mismatch(f)
    <3>1. sentence \in {"claims differ", "anchor holds the other"}
      BY <1>2, <2>2 DEF explain
    <3> QED
      BY <2>2, <3>1 DEF holds, overstates
  <2>3. CASE ~mismatch(f) /\ f.rederived = "claims-differ"
    <3>1. sentence = "derivation differs"
      BY <1>2, <2>3 DEF explain
    <3> QED
      BY <2>3, <3>1 DEF holds
  <2>4. CASE ~mismatch(f) /\ f.rederived # "claims-differ"
    <3>1. sentence \in {"derivation agrees", "bodies differ"}
      BY <1>2, <2>4 DEF explain
    <3>2. f.anchor = "CommitmentMismatch" \/ f.rederived \in {"bodies-differ", "terms-differ"}
      BY <2>1, <2>4 DEF rederivationFailed, Derivations
    <3> QED
      BY <3>1, <3>2 DEF holds, overstates
  <2> QED
    BY <2>2, <2>3, <2>4
<1>3. CASE decide(f) = "revoked"
  <2>1. sentence = "withdrawn" /\ f.anchor = "Revoked"
    BY <1>3 DEF explain, decide
  <2> QED
    BY <2>1 DEF holds
<1>4. CASE decide(f) = "not-found"
  <2>1. sentence = "never anchored" /\ f.anchor = "NeverAnchored"
    BY <1>4 DEF explain, decide
  <2> QED
    BY <2>1 DEF holds
<1>5. CASE decide(f) = "expired"
  <2>1. sentence \in {"not withdrawn", "run out"}
    BY <1>5 DEF explain
  <2>2. f.anchor # "Revoked" /\ (f.anchor = "Expired" \/ f.envelope.expiresAt < now)
    BY <1>5 DEF decide
  <2> QED
    BY <2>1, <2>2 DEF holds, overstates
<1>6. CASE decide(f) = "not-granted"
  <2>1. sentence \in {"nothing opened", "all answered 404"} /\ f.reads = "not-granted"
    BY <1>6 DEF explain, decide
  <2> QED
    BY <2>1 DEF holds, overstates
<1>7. CASE decide(f) = "valid"
  <2>1. \/ sentence \in {"claims match", "anchor live"}
        \/ sentence = "opened" /\ f.reads = "granted"
        \/ sentence = "nothing opened" /\ f.reads # "granted"
    BY <1>7 DEF explain
  <2>2. ~mismatch(f) /\ f.anchor \in {"Valid", Unread}
    BY <1>7, ValidFacts DEF Statuses
  <2>3. CASE sentence = "claims match"
    BY <2>2, <2>3 DEF holds, overstates, mismatch
  <2>4. CASE sentence = "anchor live"
    BY <2>2, <2>4 DEF holds, overstates
  <2>5. CASE sentence = "opened" /\ f.reads = "granted"
    BY <2>5 DEF holds
  <2>6. CASE sentence = "nothing opened" /\ f.reads # "granted"
    BY <2>6 DEF holds
  <2> QED
    BY <2>1, <2>3, <2>4, <2>5, <2>6
<1> QED
  BY <1>1, <1>2, <1>3, <1>4, <1>5, <1>6, <1>7

\* status.ts, verify.tsx: exit code 0 stands beside no failed check and something
\* proved, a refusal beside a row that failed, and what the page says in words is
\* what it found, but for what the property says it overstates.
THEOREM RowsTrue == VerdictSpec => RowsBearOutVerdict
<1>1. ASSUME VerdictInv, [VerdictNext]_verdictVars, NEW r \in Readers, Answers(r)
      PROVE  LET verdict == runs'[r].verdict
                 table(f) == IF runs[r].tool = "desk" THEN Inspection(f) ELSE {c \in DOMAIN checks(f) : checks(f)[c] = "fail"}
             IN  \E reads \in IF runs[r].tool = "desk" THEN {runs[r].reads} ELSE openTier(runs[r].envelope) :
                    LET f == [runs[r] EXCEPT !.reads = reads]
                    IN  /\ runs[r].tool = "command" /\ exitCode(runs'[r]) = 0 => table(f) = {} /\ provedSomething(f)
                        /\ verdict \in {"tampered", "revoked", "not-granted"} => table(f) # {}
                        /\ verdict = "valid" => table(f) \subseteq {"anchor"}
                        /\ runs[r].tool = "desk" => \A sentence \in explain(f, verdict) :
                              holds(f, sentence) \/ overstates(f, sentence)
  <2>1. runs[r] \in Run /\ runs[r].anchor \in Statuses \cup {Unread} /\ runs[r].rederived \in Derivations
    BY <1>1, AnswerCases DEF Run
  <2>2. CASE runs[r].tool = "desk" /\ runs'[r].verdict = decide(runs[r])
    <3>1. [runs[r] EXCEPT !.reads = runs[r].reads] = runs[r]
      BY <2>1 DEF Run
    <3> QED
      BY <2>1, <2>2, <3>1, DeskRows, DeskWords
  <2>3. ASSUME runs[r].tool = "command", NEW outcome \in openTier(runs[r].envelope),
               runs'[r].verdict = assessReference([runs[r] EXCEPT !.reads = outcome])
        PROVE  LET f == [runs[r] EXCEPT !.reads = outcome]
               IN  /\ exitCode(runs'[r]) = 0 => FailedChecks(f) = {} /\ provedSomething(f)
                   /\ runs'[r].verdict \in {"tampered", "revoked", "not-granted"} => FailedChecks(f) # {}
                   /\ runs'[r].verdict = "valid" => FailedChecks(f) \subseteq {"anchor"}
    <3> DEFINE f == [runs[r] EXCEPT !.reads = outcome]
    <3>1. f.anchor \in Statuses \cup {Unread}
      BY <2>1, OpenedLast
    <3>2. runs'[r].verdict = assessReference(f)
      BY <2>3
    <3> HIDE DEF f
    <3>3. exitCode(runs'[r]) = 0 => runs'[r].verdict = "valid"
      BY <3>2, ExitZero
    <3>4. /\ exitCode(runs'[r]) = 0 => FailedChecks(f) = {} /\ provedSomething(f)
          /\ runs'[r].verdict \in {"tampered", "revoked", "not-granted"} => FailedChecks(f) # {}
          /\ runs'[r].verdict = "valid" => FailedChecks(f) \subseteq {"anchor"}
      BY <3>1, <3>2, <3>3, CommandRows
    <3> QED
      BY <3>4 DEF f
  <2>4. runs[r].tool = "command" => runs[r].tool # "desk"
    OBVIOUS
  <2> QED
    BY <1>1, <2>2, <2>3, <2>4, AnswerCases DEF FailedChecks
<1>2. VerdictInv /\ [VerdictNext]_verdictVars =>
        [\A r \in Readers : Answers(r) =>
          LET verdict == runs'[r].verdict
              table(f) == IF runs[r].tool = "desk" THEN Inspection(f) ELSE {c \in DOMAIN checks(f) : checks(f)[c] = "fail"}
          IN  \E reads \in IF runs[r].tool = "desk" THEN {runs[r].reads} ELSE openTier(runs[r].envelope) :
                 LET f == [runs[r] EXCEPT !.reads = reads]
                 IN  /\ runs[r].tool = "command" /\ exitCode(runs'[r]) = 0 => table(f) = {} /\ provedSomething(f)
                     /\ verdict \in {"tampered", "revoked", "not-granted"} => table(f) # {}
                     /\ verdict = "valid" => table(f) \subseteq {"anchor"}
                     /\ runs[r].tool = "desk" => \A sentence \in explain(f, verdict) :
                           holds(f, sentence) \/ overstates(f, sentence)]_verdictVars
  BY <1>1
<1> QED
  BY <1>2, VerdictInvariant, PTL DEF VerdictSpec, RowsBearOutVerdict
-----------------------------------------------------------------------------
(* The printed line. A check digit is taken for what it is, a function of     *)
(* the field, so nothing is computed: the line is cut where it was joined.    *)

\* What a field is filled up with.
LEMMA PadLength ==
    ASSUME NEW S, Filler \in S, NEW value \in Seq(S), NEW length \in Nat
    PROVE  pad(value, length) \in Seq(S) /\ Len(pad(value, length)) = length
<1>1. CASE Len(value) >= length
  <2>1. \A i \in 1..length : value[i] \in S
    BY <1>1, LenProperties
  <2>2. SubSeq(value, 1, length) \in Seq(S) /\ Len(SubSeq(value, 1, length)) = length
    BY <2>1, SubSeqProperties
  <2> QED
    BY <1>1, <2>2 DEF pad
<1>2. CASE ~(Len(value) >= length)
  <2>1. length - Len(value) \in Nat
    BY <1>2, LenProperties
  <2> DEFINE rest == [i \in 1..(length - Len(value)) |-> Filler]
  <2>2. rest \in Seq(S) /\ Len(rest) = length - Len(value)
    BY <2>1
  <2>3. value \o rest \in Seq(S) /\ Len(value \o rest) = length
    BY <2>1, <2>2, ConcatProperties, LenProperties
  <2> QED
    BY <1>2, <2>3 DEF pad
<1> QED
  BY <1>1, <1>2

\* A field, or any other part of a line, of n characters.
Part(S, part, n) == part \in Seq(S) /\ Len(part) = n

\* The field as the first n characters of k, and its digit as the last.
WithDigit(S, field, n, k) ==
    /\ Part(S, checked(field), k)
    /\ \A i \in 1..n : checked(field)[i] = field[i]
    /\ checked(field)[k] = checkDigit(field)

\* Parts of m and of n characters, one behind the other.
Joint(S, a, m, b, n, k) ==
    /\ Part(S, a \o b, k)
    /\ \A i \in 1..m : (a \o b)[i] = a[i]
    /\ \A i \in 1..n : (a \o b)[m + i] = b[i]

\* A part of n characters behind the first m of a line of k.
StandsAt(line, k, part, n, m) ==
    \A i \in 1..n : m + i \in 1..k /\ line[m + i] = part[i]

CanCut(S, line, k, part, n, m, first, last) ==
    /\ k \in Nat /\ n \in Nat /\ m \in Nat /\ first = m + 1 /\ last = m + n
    /\ Part(S, line, k) /\ Part(S, part, n) /\ StandsAt(line, k, part, n, m)

IsCut(line, first, last, part) == SubSeq(line, first, last) = part

\* A ladder of these fields, every digit of which is borne out.
Holds(ladder, docNo, from, expiry, personal) ==
    /\ ladder # <<>> /\ \A i \in DOMAIN ladder : ladder[i].printed = ladder[i].recomputed
    /\ ladder[1].value = docNo /\ ladder[2].value = from
    /\ ladder[3].value = expiry /\ ladder[4].value = personal

InSeq(S, a, b, c) == a \in Seq(S) /\ b \in Seq(S) /\ c \in Seq(S)
Associate(a, b, c) == (a \o b) \o c = a \o (b \o c)

\* The second line: the fields with their digits, and the composite digit.
Places(S, line, d, f, x, p, c) ==
    /\ Part(S, line, 44)
    /\ \A i \in 1..10 : line[i] = d[i]
    /\ \A i \in 1..7 : line[13 + i] = f[i]
    /\ \A i \in 1..7 : line[21 + i] = x[i]
    /\ \A i \in 1..15 : line[28 + i] = p[i]
    /\ line[44] = c[1]

\* A field with its digit behind it.
LEMMA CheckedField ==
    ASSUME NEW S, NEW n \in Nat, NEW k, k = n + 1, NEW field, Part(S, field, n), checkDigit(field) \in S
    PROVE  WithDigit(S, field, n, k)
  BY AppendProperties DEF WithDigit, checked, Part

\* Two parts, one behind the other.
LEMMA Joined ==
    ASSUME NEW S, NEW m \in Nat, NEW n \in Nat, NEW k, k = m + n,
           NEW a, NEW b, Part(S, a, m), Part(S, b, n)
    PROVE  Joint(S, a, m, b, n, k)
<1>1. /\ a \o b \in Seq(S) /\ Len(a \o b) = m + n
      /\ \A i \in 1..(m + n) : (a \o b)[i] = IF i <= m THEN a[i] ELSE b[i - m]
  BY ConcatProperties DEF Part
<1>2. \A i \in 1..m : i \in 1..(m + n) /\ i <= m
  OBVIOUS
<1>3. \A i \in 1..n : m + i \in 1..(m + n) /\ ~(m + i <= m) /\ (m + i) - m = i
  OBVIOUS
<1> QED
  BY <1>1, <1>2, <1>3 DEF Joint, Part

\* What stands at some place of a line is cut out again.
LEMMA CutOut ==
    ASSUME NEW S, NEW line, NEW k, NEW b, NEW n, NEW m, NEW first, NEW last,
           CanCut(S, line, k, b, n, m, first, last)
    PROVE  IsCut(line, first, last, b)
<1>0. /\ k \in Nat /\ n \in Nat /\ m \in Nat /\ first = m + 1 /\ last = m + n
      /\ Part(S, line, k) /\ Part(S, b, n) /\ StandsAt(line, k, b, n, m)
  BY DEF CanCut
<1> DEFINE cut == SubSeq(line, m + 1, m + n)
<1>1. \A i \in 1..n : b[i] \in S /\ line[m + i] = b[i]
  BY <1>0, LenProperties DEF Part, StandsAt
<1>2. \A i \in (m + 1)..(m + n) : line[i] \in S
  <2> TAKE i \in (m + 1)..(m + n)
  <2>1. i - m \in 1..n /\ i = m + (i - m)
    BY <1>0
  <2> QED
    BY <1>1, <2>1
<1>3. m + 1 \in Int /\ m + n \in Int /\ (m + n) - (m + 1) + 1 = n
  BY <1>0
<1>4. /\ cut \in Seq(S)
      /\ Len(cut) = IF m + 1 =< m + n THEN n ELSE 0
      /\ \A i \in 1..n : cut[i] = line[m + 1 + i - 1]
  BY <1>2, <1>3, SubSeqProperties
<1>5. Len(cut) = n /\ \A i \in 1..n : m + 1 + i - 1 = m + i
  BY <1>0, <1>4
<1> HIDE DEF cut
<1>6. cut = b
  BY <1>0, <1>1, <1>4, <1>5, SeqEqual DEF Part
<1> QED
  BY <1>0, <1>6 DEF cut, IsCut

\* Where the parts of the second line stand.
LEMMA LinePlaces ==
    ASSUME NEW S, NEW d, NEW ens, NEW f, NEW sex, NEW x, NEW p, NEW c,
           Part(S, d, 10), Part(S, ens, 3), Part(S, f, 7), Part(S, sex, 1), Part(S, x, 7), Part(S, p, 15), Part(S, c, 1)
    PROVE  Places(S, d \o ens \o f \o sex \o x \o p \o c, d, f, x, p, c)
<1> DEFINE l2 == d \o ens
           l3 == l2 \o f
           l4 == l3 \o sex
           l5 == l4 \o x
           l6 == l5 \o p
           l7 == l6 \o c
<1>1. /\ 10 \in Nat /\ 3 \in Nat /\ 13 \in Nat /\ 7 \in Nat /\ 20 \in Nat /\ 1 \in Nat
      /\ 21 \in Nat /\ 28 \in Nat /\ 15 \in Nat /\ 43 \in Nat
      /\ 13 = 10 + 3 /\ 20 = 13 + 7 /\ 21 = 20 + 1 /\ 28 = 21 + 7 /\ 43 = 28 + 15 /\ 44 = 43 + 1
  OBVIOUS
<1>2. Part(S, l2, 13) /\ (\A i \in 1..10 : l2[i] = d[i]) /\ \A i \in 1..3 : l2[10 + i] = ens[i]
  <2>1. Joint(S, d, 10, ens, 3, 13)
    BY <1>1, Joined, Zenon
  <2> QED
    BY <2>1, Zenon DEF Joint, l2
<1> HIDE DEF l2
<1>3. Part(S, l3, 20) /\ (\A i \in 1..13 : l3[i] = l2[i]) /\ \A i \in 1..7 : l3[13 + i] = f[i]
  <2>1. Joint(S, l2, 13, f, 7, 20)
    BY <1>1, <1>2, Joined, Zenon
  <2> QED
    BY <2>1, Zenon DEF Joint, l3
<1> HIDE DEF l3
<1>4. Part(S, l4, 21) /\ (\A i \in 1..20 : l4[i] = l3[i]) /\ \A i \in 1..1 : l4[20 + i] = sex[i]
  <2>1. Joint(S, l3, 20, sex, 1, 21)
    BY <1>1, <1>3, Joined, Zenon
  <2> QED
    BY <2>1, Zenon DEF Joint, l4
<1> HIDE DEF l4
<1>5. Part(S, l5, 28) /\ (\A i \in 1..21 : l5[i] = l4[i]) /\ \A i \in 1..7 : l5[21 + i] = x[i]
  <2>1. Joint(S, l4, 21, x, 7, 28)
    BY <1>1, <1>4, Joined, Zenon
  <2> QED
    BY <2>1, Zenon DEF Joint, l5
<1> HIDE DEF l5
<1>6. Part(S, l6, 43) /\ (\A i \in 1..28 : l6[i] = l5[i]) /\ \A i \in 1..15 : l6[28 + i] = p[i]
  <2>1. Joint(S, l5, 28, p, 15, 43)
    BY <1>1, <1>5, Joined, Zenon
  <2> QED
    BY <2>1, Zenon DEF Joint, l6
<1> HIDE DEF l6
<1>7. Part(S, l7, 44) /\ (\A i \in 1..43 : l7[i] = l6[i]) /\ l7[44] = c[1]
  <2>1. Joint(S, l6, 43, c, 1, 44)
    BY <1>1, <1>6, Joined, Zenon
  <2>2. /\ Part(S, l7, 44) /\ (\A i \in 1..43 : l7[i] = l6[i])
        /\ \A i \in 1..1 : l7[43 + i] = c[i]
    BY <2>1, Zenon DEF Joint, l7
  <2>3. 1 \in 1..1 /\ 43 + 1 = 44
    OBVIOUS
  <2> QED
    BY <2>2, <2>3, Zenon
<1> HIDE DEF l7
<1>8. \A i \in 1..10 : l7[i] = d[i]
  <2> TAKE i \in 1..10
  <2>1. i \in 1..13 /\ i \in 1..20 /\ i \in 1..21 /\ i \in 1..28 /\ i \in 1..43
    OBVIOUS
  <2>2. l7[i] = l6[i] /\ l6[i] = l5[i] /\ l5[i] = l4[i] /\ l4[i] = l3[i] /\ l3[i] = l2[i] /\ l2[i] = d[i]
    BY <2>1, <1>2, <1>3, <1>4, <1>5, <1>6, <1>7
  <2> QED
    BY <2>2
<1>9. \A i \in 1..7 : l7[13 + i] = f[i]
  <2> TAKE i \in 1..7
  <2>1. 13 + i \in 1..20 /\ 13 + i \in 1..21 /\ 13 + i \in 1..28 /\ 13 + i \in 1..43
    OBVIOUS
  <2>2. l7[13 + i] = l6[13 + i] /\ l6[13 + i] = l5[13 + i] /\ l5[13 + i] = l4[13 + i] /\ l4[13 + i] = l3[13 + i]
    BY <2>1, <1>4, <1>5, <1>6, <1>7
  <2> QED
    BY <2>2, <1>3
<1>10. \A i \in 1..7 : l7[21 + i] = x[i]
  <2> TAKE i \in 1..7
  <2>1. 21 + i \in 1..28 /\ 21 + i \in 1..43
    OBVIOUS
  <2>2. l7[21 + i] = l6[21 + i] /\ l6[21 + i] = l5[21 + i]
    BY <2>1, <1>6, <1>7
  <2> QED
    BY <2>2, <1>5
<1>11. \A i \in 1..15 : l7[28 + i] = p[i]
  <2> TAKE i \in 1..15
  <2>1. 28 + i \in 1..43
    OBVIOUS
  <2> QED
    BY <2>1, <1>6, <1>7
<1>12. l7 = d \o ens \o f \o sex \o x \o p \o c
  BY Zenon DEF l2, l3, l4, l5, l6, l7
<1> QED
  BY <1>7, <1>8, <1>9, <1>10, <1>11, <1>12, Zenon DEF Places

LEMMA Associates ==
    ASSUME NEW S, NEW a, NEW b, NEW c, InSeq(S, a, b, c)
    PROVE  Associate(a, b, c)
  BY ConcatAssociative DEF InSeq, Associate

\* A ladder whose digits are recomputed from the fields they stand behind.
LEMMA LadderHolds ==
    ASSUME NEW a, NEW b, NEW c, NEW d, NEW e
    PROVE  Holds(<< row(a, checkDigit(a)), row(b, checkDigit(b)), row(c, checkDigit(c)),
                    row(d, checkDigit(d)), row(e, checkDigit(e)) >>, a, b, c, d)
<1> DEFINE ladder == << row(a, checkDigit(a)), row(b, checkDigit(b)), row(c, checkDigit(c)),
                        row(d, checkDigit(d)), row(e, checkDigit(e)) >>
<1>1. DOMAIN ladder = 1..5 /\ Len(ladder) = 5
  OBVIOUS
<1>2. /\ ladder[1] = row(a, checkDigit(a)) /\ ladder[2] = row(b, checkDigit(b)) /\ ladder[3] = row(c, checkDigit(c))
      /\ ladder[4] = row(d, checkDigit(d)) /\ ladder[5] = row(e, checkDigit(e))
  OBVIOUS
<1>3. \A value, printed : /\ row(value, printed).value = value /\ row(value, printed).printed = printed
                         /\ row(value, printed).recomputed = checkDigit(value)
  BY DEF row
<1>4. ladder # <<>>
  BY <1>1
<1>5. \A i \in 1..5 : i = 1 \/ i = 2 \/ i = 3 \/ i = 4 \/ i = 5
  OBVIOUS
<1> QED
  <2> HIDE DEF ladder
  <2>1. \A i \in DOMAIN ladder : ladder[i].printed = ladder[i].recomputed
    BY <1>1, <1>2, <1>3, <1>5
  <2>2. ladder[1].value = a /\ ladder[2].value = b /\ ladder[3].value = c /\ ladder[4].value = d
    BY <1>2, <1>3
  <2>3. Holds(ladder, a, b, c, d)
    BY <1>4, <2>1, <2>2, Zenon DEF Holds
  <2> QED
    BY <2>3, Zenon DEF ladder

\* The desk's ladder over a line that was put together of checked fields.
LEMMA JoinedLadder ==
    ASSUME NEW S, NEW docNo, NEW from, NEW expiry, NEW personal, NEW ens, NEW sex, NEW last, NEW composite,
           Part(S, docNo, 9), Part(S, from, 6), Part(S, expiry, 6), Part(S, personal, 14),
           Part(S, ens, 3), Part(S, sex, 1), Part(S, last, 1),
           checkDigit(docNo) \in S, checkDigit(from) \in S, checkDigit(expiry) \in S, checkDigit(personal) \in S,
           composite = checked(docNo) \o checked(from) \o checked(expiry) \o checked(personal),
           last[1] = checkDigit(composite)
    PROVE  Holds(ladderFromLine2(checked(docNo) \o ens \o checked(from) \o sex \o checked(expiry) \o checked(personal) \o last),
                 docNo, from, expiry, personal)
<1> DEFINE D == checked(docNo)
           F == checked(from)
           X == checked(expiry)
           P == checked(personal)
           line == D \o ens \o F \o sex \o X \o P \o last
<1>1. Part(S, D, 10) /\ D[10] = checkDigit(docNo) /\ \A i \in 1..9 : D[i] = docNo[i]
  <2>1. 9 \in Nat /\ 10 = 9 + 1
    OBVIOUS
  <2>2. WithDigit(S, docNo, 9, 10)
    BY <2>1, CheckedField, Zenon
  <2> QED
    BY <2>2, Zenon DEF WithDigit
<1>2. Part(S, F, 7) /\ F[7] = checkDigit(from) /\ \A i \in 1..6 : F[i] = from[i]
  <2>1. 6 \in Nat /\ 7 = 6 + 1
    OBVIOUS
  <2>2. WithDigit(S, from, 6, 7)
    BY <2>1, CheckedField, Zenon
  <2> QED
    BY <2>2, Zenon DEF WithDigit
<1>3. Part(S, X, 7) /\ X[7] = checkDigit(expiry) /\ \A i \in 1..6 : X[i] = expiry[i]
  <2>1. 6 \in Nat /\ 7 = 6 + 1
    OBVIOUS
  <2>2. WithDigit(S, expiry, 6, 7)
    BY <2>1, CheckedField, Zenon
  <2> QED
    BY <2>2, Zenon DEF WithDigit
<1>4. Part(S, P, 15) /\ P[15] = checkDigit(personal) /\ \A i \in 1..14 : P[i] = personal[i]
  <2>1. 14 \in Nat /\ 15 = 14 + 1
    OBVIOUS
  <2>2. WithDigit(S, personal, 14, 15)
    BY <2>1, CheckedField, Zenon
  <2> QED
    BY <2>2, Zenon DEF WithDigit
<1> HIDE DEF D, F, X, P, line
<1>5. /\ Part(S, line, 44)
      /\ \A i \in 1..10 : line[i] = D[i]
      /\ \A i \in 1..7 : line[13 + i] = F[i]
      /\ \A i \in 1..7 : line[21 + i] = X[i]
      /\ \A i \in 1..15 : line[28 + i] = P[i]
      /\ line[44] = checkDigit(composite)
  <2>1. Places(S, D \o ens \o F \o sex \o X \o P \o last, D, F, X, P, last)
    BY <1>1, <1>2, <1>3, <1>4, LinePlaces, Zenon
  <2>2. Places(S, line, D, F, X, P, last)
    BY <2>1 DEF line
  <2> QED
    BY <2>2 DEF Places
<1>6. IsCut(line, 1, 9, docNo)
  <2>1. StandsAt(line, 44, docNo, 9, 0)
    <3>1. \A i \in 1..9 : 0 + i \in 1..44 /\ i \in 1..10 /\ 0 + i = i
      OBVIOUS
    <3>2. \A i \in 1..9 : line[0 + i] = docNo[i]
      BY <3>1, <1>1, <1>5, Zenon
    <3> QED
      BY <3>1, <3>2, Zenon DEF StandsAt
  <2>2. 44 \in Nat /\ 0 \in Nat /\ 9 \in Nat /\ 1 = 0 + 1 /\ 9 = 0 + 9
    OBVIOUS
  <2>3. CanCut(S, line, 44, docNo, 9, 0, 1, 9)
    BY <1>1, <1>5, <2>1, <2>2, Zenon DEF CanCut
  <2> QED
    BY <2>3, CutOut, Zenon
<1>7. IsCut(line, 14, 19, from)
  <2>1. StandsAt(line, 44, from, 6, 13)
    <3>1. \A i \in 1..6 : 13 + i \in 1..44 /\ i \in 1..7
      OBVIOUS
    <3>2. \A i \in 1..6 : line[13 + i] = from[i]
      BY <3>1, <1>2, <1>5, Zenon
    <3> QED
      BY <3>1, <3>2, Zenon DEF StandsAt
  <2>2. 44 \in Nat /\ 13 \in Nat /\ 6 \in Nat /\ 14 = 13 + 1 /\ 19 = 13 + 6
    OBVIOUS
  <2>3. CanCut(S, line, 44, from, 6, 13, 14, 19)
    BY <1>2, <1>5, <2>1, <2>2, Zenon DEF CanCut
  <2> QED
    BY <2>3, CutOut, Zenon
<1>8. IsCut(line, 22, 27, expiry)
  <2>1. StandsAt(line, 44, expiry, 6, 21)
    <3>1. \A i \in 1..6 : 21 + i \in 1..44 /\ i \in 1..7
      OBVIOUS
    <3>2. \A i \in 1..6 : line[21 + i] = expiry[i]
      BY <3>1, <1>3, <1>5, Zenon
    <3> QED
      BY <3>1, <3>2, Zenon DEF StandsAt
  <2>2. 44 \in Nat /\ 21 \in Nat /\ 6 \in Nat /\ 22 = 21 + 1 /\ 27 = 21 + 6
    OBVIOUS
  <2>3. CanCut(S, line, 44, expiry, 6, 21, 22, 27)
    BY <1>3, <1>5, <2>1, <2>2, Zenon DEF CanCut
  <2> QED
    BY <2>3, CutOut, Zenon
<1>9. IsCut(line, 29, 42, personal)
  <2>1. StandsAt(line, 44, personal, 14, 28)
    <3>1. \A i \in 1..14 : 28 + i \in 1..44 /\ i \in 1..15
      OBVIOUS
    <3>2. \A i \in 1..14 : line[28 + i] = personal[i]
      BY <3>1, <1>4, <1>5, Zenon
    <3> QED
      BY <3>1, <3>2, Zenon DEF StandsAt
  <2>2. 44 \in Nat /\ 28 \in Nat /\ 14 \in Nat /\ 29 = 28 + 1 /\ 42 = 28 + 14
    OBVIOUS
  <2>3. CanCut(S, line, 44, personal, 14, 28, 29, 42)
    BY <1>4, <1>5, <2>1, <2>2, Zenon DEF CanCut
  <2> QED
    BY <2>3, CutOut, Zenon
<1>10. IsCut(line, 1, 10, D)
  <2>1. StandsAt(line, 44, D, 10, 0)
    <3>1. \A i \in 1..10 : 0 + i \in 1..44 /\ i \in 1..10 /\ 0 + i = i
      OBVIOUS
    <3>2. \A i \in 1..10 : line[0 + i] = D[i]
      BY <3>1, <1>1, <1>5, Zenon
    <3> QED
      BY <3>1, <3>2, Zenon DEF StandsAt
  <2>2. 44 \in Nat /\ 0 \in Nat /\ 10 \in Nat /\ 1 = 0 + 1 /\ 10 = 0 + 10
    OBVIOUS
  <2>3. CanCut(S, line, 44, D, 10, 0, 1, 10)
    BY <1>1, <1>5, <2>1, <2>2, Zenon DEF CanCut
  <2> QED
    BY <2>3, CutOut, Zenon
<1>11. IsCut(line, 14, 20, F)
  <2>1. StandsAt(line, 44, F, 7, 13)
    <3>1. \A i \in 1..7 : 13 + i \in 1..44 /\ i \in 1..7
      OBVIOUS
    <3>2. \A i \in 1..7 : line[13 + i] = F[i]
      BY <3>1, <1>2, <1>5, Zenon
    <3> QED
      BY <3>1, <3>2, Zenon DEF StandsAt
  <2>2. 44 \in Nat /\ 13 \in Nat /\ 7 \in Nat /\ 14 = 13 + 1 /\ 20 = 13 + 7
    OBVIOUS
  <2>3. CanCut(S, line, 44, F, 7, 13, 14, 20)
    BY <1>2, <1>5, <2>1, <2>2, Zenon DEF CanCut
  <2> QED
    BY <2>3, CutOut, Zenon
<1>12. IsCut(line, 22, 43, X \o P)
  <2> DEFINE XP == X \o P
  <2>1. 7 \in Nat /\ 15 \in Nat /\ 22 = 7 + 15
    OBVIOUS
  <2>2. Joint(S, X, 7, P, 15, 22)
    BY <1>3, <1>4, <2>1, Joined, Zenon
  <2>3. /\ Part(S, XP, 22)
        /\ \A i \in 1..7 : XP[i] = X[i]
        /\ \A i \in 1..15 : XP[7 + i] = P[i]
    BY <2>2, Zenon DEF Joint
  <2> HIDE DEF XP
  <2>4. ASSUME NEW i \in 1..22
        PROVE  21 + i \in 1..44 /\ line[21 + i] = XP[i]
    <3>1. CASE i =< 7
      <4>1. i \in 1..7 /\ 21 + i \in 1..44
        BY <3>1
      <4> QED
        BY <1>5, <2>3, <4>1, Zenon
    <3>2. CASE ~(i =< 7)
      <4>1. i - 7 \in 1..15 /\ 28 + (i - 7) = 21 + i /\ 7 + (i - 7) = i /\ 21 + i \in 1..44
        BY <3>2
      <4>2. XP[7 + (i - 7)] = P[i - 7] /\ line[28 + (i - 7)] = P[i - 7]
        BY <1>5, <2>3, <4>1, Zenon
      <4> QED
        BY <4>1, <4>2, Zenon
    <3> QED
      BY <3>1, <3>2
  <2>5. StandsAt(line, 44, XP, 22, 21)
    BY <2>4, Zenon DEF StandsAt
  <2>6. 44 \in Nat /\ 21 \in Nat /\ 22 \in Nat /\ 22 = 21 + 1 /\ 43 = 21 + 22
    OBVIOUS
  <2>7. CanCut(S, line, 44, XP, 22, 21, 22, 43)
    BY <1>5, <2>3, <2>5, <2>6, Zenon DEF CanCut
  <2>8. IsCut(line, 22, 43, XP)
    BY <2>7, CutOut, Zenon
  <2> QED
    BY <2>8 DEF XP
<1>13. SubSeq(line, 1, 10) \o SubSeq(line, 14, 20) \o SubSeq(line, 22, 43) = composite
  <2>1. Part(S, D \o F, 17)
    <3>1. 10 \in Nat /\ 7 \in Nat /\ 17 = 10 + 7
      OBVIOUS
    <3>2. Joint(S, D, 10, F, 7, 17)
      BY <1>1, <1>2, <3>1, Joined, Zenon
    <3> QED
      BY <3>2, Zenon DEF Joint
  <2> DEFINE DF == D \o F
  <2>2. InSeq(S, DF, X, P)
    BY <1>3, <1>4, <2>1 DEF Part, InSeq
  <2> HIDE DEF DF
  <2>3. Associate(DF, X, P)
    BY <2>2, Associates, Zenon
  <2>4. (D \o F) \o (X \o P) = ((D \o F) \o X) \o P
    BY <2>3, Zenon DEF DF, Associate
  <2>5. composite = ((D \o F) \o X) \o P
    BY DEF D, F, X, P
  <2> QED
    BY <1>10, <1>11, <1>12, <2>4, <2>5, Zenon DEF IsCut
<1>14. line[10] = checkDigit(docNo) /\ line[20] = checkDigit(from) /\ line[28] = checkDigit(expiry)
       /\ line[43] = checkDigit(personal)
  <2>1. line[13 + 7] = F[7] /\ line[21 + 7] = X[7] /\ line[28 + 15] = P[15] /\ line[10] = D[10]
    BY <1>5
  <2> QED
    BY <1>1, <1>2, <1>3, <1>4, <2>1
<1>15. ladderFromLine2(line) =
         << row(docNo, checkDigit(docNo)), row(from, checkDigit(from)), row(expiry, checkDigit(expiry)),
            row(personal, checkDigit(personal)), row(composite, checkDigit(composite)) >>
  <2>1. Len(line) = Line2Length
    BY <1>5 DEF Line2Length, Part
  <2>2. ladderFromLine2(line) =
          << row(SubSeq(line, 1, 9), line[10]), row(SubSeq(line, 14, 19), line[20]), row(SubSeq(line, 22, 27), line[28]),
             row(SubSeq(line, 29, 42), line[43]),
             row(SubSeq(line, 1, 10) \o SubSeq(line, 14, 20) \o SubSeq(line, 22, 43), line[44]) >>
    BY <2>1, Zenon DEF ladderFromLine2
  <2> QED
    BY <2>2, <1>5, <1>6, <1>7, <1>8, <1>9, <1>13, <1>14, Zenon DEF IsCut
<1>16. Holds(ladderFromLine2(line), docNo, from, expiry, personal)
  BY <1>15, LadderHolds, Zenon
<1> QED
  BY <1>16, Zenon DEF line, D, F, X, P

\* ReadsBack (app/src/lib/mrz.ts:196, ladderFromLine2): whatever the reference,
\* its commitment and its dates, the line that buildMrz prints is cut into the
\* fields it was made of and all its check digits agree.
THEOREM PrintedLineReadsBack ==
    ASSUME NEW referenceId \in Seq(Nat), Len(referenceId) >= 6,
           NEW commitment \in Seq(Nat), Len(commitment) >= 12,
           NEW from \in Seq(Nat), Len(from) = 6,
           NEW expiry \in Seq(Nat), Len(expiry) = 6,
           NEW tier \in Nat
    PROVE  ReadsBack(referenceId, commitment, from, expiry, tier)
<1> DEFINE docNo == documentNumber(referenceId)
           personal == personalNumber(commitment, tier)
           composite == checked(docNo) \o checked(from) \o checked(expiry) \o checked(personal)
           digits == {checkDigit(docNo), checkDigit(from), checkDigit(expiry), checkDigit(personal), checkDigit(composite)}
           S == Nat \cup digits
           ens == <<Letter.E, Letter.N, Letter.S>>
           line == buildMrz(referenceId, commitment, from, expiry, tier)
<1>1. /\ Letter.E \in Nat /\ Letter.N \in Nat /\ Letter.S \in Nat
      /\ Letter.Z \in Nat /\ Letter.G \in Nat /\ Letter.L \in Nat /\ Letter.T \in Nat
  BY DEF Letter
<1>2. docNo \in Seq(Nat) /\ Len(docNo) = 9
  <2>1. \A i \in 1..6 : referenceId[i] \in Nat
    BY LenProperties
  <2>2. SubSeq(referenceId, 1, 6) \in Seq(Nat)
    BY <2>1, SubSeqProperties
  <2>3. <<Letter.Z, Letter.G, Letter.L>> \in Seq(Nat)
    BY <1>1
  <2>4. <<Letter.Z, Letter.G, Letter.L>> \o SubSeq(referenceId, 1, 6) \in Seq(Nat)
    BY <2>2, <2>3, ConcatProperties
  <2> QED
    BY <2>4, PadLength DEF documentNumber, Filler
<1>3. personal \in Seq(Nat) /\ Len(personal) = 14
  <2>1. \A i \in 1..12 : commitment[i] \in Nat
    BY LenProperties
  <2>2. SubSeq(commitment, 1, 12) \in Seq(Nat)
    BY <2>1, SubSeqProperties
  <2>3. <<Letter.T, tier>> \in Seq(Nat)
    BY <1>1
  <2>4. <<Letter.T, tier>> \o SubSeq(commitment, 1, 12) \in Seq(Nat)
    BY <2>2, <2>3, ConcatProperties
  <2> QED
    BY <2>4, PadLength DEF personalNumber, Filler
<1>4. line = line2(docNo, from, expiry, personal)
  BY DEF buildMrz
<1>5. line = checked(docNo) \o ens \o checked(from) \o <<Filler>> \o checked(expiry) \o checked(personal) \o <<checkDigit(composite)>>
  BY <1>4 DEF line2
<1> HIDE DEF docNo, personal, line
<1>6. /\ Part(S, docNo, 9) /\ Part(S, from, 6) /\ Part(S, expiry, 6) /\ Part(S, personal, 14)
      /\ Part(S, ens, 3) /\ Part(S, <<Filler>>, 1) /\ Part(S, <<checkDigit(composite)>>, 1)
  <2>1. Nat \subseteq S
    OBVIOUS
  <2>2. checkDigit(composite) \in S
    OBVIOUS
  <2> HIDE DEF S, composite
  <2>3. Seq(Nat) \subseteq Seq(S)
    BY <2>1, SeqMonotonic
  <2>4. Letter.E \in S /\ Letter.N \in S /\ Letter.S \in S /\ Filler \in S
    BY <1>1, <2>1 DEF Filler
  <2>5. Part(S, docNo, 9) /\ Part(S, from, 6) /\ Part(S, expiry, 6) /\ Part(S, personal, 14)
    BY <1>2, <1>3, <2>3 DEF Part
  <2>6. Part(S, ens, 3)
    BY <2>4 DEF Part
  <2>7. Part(S, <<Filler>>, 1)
    BY <2>4 DEF Part
  <2>8. Part(S, <<checkDigit(composite)>>, 1)
    BY <2>2 DEF Part
  <2> QED
    BY <2>5, <2>6, <2>7, <2>8
<1>7. /\ checkDigit(docNo) \in S /\ checkDigit(from) \in S /\ checkDigit(expiry) \in S /\ checkDigit(personal) \in S
  OBVIOUS
<1> HIDE DEF S
<1>8. Holds(ladderFromLine2(line), docNo, from, expiry, personal)
  <2> DEFINE sex == <<Filler>>
             last == <<checkDigit(composite)>>
  <2>1. last[1] = checkDigit(composite)
    OBVIOUS
  <2>2. composite = checked(docNo) \o checked(from) \o checked(expiry) \o checked(personal)
    OBVIOUS
  <2>3. line = checked(docNo) \o ens \o checked(from) \o sex \o checked(expiry) \o checked(personal) \o last
    BY <1>5, Zenon
  <2>4. Part(S, sex, 1) /\ Part(S, last, 1)
    BY <1>6, Zenon
  <2> HIDE DEF ens, composite, sex, last
  <2> QED
    BY <1>6, <1>7, <2>1, <2>2, <2>3, <2>4, JoinedLadder, Zenon
<1> HIDE DEF composite
<1>9. wellFormed(line)
  BY <1>8, Zenon DEF wellFormed, Holds
<1> QED
  BY <1>8, <1>9, Zenon DEF ReadsBack, Holds, line, docNo, personal
=============================================================================
