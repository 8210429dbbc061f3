------------------------ MODULE IssuerRegistryProofs -------------------------
(***************************************************************************)
(* Theorems about IssuerRegistry for every set of names, records, accounts *)
(* and roles, every bitmap callers pass and every bound.                   *)
(*                                                                         *)
(* The counters are their own induction, with the types. That delegates    *)
(* are cut off rests on where roles can lie: what is held against a version *)
(* of a name that no registration has had yet was begun there by an admin  *)
(* of the root, so the resources a name moves to are otherwise bare but    *)
(* for what the move itself writes there.                                  *)
(***************************************************************************)
EXTENDS IssuerRegistry, FiniteSetTheorems, TLAPS

\* What is held against a version no registration has had, root authority began.
AheadIsSeeded ==
    \A n \in Names, version \in Versions, part \in Parts, account \in Accounts, role \in Role :
        <<ResourceAt(n, version, part), account, role>> \in roles /\ Ahead(n, version) =>
            ResourceAt(n, version, part) \in seeded

VersionsBounded == \A n \in Names : entries[n].version =< MaxVersion

\* The part of the state _setRoles writes.
RolesOK ==
    /\ roles \subseteq Resources \X Accounts \X Role
    /\ roleCounts \in [Resources -> [Role -> 0..MaxAssignees]]
    /\ CountersMatchAssignees

\* What holds however often versions wrap, ...
CountInv == TypeOK /\ CountersMatchAssignees

\* ... and where roles and versions lie as long as they do not.
PlaceInv == AheadIsSeeded /\ VersionsBounded

IInv == CountInv /\ PlaceInv

\* A name's version moves fewer times than a uint32 counts.
VersionsDoNotWrap == MaxVersion < VersionModulus
----------------------------------------------------------------------------
LEMMA ResourceFacts ==
    /\ RootResource \in Resources
    /\ \A part \in Parts : AnyNameResource(part) \in Resources
    /\ \A n \in Names, version \in Versions, part \in Parts :
          /\ ResourceAt(n, version, part) \in Resources
          /\ ResourceAt(n, version, part) # RootResource
          /\ \A other \in Parts : ResourceAt(n, version, part) # AnyNameResource(other)
  BY RegistryConstants DEF Resources, RootResource, AnyNameResource, ResourceAt, Parts

LEMMA PartFacts ==
    /\ AnyPart \in Parts /\ ResolverPart \in Parts /\ SubregistryPart \in Parts
    /\ Keys \subseteq Parts
  BY DEF Parts

\* One account joining or leaving the assignees of a role moves their number by one.
LEMMA OneMore ==
    ASSUME NEW S \in SUBSET Accounts, NEW account \in Accounts
    PROVE  /\ IsFiniteSet(S) /\ Cardinality(S) \in Nat
           /\ account \notin S => Cardinality(S \cup {account}) = Cardinality(S) + 1
           /\ account \in S => Cardinality(S \ {account}) = Cardinality(S) - 1 /\ Cardinality(S) > 0
<1>1. IsFiniteSet(S)
  BY RegistryConstants, FS_Subset
<1>2. Cardinality(S) \in Nat
  BY <1>1, FS_CardinalityType
<1>3. account \in S => Cardinality(S) # 0
  BY <1>1, FS_EmptySet
<1>4. Cardinality(S \cup {account}) = IF account \in S THEN Cardinality(S) ELSE Cardinality(S) + 1
  BY <1>1, FS_AddElement
<1>5. Cardinality(S \ {account}) = IF account \in S THEN Cardinality(S) - 1 ELSE Cardinality(S)
  BY <1>1, FS_RemoveElement
<1> QED
  BY <1>1, <1>2, <1>3, <1>4, <1>5

\* _setRoles keeps the counters: it counts what it changes and nothing else.
LEMMA SetRolesCounts ==
    ASSUME RolesOK, NEW res \in Resources, NEW bitmap \in SUBSET Role, NEW account \in Accounts,
           NEW granting \in BOOLEAN, setRoles(res, bitmap, account, granting)
    PROVE  RolesOK'
<1> DEFINE delta == changedRoles(res, bitmap, account, granting)
           triples == {res} \X {account} \X delta
           next == [role \in Role |-> IF role \notin delta THEN roleCounts[res][role]
                                      ELSE IF granting THEN roleCounts[res][role] + 1
                                      ELSE roleCounts[res][role] - 1]
<1>1. /\ roles' = IF granting THEN roles \cup triples ELSE roles \ triples
      /\ roleCounts' = [roleCounts EXCEPT ![res] = next]
      /\ ~(granting /\ saturated(res, delta))
  BY DEF setRoles
<1>2. delta \subseteq Role /\ \A role \in delta : granting <=> <<res, account, role>> \notin roles
  BY DEF changedRoles
<1> HIDE DEF delta
<1>3. roles' \subseteq Resources \X Accounts \X Role
  BY <1>1, <1>2 DEF RolesOK
<1>4. /\ MaxAssignees \in Nat
      /\ roleCounts[res] \in [Role -> 0..MaxAssignees]
      /\ \A role \in Role : roleCounts[res][role] = Cardinality(Assignees(res, role))
  BY RegistryConstants DEF RolesOK, CountersMatchAssignees
<1>5. ASSUME NEW role \in Role
      PROVE  /\ next[role] \in 0..MaxAssignees
             /\ next[role] = Cardinality(Assignees(res, role)')
  <2> DEFINE S == Assignees(res, role)
  <2>1. S \in SUBSET Accounts /\ roleCounts[res][role] = Cardinality(S) /\ Cardinality(S) \in 0..MaxAssignees
    BY <1>4 DEF Assignees
  <2>2. CASE role \notin delta
    <3>1. Assignees(res, role)' = S
      BY <2>2, <1>1 DEF Assignees
    <3> QED
      BY <3>1, <2>1, <2>2
  <2>3. CASE role \in delta /\ granting
    <3>1. Assignees(res, role)' = S \cup {account} /\ account \notin S
      BY <2>3, <1>1, <1>2 DEF Assignees
    <3>2. roleCounts[res][role] # MaxAssignees
      BY <2>3, <1>1 DEF saturated
    <3>3. next[role] = roleCounts[res][role] + 1
      BY <2>3
    <3> HIDE DEF S, next
    <3>4. Cardinality(S \cup {account}) = Cardinality(S) + 1
      BY <2>1, <3>1, OneMore
    <3> QED
      BY <3>1, <3>2, <3>3, <3>4, <2>1, <1>4
  <2>4. CASE role \in delta /\ ~granting
    <3>1. Assignees(res, role)' = S \ {account} /\ account \in S
      BY <2>4, <1>1, <1>2 DEF Assignees
    <3>2. next[role] = roleCounts[res][role] - 1
      BY <2>4
    <3> HIDE DEF S, next
    <3>3. Cardinality(S \ {account}) = Cardinality(S) - 1 /\ Cardinality(S) > 0
      BY <2>1, <3>1, OneMore
    <3> QED
      BY <3>1, <3>2, <3>3, <2>1, <1>4
  <2> QED
    BY <2>2, <2>3, <2>4
<1>6. next \in [Role -> 0..MaxAssignees]
  BY <1>5
<1> HIDE DEF next
<1>7. roleCounts' \in [Resources -> [Role -> 0..MaxAssignees]]
  BY <1>1, <1>6 DEF RolesOK
<1>8. CountersMatchAssignees'
  <2> SUFFICES ASSUME NEW other \in Resources, NEW role \in Role
               PROVE  roleCounts'[other][role] = Cardinality(Assignees(other, role)')
    BY DEF CountersMatchAssignees
  <2>1. CASE other = res
    BY <2>1, <1>1, <1>5 DEF RolesOK
  <2>2. CASE other # res
    <3>1. roleCounts'[other] = roleCounts[other]
      BY <2>2, <1>1 DEF RolesOK
    <3>2. Assignees(other, role)' = Assignees(other, role)
      BY <2>2, <1>1 DEF Assignees
    <3> QED
      BY <3>1, <3>2 DEF RolesOK, CountersMatchAssignees
  <2> QED
    BY <2>1, <2>2
<1> QED
  BY <1>3, <1>7, <1>8 DEF RolesOK

\* _setRoles adds roles at its own resource only, and for its own account.
LEMMA SetRolesReach ==
    ASSUME NEW res, NEW bitmap, NEW account, NEW granting, setRoles(res, bitmap, account, granting)
    PROVE  \A t \in roles' : t \in roles \/ (t[1] = res /\ t[2] = account /\ granting)
  BY DEF setRoles
----------------------------------------------------------------------------
LEMMA EntryVersions ==
    ASSUME IInv, NEW n \in Names
    PROVE  entries[n] \in Entry /\ entries[n].version \in Versions /\ entries[n].version \in Nat
  BY RegistryConstants DEF IInv, CountInv, TypeOK, Entry, Versions

LEMMA LiveHasExpiry ==
    ASSUME IInv, NEW n \in Names, Registered(n)
    PROVE  entries[n].expiry # 0
  BY DEF IInv, CountInv, TypeOK, Registered, Entry

\* No version begins to be ahead.
NothingNewAhead == \A n \in Names, version \in Versions : Ahead(n, version)' => Ahead(n, version)

\* Roles written by _setRoles keep the invariant if their resource is not ahead
\* of its name, or is seeded.
LEMMA SetRolesKeeps ==
    ASSUME IInv, NothingNewAhead, seeded \subseteq seeded', NEW res \in Resources, NEW bitmap \in SUBSET Role,
           NEW account \in Accounts, NEW granting \in BOOLEAN, setRoles(res, bitmap, account, granting),
           granting => \A n \in Names, version \in Versions, part \in Parts :
              res = ResourceAt(n, version, part) /\ Ahead(n, version)' => res \in seeded'
    PROVE  AheadIsSeeded'
<1> SUFFICES ASSUME NEW n \in Names, NEW version \in Versions, NEW part \in Parts,
                    NEW holder \in Accounts, NEW role \in Role,
                    <<ResourceAt(n, version, part), holder, role>> \in roles', Ahead(n, version)'
             PROVE  ResourceAt(n, version, part) \in seeded'
  BY DEF AheadIsSeeded, ResourceAt
<1>1. \/ <<ResourceAt(n, version, part), holder, role>> \in roles
      \/ ResourceAt(n, version, part) = res /\ granting
  BY SetRolesReach
<1>2. CASE <<ResourceAt(n, version, part), holder, role>> \in roles
  BY <1>2 DEF IInv, PlaceInv, AheadIsSeeded, NothingNewAhead
<1> QED
  BY <1>1, <1>2

LEMMA NoRoleKeeps ==
    ASSUME IInv, NothingNewAhead, seeded \subseteq seeded', UNCHANGED roles
    PROVE  AheadIsSeeded'
<1>1. ASSUME NEW n \in Names, NEW version \in Versions, NEW part \in Parts,
             NEW holder \in Accounts, NEW role \in Role,
             <<ResourceAt(n, version, part), holder, role>> \in roles', Ahead(n, version)'
      PROVE  ResourceAt(n, version, part) \in seeded'
  BY <1>1 DEF IInv, PlaceInv, AheadIsSeeded, NothingNewAhead
<1> QED
  BY <1>1 DEF AheadIsSeeded, ResourceAt

\* Nobody but root authority can begin to grant where nothing is held.
LEMMA FirstGrantIsRoots ==
    ASSUME NEW res, NEW bitmap \in SUBSET Role, bitmap # {}, NEW caller,
           hasRoles(res, AdminBitmapFor(bitmap), caller),
           ~hasRootRoles(AdminBitmapFor(bitmap), caller)
    PROVE  \E role \in Role : <<res, caller, role>> \in roles
<1>1. PICK role \in AdminBitmapFor(bitmap) : <<RootResource, caller, role>> \notin roles
  BY DEF hasRootRoles
<1>2. role \in Role
  BY <1>1 DEF AdminBitmapFor, Admin, Role
<1> QED
  BY <1>1, <1>2 DEF hasRoles

\* Roles change and nothing else does.
LEMMA RoleChangePlaces == ASSUME IInv, RoleChange PROVE PlaceInv'
<1>1. PICK caller \in Accounts, account \in Accounts, granting \in BOOLEAN :
         \/ \E res \in KnownResources, bitmap \in Bitmaps :
               changeRoles(caller, res, bitmap, account, granting)
         \/ \E bitmap \in RootBitmaps : changeRootRoles(caller, bitmap, account, granting)
         \/ \E n \in Names, key \in Keys, bitmap \in Bitmaps :
               changeRecordRoles(caller, n, key, bitmap, account, granting)
  BY DEF RoleChange
<1>2. /\ UNCHANGED entries /\ seeded \subseteq seeded'
      /\ \E res \in Resources, bitmap \in SUBSET Role :
            /\ setRoles(res, bitmap, account, granting)
            /\ granting => \A n \in Names, version \in Versions, part \in Parts :
                  res = ResourceAt(n, version, part) /\ Ahead(n, version) => res \in seeded'
  <2>1. CASE \E res \in KnownResources, bitmap \in Bitmaps :
                changeRoles(caller, res, bitmap, account, granting)
    <3>1. PICK res \in KnownResources, bitmap \in Bitmaps :
             changeRoles(caller, res, bitmap, account, granting)
      BY <2>1
    <3>2. res \in Resources /\ bitmap \in SUBSET Role /\ bitmap # {}
      BY <3>1, RegistryConstants DEF KnownResources, changeRoles
    <3>3. /\ hasRoles(res, AdminBitmapFor(bitmap), caller)
          /\ setRoles(res, bitmap, account, granting) /\ UNCHANGED entries
          /\ seeded' = seeded \cup
                {r \in {res} : /\ granting /\ res[1] \in Names /\ Ahead(res[1], res[2])
                              /\ hasRootRoles(AdminBitmapFor(bitmap), caller)}
      BY <3>1 DEF changeRoles
    <3>4. ASSUME granting, NEW n \in Names, NEW version \in Versions, NEW part \in Parts,
                 res = ResourceAt(n, version, part), Ahead(n, version)
          PROVE  res \in seeded'
      <4>1. res[1] = n /\ res[2] = version
        BY <3>4 DEF ResourceAt
      <4>2. CASE hasRootRoles(AdminBitmapFor(bitmap), caller)
        BY <3>3, <3>4, <4>1, <4>2
      <4>3. CASE ~hasRootRoles(AdminBitmapFor(bitmap), caller)
        <5>1. PICK role \in Role : <<res, caller, role>> \in roles
          BY <3>2, <3>3, <4>3, FirstGrantIsRoots
        <5>2. res \in seeded
          BY <3>4, <5>1 DEF IInv, PlaceInv, AheadIsSeeded
        <5> QED
          BY <3>3, <5>2
      <4> QED
        BY <4>2, <4>3
    <3> QED
      BY <3>2, <3>3, <3>4
  <2>2. CASE \E bitmap \in RootBitmaps : changeRootRoles(caller, bitmap, account, granting)
    BY <2>2, ResourceFacts, RegistryConstants DEF changeRootRoles
  <2>3. CASE \E n \in Names, key \in Keys, bitmap \in Bitmaps :
                changeRecordRoles(caller, n, key, bitmap, account, granting)
    <3>1. PICK n \in Names, key \in Keys, bitmap \in Bitmaps :
             changeRecordRoles(caller, n, key, bitmap, account, granting)
      BY <2>3
    <3>2. bitmap \in SUBSET Role
      BY RegistryConstants
    <3>3. ResourceOf(n, key) = ResourceAt(n, entries[n].version, key)
      BY DEF ResourceOf
    <3>4. ResourceOf(n, key) \in Resources
      BY <3>3, EntryVersions, ResourceFacts, PartFacts
    <3>5. ~Ahead(n, entries[n].version)
      <4>1. entries[n].expiry # 0
        BY <3>1, LiveHasExpiry DEF changeRecordRoles
      <4> QED
        BY <4>1, EntryVersions DEF Ahead
    <3>6. \A m \in Names, version \in Versions, part \in Parts :
             ResourceOf(n, key) = ResourceAt(m, version, part) => m = n /\ version = entries[n].version
      BY <3>3 DEF ResourceAt
    <3> QED
      BY <3>1, <3>2, <3>4, <3>5, <3>6 DEF changeRecordRoles
  <2> QED
    BY <1>1, <2>1, <2>2, <2>3
<1>3. \A n \in Names, version \in Versions : Ahead(n, version)' <=> Ahead(n, version)
  BY <1>2 DEF Ahead
<1>4. AheadIsSeeded'
  BY <1>2, <1>3, SetRolesKeeps DEF NothingNewAhead
<1>5. VersionsBounded'
  BY <1>2 DEF IInv, PlaceInv, VersionsBounded
<1> QED
  BY <1>4, <1>5 DEF PlaceInv

\* The next version is one more, below the bound.
LEMMA BumpedIsNext ==
    ASSUME IInv, VersionsDoNotWrap, NEW n \in Names, entries[n].version < MaxVersion
    PROVE  /\ Bumped(entries[n].version) = entries[n].version + 1
           /\ Bumped(entries[n].version) \in Versions
           /\ Bumped(entries[n].version) =< MaxVersion
<1> DEFINE v == entries[n].version
<1>1. v \in Nat /\ MaxVersion \in Nat /\ VersionModulus \in Nat \ {0} /\ v + 1 < VersionModulus
  BY EntryVersions, RegistryConstants DEF VersionsDoNotWrap
<1> HIDE DEF v
<1>2. (v + 1) % VersionModulus = v + 1
  BY <1>1
<1> QED
  BY <1>1, <1>2 DEF Bumped, Versions, v

\* What a name may be set to: a version that no registration has had, or a
\* registration of the one it has.
LEMMA EntryStep ==
    ASSUME IInv, NEW n \in Names, NEW e \in Entry,
           entries' = [entries EXCEPT ![n] = e], Ahead(n, e.version), e.version =< MaxVersion,
           e.version = entries[n].version => e.expiry # 0,
           e.expiry = 0 => entries[n].expiry # 0 /\ e.version = entries[n].version + 1
    PROVE  /\ entries' \in [Names -> Entry] /\ entries'[n] = e
           /\ NothingNewAhead /\ VersionsBounded'
<1>1. entries' \in [Names -> Entry] /\ entries'[n] = e
      /\ \A m \in Names : m # n => entries'[m] = entries[m]
  BY DEF IInv, CountInv, TypeOK
<1>2. e.version \in Nat /\ entries[n].version \in Nat
  BY EntryVersions, RegistryConstants DEF Entry, Versions
<1>3. NothingNewAhead
  <2> SUFFICES ASSUME NEW m \in Names, NEW version \in Versions, Ahead(m, version)'
               PROVE  Ahead(m, version)
    BY DEF NothingNewAhead
  <2>1. CASE m # n
    BY <2>1, <1>1 DEF Ahead
  <2>2. CASE m = n
    <3>1. version \in Nat
      BY RegistryConstants DEF Versions
    <3>2. e.version < version \/ (e.version = version /\ e.expiry = 0)
      BY <2>2, <1>1 DEF Ahead
    <3>3. entries[n].version =< e.version
      BY <1>2 DEF Ahead
    <3>4. entries[n].version < version
      BY <1>2, <3>1, <3>2, <3>3
    <3> QED
      BY <2>2, <3>4 DEF Ahead
  <2> QED
    BY <2>1, <2>2
<1>4. VersionsBounded'
  BY <1>1 DEF IInv, PlaceInv, VersionsBounded
<1> QED
  BY <1>1, <1>3, <1>4
----------------------------------------------------------------------------
\* After the step only the owner has authority over n that is neither over any
\* name nor granted ahead by root authority.
CutOff(n) ==
    \A account \in Accounts \ {entries'[n].owner}, part \in Parts, role \in Role :
        hasScopedRoles(n, part, {role}, account)' =>
            HoldsOverAnyName(part, role, account)' \/ GrantedAhead(n, part)'

\* A name that moves on to a version no registration has had, and takes at most
\* its owner along, leaves every delegate behind.
LEMMA MovingOnCutsOff ==
    ASSUME IInv, NEW n \in Names, entries'[n].version \in Versions,
           Ahead(n, entries'[n].version), seeded \subseteq seeded',
           \A t \in roles' : t \in roles \/ t[2] = entries'[n].owner
    PROVE  CutOff(n)
<1> SUFFICES ASSUME NEW account \in Accounts, account # entries'[n].owner,
                    NEW part \in Parts, NEW role \in Role,
                    hasScopedRoles(n, part, {role}, account)'
             PROVE  HoldsOverAnyName(part, role, account)' \/ GrantedAhead(n, part)'
  BY DEF CutOff
<1> DEFINE own == ResourceAt(n, entries'[n].version, part)
           all == ResourceAt(n, entries'[n].version, AnyPart)
<1>1. PICK res \in {own, all, AnyNameResource(part), AnyNameResource(AnyPart)} :
         <<RootResource, account, role>> \in roles' \/ <<res, account, role>> \in roles'
  BY DEF hasScopedRoles, hasRoles, ResourceOf, ResourceAt, AnyNameResource, RootResource
<1>2. ASSUME NEW p \in Parts, <<ResourceAt(n, entries'[n].version, p), account, role>> \in roles'
      PROVE  ResourceAt(n, entries'[n].version, p) \in seeded'
  BY <1>2 DEF IInv, PlaceInv, AheadIsSeeded
<1>3. CASE res \in {own, all} /\ <<res, account, role>> \in roles'
  <2>1. own \in seeded' \/ all \in seeded'
    BY <1>2, <1>3, PartFacts
  <2> QED
    BY <2>1 DEF GrantedAhead, ResourceOf, ResourceAt
<1>4. CASE ~(res \in {own, all} /\ <<res, account, role>> \in roles')
  <2>1. \E r \in {RootResource, AnyNameResource(part), AnyNameResource(AnyPart)} :
           <<r, account, role>> \in roles'
    BY <1>1, <1>4
  <2> QED
    BY <2>1 DEF HoldsOverAnyName, RootResource, AnyNameResource
<1> QED
  BY <1>3, <1>4

\* The name moves on to such an entry, with the owner's roles or without.
LEMMA MoveOn ==
    ASSUME IInv, NEW n \in Names, NEW e \in Entry, entries' = [entries EXCEPT ![n] = e],
           Ahead(n, e.version), e.version =< MaxVersion,
           e.version = entries[n].version => e.expiry # 0,
           e.expiry = 0 => entries[n].expiry # 0 /\ e.version = entries[n].version + 1,
           \/ UNCHANGED <<roles, roleCounts>>
           \/ /\ e.owner \in Accounts /\ e.expiry # 0
              /\ \E bitmap \in SUBSET Role : setRoles(ResourceAt(n, e.version, AnyPart), bitmap, e.owner, TRUE),
           UNCHANGED seeded
    PROVE  /\ PlaceInv'
           /\ \A m \in Names : Reset(m) => CutOff(m)
<1>1. /\ entries' \in [Names -> Entry] /\ entries'[n] = e
      /\ NothingNewAhead /\ VersionsBounded'
  BY EntryStep
<1>3. e.version \in Versions
  BY DEF Entry
<1> DEFINE res == ResourceAt(n, e.version, AnyPart)
<1>4. res \in Resources
  BY <1>3, ResourceFacts, PartFacts
<1>5. AheadIsSeeded' /\ \A t \in roles' : t \in roles \/ t[2] = e.owner
  <2>1. CASE UNCHANGED <<roles, roleCounts>>
    BY <2>1, <1>1, NoRoleKeeps
  <2>2. CASE /\ e.owner \in Accounts /\ e.expiry # 0
             /\ \E bitmap \in SUBSET Role : setRoles(res, bitmap, e.owner, TRUE)
    <3>1. PICK bitmap \in SUBSET Role : setRoles(res, bitmap, e.owner, TRUE)
      BY <2>2
    <3>2. ~Ahead(n, e.version)'
      <4>1. e.version \in Nat
        BY <1>3, RegistryConstants DEF Versions
      <4> QED
        BY <1>1, <2>2, <4>1 DEF Ahead
    <3>3. \A m \in Names, version \in Versions, part \in Parts :
             res = ResourceAt(m, version, part) => m = n /\ version = e.version
      BY DEF ResourceAt
    <3>4. \A m \in Names, version \in Versions, part \in Parts :
             res = ResourceAt(m, version, part) /\ Ahead(m, version)' => res \in seeded'
      BY <3>2, <3>3
    <3>5. AheadIsSeeded'
      <4>1. seeded \subseteq seeded' /\ TRUE \in BOOLEAN /\ e.owner \in Accounts
        BY <2>2
      <4> HIDE DEF res
      <4> QED
        BY <3>1, <3>4, <4>1, <1>1, <1>4, SetRolesKeeps
    <3> QED
      BY <3>1, <3>5 DEF setRoles
  <2> QED
    BY <2>1, <2>2
<1>6. PlaceInv'
  BY <1>1, <1>5 DEF PlaceInv
<1>7. \A m \in Names : m # n => ~Reset(m)
  BY DEF Reset, IInv, CountInv, TypeOK
<1>8. CutOff(n)
  BY <1>1, <1>3, <1>5, MovingOnCutsOff
<1> QED
  BY <1>6, <1>7, <1>8

LEMMA RegisterPlaces ==
    ASSUME IInv, VersionsDoNotWrap, NEW caller \in Accounts, NEW n \in Names, NEW owner \in Accounts,
           NEW subregistry \in Targets, NEW resolver \in Targets, NEW bitmap \in SUBSET Role,
           NEW expiry \in Nat, register(caller, n, owner, subregistry, resolver, bitmap, expiry)
    PROVE  PlaceInv' /\ \A m \in Names : Reset(m) => CutOff(m)
<1> DEFINE version == registeredVersion(entries[n])
           e == [version |-> version, subregistry |-> subregistry, expiry |-> expiry,
                 resolver |-> resolver, owner |-> owner]
<1>1. /\ entries' = [entries EXCEPT ![n] = e]
      /\ entries[n].expiry # 0 => entries[n].version < MaxVersion
      /\ \/ setRoles(ResourceAt(n, version, AnyPart), bitmap, owner, TRUE)
         \/ UNCHANGED <<roles, roleCounts>>
      /\ UNCHANGED <<records, parent, now, seeded>>
  BY DEF register
<1>2. version \in Versions /\ version =< MaxVersion /\ Ahead(n, version)
  <2>1. entries[n].version \in Versions /\ entries[n].version \in Nat /\ entries[n].version =< MaxVersion
    BY EntryVersions DEF IInv, PlaceInv, VersionsBounded
  <2>2. CASE entries[n].expiry # 0
    BY <2>1, <2>2, <1>1, BumpedIsNext DEF registeredVersion, Ahead
  <2>3. CASE entries[n].expiry = 0
    BY <2>1, <2>3 DEF registeredVersion, Ahead
  <2> QED
    BY <2>2, <2>3
<1> HIDE DEF version
<1>3. e \in Entry /\ e.version = version /\ e.owner = owner /\ e.expiry = expiry
  BY <1>2 DEF Entry
<1> HIDE DEF e
<1>4. expiry # 0
  BY DEF register, IInv, CountInv, TypeOK
<1>5. \/ UNCHANGED <<roles, roleCounts>>
      \/ /\ e.owner \in Accounts /\ e.expiry # 0
         /\ \E b \in SUBSET Role : setRoles(ResourceAt(n, e.version, AnyPart), b, e.owner, TRUE)
  BY <1>1, <1>3, <1>4
<1> QED
  BY <1>1, <1>2, <1>3, <1>4, <1>5, MoveOn

LEMMA UnregisterPlaces ==
    ASSUME IInv, VersionsDoNotWrap, NEW caller \in Accounts, NEW n \in Names, unregister(caller, n)
    PROVE  PlaceInv' /\ \A m \in Names : Reset(m) => CutOff(m)
<1> DEFINE version == Bumped(entries[n].version)
           e == [NoEntry EXCEPT !.version = version]
<1>1. /\ entries' = [entries EXCEPT ![n] = e] /\ entries[n].version < MaxVersion
      /\ UNCHANGED <<roles, roleCounts>> /\ UNCHANGED <<records, parent, now, seeded>>
  BY DEF unregister
<1>2. version \in Versions /\ version = entries[n].version + 1 /\ version =< MaxVersion
  BY <1>1, BumpedIsNext
<1> HIDE DEF version
<1>3. e \in Entry /\ e.version = version
  BY <1>2, RegistryConstants DEF Entry, NoEntry
<1> HIDE DEF e
<1>4. entries[n].version \in Nat /\ Ahead(n, e.version) /\ e.version # entries[n].version
  BY <1>2, <1>3, EntryVersions DEF Ahead
<1>5. entries[n].expiry # 0
  BY LiveHasExpiry DEF unregister
<1> QED
  BY <1>1, <1>2, <1>3, <1>4, <1>5, MoveOn

LEMMA BumpPlaces ==
    ASSUME IInv, VersionsDoNotWrap, NEW caller \in Accounts, NEW n \in Names, bumpEacVersion(caller, n)
    PROVE  PlaceInv' /\ \A m \in Names : Reset(m) => CutOff(m)
<1> DEFINE version == Bumped(entries[n].version)
           e == [entries[n] EXCEPT !.version = version]
           ownerRoles == Held(ResourceOf(n, AnyPart), entries[n].owner)
<1>1. /\ entries' = [entries EXCEPT ![n] = e] /\ entries[n].version < MaxVersion
      /\ \/ setRoles(ResourceAt(n, version, AnyPart), ownerRoles, entries[n].owner, TRUE)
         \/ UNCHANGED <<roles, roleCounts>>
      /\ UNCHANGED <<records, parent, now, seeded>>
  BY DEF bumpEacVersion, carriedTo
<1>2. version \in Versions /\ version = entries[n].version + 1 /\ version =< MaxVersion
  BY <1>1, BumpedIsNext
<1>3. ownerRoles \in SUBSET Role
  BY DEF Held
<1> HIDE DEF version, ownerRoles
<1>4. /\ e \in Entry /\ e.version = version /\ e.owner = entries[n].owner
      /\ e.expiry = entries[n].expiry
  BY <1>2, EntryVersions DEF Entry
<1> HIDE DEF e
<1>5. entries[n].version \in Nat /\ Ahead(n, e.version) /\ e.version # entries[n].version
  BY <1>2, <1>4, EntryVersions DEF Ahead
<1>6. e.expiry # 0
  BY <1>4, LiveHasExpiry DEF bumpEacVersion
<1>7. \/ UNCHANGED <<roles, roleCounts>>
      \/ /\ e.owner \in Accounts /\ e.expiry # 0
         /\ \E b \in SUBSET Role : setRoles(ResourceAt(n, e.version, AnyPart), b, e.owner, TRUE)
  <2>1. entries[n].owner \in Accounts \cup {ZeroAddress}
    BY EntryVersions DEF Entry
  <2> QED
    BY <1>1, <1>3, <1>4, <1>6, <2>1 DEF setRoles
<1> QED
  BY <1>1, <1>2, <1>4, <1>5, <1>6, <1>7, MoveOn
----------------------------------------------------------------------------
\* A scoped write changes one field, and neither versions nor expiries.
LEMMA WriteTypes ==
    ASSUME CountInv, Write
    PROVE  /\ UNCHANGED <<roles, roleCounts, now, seeded>>
           /\ entries' \in [Names -> Entry] /\ records' \in [Names -> [Keys -> Values]] /\ parent' \in Targets
           /\ \A n \in Names : entries'[n].version = entries[n].version /\ entries'[n].expiry = entries[n].expiry
<1>1. PICK caller \in Accounts :
         \/ \E n \in Names, target \in Targets : setResolver(caller, n, target) \/ setSubregistry(caller, n, target)
         \/ \E n \in Names, key \in Keys, value \in Values : setRecord(caller, n, key, value)
         \/ \E target \in Targets : setParent(caller, target)
  BY DEF Write
<1>2. /\ entries \in [Names -> Entry] /\ records \in [Names -> [Keys -> Values]] /\ parent \in Targets
  BY DEF CountInv, TypeOK
<1>3. CASE \E n \in Names, target \in Targets : setResolver(caller, n, target) \/ setSubregistry(caller, n, target)
  <2>1. PICK n \in Names, target \in Targets : setResolver(caller, n, target) \/ setSubregistry(caller, n, target)
    BY <1>3
  <2>2. PICK e \in Entry : /\ entries' = [entries EXCEPT ![n] = e]
                          /\ e.version = entries[n].version /\ e.expiry = entries[n].expiry
    <3>1. CASE setResolver(caller, n, target)
      <4>1. [entries[n] EXCEPT !.resolver = target] \in Entry
        BY <1>2 DEF Entry
      <4> QED
        BY <1>2, <3>1, <4>1 DEF setResolver, Entry
    <3>2. CASE setSubregistry(caller, n, target)
      <4>1. [entries[n] EXCEPT !.subregistry = target] \in Entry
        BY <1>2 DEF Entry
      <4> QED
        BY <1>2, <3>2, <4>1 DEF setSubregistry, Entry
    <3> QED
      BY <2>1, <3>1, <3>2
  <2>3. UNCHANGED <<records, roles, roleCounts, parent, now, seeded>>
    BY <2>1 DEF setResolver, setSubregistry
  <2> QED
    BY <1>2, <2>2, <2>3
<1>4. CASE \E n \in Names, key \in Keys, value \in Values : setRecord(caller, n, key, value)
  <2>1. PICK n \in Names, key \in Keys, value \in Values : setRecord(caller, n, key, value)
    BY <1>4
  <2>2. [records[n] EXCEPT ![key] = value] \in [Keys -> Values]
    BY <1>2
  <2> QED
    BY <1>2, <2>1, <2>2 DEF setRecord
<1>5. CASE \E target \in Targets : setParent(caller, target)
  BY <1>2, <1>5 DEF setParent
<1> QED
  BY <1>1, <1>3, <1>4, <1>5

\* The writes, the clock and steps that change nothing leave roles and versions be.
LEMMA WritePlaces ==
    ASSUME IInv, Write \/ Tick \/ UNCHANGED vars
    PROVE  PlaceInv' /\ \A m \in Names : ~Reset(m)
<1>1. UNCHANGED <<roles, seeded>> /\ \A n \in Names :
         entries'[n].version = entries[n].version /\ entries'[n].expiry = entries[n].expiry
  BY WriteTypes DEF IInv, Tick, vars
<1>2. NothingNewAhead
  BY <1>1 DEF NothingNewAhead, Ahead
<1>3. AheadIsSeeded'
  BY <1>1, <1>2, NoRoleKeeps
<1>4. VersionsBounded'
  BY <1>1 DEF IInv, PlaceInv, VersionsBounded
<1> QED
  BY <1>1, <1>3, <1>4 DEF PlaceInv, Reset

\* A registration, whichever way it begins or ends.
LEMMA RegistrationPlaces ==
    ASSUME IInv, VersionsDoNotWrap, Registration
    PROVE  PlaceInv' /\ \A m \in Names : Reset(m) => CutOff(m)
<1>1. PICK caller \in Accounts, n \in Names :
         \/ \E owner \in Accounts, subregistry, resolver \in Targets, bitmap \in Bitmaps, expiry \in 0..(MaxTime + 1) :
               register(caller, n, owner, subregistry, resolver, bitmap, expiry)
         \/ unregister(caller, n)
         \/ bumpEacVersion(caller, n)
  BY DEF Registration
<1>2. CASE \E owner \in Accounts, subregistry, resolver \in Targets, bitmap \in Bitmaps, expiry \in 0..(MaxTime + 1) :
               register(caller, n, owner, subregistry, resolver, bitmap, expiry)
  <2>1. PICK owner \in Accounts, subregistry \in Targets, resolver \in Targets, bitmap \in Bitmaps,
             expiry \in 0..(MaxTime + 1) :
           register(caller, n, owner, subregistry, resolver, bitmap, expiry)
    BY <1>2
  <2>2. bitmap \in SUBSET Role /\ expiry \in Nat
    BY RegistryConstants
  <2> QED
    BY <2>1, <2>2, RegisterPlaces
<1>3. CASE unregister(caller, n)
  BY <1>3, UnregisterPlaces
<1>4. CASE bumpEacVersion(caller, n)
  BY <1>4, BumpPlaces
<1> QED
  BY <1>1, <1>2, <1>3, <1>4
----------------------------------------------------------------------------
\* Whatever a registration does, entries keep their type.
LEMMA RegistrationTypes ==
    ASSUME CountInv, Registration
    PROVE  /\ entries' \in [Names -> Entry] /\ UNCHANGED <<records, parent, now, seeded>>
           /\ \/ UNCHANGED <<roles, roleCounts>>
              \/ \E res \in Resources, bitmap \in SUBSET Role, account \in Accounts :
                    setRoles(res, bitmap, account, TRUE)
<1>1. PICK caller \in Accounts, n \in Names :
         \/ \E owner \in Accounts, subregistry, resolver \in Targets, bitmap \in Bitmaps, expiry \in 0..(MaxTime + 1) :
               register(caller, n, owner, subregistry, resolver, bitmap, expiry)
         \/ unregister(caller, n)
         \/ bumpEacVersion(caller, n)
  BY DEF Registration
<1> DEFINE version == entries[n].version
<1>2. entries[n] \in Entry /\ entries \in [Names -> Entry] /\ version \in Versions
  BY DEF CountInv, TypeOK, Entry
<1>3. Bumped(version) \in Versions
  BY <1>2, RegistryConstants DEF Bumped, Versions
<1>4. registeredVersion(entries[n]) \in Versions
  BY <1>2, <1>3 DEF registeredVersion
<1> HIDE DEF version
<1>5. CASE \E owner \in Accounts, subregistry, resolver \in Targets, bitmap \in Bitmaps, expiry \in 0..(MaxTime + 1) :
               register(caller, n, owner, subregistry, resolver, bitmap, expiry)
  <2>1. PICK owner \in Accounts, subregistry \in Targets, resolver \in Targets, bitmap \in Bitmaps,
             expiry \in 0..(MaxTime + 1) :
           register(caller, n, owner, subregistry, resolver, bitmap, expiry)
    BY <1>5
  <2>2. bitmap \in SUBSET Role /\ expiry \in Nat
    BY RegistryConstants
  <2>3. [version |-> registeredVersion(entries[n]), subregistry |-> subregistry, expiry |-> expiry,
         resolver |-> resolver, owner |-> owner] \in Entry
    BY <1>4, <2>2 DEF Entry
  <2>4. ResourceAt(n, registeredVersion(entries[n]), AnyPart) \in Resources
    BY <1>4, ResourceFacts, PartFacts
  <2> QED
    BY <1>2, <2>1, <2>2, <2>3, <2>4 DEF register
<1>6. CASE unregister(caller, n)
  <2>1. [NoEntry EXCEPT !.version = Bumped(version)] \in Entry
    BY <1>3, RegistryConstants DEF Entry, NoEntry
  <2> QED
    BY <1>2, <1>6, <2>1 DEF unregister, version
<1>7. CASE bumpEacVersion(caller, n)
  <2>1. entries' = [entries EXCEPT ![n] = [entries[n] EXCEPT !.version = Bumped(version)]]
    BY <1>7 DEF bumpEacVersion, version
  <2>2. [entries[n] EXCEPT !.version = Bumped(version)] \in Entry
    BY <1>2, <1>3 DEF Entry
  <2>3. entries' \in [Names -> Entry]
    BY <1>2, <2>1, <2>2
  <2>4. carriedTo(n) \in Resources
    BY <1>3, ResourceFacts, PartFacts DEF carriedTo, version
  <2>5. entries[n].owner \in Accounts \cup {ZeroAddress}
    BY <1>2 DEF Entry
  <2>6. Held(ResourceOf(n, AnyPart), entries[n].owner) \in SUBSET Role
    BY DEF Held
  <2>7. \/ UNCHANGED <<roles, roleCounts>>
        \/ setRoles(carriedTo(n), Held(ResourceOf(n, AnyPart), entries[n].owner), entries[n].owner, TRUE)
    BY <1>7 DEF bumpEacVersion
  <2>8. CASE UNCHANGED <<roles, roleCounts>>
    BY <1>7, <2>3, <2>8 DEF bumpEacVersion
  <2>9. CASE setRoles(carriedTo(n), Held(ResourceOf(n, AnyPart), entries[n].owner), entries[n].owner, TRUE)
    <3>1. entries[n].owner \in Accounts
      BY <2>5, <2>9 DEF setRoles
    <3> QED
      BY <1>7, <2>3, <2>4, <2>6, <2>9, <3>1 DEF bumpEacVersion
  <2> QED
    BY <2>7, <2>8, <2>9
<1> QED
  BY <1>1, <1>5, <1>6, <1>7

\* A role change works on a resource that exists.
LEMMA RoleChangeTypes ==
    ASSUME CountInv, RoleChange
    PROVE  /\ UNCHANGED <<entries, records, parent, now>> /\ seeded' \subseteq Resources
           /\ \E res \in Resources, bitmap \in SUBSET Role, account \in Accounts, granting \in BOOLEAN :
                 setRoles(res, bitmap, account, granting)
<1>1. PICK caller \in Accounts, account \in Accounts, granting \in BOOLEAN :
         \/ \E res \in KnownResources, bitmap \in Bitmaps :
               changeRoles(caller, res, bitmap, account, granting)
         \/ \E bitmap \in RootBitmaps : changeRootRoles(caller, bitmap, account, granting)
         \/ \E n \in Names, key \in Keys, bitmap \in Bitmaps :
               changeRecordRoles(caller, n, key, bitmap, account, granting)
  BY DEF RoleChange
<1>2. Bitmaps \subseteq SUBSET Role /\ RootBitmaps \subseteq SUBSET Role /\ KnownResources \subseteq Resources
  BY RegistryConstants DEF KnownResources
<1>3. \A n \in Names, key \in Keys : ResourceOf(n, key) \in Resources
  BY ResourceFacts, PartFacts DEF ResourceOf, CountInv, TypeOK, Entry
<1>4. seeded \subseteq Resources
  BY DEF CountInv, TypeOK
<1> QED
  BY <1>1, <1>2, <1>3, <1>4, ResourceFacts DEF changeRoles, changeRootRoles, changeRecordRoles

LEMMA CountInit == Init => CountInv
<1> SUFFICES ASSUME Init PROVE CountInv
  OBVIOUS
<1>1. NoEntry \in Entry
  BY RegistryConstants DEF NoEntry, Entry, Versions
<1>2. RootRoles \subseteq Role
  BY RegistryConstants DEF RootRoles, OwnerRoles, Role, Use, Admin
<1>3. roles \subseteq Resources \X Accounts \X Role
  BY <1>2, RegistryConstants, ResourceFacts DEF Init, InitialRoles
<1>4. TypeOK
  BY <1>1, <1>3, RegistryConstants DEF Init, TypeOK
<1>5. ASSUME NEW res \in Resources, NEW role \in Role
      PROVE  roleCounts[res][role] = Cardinality(Assignees(res, role))
  <2>1. CASE res = RootResource /\ role \in RootRoles
    <3>1. Assignees(res, role) = {Root}
      BY <2>1, RegistryConstants DEF Init, InitialRoles, Assignees
    <3> QED
      BY <2>1, <3>1, FS_Singleton DEF Init
  <2>2. CASE ~(res = RootResource /\ role \in RootRoles)
    <3>1. Assignees(res, role) = {}
      BY <2>2 DEF Init, InitialRoles, Assignees
    <3> QED
      BY <2>2, <3>1, FS_EmptySet DEF Init
  <2> QED
    BY <2>1, <2>2
<1> QED
  BY <1>4, <1>5 DEF CountInv, CountersMatchAssignees

LEMMA CountStep == CountInv /\ [Next]_vars => CountInv'
<1> SUFFICES ASSUME CountInv, [Next]_vars PROVE CountInv'
  OBVIOUS
<1>1. RolesOK
  BY DEF CountInv, TypeOK, RolesOK
<1>2. RolesOK' => CountersMatchAssignees' /\ roles' \subseteq Resources \X Accounts \X Role
                  /\ roleCounts' \in [Resources -> [Role -> 0..MaxAssignees]]
  BY DEF RolesOK
<1>3. UNCHANGED <<roles, roleCounts>> => RolesOK'
  BY <1>1 DEF RolesOK, CountersMatchAssignees, Assignees
<1>4. CASE RoleChange
  <2>1. RolesOK'
    BY <1>1, <1>4, RoleChangeTypes, SetRolesCounts
  <2> QED
    BY <1>2, <1>4, <2>1, RoleChangeTypes DEF CountInv, TypeOK
<1>5. CASE Registration
  <2>1. RolesOK'
    BY <1>1, <1>3, <1>5, RegistrationTypes, SetRolesCounts
  <2> QED
    BY <1>2, <1>5, <2>1, RegistrationTypes DEF CountInv, TypeOK
<1>6. CASE Write
  BY <1>2, <1>3, <1>6, WriteTypes DEF CountInv, TypeOK
<1>7. CASE Tick
  BY <1>2, <1>3, <1>7 DEF Tick, CountInv, TypeOK
<1>8. CASE UNCHANGED vars
  BY <1>2, <1>3, <1>8 DEF vars, CountInv, TypeOK
<1> QED
  BY <1>4, <1>5, <1>6, <1>7, <1>8 DEF Next

LEMMA PlaceInit == Init => PlaceInv
<1> SUFFICES ASSUME Init PROVE PlaceInv
  OBVIOUS
<1>1. VersionsBounded
  BY RegistryConstants DEF Init, VersionsBounded, NoEntry
<1>2. AheadIsSeeded
  BY ResourceFacts DEF Init, AheadIsSeeded, InitialRoles
<1> QED
  BY <1>1, <1>2 DEF PlaceInv

LEMMA PlaceStep ==
    ASSUME VersionsDoNotWrap
    PROVE  IInv /\ [Next]_vars => PlaceInv' /\ (\A m \in Names : Reset(m) => CutOff(m))
<1> SUFFICES ASSUME IInv, [Next]_vars
             PROVE  PlaceInv' /\ \A m \in Names : Reset(m) => CutOff(m)
  OBVIOUS
<1>1. CASE RoleChange
  BY <1>1, RoleChangePlaces, RoleChangeTypes DEF Reset, IInv
<1>2. CASE Registration
  BY <1>2, RegistrationPlaces
<1>3. CASE Write \/ Tick \/ UNCHANGED vars
  BY <1>3, WritePlaces
<1> QED
  BY <1>1, <1>2, <1>3 DEF Next
----------------------------------------------------------------------------
\* ZegelIssuerRegistry.sol's storage is of its types in every reachable state:
\* no counter leaves its nybble.
THEOREM TypeCorrect == Spec => []TypeOK
<1>1. CountInv => TypeOK
  BY DEF CountInv
<1> QED
  BY <1>1, CountInit, CountStep, PTL DEF Spec

\* The assignee counters of _setRoles always equal the number of accounts that
\* hold the role, so that a role is never locked before MAX_ASSIGNEES hold it.
THEOREM CountersAlwaysMatch == Spec => []CountersMatchAssignees
<1>1. CountInv => CountersMatchAssignees
  BY DEF CountInv
<1> QED
  BY <1>1, CountInit, CountStep, PTL DEF Spec

\* Whatever is held against a version that no registration of the name has had
\* yet was begun by an admin of the root: no owner, delegate or admin of a name
\* can plant authority for a registration to come.
THEOREM AheadIsRootsDoing ==
    ASSUME VersionsDoNotWrap
    PROVE  Spec => []AheadIsSeeded
<1>1. Init => IInv
  BY CountInit, PlaceInit DEF IInv
<1>2. IInv /\ [Next]_vars => IInv'
  BY CountStep, PlaceStep DEF IInv
<1>3. IInv => AheadIsSeeded
  BY DEF IInv, PlaceInv
<1> QED
  BY <1>1, <1>2, <1>3, PTL DEF Spec

\* bumpEacVersion, unregister and every registration cut every delegate off at
\* once, however roles were granted before and by whom, but for what an admin of
\* the root granted at the new version before it began, as long as versions have
\* not come round their uint32.
THEOREM DelegatesAreCutOff ==
    ASSUME VersionsDoNotWrap
    PROVE  Spec => ResetCutsDelegates
<1>1. Init => IInv
  BY CountInit, PlaceInit DEF IInv
<1>2. IInv /\ [Next]_vars => IInv'
  BY CountStep, PlaceStep DEF IInv
<1>3. IInv /\ [Next]_vars =>
        [\A n \in Names : Reset(n) =>
            \A account \in Accounts \ {entries'[n].owner}, part \in Parts, role \in Role :
                hasScopedRoles(n, part, {role}, account)' =>
                    HoldsOverAnyName(part, role, account)' \/ GrantedAhead(n, part)']_vars
  BY PlaceStep DEF CutOff
<1> QED
  BY <1>1, <1>2, <1>3, PTL DEF Spec, ResetCutsDelegates
=============================================================================
