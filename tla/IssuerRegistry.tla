--------------------------- MODULE IssuerRegistry ---------------------------
(***************************************************************************)
(* contracts/src/ZegelIssuerRegistry.sol: an ENSv2 subregistry with        *)
(* four-level access control. A role over a record is looked up at         *)
(*   (name, record), (name, any), (any name, record), (any name, any)      *)
(* and at the root; the levels are not combined. A name's resources are    *)
(* derived from its eacVersionId, so that moving the version leaves every  *)
(* role granted against the name behind, unreachable.                      *)
(*                                                                         *)
(* Hashes are injective here: a resource is the tuple it is the hash of,   *)
(* and a role bitmap is the set of its roles. A call that reverts is not a *)
(* step.                                                                   *)
(***************************************************************************)
EXTENDS Naturals, FiniteSets

CONSTANTS
    Kinds,          \* the contract's roles, or the ones a model keeps
    Names,          \* canonical ids
    Keys,           \* record keys
    Accounts,
    Root,           \* the account the constructor seeds
    ZeroAddress,
    RootNode, AnyNode,                        \* ROOT_RESOURCE_ID, ANY_NODE
    AnyPart, ResolverPart, SubregistryPart,   \* parts that are not a record
    Targets,        \* resolver and subregistry addresses
    Values,         \* record values
    NoValue,        \* the empty value
    Bitmaps,        \* the role bitmaps callers pass for names and any-name resources
    RootBitmaps,    \* and for the root resource
    MaxAssignees,   \* MAX_ASSIGNEES: what one nybble of a counter holds
    VersionModulus, \* versions are uint32 and wrap
    MaxVersion,     \* bound: the last version a name reaches
    MaxTime,        \* bound: the last block timestamp
    GrantParts,     \* bound: the parts a raw grant names
    MaxHolders      \* bound: role changes stop short of more holders than this

VARIABLES
    entries,        \* _entries
    records,        \* _records: kept per canonical id, not per version
    roles,          \* _roles: the triples <<resource, account, role>> that are held
    roleCounts,     \* _roleCounts
    parent,         \* _parent
    now,            \* block.timestamp
    seeded          \* history: the resources root authority granted at before their version began

vars == <<entries, records, roles, roleCounts, parent, now, seeded>>

Role == Kinds \X {"use", "admin"}
Use(kind) == <<kind, "use">>
Admin(kind) == <<kind, "admin">>

OwnerRoles == (Kinds \ {"REGISTRAR"}) \X {"use", "admin"}

Parts == {AnyPart, ResolverPart, SubregistryPart} \cup Keys
Versions == 0..(VersionModulus - 1)
Resources == {<<RootNode, 0, AnyPart>>} \cup ({AnyNode} \X {0} \X Parts) \cup (Names \X Versions \X Parts)
RootResource == <<RootNode, 0, AnyPart>>

ASSUME RegistryConstants ==
    /\ Kinds \subseteq {"REGISTRAR", "UNREGISTER", "SET_SUBREGISTRY", "SET_RESOLVER", "SET_DATA"}
    /\ "REGISTRAR" \in Kinds
    /\ IsFiniteSet(Accounts) /\ Root \in Accounts /\ ZeroAddress \notin Accounts
    /\ RootNode \notin Names /\ AnyNode \notin Names /\ RootNode # AnyNode
    /\ ResolverPart \notin Keys /\ SubregistryPart \notin Keys /\ AnyPart \notin Keys
    /\ Cardinality({AnyPart, ResolverPart, SubregistryPart}) = 3
    /\ ZeroAddress \in Targets /\ NoValue \in Values
    /\ Bitmaps \subseteq SUBSET Role /\ RootBitmaps \subseteq SUBSET Role
    /\ MaxAssignees \in Nat \ {0} /\ MaxVersion \in Nat
    /\ VersionModulus \in Nat \ {0}
    /\ MaxTime \in Nat /\ MaxHolders \in Nat
    /\ GrantParts \subseteq Parts

Entry == [version : Versions, subregistry : Targets, expiry : Nat, resolver : Targets,
          owner : Accounts \cup {ZeroAddress}]

NoEntry == [version |-> 0, subregistry |-> ZeroAddress, expiry |-> 0, resolver |-> ZeroAddress,
            owner |-> ZeroAddress]
----------------------------------------------------------------------------
(* Derivation and lookup. *)

Registered(n) == entries[n].expiry > now

\* resource(node, part) with node the name at a version, and at its own.
ResourceAt(n, version, part) == <<n, version, part>>
ResourceOf(n, part) == ResourceAt(n, entries[n].version, part)
AnyNameResource(part) == <<AnyNode, 0, part>>

\* The unchecked increment of eacVersionId, and of tokenVersionId with it.
Bumped(version) == (version + 1) % VersionModulus

Held(res, account) == {role \in Role : <<res, account, role>> \in roles}

hasRootRoles(bitmap, account) == \A role \in bitmap : <<RootResource, account, role>> \in roles

hasRoles(res, bitmap, account) ==
    \A role \in bitmap : <<RootResource, account, role>> \in roles \/ <<res, account, role>> \in roles

\* The ladder: one level has to hold the whole bitmap, with the root's help.
hasScopedRoles(n, part, bitmap, account) ==
    \E res \in {ResourceOf(n, part), ResourceOf(n, AnyPart),
                AnyNameResource(part), AnyNameResource(AnyPart)} :
        hasRoles(res, bitmap, account)

\* The admin bitmap that administers a bitmap; an admin role administers itself.
AdminBitmapFor(bitmap) == {Admin(role[1]) : role \in bitmap}

\* getRecord and getResolver answer nothing for a name that is not registered.
getRecord(n, key) == IF Registered(n) THEN records[n][key] ELSE NoValue
getResolver(n) == IF Registered(n) THEN entries[n].resolver ELSE ZeroAddress

----------------------------------------------------------------------------
(* Role changes. *)

\* Mutant: what is held already is counted again.
changedRoles_All(res, bitmap, account, granting) == bitmap

\* The roles a call really changes: granting what is held changes nothing.
changedRoles(res, bitmap, account, granting) ==
    {role \in bitmap : granting <=> <<res, account, role>> \notin roles}

\* A nybble that is full refuses another assignee.
saturated(res, delta) == \E role \in delta : roleCounts[res][role] = MaxAssignees

\* _setRoles: the one place roles change, with one counter per resource and role.
setRoles(res, bitmap, account, granting) ==
    LET delta == changedRoles(res, bitmap, account, granting)
        triples == {res} \X {account} \X delta
    IN  /\ account # ZeroAddress
        /\ ~(granting /\ saturated(res, delta))
        /\ roles' = IF granting THEN roles \cup triples ELSE roles \ triples
        /\ roleCounts' = [roleCounts EXCEPT ![res] =
              [role \in Role |-> IF role \notin delta THEN @[role]
                                 ELSE IF granting THEN @[role] + 1 ELSE @[role] - 1]]

\* No registration of the name has had this version: it is still to come, or it
\* is the one the next registration takes.
Ahead(n, version) ==
    \/ entries[n].version < version
    \/ entries[n].version = version /\ entries[n].expiry = 0

\* grantRoles and revokeRoles name a resource outright, the root's excepted,
\* and ask for the admin roles at that very resource or at the root. No check
\* ties the resource to a version the name has reached, and anybody can derive
\* those of a version still to come.
changeRoles(caller, res, bitmap, account, granting) ==
    /\ res # RootResource
    /\ bitmap # {}
    /\ hasRoles(res, AdminBitmapFor(bitmap), caller)
    /\ setRoles(res, bitmap, account, granting)
    /\ seeded' = seeded \cup
          {r \in {res} : /\ granting /\ res[1] \in Names /\ Ahead(res[1], res[2])
                        /\ hasRootRoles(AdminBitmapFor(bitmap), caller)}
    /\ UNCHANGED <<entries, records, parent, now>>

changeRootRoles(caller, bitmap, account, granting) ==
    /\ bitmap # {}
    /\ hasRoles(RootResource, AdminBitmapFor(bitmap), caller)
    /\ setRoles(RootResource, bitmap, account, granting)
    /\ UNCHANGED <<entries, records, parent, now, seeded>>

\* grantRecordRoles and revokeRecordRoles work on one record of a registered
\* name, for an admin at any level of the ladder.
changeRecordRoles(caller, n, key, bitmap, account, granting) ==
    /\ Registered(n)
    /\ bitmap # {}
    /\ hasScopedRoles(n, key, AdminBitmapFor(bitmap), caller)
    /\ setRoles(ResourceOf(n, key), bitmap, account, granting)
    /\ UNCHANGED <<entries, records, parent, now, seeded>>
----------------------------------------------------------------------------
(* Registration. *)

\* Mutant: a registration over a lapsed one keeps its version.
registeredVersion_Kept(e) == e.version

\* A registration over a lapsed one moves to a fresh version; an unregistered
\* name has moved already.
registeredVersion(e) == IF e.expiry # 0 THEN Bumped(e.version) ELSE e.version

\* register takes over a name that was never registered, has lapsed or was
\* unregistered.
register(caller, n, owner, subregistry, resolver, bitmap, expiry) ==
    LET e == entries[n]
        version == registeredVersion(e)
    IN  /\ hasRootRoles({Use("REGISTRAR")}, caller)
        /\ owner # ZeroAddress
        /\ expiry > now
        /\ ~Registered(n)
        /\ e.expiry # 0 => e.version < MaxVersion
        /\ entries' = [entries EXCEPT ![n] =
              [version |-> version, subregistry |-> subregistry, expiry |-> expiry,
               resolver |-> resolver, owner |-> owner]]
        /\ IF bitmap # {}
           THEN setRoles(ResourceAt(n, version, AnyPart), bitmap, owner, TRUE)
           ELSE UNCHANGED <<roles, roleCounts>>
        /\ UNCHANGED <<records, parent, now, seeded>>

\* unregister moves the version on the way out and clears the entry.
unregister(caller, n) ==
    /\ Registered(n)
    /\ hasScopedRoles(n, AnyPart, {Use("UNREGISTER")}, caller)
    /\ entries[n].version < MaxVersion
    /\ entries' = [entries EXCEPT ![n] = [NoEntry EXCEPT !.version = Bumped(entries[n].version)]]
    /\ UNCHANGED <<records, roles, roleCounts, parent, now, seeded>>

\* The owner's roles are written where nodeOf points after the increment.
carriedTo(n) == ResourceAt(n, Bumped(entries[n].version), AnyPart)

\* bumpEacVersion leaves every grant against the name behind and carries only
\* the owner's name-level roles across. The owner needs no role for it.
bumpEacVersion(caller, n) ==
    LET e == entries[n]
        ownerRoles == Held(ResourceOf(n, AnyPart), e.owner)
    IN  /\ Registered(n)
        /\ caller = e.owner \/ hasRootRoles({Use("REGISTRAR")}, caller)
        /\ e.version < MaxVersion
        /\ entries' = [entries EXCEPT ![n].version = Bumped(@)]
        /\ IF ownerRoles # {}
           THEN setRoles(carriedTo(n), ownerRoles, e.owner, TRUE)
           ELSE UNCHANGED <<roles, roleCounts>>
        /\ UNCHANGED <<records, parent, now, seeded>>
----------------------------------------------------------------------------
(* Scoped writes. *)

setResolver(caller, n, resolver) ==
    /\ Registered(n)
    /\ hasScopedRoles(n, ResolverPart, {Use("SET_RESOLVER")}, caller)
    /\ entries' = [entries EXCEPT ![n].resolver = resolver]
    /\ UNCHANGED <<records, roles, roleCounts, parent, now, seeded>>

setSubregistry(caller, n, subregistry) ==
    /\ Registered(n)
    /\ hasScopedRoles(n, SubregistryPart, {Use("SET_SUBREGISTRY")}, caller)
    /\ entries' = [entries EXCEPT ![n].subregistry = subregistry]
    /\ UNCHANGED <<records, roles, roleCounts, parent, now, seeded>>

setRecord(caller, n, key, value) ==
    /\ Registered(n)
    /\ hasScopedRoles(n, key, {Use("SET_DATA")}, caller)
    /\ records' = [records EXCEPT ![n][key] = value]
    /\ UNCHANGED <<entries, roles, roleCounts, parent, now, seeded>>

\* setParent is closed once a parent other than the zero address is set.
setParent(caller, target) ==
    /\ hasRootRoles({Use("REGISTRAR")}, caller)
    /\ parent = ZeroAddress
    /\ parent' = target
    /\ UNCHANGED <<entries, records, roles, roleCounts, now, seeded>>

Tick ==
    /\ now < MaxTime
    /\ now' = now + 1
    /\ UNCHANGED <<entries, records, roles, roleCounts, parent, seeded>>
----------------------------------------------------------------------------
RootRoles == {Use("REGISTRAR"), Admin("REGISTRAR")} \cup OwnerRoles

InitialRoles == {RootResource} \X {Root} \X RootRoles

Init ==
    /\ entries = [n \in Names |-> NoEntry]
    /\ records = [n \in Names |-> [key \in Keys |-> NoValue]]
    /\ roles = InitialRoles
    /\ roleCounts = [res \in Resources |-> [role \in Role |->
                  IF res = RootResource /\ role \in RootRoles THEN 1 ELSE 0]]
    /\ parent = ZeroAddress
    /\ now = 1
    /\ seeded = {}

\* The resources a caller can name: of a version long past, where a transaction
\* composed before the version moved lands late, and of one still to come.
KnownResources == {res \in Resources : res[3] \in GrantParts}

\* Who holds something else than at the start, and where.
Holders(held) ==
    {<<t[1], t[2]>> : t \in (held \ InitialRoles) \cup (InitialRoles \ held)}

\* A call that changes no role is no step either.
RoleChange ==
    \E caller, account \in Accounts, granting \in BOOLEAN :
        /\ \/ \E res \in KnownResources, bitmap \in Bitmaps :
                 changeRoles(caller, res, bitmap, account, granting)
           \/ \E bitmap \in RootBitmaps : changeRootRoles(caller, bitmap, account, granting)
           \/ \E n \in Names, key \in Keys, bitmap \in Bitmaps :
                 changeRecordRoles(caller, n, key, bitmap, account, granting)
        /\ roles' # roles
        /\ Cardinality(Holders(roles')) =< MaxHolders

Registration ==
    \E caller \in Accounts, n \in Names :
        \/ \E owner \in Accounts, subregistry, resolver \in Targets, bitmap \in Bitmaps, expiry \in 0..(MaxTime + 1) :
              register(caller, n, owner, subregistry, resolver, bitmap, expiry)
        \/ unregister(caller, n)
        \/ bumpEacVersion(caller, n)

Write ==
    \E caller \in Accounts :
        \/ \E n \in Names, target \in Targets : setResolver(caller, n, target) \/ setSubregistry(caller, n, target)
        \/ \E n \in Names, key \in Keys, value \in Values : setRecord(caller, n, key, value)
        \/ \E target \in Targets : setParent(caller, target)

Next == RoleChange \/ Registration \/ Write \/ Tick

Spec == Init /\ [][Next]_vars
----------------------------------------------------------------------------
\* The contract's storage holds what its types allow; a counter fits its nybble.
TypeOK ==
    /\ entries \in [Names -> Entry]
    /\ records \in [Names -> [Keys -> Values]]
    /\ roles \subseteq Resources \X Accounts \X Role
    /\ roleCounts \in [Resources -> [Role -> 0..MaxAssignees]]
    /\ parent \in Targets
    /\ now \in Nat \ {0}
    /\ seeded \subseteq Resources

Assignees(res, role) == {account \in Accounts : <<res, account, role>> \in roles}

\* The assignee counters never drift from the roles they count: regrants,
\* revocations of what is not held and carried roles included. A counter that
\* ran ahead would lock a role for good at MAX_ASSIGNEES. (That none goes past
\* MAX_ASSIGNEES into its neighbour is TypeOK.)
CountersMatchAssignees ==
    \A res \in Resources, role \in Role :
        roleCounts[res][role] = Cardinality(Assignees(res, role))

\* Authority over every name, whatever becomes of this one.
HoldsOverAnyName(part, role, account) ==
    \E res \in {RootResource, AnyNameResource(part), AnyNameResource(AnyPart)} :
        <<res, account, role>> \in roles

\* A registration of the name begins, ends, gives way to another, or is bumped.
Reset(n) ==
    \/ entries'[n].version # entries[n].version
    \/ entries'[n].expiry # entries[n].expiry

\* Root authority granted this at a version of the name before that version began.
GrantedAhead(n, part) ==
    \E p \in {part, AnyPart} : ResourceOf(n, p) \in seeded

\* When a name is registered, at first or again, bumped or dropped, every
\* delegate is cut off at once: afterwards nobody but the new owner has authority
\* over the name that is not authority over any name, unless an admin of the root
\* itself granted at the new version's resource before that version began. No
\* delegate, owner or admin of a name keeps or plants authority for later, at
\* whatever level and however late their calls land, lapsed time included.
ResetCutsDelegates ==
    [][\A n \in Names : Reset(n) =>
          \A account \in Accounts \ {entries'[n].owner}, part \in Parts, role \in Role :
              hasScopedRoles(n, part, {role}, account)' =>
                  HoldsOverAnyName(part, role, account)' \/ GrantedAhead(n, part)']_vars

\* test/ZegelIssuerRegistry.t.sol:420 and ZegelIssuerRegistry.sol:152 say the
\* new holder of a label inherits nothing and a lapsed registration leaves no
\* zombie records: on registration every record of the name reads empty.
NewHolderInheritsNothing ==
    [][\A n \in Names : ~Registered(n) /\ Registered(n)' =>
          \A key \in Keys : getRecord(n, key)' = NoValue]_vars
=============================================================================
