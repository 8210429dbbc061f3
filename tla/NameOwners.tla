----------------------------- MODULE NameOwners -----------------------------
(***************************************************************************)
(* Who may publish under a name (gateway/src/owner.ts): the operator's     *)
(* map, or the ENS registry read live, with a second read if the name is   *)
(* held by the NameWrapper. Between the two the name may change hands.     *)
(***************************************************************************)
EXTENDS GatewayConfig

CONSTANTS
    FirstOwner, \* bound: who holds every name to begin with
    Traded,     \* bound: the names that change hands
    Deployed    \* the addresses with code on the chain behind ZEGEL_RPC_URL

ASSUME OwnerConstants ==
    /\ NoOwner \notin Owners /\ Wrapper \notin Owners \cup {NoOwner}
    /\ {Unset, Stray} \cap (Owners \cup {NoOwner, Wrapper, EnsRegistry}) = {}
    /\ FirstOwner \in Owners /\ Traded \subseteq Nodes

VARIABLES
    config,         \* the process's configuration
    registryOwner,  \* the registry's owner(node)
    wrapperOwner,   \* the NameWrapper's ownerOf(node), NoOwner if it is not wrapped
    reachable       \* whether the RPC endpoint answers

nameVars == <<registryOwner, wrapperOwner, reachable>>

Wrapped(n) == registryOwner[n] = Wrapper

\* Who holds a name, to the ENS contracts.
holder(n) == IF Wrapped(n) THEN wrapperOwner[n] ELSE registryOwner[n]
----------------------------------------------------------------------------
(* The lookup. *)

\* A read of the registry returns: it throws if the endpoint does not answer
\* or if the address has no code.
RegistryAnswers == reachable /\ config.owners.registry \in Deployed

\* What the first read may return: another contract than ENS's may say anything
\* to owner(node), or revert.
MayRevert == config.owners.registry # EnsRegistry
registryReads(n) == IF MayRevert THEN Owners \cup {NoOwner, Wrapper} ELSE {registryOwner[n]}

\* Whether the registry's answer is not yet the owner.
secondHop(answer) == answer = config.owners.nameWrapper

\* Whom a lookup of this moment would find.
lookedUp(n) == {IF secondHop(o) THEN wrapperOwner[n] ELSE o : o \in registryReads(n)}

\* probe() of the map: an empty one would refuse every publish.
MapProbeOk == \E n \in Nodes : config.owners.map[n] # NoOwner

\* probe(): ok, or what keeps publishes from being authorised. Whose the code at
\* the registry's address is, and what is at the wrapper's, it does not ask.
OwnersProbeOk == IF config.owners.kind = "static" THEN MapProbeOk ELSE RegistryAnswers
----------------------------------------------------------------------------
(* The chain and the way to it. *)

Transfer(n, o) ==
    /\ holder(n) # o
    /\ IF Wrapped(n)
       THEN o # NoOwner /\ wrapperOwner' = [wrapperOwner EXCEPT ![n] = o] /\ UNCHANGED registryOwner
       ELSE registryOwner' = [registryOwner EXCEPT ![n] = o] /\ UNCHANGED wrapperOwner

Wrap(n) ==
    /\ ~Wrapped(n) /\ holder(n) # NoOwner
    /\ wrapperOwner' = [wrapperOwner EXCEPT ![n] = registryOwner[n]]
    /\ registryOwner' = [registryOwner EXCEPT ![n] = Wrapper]

Unwrap(n) ==
    /\ Wrapped(n)
    /\ registryOwner' = [registryOwner EXCEPT ![n] = wrapperOwner[n]]
    /\ wrapperOwner' = [wrapperOwner EXCEPT ![n] = NoOwner]

NameInit ==
    /\ registryOwner = [n \in Nodes |-> FirstOwner]
    /\ wrapperOwner = [n \in Nodes |-> NoOwner]
    /\ reachable = TRUE
=============================================================================
