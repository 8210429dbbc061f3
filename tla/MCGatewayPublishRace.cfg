SPECIFICATION Spec
CONSTANTS
    node = node
    shop = shop
    alice = alice
    bob = bob
    zegel = zegel
    Owners <- MCOwners
    FirstOwner = alice
    NoOwner = NoOwner
    NoRecord = NoRecord
    Unset = Unset
    Malformed = Malformed
    Wrapper = Wrapper
    EnsRegistry = EnsRegistry
    Stray = Stray
    Resolvers = {zegel}
    SignerKey = SignerKey
    BootKeys = {}
    Safes = {}
    Deployed = {zegel, EnsRegistry}
    TicksPerSecond = 2
    MaxWindow = 2
    MaxTime = 1
    Nodes = {node}
    Traded = {node}
    Seeds = {}
    Envs <- MCProduction
    Messages <- MCReissued
    Requests = {q1, q2, q3}
    MaxInFlight = 3
PROPERTIES
    NeverRolledBack
