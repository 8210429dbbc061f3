SPECIFICATION ServiceSpec
CONSTANTS
    node = node
    shop = shop
    alice = alice
    bob = bob
    zegel = zegel
    boot1 = boot1
    boot2 = boot2
    Owners <- MCOwners
    FirstOwner = alice
    NoOwner = NoOwner
    NoRecord = NoRecord
    Unset = Unset
    Malformed = Malformed
    Wrapper = Wrapper
    EnsRegistry = EnsRegistry
    Stray = Stray
    Resolvers = {zegel}
    SignerKey = SignerKey
    BootKeys = {boot1, boot2}
    Safes = {bob}
    Deployed = {zegel, EnsRegistry, Stray}
    TicksPerSecond = 2
    MaxWindow = 2
    MaxTime = 1
    Nodes = {node, shop}
    Traded = {node}
    Seeds <- MCSeeds
    Envs <- MCEnvs
    Messages <- MCTransferred
    Requests = {q1, q2}
    MaxInFlight = 2
    MaxFaults = 1
INVARIANTS
    AckedIsDurable
    HealthForetells
    ServedIsReadable
PROPERTIES
    LastFlushWritesEverything
    NeverRolledBackAlone
    PublisherHeldTheName
    EveryRequestSettles
