SPECIFICATION Spec
CONSTANTS
    zegel = zegel
    other = other
    r1 = r1
    r2 = r2
    g1 = g1
    g2 = g2
    note = note
    Nodes = {zegel}
    Gets = {g1, g2}
    Expiry <- MCExpiry
    NoEntry = NoEntry
    CacheTtl = 1
    ReadTime = 1
    MaxTime = 3
    This = r1
    Signers = {gateway}
    Names = {zegel, other}
    Storable = {zegel}
    Envelopes = {1, 2}
    NoEnvelope = NoEnvelope
    EnvelopeKey = envelopeKey
    Resolvers = {r1, r2}
    Keys = {envelopeKey, note}
    Served = {r1, r2}
    Gateway = gateway
    Asked <- MCAsked
    SignatureTtl = 3
    HttpTtl = 3
    Lag = 1
    Ahead = 2
    MaxResponses = 1
SYMMETRY Calls
INVARIANTS
    ProofIsBound
    NoEnvelopeOutlivesItself
    StalenessIsBounded
CHECK_DEADLOCK FALSE
