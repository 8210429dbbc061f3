SPECIFICATION VerdictSpec
CONSTANTS
    r0 = r0
    r1 = r1
    c0 = c0
    c1 = c1
    c2 = c2
    a0 = a0
    a1 = a1
    a2 = a2
    v1 = v1
    v2 = v2
    ReferenceIds <- MCReferenceIds
    Commitments <- MCCommitments
    Accounts <- MCAccounts
    ZeroReference = r0
    ZeroCommitment = c0
    ZeroAddress = a0
    MaxReasonBytes = 256
    MaxTime = 3
    MaxEvents = 3
    Readers <- MCReaders
    Documents <- MCDocuments
    Objects <- MCObjects
    Held <- MCHeld
    NoEnvelope = NoEnvelope
    Malformed = Malformed
    Failed = Failed
    Refused = Refused
    Samples <- MCSamples
SYMMETRY Symmetry
CONSTRAINT FewAtOnce
INVARIANTS
    LogTellsState
    MrzReadsBack
PROPERTIES
    ImplementsLifecycle
    WithdrawnIsSeen
    ValidBindsClaims
    
    DeskAndCommandAgree
CHECK_DEADLOCK FALSE
