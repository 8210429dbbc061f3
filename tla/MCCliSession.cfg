SPECIFICATION Spec
CONSTANTS
    Keys = {alice}
    NoList = NoList
    Unset = Unset
    NodeKey = NodeKey
    GatewayKey = GatewayKey
    Malformed = Malformed
    NoCommand = NoCommand
    Killed = Killed
    Settings <- FewSettings
    Services <- MostlyUp
    Script <- ThreeCommands
    MaxDrifts = 1
INVARIANTS
    SuccessMeansSealed
    SaidIsKept
    
PROPERTIES
    PatchesNoOlderReference
CHECK_DEADLOCK FALSE
