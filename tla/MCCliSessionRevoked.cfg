SPECIFICATION Spec
CONSTANTS
    Keys = {alice, bob}
    NoList = NoList
    Unset = Unset
    NodeKey = NodeKey
    GatewayKey = GatewayKey
    Malformed = Malformed
    NoCommand = NoCommand
    Killed = Killed
    Settings <- DefaultOnly
    Services <- AllUp
    Script <- RevokeThenGrant
    MaxDrifts = 0
PROPERTIES
    RevokedStaysOff
CHECK_DEADLOCK FALSE
