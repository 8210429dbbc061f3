SPECIFICATION Spec
CONSTANTS
    n1 = n1
    k1 = k1
    root = root
    a1 = a1
    a2 = a2
    v0 = v0
    v1 = v1
    zero = zero
    t1 = t1
    Kinds = {"REGISTRAR", "UNREGISTER", "SET_SUBREGISTRY", "SET_RESOLVER", "SET_DATA"}
    Names = {n1}
    Keys = {k1}
    Accounts <- MCAccounts
    Root = root
    ZeroAddress = zero
    RootNode = RootNode
    AnyNode = AnyNode
    AnyPart = AnyPart
    ResolverPart = ResolverPart
    SubregistryPart = SubregistryPart
    Targets = {zero}
    Values = {v0}
    NoValue = v0
    Bitmaps <- MCBitmaps
    RootBitmaps <- MCRootBitmaps
    MaxAssignees = 2
    VersionModulus = 2
    MaxVersion = 1
    MaxTime = 2
    GrantParts = {AnyPart}
    MaxHolders = 3
SYMMETRY Symmetry
INVARIANTS
    CountersMatchAssignees
PROPERTIES
    ResetCutsDelegates
CHECK_DEADLOCK FALSE
