SPECIFICATION Spec
CONSTANTS
    alice = alice
    desk = desk
    Keys = {alice, desk}
    Reader = alice
    Publisher = desk
    NoList = NoList
    Unread = Unread
    None = None
    Tiers = {1, 2}
    Requests = {1, 2}
    MaxVersions = 4
    MaxInFlight = 2
    MaxReads = 1
    Repeats = FALSE
    LastVersion = 0
INVARIANTS
    ListMatchesContent
    RevokedStaysOutAlone
    LedgerIsTrue
    EnvelopeIsCurrent
    AnchorIsKeptAlone
    TrialBearsOutLedger
PROPERTIES
    PrintedIsKept
    DeskComesToRest
CHECK_DEADLOCK FALSE
