SPECIFICATION ClientsSpec
CONSTANTS
    Clients = {g, t}
    Guis = {g}
    Clis = {t}
    Workers = {0, 1}
    Stray = Stray
    MaxInFlight = 1
    MaxOps = 2
    MaxQueued = 1
INVARIANTS
    ClientsIInv
    ClientsTypeOK
    PendingIsUnderway
    KnowsAllChannels
    DestroyedDisappear
    EnabledHasFeeder
    RowsMatch
    ScriptNotStuck
PROPERTIES
    ScriptTakesItsOwn
    SessionsLive
CHECK_DEADLOCK FALSE
