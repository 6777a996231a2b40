SPECIFICATION ClientsSpec
CONSTANTS
    Clients = {g, t}
    Guis = {g}
    Clis = {t}
    Workers = {0, 1}
    Stray = Stray
    MaxInFlight = 1
    MaxOps = 2
    MaxQueued = 1
INVARIANTS
    ScriptHasItsOwn
CHECK_DEADLOCK FALSE
