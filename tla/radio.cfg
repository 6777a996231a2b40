SPECIFICATION RadioFairSpec
CONSTANTS
    Clients = {a, b}
    FreqStep = 2
    TypedFreqs <- MCTypedFreqs
    TypedPpms <- MCTypedPpms
    TypedGains <- MCTypedGains
    MaxChanges = 2
INVARIANTS
    RadioTypeOK
    FftwUnset
    DeviceInStep
    DeviceFollows
PROPERTIES
    Settles
CHECK_DEADLOCK FALSE
