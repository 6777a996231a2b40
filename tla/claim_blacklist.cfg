SPECIFICATION ScannerSpec
CONSTANTS
    Fftw = 6
    BinHz = 2
    MinSpan = 1
    MaxSpan = 3
    Step = 8
    NoFrame = NoFrame
    ScanFrames <- MCScanFrames
    CronFrames <- MCCronFrames
    Times <- MCTimes
    Spectra <- MCSpectra
    MessGains = {1}
    Gainpcs <- MCGainpcs
    MinGain = 1
    MaxGain = 3
    PipeBlocks = 2
    BufBlocks = 2
    IntervalBlocks = 3
    Blacklists <- MCBlacklists
    MaxLines = 3
INVARIANTS
    ListedAreIgnored
CHECK_DEADLOCK FALSE
