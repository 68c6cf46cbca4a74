SPECIFICATION FairSpec
CONSTANTS
    Parts = {"timers", "lives", "sas"}
    CallsOf <- MCCalls
    Threads = {h1, h2}
    Host = host
    Nobody = none
    Alarms = {h1}
    Main = main
    MaxRuns = 2
    Voices = {v1}
    VagData <- MCVag
    BlockSamples = 1
    PcmSizes = {2}
    Top = 8
    Phases = {"sustain", "release"}
    Rates = {3}
    Levels = {9}
    Envelopes <- MCEnvelopes
    One = 2
    Pitches = {8}
INVARIANTS
    TypeOK
    OneHostThreadEach
    SasSound
PROPERTIES
    HostThreadsEnd
    SasReleaseEnds
CHECK_DEADLOCK FALSE
