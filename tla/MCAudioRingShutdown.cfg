SPECIFICATION FairSpec
CONSTANTS
    Threads = {t1, t2}
    Host = host
    NoThread = none
    Cap = 4
    Lengths = {1, 3}
    Period = 2
    Word = 16
    Calls = 3
    ReadLimit = 6
PROPERTIES
    ShutdownReleasesProducers
