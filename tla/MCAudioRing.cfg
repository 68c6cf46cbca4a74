\* Two threads on a ring of four frames: a reservation and two more calls, of
\* which a longer output needs room, wraps round and drains in two callbacks.
SPECIFICATION FairSpec
CONSTANTS
    Threads = {t1, t2}
    Host = host
    NoThread = none
    Cap = 4
    Lengths = {1, 3}
    Period = 2
    Word = 16
    Calls = 3
    ReadLimit = 6
INVARIANTS
    TypeOK
    PlaysEachFrame
PROPERTIES
    BlockingOutputReturns
