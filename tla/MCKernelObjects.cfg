SPECIFICATION Spec
CONSTANTS
    Objects = {"sema", "mbx", "mutex", "flag", "sleep", "fpl", "vpl"}
    Threads = {t1, t2, t3}
    CallsOf <- SafetyCalls
    NoThread = NoThread
    Timeouts = {TRUE}
    Priority <- Priorities
    NoWait = NoWait
    Word = 64
    PoolBase = 4
    Grain = 2
    Maximum = 2
    Initial = 1
    SemaAmounts = {1, 2}
    Messages = {m1, m2, m3}
    Prioritised = TRUE
    LockAmounts = {1, 2}
    Bits = {e1, e2}
    Blocks = {b1, b2}
    PoolSize = 7
    Sizes = {1, 3}
SYMMETRY Symmetry
INVARIANTS
    TypeOK
    MbxDelivers
    LockOrder
    MutexSound
    SleepWakeups
    FixedPoolSound
    VariablePoolSound
PROPERTIES
    WaitersServed
