SPECIFICATION FairSpec
CONSTANTS
    Objects = {"sema", "mbx", "mutex", "flag", "sleep", "fpl", "vpl"}
    Threads = {t1, t2, t3}
    CallsOf <- LivenessCalls
    NoThread = NoThread
    Timeouts = {TRUE}
    Priority <- Priorities
    NoWait = NoWait
    Word = 64
    PoolBase = 4
    Grain = 2
    Maximum = 1
    Initial = 0
    SemaAmounts = {1}
    Messages = {m1}
    Prioritised = FALSE
    LockAmounts = {2}
    Bits = {e1}
    Blocks = {b1}
    PoolSize = 4
    Sizes = {2}
PROPERTY
    NoServableWaiterStuck
