SPECIFICATION FairSpec
CONSTANTS
    Threads = {t1, t2, t3}
    Main = t1
    NoThread = NoThread
    Calls <- MCCalls
INVARIANTS
    TypeOK
    MutualExclusion
    RunningHoldsLock
    EveryTicketOwned
    NoLostTurn
PROPERTIES
    ImplementsCpu
    ImplementsFairCpu
