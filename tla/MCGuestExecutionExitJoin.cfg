SPECIFICATION ExitFairSpec
CONSTANTS
    Threads = {t1, t2, t3}
    Main = t1
    NoThread = NoThread
    Calls <- MCCalls
PROPERTY
    ExitJoinsThreads
