CONSTANTS
    t1 = t1  t2 = t2
    NULL = NULL
    Threads = {t1, t2}
    Main = t1
    Semaphores = {}
    Locks = {}
    Conditions = {}
    InitialValue <- MCInitialValue
    barrierCount = 2
SPECIFICATION Spec
PROPERTY BarrierOpens
