CONSTANTS
    NULL = NULL
    Main = Main
    N = 5
    Rounds = 2
    MaxSlices = 2
    Threads <- MCThreads
    Semaphores = {}
    Locks <- MCLocks
    Conditions <- MCConditions
    InitialValue <- MCInitialValue
SPECIFICATION Spec
INVARIANTS
    NeighboursDontEat
    PickupMeansEating
    MonitorIsLocked
    HaltsWhenDone
PROPERTIES
    HungryEats

