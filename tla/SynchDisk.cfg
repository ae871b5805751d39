CONSTANTS
    c1 = c1  c2 = c2  c3 = c3
    NULL = NULL
    Main = Main
    Clients = {c1, c2, c3}
    Threads <- MCThreads
    Sectors = {0}
    Values = {"a", "b"}
    MaxCalls = 2
    MaxYields = 2
    Semaphores = {"semaphore"}
    Locks = {"lock"}
    Conditions = {}
    InitialValue <- MCInitialValue
SPECIFICATION Spec
INVARIANTS
    NeverAborts
    AnswerIsMine
PROPERTIES
    RequestsReturn
    ImplementsAtomicDisk
