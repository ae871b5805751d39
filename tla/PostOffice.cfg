CONSTANTS
    c1 = c1  c2 = c2  b1 = b1
    NULL = NULL
    Main = Main
    Worker = Worker
    Clients = {c1, c2}
    Threads <- MCThreads
    Boxes = {b1}
    Lossy = TRUE
    Slices = TRUE
    MaxSends = 2
    MaxReceives = 2
    MaxYields = 2
    Semaphores <- MCSemaphores
    Locks <- MCLocks
    Conditions <- MCConditions
    InitialValue <- MCInitialValue
SPECIFICATION Spec
INVARIANTS
    PacketAnnounced
    SentIsMine
    NoSleepingReceiver
PROPERTIES
    ImplementsMailChannel
    SendsReturn
    PacketsArrive
