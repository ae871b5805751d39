SPECIFICATION Spec
CONSTANTS
    Main = t1
    Threads = {t1, t2, t3, t4}
    NULL = NULL
    ByteBits = 2
    GPRs = {0, 2, 4, 5, 6, 8, 9, 10, 29, 31}
    PageSize = 16
    NumPhysPages = 14
    StackPages = 2
    StackMargin = 4
    MaxFiles = 6
    MaxFd = 6
    Programs <- MCPrograms
INVARIANT StackIsOwn
