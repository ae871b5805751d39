CONSTANTS
    t1 = t1  t2 = t2  t3 = t3  s1 = s1  l1 = l1  c1 = c1
    NULL = NULL
    Threads = {t1, t2, t3}
    Main = t1
    Semaphores = {s1}
    Locks = {l1}
    Conditions = {c1}
    InitialValue <- MCInitialValue
    MaxValue = 2
SPECIFICATION ClientSpec
SYMMETRY MCSymmetry
INVARIANTS
    ClientTypeOK
    OnePlace
    NoLostWakeup
    LockState
    OwnerUninterrupted
    DestroyedIsGone
PROPERTY OwnerKeepsLock
