CONSTANTS
    SystemTick = 3
    UserTick = 1
    TimerDelays = {1, 2, 4, 6}
    PollTime = 4
    DiskDelays = {1, 3, 5, 8}
SPECIFICATION Spec
INVARIANTS
    EachPendingOnce
    InOrder
    NothingOverdue
    HaltsWhenNothingToDo
PROPERTY RequestServed
