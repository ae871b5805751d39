CONSTANTS
    NULL = NULL
    Main = Main
    Threads = {Main}
    Semaphores = {"readAvail", "writeDone"}
    Locks = {}
    Conditions = {}
    InitialValue <- MCInitialValue
    q = q
    Chars = {x, y, q}
    EOF = EOF
    MaxChars = 4
SPECIFICATION Spec
INVARIANTS
    EchoesInOrder
    Announced
PROPERTY QuitsAtQ
