SPECIFICATION Spec
CONSTANTS
    s1 = s1
    s2 = s2
    r1 = r1
    r2 = r2
    c1 = c1
    Void = Void
    Free = Free
    Threads <- WithCloser
    Program <- Closing
    Requested = 2
    Guarded = {s1}
    Spurious = TRUE
INVARIANTS
    TypeOK
    FirstInFirstOut
    NoLostWakeup
PROPERTIES
    ImplementsQueue
    Responsive
    AllFinish
