SPECIFICATION Spec
CONSTANTS
    s1 = s1
    s2 = s2
    r1 = r1
    r2 = r2
    c1 = c1
    Void = Void
    Free = Free
    Threads <- WithCloser
    Program <- Surplus
    Requested <- Negative
    Guarded = {s1, s2}
    Spurious = TRUE
INVARIANTS
    ValueHasTaker
    AcceptedIsReceived
PROPERTIES
    ReturnsAfterReceipt
    ImplementsQueue
    CloseReleases
