SPECIFICATION Spec
CONSTANTS
    s1 = s1
    s2 = s2
    r1 = r1
    r2 = r2
    c1 = c1
    Void = Void
    Free = Free
    Threads <- OneSender
    Program <- ProducerCloses
    Requested = 0
    Guarded = {}
    Spurious = FALSE
PROPERTY
    Responsive
