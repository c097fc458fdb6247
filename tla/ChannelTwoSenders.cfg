SPECIFICATION Spec
CONSTANTS
    s1 = s1
    s2 = s2
    r1 = r1
    r2 = r2
    c1 = c1
    Void = Void
    Free = Free
    Threads <- TwoSenders
    Program <- TwoSendsTwoReceives
    Requested = 0
    Guarded = {}
    Spurious = FALSE
PROPERTY
    Responsive
CHECK_DEADLOCK FALSE
