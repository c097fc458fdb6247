SPECIFICATION Spec
CONSTANTS
    FRAMES_MAX = 3
    TRY_STACK_MAX = 2
    STACK_MAX = 3
    MaxOpen = 5
    MaxArgs = 2
    Programs = {{"leave_try"}}
PROPERTY
    CaughtByInnermost
