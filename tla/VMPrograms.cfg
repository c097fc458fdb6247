SPECIFICATION Spec
CONSTANTS
    FRAMES_MAX = 4
    TRY_STACK_MAX = 2
    STACK_MAX = 3
    MaxOpen = 6
    MaxArgs = 2
    Programs = {{}, {"op_error", "void_value", "block_value", "leave_match"}}
INVARIANTS
    TypeOK
    FramesAgree
    TryAgrees
    StackAgrees
PROPERTIES
    CaughtByInnermost
