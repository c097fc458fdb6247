SPECIFICATION Spec
CONSTANTS
    Names = {x, y}
    NoName = NoName
    MAX_LOCALS = 2
    MAX_BREAKS = 1
    Earlier <- FreshOrUsed
    Programs <- Passing
    MaxOpen = 3
    MaxList = 1
SYMMETRY Alike
INVARIANTS
    TypeOK
    NamesReach
    OwnSlots
    JumpsLand
    Judged
