SPECIFICATION Spec
CONSTANTS
    Texts <- Linked
    Main = "main"
    Unreadable = {"u"}
    Natives = {"len"}
    MaxModules = 3
    MaxPatches = 4
    MaxUses = 3
    Features = {}
INVARIANTS
    TypeOK
    CallsReach
    NoCallForgotten
    NoImportInsideItself
    Accepted
    OwnMistakesRejected
