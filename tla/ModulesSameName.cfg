SPECIFICATION Spec
CONSTANTS
    Texts <- SameName
    Main = "main"
    Unreadable = {}
    Natives = {"len"}
    MaxModules = 3
    MaxPatches = 4
    MaxUses = 2
    Features = {}
INVARIANTS
    CallsReach
