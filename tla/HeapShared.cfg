SPECIFICATION Spec
CONSTANTS
    Thread = {t1, t2}
    main = t1
    Obj = {o1, o2, o3}
    Slot = {s1, s2}
    Index = {i1}
    NULL = NULL
    MaxKept = 1
    Features = {}
SYMMETRY Alike
INVARIANTS TypeOK CountExact NoDangling
PROPERTIES Reclaimed FreedOnce
