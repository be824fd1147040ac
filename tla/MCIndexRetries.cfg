SPECIFICATION Spec
CONSTANTS
    a = a
    b = b
    p1 = p1
    p2 = p2
    p3 = p3
    t1 = t1
    t2 = t2
    Paths = {a}
    Texts = {t1}
    Calls = {p1, p2, p3}
    ConfigOf <- NewConfig
    OldConfig = "c1"
    Attempts = 2
    MaxEdits = 1
CHECK_DEADLOCK FALSE
SYMMETRY Symmetry
INVARIANTS
    ConflictMeansProgress
PROPERTIES
    ImplementsAtomicIndex
