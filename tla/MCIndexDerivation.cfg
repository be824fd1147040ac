SPECIFICATION Spec
CONSTANTS
    a = a
    b = b
    p1 = p1
    p2 = p2
    p3 = p3
    t1 = t1
    t2 = t2
    Paths = {a, b}
    Texts = {t1, t2}
    Calls = {p1}
    ConfigOf <- NewConfig
    OldConfig = "c1"
    Attempts = 1
    MaxEdits = 1
CHECK_DEADLOCK FALSE
INVARIANTS
    UniformDerivation
