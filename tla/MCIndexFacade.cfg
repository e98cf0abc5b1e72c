SPECIFICATION Spec
CONSTANTS
    f1 = f1
    f2 = f2
    d1 = d1
    d2 = d2
    Facades = {f1, f2}
    Docs = {d1, d2}
    KeyOf <- MCKeyOf
    Options <- MCOptions
SYMMETRY Symmetry
CHECK_DEADLOCK FALSE
INVARIANTS TypeOK NothingLost ReadsAreFresh 
