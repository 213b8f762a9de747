SPECIFICATION Spec
CONSTANTS
    p = p
    q = q
    s = s
    t = t
    v = v
    w = w
    Procs = {p, q}
    Names = {s, t}
    Values = {v, w}
    MaxFaults = 2
    Nothing = Nothing
SYMMETRY MCSymmetry
INVARIANTS WritersAreInvisible
PROPERTIES ImplementsRegister
