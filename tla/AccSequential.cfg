SPECIFICATION Spec
CONSTANTS
    r1 = r1
    r2 = r2
    c1 = c1
    c2 = c2
    p1 = p1
    p2 = p2
    p3 = p3
    a = a
    b = b
    None = None
    Reqs = {r1}
    Clients = {c1, c2}
    Places = {p1, p2, p3}
    ClientOf <- MCClientOf
    Roles = {a, b}
    Intents = {"user"}
    MaxGroup = 2
SYMMETRY MCSymmetry
INVARIANTS
    SinglePrimarySite
PROPERTIES
    RemovalsKeep
