SPECIFICATION AloneOrNot
CONSTANTS
    r1 = r1
    r2 = r2
    i1 = i1
    i2 = i2
    i3 = i3
    i4 = i4
    p1 = p1
    p2 = p2
    e1 = e1
    e2 = e2
    s1 = s1
    s2 = s2
    c1 = c1
    None = None
    Reqs = {r1, r2}
    Ids = {i1, i2}
    Persons = {p1}
    Emails = {e1}
    EmailOf <- MCOneEmail
    Clients = {c1}
    Sites = {s1, s2}
    ClientOf <- MCClientOf
    Roles = {"a"}
    Days = {1}
    MaxBatch = 2
    MaxNow = 0
    OverlapRows = 3
SYMMETRY MCSymmetry
INVARIANTS
    AcceptedNotRevoked
