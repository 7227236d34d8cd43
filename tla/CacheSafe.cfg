SPECIFICATION FairSpec
CONSTANTS
    k1 = k1
    v1 = v1
    v2 = v2
    c1 = c1
    c2 = c2
    c3 = c3
    w1 = w1
    w2 = w2
    Nil = Nil
    Keys = {k1}
    Values = {v1, v2}
    Callers = {c1, c2, c3}
    Writers = {w1, w2}
INVARIANTS
    SingleFlight
    StaleOnlyByOverlap
PROPERTIES
    Answered
