SPECIFICATION Spec
CONSTANTS
    Jobs = {j1, j2}
    s1 = s1
    p1 = p1
    p2 = p2
    e1 = e1
    Sources = {s1}
    Paths = {p1, p2, e1}
    Below <- MCBelow
    Size = 2
    OldFiles <- NothingThere
    ErrorOf <- MCErrorOf
    IntMax = 2
    Targets = {p1}
PROPERTY NeverOverwritesUnasked
CHECK_DEADLOCK FALSE
