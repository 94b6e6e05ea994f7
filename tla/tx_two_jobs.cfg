SPECIFICATION Spec
CONSTANTS
    j1 = j1
    j2 = j2
    a = a
    b = b
    c1 = c1
    c2 = c2
    s1 = s1
    s2 = s2
    s3 = s3
    Jobs = {j1, j2}
    Targets = {a, b}
    Schedules = {c1, c2}
    Sessions = {s1, s2}
    NoTime = NoTime
    NoSession = NoSession
    NoRow = NoRow
    MaxTime = 1
    Lookahead = 1
    HashLimit = 4
    JobHash <- JobHashes
    TargetHash <- TargetHashes
    Edits = {}
    InitialRows <- Rows2
SYMMETRY SessionSymmetry
INVARIANTS
    TargetExclusive
