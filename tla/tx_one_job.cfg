SPECIFICATION Spec
CONSTANTS
    j1 = j1
    j2 = j2
    a = a
    b = b
    c1 = c1
    c2 = c2
    s1 = s1
    s2 = s2
    s3 = s3
    Jobs = {j1}
    Targets = {a, b}
    Schedules = {c1, c2}
    Sessions = {s1, s2}
    NoTime = NoTime
    NoSession = NoSession
    NoRow = NoRow
    MaxTime = 2
    Lookahead = 1
    HashLimit = 4
    JobHash <- JobHashes
    TargetHash <- TargetHashes
    Edits <- EditsOf1
    InitialRows <- Rows1
SYMMETRY SessionSymmetry
INVARIANTS
    TypeOK
    AtMostOnce
    HandledStaysClosed
    WorkerSeesCurrentRow
    ReenableSkipsOverdue
    ReportIsDurable
PROPERTIES
    RefinesLedger
