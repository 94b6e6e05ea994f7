SPECIFICATION Spec
CONSTANTS
    Jobs = {j1}
    Targets = {a, b}
    Requests = {r1, r2}
    MaxVersion = 2
INVARIANTS
    DropIsConfirmed
