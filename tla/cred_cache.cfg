SPECIFICATION FairSpec
CONSTANTS
    Threads = {t1, t2}
    MaxVersion = 2
INVARIANTS
    OneRetryIsEnough
PROPERTIES
    OutdatedSecretIsDropped
