SPECIFICATION Spec
CONSTANTS
    a = a
    b = b
    c = c
    Units = {a, b, c}
    NoUnit = NoUnit
    OnResult <- MCOnResult
    Modulus = 32
    Start = {20}
    MaxRuns = 3
INVARIANTS NoUsedCollected NoLeak
PROPERTY CollectorReturns
CHECK_DEADLOCK FALSE
