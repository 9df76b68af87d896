\* A failed or abandoned, then paid order beside an abandoned one.
SPECIFICATION Spec
CONSTANTS
    Orders = {o1, o2}
    Payments = {x1}
    OrderOf <- MCOrderOf
    None = None
    Tasks = {t1, t2}
    Pools = {p1}
    Workers = {w1}
    MaxCases = 2
    MaxBatches = 1
    MaxExtras = 2
    x1 = x1
    o1 = o1
    o2 = o2
    t1 = t1
    t2 = t2
    w1 = w1
CHECK_DEADLOCK FALSE
SYMMETRY Alike
INVARIANTS
    TypeOK
    MoneyIsReal
    FailureStartsOneRun
    CompletedBatchIsDone
    FailureIsRecorded
    MoneyIsRecorded
PROPERTIES
    MoneyStaysRecorded
