\* Two billing cycles of a subscription, or one life of a mandate.
SPECIFICATION Spec
CONSTANTS
    Subscriptions = {s1}
    Mandates = {m1}
    None = None
    Tasks = {t1, t2}
    MaxCases = 2
    MaxCycles = 2
    MaxSent = 4
    MaxBusy = 1
    MaxExtras = 2
    s1 = s1
    m1 = m1
    t1 = t1
    t2 = t2
CHECK_DEADLOCK FALSE
SYMMETRY Alike
INVARIANTS
    TypeOK
    FailureHasCase
    HaltIsEscalated
    CountAgrees
    RecoveriesBounded
