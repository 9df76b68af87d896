\* A charge is delivered again after the next cycle has failed.
SPECIFICATION Spec
CONSTANTS
    Subscriptions = {s1}
    Mandates = {}
    None = None
    Tasks = {t1, t2}
    MaxCases = 2
    MaxCycles = 2
    MaxSent = 4
    MaxBusy = 1
    MaxExtras = 1
    s1 = s1
    t1 = t1
    t2 = t2
CHECK_DEADLOCK FALSE
SYMMETRY Alike
INVARIANTS
    OneRecoveryPerPayment
