\* Two tasks at once on one invoice and its case: both sweeps, two promises, and four
\* requests of any kind.
SPECIFICATION FairSpec
CONSTANTS
    Invoices = {i1}
    NoInvoice = NoInvoice
    Tasks = {t1, t2}
    MaxCases = 1
    MaxPromises = 2
    MaxRequests = 4
    i1 = i1
    t1 = t1
    t2 = t2
CHECK_DEADLOCK FALSE
INVARIANTS
    TypeOK
    KeptIsBacked
    ResumedOncePerMiss
    LivePromisesBounded
PROPERTIES
    VerdictIsFinal
    PromiseGetsVerdict
