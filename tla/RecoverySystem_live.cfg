\* The default policies, one run and one delivery at a time, two starts, fairness.
SPECIFICATION FairSpec
CONSTANTS
    RootCause = "limit_exceeded"
    Policies <- DefaultPolicies
    NoLimit = NoLimit
    MaxRows = 5
    Runs = {r1}
    MaxStarts = 2
    Hooks = {h1}
    PayWays = {"link"}
    Reviewers = {}
    MaxCrashes = 0
    r1 = r1
    h1 = h1
INVARIANTS
    LateRunNeverExecutes
PROPERTIES
    LinkPaymentIsRecorded
    RetriesEnd
