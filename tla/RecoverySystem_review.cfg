\* Two reviewers decide on the same actions while two runs go on.
SPECIFICATION Spec
CONSTANTS
    RootCause = "network_error"
    Policies <- ReviewedPolicies
    NoLimit = NoLimit
    MaxRows = 4
    Runs = {r1, r2}
    MaxStarts = 1
    Hooks = {}
    PayWays = {}
    Reviewers = {v1, v2}
    MaxCrashes = 0
    r1 = r1
    r2 = r2
    v1 = v1
    v2 = v2
SYMMETRY ReviewSymmetry
INVARIANTS
    SentOncePerDecision
    NothingRunsUnvetted
