\* An approval lands between the policy check's read and its write.
SPECIFICATION Spec
CONSTANTS
    RootCause = "network_error"
    Policies <- ReviewedPolicies
    NoLimit = NoLimit
    MaxRows = 4
    Runs = {r1, r2}
    MaxStarts = 2
    Hooks = {}
    PayWays = {}
    Reviewers = {v1}
    MaxCrashes = 0
    r1 = r1
    r2 = r2
    v1 = v1
INVARIANTS
    ApprovedStaysAllowed
