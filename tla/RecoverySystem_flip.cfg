\* A confirmation lands between maybeEscalate's read and its write.
SPECIFICATION Spec
CONSTANTS
    RootCause = "network_error"
    Policies <- ReviewedPolicies
    NoLimit = NoLimit
    MaxRows = 4
    Runs = {r1}
    MaxStarts = 1
    Hooks = {h1}
    PayWays = {"late", "checkout", "link"}
    Reviewers = {}
    MaxCrashes = 0
    r1 = r1
    h1 = h1
PROPERTIES
    EscalationKeepsRecovered
