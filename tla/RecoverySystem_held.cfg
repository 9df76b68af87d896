\* The interval has not run when the sweep looks.
SPECIFICATION FairSpec
CONSTANTS
    RootCause = "network_error"
    Policies <- DefaultPolicies
    NoLimit = NoLimit
    MaxRows = 4
    Runs = {r1}
    MaxStarts = 1
    Hooks = {}
    PayWays = {}
    Reviewers = {}
    MaxCrashes = 0
    r1 = r1
PROPERTIES
    HeldActionIsRechecked
