\* Two runs of one case race, with a confirmation under way.
SPECIFICATION Spec
CONSTANTS
    RootCause = "network_error"
    Policies <- OneRetryPolicies
    NoLimit = NoLimit
    MaxRows = 6
    Runs = {r1, r2}
    MaxStarts = 2
    Hooks = {h1}
    PayWays = {"link"}
    Reviewers = {}
    MaxCrashes = 0
    r1 = r1
    r2 = r2
    h1 = h1
SYMMETRY RunSymmetry
INVARIANTS
    CeilingOverrunBounded
    DuplicatesBounded
    ExhaustedIsJustified
