\* Deliveries race each other, a run, a reviewer and a restart.
SPECIFICATION Spec
CONSTANTS
    RootCause = "network_error"
    Policies <- ReviewedPolicies
    NoLimit = NoLimit
    MaxRows = 4
    Runs = {r1}
    MaxStarts = 1
    Hooks = {h1, h2}
    PayWays = {"late", "checkout", "link"}
    Reviewers = {v1}
    MaxCrashes = 1
    r1 = r1
    h1 = h1
    h2 = h2
    v1 = v1
INVARIANTS
    TypeOK
    RecoveredHasOutcome
    StrandedByRestarts
PROPERTIES
    ImplementsLedger
    ConfirmedIsKept
