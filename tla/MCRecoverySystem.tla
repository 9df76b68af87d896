-------------------------- MODULE MCRecoverySystem --------------------------
(***************************************************************************)
(* RecoverySystem with small constants for TLC.                            *)
(***************************************************************************)
EXTENDS RecoverySystem, TLC

\* A merchant who has cut payment retries to one attempt (a Policies-page edit)
\* and leaves every other default: the ceiling is met on the second attempt.
OneRetryPolicies ==
    [DefaultPolicies EXCEPT !["RETRY_PAYMENT"].maxRetries = 1]

\* A merchant who wants to see every retry first, and allows two.
ReviewedPolicies ==
    [DefaultPolicies EXCEPT !["RETRY_PAYMENT"].maxRetries = 2,
                            !["RETRY_PAYMENT"].spaced = FALSE,
                            !["RETRY_PAYMENT"].decision = "REQUIRE_APPROVAL"]

\* The slots for runs are interchangeable, and so are those of the reviewers.
RunSymmetry    == Permutations(Runs)
ReviewSymmetry == Permutations(Runs) \cup Permutations(Reviewers)
=============================================================================
