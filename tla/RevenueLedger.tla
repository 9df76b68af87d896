--------------------------- MODULE RevenueLedger ---------------------------
(***************************************************************************)
(* What the product promises about one case, whatever runs on it:          *)
(* architecture.md section 7, "recovered is a webhook fact, never an agent *)
(* opinion".  The provider confirms the money, and only then is a recovery *)
(* recorded, once and for good.                                            *)
(***************************************************************************)
VARIABLES
    confirmed,   \* the provider holds the customer's money
    recorded     \* the case has its RecoveryOutcome

Init == confirmed = FALSE /\ recorded = FALSE

Confirm == /\ ~confirmed
           /\ confirmed' = TRUE
           /\ UNCHANGED recorded

Record == /\ confirmed
          /\ ~recorded
          /\ recorded' = TRUE
          /\ UNCHANGED confirmed

Next == Confirm \/ Record

Spec == Init /\ [][Next]_<<confirmed, recorded>>
=============================================================================
