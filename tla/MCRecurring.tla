---------------------------- MODULE MCRecurring ----------------------------
(***************************************************************************)
(* A subscription or a mandate, and deliveries that are all alike.         *)
(***************************************************************************)
EXTENDS Recurring, TLC

Alike == Permutations(Tasks)
=============================================================================
