------------------------------ MODULE MCIntake ------------------------------
(***************************************************************************)
(* Two orders of one merchant, an attempt to pay the first of them, and    *)
(* what their cases go through.                                            *)
(***************************************************************************)
EXTENDS Intake, TLC

CONSTANTS x1, o1

MCOrderOf == [x \in {x1} |-> o1]

\* The tasks and the loops of a pool are alike.
Alike == Permutations(Tasks) \cup Permutations(Workers)
=============================================================================
