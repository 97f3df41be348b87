------------------------------ MODULE MCIntake ------------------------------
(* Instance of Intake: one reinstallation, two walks that may overlap. *)
EXTENDS Intake

CONSTANTS w1, w2

MCIds == {1, 2}
Changes == [plane |-> 4, local |-> 2]
Issues == [plane |-> 1, local |-> 2]
TwoWalks == {w1, w2}
=============================================================================
