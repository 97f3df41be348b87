----------------------------- MODULE MCSandbox -----------------------------
(***************************************************************************)
(* Instance of Sandbox for TLC: a deployed worker's phases of any kind,    *)
(* and two phases that judge where two workers share a ledger.             *)
(***************************************************************************)
EXTENDS Sandbox, TLC

CONSTANT c1

OneCommand == {c1}
MCBounds == ("fly" :> [kinds |-> PhaseKinds, phases |-> 1, faults |-> 1])
              @@ ("shared" :> [kinds |-> {"judge"}, phases |-> 2, faults |-> 1])
=============================================================================
