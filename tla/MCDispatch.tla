----------------------------- MODULE MCDispatch -----------------------------
(***************************************************************************)
(* Instances of Dispatch for TLC.                                          *)
(***************************************************************************)
EXTENDS Dispatch, TLC

CONSTANTS r1, r2, m1, m2, t1, t2

\* Two machines, each paired with a token of its own.
OwnTokens == (m1 :> t1) @@ (m2 :> t2)

\* t1 is the operator's global worker; t2 is confined to r1's installation.
AllServed == [t \in Runners |-> Runs]
Confined == (t1 :> Runs) @@ (t2 :> {r1})

OneRun == r1 :> "run"
DraftAndRun == (r1 :> "draft") @@ (r2 :> "run")
=============================================================================
