------------------------------ MODULE MCForget ------------------------------
(***************************************************************************)
(* Instances of Forget for TLC.                                            *)
(***************************************************************************)
EXTENDS Forget, TLC

CONSTANTS r1, r2, shared, own, q1, q2, q3

\* Two runs that share one file, and each of the first's two requests.
SharedFile == (r1 :> {shared, own}) @@ (r2 :> {shared})
TwiceAndOnce == (q1 :> r1) @@ (q2 :> r1) @@ (q3 :> r2)
=============================================================================
