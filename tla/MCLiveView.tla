----------------------------- MODULE MCLiveView -----------------------------
(***************************************************************************)
(* Instances of LiveView for TLC.                                          *)
(***************************************************************************)
EXTENDS LiveView

\* A verdict that is there when the page opens, and an end that is not.
Shortest == {<<"moves", "end">>}
=============================================================================
