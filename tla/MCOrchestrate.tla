--------------------------- MODULE MCOrchestrate ---------------------------
(***************************************************************************)
(* Instances of Orchestrate for TLC.                                       *)
(***************************************************************************)
EXTENDS Orchestrate

CONSTANTS c1, c2, b1

MCCommits == {c1, c2}
OneCommit == {c1}
MCBytes == {b1}

AllSteps == Steps
AllFaults == FaultKinds
AllBase == BaseKinds
AllFix == FixKinds
OnlyShows == {"shows"}
ShowsOrNot == {"shows", "green"}
OnlyGreen == {"green"}
GreenOrRed == {"green", "red"}
Unobserved == {"none"}
AnySuite == {"none", "passed", "failed"}
=============================================================================
