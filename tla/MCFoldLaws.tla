----------------------------- MODULE MCFoldLaws -----------------------------
(***************************************************************************)
(* Instances of FoldLaws for TLC: the events an arbitrary writer may use.  *)
(***************************************************************************)
EXTENDS FoldLaws

CONSTANTS c1, c2, b1, b2, t1

Start(n) == [type |-> "ATTEMPT_STARTED", seq |-> 0, n |-> n]
Registers(b) == [type |-> "REPRO_REGISTERED", seq |-> 0, bytes |-> b]
Hands(kind, c) == [type |-> "AGENT_HANDED_OVER", seq |-> 0, kind |-> kind, commit |-> c]
Tests(phase, result, c, b) ==
  [type |-> "TEST_RUN", seq |-> 0, phase |-> phase, result |-> result, matched |-> TRUE,
   commit |-> c, bytes |-> b]
Aborts(phase, cause) == [type |-> "VERIFICATION_ABORTED", seq |-> 0, phase |-> phase, cause |-> cause]
Suite(phase, result) == [type |-> "SUITE_RUN", seq |-> 0, phase |-> phase, result |-> result]
Diff == [type |-> "FIX_DIFF_OBSERVED", seq |-> 0]
Ends(reason) == [type |-> "RUN_ENDED", seq |-> 0, reason |-> reason]
Seal(phase, reached) == [type |-> "SANDBOX_SEALED", seq |-> 0, phase |-> phase, reached |-> reached]

Red == Tests("base", "failed", NoCommit, b1)
Green == Tests("fix", "passed", c1, b1)

\* From an attempt that has shown the bug: what can still give or take the credit.
Shown == <<Start(1), Registers(b1), Red>>
FixAlphabet ==
  {Green, Tests("fix", "failed", c1, b1), Tests("fix", "passed", c2, b1),
   Hands("fix", c1), Hands("fix", c2), Hands("repro", c2), Hands("none", c2), Diff,
   Aborts("diff", "none"), Aborts("cleanup", "collection"), Aborts("fix", "none"),
   Aborts("setup", "ceiling"), Ends("error"), Start(2)}

\* From nothing, or from a reproduction not yet run: what can show the bug, and where handovers and registrations belong.
Registered == <<Start(1), Registers(b1)>>
Nothing == <<[type |-> "RUN_REQUESTED", seq |-> 0]>>
BaseAlphabet ==
  {Start(1), Start(2), Registers(b1), Registers(b2), Registers(NoBytes), Red,
   Tests("base", "passed", NoCommit, b1), Tests("base", "killed", NoCommit, b1),
   Tests("base", "failed", NoCommit, b2), [Red EXCEPT !.matched = FALSE],
   Tests("control", "failed", NoCommit, b1),
   Hands("fix", c1), Hands("repro", c1), Hands("none", c1), Aborts("base", "none"),
   Aborts("setup", "environment"), Aborts("setup", "handover")}

\* The agents of a run and the sandboxes they speak in.
SealAlphabet ==
  {Seal("agent", FALSE), Seal("agent", TRUE), Seal("base", FALSE),
   [type |-> "AGENT_MESSAGE", seq |-> 0], [type |-> "AGENT_FINISHED", seq |-> 0]}

\* A test the project had, and the suites that say so, in a first attempt or in a second.
RedTest == Tests("base", "failed", NoCommit, t1)
Contained == <<Start(1), Registers(t1), RedTest>>
SuiteAlphabet ==
  {[Tests("fix", "passed", c1, t1) EXCEPT !.matched = FALSE], Hands("repro", c1), Diff,
   Suite("base", "passed"), Suite("fix", "passed"), Suite("fix", "killed"),
   Start(2), Registers(t1), RedTest, Ends("attempts_exhausted")}

Scenario(opening, alphabet, most) ==
  [opening |-> opening, alphabet |-> alphabet, most |-> most]

MCApplied == {b1}
MCTracked == {t1}

Lawful ==
  {Scenario(Shown, FixAlphabet, 5), Scenario(Nothing, BaseAlphabet, 4),
   Scenario(Registered, BaseAlphabet, 4), Scenario(Nothing, SealAlphabet, 7),
   Scenario(Contained, SuiteAlphabet, 4)}
Accused == {Scenario(Shown, FixAlphabet, 4)}
=============================================================================
