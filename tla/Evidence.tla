------------------------------ MODULE Evidence ------------------------------
(***************************************************************************)
(* What a log of a run says, read as a whole: the definitions the verdict  *)
(* is held against.  fold.ts goes through the log once, event by event,    *)
(* with lists and caches of its own; nothing here follows it in that.      *)
(***************************************************************************)
EXTENDS Fold

\* Up to the event that ends the run; nothing after it counts.
Counts(log, i) == \A j \in 1..(i - 1) : log[j].type # "RUN_ENDED"

\* Positions of the events of a type that count.
Positions(log, type) == {i \in DOMAIN log : log[i].type = type /\ Counts(log, i)}

Closed(log) == Positions(log, "RUN_ENDED") # {}

\* The attempt an event belongs to: the one declared last before it.
AttemptAt(log, i) ==
  LET declared == {j \in Positions(log, "ATTEMPT_STARTED") : j < i}
  IN IF declared = {} THEN 0 ELSE log[Latest(declared)].n

Within(log, type, a) == {i \in Positions(log, type) : AttemptAt(log, i) = a}
TestsOf(log, a, phase) == {i \in Within(log, "TEST_RUN", a) : log[i].phase = phase}
Attempts(log) == {log[i].n : i \in Positions(log, "ATTEMPT_STARTED")} \ {0}

\* The bytes attempt a is judged with: those it registered last.
JudgedBytes(log, a) ==
  LET given == Within(log, "REPRO_REGISTERED", a)
  IN IF given = {} THEN NoBytes ELSE log[Latest(given)].bytes

Ran(log, i, a, result) == log[i].result = result /\ log[i].bytes = JudgedBytes(log, a)

\* The world of the base phase of a was not there to the end.
BaseCutShort(log, a) ==
  \E i \in Within(log, "VERIFICATION_ABORTED", a) :
    \/ log[i].phase = "base"
    \/ log[i].phase = "setup" /\ log[i].cause \in {"environment", "ceiling"}

ShownIn(log, a) ==
  /\ JudgedBytes(log, a) # NoBytes
  /\ TestsOf(log, a, "base") # {}
  /\ \A i \in TestsOf(log, a, "base") : Ran(log, i, a, "failed") /\ log[i].matched
  /\ ~BaseCutShort(log, a)

\* The engine itself said that it got past the fix series of a.
SeriesClosed(log, a) ==
  \/ Within(log, "FIX_DIFF_OBSERVED", a) # {}
  \/ \E i \in Within(log, "VERIFICATION_ABORTED", a) :
       log[i].cause = "none" /\ log[i].phase \in {"diff", "cleanup"}

FixedIn(log, a) ==
  /\ SeriesClosed(log, a)
  /\ TestsOf(log, a, "fix") # {}
  /\ \A i \in TestsOf(log, a, "fix") : Ran(log, i, a, "passed")
  /\ ~\E i \in Within(log, "VERIFICATION_ABORTED", a) : log[i].phase = "fix"
  /\ \A h \in Within(log, "AGENT_HANDED_OVER", a) \cup Within(log, "AGENT_HANDED_OVER", 0) :
       log[h].kind # "repro" => \A i \in TestsOf(log, a, "fix") : log[i].commit = log[h].commit

\* An agent wrote the reproduction, or may have: a control is only run on an agent's.
AgentWrote(log) ==
  \/ \E i \in Positions(log, "AGENT_HANDED_OVER") : log[i].kind # "fix"
  \/ \E i \in Positions(log, "TEST_RUN") : log[i].phase = "control"
=============================================================================
