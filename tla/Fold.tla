-------------------------------- MODULE Fold --------------------------------
(***************************************************************************)
(* The fold: the only place where the events of a run are interpreted      *)
(* (src/src/fold.ts, ADR-0001, ADR-0004, ADR-0009).                        *)
(*                                                                         *)
(* An event is a record with a `type`, a `seq` and the fields the verdict  *)
(* depends on.  A commit and the bytes of a reproduction are opaque        *)
(* values; an exit code is "passed", "failed" or "killed" (a signal);      *)
(* an absent `cause` is "none".  Texts, hashes of output, durations, the   *)
(* transcript and the display-only fields of RunState are left out.        *)
(***************************************************************************)
EXTENDS Integers, Sequences, FiniteSets

CONSTANTS
  NoCommit,   \* RunState.handedOver is null
  NoBytes     \* a registration without files, or no registration at all

InitialState ==
  [lastSeq |-> 0, status |-> "requested", attempt |-> 0,
   runs |-> <<>>, suites |-> <<>>, regression |-> "unmeasured",
   registrations |-> <<>>, handovers |-> <<>>, aborts |-> <<>>,
   completed |-> {}, handedOver |-> NoCommit, byAgent |-> FALSE,
   credited |-> 0, shown |-> {}, pr |-> FALSE, ended |-> "no", afterEnd |-> 0]
-----------------------------------------------------------------------------
(***************************************************************************)
(* The verdict, from the lists the state keeps.                            *)
(***************************************************************************)
Latest(positions) == CHOOSE i \in positions : \A j \in positions : j <= i
Earliest(positions) == CHOOSE i \in positions : \A j \in positions : i <= j

\* Positions of the runs of one attempt in one phase.
RunsOf(runs, a, phase) == {i \in DOMAIN runs : runs[i].attempt = a /\ runs[i].phase = phase}

\* `new Map(registrations...)`: an attempt is judged against its last registration.
RegisteredBytes(regs, a) ==
  LET given == {i \in DOMAIN regs : regs[i].attempt = a}
  IN IF given = {} THEN NoBytes ELSE regs[Latest(given)].bytes

Intact(run, bytes) == run.bytes = bytes

\* Aborts that mean the world of the base phase was not there to the end.
Truncated(aborts) ==
  {aborts[i].attempt : i \in {j \in DOMAIN aborts :
     \/ aborts[j].phase = "base"
     \/ aborts[j].phase = "setup" /\ aborts[j].cause \in {"environment", "ceiling"}}}

Qualifies(st, run) ==
  LET bytes == RegisteredBytes(st.registrations, run.attempt) IN
  /\ run.attempt # 0
  /\ run.attempt \notin Truncated(st.aborts)
  /\ bytes # NoBytes
  /\ run.result = "failed" /\ run.matched
  /\ Intact(run, bytes)

\* Variant: one red draw is enough.
ShownOnce(st) ==
  {st.runs[i].attempt : i \in {j \in DOMAIN st.runs :
     st.runs[j].phase = "base" /\ Qualifies(st, st.runs[j])}}

\* The attempts all of whose base runs showed the bug.
Demonstrated(st) ==
  {a \in {st.runs[i].attempt : i \in DOMAIN st.runs} :
     /\ RunsOf(st.runs, a, "base") # {}
     /\ \A i \in RunsOf(st.runs, a, "base") : Qualifies(st, st.runs[i])}

CutShort(aborts) ==
  {aborts[i].attempt : i \in {j \in DOMAIN aborts : aborts[j].phase = "fix"}}

\* The fix half: a completed series, on the commit that was handed over, green
\* every time.
Vouched(st, a) ==
  LET fixes == RunsOf(st.runs, a, "fix") IN
  /\ a \notin CutShort(st.aborts)
  /\ a \in st.completed
  /\ fixes # {}
  /\ \A h \in DOMAIN st.handovers :
       st.handovers[h].kind = "fix" /\ st.handovers[h].attempt \in {a, 0}
       => \A i \in fixes : st.runs[i].commit = st.handovers[h].commit
  /\ \A i \in fixes :
       /\ st.runs[i].result = "passed"
       /\ Intact(st.runs[i], RegisteredBytes(st.registrations, a))

\* `demonstrated(...).find(...)`: the first base run in the log whose attempt earned it.
ReproducedAttempt(st) ==
  LET earned == {i \in DOMAIN st.runs :
                   /\ st.runs[i].phase = "base"
                   /\ st.runs[i].attempt \in Demonstrated(st)
                   /\ Vouched(st, st.runs[i].attempt)}
  IN IF earned = {} THEN 0
     ELSE st.runs[Earliest(earned)].attempt

Credited(st) == [st EXCEPT !.credited = ReproducedAttempt(st), !.shown = Demonstrated(st)]

RegressionOf(suites, a) ==
  LET of(phase) == {i \in DOMAIN suites : suites[i].phase = phase /\ suites[i].attempt = a}
      green(s) == suites[Latest(s)].result = "passed"
  IN CASE of("base") = {} \/ of("fix") = {} -> "unmeasured"
       [] OTHER -> IF ~green(of("base")) THEN "already_red"
                   ELSE IF green(of("fix")) THEN "clean" ELSE "broken"

\* `reproducedAttempt ?? currentAttempt`.
Regressed(st) ==
  [st EXCEPT !.regression =
     RegressionOf(st.suites, IF st.credited # 0 THEN st.credited ELSE st.attempt)]
-----------------------------------------------------------------------------
(***************************************************************************)
(* apply(), one operator per event that is more than recorded.             *)
(***************************************************************************)
Register(st, e) ==
  Credited([st EXCEPT !.registrations = Append(@, [attempt |-> st.attempt, bytes |-> e.bytes])])

\* What a handover leaves in the lists; one of no known kind counts as the fix's.
HandedOver(st, e) ==
  LET kind == IF e.kind = "repro" THEN "repro" ELSE "fix" IN
  [st EXCEPT
     !.handedOver = IF kind = "repro" THEN @ ELSE e.commit,
     !.handovers = Append(@, [attempt |-> st.attempt, kind |-> kind, commit |-> e.commit])]

\* Anything but an explicit `fix` withholds Tier 1.
Authored(st, e) == st.byAgent \/ e.kind # "fix"

\* Variant: a handover that is recorded without judging again.
HandsOverSilently(st, e) == [HandedOver(st, e) EXCEPT !.byAgent = Authored(st, e)]

HandOver(st, e) == Credited([HandedOver(st, e) EXCEPT !.byAgent = Authored(st, e)])

TestRun(st, e) ==
  Credited([st EXCEPT
    !.runs = Append(@, [attempt |-> st.attempt, phase |-> e.phase, commit |-> e.commit,
                        result |-> e.result, matched |-> e.matched, bytes |-> e.bytes]),
    !.byAgent = @ \/ e.phase = "control"])

SuiteRun(st, e) ==
  Regressed([st EXCEPT
    !.suites = Append(@, [attempt |-> st.attempt, phase |-> e.phase, result |-> e.result])])

DiffObserved(st, e) == Regressed(Credited([st EXCEPT !.completed = @ \cup {st.attempt}]))

\* Variant: whoever says `cleanup` vouches for the fix series.
WitnessedByAnyone(st, e) == e.phase \in {"diff", "cleanup"}

\* Only verify() itself passes through `diff` and `cleanup` after the series.
WitnessesCompletion(st, e) == e.cause = "none" /\ e.phase \in {"diff", "cleanup"}

Abort(st, e) ==
  Credited([st EXCEPT
    !.aborts = Append(@, [attempt |-> st.attempt, phase |-> e.phase, cause |-> e.cause]),
    !.completed = IF WitnessesCompletion(st, e) THEN @ \cup {st.attempt} ELSE @])

\* The reason is believed in one case only, `error`.
End(st, e) ==
  [st EXCEPT
     !.ended = e.reason,
     !.status =
       CASE st.pr -> "pr_opened"
         [] ~st.pr /\ e.reason = "error" -> "errored"
         [] ~st.pr /\ e.reason = "blocked"
              /\ (\E i \in DOMAIN st.aborts : st.aborts[i].cause = "missing_env")
              /\ st.runs = <<>> /\ st.registrations = <<>> -> "blocked"
         [] OTHER -> "unresolved"]

Interpret(st, e) ==
  CASE e.type = "RUN_REQUESTED"        -> [st EXCEPT !.status = "requested"]
    [] e.type = "REPRO_REGISTERED"     -> Register(st, e)
    [] e.type = "AGENT_HANDED_OVER"    -> HandOver(st, e)
    [] e.type = "SANDBOX_CREATED"      -> [st EXCEPT !.status = "sandbox_ready"]
    [] e.type = "ATTEMPT_STARTED"      -> [st EXCEPT !.status = "attempting", !.attempt = e.n]
    [] e.type = "TEST_RUN"             -> TestRun(st, e)
    [] e.type = "SUITE_RUN"            -> SuiteRun(st, e)
    [] e.type = "FIX_DIFF_OBSERVED"    -> DiffObserved(st, e)
    [] e.type = "VERIFICATION_ABORTED" -> Abort(st, e)
    [] e.type = "RUN_ENDED"            -> End(st, e)
    [] e.type = "PR_OPENED"            -> [st EXCEPT !.status = "pr_opened", !.pr = TRUE]
    [] OTHER                           -> st

\* A closed log takes no further event; it is counted and nothing else.
Apply(st, e) ==
  LET next == [st EXCEPT !.lastSeq = e.seq] IN
  IF st.ended # "no" THEN [next EXCEPT !.afterEnd = @ + 1] ELSE Interpret(next, e)

\* fold() throws on a stream with a gap or a collision.
WellNumbered(log) == \A i \in DOMAIN log : log[i].seq = i

\* The state before an event is bound to a value: TLC would otherwise compute it
\* again wherever Apply reads it.
States(log) ==
  LET f[i \in 0..Len(log)] ==
        IF i = 0 THEN InitialState
        ELSE CHOOSE next \in {Apply(st, log[i]) : st \in {f[i - 1]}} : TRUE
  IN f

FoldOf(log) == States(log)[Len(log)]
-----------------------------------------------------------------------------
(***************************************************************************)
(* sealedBeforeEveryAgent: one window per agent, closed by AGENT_FINISHED. *)
(***************************************************************************)
OpenWindow == [sealed |-> FALSE, spoke |-> FALSE, any |-> FALSE, broken |-> FALSE]

\* Variant: the window stays open when its agent is finished.
WindowNeverCloses(w, e) ==
  CASE e.type = "SANDBOX_SEALED" /\ e.phase = "agent" ->
         IF w.spoke \/ e.reached THEN [w EXCEPT !.any = TRUE, !.broken = TRUE]
         ELSE [w EXCEPT !.any = TRUE, !.sealed = TRUE]
    [] e.type = "AGENT_MESSAGE" -> [w EXCEPT !.spoke = TRUE]
    [] OTHER -> w

WindowStep(w, e) ==
  CASE e.type = "SANDBOX_SEALED" /\ e.phase = "agent" ->
         IF w.spoke \/ e.reached THEN [w EXCEPT !.any = TRUE, !.broken = TRUE]
         ELSE [w EXCEPT !.any = TRUE, !.sealed = TRUE]
    [] e.type = "AGENT_MESSAGE" -> [w EXCEPT !.spoke = TRUE]
    [] e.type = "AGENT_FINISHED" ->
         [w EXCEPT !.sealed = FALSE, !.spoke = FALSE, !.broken = @ \/ (w.spoke /\ ~w.sealed)]
    [] OTHER -> w

Windows(log) ==
  LET f[i \in 0..Len(log)] == IF i = 0 THEN OpenWindow ELSE WindowStep(f[i - 1], log[i])
  IN f

SealedBeforeEveryAgent(log) ==
  LET last == Windows(log)[Len(log)]
  IN last.any /\ ~(last.broken \/ (last.spoke /\ ~last.sealed))
=============================================================================
