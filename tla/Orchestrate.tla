---------------------------- MODULE Orchestrate ----------------------------
(***************************************************************************)
(* One run, from RUN_REQUESTED to the answer on the issue: the attempt     *)
(* loop of src/src/orchestrate.ts, the phase containers it starts          *)
(* (src/src/verify.ts inside src/src/runner.ts, on either executor), and   *)
(* src/src/run.ts around them, which opens the pull request.               *)
(*                                                                         *)
(* A container writes its events only when it is over, so what it observes *)
(* is kept in `stream` until it exits; a container that is stopped while   *)
(* it writes leaves a prefix.  orchestrate() hands its events over when it *)
(* returns, and run.ts then appends them one by one.                       *)
(*                                                                         *)
(* What a container does is chosen: each execution of the reproduction has *)
(* any result, each step of verify() may fail to observe, and the things   *)
(* that go wrong around it (`Faults`) may go wrong.  The transcript, seals *)
(* and ENV_READY, which no verdict reads, are left to FoldLaws; the sham   *)
(* control's two draws are one event.                                      *)
(***************************************************************************)
EXTENDS Fold

CONSTANTS
  Commits,      \* commits an agent may author
  Bytes,        \* what a registered reproduction may be made of
  MaxAttempts,  \* plan.maxAttempts
  BaseDraws,    \* baseRuns + 1
  FixDraws,     \* flakeRuns + 1
  BaseResults,  \* results of a base draw to explore, a subset of BaseKinds
  FixResults,   \* results of a fix draw to explore, a subset of FixKinds
  SuiteResults, \* results of the project's suite to explore; "none" is unobserved
  Hangs,        \* steps of verify() that may fail to observe
  Faults,       \* faults of the infrastructure to explore
  MaxFaults,    \* bound: faults in a behaviour
  NoEnd         \* no RUN_ENDED is held back

BaseKinds == {"shows", "green", "other", "killed", "tampered"}
FixKinds == {"green", "red", "killed", "tampered"}
Steps == {"setup", "apply", "draw", "suite", "switch", "diff", "cleanup"}
FaultKinds == {"build", "envdown", "unsealed", "ceiling", "crash", "flush", "cut",
               "collect", "lost", "append", "push"}

\* How a run may end, and the event that says so.
Reasons == {"pr_opened", "not_reproduced", "attempts_exhausted", "blocked", "error"}
Ends == [type : {"RUN_ENDED"}, seq : Nat, reason : Reasons]

ASSUME OrchestrateAssumption ==
  /\ NoCommit \notin Commits
  /\ NoBytes \notin Bytes
  /\ NoEnd \notin Ends
  /\ MaxAttempts \in 1..10
  /\ BaseDraws \in Nat \ {0}
  /\ FixDraws \in Nat \ {0}
  /\ BaseResults \subseteq BaseKinds
  /\ FixResults \subseteq FixKinds
  /\ SuiteResults \subseteq {"none", "passed", "failed"}
  /\ Hangs \subseteq Steps
  /\ Faults \subseteq FaultKinds
  /\ MaxFaults \in Nat

VARIABLES
  \* orchestrate()
  pc,        \* where the run is
  n,         \* the attempt
  log,       \* `events`
  afterSeq,  \* the last seq allocated
  ended,     \* the RUN_ENDED that will close the log, or NoEnd
  fixRef,    \* the commit the fix phase will judge
  repro,     \* resolvedRepro
  \* the container that is running
  step,      \* where verify() is
  draws,     \* executions of the reproduction so far
  stream,    \* what it has observed
  \* run.ts and the world
  seen,      \* the plane's log, folded
  sent,      \* how many of `log` are in it
  seq,       \* run.ts's own counter
  pull,      \* the commit of the pull request on GitHub, or NoCommit
  \* the bound on failures
  faults

loopVars == <<n, fixRef, repro, ended>>
boxVars == <<step, draws, stream>>
logVars == <<log, afterSeq>>
planeVars == <<seen, sent, seq, pull>>
vars == <<pc, loopVars, logVars, boxVars, planeVars, faults>>

\* An infrastructure fault is spent.
Fault(kind) ==
  /\ kind \in Faults
  /\ faults < MaxFaults
  /\ faults' = faults + 1
-----------------------------------------------------------------------------
(***************************************************************************)
(* Events and their numbers.                                               *)
(***************************************************************************)
At(from, e) == [e EXCEPT !.seq = from]

Event(type) == [type |-> type, seq |-> 0]
AbortEvent(phase, cause) ==
  [type |-> "VERIFICATION_ABORTED", seq |-> 0, phase |-> phase, cause |-> cause]
StartEvent(k) == [type |-> "ATTEMPT_STARTED", seq |-> 0, n |-> k]
RegisterEvent(b) == [type |-> "REPRO_REGISTERED", seq |-> 0, bytes |-> b]
HandOverEvent(kind, c) ==
  [type |-> "AGENT_HANDED_OVER", seq |-> 0, kind |-> kind, commit |-> c]
SuiteEvent(phase, result) ==
  [type |-> "SUITE_RUN", seq |-> 0, phase |-> phase, result |-> result]
EndEvent(reason) == [type |-> "RUN_ENDED", seq |-> 0, reason |-> reason]
TestEvent(phase, c, result, matched, b) ==
  [type |-> "TEST_RUN", seq |-> 0, phase |-> phase, commit |-> c, result |-> result,
   matched |-> matched, bytes |-> b]

\* A container allocates contiguously from the seq it was given.
Numbered(events, from) == [i \in DOMAIN events |-> At(from + i, events[i])]

\* events.push(...) with ++afterSeq, once per event.
Push(events) ==
  /\ log' = log \o Numbered(events, afterSeq)
  /\ afterSeq' = afterSeq + Len(events)

\* events.push(...) and then a RUN_ENDED that is allocated and held back.
PushAndEnd(events, reason) ==
  /\ log' = log \o Numbered(events, afterSeq)
  /\ ended' = At(afterSeq + Len(events) + 1, EndEvent(reason))
  /\ afterSeq' = afterSeq + Len(events) + 1

\* A partial stream is a finding; a bug or a silent container is our fault.
EndedBy(exit) == IF exit = "partial" THEN "attempts_exhausted" ELSE "error"
-----------------------------------------------------------------------------
(***************************************************************************)
(* verify(), in the base container and in the fix container.               *)
(***************************************************************************)
InBox == pc \in {"base", "fix"}

\* progress.phase.  A fix-only container is in phase `base` until its first
\* copy of the reproduction is in place.
Progress(s) ==
  CASE s = "setup" -> "setup"
    [] s = "apply" -> "base"
    [] s \in {"draw", "suite", "control"} -> pc
    [] s = "switch" -> "fix"
    [] s = "diff" -> "diff"
    [] s = "cleanup" -> "cleanup"

Observe(e, next) ==
  /\ stream' = Append(stream, e)
  /\ step' = next
  /\ UNCHANGED <<pc, loopVars, logVars, draws, planeVars, faults>>

\* Everything above `progress.phase = 'base'` succeeded.
SetUp ==
  /\ InBox /\ step = "setup"
  /\ step' = "apply"
  /\ UNCHANGED <<pc, loopVars, logVars, draws, stream, planeVars, faults>>

\* The reproduction is in place; only the base container registers it.
ApplyRepro ==
  /\ InBox /\ step = "apply"
  /\ IF pc = "base"
       THEN Observe(RegisterEvent(repro), "draw")
       ELSE /\ step' = "switch"
            /\ UNCHANGED <<pc, loopVars, logVars, draws, stream, planeVars, faults>>

\* The fix commit is checked out, and the registered bytes put over it.
Switch ==
  /\ pc = "fix" /\ step = "switch"
  /\ step' = "draw"
  /\ UNCHANGED <<pc, loopVars, logVars, draws, stream, planeVars, faults>>

\* run(): an exit status, or a signal from outside.  What never started, overflowed or ran
\* into our own clock is no result.
Execution(kind, exit) == IF kind = "killed" THEN "killed" ELSE exit

BaseTest(kind) ==
  TestEvent("base", NoCommit,
            Execution(kind, IF kind = "green" THEN "passed" ELSE "failed"),
            kind # "other",
            IF kind = "tampered" THEN NoBytes ELSE repro)
FixTest(kind) ==
  TestEvent("fix", fixRef,
            Execution(kind, IF kind = "red" THEN "failed" ELSE "passed"),
            FALSE,
            IF kind = "tampered" THEN NoBytes ELSE repro)

\* One execution of the reproduction.
Draw ==
  /\ InBox /\ step = "draw"
  /\ LET last == draws + 1 = IF pc = "base" THEN BaseDraws ELSE FixDraws IN
     /\ \E e \in IF pc = "base" THEN {BaseTest(k) : k \in BaseResults}
                 ELSE {FixTest(k) : k \in FixResults} :
          stream' = Append(stream, e)
     /\ draws' = draws + 1
     /\ step' = IF last THEN "suite" ELSE "draw"
  /\ UNCHANGED <<pc, loopVars, logVars, planeVars, faults>>

AllRed == \A i \in DOMAIN stream :
            stream[i].type = "TEST_RUN" => stream[i].result = "failed"

\* runSuite: recorded when it was observed, silence when it was not.
RunSuite ==
  /\ InBox /\ step = "suite"
  /\ \E r \in SuiteResults :
       stream' = IF r = "none" THEN stream ELSE Append(stream, SuiteEvent(pc, r))
  /\ step' = CASE pc = "fix" -> "diff"
               [] pc = "base" /\ AllRed -> "control"
               [] OTHER -> "cleanup"
  /\ UNCHANGED <<pc, loopVars, logVars, draws, planeVars, faults>>

\* The sham fix: advisory, so nothing in it can end the phase.
Control ==
  /\ pc = "base" /\ step = "control"
  /\ Observe(TestEvent("control", NoCommit, "failed", FALSE, NoBytes), "cleanup")

ObserveDiff ==
  /\ pc = "fix" /\ step = "diff"
  /\ Observe(Event("FIX_DIFF_OBSERVED"), "cleanup")
-----------------------------------------------------------------------------
(***************************************************************************)
(* How a phase container ends, and what orchestrate() makes of it.         *)
(***************************************************************************)
ClearBox == step' = "setup" /\ draws' = 0 /\ stream' = <<>>

\* The host could not copy the artifacts; it says so after the container's events.
Collected == {<<>>, <<AbortEvent("cleanup", "collection")>>}

\* Leaving with exit 0 leads to the gate, or past the fix; any other exit ends
\* the attempt.
Exits(events, exit) ==
  /\ IF exit = "complete"
       THEN Push(events) /\ pc' = (IF pc = "base" THEN "gate" ELSE "closing") /\ UNCHANGED ended
       ELSE PushAndEnd(events, EndedBy(exit)) /\ pc' = "closing"
  /\ ClearBox
  /\ UNCHANGED <<n, fixRef, repro, planeVars>>

Completes ==
  /\ InBox /\ step = "cleanup"
  /\ \E extra \in Collected :
       /\ IF extra = <<>> THEN UNCHANGED faults ELSE Fault("collect")
       /\ Exits(stream \o extra, "complete")

\* What was recorded of the step that failed: the suite's result is, before the
\* reproduction it moved away is put back.
Recorded ==
  {<<>>} \cup {<<SuiteEvent(pc, r)>> : r \in IF step = "suite" THEN SuiteResults \ {"none"} ELSE {}}

\* ObservationFailed: the stream is closed by an abort that says where.
Fails ==
  /\ InBox /\ step \in Hangs
  /\ \E e \in Recorded :
       Exits(stream \o e \o <<AbortEvent(Progress(step), "none")>>, "partial")
  /\ UNCHANGED faults

\* The microVM still reached the network: it never receives the source.
Refused ==
  /\ InBox /\ step = "setup"
  /\ Fault("unsealed")
  /\ Exits(<<AbortEvent("setup", "environment")>>, "bug")

\* A bug of the engine, or evidence that could not be flushed: no event leaves.
Dies ==
  /\ InBox
  /\ Fault("crash") \/ Fault("flush")
  /\ Exits(<<>>, "silent")

\* Stopped from outside while it writes: by the host's wall clock, or, on the
\* microVM, by a ceiling that is recorded.
Stopped ==
  /\ InBox
  /\ \E k \in 0..Len(stream) :
       \/ Fault("cut") /\ Exits(SubSeq(stream, 1, k), "killed")
       \/ Fault("ceiling")
            /\ Exits(Append(SubSeq(stream, 1, k), AbortEvent("setup", "ceiling")), "killed")
-----------------------------------------------------------------------------
(***************************************************************************)
(* The agents: agentContainer, accept, registerRepro.                      *)
(***************************************************************************)
InAgent == pc \in {"reproducing", "fixing"}
Kind == IF pc = "reproducing" THEN "repro" ELSE "fix"

\* A commit of its own, with a manifest the engine can read if it is the
\* reproduction's.
HandsOver ==
  /\ InAgent
  /\ \E c \in Commits, extra \in Collected :
       /\ IF extra = <<>> THEN UNCHANGED faults ELSE Fault("collect")
       /\ Push(Append(extra, HandOverEvent(Kind, c)))
       /\ IF pc = "reproducing"
            THEN /\ repro' \in Bytes
                 /\ pc' = "base"
                 /\ UNCHANGED fixRef
            ELSE /\ fixRef' = c
                 /\ pc' = "fix"
                 /\ UNCHANGED repro
  /\ ClearBox
  /\ UNCHANGED <<n, ended, planeVars>>

\* A commit whose manifest cannot be read.
BadManifest ==
  /\ pc = "reproducing"
  /\ \E c \in Commits :
       PushAndEnd(<<HandOverEvent("repro", c), AbortEvent("setup", "handover")>>,
                  "attempts_exhausted")
  /\ pc' = "closing"
  /\ UNCHANGED <<n, fixRef, repro, boxVars, planeVars, faults>>

\* The container says that it could not bundle a commit, or says nothing.
Reported == {<<>>, <<AbortEvent("setup", "handover")>>}

\* No commit, one the repository had, or one that changes nothing.
HandsNothingOver ==
  /\ InAgent
  /\ \E report \in Reported :
       PushAndEnd(Append(report, AbortEvent("setup", "handover")), "attempts_exhausted")
  /\ pc' = "closing"
  /\ UNCHANGED <<n, fixRef, repro, boxVars, planeVars, faults>>

\* The recipe did not boot, so the loop never started; the container exits 0.
\* Only the loop over the steps looks at envReport: the fix agent's comes back
\* here as one that handed nothing over.
EnvironmentDown ==
  /\ InAgent
  /\ Fault("envdown")
  /\ \E report \in Reported :
       LET said == <<AbortEvent("setup", "environment")>> \o report IN
       IF pc = "reproducing"
         THEN PushAndEnd(said, "error")
         ELSE PushAndEnd(Append(said, AbortEvent("setup", "handover")), "attempts_exhausted")
  /\ pc' = "closing"
  /\ UNCHANGED <<n, fixRef, repro, boxVars, planeVars>>

\* The seal did not take, the session ended, or the container died.
AgentContainerFails ==
  /\ InAgent
  /\ \E events \in {<<AbortEvent("setup", "environment")>>,
                    <<AbortEvent("setup", "ceiling")>>, <<>>} :
       /\ Fault(CASE events = <<>> -> "crash"
                  [] events # <<>> /\ events[1].cause = "environment" -> "unsealed"
                  [] OTHER -> "ceiling")
       /\ PushAndEnd(events, "error")
  /\ pc' = "closing"
  /\ UNCHANGED <<n, fixRef, repro, boxVars, planeVars>>
-----------------------------------------------------------------------------
(***************************************************************************)
(* The attempt loop.                                                       *)
(***************************************************************************)
NextAttempt ==
  /\ n' = n + 1
  /\ fixRef' = NoCommit
  /\ repro' = NoBytes

StartAttempt ==
  /\ pc = "attempt"
  /\ NextAttempt
  /\ Push(<<StartEvent(n + 1)>>)
  /\ ended' = NoEnd
  /\ pc' = "reproducing"
  /\ UNCHANGED <<boxVars, planeVars, faults>>

\* The environment was built once, before the first attempt, and it failed.
BuildFailed ==
  /\ pc = "attempt" /\ n = 0
  /\ Fault("build")
  /\ NextAttempt
  /\ PushAndEnd(<<StartEvent(1), AbortEvent("setup", "environment")>>, "error")
  /\ pc' = "over"
  /\ UNCHANGED <<boxVars, planeVars>>

\* Variant: the gate of the run instead of the gate of the attempt.
AnyAttemptOpensTheGate(a) == FoldOf(log).shown # {}

\* fold(events).shownAttempts.includes(n).
GateOpen(a) == a \in FoldOf(log).shown

Gate ==
  /\ pc = "gate"
  /\ IF GateOpen(n)
       THEN pc' = "fixing" /\ UNCHANGED <<logVars, ended>>
       ELSE pc' = "closing" /\ PushAndEnd(<<>>, "not_reproduced")
  /\ UNCHANGED <<n, fixRef, repro, boxVars, planeVars, faults>>

\* Variant: an attempt that ended keeps its number.
KeepsTheSeq(dropped) == UNCHANGED afterSeq

\* `afterSeq = events.at(-1)?.seq`: the seq of a RUN_ENDED that is dropped is given back.
GiveBackSeq(dropped) == afterSeq' = log[Len(log)].seq

\* Variant: the last attempt is not told from the others.
NeverExhausts(a) == FALSE

LastOne(a) == a = MaxAttempts

\* Variant: the loop counts from zero.
OneMore(a) == a > MaxAttempts

NoneLeft(a) == a = MaxAttempts

\* The end of the loop's body: reproduced, out of attempts, our fault, or again.
CloseAttempt ==
  /\ pc = "closing"
  /\ LET reproduced == FoldOf(log).credited # 0
         exhausted == ~reproduced /\ LastOne(n) /\ ended = NoEnd
     IN IF exhausted
          THEN /\ PushAndEnd(<<>>, "attempts_exhausted")
               /\ pc' = "over"
          ELSE IF reproduced \/ NoneLeft(n) \/ (ended # NoEnd /\ ended.reason = "error")
                 THEN pc' = "over" /\ UNCHANGED <<logVars, ended>>
                 ELSE /\ pc' = "attempt"
                      /\ ended' = NoEnd
                      /\ GiveBackSeq(ended)
                      /\ UNCHANGED log
  /\ UNCHANGED <<n, fixRef, repro, boxVars, planeVars, faults>>

\* `if (ended) events.push(ended)`, and orchestrate() returns.
Return ==
  /\ pc = "over"
  /\ log' = IF ended = NoEnd THEN log ELSE Append(log, ended)
  /\ pc' = "shipping"
  /\ UNCHANGED <<loopVars, afterSeq, boxVars, planeVars, faults>>
-----------------------------------------------------------------------------
(***************************************************************************)
(* runFromIssue.                                                           *)
(***************************************************************************)
\* emit(): renumbered, folded by the reader of the log.
Emit(e) ==
  /\ seen' = Apply(seen, At(seq + 1, e))
  /\ seq' = seq + 1

Request ==
  /\ pc = "requested"
  /\ Emit(Event("RUN_REQUESTED"))
  /\ pc' = "attempt"
  /\ UNCHANGED <<loopVars, logVars, boxVars, sent, pull, faults>>

\* A variable the recipe requires has no value: nothing is started.
Block ==
  /\ pc = "requested"
  /\ Emit(Event("RUN_REQUESTED"))
  /\ Push(<<StartEvent(1), AbortEvent("setup", "missing_env"), EndEvent("blocked")>>)
  /\ pc' = "shipping"
  /\ UNCHANGED <<loopVars, boxVars, sent, pull, faults>>

Ship ==
  /\ pc = "shipping" /\ sent < Len(log)
  /\ Emit(log[sent + 1])
  /\ sent' = sent + 1
  /\ UNCHANGED <<pc, loopVars, logVars, boxVars, pull, faults>>

\* Variant: a pull request for whatever was shown and handed over.
OffersWhatWasShown(st) == st.shown # {} /\ st.handedOver # NoCommit

\* `state.reproduced && state.handedOver`.
Offers(st) == st.credited # 0 /\ st.handedOver # NoCommit

\* Variant: only a run that has ended is decided.
DecidesOnceEnded == pc = "shipping" /\ sent = Len(log) /\ seen.ended # "no"

Shipped == pc = "shipping" /\ sent = Len(log)

Decide ==
  /\ Shipped
  /\ pc' = IF Offers(seen) THEN "pushing" ELSE "answered"
  /\ UNCHANGED <<loopVars, logVars, boxVars, planeVars, faults>>

\* One branch, of the commit under judgement.
PushBranch ==
  /\ pc = "pushing"
  /\ pc' = "opening"
  /\ UNCHANGED <<loopVars, logVars, boxVars, planeVars, faults>>

OpenPullRequest ==
  /\ pc = "opening"
  /\ pull' = seen.handedOver
  /\ pc' = "recording"
  /\ UNCHANGED <<loopVars, logVars, boxVars, seen, sent, seq, faults>>

RecordPullRequest ==
  /\ pc = "recording"
  /\ Emit(Event("PR_OPENED"))
  /\ pc' = "ending"
  /\ UNCHANGED <<loopVars, logVars, boxVars, sent, pull, faults>>

EndWithPullRequest ==
  /\ pc = "ending"
  /\ Emit(EndEvent("pr_opened"))
  /\ pc' = "answered"
  /\ UNCHANGED <<loopVars, logVars, boxVars, sent, pull, faults>>

\* A container's stream is too long or no stream, GitHub refuses the push or the
\* pull request, or the plane an append: it throws.
Throws ==
  /\ \/ InBox /\ Fault("lost")
     \/ InAgent /\ Fault("lost")
     \/ pc \in {"pushing", "opening"} /\ Fault("push")
     \/ pc \in {"requested", "recording", "ending"} /\ Fault("append")
     \/ pc = "shipping" /\ sent < Len(log) /\ Fault("append")
  /\ pc' = "threw"
  /\ UNCHANGED <<loopVars, logVars, boxVars, planeVars>>
-----------------------------------------------------------------------------
Init ==
  /\ pc = "requested"
  /\ n = 0
  /\ log = <<>>
  /\ afterSeq = 0
  /\ ended = NoEnd
  /\ fixRef = NoCommit
  /\ repro = NoBytes
  /\ step = "setup"
  /\ draws = 0
  /\ stream = <<>>
  /\ seen = InitialState
  /\ sent = 0
  /\ seq = 0
  /\ pull = NoCommit
  /\ faults = 0

Verify ==
  \/ SetUp \/ ApplyRepro \/ Switch \/ Draw \/ RunSuite \/ Control \/ ObserveDiff
  \/ Completes \/ Fails \/ Refused \/ Dies \/ Stopped

Agent ==
  \/ HandsOver \/ BadManifest \/ HandsNothingOver \/ EnvironmentDown
  \/ AgentContainerFails

Loop == StartAttempt \/ BuildFailed \/ Gate \/ CloseAttempt \/ Return

RunFromIssue ==
  \/ Request \/ Block \/ Ship \/ Decide \/ PushBranch \/ OpenPullRequest
  \/ RecordPullRequest \/ EndWithPullRequest \/ Throws

Finished == pc \in {"answered", "threw"}

Next == Verify \/ Agent \/ Loop \/ RunFromIssue

Spec == Init /\ [][Next]_vars

\* One process runs a run, and every call in it comes back: containers, agents and
\* requests all have a wall clock.
FairSpec == Spec /\ WF_vars(Next)
-----------------------------------------------------------------------------
(***************************************************************************)
(* Properties.                                                             *)
(***************************************************************************)
Points == {"requested", "attempt", "reproducing", "base", "gate", "fixing", "fix",
           "closing", "over", "shipping", "pushing", "opening", "recording",
           "ending", "answered", "threw"}

TypeOK ==
  /\ pc \in Points
  /\ n \in 0..MaxAttempts
  /\ afterSeq \in Nat
  /\ ended \in Ends \cup {NoEnd}
  /\ fixRef \in Commits \cup {NoCommit}
  /\ repro \in Bytes \cup {NoBytes}
  /\ step \in Steps \cup {"control"}
  /\ draws \in Nat
  /\ sent \in 0..Len(log)
  /\ pull \in Commits \cup {NoCommit}
  /\ faults \in 0..MaxFaults

\* The attempt a position of the log belongs to.
AttemptOf(i) ==
  LET starts == {j \in 1..i : log[j].type = "ATTEMPT_STARTED"}
  IN IF starts = {} THEN 0 ELSE log[CHOOSE j \in starts : \A k \in starts : k <= j].n

TestsIn(a, phase, upto) ==
  {i \in 1..upto : log[i].type = "TEST_RUN" /\ log[i].phase = phase /\ AttemptOf(i) = a}

RegisteredIn(a, upto) ==
  {log[i].bytes : i \in {j \in 1..upto : log[j].type = "REPRO_REGISTERED" /\ AttemptOf(j) = a}}

\* All the draws of the base phase of a, red for the reported reason, on the bytes
\* that were registered.
ShownBy(a, upto) ==
  /\ Cardinality(TestsIn(a, "base", upto)) = BaseDraws
  /\ \A i \in TestsIn(a, "base", upto) :
       log[i].result = "failed" /\ log[i].matched /\ {log[i].bytes} = RegisteredIn(a, upto)

\* All the draws of the fix phase of a, green on commit c, on the same bytes.
FixedBy(a, c, upto) ==
  /\ Cardinality(TestsIn(a, "fix", upto)) = FixDraws
  /\ \A i \in TestsIn(a, "fix", upto) :
       log[i].result = "passed" /\ log[i].commit = c /\ {log[i].bytes} = RegisteredIn(a, upto)

(* ADR-0007, run.ts: a pull request exists only for a commit that one attempt
   proved: every base draw red for the reported reason and every fix draw green
   on that very commit, with the bytes that were registered, none missing.  The
   log never says how many draws there should have been. *)
PullRequestsAreProved ==
  pull # NoCommit => \E a \in 1..n : ShownBy(a, Len(log)) /\ FixedBy(a, pull, Len(log))

(* fold.ts, completedAttempts: at no point of the appending, cut off anywhere,
   does the dashboard show a reproduction whose fix series was not run to its
   end. *)
NoPrefixOverclaims ==
  seen.credited # 0 =>
    /\ ShownBy(seen.credited, sent)
    /\ \E c \in Commits : FixedBy(seen.credited, c, sent)

(* ADR-0007, "the gate never bends": an attempt gets a fix agent and a fix
   container only after its own base phase, not another attempt's, has shown the
   bug to the last draw. *)
NoFixWithoutReproduction ==
  \A i \in DOMAIN log :
    \/ log[i].type = "AGENT_HANDED_OVER" /\ log[i].kind = "fix"
    \/ log[i].type = "TEST_RUN" /\ log[i].phase = "fix"
    => ShownBy(AttemptOf(i), i)

(* orchestrate.ts, afterSeq: whatever containers wrote, was dropped or was given
   back, the events are numbered as fold() demands, RUN_ENDED included. *)
LogIsWellNumbered == WellNumbered(log) /\ (ended # NoEnd /\ pc = "over" => ended.seq = Len(log) + 1)

(* ADR-0009, endedBy: `errored` is the one status taken on trust, so nothing an
   agent or its reproduction does may lead to it: only our own failures do. *)
AgentCannotChooseErrored ==
  seen.status = "errored" => faults > 0

(* run.ts: a run that was answered on the issue is over on the dashboard too,
   under a status that says how. *)
AnswersAreFinal ==
  pc = "answered" =>
    /\ seen.ended # "no"
    /\ seen.status \in {"pr_opened", "unresolved", "blocked", "errored"}

(* Every run is answered or throws: attempts are bounded and so is every call. *)
EveryRunIsOver == <>Finished
-----------------------------------------------------------------------------
(***************************************************************************)
(* What comments and docs say of this code, and the code does not do.      *)
(***************************************************************************)
(* fold.ts, RUN_ENDED: no reason given for the end hides a pull request that
   was opened. *)
PullRequestIsShown ==
  pc = "answered" /\ pull # NoCommit => seen.status = "pr_opened"
=============================================================================
