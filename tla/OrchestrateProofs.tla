------------------------- MODULE OrchestrateProofs -------------------------
(***************************************************************************)
(* Proofs about Orchestrate, for every number of attempts and of           *)
(* executions, every result and every number of faults.                    *)
(*                                                                         *)
(* Two invariants.  IInv types the run and counts its log.  Tale says what *)
(* the log tells of every attempt, and where the run stands in it; what    *)
(* the fold makes of such a log is taken from FoldProofs.                  *)
(***************************************************************************)
EXTENDS Orchestrate, FoldProofs, SequenceTheorems, FiniteSetTheorems, TLAPS

-----------------------------------------------------------------------------
(***************************************************************************)
(* Events.                                                                 *)
(***************************************************************************)
Phases == {"setup", "base", "fix", "control", "diff", "cleanup"}
Results == {"passed", "failed", "killed"}
Causes == {"none", "environment", "ceiling", "handover", "collection", "missing_env"}

\* What a container observes: everything but the end of the run.
Observed ==
  [type : {"RUN_REQUESTED", "PR_OPENED", "FIX_DIFF_OBSERVED"}, seq : Nat]
  \cup [type : {"ATTEMPT_STARTED"}, seq : Nat, n : Nat]
  \cup [type : {"REPRO_REGISTERED"}, seq : Nat, bytes : Bytes \cup {NoBytes}]
  \cup [type : {"AGENT_HANDED_OVER"}, seq : Nat, kind : {"repro", "fix"}, commit : Commits]
  \cup [type : {"SUITE_RUN"}, seq : Nat, phase : Phases, result : Results]
  \cup [type : {"VERIFICATION_ABORTED"}, seq : Nat, phase : Phases, cause : Causes]
  \cup [type : {"TEST_RUN"}, seq : Nat, phase : Phases, commit : Commits \cup {NoCommit},
        result : Results, matched : BOOLEAN, bytes : Bytes \cup {NoBytes}]

Events == Observed \cup Ends

\* Numbering an event changes its number and nothing else.
LEMMA AtObserved ==
  ASSUME NEW e \in Observed, NEW k \in Nat
  PROVE  At(k, e) \in Observed /\ At(k, e).seq = k /\ e.type # "RUN_ENDED"
BY DEF At, Observed

LEMMA AtEnd ==
  ASSUME NEW e \in Ends, NEW k \in Nat
  PROVE  At(k, e) \in Ends /\ At(k, e).seq = k /\ At(k, e).reason = e.reason
BY DEF At, Ends

LEMMA AtEvent ==
  ASSUME NEW e \in Events, NEW k \in Nat
  PROVE  /\ At(k, e) \in Events
         /\ At(k, e).seq = k
         /\ At(k, e).type = e.type
         /\ e.type = "RUN_ENDED" => At(k, e).reason = e.reason
BY AtObserved, AtEnd DEF Events, Observed, Ends, At

\* A container numbers its events from the seq it was given.
LEMMA NumberedIsSeq ==
  ASSUME NEW es \in Seq(Events), NEW from \in Nat
  PROVE  /\ Numbered(es, from) \in Seq(Events)
         /\ Len(Numbered(es, from)) = Len(es)
         /\ \A i \in 1..Len(es) : /\ Numbered(es, from)[i] = At(from + i, es[i])
                                  /\ es[i] \in Events
<1>1. Len(es) \in Nat /\ DOMAIN es = 1..Len(es) /\ \A i \in 1..Len(es) : es[i] \in Events
  BY LenProperties, ElementOfSeq
<1>2. \A i \in 1..Len(es) : At(from + i, es[i]) \in Events
  BY <1>1, AtEvent
<1>3. Numbered(es, from) \in [1..Len(es) -> Events]
  BY <1>1, <1>2 DEF Numbered
<1>4. Numbered(es, from) \in Seq(Events)
  BY <1>1, <1>3, SeqDef
<1> QED BY <1>1, <1>3, <1>4 DEF Numbered

\* No end in a sequence is our fault.
OursFree(es) == \A i \in DOMAIN es : es[i].type = "RUN_ENDED" => es[i].reason # "error"

\* Appending what was numbered from the end keeps a log well numbered.
LEMMA Appending ==
  ASSUME NEW l \in Seq(Events), WellNumbered(l), NEW es \in Seq(Events)
  PROVE  LET r == l \o Numbered(es, Len(l)) IN
         /\ r \in Seq(Events)
         /\ Len(r) = Len(l) + Len(es)
         /\ WellNumbered(r)
         /\ OursFree(l) /\ OursFree(es) => OursFree(r)
<1> DEFINE num == Numbered(es, Len(l))
           r == l \o num
<1>1. Len(l) \in Nat /\ DOMAIN l = 1..Len(l) /\ Len(es) \in Nat /\ DOMAIN es = 1..Len(es)
  BY LenProperties
<1>2. /\ num \in Seq(Events) /\ Len(num) = Len(es)
      /\ \A i \in 1..Len(es) : num[i] = At(Len(l) + i, es[i]) /\ es[i] \in Events
  BY <1>1, NumberedIsSeq
<1>3. /\ r \in Seq(Events) /\ Len(r) = Len(l) + Len(es)
      /\ \A i \in 1..(Len(l) + Len(es)) :
           r[i] = IF i <= Len(l) THEN l[i] ELSE num[i - Len(l)]
  <2> HIDE DEF num
  <2>1. /\ l \o num \in Seq(Events) /\ Len(l \o num) = Len(l) + Len(num)
        /\ \A i \in 1..(Len(l) + Len(num)) :
             (l \o num)[i] = IF i <= Len(l) THEN l[i] ELSE num[i - Len(l)]
    BY <1>2, ConcatProperties
  <2> QED BY <1>2, <2>1
<1>4. DOMAIN r = 1..(Len(l) + Len(es))
  BY <1>3, LenProperties
<1>5. ASSUME NEW i \in DOMAIN r
      PROVE  /\ r[i].seq = i
             /\ OursFree(l) /\ OursFree(es) /\ r[i].type = "RUN_ENDED" => r[i].reason # "error"
  <2>1. CASE i <= Len(l)
    <3> HIDE DEF num, r
    <3>1. i \in 1..(Len(l) + Len(es)) /\ i \in DOMAIN l
      BY <1>1, <1>4, <2>1
    <3>2. r[i] = l[i]
      BY <1>3, <2>1, <3>1
    <3> QED BY <3>1, <3>2 DEF WellNumbered, OursFree
  <2>2. CASE ~(i <= Len(l))
    <3>1. i - Len(l) \in 1..Len(es) /\ Len(l) + (i - Len(l)) = i
      BY <1>1, <1>4, <2>2
    <3>2. r[i] = At(i, es[i - Len(l)]) /\ es[i - Len(l)] \in Events
      BY <1>2, <1>3, <1>4, <2>2, <3>1
    <3>3. i \in Nat
      BY <1>1, <1>4
    <3>4. /\ At(i, es[i - Len(l)]).seq = i
          /\ At(i, es[i - Len(l)]).type = es[i - Len(l)].type
          /\ es[i - Len(l)].type = "RUN_ENDED"
               => At(i, es[i - Len(l)]).reason = es[i - Len(l)].reason
      BY <3>2, <3>3, AtEvent
    <3>5. i - Len(l) \in DOMAIN es
      BY <1>1, <3>1
    <3> HIDE DEF num, r
    <3> QED BY <3>2, <3>4, <3>5, Zenon DEF OursFree
  <2> QED BY <2>1, <2>2
<1>6. WellNumbered(r)
  BY <1>5 DEF WellNumbered
<1>7. OursFree(l) /\ OursFree(es) => OursFree(r)
  BY <1>5 DEF OursFree
<1> QED BY <1>3, <1>6, <1>7

-----------------------------------------------------------------------------
(***************************************************************************)
(* What containers observe.                                                *)
(***************************************************************************)
LEMMA ObservedSequences ==
  /\ <<>> \in Seq(Observed)
  /\ \A a \in Observed : <<a>> \in Seq(Observed)
  /\ \A a, b \in Observed : <<a, b>> \in Seq(Observed)
  /\ \A s \in Seq(Observed), a \in Observed : Append(s, a) \in Seq(Observed)
  /\ \A s, t \in Seq(Observed) : s \o t \in Seq(Observed)
  /\ \A s \in Seq(Observed) : \A k \in 0..Len(s) : SubSeq(s, 1, k) \in Seq(Observed)
<1>1. <<>> \in Seq(Observed) /\ \A s, t \in Seq(Observed) : s \o t \in Seq(Observed)
  OBVIOUS
<1>2. \A s \in Seq(Observed), a \in Observed : Append(s, a) \in Seq(Observed)
  OBVIOUS
<1>3. \A a \in Observed : <<a>> \in Seq(Observed)
  OBVIOUS
<1>4. \A a, b \in Observed : <<a, b>> \in Seq(Observed)
  OBVIOUS
<1>5. ASSUME NEW s \in Seq(Observed), NEW k \in 0..Len(s)
      PROVE  SubSeq(s, 1, k) \in Seq(Observed)
  OBVIOUS
<1> QED BY <1>1, <1>2, <1>3, <1>4, <1>5

\* Nothing a container observes ends the run.
LEMMA ObservedIsFree ==
  ASSUME NEW es \in Seq(Observed)
  PROVE  es \in Seq(Events) /\ OursFree(es)
<1>1. \A e \in Observed : e \in Events /\ e.type # "RUN_ENDED"
  BY DEF Events, Observed
<1>2. DOMAIN es = 1..Len(es) /\ \A i \in 1..Len(es) : es[i] \in Observed
  BY LenProperties, ElementOfSeq
<1>3. OursFree(es)
  BY <1>1, <1>2 DEF OursFree
<1>4. es \in Seq(Events)
  BY <1>1
<1> QED BY <1>3, <1>4

LEMMA EventsAreObserved ==
  /\ Event("FIX_DIFF_OBSERVED") \in Observed
  /\ \A phase \in Phases, cause \in Causes : AbortEvent(phase, cause) \in Observed
  /\ \A k \in Nat : StartEvent(k) \in Observed
  /\ \A b \in Bytes \cup {NoBytes} : RegisterEvent(b) \in Observed
  /\ \A kind \in {"repro", "fix"}, c \in Commits : HandOverEvent(kind, c) \in Observed
  /\ \A phase \in Phases, result \in Results : SuiteEvent(phase, result) \in Observed
  /\ \A phase \in Phases, result \in Results, c \in Commits \cup {NoCommit}, matched \in BOOLEAN,
        b \in Bytes \cup {NoBytes} : TestEvent(phase, c, result, matched, b) \in Observed
<1> USE DEF Observed
<1>1. Event("FIX_DIFF_OBSERVED") \in Observed
  BY DEF Event
<1>2. \A phase \in Phases, cause \in Causes : AbortEvent(phase, cause) \in Observed
  BY DEF AbortEvent
<1>3. \A k \in Nat : StartEvent(k) \in Observed
  BY DEF StartEvent
<1>4. \A b \in Bytes \cup {NoBytes} : RegisterEvent(b) \in Observed
  BY DEF RegisterEvent
<1>5. \A kind \in {"repro", "fix"}, c \in Commits : HandOverEvent(kind, c) \in Observed
  BY DEF HandOverEvent
<1>6. \A phase \in Phases, result \in Results : SuiteEvent(phase, result) \in Observed
  BY DEF SuiteEvent
<1>7. \A phase \in Phases, result \in Results, c \in Commits \cup {NoCommit}, matched \in BOOLEAN,
         b \in Bytes \cup {NoBytes} : TestEvent(phase, c, result, matched, b) \in Observed
  BY DEF TestEvent
<1> QED BY <1>1, <1>2, <1>3, <1>4, <1>5, <1>6, <1>7

-----------------------------------------------------------------------------
(***************************************************************************)
(* The fold, as far as these proofs need it: it keeps its fields, its       *)
(* `handedOver` is a commit, and only an end blamed on us makes it errored. *)
(***************************************************************************)
Folded(st) == DOMAIN st = DOMAIN InitialState /\ st.handedOver \in Commits \cup {NoCommit}

LEMMA CreditedKeeps ==
  ASSUME NEW st, DOMAIN st = DOMAIN InitialState
  PROVE  /\ DOMAIN Credited(st) = DOMAIN st
         /\ Credited(st).handedOver = st.handedOver
         /\ Credited(st).status = st.status
BY DEF Credited, InitialState

LEMMA RegressedKeeps ==
  ASSUME NEW st, DOMAIN st = DOMAIN InitialState
  PROVE  /\ DOMAIN Regressed(st) = DOMAIN st
         /\ Regressed(st).handedOver = st.handedOver
         /\ Regressed(st).status = st.status
BY DEF Regressed, InitialState

LEMMA HandOverKeeps ==
  ASSUME NEW st, Folded(st), NEW e, e.commit \in Commits
  PROVE  Folded(HandOver(st, e)) /\ HandOver(st, e).status = st.status
<1> DEFINE handed == [HandedOver(st, e) EXCEPT !.byAgent = Authored(st, e)]
<1>1. /\ DOMAIN HandedOver(st, e) = DOMAIN st
      /\ HandedOver(st, e).handedOver \in {st.handedOver, e.commit}
      /\ HandedOver(st, e).status = st.status
  BY DEF HandedOver, Folded, InitialState
<1>2. /\ DOMAIN handed = DOMAIN st
      /\ handed.handedOver \in {st.handedOver, e.commit}
      /\ handed.status = st.status
  BY <1>1 DEF Folded, InitialState
<1> HIDE DEF handed
<1>3. HandOver(st, e) = Credited(handed)
  BY DEF HandOver, handed
<1> QED BY <1>2, <1>3, CreditedKeeps DEF Folded

LEMMA AbortKeeps ==
  ASSUME NEW st, Folded(st), NEW e
  PROVE  Folded(Abort(st, e)) /\ Abort(st, e).status = st.status
<1> DEFINE listed == [attempt |-> st.attempt, phase |-> e.phase, cause |-> e.cause]
           done == IF WitnessesCompletion(st, e) THEN st.completed \cup {st.attempt}
                   ELSE st.completed
           noted == [st EXCEPT !.aborts = Append(@, listed), !.completed = done]
<1> HIDE DEF listed, done
<1>1. /\ DOMAIN noted = DOMAIN st
      /\ noted.handedOver = st.handedOver
      /\ noted.status = st.status
  BY DEF Folded, InitialState
<1> HIDE DEF noted
<1>2. Abort(st, e) = Credited(noted)
  BY DEF Abort, noted, listed, done, Folded, InitialState
<1> QED BY <1>1, <1>2, CreditedKeeps DEF Folded

LEMMA EndKeeps ==
  ASSUME NEW st, Folded(st), NEW e
  PROVE  Folded(End(st, e)) /\ (End(st, e).status = "errored" => e.reason = "error")
<1> DEFINE said == CASE st.pr -> "pr_opened"
                     [] ~st.pr /\ e.reason = "error" -> "errored"
                     [] ~st.pr /\ e.reason = "blocked"
                          /\ (\E i \in DOMAIN st.aborts : st.aborts[i].cause = "missing_env")
                          /\ st.runs = <<>> /\ st.registrations = <<>> -> "blocked"
                     [] OTHER -> "unresolved"
<1>1. ASSUME e.reason # "error" PROVE said # "errored"
  BY <1>1
<1>2. End(st, e) = [st EXCEPT !.ended = e.reason, !.status = said]
  BY DEF End
<1> HIDE DEF said
<1>3. /\ DOMAIN End(st, e) = DOMAIN st
      /\ End(st, e).handedOver = st.handedOver
      /\ End(st, e).status = said
  BY <1>2 DEF Folded, InitialState
<1> QED BY <1>1, <1>3 DEF Folded

LEMMA ApplyKeeps ==
  ASSUME NEW st, Folded(st), NEW e \in Events
  PROVE  /\ Folded(Apply(st, e))
         /\ Apply(st, e).status = "errored" =>
              st.status = "errored" \/ (e.type = "RUN_ENDED" /\ e.reason = "error")
<1> DEFINE next == [st EXCEPT !.lastSeq = e.seq]
<1>1. /\ DOMAIN next = DOMAIN InitialState
      /\ next.handedOver = st.handedOver /\ next.status = st.status
  BY DEF Folded, InitialState
<1> HIDE DEF next
<1> SUFFICES /\ Folded(Interpret(next, e))
             /\ Interpret(next, e).status = "errored" =>
                  next.status = "errored" \/ (e.type = "RUN_ENDED" /\ e.reason = "error")
  BY <1>1 DEF Apply, next, Folded, InitialState
<1>2. next.handedOver \in Commits \cup {NoCommit}
  BY <1>1 DEF Folded
<1>3. CASE e.type \in {"RUN_REQUESTED", "ATTEMPT_STARTED", "PR_OPENED"}
  BY <1>1, <1>2, <1>3 DEF Interpret, Folded, InitialState
<1>4. CASE e.type = "REPRO_REGISTERED"
  BY <1>1, <1>2, <1>4, CreditedKeeps DEF Interpret, Register, Folded, InitialState
<1>5. CASE e.type = "AGENT_HANDED_OVER"
  <2>1. e.commit \in Commits
    BY <1>5 DEF Events, Observed, Ends
  <2>2. Interpret(next, e) = HandOver(next, e)
    BY <1>5 DEF Interpret
  <2> QED BY <1>1, <1>2, <2>1, <2>2, HandOverKeeps DEF Folded
<1>6. CASE e.type = "TEST_RUN"
  <2>1. Interpret(next, e) = TestRun(next, e)
    BY <1>6 DEF Interpret
  <2> DEFINE run == [attempt |-> next.attempt, phase |-> e.phase, commit |-> e.commit,
                     result |-> e.result, matched |-> e.matched, bytes |-> e.bytes]
             listed == [next EXCEPT !.runs = Append(@, run), !.byAgent = @ \/ e.phase = "control"]
  <2>2. TestRun(next, e) = Credited(listed)
    BY DEF TestRun
  <2> HIDE DEF run
  <2>3. /\ DOMAIN listed = DOMAIN InitialState /\ listed.handedOver = next.handedOver
        /\ listed.status = next.status
    BY <1>1, <1>2 DEF Folded, InitialState
  <2> HIDE DEF listed
  <2> QED BY <1>1, <1>2, <1>6, <2>1, <2>2, <2>3, CreditedKeeps DEF Folded
<1>7. CASE e.type = "SUITE_RUN"
  BY <1>1, <1>2, <1>7, RegressedKeeps DEF Interpret, SuiteRun, Folded, InitialState
<1>8. CASE e.type = "FIX_DIFF_OBSERVED"
  BY <1>1, <1>2, <1>8, CreditedKeeps, RegressedKeeps
     DEF Interpret, DiffObserved, Folded, InitialState
<1>9. CASE e.type = "VERIFICATION_ABORTED"
  <2>1. Interpret(next, e) = Abort(next, e)
    BY <1>9 DEF Interpret
  <2> QED BY <1>1, <1>2, <2>1, AbortKeeps DEF Folded
<1>10. CASE e.type = "RUN_ENDED"
  <2>1. Interpret(next, e) = End(next, e)
    BY <1>10 DEF Interpret
  <2> QED BY <1>1, <1>2, <1>10, <2>1, EndKeeps DEF Folded
<1>11. e.type \in {"RUN_REQUESTED", "ATTEMPT_STARTED", "PR_OPENED", "REPRO_REGISTERED",
                   "AGENT_HANDED_OVER", "TEST_RUN", "SUITE_RUN", "FIX_DIFF_OBSERVED",
                   "VERIFICATION_ABORTED", "RUN_ENDED"}
  BY DEF Events, Observed, Ends
<1> QED BY <1>3, <1>4, <1>5, <1>6, <1>7, <1>8, <1>9, <1>10, <1>11

-----------------------------------------------------------------------------
(***************************************************************************)
(* Types.                                                                  *)
(***************************************************************************)
Typed ==
  /\ TypeOK
  /\ log \in Seq(Events)
  /\ stream \in Seq(Observed)
  /\ seq \in Nat
  /\ Folded(seen)
  /\ pc \in {"requested", "attempt"} => n < MaxAttempts

\* What one container leaves behind: its own events, whole or cut, and the host's.
LEMMA BoxIsTyped ==
  ASSUME Typed, Verify
  PROVE  stream' \in Seq(Observed) /\ step' \in Steps \cup {"control"} /\ draws' \in Nat
<1> USE DEF boxVars
<1>1. /\ repro \in Bytes \cup {NoBytes} /\ fixRef \in Commits \cup {NoCommit}
      /\ stream \in Seq(Observed) /\ step \in Steps \cup {"control"} /\ draws \in Nat
  BY DEF Typed, TypeOK
<1>2. CASE ClearBox
  BY <1>2, ObservedSequences DEF ClearBox, Steps
<1>3. ASSUME NEW e \in Observed, NEW next \in Steps \cup {"control"}, Observe(e, next)
      PROVE  stream' \in Seq(Observed) /\ step' \in Steps \cup {"control"} /\ draws' \in Nat
  BY <1>1, <1>3, ObservedSequences DEF Observe
<1>4. CASE SetUp
  BY <1>1, <1>4 DEF SetUp, Steps
<1>5. CASE ApplyRepro
  <2>1. RegisterEvent(repro) \in Observed
    BY <1>1, EventsAreObserved
  <2> QED BY <1>1, <1>3, <1>5, <2>1 DEF ApplyRepro, Steps
<1>6. CASE Switch
  BY <1>1, <1>6 DEF Switch, Steps
<1>7. CASE Draw
  <2>1. \A k \in BaseResults : BaseTest(k) \in Observed
    <3> TAKE k \in BaseResults
    <3> DEFINE result == Execution(k, IF k = "green" THEN "passed" ELSE "failed")
               bytes == IF k = "tampered" THEN NoBytes ELSE repro
    <3>1. bytes \in Bytes \cup {NoBytes} /\ (k # "other") \in BOOLEAN
      BY <1>1
    <3>4. result \in Results
      BY DEF Results, Execution
    <3> HIDE DEF result, bytes
    <3>2. BaseTest(k) = TestEvent("base", NoCommit, result, k # "other", bytes)
      BY DEF BaseTest, result, bytes
    <3> QED BY <3>1, <3>2, <3>4, EventsAreObserved DEF Phases
  <2>2. \A k \in FixResults : FixTest(k) \in Observed
    <3> TAKE k \in FixResults
    <3> DEFINE result == Execution(k, IF k = "red" THEN "failed" ELSE "passed")
               bytes == IF k = "tampered" THEN NoBytes ELSE repro
    <3>1. bytes \in Bytes \cup {NoBytes}
      BY <1>1
    <3>4. result \in Results
      BY DEF Results, Execution
    <3> HIDE DEF result, bytes
    <3>2. FixTest(k) = TestEvent("fix", fixRef, result, FALSE, bytes)
      BY DEF FixTest, result, bytes
    <3> QED BY <1>1, <3>1, <3>2, <3>4, EventsAreObserved DEF Phases
  <2>3. PICK e \in Observed : stream' = Append(stream, e)
    BY <1>7, <2>1, <2>2 DEF Draw
  <2> QED BY <1>1, <1>7, <2>3, ObservedSequences DEF Draw, Steps
<1>8. CASE RunSuite
  <2>1. PICK r \in SuiteResults :
          stream' = IF r = "none" THEN stream ELSE Append(stream, SuiteEvent(pc, r))
    BY <1>8 DEF RunSuite
  <2>2. r # "none" => SuiteEvent(pc, r) \in Observed
    <3>1. pc \in Phases
      BY <1>8 DEF RunSuite, InBox, Phases
    <3>2. CASE r # "none"
      BY <3>1, <3>2, OrchestrateAssumption, EventsAreObserved DEF Results
    <3> QED BY <3>2
  <2>3. step' \in Steps \cup {"control"}
    BY <1>8 DEF RunSuite, InBox, Steps
  <2> QED BY <1>1, <1>8, <2>1, <2>2, <2>3, ObservedSequences DEF RunSuite
<1>9. CASE Control
  <2>1. TestEvent("control", NoCommit, "failed", FALSE, NoBytes) \in Observed
    BY EventsAreObserved DEF Phases, Results
  <2> QED BY <1>3, <1>9, <2>1 DEF Control, Steps
<1>10. CASE ObserveDiff
  BY <1>3, <1>10, EventsAreObserved DEF ObserveDiff, Steps
<1> QED BY <1>2, <1>4, <1>5, <1>6, <1>7, <1>8, <1>9, <1>10
    DEF Verify, Completes, Fails, Refused, Dies, Stopped, Exits

-----------------------------------------------------------------------------
(***************************************************************************)
(* What a step writes.                                                     *)
(***************************************************************************)
\* Events of containers are pushed ...
Adds == \E es \in Seq(Observed) : Push(es) /\ UNCHANGED ended

\* ... and an end is held back, blamed on us only after a fault.
Closes ==
  \E es \in Seq(Observed), reason \in Reasons :
    PushAndEnd(es, reason) /\ (reason = "error" => faults' # 0)

Spends == faults' \in 0..MaxFaults /\ faults' >= faults

LEMMA FaultSpends ==
  ASSUME Typed, NEW kind, Fault(kind)
  PROVE  Spends /\ faults' # 0
BY OrchestrateAssumption DEF Fault, Spends, Typed, TypeOK

LEMMA AbortsAreObserved ==
  /\ \A phase \in Phases, cause \in Causes : <<AbortEvent(phase, cause)>> \in Seq(Observed)
  /\ Collected \subseteq Seq(Observed)
  /\ Reported \subseteq Seq(Observed)
<1>1. \A phase \in Phases, cause \in Causes : <<AbortEvent(phase, cause)>> \in Seq(Observed)
  BY EventsAreObserved, ObservedSequences
<1> QED BY <1>1, ObservedSequences DEF Collected, Reported, Phases, Causes

LEMMA ExitWrites ==
  ASSUME Typed, InBox, NEW es \in Seq(Observed),
         NEW exit \in {"complete", "partial", "bug", "silent", "killed"}, Exits(es, exit), Spends,
         exit \in {"bug", "silent", "killed"} => faults' # 0
  PROVE  /\ Spends /\ UNCHANGED <<n, fixRef, repro, planeVars>>
         /\ \/ Adds /\ pc' \in {"gate", "closing"}
            \/ Closes /\ pc' = "closing"
<1>1. CASE exit = "complete"
  BY <1>1 DEF Exits, Adds
<1>2. CASE exit # "complete"
  <2>1. EndedBy(exit) \in Reasons /\ (EndedBy(exit) = "error" => exit # "partial")
    BY DEF EndedBy, Reasons
  <2>2. PushAndEnd(es, EndedBy(exit)) /\ pc' = "closing"
    BY <1>2 DEF Exits
  <2>3. Closes
    BY <1>2, <2>1, <2>2 DEF Closes
  <2> QED BY <2>2, <2>3 DEF Exits
<1> QED BY <1>1, <1>2

LEMMA VerifyWrites ==
  ASSUME Typed, Verify
  PROVE  /\ pc \in {"base", "fix"}
         /\ Spends /\ UNCHANGED <<n, fixRef, repro, planeVars>>
         /\ \/ UNCHANGED <<pc, log, afterSeq, ended>>
            \/ Adds /\ pc' \in {"gate", "closing"}
            \/ Closes /\ pc' = "closing"
<1> USE DEF loopVars, logVars
<1>0. pc \in {"base", "fix"}
  BY DEF Verify, InBox, SetUp, ApplyRepro, Switch, Draw, RunSuite, Control, ObserveDiff,
    Completes, Fails, Refused, Dies, Stopped
<1>a. faults \in 0..MaxFaults /\ stream \in Seq(Observed) /\ InBox
  BY <1>0 DEF Typed, TypeOK, InBox
<1>b. UNCHANGED faults => Spends
  BY <1>a DEF Spends
<1>1. CASE SetUp \/ ApplyRepro \/ Switch \/ Draw \/ RunSuite \/ Control \/ ObserveDiff
  BY <1>0, <1>b, <1>1 DEF SetUp, ApplyRepro, Switch, Draw, RunSuite, Control, ObserveDiff, Observe
<1>2. CASE Completes
  <2>1. PICK extra \in Collected : /\ IF extra = <<>> THEN UNCHANGED faults ELSE Fault("collect")
                                   /\ Exits(stream \o extra, "complete")
    BY <1>2 DEF Completes
  <2>2. stream \o extra \in Seq(Observed)
    BY <1>a, AbortsAreObserved, ObservedSequences
  <2>3. Spends
    BY <1>b, <2>1, FaultSpends
  <2> QED BY <1>0, <1>a, <2>1, <2>2, <2>3, ExitWrites
<1>3. CASE Fails
  <2>1. PICK e \in Recorded :
          Exits(stream \o e \o <<AbortEvent(Progress(step), "none")>>, "partial")
    BY <1>3 DEF Fails
  <2>2. e \in Seq(Observed)
    <3>1. \A r \in SuiteResults \ {"none"} : SuiteEvent(pc, r) \in Observed
      BY <1>0, OrchestrateAssumption, EventsAreObserved DEF Phases, Results
    <3>2. e = <<>> \/ \E r \in SuiteResults \ {"none"} : e = <<SuiteEvent(pc, r)>>
      BY DEF Recorded
    <3> QED BY <3>1, <3>2, ObservedSequences
  <2>3. Progress(step) \in Phases
    <3>1. step \in Steps
      BY <1>3, OrchestrateAssumption DEF Fails
    <3> QED BY <1>0, <3>1 DEF Progress, Steps, Phases
  <2>4. <<AbortEvent(Progress(step), "none")>> \in Seq(Observed)
    BY <2>3, AbortsAreObserved DEF Causes
  <2>5. stream \o e \o <<AbortEvent(Progress(step), "none")>> \in Seq(Observed)
    BY <1>a, <2>2, <2>4, ObservedSequences
  <2>6. Spends
    BY <1>3, <1>b DEF Fails
  <2> QED BY <1>0, <1>a, <2>1, <2>5, <2>6, ExitWrites
<1>4. CASE Refused
  <2>1. Exits(<<AbortEvent("setup", "environment")>>, "bug") /\ Spends /\ faults' # 0
    BY <1>4, FaultSpends DEF Refused
  <2>2. <<AbortEvent("setup", "environment")>> \in Seq(Observed)
    BY AbortsAreObserved DEF Phases, Causes
  <2> QED BY <1>0, <1>a, <2>1, <2>2, ExitWrites
<1>5. CASE Dies
  <2>1. Exits(<<>>, "silent") /\ Spends /\ faults' # 0
    BY <1>5, FaultSpends DEF Dies
  <2> QED BY <1>0, <1>a, <2>1, ExitWrites, ObservedSequences
<1>6. CASE Stopped
  <2>1. PICK k \in 0..Len(stream) :
          /\ Spends /\ faults' # 0
          /\ \/ Exits(SubSeq(stream, 1, k), "killed")
             \/ Exits(Append(SubSeq(stream, 1, k), AbortEvent("setup", "ceiling")), "killed")
    BY <1>6, FaultSpends DEF Stopped
  <2>2. SubSeq(stream, 1, k) \in Seq(Observed)
    BY <1>a, ObservedSequences
  <2>3. AbortEvent("setup", "ceiling") \in Observed
    BY EventsAreObserved DEF Phases, Causes
  <2>4. Append(SubSeq(stream, 1, k), AbortEvent("setup", "ceiling")) \in Seq(Observed)
    BY <2>2, <2>3, ObservedSequences
  <2> QED BY <1>0, <1>a, <2>1, <2>2, <2>4, ExitWrites
<1> QED BY <1>1, <1>2, <1>3, <1>4, <1>5, <1>6 DEF Verify

LEMMA AgentWrites ==
  ASSUME Typed, Agent
  PROVE  /\ pc \in {"reproducing", "fixing"}
         /\ Spends /\ UNCHANGED <<n, planeVars>>
         /\ fixRef' \in Commits \cup {NoCommit} /\ repro' \in Bytes \cup {NoBytes}
         /\ \/ Adds /\ pc' \in {"base", "fix"}
            \/ Closes /\ pc' = "closing"
<1> USE DEF loopVars, logVars
<1>0. pc \in {"reproducing", "fixing"}
  BY DEF Agent, InAgent, HandsOver, BadManifest, HandsNothingOver, EnvironmentDown,
    AgentContainerFails
<1>a. /\ faults \in 0..MaxFaults
      /\ fixRef \in Commits \cup {NoCommit} /\ repro \in Bytes \cup {NoBytes}
  BY DEF Typed, TypeOK
<1>b. UNCHANGED faults => Spends
  BY <1>a DEF Spends
<1>c. AbortEvent("setup", "handover") \in Observed
  BY EventsAreObserved DEF Phases, Causes
<1>d. "attempts_exhausted" \in Reasons /\ "error" \in Reasons
  BY DEF Reasons
<1>1. CASE HandsOver
  <2>1. PICK c \in Commits, extra \in Collected :
          /\ IF extra = <<>> THEN UNCHANGED faults ELSE Fault("collect")
          /\ Push(Append(extra, HandOverEvent(Kind, c)))
          /\ IF pc = "reproducing"
               THEN repro' \in Bytes /\ pc' = "base" /\ UNCHANGED fixRef
               ELSE fixRef' = c /\ pc' = "fix" /\ UNCHANGED repro
    BY <1>1 DEF HandsOver
  <2>2. HandOverEvent(Kind, c) \in Observed
    BY EventsAreObserved DEF Kind
  <2>3. Append(extra, HandOverEvent(Kind, c)) \in Seq(Observed)
    BY <2>2, AbortsAreObserved, ObservedSequences
  <2>4. UNCHANGED <<n, ended, planeVars>>
    BY <1>1 DEF HandsOver
  <2>5. Spends
    BY <1>b, <2>1, FaultSpends
  <2>6. Adds
    BY <2>1, <2>3, <2>4 DEF Adds
  <2> QED BY <1>0, <1>a, <2>1, <2>4, <2>5, <2>6
<1>2. CASE BadManifest
  <2>1. PICK c \in Commits :
          PushAndEnd(<<HandOverEvent("repro", c), AbortEvent("setup", "handover")>>,
                     "attempts_exhausted")
    BY <1>2 DEF BadManifest
  <2>2. <<HandOverEvent("repro", c), AbortEvent("setup", "handover")>> \in Seq(Observed)
    BY <1>c, EventsAreObserved, ObservedSequences
  <2>3. Closes
    BY <1>d, <2>1, <2>2 DEF Closes
  <2> QED BY <1>0, <1>a, <1>b, <1>2, <2>3 DEF BadManifest
<1>3. CASE HandsNothingOver
  <2>1. PICK report \in Reported :
          PushAndEnd(Append(report, AbortEvent("setup", "handover")), "attempts_exhausted")
    BY <1>3 DEF HandsNothingOver
  <2>2. Append(report, AbortEvent("setup", "handover")) \in Seq(Observed)
    BY <1>c, AbortsAreObserved, ObservedSequences
  <2>3. Closes
    BY <1>d, <2>1, <2>2 DEF Closes
  <2> QED BY <1>0, <1>a, <1>b, <1>3, <2>3 DEF HandsNothingOver
<1>4. CASE EnvironmentDown
  <2>1. PICK report \in Reported :
          LET said == <<AbortEvent("setup", "environment")>> \o report IN
          IF pc = "reproducing"
            THEN PushAndEnd(said, "error")
            ELSE PushAndEnd(Append(said, AbortEvent("setup", "handover")), "attempts_exhausted")
    BY <1>4 DEF EnvironmentDown
  <2> DEFINE said == <<AbortEvent("setup", "environment")>> \o report
  <2>2. said \in Seq(Observed)
    BY AbortsAreObserved, ObservedSequences DEF Phases, Causes
  <2>3. Append(said, AbortEvent("setup", "handover")) \in Seq(Observed)
    BY <1>c, <2>2, ObservedSequences
  <2>4. Spends /\ faults' # 0
    BY <1>4, FaultSpends DEF EnvironmentDown
  <2>5. Closes
    BY <1>d, <2>1, <2>2, <2>3, <2>4 DEF Closes
  <2> QED BY <1>0, <1>a, <1>4, <2>4, <2>5 DEF EnvironmentDown
<1>5. CASE AgentContainerFails
  <2>1. PICK events \in {<<AbortEvent("setup", "environment")>>,
                         <<AbortEvent("setup", "ceiling")>>, <<>>} :
          /\ Spends /\ faults' # 0
          /\ PushAndEnd(events, "error")
    BY <1>5, FaultSpends DEF AgentContainerFails
  <2>2. events \in Seq(Observed)
    BY AbortsAreObserved, ObservedSequences DEF Phases, Causes
  <2>3. Closes
    BY <1>d, <2>1, <2>2 DEF Closes
  <2> QED BY <1>0, <1>a, <1>5, <2>1, <2>3 DEF AgentContainerFails
<1> QED BY <1>1, <1>2, <1>3, <1>4, <1>5 DEF Agent

-----------------------------------------------------------------------------
(***************************************************************************)
(* The invariant.                                                          *)
(***************************************************************************)
Early == {"requested", "attempt", "reproducing", "base", "gate", "fixing", "fix"}
Working == {"reproducing", "base", "gate", "fixing", "fix", "closing"}

\* Until the loop is over the counter is the length of the log, plus the end held back.
Counted ==
  IF ended = NoEnd THEN afterSeq = Len(log)
  ELSE afterSeq = Len(log) + 1 /\ ended.seq = Len(log) + 1

Numbers ==
  /\ WellNumbered(log)
  /\ pc \in Early => ended = NoEnd
  /\ pc \in Early \cup {"closing", "over"} => Counted
  /\ pc \in Working => Len(log) > 0

\* Before the first fault of ours nothing says that the run is ours to answer for.
Blame ==
  faults = 0 =>
    /\ OursFree(log)
    /\ ended # NoEnd => ended.reason # "error"
    /\ seen.status # "errored"

IInv == Typed /\ Numbers /\ Blame

\* Pushing events of a run whose counter is the length of its log.
LEMMA PushKeeps ==
  ASSUME log \in Seq(Events), WellNumbered(log), afterSeq = Len(log),
         NEW es \in Seq(Events), Push(es)
  PROVE  /\ log' \in Seq(Events) /\ WellNumbered(log')
         /\ Len(log') = Len(log) + Len(es) /\ afterSeq' = Len(log')
         /\ OursFree(log) /\ OursFree(es) => OursFree(log')
<1>1. log' = log \o Numbered(es, Len(log)) /\ afterSeq' = Len(log) + Len(es)
  BY DEF Push
<1> QED BY <1>1, Appending

LEMMA PushAndEndKeeps ==
  ASSUME log \in Seq(Events), WellNumbered(log), afterSeq = Len(log),
         NEW es \in Seq(Events), NEW reason \in Reasons, PushAndEnd(es, reason)
  PROVE  /\ log' \in Seq(Events) /\ WellNumbered(log')
         /\ Len(log') = Len(log) + Len(es) /\ afterSeq' = Len(log') + 1
         /\ OursFree(log) /\ OursFree(es) => OursFree(log')
         /\ ended' \in Ends /\ ended' # NoEnd
         /\ ended'.seq = Len(log') + 1 /\ ended'.reason = reason
<1>1. /\ log' = log \o Numbered(es, Len(log))
      /\ afterSeq' = Len(log) + Len(es) + 1
      /\ ended' = At(Len(log) + Len(es) + 1, EndEvent(reason))
  BY DEF PushAndEnd
<1>2. EndEvent(reason) \in Ends /\ EndEvent(reason).reason = reason
  BY DEF EndEvent, Ends
<1>3. Len(log) + Len(es) + 1 \in Nat
  <2>1. Len(log) \in Nat /\ Len(es) \in Nat
    BY LenProperties
  <2> QED BY <2>1
<1>4. ended' \in Ends /\ ended'.seq = Len(log) + Len(es) + 1 /\ ended'.reason = reason
  <2> DEFINE k == Len(log) + Len(es) + 1
             e == EndEvent(reason)
  <2>1. k \in Nat /\ e \in Ends /\ e.reason = reason /\ ended' = At(k, e)
    BY <1>1, <1>2, <1>3
  <2> HIDE DEF k, e
  <2>2. At(k, e) \in Ends /\ At(k, e).seq = k /\ At(k, e).reason = e.reason
    BY <2>1, AtEnd
  <2>3. ended' \in Ends /\ ended'.seq = k /\ ended'.reason = reason
    BY <2>1, <2>2
  <2> QED BY <2>3 DEF k
<1>5. NoEnd \notin Ends
  BY OrchestrateAssumption
<1> QED BY <1>1, <1>4, <1>5, Appending

\* A container that leaves events behind.
LEMMA AddsKeeps ==
  ASSUME IInv, pc \in Early, Adds
  PROVE  /\ log' \in Seq(Events) /\ WellNumbered(log')
         /\ Len(log') >= Len(log) /\ afterSeq' = Len(log')
         /\ OursFree(log) => OursFree(log')
         /\ ended = NoEnd /\ ended' = NoEnd
<1>1. PICK es \in Seq(Observed) : Push(es) /\ UNCHANGED ended
  BY DEF Adds
<1>2. es \in Seq(Events) /\ OursFree(es) /\ Len(es) \in Nat /\ Len(log) \in Nat
  BY ObservedIsFree, LenProperties DEF IInv, Typed
<1>3. log \in Seq(Events) /\ WellNumbered(log) /\ ended = NoEnd /\ afterSeq = Len(log)
  BY DEF IInv, Typed, Numbers, Counted
<1>4. /\ log' \in Seq(Events) /\ WellNumbered(log')
      /\ Len(log') = Len(log) + Len(es) /\ afterSeq' = Len(log')
      /\ OursFree(log) /\ OursFree(es) => OursFree(log')
  BY <1>1, <1>2, <1>3, PushKeeps
<1> QED BY <1>1, <1>2, <1>3, <1>4

\* A container, or a decision, that ends the attempt.
LEMMA ClosesKeeps ==
  ASSUME IInv, pc \in Early, Closes
  PROVE  /\ log' \in Seq(Events) /\ WellNumbered(log')
         /\ Len(log') >= Len(log) /\ afterSeq' = Len(log') + 1
         /\ OursFree(log) => OursFree(log')
         /\ ended' \in Ends /\ ended' # NoEnd /\ ended'.seq = Len(log') + 1
         /\ faults' = 0 => ended'.reason # "error"
<1>1. PICK es \in Seq(Observed), reason \in Reasons :
        PushAndEnd(es, reason) /\ (reason = "error" => faults' # 0)
  BY DEF Closes
<1>2. es \in Seq(Events) /\ OursFree(es) /\ Len(es) \in Nat /\ Len(log) \in Nat
  BY ObservedIsFree, LenProperties DEF IInv, Typed
<1>3. log \in Seq(Events) /\ WellNumbered(log) /\ afterSeq = Len(log)
  BY DEF IInv, Typed, Numbers, Counted
<1>4. /\ log' \in Seq(Events) /\ WellNumbered(log')
      /\ Len(log') = Len(log) + Len(es) /\ afterSeq' = Len(log') + 1
      /\ OursFree(log) /\ OursFree(es) => OursFree(log')
      /\ ended' \in Ends /\ ended' # NoEnd
      /\ ended'.seq = Len(log') + 1 /\ ended'.reason = reason
  BY <1>1, <1>2, <1>3, PushAndEndKeeps
<1> QED BY <1>1, <1>2, <1>4

\* A step of the loop or of a container, which the plane does not see yet.
LEMMA LoopKeeps ==
  ASSUME IInv, pc \in Early \cup {"closing"},
         n' \in 0..MaxAttempts,
         pc' \in {"requested", "attempt"} => n' < MaxAttempts,
         fixRef' \in Commits \cup {NoCommit}, repro' \in Bytes \cup {NoBytes},
         stream' \in Seq(Observed), step' \in Steps \cup {"control"}, draws' \in Nat,
         UNCHANGED planeVars, Spends,
         log' \in Seq(Events), WellNumbered(log'), Len(log') >= Len(log),
         faults' = 0 /\ OursFree(log) => OursFree(log'),
         pc' \in Working => Len(log') > 0,
         \/ /\ pc' \in Early \cup {"closing", "over"}
            /\ ended' = NoEnd /\ afterSeq' = Len(log')
         \/ /\ pc' \in {"closing", "over"}
            /\ ended' \in Ends /\ ended' # NoEnd /\ afterSeq' = Len(log') + 1
            /\ ended'.seq = Len(log') + 1
            /\ faults' = 0 => ended'.reason # "error"
  PROVE  IInv'
<1>1. Len(log) \in Nat /\ Len(log') \in Nat
  BY LenProperties DEF IInv, Typed
<1>2. faults' \in 0..MaxFaults /\ (faults' = 0 => faults = 0)
  BY OrchestrateAssumption DEF Spends, IInv, Typed, TypeOK
<1>3. TypeOK'
  <2>1. pc' \in Points
    BY DEF Points, Early
  <2>2. afterSeq' \in Nat /\ ended' \in Ends \cup {NoEnd}
    BY <1>1
  <2>3. sent' \in 0..Len(log') /\ pull' \in Commits \cup {NoCommit}
    BY <1>1 DEF IInv, Typed, TypeOK, planeVars
  <2> QED BY <1>2, <2>1, <2>2, <2>3 DEF TypeOK
<1>4. Typed'
  BY <1>3 DEF IInv, Typed, planeVars
<1>5. Numbers'
  BY DEF Numbers, Counted, Early
<1>6. Blame'
  BY <1>2 DEF IInv, Blame, planeVars
<1> QED BY <1>4, <1>5, <1>6 DEF IInv

-----------------------------------------------------------------------------
(***************************************************************************)
(* Every step keeps it.                                                    *)
(***************************************************************************)
LEMMA VerifyStep ==
  ASSUME IInv, Verify
  PROVE  IInv'
<1>1. /\ pc \in {"base", "fix"}
      /\ Spends /\ UNCHANGED <<n, fixRef, repro, planeVars>>
      /\ \/ UNCHANGED <<pc, log, afterSeq, ended>>
         \/ Adds /\ pc' \in {"gate", "closing"}
         \/ Closes /\ pc' = "closing"
  BY VerifyWrites DEF IInv
<1>2. stream' \in Seq(Observed) /\ step' \in Steps \cup {"control"} /\ draws' \in Nat
  BY BoxIsTyped DEF IInv
<1>3. /\ n' \in 0..MaxAttempts /\ fixRef' \in Commits \cup {NoCommit}
      /\ repro' \in Bytes \cup {NoBytes} /\ pc' \notin {"requested", "attempt"}
      /\ UNCHANGED planeVars
  BY <1>1 DEF IInv, Typed, TypeOK
<1>4. log \in Seq(Events) /\ Len(log) \in Nat /\ Len(log) > 0 /\ pc \in Early
  BY <1>1, LenProperties DEF IInv, Typed, Numbers, Working, Early
<1>5. CASE UNCHANGED <<pc, log, afterSeq, ended>>
  <2>1. ended' = NoEnd /\ afterSeq' = Len(log') /\ WellNumbered(log') /\ log' = log
    BY <1>4, <1>5 DEF IInv, Numbers, Counted
  <2>2. pc' \in Early /\ (OursFree(log) => OursFree(log'))
    BY <1>4, <1>5, <2>1
  <2> QED BY <1>1, <1>2, <1>3, <1>4, <2>1, <2>2, LoopKeeps
<1>6. CASE Adds /\ pc' \in {"gate", "closing"}
  <2>1. /\ log' \in Seq(Events) /\ WellNumbered(log')
        /\ Len(log') >= Len(log) /\ afterSeq' = Len(log')
        /\ OursFree(log) => OursFree(log')
        /\ ended' = NoEnd
    BY <1>4, <1>6, AddsKeeps
  <2>2. pc' \in Early \cup {"closing", "over"} /\ Len(log') > 0
    BY <1>4, <1>6, <2>1, LenProperties DEF Early
  <2> QED BY <1>1, <1>2, <1>3, <1>4, <2>1, <2>2, LoopKeeps
<1>7. CASE Closes /\ pc' = "closing"
  <2>1. /\ log' \in Seq(Events) /\ WellNumbered(log')
        /\ Len(log') >= Len(log) /\ afterSeq' = Len(log') + 1
        /\ OursFree(log) => OursFree(log')
        /\ ended' \in Ends /\ ended' # NoEnd /\ ended'.seq = Len(log') + 1
        /\ faults' = 0 => ended'.reason # "error"
    BY <1>4, <1>7, ClosesKeeps
  <2>2. Len(log') > 0
    BY <1>4, <2>1, LenProperties
  <2> QED BY <1>1, <1>2, <1>3, <1>4, <1>7, <2>1, <2>2, LoopKeeps
<1> QED BY <1>1, <1>5, <1>6, <1>7

LEMMA AgentBox ==
  ASSUME Typed, Agent
  PROVE  stream' \in Seq(Observed) /\ step' \in Steps \cup {"control"} /\ draws' \in Nat
<1>1. CASE HandsOver
  BY <1>1, ObservedSequences DEF HandsOver, ClearBox, Steps
<1>2. CASE BadManifest \/ HandsNothingOver \/ EnvironmentDown \/ AgentContainerFails
  BY <1>2 DEF BadManifest, HandsNothingOver, EnvironmentDown, AgentContainerFails, boxVars,
    Typed, TypeOK
<1> QED BY <1>1, <1>2 DEF Agent

LEMMA AgentStep ==
  ASSUME IInv, Agent
  PROVE  IInv'
<1>1. /\ pc \in {"reproducing", "fixing"}
      /\ Spends /\ UNCHANGED <<n, planeVars>>
      /\ fixRef' \in Commits \cup {NoCommit} /\ repro' \in Bytes \cup {NoBytes}
      /\ \/ Adds /\ pc' \in {"base", "fix"}
         \/ Closes /\ pc' = "closing"
  BY AgentWrites DEF IInv
<1>2. stream' \in Seq(Observed) /\ step' \in Steps \cup {"control"} /\ draws' \in Nat
  BY AgentBox DEF IInv
<1>3. /\ n' \in 0..MaxAttempts /\ pc' \notin {"requested", "attempt"} /\ UNCHANGED planeVars
  BY <1>1 DEF IInv, Typed, TypeOK
<1>4. log \in Seq(Events) /\ Len(log) \in Nat /\ Len(log) > 0 /\ pc \in Early
  BY <1>1, LenProperties DEF IInv, Typed, Numbers, Working, Early
<1>5. CASE Adds /\ pc' \in {"base", "fix"}
  <2>1. /\ log' \in Seq(Events) /\ WellNumbered(log')
        /\ Len(log') >= Len(log) /\ afterSeq' = Len(log')
        /\ OursFree(log) => OursFree(log')
        /\ ended' = NoEnd
    BY <1>4, <1>5, AddsKeeps
  <2>2. pc' \in Early \cup {"closing", "over"} /\ Len(log') > 0
    BY <1>4, <1>5, <2>1, LenProperties DEF Early
  <2> QED BY <1>1, <1>2, <1>3, <1>4, <2>1, <2>2, LoopKeeps
<1>6. CASE Closes /\ pc' = "closing"
  <2>1. /\ log' \in Seq(Events) /\ WellNumbered(log')
        /\ Len(log') >= Len(log) /\ afterSeq' = Len(log') + 1
        /\ OursFree(log) => OursFree(log')
        /\ ended' \in Ends /\ ended' # NoEnd /\ ended'.seq = Len(log') + 1
        /\ faults' = 0 => ended'.reason # "error"
    BY <1>4, <1>6, ClosesKeeps
  <2>2. Len(log') > 0
    BY <1>4, <2>1, LenProperties
  <2> QED BY <1>1, <1>2, <1>3, <1>4, <1>6, <2>1, <2>2, LoopKeeps
<1> QED BY <1>1, <1>5, <1>6

\* The attempt loop.
LEMMA LoopStep ==
  ASSUME IInv, Loop
  PROVE  IInv'
<1> USE DEF loopVars, logVars
<1>0. /\ log \in Seq(Events) /\ Len(log) \in Nat /\ WellNumbered(log)
      /\ n \in 0..MaxAttempts /\ faults \in 0..MaxFaults /\ MaxAttempts \in Nat
      /\ fixRef \in Commits \cup {NoCommit} /\ repro \in Bytes \cup {NoBytes}
      /\ stream \in Seq(Observed) /\ step \in Steps \cup {"control"} /\ draws \in Nat
  BY OrchestrateAssumption, LenProperties DEF IInv, Typed, TypeOK, Numbers
<1>a. UNCHANGED faults => Spends
  BY <1>0 DEF Spends
<1>b. \A k \in Nat : StartEvent(k) \in Observed /\ <<StartEvent(k)>> \in Seq(Observed)
  BY EventsAreObserved, ObservedSequences
<1>1. CASE StartAttempt
  <2>1. n' = n + 1 /\ n < MaxAttempts /\ pc \in Early /\ n \in Nat
    BY <1>0, <1>1 DEF StartAttempt, NextAttempt, IInv, Typed, Early
  <2> DEFINE es == <<StartEvent(n + 1)>>
  <2>2. es \in Seq(Observed) /\ Len(es) = 1 /\ Push(es)
    BY <1>1, <1>b, <2>1 DEF StartAttempt
  <2>3. es \in Seq(Events) /\ OursFree(es)
    BY <2>2, ObservedIsFree
  <2> HIDE DEF es
  <2>4. afterSeq = Len(log)
    BY <2>1 DEF IInv, Numbers, Counted
  <2>5. /\ log' \in Seq(Events) /\ WellNumbered(log')
        /\ Len(log') = Len(log) + 1 /\ afterSeq' = Len(log')
        /\ OursFree(log) => OursFree(log')
    BY <1>0, <2>2, <2>3, <2>4, PushKeeps
  <2>6. /\ n' \in 0..MaxAttempts /\ Len(log') >= Len(log) /\ Len(log') > 0
        /\ fixRef' \in Commits \cup {NoCommit} /\ repro' \in Bytes \cup {NoBytes}
        /\ pc' = "reproducing" /\ ended' = NoEnd
        /\ UNCHANGED <<boxVars, planeVars, faults>>
    BY <1>0, <1>1, <2>1, <2>5 DEF StartAttempt, NextAttempt
  <2>7. pc' \in Early
    BY <2>6 DEF Early
  <2> QED BY <1>0, <1>a, <2>1, <2>5, <2>6, <2>7, LoopKeeps DEF boxVars
<1>2. CASE BuildFailed
  <2>1. n' = 1 /\ pc \in Early /\ Spends /\ faults' # 0 /\ 1 \in 0..MaxAttempts
    BY <1>0, <1>2, FaultSpends, OrchestrateAssumption
    DEF BuildFailed, NextAttempt, IInv, Early
  <2> DEFINE es == <<StartEvent(1), AbortEvent("setup", "environment")>>
  <2>2. es \in Seq(Observed) /\ PushAndEnd(es, "error")
    BY <1>2, EventsAreObserved, ObservedSequences DEF BuildFailed, Phases, Causes
  <2>3. Closes
    BY <2>1, <2>2 DEF Closes, Reasons
  <2>4. /\ log' \in Seq(Events) /\ WellNumbered(log')
        /\ Len(log') >= Len(log) /\ afterSeq' = Len(log') + 1
        /\ OursFree(log) => OursFree(log')
        /\ ended' \in Ends /\ ended' # NoEnd /\ ended'.seq = Len(log') + 1
        /\ faults' = 0 => ended'.reason # "error"
    BY <2>1, <2>3, ClosesKeeps
  <2>5. /\ fixRef' \in Commits \cup {NoCommit} /\ repro' \in Bytes \cup {NoBytes}
        /\ pc' = "over" /\ UNCHANGED <<boxVars, planeVars>>
    BY <1>2 DEF BuildFailed, NextAttempt
  <2>6. pc' \notin Working /\ pc' \notin {"requested", "attempt"}
    BY <2>5 DEF Working
  <2> QED BY <1>0, <2>1, <2>4, <2>5, <2>6, LoopKeeps DEF boxVars
<1>3. CASE Gate
  <2>1. /\ pc \in Early /\ pc = "gate" /\ UNCHANGED <<n, fixRef, repro, boxVars, planeVars, faults>>
        /\ Len(log) > 0 /\ afterSeq = Len(log) /\ ended = NoEnd
    BY <1>3 DEF Gate, Early, Working, IInv, Numbers, Counted
  <2>2. CASE pc' = "fixing" /\ UNCHANGED <<logVars, ended>>
    <3>1. pc' \in Early /\ ended' = NoEnd /\ afterSeq' = Len(log') /\ log' = log
      BY <2>1, <2>2 DEF Early
    <3> QED BY <1>0, <1>a, <2>1, <2>2, <3>1, LoopKeeps DEF boxVars
  <2>3. CASE pc' = "closing" /\ PushAndEnd(<<>>, "not_reproduced")
    <3>1. Closes
      BY <2>3, ObservedSequences DEF Closes, Reasons
    <3>2. /\ log' \in Seq(Events) /\ WellNumbered(log')
          /\ Len(log') >= Len(log) /\ afterSeq' = Len(log') + 1
          /\ OursFree(log) => OursFree(log')
          /\ ended' \in Ends /\ ended' # NoEnd /\ ended'.seq = Len(log') + 1
          /\ faults' = 0 => ended'.reason # "error"
      BY <2>1, <3>1, ClosesKeeps
    <3>3. Len(log') > 0
      BY <1>0, <2>1, <3>2, LenProperties
    <3> QED BY <1>0, <1>a, <2>1, <2>3, <3>2, <3>3, LoopKeeps DEF boxVars
  <2> QED BY <1>3, <2>2, <2>3 DEF Gate
<1>4. CASE CloseAttempt
  <2>1. /\ pc = "closing" /\ UNCHANGED <<n, fixRef, repro, boxVars, planeVars, faults>>
        /\ Len(log) > 0 /\ Counted /\ ended \in Ends \cup {NoEnd}
        /\ ended # NoEnd => (faults = 0 => ended.reason # "error")
        /\ pc \in Early \cup {"closing"}
    BY <1>4 DEF CloseAttempt, Working, IInv, Numbers, Blame, Typed, TypeOK
  <2>2. CASE ended = NoEnd /\ PushAndEnd(<<>>, "attempts_exhausted") /\ pc' = "over"
    <3>1. <<>> \in Seq(Events) /\ OursFree(<<>>) /\ Len(<<>>) = 0
      BY ObservedSequences, ObservedIsFree
    <3>2. "attempts_exhausted" \in Reasons /\ "attempts_exhausted" # "error"
      BY DEF Reasons
    <3>3. afterSeq = Len(log)
      BY <2>1, <2>2 DEF Counted
    <3>4. /\ log' \in Seq(Events) /\ WellNumbered(log')
          /\ Len(log') = Len(log) + 0 /\ afterSeq' = Len(log') + 1
          /\ OursFree(log) => OursFree(log')
          /\ ended' \in Ends /\ ended' # NoEnd
          /\ ended'.seq = Len(log') + 1 /\ ended'.reason = "attempts_exhausted"
      BY <1>0, <2>2, <3>1, <3>2, <3>3, PushAndEndKeeps
    <3>5. Len(log') >= Len(log) /\ Len(log') > 0
      BY <1>0, <2>1, <3>4
    <3> QED BY <1>0, <1>a, <2>1, <2>2, <3>2, <3>4, <3>5, LoopKeeps DEF boxVars
  <2>3. CASE pc' = "over" /\ UNCHANGED <<logVars, ended>>
    <3>1. /\ log' = log /\ Len(log') >= Len(log) /\ Len(log') > 0
          /\ \/ ended' = NoEnd /\ afterSeq' = Len(log')
             \/ /\ ended' \in Ends /\ ended' # NoEnd /\ afterSeq' = Len(log') + 1
                /\ ended'.seq = Len(log') + 1 /\ (faults' = 0 => ended'.reason # "error")
      BY <1>0, <2>1, <2>3 DEF Counted
    <3> QED BY <1>0, <1>a, <2>1, <2>3, <3>1, LoopKeeps DEF boxVars
  <2>4. CASE /\ pc' = "attempt" /\ ended' = NoEnd /\ GiveBackSeq(ended)
             /\ UNCHANGED log /\ ~NoneLeft(n)
    <3>1. afterSeq' = Len(log)
      <4>1. Len(log) \in DOMAIN log
        BY <1>0, <2>1, LenProperties
      <4>2. log[Len(log)].seq = Len(log)
        BY <1>0, <4>1 DEF WellNumbered
      <4> QED BY <2>4, <4>2 DEF GiveBackSeq
    <3>2. n' < MaxAttempts /\ pc' \in Early
      BY <1>0, <2>1, <2>4 DEF NoneLeft, Early
    <3>3. log' = log /\ Len(log') >= Len(log) /\ Len(log') > 0
      BY <1>0, <2>1, <2>4
    <3> QED BY <1>0, <1>a, <2>1, <2>4, <3>1, <3>2, <3>3, LoopKeeps DEF boxVars
  <2> QED BY <1>4, <2>2, <2>3, <2>4 DEF CloseAttempt
<1>5. CASE Return
  <2>1. /\ pc = "over" /\ pc' = "shipping" /\ Counted
        /\ UNCHANGED <<n, fixRef, repro, ended, afterSeq, boxVars, planeVars, faults>>
        /\ ended \in Ends \cup {NoEnd} /\ seen' = seen /\ sent' = sent
        /\ log' = IF ended = NoEnd THEN log ELSE Append(log, ended)
    BY <1>5 DEF Return, IInv, Numbers, Typed, TypeOK, planeVars
  <2>2. /\ log' \in Seq(Events) /\ Len(log') >= Len(log) /\ WellNumbered(log')
        /\ faults = 0 => OursFree(log')
    <3>1. CASE ended = NoEnd
      BY <1>0, <2>1, <3>1 DEF IInv, Blame
    <3>2. CASE ended # NoEnd
      <4>1. /\ ended \in Events /\ ended.seq = Len(log) + 1 /\ log' = Append(log, ended)
            /\ faults = 0 => OursFree(log) /\ ended.reason # "error"
        BY <2>1, <3>2 DEF Counted, IInv, Blame, Events
      <4>2. /\ log' \in Seq(Events) /\ Len(log') = Len(log) + 1
            /\ DOMAIN log' = 1..(Len(log) + 1) /\ DOMAIN log = 1..Len(log)
            /\ \A i \in 1..Len(log) : log'[i] = log[i]
            /\ log'[Len(log) + 1] = ended
        BY <1>0, <4>1, AppendProperties, LenProperties
      <4>3. \A i \in DOMAIN log' : i \in DOMAIN log \/ i = Len(log) + 1
        BY <1>0, <4>2
      <4>4. WellNumbered(log')
        BY <1>0, <4>1, <4>2, <4>3 DEF WellNumbered
      <4>5. faults = 0 => OursFree(log')
        BY <4>1, <4>2, <4>3 DEF OursFree
      <4> QED BY <1>0, <4>2, <4>4, <4>5
    <3> QED BY <3>1, <3>2
  <2>3. sent' \in 0..Len(log')
    BY <1>0, <2>1, <2>2, LenProperties DEF IInv, Typed, TypeOK
  <2>4. TypeOK'
    BY <2>1, <2>3 DEF IInv, Typed, TypeOK, Points, boxVars, planeVars
  <2>5. Typed'
    BY <2>1, <2>2, <2>4 DEF IInv, Typed, boxVars, planeVars
  <2>6. Numbers'
    BY <2>1, <2>2 DEF Numbers, Early, Working
  <2>7. Blame'
    BY <2>1, <2>2 DEF IInv, Blame
  <2> QED BY <2>5, <2>6, <2>7 DEF IInv
<1> QED BY <1>1, <1>2, <1>3, <1>4, <1>5 DEF Loop

-----------------------------------------------------------------------------
\* What the plane folds.
LEMMA EmitKeeps ==
  ASSUME Typed, NEW e \in Events, Emit(e)
  PROVE  /\ Folded(seen') /\ seq' \in Nat
         /\ seen'.status = "errored" =>
              seen.status = "errored" \/ (e.type = "RUN_ENDED" /\ e.reason = "error")
<1> DEFINE k == seq + 1
<1>1. k \in Nat /\ Folded(seen) /\ seen' = Apply(seen, At(k, e)) /\ seq' = k
  BY DEF Typed, Emit
<1> HIDE DEF k
<1>2. /\ At(k, e) \in Events /\ At(k, e).type = e.type
      /\ e.type = "RUN_ENDED" => At(k, e).reason = e.reason
  BY <1>1, AtEvent
<1> DEFINE f == At(k, e)
<1>3. f \in Events
  BY <1>2
<1> HIDE DEF f
<1>4. /\ Folded(Apply(seen, f))
      /\ Apply(seen, f).status = "errored" =>
           seen.status = "errored" \/ (f.type = "RUN_ENDED" /\ f.reason = "error")
  BY <1>1, <1>3, ApplyKeeps
<1> QED BY <1>1, <1>2, <1>4 DEF f

\* A step of run.ts that leaves the loop's events as they are.
LEMMA PlaneKeeps ==
  ASSUME IInv, UNCHANGED <<loopVars, logVars, boxVars>>,
         faults' \in 0..MaxFaults, faults' = 0 => faults = 0,
         pc' \in Points \ (Working \cup {"over"}), pc' \in Early => pc \in Early,
         pc' \in {"requested", "attempt"} => pc \in {"requested", "attempt"},
         Folded(seen'), seq' \in Nat, sent' \in 0..Len(log),
         pull' \in Commits \cup {NoCommit},
         faults = 0 => seen'.status # "errored"
  PROVE  IInv'
<1>1. TypeOK'
  BY DEF IInv, Typed, TypeOK, loopVars, logVars, boxVars
<1>2. Typed'
  BY <1>1 DEF IInv, Typed, loopVars, logVars, boxVars
<1>3. Numbers'
  BY DEF IInv, Numbers, Counted, Early, Working, loopVars, logVars
<1>4. Blame'
  BY DEF IInv, Blame, loopVars, logVars
<1> QED BY <1>2, <1>3, <1>4 DEF IInv

\* run.ts around the loop.
LEMMA RunStep ==
  ASSUME IInv, RunFromIssue
  PROVE  IInv'
<1>0. /\ Typed /\ log \in Seq(Events) /\ Len(log) \in Nat /\ sent \in 0..Len(log)
      /\ faults \in 0..MaxFaults /\ Folded(seen) /\ seq \in Nat
      /\ pull \in Commits \cup {NoCommit} /\ (faults = 0 => seen.status # "errored")
  BY LenProperties DEF IInv, Typed, TypeOK, Blame
<1>a. /\ Event("RUN_REQUESTED") \in Events /\ Event("RUN_REQUESTED").type # "RUN_ENDED"
      /\ Event("PR_OPENED") \in Events /\ Event("PR_OPENED").type # "RUN_ENDED"
      /\ \A reason \in Reasons : EndEvent(reason) \in Events /\ EndEvent(reason).reason = reason
  BY DEF Event, EndEvent, Events, Observed, Ends
<1>1. CASE Request
  <2>1. /\ Emit(Event("RUN_REQUESTED")) /\ pc = "requested" /\ pc' = "attempt"
        /\ UNCHANGED <<loopVars, logVars, boxVars, sent, pull, faults>>
    BY <1>1 DEF Request
  <2>2. /\ Folded(seen') /\ seq' \in Nat
        /\ seen'.status = "errored" => seen.status = "errored"
    BY <1>0, <1>a, <2>1, EmitKeeps
  <2>3. pc' \in Points \ (Working \cup {"over"}) /\ pc \in Early
    BY <2>1 DEF Points, Working, Early
  <2> QED BY <1>0, <2>1, <2>2, <2>3, PlaneKeeps
<1>2. CASE Block
  <2> DEFINE es == <<StartEvent(1), AbortEvent("setup", "missing_env"), EndEvent("blocked")>>
  <2>1. /\ Emit(Event("RUN_REQUESTED")) /\ Push(es) /\ pc = "requested" /\ pc' = "shipping"
        /\ UNCHANGED <<loopVars, boxVars, sent, pull, faults>>
    BY <1>2 DEF Block
  <2>2. /\ Folded(seen') /\ seq' \in Nat
        /\ seen'.status = "errored" => seen.status = "errored"
    BY <1>0, <1>a, <2>1, EmitKeeps
  <2>3. es \in Seq(Events) /\ OursFree(es)
    <3>1. /\ StartEvent(1) \in Observed /\ AbortEvent("setup", "missing_env") \in Observed
          /\ "blocked" \in Reasons
      BY EventsAreObserved DEF Phases, Causes, Reasons
    <3>2. /\ StartEvent(1) \in Events /\ AbortEvent("setup", "missing_env") \in Events
          /\ EndEvent("blocked") \in Events /\ EndEvent("blocked").reason = "blocked"
      BY <1>a, <3>1 DEF Events
    <3>3. StartEvent(1).type # "RUN_ENDED" /\ AbortEvent("setup", "missing_env").type # "RUN_ENDED"
      BY DEF StartEvent, AbortEvent
    <3>4. es \in Seq(Events)
      BY <3>2
    <3>5. \A i \in DOMAIN es : i \in {1, 2, 3}
      OBVIOUS
    <3>6. OursFree(es)
      BY <3>2, <3>3, <3>5 DEF OursFree
    <3> QED BY <3>4, <3>6
  <2> HIDE DEF es
  <2>4. WellNumbered(log) /\ afterSeq = Len(log) /\ ended = NoEnd
    BY <2>1 DEF IInv, Numbers, Counted, Early
  <2>5. Len(es) \in Nat
    BY <2>3, LenProperties
  <2>6. /\ log' \in Seq(Events) /\ WellNumbered(log')
        /\ Len(log') = Len(log) + Len(es) /\ afterSeq' = Len(log')
        /\ OursFree(log) => OursFree(log')
    BY <1>0, <2>1, <2>3, <2>4, PushKeeps
  <2>7. sent' \in 0..Len(log') /\ afterSeq' \in Nat
    BY <1>0, <2>1, <2>5, <2>6
  <2>8. TypeOK'
    BY <2>1, <2>7 DEF IInv, Typed, TypeOK, Points, loopVars, boxVars
  <2>9. Typed'
    BY <2>1, <2>2, <2>6, <2>8 DEF IInv, Typed, loopVars, boxVars
  <2>10. Numbers'
    BY <2>1, <2>6 DEF Numbers, Early, Working
  <2>11. Blame'
    BY <1>0, <2>1, <2>2, <2>4, <2>6 DEF IInv, Blame, loopVars
  <2> QED BY <2>9, <2>10, <2>11 DEF IInv
<1>3. CASE Ship
  <2>1. /\ Emit(log[sent + 1]) /\ pc = "shipping" /\ pc' = "shipping" /\ sent < Len(log)
        /\ sent' = sent + 1 /\ UNCHANGED <<loopVars, logVars, boxVars, pull, faults>>
    BY <1>3 DEF Ship
  <2>2. sent + 1 \in 1..Len(log) /\ sent + 1 \in DOMAIN log
    BY <1>0, <2>1, LenProperties
  <2>3. log[sent + 1] \in Events
    BY <1>0, <2>2, ElementOfSeq
  <2>4. /\ Folded(seen') /\ seq' \in Nat
        /\ seen'.status = "errored" =>
             \/ seen.status = "errored"
             \/ log[sent + 1].type = "RUN_ENDED" /\ log[sent + 1].reason = "error"
    BY <1>0, <2>1, <2>3, EmitKeeps
  <2>5. faults = 0 => seen'.status # "errored"
    BY <1>0, <2>2, <2>4 DEF IInv, Blame, OursFree
  <2>6. pc' \in Points \ (Working \cup {"over"}) /\ pc' \notin Early
    BY <2>1 DEF Points, Working, Early
  <2>7. sent' \in 0..Len(log)
    BY <1>0, <2>1
  <2> QED BY <1>0, <2>1, <2>4, <2>5, <2>6, <2>7, PlaneKeeps
<1>4. CASE Decide \/ PushBranch
  <2>1. /\ pc' \in {"pushing", "opening", "answered"}
        /\ UNCHANGED <<loopVars, logVars, boxVars, faults>>
        /\ seen' = seen /\ sent' = sent /\ seq' = seq /\ pull' = pull
    BY <1>4 DEF Decide, PushBranch, planeVars
  <2>2. pc' \in Points \ (Working \cup {"over"}) /\ pc' \notin Early
    BY <2>1 DEF Points, Working, Early
  <2> QED BY <1>0, <2>1, <2>2, PlaneKeeps
<1>5. CASE OpenPullRequest
  <2>1. /\ pull' = seen.handedOver /\ pc' = "recording"
        /\ UNCHANGED <<loopVars, logVars, boxVars, faults>>
        /\ seen' = seen /\ sent' = sent /\ seq' = seq
    BY <1>5 DEF OpenPullRequest
  <2>2. pc' \in Points \ (Working \cup {"over"}) /\ pc' \notin Early
    BY <2>1 DEF Points, Working, Early
  <2>3. pull' \in Commits \cup {NoCommit}
    BY <1>0, <2>1 DEF Folded
  <2> QED BY <1>0, <2>1, <2>2, <2>3, PlaneKeeps
<1>6. ASSUME NEW e \in Events, Emit(e), e.type = "RUN_ENDED" => e.reason # "error",
             pc' \in {"ending", "answered"},
             UNCHANGED <<loopVars, logVars, boxVars, sent, pull, faults>>
      PROVE  IInv'
  <2>1. /\ Folded(seen') /\ seq' \in Nat
        /\ seen'.status = "errored" => seen.status = "errored"
    BY <1>0, <1>6, EmitKeeps
  <2>2. pc' \in Points \ (Working \cup {"over"}) /\ pc' \notin Early
    BY <1>6 DEF Points, Working, Early
  <2> QED BY <1>0, <1>6, <2>1, <2>2, PlaneKeeps
<1>7. CASE RecordPullRequest
  BY <1>7, <1>a, <1>6 DEF RecordPullRequest
<1>8. CASE EndWithPullRequest
  BY <1>8, <1>a, <1>6 DEF EndWithPullRequest, Reasons
<1>9. CASE Throws
  <2>1. /\ pc' = "threw" /\ UNCHANGED <<loopVars, logVars, boxVars>> /\ Spends /\ faults' # 0
        /\ seen' = seen /\ sent' = sent /\ seq' = seq /\ pull' = pull
    BY <1>0, <1>9, FaultSpends DEF Throws, planeVars
  <2>2. pc' \in Points \ (Working \cup {"over"}) /\ pc' \notin Early
    BY <2>1 DEF Points, Working, Early
  <2> QED BY <1>0, <2>1, <2>2, PlaneKeeps DEF Spends
<1> QED BY <1>1, <1>2, <1>3, <1>4, <1>5, <1>7, <1>8, <1>9 DEF RunFromIssue

-----------------------------------------------------------------------------
(***************************************************************************)
(* The theorems.                                                           *)
(***************************************************************************)
LEMMA InitHolds == Init => IInv
<1> SUFFICES ASSUME Init PROVE IInv
  OBVIOUS
<1> USE DEF Init
<1>1. <<>> \in Seq(Events) /\ <<>> \in Seq(Observed) /\ OursFree(<<>>) /\ Len(<<>>) = 0
  BY ObservedSequences, ObservedIsFree
<1>2. DOMAIN <<>> = {}
  OBVIOUS
<1>3. InitialState.handedOver = NoCommit /\ InitialState.status # "errored"
  BY DEF InitialState
<1>4. TypeOK
  BY <1>1, OrchestrateAssumption DEF TypeOK, Points, Steps
<1>5. Typed
  BY <1>1, <1>3, <1>4, OrchestrateAssumption DEF Typed, Folded
<1>6. Numbers
  BY <1>1, <1>2 DEF Numbers, Counted, WellNumbered, Working
<1>7. Blame
  BY <1>1, <1>3 DEF Blame
<1> QED BY <1>5, <1>6, <1>7 DEF IInv

LEMMA NextKeeps ==
  ASSUME IInv, [Next]_vars
  PROVE  IInv'
<1>1. CASE Next
  BY <1>1, VerifyStep, AgentStep, LoopStep, RunStep DEF Next
<1>2. CASE UNCHANGED vars
  <2>1. /\ UNCHANGED <<pc, n, fixRef, repro, ended, log, afterSeq>>
        /\ UNCHANGED <<step, draws, stream, seen, sent, seq, pull, faults>>
    BY <1>2 DEF vars, loopVars, logVars, boxVars, planeVars
  <2>2. Typed'
    BY <2>1 DEF IInv, Typed, TypeOK
  <2>3. Numbers' /\ Blame'
    BY <2>1 DEF IInv, Numbers, Counted, Blame
  <2> QED BY <2>2, <2>3 DEF IInv
<1> QED BY <1>1, <1>2

LEMMA Invariance == Spec => []IInv
BY InitHolds, NextKeeps, PTL DEF Spec

(* orchestrate.ts, verify.ts and run.ts keep every variable in its range: no attempt
   past plan.maxAttempts, nothing shipped that was not returned, and a pull request
   only ever for a commit an agent handed over. *)
THEOREM TypeCorrect == Spec => []TypeOK
<1>1. IInv => TypeOK
  BY DEF IInv, Typed
<1> QED BY <1>1, Invariance, PTL

(* orchestrate.ts, afterSeq: through any number of attempts, containers cut short,
   ends held back, dropped and given back, the log is numbered as fold() demands. *)
THEOREM LogStaysWellNumbered == Spec => []LogIsWellNumbered
<1>1. IInv => LogIsWellNumbered
  BY DEF IInv, Numbers, Counted, LogIsWellNumbered
<1> QED BY <1>1, Invariance, PTL

(* ADR-0009, endedBy, fold.ts RUN_ENDED: `errored` is taken on trust, and no agent,
   reproduction or result leads to it: a failure of ours came first. *)
THEOREM OnlyWeChooseErrored == Spec => []AgentCannotChooseErrored
<1>1. IInv => AgentCannotChooseErrored
  BY OrchestrateAssumption DEF IInv, Typed, TypeOK, Blame, AgentCannotChooseErrored
<1> QED BY <1>1, Invariance, PTL

-----------------------------------------------------------------------------
(***************************************************************************)
(* What a log tells of each attempt, up to any of its positions.           *)
(***************************************************************************)
Owner(l, i) ==
  LET starts == {j \in 1..i : l[j].type = "ATTEMPT_STARTED"}
  IN IF starts = {} THEN 0 ELSE l[Latest(starts)].n

IsTest(e, phase) == e.type = "TEST_RUN" /\ e.phase = phase
IsRegistration(e) == e.type = "REPRO_REGISTERED"
IsFixHandOver(e) == e.type = "AGENT_HANDED_OVER" /\ e.kind # "repro"
IsBase(e) == IsTest(e, "base") \/ IsRegistration(e)
IsFix(e) == IsTest(e, "fix") \/ IsFixHandOver(e)
IsWitness(e) ==
  \/ e.type = "FIX_DIFF_OBSERVED"
  \/ /\ e.type = "VERIFICATION_ABORTED" /\ e.cause = "none"
     /\ e.phase \in {"diff", "cleanup"}

Tests(l, a, phase, k) == {i \in 1..k : IsTest(l[i], phase) /\ Owner(l, i) = a}
Registrations(l, a, k) == {i \in 1..k : IsRegistration(l[i]) /\ Owner(l, i) = a}
HandOvers(l, a, k) == {i \in 1..k : IsFixHandOver(l[i]) /\ Owner(l, i) = a}
Witnesses(l, a, k) == {i \in 1..k : IsWitness(l[i]) /\ Owner(l, i) = a}
Given(l, a, k) == {l[i].bytes : i \in Registrations(l, a, k)}

ShownUpTo(l, a, k) ==
  /\ Cardinality(Tests(l, a, "base", k)) = BaseDraws
  /\ \A i \in Tests(l, a, "base", k) :
       l[i].result = "failed" /\ l[i].matched /\ {l[i].bytes} = Given(l, a, k)

FixedUpTo(l, a, c, k) ==
  /\ Cardinality(Tests(l, a, "fix", k)) = FixDraws
  /\ \A i \in Tests(l, a, "fix", k) :
       l[i].result = "passed" /\ l[i].commit = c /\ {l[i].bytes} = Given(l, a, k)

\* A fix is only looked at once the bug was shown; nothing of the base phase
\* follows it; whoever says that the series was run to its end says so after all
\* of it; and there was a commit to look at.
GateHeld(l) == \A i \in 1..Len(l) : IsFix(l[i]) => ShownUpTo(l, Owner(l, i), i)
BaseIsOver(l) ==
  \A i, j \in 1..Len(l) : IsFix(l[i]) /\ IsBase(l[j]) /\ i < j => Owner(l, i) # Owner(l, j)
SeriesIsWhole(l) ==
  \A i, j \in 1..Len(l) :
    IsTest(l[i], "fix") /\ IsWitness(l[j]) /\ Owner(l, i) = Owner(l, j)
    => i < j /\ Cardinality(Tests(l, Owner(l, j), "fix", j)) = FixDraws
FixIsHandedOver(l) ==
  \A i \in 1..Len(l) : IsTest(l[i], "fix") => HandOvers(l, Owner(l, i), i) # {}

Story(l) == GateHeld(l) /\ BaseIsOver(l) /\ SeriesIsWhole(l) /\ FixIsHandedOver(l)

-----------------------------------------------------------------------------
(***************************************************************************)
(* Where the run is.                                                       *)
(***************************************************************************)
\* The log, if the container that is running left now all that it observed.
Told == log \o stream

NoFixYet(l, a) ==
  /\ Tests(l, a, "fix", Len(l)) = {}
  /\ HandOvers(l, a, Len(l)) = {}
  /\ Witnesses(l, a, Len(l)) = {}

\* How far an attempt has come, by what the log has of it.
Untested(l, a) ==
  NoFixYet(l, a) /\ Tests(l, a, "base", Len(l)) = {} /\ Registrations(l, a, Len(l)) = {}
Drawn(l, a, k, given) ==
  /\ NoFixYet(l, a)
  /\ Cardinality(Tests(l, a, "base", Len(l))) = k
  /\ Given(l, a, Len(l)) = given
Shown(l, a) ==
  /\ ShownUpTo(l, a, Len(l))
  /\ Tests(l, a, "fix", Len(l)) = {}
  /\ Witnesses(l, a, Len(l)) = {}
Fixing(l, a, k) ==
  /\ ShownUpTo(l, a, Len(l))
  /\ HandOvers(l, a, Len(l)) # {}
  /\ Cardinality(Tests(l, a, "fix", Len(l))) = k

\* How far verify() is.
BaseSteps ==
  \/ step \in {"setup", "apply"} /\ draws = 0
  \/ step = "draw" /\ draws < BaseDraws
  \/ step \in {"suite", "control", "cleanup"} /\ draws = BaseDraws
FixSteps ==
  \/ step \in {"setup", "apply", "switch"} /\ draws = 0
  \/ step = "draw" /\ draws < FixDraws
  \/ step \in {"suite", "diff", "cleanup"} /\ draws = FixDraws

Stage ==
  /\ pc = "reproducing" => Untested(Told, n)
  /\ pc = "base" =>
       BaseSteps /\ Drawn(Told, n, draws, IF step \in {"setup", "apply"} THEN {} ELSE {repro})
  /\ pc = "gate" => Drawn(Told, n, BaseDraws, {repro})
  /\ pc = "fixing" => Shown(Told, n)
  /\ pc = "fix" =>
       /\ FixSteps /\ Fixing(Told, n, draws)
       /\ Witnesses(Told, n, Len(Told)) # {} => step = "cleanup"

\* Only a container that is running has anything to leave.
Contained ==
  /\ pc \notin {"base", "fix", "threw"} => stream = <<>>
  /\ \A i \in 1..Len(stream) : stream[i].type \notin {"ATTEMPT_STARTED", "RUN_ENDED"}

Looping == {"requested", "attempt", "reproducing", "base", "gate", "fixing", "fix", "closing",
            "over"}

\* Attempts are counted up, and the last one of the log is this one.
Ordered(l, a) ==
  /\ Owner(l, Len(l)) = a
  /\ \A i, j \in 1..Len(l) : i <= j => Owner(l, i) <= Owner(l, j)

\* A run that was blocked looked at nothing.
Blocked(l) == \A i \in 1..Len(l) : l[i].type \notin {"TEST_RUN", "AGENT_HANDED_OVER"}

Attempted == Ordered(log, n) \/ (pc \notin Looping /\ Blocked(log))

\* No attempt before this one, and none at all where another begins, earned the credit.
Earned(l, a) == ShownIn(l, a) /\ FixedIn(l, a)
Uncredited ==
  \A a \in 1..n : a < n \/ pc = "attempt" => ~Earned(log, a)

\* The log ends where it says so, and has no end only for a pull request.
OnlyLast(l) == \A i \in 1..Len(l) : l[i].type = "RUN_ENDED" => i = Len(l)
Unended(l) == \A i \in 1..Len(l) : l[i].type # "RUN_ENDED"
Ending ==
  /\ IF pc \in Looping THEN Unended(log) ELSE OnlyLast(log)
  /\ pc = "over" /\ ended = NoEnd => FoldOf(log).credited # 0
  /\ pc \notin Looping \cup {"threw"} =>
       FoldOf(log).credited # 0 \/ ~Unended(log)

Finals == {"pr_opened", "unresolved", "blocked", "errored"}

\* The plane holds what it was sent of the log, folded.
Copied ==
  /\ pc \in Looping => sent = 0
  /\ Listed(SubSeq(log, 1, sent), seen)
  /\ pc \notin {"ending", "answered", "threw"} =>
       (seen.ended = "no" <=> ~Closed(SubSeq(log, 1, sent)))
  /\ seen.ended # "no" => seen.status \in Finals
  /\ pc \in {"pushing", "opening"} => Offers(seen) /\ sent = Len(log)

\* A commit that one of the first k attempts of a log proved.
Backed(l, k, c) ==
  c # NoCommit => \E a \in 1..k : ShownUpTo(l, a, Len(l)) /\ FixedUpTo(l, a, c, Len(l))

Proved ==
  /\ Backed(log, n, pull)
  /\ pull # NoCommit => pc \in {"recording", "ending", "answered", "threw"}

StoryIsTold == Story(Told)

Tale ==
  /\ StoryIsTold /\ Stage /\ Contained /\ Attempted /\ Uncredited /\ Ending /\ Copied /\ Proved
  /\ AnswersAreFinal

-----------------------------------------------------------------------------
(***************************************************************************)
(* Logs that tell the same.                                                *)
(***************************************************************************)
\* A number is no news.
LEMMA NumbersAreNoNews ==
  ASSUME NEW e \in Events, NEW k \in Nat
  PROVE  SameNews(e, At(k, e)) /\ SameNews(At(k, e), e)
BY DEF SameNews, At, Events, Observed, Ends

LEMMA NewsAreKinds ==
  ASSUME NEW e, NEW f, SameNews(e, f)
  PROVE  /\ \A phase : IsTest(e, phase) <=> IsTest(f, phase)
         /\ IsRegistration(e) <=> IsRegistration(f)
         /\ IsFixHandOver(e) <=> IsFixHandOver(f)
         /\ IsWitness(e) <=> IsWitness(f)
         /\ IsBase(e) <=> IsBase(f)
         /\ IsFix(e) <=> IsFix(f)
BY DEF SameNews, IsTest, IsRegistration, IsFixHandOver, IsWitness, IsBase, IsFix

\* m begins with the news of l.
Begins(l, m) == Len(l) <= Len(m) /\ \A i \in 1..Len(l) : SameNews(l[i], m[i])

LEMMA OwnersStay ==
  ASSUME NEW l \in Seq(Events), NEW m \in Seq(Events), Begins(l, m)
  PROVE  \A i \in 0..Len(l) : Owner(l, i) = Owner(m, i)
<1> SUFFICES ASSUME NEW i \in 0..Len(l) PROVE Owner(l, i) = Owner(m, i)
  OBVIOUS
<1> DEFINE starts == {j \in 1..i : l[j].type = "ATTEMPT_STARTED"}
<1>1. Len(l) \in Nat /\ \A j \in 1..i : j \in 1..Len(l)
  BY LenProperties
<1>2. \A j \in 1..i : SameNews(l[j], m[j])
  BY <1>1 DEF Begins
<1>3. starts = {j \in 1..i : m[j].type = "ATTEMPT_STARTED"}
  BY <1>2 DEF SameNews
<1>4. starts # {} => Latest(starts) \in starts
  <2>1. i \in Nat /\ starts \subseteq 1..i
    BY <1>1
  <2> HIDE DEF starts
  <2> QED BY <2>1, LatestIs
<1>5. starts # {} => l[Latest(starts)].n = m[Latest(starts)].n
  BY <1>2, <1>4 DEF SameNews
<1>6. /\ Owner(l, i) = IF starts = {} THEN 0 ELSE l[Latest(starts)].n
      /\ Owner(m, i) = IF starts = {} THEN 0 ELSE m[Latest(starts)].n
  BY <1>3 DEF Owner
<1> QED BY <1>5, <1>6

\* What is told up to a position of l is told up to it in m.
LEMMA TaleStays ==
  ASSUME NEW l \in Seq(Events), NEW m \in Seq(Events), Begins(l, m),
         NEW k \in 0..Len(l), NEW a
  PROVE  /\ \A phase : Tests(l, a, phase, k) = Tests(m, a, phase, k)
         /\ Registrations(l, a, k) = Registrations(m, a, k)
         /\ HandOvers(l, a, k) = HandOvers(m, a, k)
         /\ Witnesses(l, a, k) = Witnesses(m, a, k)
         /\ Given(l, a, k) = Given(m, a, k)
         /\ ShownUpTo(l, a, k) <=> ShownUpTo(m, a, k)
         /\ \A c : FixedUpTo(l, a, c, k) <=> FixedUpTo(m, a, c, k)
<1>1. Len(l) \in Nat /\ \A i \in 1..k : i \in 1..Len(l) /\ i \in 0..Len(l)
  BY LenProperties
<1>2. \A i \in 1..k : SameNews(l[i], m[i]) /\ Owner(l, i) = Owner(m, i)
  BY <1>1, OwnersStay DEF Begins
<1>3. \A i \in 1..k : /\ \A phase : IsTest(l[i], phase) <=> IsTest(m[i], phase)
                      /\ IsRegistration(l[i]) <=> IsRegistration(m[i])
                      /\ IsFixHandOver(l[i]) <=> IsFixHandOver(m[i])
                      /\ IsWitness(l[i]) <=> IsWitness(m[i])
  BY <1>2, NewsAreKinds
<1>4. \A phase : Tests(l, a, phase, k) = Tests(m, a, phase, k)
  BY <1>2, <1>3 DEF Tests
<1>5. /\ Registrations(l, a, k) = Registrations(m, a, k)
      /\ HandOvers(l, a, k) = HandOvers(m, a, k)
      /\ Witnesses(l, a, k) = Witnesses(m, a, k)
  BY <1>2, <1>3 DEF Registrations, HandOvers, Witnesses
<1>6. Given(l, a, k) = Given(m, a, k)
  <2>1. \A i \in Registrations(l, a, k) : l[i].bytes = m[i].bytes
    BY <1>2 DEF Registrations, IsRegistration, SameNews
  <2> QED BY <1>5, <2>1 DEF Given
<1>7. \A phase : \A i \in Tests(l, a, phase, k) :
        /\ l[i].result = m[i].result /\ l[i].matched = m[i].matched
        /\ l[i].bytes = m[i].bytes /\ l[i].commit = m[i].commit
  BY <1>2 DEF Tests, IsTest, SameNews
<1>8. ShownUpTo(l, a, k) <=> ShownUpTo(m, a, k)
  BY <1>4, <1>6, <1>7 DEF ShownUpTo
<1>9. \A c : FixedUpTo(l, a, c, k) <=> FixedUpTo(m, a, c, k)
  BY <1>4, <1>6, <1>7 DEF FixedUpTo
<1> QED BY <1>4, <1>5, <1>6, <1>8, <1>9

\* A story can be told up to any of its positions.
LEMMA StoriesBegin ==
  ASSUME NEW l \in Seq(Events), NEW m \in Seq(Events), Begins(l, m), Story(m)
  PROVE  Story(l)
<1>1. /\ Len(l) \in Nat /\ Len(m) \in Nat
      /\ \A i \in 1..Len(l) : i \in 0..Len(l) /\ i \in 1..Len(m)
  BY LenProperties DEF Begins
<1>2. \A i \in 1..Len(l) : Owner(l, i) = Owner(m, i)
  BY <1>1, OwnersStay
<1>3. \A i \in 1..Len(l) : /\ \A phase : IsTest(l[i], phase) <=> IsTest(m[i], phase)
                           /\ IsBase(l[i]) <=> IsBase(m[i])
                           /\ IsFix(l[i]) <=> IsFix(m[i])
                           /\ IsWitness(l[i]) <=> IsWitness(m[i])
  BY NewsAreKinds DEF Begins
<1>4. \A i \in 1..Len(l) : \A a :
        /\ Tests(l, a, "fix", i) = Tests(m, a, "fix", i)
        /\ HandOvers(l, a, i) = HandOvers(m, a, i)
        /\ ShownUpTo(l, a, i) <=> ShownUpTo(m, a, i)
  BY <1>1, TaleStays
<1>5. GateHeld(l)
  BY <1>1, <1>2, <1>3, <1>4 DEF Story, GateHeld
<1>6. BaseIsOver(l)
  BY <1>1, <1>2, <1>3 DEF Story, BaseIsOver
<1>7. SeriesIsWhole(l)
  BY <1>1, <1>2, <1>3, <1>4 DEF Story, SeriesIsWhole
<1>8. FixIsHandedOver(l)
  BY <1>1, <1>2, <1>3, <1>4 DEF Story, FixIsHandedOver
<1> QED BY <1>5, <1>6, <1>7, <1>8 DEF Story

-----------------------------------------------------------------------------
(***************************************************************************)
(* One more event.                                                         *)
(***************************************************************************)
LEMMA AppendBegins ==
  ASSUME NEW l \in Seq(Events), NEW e \in Events
  PROVE  /\ Append(l, e) \in Seq(Events)
         /\ Len(l) \in Nat /\ Len(Append(l, e)) = Len(l) + 1
         /\ \A i \in 1..Len(l) : Append(l, e)[i] = l[i]
         /\ Append(l, e)[Len(l) + 1] = e
         /\ Begins(l, Append(l, e))
<1>1. /\ Append(l, e) \in Seq(Events)
      /\ Len(l) \in Nat /\ Len(Append(l, e)) = Len(l) + 1
      /\ \A i \in 1..Len(l) : Append(l, e)[i] = l[i]
      /\ Append(l, e)[Len(l) + 1] = e
  BY AppendProperties, LenProperties
<1>2. Begins(l, Append(l, e))
  BY <1>1 DEF Begins, SameNews
<1> QED BY <1>1, <1>2

\* Whom the next event belongs to.
LEMMA OwnersGrow ==
  ASSUME NEW l \in Seq(Events), NEW e \in Events
  PROVE  LET m == Append(l, e) IN
         /\ \A i \in 0..Len(l) : Owner(m, i) = Owner(l, i)
         /\ Owner(m, Len(l) + 1) = IF e.type = "ATTEMPT_STARTED" THEN e.n ELSE Owner(l, Len(l))
<1> DEFINE m == Append(l, e)
           N == Len(l)
           old == {j \in 1..N : l[j].type = "ATTEMPT_STARTED"}
           new == {j \in 1..(N + 1) : m[j].type = "ATTEMPT_STARTED"}
<1>1. /\ m \in Seq(Events) /\ Len(l) \in Nat /\ Len(m) = N + 1 /\ Begins(l, m)
      /\ \A i \in 1..N : m[i] = l[i]
      /\ m[N + 1] = e
  BY AppendBegins
<1> HIDE DEF m
<1>2. \A i \in 0..Len(l) : Owner(m, i) = Owner(l, i)
  BY <1>1, OwnersStay
<1>3. new = old \cup (IF e.type = "ATTEMPT_STARTED" THEN {N + 1} ELSE {})
  BY <1>1
<1>4. /\ Owner(l, N) = IF old = {} THEN 0 ELSE l[Latest(old)].n
      /\ Owner(m, N + 1) = IF new = {} THEN 0 ELSE m[Latest(new)].n
  BY DEF Owner
<1>5. old \subseteq 1..N /\ new \subseteq 1..(N + 1) /\ N \in Nat /\ N + 1 \in Nat
  BY <1>1
<1> HIDE DEF old, new
<1>6. CASE e.type = "ATTEMPT_STARTED"
  <2>1. new # {} /\ N + 1 \in new
    BY <1>3, <1>6
  <2>2. Latest(new) \in new /\ \A j \in new : j <= Latest(new)
    BY <1>5, <2>1, LatestIs
  <2>3. Latest(new) = N + 1
    <3>1. Latest(new) \in 1..(N + 1) /\ N + 1 <= Latest(new)
      BY <1>5, <2>1, <2>2
    <3> HIDE DEF N
    <3> QED BY <1>5, <3>1
  <2> QED BY <1>1, <1>2, <1>4, <1>6, <2>1, <2>3 DEF m
<1>7. CASE e.type # "ATTEMPT_STARTED"
  <2>1. new = old
    BY <1>3, <1>7
  <2>2. old # {} => Latest(old) \in old
    BY <1>5, LatestIs
  <2>3. old # {} => m[Latest(old)] = l[Latest(old)]
    BY <1>1, <1>5, <2>2
  <2>4. Owner(m, N + 1) = Owner(l, N)
    BY <1>4, <2>1, <2>3
  <2> QED BY <1>2, <1>7, <2>4 DEF m
<1> QED BY <1>6, <1>7

\* What the next event adds to the tale.
LEMMA TaleGrows ==
  ASSUME NEW l \in Seq(Events), NEW e \in Events, NEW a
  PROVE  LET m == Append(l, e)
             here == Owner(m, Len(l) + 1) = a
         IN
         /\ \A phase : Tests(m, a, phase, Len(m)) =
              Grown(Tests(l, a, phase, Len(l)), IsTest(e, phase) /\ here, Len(l) + 1)
         /\ Registrations(m, a, Len(m)) =
              Grown(Registrations(l, a, Len(l)), IsRegistration(e) /\ here, Len(l) + 1)
         /\ HandOvers(m, a, Len(m)) =
              Grown(HandOvers(l, a, Len(l)), IsFixHandOver(e) /\ here, Len(l) + 1)
         /\ Witnesses(m, a, Len(m)) =
              Grown(Witnesses(l, a, Len(l)), IsWitness(e) /\ here, Len(l) + 1)
         /\ Given(m, a, Len(m)) =
              Grown(Given(l, a, Len(l)), IsRegistration(e) /\ here, e.bytes)
<1> DEFINE m == Append(l, e)
           N == Len(l)
           here == Owner(m, N + 1) = a
<1>1. /\ m \in Seq(Events) /\ N \in Nat /\ Len(m) = N + 1
      /\ \A i \in 1..N : m[i] = l[i]
      /\ m[N + 1] = e
  BY AppendBegins
<1>2. \A i \in 1..N : Owner(m, i) = Owner(l, i)
  BY <1>1, OwnersGrow
<1> HIDE DEF m, N, here
<1>3. \A i : i \in 1..(N + 1) <=> i \in 1..N \/ i = N + 1
  BY <1>1
<1>4. \A phase : Tests(m, a, phase, N + 1) =
                   Grown(Tests(l, a, phase, N), IsTest(e, phase) /\ here, N + 1)
  BY <1>1, <1>2, <1>3 DEF Tests, Grown, here
<1>5. Registrations(m, a, N + 1) =
        Grown(Registrations(l, a, N), IsRegistration(e) /\ here, N + 1)
  BY <1>1, <1>2, <1>3 DEF Registrations, Grown, here
<1>6. HandOvers(m, a, N + 1) = Grown(HandOvers(l, a, N), IsFixHandOver(e) /\ here, N + 1)
  BY <1>1, <1>2, <1>3 DEF HandOvers, Grown, here
<1>7. Witnesses(m, a, N + 1) = Grown(Witnesses(l, a, N), IsWitness(e) /\ here, N + 1)
  BY <1>1, <1>2, <1>3 DEF Witnesses, Grown, here
<1>8. Given(m, a, N + 1) = Grown(Given(l, a, N), IsRegistration(e) /\ here, e.bytes)
  <2>1. \A i \in Registrations(l, a, N) : m[i].bytes = l[i].bytes
    BY <1>1 DEF Registrations
  <2> QED BY <1>1, <1>5, <2>1 DEF Given, Grown
<1> QED BY <1>1, <1>4, <1>5, <1>6, <1>7, <1>8 DEF m, N, here

\* A position more, where there is nothing of the kind.
LEMMA ShownStays ==
  ASSUME NEW l \in Seq(Events), NEW e \in Events, NEW a, ~IsBase(e)
  PROVE  ShownUpTo(Append(l, e), a, Len(l) + 1) <=> ShownUpTo(l, a, Len(l))
<1> DEFINE m == Append(l, e)
           N == Len(l)
<1>1. N \in Nat /\ Len(m) = N + 1 /\ \A i \in 1..N : m[i] = l[i]
  BY AppendBegins
<1>2. Tests(m, a, "base", Len(m)) = Tests(l, a, "base", N) /\ Given(m, a, Len(m)) = Given(l, a, N)
  <2>1. ~IsTest(e, "base") /\ ~IsRegistration(e)
    BY DEF IsBase
  <2>2. /\ Tests(m, a, "base", Len(m)) =
             Grown(Tests(l, a, "base", N), IsTest(e, "base") /\ Owner(m, N + 1) = a, N + 1)
        /\ Given(m, a, Len(m)) =
             Grown(Given(l, a, N), IsRegistration(e) /\ Owner(m, N + 1) = a, e.bytes)
    BY TaleGrows
  <2> QED BY <2>1, <2>2 DEF Grown
<1>3. \A i \in Tests(l, a, "base", N) : m[i] = l[i]
  BY <1>1 DEF Tests
<1> HIDE DEF m, N
<1>4. ShownUpTo(m, a, N + 1) <=> ShownUpTo(l, a, N)
  BY <1>1, <1>2, <1>3 DEF ShownUpTo
<1> QED BY <1>4 DEF m, N

\* The story goes on with an event for which the log is ready.
Fits(l, e) ==
  LET a == Owner(l, Len(l))
      fixes == Tests(l, a, "fix", Len(l))
  IN /\ IsBase(e) => fixes = {} /\ HandOvers(l, a, Len(l)) = {}
     /\ IsFix(e) => ShownUpTo(l, a, Len(l))
     /\ IsTest(e, "fix") => HandOvers(l, a, Len(l)) # {} /\ Witnesses(l, a, Len(l)) = {}
     /\ IsWitness(e) /\ fixes # {} => Cardinality(fixes) = FixDraws

LEMMA StoryGrows ==
  ASSUME NEW l \in Seq(Events), NEW e \in Events, Story(l), Fits(l, e)
  PROVE  Story(Append(l, e))
<1> DEFINE m == Append(l, e)
           N == Len(l)
           a == Owner(l, N)
<1>1. /\ m \in Seq(Events) /\ N \in Nat /\ Len(m) = N + 1 /\ Begins(l, m)
      /\ \A i \in 1..N : m[i] = l[i]
      /\ m[N + 1] = e
  BY AppendBegins
<1>2. \A i \in 1..N : Owner(m, i) = Owner(l, i)
  BY <1>1, OwnersGrow
<1>3. e.type # "ATTEMPT_STARTED" => Owner(m, N + 1) = a
  BY OwnersGrow
<1>4. \A i \in 1..N : \A b :
        /\ Tests(l, b, "fix", i) = Tests(m, b, "fix", i)
        /\ HandOvers(l, b, i) = HandOvers(m, b, i)
        /\ ShownUpTo(l, b, i) <=> ShownUpTo(m, b, i)
  <2> HIDE DEF m
  <2>1. ASSUME NEW i \in 1..N, NEW b
        PROVE  /\ Tests(l, b, "fix", i) = Tests(m, b, "fix", i)
               /\ HandOvers(l, b, i) = HandOvers(m, b, i)
               /\ ShownUpTo(l, b, i) <=> ShownUpTo(m, b, i)
    <3>1. i \in 0..Len(l) /\ m \in Seq(Events) /\ Begins(l, m)
      BY <1>1
    <3> HIDE DEF N, a
    <3>2. \A phase : Tests(l, b, phase, i) = Tests(m, b, phase, i)
      BY <3>1, TaleStays
    <3>3. HandOvers(l, b, i) = HandOvers(m, b, i)
      BY <3>1, TaleStays
    <3>4. ShownUpTo(l, b, i) <=> ShownUpTo(m, b, i)
      BY <3>1, TaleStays
    <3> QED BY <3>2, <3>3, <3>4
  <2> QED BY <2>1
<1>5. ~IsBase(e) => (ShownUpTo(m, a, N + 1) <=> ShownUpTo(l, a, N))
  <2> HIDE DEF a
  <2> QED BY ShownStays
<1>a. /\ \A phase : Tests(m, a, phase, N + 1) =
              Grown(Tests(l, a, phase, N), IsTest(e, phase) /\ Owner(m, N + 1) = a, N + 1)
      /\ HandOvers(m, a, N + 1) =
              Grown(HandOvers(l, a, N), IsFixHandOver(e) /\ Owner(m, N + 1) = a, N + 1)
  <2> HIDE DEF a
  <2>1. /\ \A phase : Tests(m, a, phase, Len(m)) =
              Grown(Tests(l, a, phase, N), IsTest(e, phase) /\ Owner(m, N + 1) = a, N + 1)
        /\ HandOvers(m, a, Len(m)) =
              Grown(HandOvers(l, a, N), IsFixHandOver(e) /\ Owner(m, N + 1) = a, N + 1)
    BY TaleGrows
  <2> QED BY <1>1, <2>1
<1> HIDE DEF m, N
<1>6. \A i \in 1..(N + 1) : i \in 1..N \/ i = N + 1
  BY <1>1
<1>7. /\ IsFix(e) => ~IsBase(e) /\ ~IsWitness(e) /\ e.type # "ATTEMPT_STARTED"
      /\ IsBase(e) => ~IsFix(e) /\ ~IsWitness(e) /\ e.type # "ATTEMPT_STARTED"
      /\ IsWitness(e) => ~IsFix(e) /\ ~IsBase(e) /\ e.type # "ATTEMPT_STARTED"
      /\ IsTest(e, "fix") => IsFix(e) /\ ~IsFixHandOver(e)
  BY DEF IsFix, IsBase, IsWitness, IsTest, IsRegistration, IsFixHandOver
<1>8. GateHeld(m)
  <2> SUFFICES ASSUME NEW i \in 1..(N + 1), IsFix(m[i]) PROVE ShownUpTo(m, Owner(m, i), i)
    BY <1>1 DEF GateHeld
  <2>1. CASE i \in 1..N
    BY <1>1, <1>2, <1>4, <2>1 DEF Story, GateHeld, N
  <2>2. CASE i = N + 1
    BY <1>1, <1>3, <1>5, <1>7, <2>2 DEF Fits, N
  <2> QED BY <1>6, <2>1, <2>2
<1>9. BaseIsOver(m)
  <2> SUFFICES ASSUME NEW i \in 1..(N + 1), NEW j \in 1..(N + 1),
                      IsFix(m[i]), IsBase(m[j]), i < j
               PROVE  Owner(m, i) # Owner(m, j)
    BY <1>1 DEF BaseIsOver
  <2>0. i \in 1..N
    BY <1>1
  <2>1. CASE j \in 1..N
    BY <1>1, <1>2, <2>0, <2>1 DEF Story, BaseIsOver, N
  <2>2. CASE j = N + 1
    <3>1. Tests(l, a, "fix", N) = {} /\ HandOvers(l, a, N) = {} /\ Owner(m, j) = a
      BY <1>1, <1>3, <1>7, <2>2 DEF Fits, N
    <3>2. Owner(l, i) # a
      BY <1>1, <2>0, <3>1 DEF IsFix, Tests, HandOvers
    <3> QED BY <1>2, <2>0, <3>1, <3>2
  <2> QED BY <1>6, <2>1, <2>2
<1>10. SeriesIsWhole(m)
  <2> SUFFICES ASSUME NEW i \in 1..(N + 1), NEW j \in 1..(N + 1),
                      IsTest(m[i], "fix"), IsWitness(m[j]), Owner(m, i) = Owner(m, j)
               PROVE  i < j /\ Cardinality(Tests(m, Owner(m, j), "fix", j)) = FixDraws
    BY <1>1 DEF SeriesIsWhole
  <2>1. CASE i \in 1..N /\ j \in 1..N
    BY <1>1, <1>2, <1>4, <2>1 DEF Story, SeriesIsWhole, N
  <2>2. CASE i = N + 1 /\ j = N + 1
    BY <1>1, <1>7, <2>2
  <2>3. CASE i = N + 1 /\ j \in 1..N
    <3>1. Witnesses(l, a, N) = {} /\ Owner(m, i) = a
      BY <1>1, <1>3, <1>7, <2>3 DEF Fits, N
    <3> QED BY <1>1, <1>2, <2>3, <3>1 DEF Witnesses
  <2>4. CASE i \in 1..N /\ j = N + 1
    <3>1. Owner(m, j) = a
      BY <1>1, <1>3, <1>7, <2>4
    <3>2. i \in Tests(l, a, "fix", N)
      BY <1>1, <1>2, <2>4, <3>1 DEF Tests
    <3>3. Cardinality(Tests(l, a, "fix", N)) = FixDraws
      BY <1>1, <2>4, <3>2 DEF Fits, N
    <3>4. Tests(m, a, "fix", N + 1) = Tests(l, a, "fix", N)
      BY <1>1, <1>a, <1>7, <2>4 DEF Grown
    <3>5. i < N + 1
      BY <1>1, <2>4
    <3> QED BY <2>4, <3>1, <3>3, <3>4, <3>5
  <2> QED BY <1>6, <2>1, <2>2, <2>3, <2>4
<1>11. FixIsHandedOver(m)
  <2> SUFFICES ASSUME NEW i \in 1..(N + 1), IsTest(m[i], "fix")
               PROVE  HandOvers(m, Owner(m, i), i) # {}
    BY <1>1 DEF FixIsHandedOver
  <2>1. CASE i \in 1..N
    BY <1>1, <1>2, <1>4, <2>1 DEF Story, FixIsHandedOver, N
  <2>2. CASE i = N + 1
    <3>1. HandOvers(l, a, N) # {} /\ Owner(m, i) = a
      BY <1>1, <1>3, <1>7, <2>2 DEF Fits, N
    <3> QED BY <1>a, <2>2, <3>1 DEF Grown
  <2> QED BY <1>6, <2>1, <2>2
<1> QED BY <1>8, <1>9, <1>10, <1>11 DEF Story, m

\* What the properties read in the log is what is read here.
LEMMA LogsAreRead ==
  /\ \A i : AttemptOf(i) = Owner(log, i)
  /\ \A a, k : ShownBy(a, k) <=> ShownUpTo(log, a, k)
  /\ \A a, c, k : FixedBy(a, c, k) <=> FixedUpTo(log, a, c, k)
<1>1. \A i : AttemptOf(i) = Owner(log, i)
  BY DEF AttemptOf, Owner, Latest
<1>2. \A a, phase, k : TestsIn(a, phase, k) = Tests(log, a, phase, k)
  BY <1>1 DEF TestsIn, Tests, IsTest
<1>3. \A a, k : RegisteredIn(a, k) = Given(log, a, k)
  BY <1>1 DEF RegisteredIn, Given, Registrations, IsRegistration
<1> QED BY <1>1, <1>2, <1>3 DEF ShownBy, FixedBy, ShownUpTo, FixedUpTo

LEMMA ProofsAreRead == Backed(log, n, pull) <=> PullRequestsAreProved
BY LogsAreRead DEF Backed, PullRequestsAreProved

LEMMA OwnersAreNat ==
  ASSUME NEW l \in Seq(Events), NEW i \in 1..Len(l)
  PROVE  Owner(l, i) \in Nat
<1> DEFINE starts == {j \in 1..i : l[j].type = "ATTEMPT_STARTED"}
<1>1. CASE starts = {}
  BY <1>1 DEF Owner
<1>2. CASE starts # {}
  <2>1. Len(l) \in Nat
    BY LenProperties
  <2>2. i \in Nat /\ starts \subseteq 1..i
    BY <2>1
  <2>3. Latest(starts) \in starts
    BY <1>2, <2>2, LatestIs
  <2>4. Latest(starts) \in 1..Len(l)
    BY <2>1, <2>3
  <2>5. l[Latest(starts)] \in Events
    BY <2>4, ElementOfSeq
  <2>6. l[Latest(starts)].n \in Nat
    BY <2>3, <2>5 DEF Events, Observed, Ends
  <2> QED BY <1>2, <2>6 DEF Owner
<1> QED BY <1>1, <1>2

-----------------------------------------------------------------------------
(***************************************************************************)
(* The same, in the terms of Evidence.                                     *)
(***************************************************************************)
\* A log that no end interrupts: every event counts.
LEMMA WithinIs ==
  ASSUME NEW l \in Seq(Events), OnlyLast(l), NEW type, type # "ATTEMPT_STARTED"
  PROVE  \A a : Within(l, type, a) = {i \in 1..Len(l) : l[i].type = type /\ Owner(l, i) = a}
<1>1. Len(l) \in Nat /\ DOMAIN l = 1..Len(l)
  BY LenProperties
<1>2. \A i \in 1..Len(l) : Counts(l, i)
  <2> SUFFICES ASSUME NEW i \in 1..Len(l), NEW j \in 1..(i - 1) PROVE l[j].type # "RUN_ENDED"
    BY DEF Counts
  <2> DEFINE N == Len(l)
  <2>1. N \in Nat /\ i \in 1..N
    BY <1>1
  <2> HIDE DEF N
  <2>2. j \in 1..N /\ j # N
    BY <2>1
  <2> QED BY <2>2 DEF OnlyLast, N
<1>3. \A t : Positions(l, t) = {i \in 1..Len(l) : l[i].type = t}
  BY <1>1, <1>2 DEF Positions
<1>4. \A i \in 1..Len(l) : l[i].type # "ATTEMPT_STARTED" => AttemptAt(l, i) = Owner(l, i)
  <2> SUFFICES ASSUME NEW i \in 1..Len(l), l[i].type # "ATTEMPT_STARTED"
               PROVE  AttemptAt(l, i) = Owner(l, i)
    OBVIOUS
  <2>1. {j \in Positions(l, "ATTEMPT_STARTED") : j < i}
          = {j \in 1..i : l[j].type = "ATTEMPT_STARTED"}
    <3>1. \A j : j \in 1..Len(l) /\ j < i <=> j \in 1..i /\ j # i
      BY <1>1
    <3> QED BY <1>3, <3>1
  <2> QED BY <2>1 DEF AttemptAt, Owner
<1> QED BY <1>3, <1>4 DEF Within

\* What the verdict is made of.
LEMMA EvidenceIs ==
  ASSUME NEW l \in Seq(Events), OnlyLast(l), NEW a
  PROVE  /\ \A phase : TestsOf(l, a, phase) = Tests(l, a, phase, Len(l))
         /\ Within(l, "REPRO_REGISTERED", a) = Registrations(l, a, Len(l))
         /\ {h \in Within(l, "AGENT_HANDED_OVER", a) : l[h].kind # "repro"}
              = HandOvers(l, a, Len(l))
         /\ SeriesClosed(l, a) <=> Witnesses(l, a, Len(l)) # {}
         /\ Registrations(l, a, Len(l)) # {} => JudgedBytes(l, a) \in Given(l, a, Len(l))
<1>1. \A type : type # "ATTEMPT_STARTED" =>
        Within(l, type, a) = {i \in 1..Len(l) : l[i].type = type /\ Owner(l, i) = a}
  BY WithinIs
<1>2. \A phase : TestsOf(l, a, phase) = Tests(l, a, phase, Len(l))
  BY <1>1 DEF TestsOf, Tests, IsTest
<1>3. Within(l, "REPRO_REGISTERED", a) = Registrations(l, a, Len(l))
  BY <1>1 DEF Registrations, IsRegistration
<1>4. {h \in Within(l, "AGENT_HANDED_OVER", a) : l[h].kind # "repro"} = HandOvers(l, a, Len(l))
  BY <1>1 DEF HandOvers, IsFixHandOver
<1>5. SeriesClosed(l, a) <=> Witnesses(l, a, Len(l)) # {}
  <2>1. /\ Within(l, "FIX_DIFF_OBSERVED", a) =
             {i \in 1..Len(l) : l[i].type = "FIX_DIFF_OBSERVED" /\ Owner(l, i) = a}
        /\ Within(l, "VERIFICATION_ABORTED", a) =
             {i \in 1..Len(l) : l[i].type = "VERIFICATION_ABORTED" /\ Owner(l, i) = a}
    BY <1>1
  <2> QED BY <2>1 DEF SeriesClosed, Witnesses, IsWitness
<1>6. ASSUME Registrations(l, a, Len(l)) # {}
      PROVE  JudgedBytes(l, a) \in Given(l, a, Len(l))
  <2> DEFINE given == Registrations(l, a, Len(l))
  <2>1. Len(l) \in Nat /\ given \subseteq 1..Len(l) /\ given # {}
    BY <1>6, LenProperties DEF Registrations
  <2>2. JudgedBytes(l, a) = l[Latest(given)].bytes
    BY <1>3, <1>6 DEF JudgedBytes
  <2> HIDE DEF given
  <2>3. Latest(given) \in given
    BY <2>1, LatestIs
  <2> QED BY <2>2, <2>3 DEF Given, given
<1> QED BY <1>2, <1>3, <1>4, <1>5, <1>6

\* After the first look at a fix nothing is added to what was shown.
LEMMA ShownForGood ==
  ASSUME NEW l \in Seq(Events), Story(l), NEW i \in 1..Len(l), IsFix(l[i])
  PROVE  ShownUpTo(l, Owner(l, i), Len(l))
<1> DEFINE a == Owner(l, i)
           N == Len(l)
<1>1. N \in Nat /\ ShownUpTo(l, a, i)
  BY LenProperties DEF Story, GateHeld
<1>2. \A j \in 1..N : IsBase(l[j]) /\ Owner(l, j) = a => j \in 1..i
  <2> SUFFICES ASSUME NEW j \in 1..N, IsBase(l[j]), Owner(l, j) = a PROVE j \in 1..i
    OBVIOUS
  <2>1. ~(i < j)
    BY DEF Story, BaseIsOver
  <2> QED BY <1>1, <2>1
<1>3. \A j \in 1..i : j \in 1..N
  BY <1>1
<1> HIDE DEF N, a
<1>4. Tests(l, a, "base", N) = Tests(l, a, "base", i)
  BY <1>2, <1>3 DEF Tests, IsBase
<1>5. Given(l, a, N) = Given(l, a, i)
  BY <1>2, <1>3 DEF Given, Registrations, IsBase
<1>6. ShownUpTo(l, a, N)
  BY <1>1, <1>4, <1>5 DEF ShownUpTo
<1> QED BY <1>6 DEF N, a

\* What the fold credits in a log with such a story was run to the last draw.
LEMMA EarnedIsProved ==
  ASSUME NEW l \in Seq(Events), OnlyLast(l), Story(l), NEW a, Earned(l, a)
  PROVE  /\ ShownUpTo(l, a, Len(l))
         /\ HandOvers(l, a, Len(l)) # {}
         /\ \A h \in HandOvers(l, a, Len(l)) : FixedUpTo(l, a, l[h].commit, Len(l))
<1> DEFINE N == Len(l)
           fixes == Tests(l, a, "fix", N)
<1>1. /\ TestsOf(l, a, "fix") = fixes /\ TestsOf(l, a, "base") = Tests(l, a, "base", N)
      /\ SeriesClosed(l, a) <=> Witnesses(l, a, N) # {}
      /\ Within(l, "REPRO_REGISTERED", a) = Registrations(l, a, N)
      /\ {h \in Within(l, "AGENT_HANDED_OVER", a) : l[h].kind # "repro"} = HandOvers(l, a, N)
      /\ Registrations(l, a, N) # {} => JudgedBytes(l, a) \in Given(l, a, N)
  BY EvidenceIs
<1>2. PICK i \in fixes : TRUE
  BY <1>1 DEF Earned, FixedIn
<1>3. N \in Nat /\ \A k \in fixes : k \in 1..N /\ IsTest(l[k], "fix") /\ Owner(l, k) = a
  BY LenProperties DEF Tests
<1>4. ShownUpTo(l, a, N)
  BY <1>2, <1>3, ShownForGood DEF IsFix
<1>5. HandOvers(l, a, N) # {}
  <2>1. HandOvers(l, a, i) # {}
    BY <1>2, <1>3 DEF Story, FixIsHandedOver
  <2>2. \A h \in 1..i : h \in 1..N
    BY <1>2, <1>3
  <2> QED BY <2>1, <2>2 DEF HandOvers
<1>6. Cardinality(fixes) = FixDraws
  <2>1. PICK j \in Witnesses(l, a, N) : TRUE
    BY <1>1 DEF Earned, FixedIn
  <2>2. j \in 1..N /\ IsWitness(l[j]) /\ Owner(l, j) = a
    BY <2>1 DEF Witnesses
  <2>3. \A k \in fixes : k < j /\ Cardinality(Tests(l, a, "fix", j)) = FixDraws
    BY <1>3, <2>2 DEF Story, SeriesIsWhole
  <2>4. Tests(l, a, "fix", j) = fixes
    <3>1. \A k \in fixes : k \in 1..j
      BY <1>3, <2>2, <2>3
    <3>2. \A k \in 1..j : k \in 1..N
      BY <1>3, <2>2
    <3> QED BY <3>1, <3>2 DEF Tests
  <2> QED BY <1>2, <2>3, <2>4
<1>7. Given(l, a, N) = {JudgedBytes(l, a)}
  <2>1. PICK k \in Tests(l, a, "base", N) : TRUE
    BY <1>1 DEF Earned, ShownIn
  <2>2. Given(l, a, N) = {l[k].bytes}
    BY <1>4, <2>1 DEF ShownUpTo
  <2>3. Registrations(l, a, N) # {}
    BY <2>2 DEF Given
  <2> QED BY <1>1, <2>2, <2>3
<1>8. ASSUME NEW h \in HandOvers(l, a, N)
      PROVE  FixedUpTo(l, a, l[h].commit, N)
  <2>1. h \in Within(l, "AGENT_HANDED_OVER", a) /\ l[h].kind # "repro"
    BY <1>1, <1>8
  <2>2. \A k \in fixes : l[k].commit = l[h].commit
    BY <1>1, <2>1 DEF Earned, FixedIn
  <2>3. \A k \in fixes : l[k].result = "passed" /\ l[k].bytes = JudgedBytes(l, a)
    BY <1>1 DEF Earned, FixedIn, Ran
  <2> QED BY <1>6, <1>7, <2>2, <2>3 DEF FixedUpTo
<1> QED BY <1>4, <1>5, <1>8

\* The gate opens for an attempt all of whose draws showed the bug.
LEMMA GateTellsShown ==
  ASSUME NEW l \in Seq(Events), OnlyLast(l), NEW a, NEW b,
         ShownIn(l, a), Drawn(l, a, BaseDraws, {b})
  PROVE  Shown(l, a)
<1> DEFINE N == Len(l)
<1>1. /\ TestsOf(l, a, "base") = Tests(l, a, "base", N)
      /\ Registrations(l, a, N) # {} => JudgedBytes(l, a) \in Given(l, a, N)
  BY EvidenceIs
<1>2. Given(l, a, N) = {b} /\ Registrations(l, a, N) # {}
  BY DEF Drawn, Given
<1>3. \A i \in Tests(l, a, "base", N) :
        l[i].result = "failed" /\ l[i].matched /\ {l[i].bytes} = Given(l, a, N)
  BY <1>1, <1>2 DEF ShownIn, Ran
<1> QED BY <1>3 DEF Drawn, NoFixYet, Shown, ShownUpTo

\* A verdict about an attempt that nothing is added to.
LEMMA VerdictStays ==
  ASSUME NEW l \in Seq(Events), NEW m \in Seq(Events), OnlyLast(l), OnlyLast(m), Begins(l, m),
         NEW a,
         \A i \in 1..Len(m) :
           i \in 1..Len(l) \/ Owner(m, i) \notin {a, 0} \/ m[i].type = "RUN_ENDED",
         Earned(m, a)
  PROVE  Earned(l, a)
<1> DEFINE Kinds == {"TEST_RUN", "REPRO_REGISTERED", "AGENT_HANDED_OVER", "FIX_DIFF_OBSERVED",
                     "VERIFICATION_ABORTED"}
<1>1. Len(l) \in Nat /\ Len(m) \in Nat /\ \A i \in 1..Len(l) : i \in 0..Len(l) /\ i \in 1..Len(m)
  BY LenProperties DEF Begins
<1>2. \A i \in 1..Len(l) : SameNews(l[i], m[i]) /\ Owner(l, i) = Owner(m, i)
  BY <1>1, OwnersStay DEF Begins
<1>3. \A type \in Kinds, b \in {a, 0} : Within(m, type, b) = Within(l, type, b)
  <2> SUFFICES ASSUME NEW type \in Kinds, NEW b \in {a, 0}
               PROVE  Within(m, type, b) = Within(l, type, b)
    OBVIOUS
  <2>1. /\ Within(m, type, b) = {i \in 1..Len(m) : m[i].type = type /\ Owner(m, i) = b}
        /\ Within(l, type, b) = {i \in 1..Len(l) : l[i].type = type /\ Owner(l, i) = b}
    BY WithinIs
  <2>2. \A i \in 1..Len(m) : m[i].type = type /\ Owner(m, i) = b => i \in 1..Len(l)
    OBVIOUS
  <2>3. \A i \in 1..Len(l) : l[i].type = m[i].type
    BY <1>2 DEF SameNews
  <2> QED BY <1>1, <1>2, <2>1, <2>2, <2>3
<1>4. \A type \in Kinds, b \in {a, 0} : \A i \in Within(l, type, b) :
        i \in 1..Len(l) /\ l[i].type = type /\ SameNews(l[i], m[i])
  BY <1>2, WithinIs
<1> DEFINE W(type) == Within(l, type, a)
<1>5. /\ \A type \in Kinds : Within(m, type, a) = W(type)
      /\ Within(m, "AGENT_HANDED_OVER", 0) = Within(l, "AGENT_HANDED_OVER", 0)
  BY <1>3
<1>6. JudgedBytes(m, a) = JudgedBytes(l, a)
  <2> DEFINE given == W("REPRO_REGISTERED")
  <2>1. given \subseteq 1..Len(l)
    BY <1>4
  <2>2. /\ JudgedBytes(m, a) = IF given = {} THEN NoBytes ELSE m[Latest(given)].bytes
        /\ JudgedBytes(l, a) = IF given = {} THEN NoBytes ELSE l[Latest(given)].bytes
    BY <1>5 DEF JudgedBytes
  <2>3. \A i \in given : l[i].bytes = m[i].bytes
    BY <1>4 DEF SameNews
  <2> HIDE DEF given
  <2>4. given # {} => Latest(given) \in given
    BY <1>1, <2>1, LatestIs
  <2> QED BY <2>2, <2>3, <2>4
<1>7. \A i \in W("TEST_RUN") :
        /\ l[i].phase = m[i].phase /\ l[i].result = m[i].result /\ l[i].matched = m[i].matched
        /\ l[i].bytes = m[i].bytes /\ l[i].commit = m[i].commit
  BY <1>4 DEF SameNews
<1>8. \A phase : TestsOf(m, a, phase) = TestsOf(l, a, phase)
  BY <1>5, <1>7 DEF TestsOf
<1>9. \A phase : \A i \in TestsOf(l, a, phase) :
        /\ l[i].result = m[i].result /\ l[i].matched = m[i].matched
        /\ l[i].bytes = m[i].bytes /\ l[i].commit = m[i].commit
  BY <1>7 DEF TestsOf
<1>10. \A i \in W("VERIFICATION_ABORTED") : l[i].phase = m[i].phase /\ l[i].cause = m[i].cause
  BY <1>4 DEF SameNews
<1>11. \A h \in W("AGENT_HANDED_OVER") \cup Within(l, "AGENT_HANDED_OVER", 0) :
         l[h].kind = m[h].kind /\ l[h].commit = m[h].commit
  BY <1>4 DEF SameNews
<1> HIDE DEF W, Kinds
<1>12. /\ Within(m, "VERIFICATION_ABORTED", a) = W("VERIFICATION_ABORTED")
       /\ Within(m, "FIX_DIFF_OBSERVED", a) = W("FIX_DIFF_OBSERVED")
       /\ Within(m, "AGENT_HANDED_OVER", a) = W("AGENT_HANDED_OVER")
       /\ Within(m, "AGENT_HANDED_OVER", 0) = Within(l, "AGENT_HANDED_OVER", 0)
  BY <1>5 DEF Kinds
<1>13. ShownIn(l, a)
  <2>1. BaseCutShort(l, a) => BaseCutShort(m, a)
    BY <1>10, <1>12 DEF BaseCutShort, W
  <2>2. ShownIn(m, a)
    BY DEF Earned
  <2>3. \A i \in TestsOf(l, a, "base") : Ran(l, i, a, "failed") /\ l[i].matched
    BY <1>6, <1>8, <1>9, <2>2 DEF ShownIn, Ran
  <2> QED BY <1>6, <1>8, <2>1, <2>2, <2>3 DEF ShownIn
<1>14. FixedIn(l, a)
  <2>1. FixedIn(m, a)
    BY DEF Earned
  <2>2. SeriesClosed(l, a)
    BY <1>10, <1>12, <2>1 DEF FixedIn, SeriesClosed, W
  <2>3. TestsOf(l, a, "fix") # {} /\ \A i \in TestsOf(l, a, "fix") : Ran(l, i, a, "passed")
    BY <1>6, <1>8, <1>9, <2>1 DEF FixedIn, Ran
  <2>4. ~\E i \in Within(l, "VERIFICATION_ABORTED", a) : l[i].phase = "fix"
    BY <1>10, <1>12, <2>1 DEF FixedIn, W
  <2>5. \A h \in W("AGENT_HANDED_OVER") \cup Within(l, "AGENT_HANDED_OVER", 0) :
          l[h].kind # "repro" => \A i \in TestsOf(l, a, "fix") : l[i].commit = l[h].commit
    BY <1>8, <1>9, <1>11, <1>12, <2>1 DEF FixedIn
  <2> QED BY <2>2, <2>3, <2>4, <2>5 DEF FixedIn, W
<1> QED BY <1>13, <1>14 DEF Earned

-----------------------------------------------------------------------------
(***************************************************************************)
(* Several events.                                                         *)
(***************************************************************************)
LEMMA ConcatsAssociate ==
  ASSUME NEW l \in Seq(Events), NEW s \in Seq(Events), NEW t \in Seq(Events)
  PROVE  (l \o s) \o t = l \o (s \o t)
<1> DEFINE S == Events
<1>1. l \in Seq(S) /\ s \in Seq(S) /\ t \in Seq(S)
  OBVIOUS
<1> HIDE DEF S
<1> QED BY <1>1, ConcatAssociative

LEMMA ConcatBegins ==
  ASSUME NEW l \in Seq(Events), NEW es \in Seq(Events)
  PROVE  /\ l \o es \in Seq(Events)
         /\ Len(l) \in Nat /\ Len(es) \in Nat /\ Len(l \o es) = Len(l) + Len(es)
         /\ \A i \in 1..Len(l) : (l \o es)[i] = l[i]
         /\ \A i \in 1..Len(es) : (l \o es)[Len(l) + i] = es[i]
         /\ Begins(l, l \o es)
         /\ \A e \in Events : l \o Append(es, e) = Append(l \o es, e)
<1>1. /\ l \o es \in Seq(Events)
      /\ Len(l) \in Nat /\ Len(es) \in Nat /\ Len(l \o es) = Len(l) + Len(es)
  BY ConcatProperties, LenProperties
<1>2. \A i \in 1..(Len(l) + Len(es)) :
        (l \o es)[i] = IF i <= Len(l) THEN l[i] ELSE es[i - Len(l)]
  BY ConcatProperties
<1>3. \A i \in 1..Len(l) : (l \o es)[i] = l[i]
  BY <1>1, <1>2
<1>4. \A i \in 1..Len(es) : (l \o es)[Len(l) + i] = es[i]
  <2> TAKE i \in 1..Len(es)
  <2>1. Len(l) + i \in 1..(Len(l) + Len(es)) /\ ~(Len(l) + i <= Len(l)) /\ (Len(l) + i) - Len(l) = i
    BY <1>1
  <2> QED BY <1>2, <2>1
<1>5. Begins(l, l \o es)
  BY <1>1, <1>3 DEF Begins, SameNews
<1>6. ASSUME NEW e \in Events PROVE l \o Append(es, e) = Append(l \o es, e)
  <2>1. Append(es, e) = es \o <<e>> /\ Append(l \o es, e) = (l \o es) \o <<e>>
    BY <1>1, AppendIsConcat
  <2>2. <<e>> \in Seq(Events)
    OBVIOUS
  <2>3. (l \o es) \o <<e>> = l \o (es \o <<e>>)
    BY <2>2, ConcatsAssociate
  <2> QED BY <2>1, <2>3
<1> QED BY <1>1, <1>3, <1>4, <1>5, <1>6

LEMMA NothingToTell ==
  ASSUME NEW l \in Seq(Events)
  PROVE  l \o <<>> = l /\ \A e : l \o <<e>> = Append(l, e)
<1>1. l \o <<>> = l
  BY ConcatEmptySeq
<1>2. ASSUME NEW e PROVE l \o <<e>> = Append(l, e)
  OBVIOUS
<1> QED BY <1>1, <1>2

\* What is pushed is told, numbered or not.
Alike(l, m) == l \in Seq(Events) /\ m \in Seq(Events) /\ Begins(l, m) /\ Begins(m, l)

LEMMA PushedIsTold ==
  ASSUME NEW l \in Seq(Events), NEW es \in Seq(Events), NEW k \in Nat
  PROVE  Alike(l \o es, l \o Numbered(es, k)) /\ Len(l \o Numbered(es, k)) = Len(l) + Len(es)
<1> DEFINE num == Numbered(es, k)
           old == l \o es
           new == l \o num
<1>1. /\ num \in Seq(Events) /\ Len(num) = Len(es)
      /\ \A i \in 1..Len(es) : num[i] = At(k + i, es[i]) /\ es[i] \in Events
  BY NumberedIsSeq
<1>2. /\ old \in Seq(Events) /\ Len(l) \in Nat /\ Len(es) \in Nat /\ Len(old) = Len(l) + Len(es)
      /\ \A i \in 1..Len(l) : old[i] = l[i]
      /\ \A i \in 1..Len(es) : old[Len(l) + i] = es[i]
  BY ConcatBegins
<1>3. /\ new \in Seq(Events) /\ Len(new) = Len(l) + Len(es)
      /\ \A i \in 1..Len(l) : new[i] = l[i]
      /\ \A i \in 1..Len(es) : new[Len(l) + i] = num[i]
  <2> HIDE DEF num
  <2>1. /\ l \o num \in Seq(Events) /\ Len(l \o num) = Len(l) + Len(num)
        /\ \A i \in 1..Len(l) : (l \o num)[i] = l[i]
        /\ \A i \in 1..Len(num) : (l \o num)[Len(l) + i] = num[i]
    BY <1>1, ConcatBegins
  <2> QED BY <1>1, <2>1
<1> HIDE DEF num, old, new
<1>4. ASSUME NEW i \in 1..(Len(l) + Len(es))
      PROVE  SameNews(old[i], new[i]) /\ SameNews(new[i], old[i])
  <2>1. CASE i \in 1..Len(l)
    BY <1>2, <1>3, <2>1 DEF SameNews
  <2>2. CASE i \notin 1..Len(l)
    <3> DEFINE j == i - Len(l)
    <3>1. j \in 1..Len(es) /\ i = Len(l) + j /\ k + j \in Nat
      BY <1>2, <2>2
    <3> HIDE DEF j
    <3>2. old[i] = es[j] /\ new[i] = At(k + j, es[j]) /\ es[j] \in Events
      BY <1>1, <1>2, <1>3, <3>1
    <3> QED BY <3>1, <3>2, NumbersAreNoNews
  <2> QED BY <2>1, <2>2
<1>5. Begins(old, new) /\ Begins(new, old)
  BY <1>2, <1>3, <1>4 DEF Begins
<1>6. Alike(old, new) /\ Len(new) = Len(l) + Len(es)
  BY <1>2, <1>3, <1>5 DEF Alike
<1> QED BY <1>6 DEF old, new, num

\* What is told alike stands alike.
LEMMA AlikeStands ==
  ASSUME NEW l, NEW m, Alike(l, m)
  PROVE  /\ Len(l) = Len(m)
         /\ Story(l) <=> Story(m)
         /\ \A a : /\ Untested(l, a) => Untested(m, a)
                   /\ \A k, b : Drawn(l, a, k, b) => Drawn(m, a, k, b)
                   /\ Shown(l, a) => Shown(m, a)
                   /\ \A k : Fixing(l, a, k) => Fixing(m, a, k)
                   /\ Witnesses(l, a, Len(l)) = Witnesses(m, a, Len(m))
<1>1. /\ l \in Seq(Events) /\ m \in Seq(Events) /\ Begins(l, m) /\ Begins(m, l)
      /\ Len(l) \in Nat /\ Len(m) \in Nat
  BY LenProperties DEF Alike
<1>2. Len(l) = Len(m)
  BY <1>1 DEF Begins
<1>3. Story(l) <=> Story(m)
  BY <1>1, StoriesBegin
<1>4. ASSUME NEW a
      PROVE  /\ \A phase : Tests(l, a, phase, Len(l)) = Tests(m, a, phase, Len(m))
             /\ Registrations(l, a, Len(l)) = Registrations(m, a, Len(m))
             /\ HandOvers(l, a, Len(l)) = HandOvers(m, a, Len(m))
             /\ Witnesses(l, a, Len(l)) = Witnesses(m, a, Len(m))
             /\ Given(l, a, Len(l)) = Given(m, a, Len(m))
             /\ ShownUpTo(l, a, Len(l)) <=> ShownUpTo(m, a, Len(m))
  <2>1. Len(l) \in 0..Len(l)
    BY <1>1
  <2> QED BY <1>1, <1>2, <2>1, TaleStays
<1> QED BY <1>2, <1>3, <1>4 DEF NoFixYet, Untested, Drawn, Shown, Fixing

\* An event that is neither of the base phase nor of the fix phase.
Plain(e) ==
  /\ e \in Events
  /\ e.type \notin {"ATTEMPT_STARTED", "RUN_ENDED"}
  /\ ~IsBase(e) /\ ~IsFix(e) /\ ~IsWitness(e)

LEMMA PlainKeeps ==
  ASSUME NEW l \in Seq(Events), NEW e, Plain(e)
  PROVE  LET m == Append(l, e) IN
         /\ Story(l) => Story(m)
         /\ \A a : /\ Untested(l, a) => Untested(m, a)
                   /\ \A k, b : Drawn(l, a, k, b) => Drawn(m, a, k, b)
                   /\ Shown(l, a) => Shown(m, a)
                   /\ \A k : Fixing(l, a, k) => Fixing(m, a, k)
                   /\ Witnesses(l, a, Len(l)) = Witnesses(m, a, Len(m))
<1> DEFINE m == Append(l, e)
<1>1. e \in Events /\ m \in Seq(Events) /\ Len(m) = Len(l) + 1
  BY AppendBegins DEF Plain
<1>2. Story(l) => Story(m)
  <2>1. Fits(l, e)
    BY DEF Fits, Plain, IsFix
  <2> QED BY <1>1, <2>1, StoryGrows
<1>3. ASSUME NEW a
      PROVE  /\ Tests(l, a, "base", Len(l)) = Tests(m, a, "base", Len(m))
             /\ Tests(l, a, "fix", Len(l)) = Tests(m, a, "fix", Len(m))
             /\ Registrations(l, a, Len(l)) = Registrations(m, a, Len(m))
             /\ HandOvers(l, a, Len(l)) = HandOvers(m, a, Len(m))
             /\ Witnesses(l, a, Len(l)) = Witnesses(m, a, Len(m))
             /\ Given(l, a, Len(l)) = Given(m, a, Len(m))
  <2>1. /\ ~IsTest(e, "base") /\ ~IsTest(e, "fix") /\ ~IsRegistration(e) /\ ~IsFixHandOver(e)
        /\ ~IsWitness(e)
    BY DEF Plain, IsBase, IsFix
  <2> DEFINE here == Owner(m, Len(l) + 1) = a
  <2>2. /\ \A phase : Tests(m, a, phase, Len(m)) =
             Grown(Tests(l, a, phase, Len(l)), IsTest(e, phase) /\ here, Len(l) + 1)
        /\ Registrations(m, a, Len(m)) =
             Grown(Registrations(l, a, Len(l)), IsRegistration(e) /\ here, Len(l) + 1)
        /\ HandOvers(m, a, Len(m)) =
             Grown(HandOvers(l, a, Len(l)), IsFixHandOver(e) /\ here, Len(l) + 1)
        /\ Witnesses(m, a, Len(m)) =
             Grown(Witnesses(l, a, Len(l)), IsWitness(e) /\ here, Len(l) + 1)
        /\ Given(m, a, Len(m)) =
             Grown(Given(l, a, Len(l)), IsRegistration(e) /\ here, e.bytes)
    BY <1>1, TaleGrows
  <2> HIDE DEF m, here
  <2> QED BY <2>1, <2>2 DEF Grown
<1>4. \A a : ShownUpTo(l, a, Len(l)) <=> ShownUpTo(m, a, Len(m))
  BY <1>1, ShownStays DEF Plain
<1> HIDE DEF m
<1>5. ASSUME NEW a
      PROVE  /\ Untested(l, a) => Untested(m, a)
             /\ \A k, b : Drawn(l, a, k, b) => Drawn(m, a, k, b)
             /\ Shown(l, a) => Shown(m, a)
             /\ \A k : Fixing(l, a, k) => Fixing(m, a, k)
  BY <1>3, <1>4 DEF NoFixYet, Untested, Drawn, Shown, Fixing
<1>6. /\ Story(l) => Story(m)
      /\ \A a : /\ Untested(l, a) => Untested(m, a)
                /\ \A k, b : Drawn(l, a, k, b) => Drawn(m, a, k, b)
                /\ Shown(l, a) => Shown(m, a)
                /\ \A k : Fixing(l, a, k) => Fixing(m, a, k)
                /\ Witnesses(l, a, Len(l)) = Witnesses(m, a, Len(m))
  BY <1>2, <1>3, <1>5
<1> QED BY <1>6 DEF m

\* The attempt that events without a start belong to.
LEMMA OwnersGoOn ==
  ASSUME NEW l \in Seq(Events), NEW m \in Seq(Events), Begins(l, m),
         \A i \in 1..Len(m) : i \in 1..Len(l) \/ m[i].type # "ATTEMPT_STARTED"
  PROVE  \A i \in 0..Len(m) : Owner(m, i) = IF i <= Len(l) THEN Owner(l, i) ELSE Owner(l, Len(l))
<1> SUFFICES ASSUME NEW i \in 0..Len(m)
             PROVE  Owner(m, i) = IF i <= Len(l) THEN Owner(l, i) ELSE Owner(l, Len(l))
  OBVIOUS
<1>1. Len(l) \in Nat /\ Len(m) \in Nat /\ Len(l) <= Len(m)
  BY LenProperties DEF Begins
<1>2. \A k \in 0..Len(l) : Owner(l, k) = Owner(m, k)
  BY OwnersStay
<1>3. CASE i <= Len(l)
  BY <1>1, <1>2, <1>3
<1>4. CASE ~(i <= Len(l))
  <2>1. {j \in 1..i : m[j].type = "ATTEMPT_STARTED"}
          = {j \in 1..Len(l) : m[j].type = "ATTEMPT_STARTED"}
    <3>1. \A j \in 1..i : j \in 1..Len(m)
      BY <1>1
    <3>2. \A j \in 1..Len(l) : j \in 1..i
      BY <1>1, <1>4
    <3> QED BY <3>1, <3>2
  <2>2. Owner(m, i) = Owner(m, Len(l))
    BY <2>1 DEF Owner
  <2>3. Len(l) \in 0..Len(l)
    BY <1>1
  <2> QED BY <1>2, <1>4, <2>2, <2>3
<1> QED BY <1>3, <1>4

-----------------------------------------------------------------------------
(***************************************************************************)
(* What is written while the loop runs.                                    *)
(***************************************************************************)
\* m stands as l does, and is the story l was, if it was one.
Kept(l, m) ==
  /\ Story(l) => Story(m)
  /\ \A a : /\ Untested(l, a) => Untested(m, a)
            /\ \A k, b : Drawn(l, a, k, b) => Drawn(m, a, k, b)
            /\ Shown(l, a) => Shown(m, a)
            /\ \A k : Fixing(l, a, k) => Fixing(m, a, k)
            /\ Witnesses(l, a, Len(l)) = {} => Witnesses(m, a, Len(m)) = {}

LEMMA AlikeKeeps ==
  ASSUME NEW l, NEW m, Alike(l, m)
  PROVE  Kept(l, m)
BY AlikeStands DEF Kept

LEMMA KeptIsTransitive ==
  ASSUME NEW l, NEW m, NEW r, Kept(l, m), Kept(m, r)
  PROVE  Kept(l, r)
BY DEF Kept

\* Any number of events of neither phase.
LEMMA PlainsKeep ==
  ASSUME NEW l \in Seq(Events), NEW es \in Seq(Events), \A i \in 1..Len(es) : Plain(es[i])
  PROVE  Kept(l, l \o es)
<1> DEFINE S == {k \in Nat : k \in 0..Len(es) => Kept(l, l \o SubSeq(es, 1, k))}
<1>1. Len(es) \in Nat /\ IsList(es)
  BY LenProperties, SequencesAreLists
<1>2. SubSeq(es, 1, 0) = <<>> /\ SubSeq(es, 1, Len(es)) = es
  BY <1>1, PrefixesGrow
<1>3. 0 \in S
  <2>1. Kept(l, l)
    BY DEF Kept
  <2> QED BY <1>2, <2>1, NothingToTell
<1>4. ASSUME NEW k \in Nat, k \in S PROVE k + 1 \in S
  <2> SUFFICES ASSUME k + 1 \in 0..Len(es) PROVE Kept(l, l \o SubSeq(es, 1, k + 1))
    OBVIOUS
  <2> DEFINE p == SubSeq(es, 1, k)
  <2>1. k \in 0..Len(es) /\ k + 1 \in 1..Len(es)
    BY <1>1
  <2>2. SubSeq(es, 1, k + 1) = Append(p, es[k + 1])
    BY <1>1, <2>1, PrefixesGrow
  <2>3. p \in Seq(Events)
    <3>1. 1 \in 1..(Len(es) + 1) /\ k <= Len(es)
      BY <1>1, <2>1
    <3>2. \A i \in 1..k : es[i] \in Events
      <4>1. \A i \in 1..k : i \in 1..Len(es)
        BY <1>1, <2>1
      <4> QED BY <4>1 DEF Plain
    <3> QED BY <1>1, <2>1, <3>1, <3>2, SubSeqProperties
  <2>4. Kept(l, l \o p)
    BY <1>4, <2>1
  <2>5. es[k + 1] \in Events /\ Plain(es[k + 1])
    BY <2>1 DEF Plain
  <2> HIDE DEF p
  <2>6. l \o p \in Seq(Events) /\ l \o Append(p, es[k + 1]) = Append(l \o p, es[k + 1])
    BY <2>3, <2>5, ConcatBegins
  <2>7. Kept(l \o p, Append(l \o p, es[k + 1]))
    BY <2>5, <2>6, PlainKeeps DEF Kept
  <2> QED BY <2>2, <2>4, <2>6, <2>7, KeptIsTransitive
<1> HIDE DEF S
<1>5. \A k \in Nat : k \in S
  BY <1>3, <1>4, EveryNatural
<1>6. Kept(l, l \o SubSeq(es, 1, Len(es)))
  <2>1. Len(es) \in Nat /\ Len(es) \in 0..Len(es)
    BY <1>1
  <2>2. Len(es) \in S
    BY <1>5, <2>1
  <2> QED BY <2>1, <2>2 DEF S
<1> QED BY <1>2, <1>6

\* Where a run in its loop is.
LEMMA InTheLoop ==
  ASSUME IInv, Tale, pc \in Looping
  PROVE  /\ log \in Seq(Events) /\ Len(log) \in Nat /\ n \in Nat
         /\ stream \in Seq(Events) /\ Told \in Seq(Events)
         /\ Story(Told) /\ Begins(log, Told) /\ Story(log)
         /\ Ordered(log, n) /\ Unended(log) /\ OnlyLast(log)
         /\ sent = 0 /\ pull = NoCommit
         /\ pc \notin {"base", "fix"} => Told = log
         /\ pc \in Early => afterSeq = Len(log)
<1>1. log \in Seq(Events) /\ stream \in Seq(Events) /\ Len(log) \in Nat /\ n \in Nat
  BY ObservedIsFree, LenProperties, OrchestrateAssumption DEF IInv, Typed, TypeOK
<1>2. Told \in Seq(Events) /\ Begins(log, Told)
  BY <1>1, ConcatBegins DEF Told
<1>3. Story(Told) /\ Story(log)
  BY <1>1, <1>2, StoriesBegin DEF Tale, StoryIsTold
<1>4. Ordered(log, n) /\ Unended(log) /\ OnlyLast(log) /\ sent = 0
  BY DEF Tale, Attempted, Ending, Copied, Unended, OnlyLast
<1>5. pull = NoCommit
  BY DEF Tale, Proved, Looping
<1>6. pc \notin {"base", "fix"} => Told = log
  BY <1>1, NothingToTell DEF Tale, Contained, Told, Looping
<1>7. pc \in Early => afterSeq = Len(log)
  BY DEF IInv, Numbers, Counted
<1> QED BY <1>1, <1>2, <1>3, <1>4, <1>5, <1>6, <1>7

\* What is written without a start belongs to the attempt that is running.
LEMMA OrderGoesOn ==
  ASSUME NEW l, NEW m, NEW k \in Int, Len(l) \in Nat, Len(m) \in Nat, Len(l) <= Len(m),
         Ordered(l, k),
         \A i \in 0..Len(m) : Owner(m, i) = IF i <= Len(l) THEN Owner(l, i) ELSE k
  PROVE  Ordered(m, k)
<1> DEFINE N == Len(l)
           M == Len(m)
<1>1. Owner(l, N) = k /\ \A i, j \in 1..N : i <= j => Owner(l, i) <= Owner(l, j)
  BY DEF Ordered
<1>2. Owner(m, M) = k
  <2>1. M \in 0..M /\ (M <= N => M = N)
    OBVIOUS
  <2> QED BY <1>1, <2>1
<1>3. \A i \in 1..M : Owner(m, i) = IF i <= N THEN Owner(l, i) ELSE k
  <2>1. \A i \in 1..M : i \in 0..M
    OBVIOUS
  <2> QED BY <2>1
<1>4. N \in Nat /\ M \in Nat
  OBVIOUS
<1> HIDE DEF N, M
<1>5. ASSUME NEW i \in 1..M, NEW j \in 1..M, i <= j PROVE Owner(m, i) <= Owner(m, j)
  <2>1. CASE j <= N
    <3>1. i \in 1..N /\ j \in 1..N /\ i <= N
      BY <1>4, <1>5, <2>1
    <3>2. Owner(m, i) = Owner(l, i) /\ Owner(m, j) = Owner(l, j)
      BY <1>3, <2>1, <3>1
    <3> QED BY <1>1, <1>5, <3>1, <3>2
  <2>2. CASE i <= N /\ ~(j <= N)
    <3>1. N \in 1..N /\ i \in 1..N
      BY <1>4, <2>2
    <3> QED BY <1>1, <1>3, <2>2, <3>1
  <2>3. CASE ~(i <= N) /\ ~(j <= N)
    <3>1. Owner(m, i) = k /\ Owner(m, j) = k
      BY <1>3, <2>3
    <3> QED BY <3>1
  <2> QED BY <1>4, <1>5, <2>1, <2>2, <2>3
<1> QED BY <1>2, <1>5 DEF Ordered, M

\* A step that leaves the loop's log as it is, numbers what containers observed after it,
\* or decides; nothing of it starts an attempt or ends the run.
LEMMA LoopWrites ==
  ASSUME IInv, Tale, pc \in Looping, n' = n, UNCHANGED planeVars,
         NEW es \in Seq(Observed), \A i \in 1..Len(es) : es[i].type # "ATTEMPT_STARTED",
         log' = log \o Numbered(es, Len(log)), Story(log \o es), stream' = <<>>,
         pc' \in Looping,
         pc' = "over" /\ ended' = NoEnd => FoldOf(log').credited # 0,
         pc' = "attempt" => \A a \in 1..n : ~Earned(log', a),
         Alike(log \o es, log') => Stage'
  PROVE  Tale'
<1>1. /\ log \in Seq(Events) /\ Len(log) \in Nat /\ n \in Nat
      /\ Ordered(log, n) /\ Unended(log) /\ OnlyLast(log) /\ sent = 0 /\ pull = NoCommit
  BY InTheLoop
<1>2. es \in Seq(Events) /\ Len(es) \in Nat /\ \A i \in 1..Len(es) : es[i].type # "RUN_ENDED"
  <2>1. es \in Seq(Events)
    BY ObservedIsFree
  <2>2. \A i \in 1..Len(es) : es[i] \in Observed
    BY ElementOfSeq
  <2> QED BY <2>1, <2>2, LenProperties DEF Observed
<1>3. Alike(log \o es, log') /\ Len(log') = Len(log) + Len(es)
  BY <1>1, <1>2, PushedIsTold
<1> DEFINE num == Numbered(es, Len(log))
<1>4. /\ num \in Seq(Events) /\ Len(num) = Len(es)
      /\ \A i \in 1..Len(es) : num[i].type = es[i].type
  <2>1. /\ num \in Seq(Events) /\ Len(num) = Len(es)
        /\ \A i \in 1..Len(es) : num[i] = At(Len(log) + i, es[i]) /\ es[i] \in Events
    BY <1>1, <1>2, NumberedIsSeq
  <2>2. \A i \in 1..Len(es) : Len(log) + i \in Nat
    BY <1>1
  <2> HIDE DEF num
  <2>3. ASSUME NEW i \in 1..Len(es) PROVE num[i].type = es[i].type
    <3> DEFINE k == Len(log) + i
    <3>1. k \in Nat /\ es[i] \in Events /\ num[i] = At(k, es[i])
      BY <2>1, <2>2
    <3> DEFINE e == es[i]
    <3>2. e \in Events /\ k \in Nat
      BY <3>1
    <3> HIDE DEF k, e
    <3>3. At(k, e).type = e.type
      BY <3>2, AtEvent
    <3> QED BY <3>1, <3>3 DEF e
  <2> QED BY <2>1, <2>3
<1>5. /\ log' \in Seq(Events) /\ Begins(log, log')
      /\ \A i \in 1..Len(log) : log'[i] = log[i]
      /\ \A i \in 1..Len(es) : log'[Len(log) + i] = num[i]
  <2> HIDE DEF num
  <2>1. /\ log \o num \in Seq(Events) /\ Begins(log, log \o num)
        /\ \A i \in 1..Len(log) : (log \o num)[i] = log[i]
        /\ \A i \in 1..Len(num) : (log \o num)[Len(log) + i] = num[i]
    BY <1>1, <1>4, ConcatBegins
  <2>2. log' = log \o num
    BY DEF num
  <2> QED BY <1>4, <2>1, <2>2
<1> HIDE DEF num
<1>6. \A i \in 1..Len(log') :
        i \in 1..Len(log) \/ log'[i].type \notin {"ATTEMPT_STARTED", "RUN_ENDED"}
  <2> SUFFICES ASSUME NEW i \in 1..Len(log'), i \notin 1..Len(log)
               PROVE  log'[i].type \notin {"ATTEMPT_STARTED", "RUN_ENDED"}
    OBVIOUS
  <2> DEFINE j == i - Len(log)
  <2>1. j \in 1..Len(es) /\ i = Len(log) + j
    BY <1>1, <1>2, <1>3
  <2> HIDE DEF j
  <2> QED BY <1>2, <1>4, <1>5, <2>1
<1>7. Unended(log') /\ OnlyLast(log')
  BY <1>1, <1>5, <1>6 DEF Unended, OnlyLast
<1>8. log' \o <<>> = log'
  BY <1>5, NothingToTell
<1>9. StoryIsTold'
  <2>1. Story(log')
    BY <1>3, AlikeStands
  <2> QED BY <1>8, <2>1 DEF StoryIsTold, Told
<1>10. Contained'
  BY DEF Contained
<1>18. \A i \in 0..Len(log') :
        Owner(log', i) = IF i <= Len(log) THEN Owner(log, i) ELSE Owner(log, Len(log))
  BY <1>1, <1>5, <1>6, OwnersGoOn
<1>19. /\ Len(log) \in Nat /\ Len(log') \in Nat /\ Len(log) <= Len(log')
      /\ \A i \in 1..Len(log') : i \in 0..Len(log') /\ i \in Nat
      /\ Len(log') \in 0..Len(log')
  BY <1>1, <1>2, <1>3
<1>11. Ordered(log', n)
  <2>1. Owner(log, Len(log)) = n
    BY <1>1 DEF Ordered
  <2>2. \A i \in 0..Len(log') : Owner(log', i) = IF i <= Len(log) THEN Owner(log, i) ELSE n
    BY <1>18, <2>1
  <2>3. n \in Int
    BY <1>1
  <2> QED BY <1>1, <1>19, <2>2, <2>3, OrderGoesOn
<1>12. Attempted'
  BY <1>11 DEF Attempted
<1>13. Uncredited'
  <2> SUFFICES ASSUME NEW a \in 1..n, a < n \/ pc' = "attempt", Earned(log', a) PROVE FALSE
    BY DEF Uncredited
  <2>1. CASE pc' = "attempt"
    BY <2>1
  <2>2. CASE a < n
    <3>1. \A i \in 1..Len(log') :
            i \in 1..Len(log) \/ Owner(log', i) \notin {a, 0} \/ log'[i].type = "RUN_ENDED"
      <4> SUFFICES ASSUME NEW i \in 1..Len(log'), i \notin 1..Len(log)
                   PROVE  Owner(log', i) \notin {a, 0}
        OBVIOUS
      <4>1. ~(i <= Len(log))
        BY <1>19
      <4>2. Owner(log', i) = n
        BY <1>1, <1>18, <1>19, <4>1 DEF Ordered
      <4> QED BY <1>1, <2>2, <4>2
    <3>2. Earned(log, a)
      BY <1>1, <1>5, <1>7, <3>1, VerdictStays
    <3> QED BY <2>2, <3>2 DEF Tale, Uncredited
  <2> QED BY <2>1, <2>2
<1>14. Ending'
  BY <1>7 DEF Ending
<1>15. Copied'
  <2>1. SubSeq(log, 1, 0) = <<>> /\ SubSeq(log', 1, 0) = <<>>
    BY <1>1, <1>5
  <2>2. seen' = seen /\ sent' = 0
    BY <1>1 DEF planeVars
  <2>3. Copied /\ pc \notin {"ending", "answered", "threw"}
    BY DEF Tale, Looping
  <2>4. pc' \notin {"pushing", "opening", "ending", "answered", "threw"}
    BY DEF Looping
  <2> QED BY <1>1, <2>1, <2>2, <2>3, <2>4 DEF Copied
<1>16. Proved' /\ AnswersAreFinal'
  BY <1>1 DEF Proved, Backed, AnswersAreFinal, planeVars, Looping
<1>17. Stage'
  BY <1>3
<1> QED BY <1>9, <1>10, <1>12, <1>13, <1>14, <1>15, <1>16, <1>17 DEF Tale

-----------------------------------------------------------------------------
(***************************************************************************)
(* What a container observes.                                              *)
(***************************************************************************)
LEMMA TestsAreFinite ==
  ASSUME NEW l, Len(l) \in Nat, NEW a, NEW phase
  PROVE  /\ IsFiniteSet(Tests(l, a, phase, Len(l)))
         /\ Cardinality(Tests(l, a, phase, Len(l))) \in Nat
         /\ Cardinality(Tests(l, a, phase, Len(l)) \cup {Len(l) + 1}) =
              Cardinality(Tests(l, a, phase, Len(l))) + 1
<1> DEFINE N == Len(l)
           tests == Tests(l, a, phase, N)
<1>1. IsFiniteSet(1..N) /\ N \in Nat
  BY FS_Interval
<1>2. tests \subseteq 1..N
  BY DEF Tests
<1>3. N + 1 \notin tests
  <2>1. N + 1 \notin 1..N
    BY <1>1
  <2> QED BY <1>2, <2>1
<1> HIDE DEF N, tests
<1>4. IsFiniteSet(tests)
  BY <1>1, <1>2, FS_Subset
<1>5. Cardinality(tests) \in Nat
  BY <1>4, FS_CardinalityType
<1>6. Cardinality(tests \cup {N + 1}) = Cardinality(tests) + 1
  BY <1>3, <1>4, FS_AddElement
<1> QED BY <1>4, <1>5, <1>6 DEF N, tests

\* The next event of the attempt, and what it adds to the tale of it.
LEMMA GrowsHere ==
  ASSUME NEW l \in Seq(Events), NEW e \in Events, e.type # "ATTEMPT_STARTED",
         NEW a, Owner(l, Len(l)) = a
  PROVE  LET m == Append(l, e) IN
         /\ Len(l) \in Nat /\ Len(m) = Len(l) + 1
         /\ \A phase : Tests(m, a, phase, Len(m)) =
              Grown(Tests(l, a, phase, Len(l)), IsTest(e, phase), Len(l) + 1)
         /\ HandOvers(m, a, Len(m)) =
              Grown(HandOvers(l, a, Len(l)), IsFixHandOver(e), Len(l) + 1)
         /\ Witnesses(m, a, Len(m)) =
              Grown(Witnesses(l, a, Len(l)), IsWitness(e), Len(l) + 1)
         /\ Given(m, a, Len(m)) = Grown(Given(l, a, Len(l)), IsRegistration(e), e.bytes)
         /\ ~IsBase(e) => (ShownUpTo(m, a, Len(m)) <=> ShownUpTo(l, a, Len(l)))
<1> DEFINE m == Append(l, e)
           here == Owner(m, Len(l) + 1) = a
<1>1. here
  BY OwnersGrow
<1>2. Len(l) \in Nat /\ Len(m) = Len(l) + 1
  BY AppendBegins
<1>3. ASSUME NEW phase
      PROVE  Tests(m, a, phase, Len(m)) =
               Grown(Tests(l, a, phase, Len(l)), IsTest(e, phase) /\ here, Len(l) + 1)
  BY TaleGrows DEF Grown
<1>6. HandOvers(m, a, Len(m)) = Grown(HandOvers(l, a, Len(l)), IsFixHandOver(e) /\ here, Len(l) + 1)
  BY TaleGrows
<1>7. Witnesses(m, a, Len(m)) = Grown(Witnesses(l, a, Len(l)), IsWitness(e) /\ here, Len(l) + 1)
  BY TaleGrows
<1>8. Given(m, a, Len(m)) = Grown(Given(l, a, Len(l)), IsRegistration(e) /\ here, e.bytes)
  BY TaleGrows
<1>4. ~IsBase(e) => (ShownUpTo(m, a, Len(m)) <=> ShownUpTo(l, a, Len(l)))
  BY <1>2, ShownStays
<1> HIDE DEF m, here
<1>5. /\ \A phase : Tests(m, a, phase, Len(m)) =
           Grown(Tests(l, a, phase, Len(l)), IsTest(e, phase), Len(l) + 1)
      /\ HandOvers(m, a, Len(m)) = Grown(HandOvers(l, a, Len(l)), IsFixHandOver(e), Len(l) + 1)
      /\ Witnesses(m, a, Len(m)) = Grown(Witnesses(l, a, Len(l)), IsWitness(e), Len(l) + 1)
      /\ Given(m, a, Len(m)) = Grown(Given(l, a, Len(l)), IsRegistration(e), e.bytes)
  BY <1>1, <1>3, <1>6, <1>7, <1>8 DEF Grown
<1> QED BY <1>2, <1>4, <1>5 DEF m

\* The base container registers the reproduction, or executes it.
LEMMA BaseGrows ==
  ASSUME NEW l \in Seq(Events), NEW e \in Events, NEW a, Owner(l, Len(l)) = a,
         Story(l), NEW k, NEW given, Drawn(l, a, k, given), IsBase(e)
  PROVE  LET m == Append(l, e) IN
         /\ Story(m)
         /\ Drawn(m, a, IF IsRegistration(e) THEN k ELSE k + 1,
                  Grown(given, IsRegistration(e), e.bytes))
<1> DEFINE m == Append(l, e)
           N == Len(l)
<1>1. /\ e.type # "ATTEMPT_STARTED" /\ ~IsFix(e) /\ ~IsWitness(e)
      /\ ~IsTest(e, "fix") /\ ~IsFixHandOver(e)
      /\ IsTest(e, "base") <=> ~IsRegistration(e)
  BY DEF IsBase, IsTest, IsRegistration, IsFix, IsFixHandOver, IsWitness
<1>2. Story(m)
  <2>1. Fits(l, e)
    BY <1>1 DEF Fits, Drawn, NoFixYet
  <2> QED BY <2>1, StoryGrows
<1>3. /\ N \in Nat
      /\ \A phase : Tests(m, a, phase, Len(m)) =
           Grown(Tests(l, a, phase, N), IsTest(e, phase), N + 1)
      /\ HandOvers(m, a, Len(m)) = Grown(HandOvers(l, a, N), IsFixHandOver(e), N + 1)
      /\ Witnesses(m, a, Len(m)) = Grown(Witnesses(l, a, N), IsWitness(e), N + 1)
      /\ Given(m, a, Len(m)) = Grown(Given(l, a, N), IsRegistration(e), e.bytes)
  BY <1>1, GrowsHere
<1>4. Cardinality(Tests(l, a, "base", N) \cup {N + 1}) = Cardinality(Tests(l, a, "base", N)) + 1
  BY <1>3, TestsAreFinite
<1> HIDE DEF m
<1>5. NoFixYet(m, a)
  BY <1>1, <1>3 DEF Drawn, NoFixYet, Grown
<1>6. Cardinality(Tests(m, a, "base", Len(m))) = IF IsRegistration(e) THEN k ELSE k + 1
  <2>1. Cardinality(Tests(l, a, "base", N)) = k
    BY DEF Drawn
  <2>2. CASE IsRegistration(e)
    <3>1. Tests(m, a, "base", Len(m)) = Tests(l, a, "base", N)
      <4>1. Tests(m, a, "base", Len(m)) = Grown(Tests(l, a, "base", N), IsTest(e, "base"), N + 1)
        BY <1>3
      <4>2. ~IsTest(e, "base")
        BY <1>1, <2>2
      <4> QED BY <4>1, <4>2 DEF Grown
    <3> QED BY <2>1, <2>2, <3>1
  <2>3. CASE ~IsRegistration(e)
    <3>1. Tests(m, a, "base", Len(m)) = Tests(l, a, "base", N) \cup {N + 1}
      BY <1>1, <1>3, <2>3 DEF Grown
    <3> QED BY <1>4, <2>1, <2>3, <3>1
  <2> QED BY <2>2, <2>3
<1>7. Given(m, a, Len(m)) = Grown(given, IsRegistration(e), e.bytes)
  BY <1>3 DEF Drawn
<1> QED BY <1>2, <1>5, <1>6, <1>7 DEF Drawn, m

\* The fix container executes it.
LEMMA FixGrows ==
  ASSUME NEW l \in Seq(Events), NEW e \in Events, NEW a, Owner(l, Len(l)) = a,
         Story(l), NEW k, Fixing(l, a, k), Witnesses(l, a, Len(l)) = {}, IsTest(e, "fix")
  PROVE  LET m == Append(l, e) IN
         Story(m) /\ Fixing(m, a, k + 1) /\ Witnesses(m, a, Len(m)) = {}
<1> DEFINE m == Append(l, e)
           N == Len(l)
<1>1. e.type # "ATTEMPT_STARTED" /\ ~IsBase(e) /\ ~IsWitness(e) /\ ~IsFixHandOver(e) /\ IsFix(e)
  BY DEF IsBase, IsTest, IsRegistration, IsFix, IsFixHandOver, IsWitness
<1>2. Story(m)
  <2>1. Fits(l, e)
    BY <1>1 DEF Fits, Fixing
  <2> QED BY <2>1, StoryGrows
<1>3. /\ N \in Nat
      /\ \A phase : Tests(m, a, phase, Len(m)) =
           Grown(Tests(l, a, phase, N), IsTest(e, phase), N + 1)
      /\ HandOvers(m, a, Len(m)) = Grown(HandOvers(l, a, N), IsFixHandOver(e), N + 1)
      /\ Witnesses(m, a, Len(m)) = Grown(Witnesses(l, a, N), IsWitness(e), N + 1)
  BY <1>1, GrowsHere
<1>s. ShownUpTo(m, a, Len(m)) <=> ShownUpTo(l, a, N)
  BY <1>1, GrowsHere
<1>4. Cardinality(Tests(l, a, "fix", N) \cup {N + 1}) = Cardinality(Tests(l, a, "fix", N)) + 1
  BY <1>3, TestsAreFinite
<1> HIDE DEF m
<1>5. Fixing(m, a, k + 1) /\ Witnesses(m, a, Len(m)) = {}
  BY <1>1, <1>3, <1>s, <1>4 DEF Fixing, Grown
<1> QED BY <1>2, <1>5 DEF m

\* Somebody says that the series was run to its end, where it was, or where there was none.
LEMMA WitnessGrows ==
  ASSUME NEW l \in Seq(Events), NEW e \in Events, NEW a, Owner(l, Len(l)) = a, Story(l),
         IsWitness(e),
         Tests(l, a, "fix", Len(l)) = {} \/ Cardinality(Tests(l, a, "fix", Len(l))) = FixDraws
  PROVE  LET m == Append(l, e) IN
         Story(m) /\ \A k : Fixing(l, a, k) => Fixing(m, a, k)
<1> DEFINE m == Append(l, e)
           N == Len(l)
<1>1. /\ e.type # "ATTEMPT_STARTED" /\ ~IsBase(e) /\ ~IsFix(e)
      /\ ~IsTest(e, "fix") /\ ~IsFixHandOver(e)
  BY DEF IsBase, IsTest, IsRegistration, IsFix, IsFixHandOver, IsWitness
<1>2. Story(m)
  <2>1. Fits(l, e)
    BY <1>1 DEF Fits
  <2> QED BY <2>1, StoryGrows
<1>3. /\ \A phase : Tests(m, a, phase, Len(m)) =
           Grown(Tests(l, a, phase, N), IsTest(e, phase), N + 1)
      /\ HandOvers(m, a, Len(m)) = Grown(HandOvers(l, a, N), IsFixHandOver(e), N + 1)
      /\ ShownUpTo(m, a, Len(m)) <=> ShownUpTo(l, a, N)
  BY <1>1, GrowsHere
<1> HIDE DEF m
<1>4. \A k : Fixing(l, a, k) => Fixing(m, a, k)
  BY <1>1, <1>3 DEF Fixing, Grown
<1> QED BY <1>2, <1>4 DEF m

LEMMA TestsAreObserved ==
  ASSUME repro \in Bytes \cup {NoBytes}, fixRef \in Commits \cup {NoCommit}, NEW k
  PROVE  BaseTest(k) \in Observed /\ FixTest(k) \in Observed
<1> DEFINE bytes == IF k = "tampered" THEN NoBytes ELSE repro
           base == Execution(k, IF k = "green" THEN "passed" ELSE "failed")
           fix == Execution(k, IF k = "red" THEN "failed" ELSE "passed")
<1>1. bytes \in Bytes \cup {NoBytes} /\ (k # "other") \in BOOLEAN
  OBVIOUS
<1>2. base \in Results /\ fix \in Results
  BY DEF Results, Execution
<1> HIDE DEF bytes, base, fix
<1>3. BaseTest(k) = TestEvent("base", NoCommit, base, k # "other", bytes)
  BY DEF BaseTest, base, bytes
<1>4. FixTest(k) = TestEvent("fix", fixRef, fix, FALSE, bytes)
  BY DEF FixTest, fix, bytes
<1>5. TestEvent("base", NoCommit, base, k # "other", bytes) \in Observed
  <2>1. "base" \in Phases /\ NoCommit \in Commits \cup {NoCommit}
    BY DEF Phases
  <2> QED BY <1>1, <1>2, <2>1, EventsAreObserved
<1>6. TestEvent("fix", fixRef, fix, FALSE, bytes) \in Observed
  <2>1. "fix" \in Phases /\ FALSE \in BOOLEAN
    BY DEF Phases
  <2> QED BY <1>1, <1>2, <2>1, EventsAreObserved
<1> QED BY <1>3, <1>4, <1>5, <1>6

\* A container's events belong to the attempt it was started in.
LEMMA InTheBox ==
  ASSUME IInv, Tale, InBox
  PROVE  /\ Told \in Seq(Events) /\ Owner(Told, Len(Told)) = n /\ Story(Told)
         /\ pc \in Looping /\ pc \in Early
         /\ \A e \in Events : log \o Append(stream, e) = Append(Told, e)
<1>1. pc \in Looping /\ pc \in Early
  BY DEF InBox, Looping, Early
<1>2. /\ log \in Seq(Events) /\ stream \in Seq(Events) /\ Len(log) \in Nat
      /\ Told \in Seq(Events) /\ Story(Told) /\ Begins(log, Told) /\ Owner(log, Len(log)) = n
  BY <1>1, InTheLoop DEF Ordered
<1>3. /\ Len(stream) \in Nat /\ Len(Told) = Len(log) + Len(stream)
      /\ \A i \in 1..Len(stream) : Told[Len(log) + i] = stream[i]
      /\ \A e \in Events : log \o Append(stream, e) = Append(Told, e)
  BY <1>2, ConcatBegins DEF Told
<1>4. \A i \in 1..Len(Told) : i \in 1..Len(log) \/ Told[i].type # "ATTEMPT_STARTED"
  <2> SUFFICES ASSUME NEW i \in 1..Len(Told), i \notin 1..Len(log)
               PROVE  Told[i].type # "ATTEMPT_STARTED"
    OBVIOUS
  <2> DEFINE j == i - Len(log)
  <2>1. j \in 1..Len(stream) /\ i = Len(log) + j
    BY <1>2, <1>3
  <2> HIDE DEF j
  <2>2. stream[j].type # "ATTEMPT_STARTED"
    BY <2>1 DEF Tale, Contained
  <2> QED BY <1>3, <2>1, <2>2
<1>5. Owner(Told, Len(Told)) = n
  <2>1. \A i \in 0..Len(Told) :
          Owner(Told, i) = IF i <= Len(log) THEN Owner(log, i) ELSE Owner(log, Len(log))
    BY <1>2, <1>4, OwnersGoOn
  <2>2. Len(Told) \in 0..Len(Told) /\ (Len(Told) <= Len(log) => Len(Told) = Len(log))
    BY <1>2, <1>3
  <2> QED BY <1>2, <2>1, <2>2
<1> QED BY <1>1, <1>2, <1>3, <1>5

\* A container that goes on writes nothing yet.
LEMMA BoxGoesOn ==
  ASSUME IInv, Tale, InBox, UNCHANGED <<pc, loopVars, logVars, planeVars>>,
         Story(Told'), Contained', Stage'
  PROVE  Tale'
<1>1. /\ pc' = pc /\ log' = log /\ n' = n /\ ended' = ended
      /\ seen' = seen /\ sent' = sent /\ pull' = pull
  BY DEF loopVars, logVars, planeVars
<1>2. StoryIsTold'
  BY DEF StoryIsTold
<1>3. Attempted' /\ Uncredited' /\ Ending'
  BY <1>1 DEF Tale, Attempted, Uncredited, Ending
<1>4. Copied'
  BY <1>1 DEF Tale, Copied
<1>5. Proved'
  <2>1. pull' = NoCommit
    BY <1>1, InTheBox, InTheLoop
  <2> QED BY <2>1 DEF Proved, Backed
<1>6. AnswersAreFinal'
  BY <1>1 DEF Tale, AnswersAreFinal
<1> QED BY <1>2, <1>3, <1>4, <1>5, <1>6 DEF Tale

LEMMA BoxObserves ==
  ASSUME IInv, Tale, InBox, UNCHANGED <<pc, loopVars, logVars, planeVars>>,
         NEW e \in Observed, e.type # "ATTEMPT_STARTED", stream' = Append(stream, e)
  PROVE  Told' = Append(Told, e) /\ Contained' /\ e \in Events
<1>1. e \in Events /\ stream \in Seq(Events) /\ log' = log /\ pc' = pc /\ e.type # "RUN_ENDED"
  BY ObservedIsFree DEF IInv, Typed, Events, Observed, logVars
<1>2. Told' = Append(Told, e)
  BY <1>1, InTheBox DEF Told
<1>3. Contained'
  <2>1. /\ Len(stream) \in Nat /\ Len(stream') = Len(stream) + 1
        /\ \A i \in 1..Len(stream) : stream'[i] = stream[i]
        /\ stream'[Len(stream) + 1] = e
    BY <1>1, AppendBegins
  <2>2. \A i \in 1..Len(stream') : i \in 1..Len(stream) \/ i = Len(stream) + 1
    BY <2>1
  <2> QED BY <1>1, <2>1, <2>2 DEF Tale, Contained, InBox
<1> QED BY <1>1, <1>2, <1>3

LEMMA BoxStep ==
  ASSUME IInv, Tale,
         SetUp \/ ApplyRepro \/ Switch \/ Draw \/ RunSuite \/ Control \/ ObserveDiff
  PROVE  Tale'
<1> USE DEF boxVars
<1>0. /\ InBox /\ UNCHANGED <<pc, loopVars, logVars, planeVars>>
      /\ pc' = pc /\ n' = n /\ repro' = repro /\ log' = log
  BY DEF SetUp, ApplyRepro, Switch, Draw, RunSuite, Control, ObserveDiff, Observe, InBox,
    loopVars, logVars
<1>1. /\ Told \in Seq(Events) /\ Owner(Told, Len(Told)) = n /\ Story(Told) /\ pc \in {"base", "fix"}
      /\ draws \in Nat /\ BaseDraws \in Nat \ {0} /\ FixDraws \in Nat \ {0}
      /\ repro \in Bytes \cup {NoBytes} /\ fixRef \in Commits \cup {NoCommit}
  BY <1>0, InTheBox, OrchestrateAssumption DEF InBox, IInv, Typed, TypeOK
<1> DEFINE given == IF step \in {"setup", "apply"} THEN {} ELSE {repro}
<1>2. /\ pc = "base" => BaseSteps /\ Drawn(Told, n, draws, given)
      /\ pc = "fix" => FixSteps /\ Fixing(Told, n, draws)
      /\ pc = "fix" /\ step # "cleanup" => Witnesses(Told, n, Len(Told)) = {}
  BY DEF Tale, Stage
<1>3. ASSUME stream' = stream PROVE Told' = Told /\ Contained'
  BY <1>0, <1>3 DEF Told, Tale, Contained
<1>4. CASE SetUp
  <2>1. /\ stream' = stream /\ step = "setup" /\ step' = "apply" /\ draws' = draws
    BY <1>4 DEF SetUp
  <2>2. Told' = Told /\ Contained'
    BY <1>3, <2>1
  <2>3. Stage'
    BY <1>0, <1>1, <1>2, <2>1, <2>2 DEF Stage, BaseSteps, FixSteps
  <2> QED BY <1>0, <1>1, <2>2, <2>3, BoxGoesOn
<1>5. CASE ApplyRepro
  <2>1. CASE pc = "base"
    <3> DEFINE e == RegisterEvent(repro)
    <3>1. step = "apply" /\ step' = "draw" /\ draws' = draws /\ stream' = Append(stream, e)
      BY <1>5, <2>1 DEF ApplyRepro, Observe
    <3>2. /\ e \in Observed /\ e.type # "ATTEMPT_STARTED" /\ IsBase(e) /\ IsRegistration(e)
          /\ e.bytes = repro
      BY <1>1, EventsAreObserved DEF RegisterEvent, IsBase, IsRegistration
    <3> HIDE DEF e
    <3>3. Told' = Append(Told, e) /\ Contained' /\ e \in Events
      BY <1>0, <3>1, <3>2, BoxObserves
    <3>4. Drawn(Told, n, draws, {})
      BY <1>2, <2>1, <3>1
    <3>5. Story(Told') /\ Drawn(Told', n, draws, Grown({}, TRUE, repro))
      BY <1>1, <3>2, <3>3, <3>4, BaseGrows
    <3>6. Grown({}, TRUE, repro) = {repro}
      BY DEF Grown
    <3>8. BaseSteps'
      BY <1>1, <1>2, <2>1, <3>1 DEF BaseSteps
    <3>7. Stage'
      BY <1>0, <2>1, <3>1, <3>5, <3>6, <3>8 DEF Stage
    <3> QED BY <1>0, <3>3, <3>5, <3>7, BoxGoesOn
  <2>2. CASE pc = "fix"
    <3>1. stream' = stream /\ step = "apply" /\ step' = "switch" /\ draws' = draws
      BY <1>5, <2>2 DEF ApplyRepro
    <3>2. Told' = Told /\ Contained'
      BY <1>3, <3>1
    <3>3. Stage'
      BY <1>0, <1>2, <2>2, <3>1, <3>2 DEF Stage, FixSteps
    <3> QED BY <1>0, <1>1, <3>2, <3>3, BoxGoesOn
  <2> QED BY <1>1, <2>1, <2>2
<1>6. CASE Switch
  <2>1. pc = "fix" /\ stream' = stream /\ step = "switch" /\ step' = "draw" /\ draws' = draws
    BY <1>6 DEF Switch
  <2>2. Told' = Told /\ Contained'
    BY <1>3, <2>1
  <2>3. Stage'
    BY <1>0, <1>1, <1>2, <2>1, <2>2 DEF Stage, FixSteps
  <2> QED BY <1>0, <1>1, <2>2, <2>3, BoxGoesOn
<1>7. CASE Draw
  <2>0. step = "draw" /\ draws' = draws + 1
    BY <1>7 DEF Draw
  <2>1. CASE pc = "base"
    <3>1. PICK k \in BaseResults : stream' = Append(stream, BaseTest(k))
      BY <1>7, <2>1 DEF Draw
    <3> DEFINE e == BaseTest(k)
    <3>2. step' = IF draws + 1 = BaseDraws THEN "suite" ELSE "draw"
      BY <1>7, <2>1 DEF Draw
    <3>3. e \in Observed /\ e.type # "ATTEMPT_STARTED" /\ IsBase(e) /\ ~IsRegistration(e)
      <4>1. e \in Observed
        BY <1>1, TestsAreObserved
      <4> QED BY <4>1 DEF BaseTest, TestEvent, IsBase, IsTest, IsRegistration
    <3>a. stream' = Append(stream, e)
      BY <3>1
    <3> HIDE DEF e
    <3>4. Told' = Append(Told, e) /\ Contained' /\ e \in Events
      BY <1>0, <3>a, <3>3, BoxObserves
    <3>5. Drawn(Told, n, draws, {repro}) /\ draws < BaseDraws
      BY <1>2, <2>0, <2>1 DEF BaseSteps
    <3>6. /\ Story(Told')
          /\ Drawn(Told', n, IF IsRegistration(e) THEN draws ELSE draws + 1,
                   Grown({repro}, IsRegistration(e), e.bytes))
      BY <1>1, <3>3, <3>4, <3>5, BaseGrows
    <3>7. Drawn(Told', n, draws + 1, {repro})
      BY <3>3, <3>6 DEF Grown
    <3>8. BaseSteps'
      BY <1>1, <2>0, <3>2, <3>5 DEF BaseSteps
    <3>9. Stage'
      BY <1>0, <2>0, <2>1, <3>2, <3>6, <3>7, <3>8 DEF Stage
    <3> QED BY <1>0, <3>4, <3>6, <3>9, BoxGoesOn
  <2>2. CASE pc = "fix"
    <3>1. PICK k \in FixResults : stream' = Append(stream, FixTest(k))
      BY <1>7, <2>2 DEF Draw
    <3> DEFINE e == FixTest(k)
    <3>2. step' = IF draws + 1 = FixDraws THEN "suite" ELSE "draw"
      BY <1>7, <2>2 DEF Draw
    <3>3. e \in Observed /\ e.type # "ATTEMPT_STARTED" /\ IsTest(e, "fix")
      <4>1. e \in Observed
        BY <1>1, TestsAreObserved
      <4> QED BY <4>1 DEF FixTest, TestEvent, IsTest
    <3>a. stream' = Append(stream, e)
      BY <3>1
    <3> HIDE DEF e
    <3>4. Told' = Append(Told, e) /\ Contained' /\ e \in Events
      BY <1>0, <3>a, <3>3, BoxObserves
    <3>5. /\ Fixing(Told, n, draws) /\ Witnesses(Told, n, Len(Told)) = {} /\ draws < FixDraws
      BY <1>2, <2>0, <2>2 DEF FixSteps
    <3>6. Story(Told') /\ Fixing(Told', n, draws + 1) /\ Witnesses(Told', n, Len(Told')) = {}
      BY <1>1, <3>3, <3>4, <3>5, FixGrows
    <3>7. FixSteps'
      BY <1>1, <2>0, <3>2, <3>5 DEF FixSteps
    <3>8. Stage'
      BY <1>0, <2>0, <2>2, <3>2, <3>6, <3>7 DEF Stage
    <3> QED BY <1>0, <3>4, <3>6, <3>8, BoxGoesOn
  <2> QED BY <1>1, <2>1, <2>2
<1>8. CASE RunSuite
  <2>1. PICK r \in SuiteResults :
          stream' = IF r = "none" THEN stream ELSE Append(stream, SuiteEvent(pc, r))
    BY <1>8 DEF RunSuite
  <2>2. /\ step = "suite" /\ draws' = draws
        /\ pc = "base" => step' \in {"control", "cleanup"}
        /\ pc = "fix" => step' = "diff"
    BY <1>8 DEF RunSuite
  <2>3. Contained' /\ Story(Told') /\ Kept(Told, Told')
    <3>1. CASE r = "none"
      BY <1>1, <1>3, <2>1, <3>1 DEF Kept
    <3>2. CASE r # "none"
      <4> DEFINE e == SuiteEvent(pc, r)
      <4>1. e \in Observed
        BY <1>1, <3>2, OrchestrateAssumption, EventsAreObserved DEF Phases, Results
      <4>2. e.type = "SUITE_RUN" /\ stream' = Append(stream, e)
        BY <2>1, <3>2 DEF SuiteEvent
      <4> HIDE DEF e
      <4>3. Told' = Append(Told, e) /\ Contained' /\ e \in Events
        BY <1>0, <4>1, <4>2, BoxObserves
      <4>4. Plain(e)
        BY <4>2, <4>3
        DEF Plain, IsBase, IsFix, IsTest, IsRegistration, IsFixHandOver, IsWitness
      <4>5. Kept(Told, Told')
        BY <1>1, <4>3, <4>4, PlainKeeps DEF Kept
      <4> QED BY <1>1, <4>3, <4>5 DEF Kept
    <3> QED BY <3>1, <3>2
  <2>4. /\ pc = "base" => BaseSteps' /\ Drawn(Told', n, draws, {repro})
        /\ pc = "fix" =>
             FixSteps' /\ Fixing(Told', n, draws) /\ Witnesses(Told', n, Len(Told')) = {}
    BY <1>1, <1>2, <2>2, <2>3 DEF BaseSteps, FixSteps, Kept
  <2>5. Stage'
    BY <1>0, <1>1, <2>2, <2>4 DEF Stage
  <2> QED BY <1>0, <2>3, <2>5, BoxGoesOn
<1>9. CASE Control
  <2> DEFINE e == TestEvent("control", NoCommit, "failed", FALSE, NoBytes)
  <2>1. /\ pc = "base" /\ step = "control" /\ step' = "cleanup" /\ draws' = draws
        /\ stream' = Append(stream, e)
    BY <1>9 DEF Control, Observe
  <2>2. e \in Observed /\ e.type = "TEST_RUN" /\ e.phase = "control"
    BY EventsAreObserved DEF TestEvent, Phases, Results
  <2> HIDE DEF e
  <2>3. Told' = Append(Told, e) /\ Contained' /\ e \in Events
    BY <1>0, <2>1, <2>2, BoxObserves
  <2>4. Plain(e)
    BY <2>2, <2>3 DEF Plain, IsBase, IsFix, IsTest, IsRegistration, IsFixHandOver, IsWitness
  <2>5. Kept(Told, Told')
    BY <1>1, <2>3, <2>4, PlainKeeps DEF Kept
  <2>6. BaseSteps' /\ Drawn(Told', n, draws, {repro}) /\ Story(Told')
    BY <1>1, <1>2, <2>1, <2>5 DEF BaseSteps, Kept
  <2>7. Stage'
    BY <1>0, <2>1, <2>6 DEF Stage
  <2> QED BY <1>0, <2>3, <2>6, <2>7, BoxGoesOn
<1>10. CASE ObserveDiff
  <2> DEFINE e == Event("FIX_DIFF_OBSERVED")
  <2>1. /\ pc = "fix" /\ step = "diff" /\ step' = "cleanup" /\ draws' = draws
        /\ stream' = Append(stream, e)
    BY <1>10 DEF ObserveDiff, Observe
  <2>2. e \in Observed /\ e.type = "FIX_DIFF_OBSERVED"
    BY EventsAreObserved DEF Event
  <2> HIDE DEF e
  <2>3. Told' = Append(Told, e) /\ Contained' /\ e \in Events
    BY <1>0, <2>1, <2>2, BoxObserves
  <2>4. Fixing(Told, n, draws) /\ draws = FixDraws
    BY <1>2, <2>1 DEF FixSteps
  <2>5. Story(Told') /\ Fixing(Told', n, draws)
    BY <1>1, <2>2, <2>3, <2>4, WitnessGrows DEF IsWitness, Fixing
  <2>6. FixSteps' /\ Stage'
    BY <1>0, <2>1, <2>4, <2>5 DEF Stage, FixSteps
  <2> QED BY <1>0, <2>3, <2>5, <2>6, BoxGoesOn
<1> QED BY <1>4, <1>5, <1>6, <1>7, <1>8, <1>9, <1>10

-----------------------------------------------------------------------------
(***************************************************************************)
(* What a container leaves behind.                                         *)
(***************************************************************************)
Watched == {e \in Observed : e.type # "ATTEMPT_STARTED"}
Plains == {e \in Watched : Plain(e)}

LEMMA Sequences ==
  ASSUME NEW S
  PROVE  /\ <<>> \in Seq(S)
         /\ \A a \in S : <<a>> \in Seq(S)
         /\ \A a, b \in S : <<a, b>> \in Seq(S)
         /\ \A s \in Seq(S), a \in S : Append(s, a) \in Seq(S)
         /\ \A s, t \in Seq(S) : s \o t \in Seq(S)
<1>1. <<>> \in Seq(S) /\ \A s, t \in Seq(S) : s \o t \in Seq(S)
  OBVIOUS
<1>2. \A s \in Seq(S), a \in S : Append(s, a) \in Seq(S)
  OBVIOUS
<1>3. \A a \in S : <<a>> \in Seq(S)
  OBVIOUS
<1>4. \A a, b \in S : <<a, b>> \in Seq(S)
  OBVIOUS
<1> QED BY <1>1, <1>2, <1>3, <1>4

LEMMA WatchedIsObserved ==
  /\ \A es \in Seq(Watched) :
       /\ es \in Seq(Observed) /\ es \in Seq(Events)
       /\ \A i \in 1..Len(es) : es[i].type # "ATTEMPT_STARTED"
  /\ \A es \in Seq(Plains) : es \in Seq(Watched) /\ \A i \in 1..Len(es) : Plain(es[i])
<1>1. ASSUME NEW es \in Seq(Watched)
      PROVE  /\ es \in Seq(Observed) /\ es \in Seq(Events)
             /\ \A i \in 1..Len(es) : es[i].type # "ATTEMPT_STARTED"
  <2>1. \A i \in 1..Len(es) : es[i] \in Watched
    BY ElementOfSeq
  <2>2. es \in Seq(Observed)
    <3>1. Watched \subseteq Observed
      BY DEF Watched
    <3> QED BY <3>1
  <2> QED BY <2>1, <2>2, ObservedIsFree DEF Watched
<1>2. ASSUME NEW es \in Seq(Plains)
      PROVE  es \in Seq(Watched) /\ \A i \in 1..Len(es) : Plain(es[i])
  <2>1. \A i \in 1..Len(es) : es[i] \in Plains
    BY ElementOfSeq
  <2>2. es \in Seq(Watched)
    <3>1. Plains \subseteq Watched
      BY DEF Plains
    <3> QED BY <3>1
  <2> QED BY <2>1, <2>2 DEF Plains
<1> QED BY <1>1, <1>2

\* Aborts that say nothing of the phases, and the results of suites.
LEMMA ArePlain ==
  /\ \A phase \in Phases, cause \in Causes :
       phase \notin {"diff", "cleanup"} \/ cause # "none" => AbortEvent(phase, cause) \in Plains
  /\ \A phase \in Phases, result \in Results : SuiteEvent(phase, result) \in Plains
  /\ \A c \in Commits : HandOverEvent("repro", c) \in Plains
<1> USE DEF Plains, Watched, Plain, IsBase, IsFix, IsTest, IsRegistration, IsFixHandOver, IsWitness
<1>1. ASSUME NEW phase \in Phases, NEW cause \in Causes,
             phase \notin {"diff", "cleanup"} \/ cause # "none"
      PROVE  AbortEvent(phase, cause) \in Plains
  <2>1. AbortEvent(phase, cause) \in Observed
    BY EventsAreObserved
  <2> QED BY <1>1, <2>1 DEF AbortEvent, Events
<1>2. ASSUME NEW phase \in Phases, NEW result \in Results
      PROVE  SuiteEvent(phase, result) \in Plains
  <2>1. SuiteEvent(phase, result) \in Observed
    BY EventsAreObserved
  <2> QED BY <2>1 DEF SuiteEvent, Events
<1>3. ASSUME NEW c \in Commits PROVE HandOverEvent("repro", c) \in Plains
  <2>1. HandOverEvent("repro", c) \in Observed
    BY EventsAreObserved
  <2> QED BY <2>1 DEF HandOverEvent, Events
<1> QED BY <1>1, <1>2, <1>3

LEMMA HostsArePlain ==
  Collected \subseteq Seq(Plains) /\ Reported \subseteq Seq(Plains)
<1>1. AbortEvent("cleanup", "collection") \in Plains /\ AbortEvent("setup", "handover") \in Plains
  BY ArePlain DEF Phases, Causes
<1> QED BY <1>1, Sequences DEF Collected, Reported

\* Whatever a container leaves is of the attempt it was started in.
LEMMA OwnerGoesOn ==
  ASSUME NEW l \in Seq(Events), NEW es \in Seq(Watched)
  PROVE  l \o es \in Seq(Events) /\ Owner(l \o es, Len(l \o es)) = Owner(l, Len(l))
<1> DEFINE m == l \o es
<1>1. es \in Seq(Events) /\ \A i \in 1..Len(es) : es[i].type # "ATTEMPT_STARTED"
  BY WatchedIsObserved
<1>2. /\ m \in Seq(Events) /\ Len(l) \in Nat /\ Len(es) \in Nat /\ Len(m) = Len(l) + Len(es)
      /\ \A i \in 1..Len(es) : m[Len(l) + i] = es[i]
      /\ Begins(l, m)
  BY <1>1, ConcatBegins
<1> HIDE DEF m
<1>3. \A i \in 1..Len(m) : i \in 1..Len(l) \/ m[i].type # "ATTEMPT_STARTED"
  <2> SUFFICES ASSUME NEW i \in 1..Len(m), i \notin 1..Len(l) PROVE m[i].type # "ATTEMPT_STARTED"
    OBVIOUS
  <2> DEFINE j == i - Len(l)
  <2>1. j \in 1..Len(es) /\ i = Len(l) + j
    BY <1>2
  <2> HIDE DEF j
  <2> QED BY <1>1, <1>2, <2>1
<1>4. \A i \in 0..Len(m) : Owner(m, i) = IF i <= Len(l) THEN Owner(l, i) ELSE Owner(l, Len(l))
  BY <1>2, <1>3, OwnersGoOn
<1>5. Len(m) \in 0..Len(m) /\ (Len(m) <= Len(l) => Len(m) = Len(l))
  BY <1>2
<1>6. Owner(m, Len(m)) = Owner(l, Len(l))
  BY <1>4, <1>5
<1> QED BY <1>2, <1>6 DEF m

\* A container that was stopped leaves the beginning of what it observed.
LEMMA CutBegins ==
  ASSUME NEW l \in Seq(Events), NEW s \in Seq(Watched), NEW k \in 0..Len(s)
  PROVE  /\ SubSeq(s, 1, k) \in Seq(Watched)
         /\ l \o SubSeq(s, 1, k) \in Seq(Events)
         /\ Begins(l \o SubSeq(s, 1, k), l \o s)
<1> DEFINE cut == SubSeq(s, 1, k)
<1>1. Len(s) \in Nat /\ k \in Nat /\ k <= Len(s)
  BY LenProperties
<1>2. cut \in Seq(Watched) /\ Len(cut) = k /\ \A i \in 1..k : cut[i] = s[i]
  BY <1>1
<1> HIDE DEF cut
<1>3. cut \in Seq(Events) /\ s \in Seq(Events)
  BY <1>2, WatchedIsObserved
<1>4. /\ l \o cut \in Seq(Events) /\ Len(l) \in Nat /\ Len(l \o cut) = Len(l) + k
      /\ \A i \in 1..Len(l) : (l \o cut)[i] = l[i]
      /\ \A i \in 1..k : (l \o cut)[Len(l) + i] = cut[i]
  BY <1>2, <1>3, ConcatBegins
<1>5. /\ Len(l \o s) = Len(l) + Len(s)
      /\ \A i \in 1..Len(l) : (l \o s)[i] = l[i]
      /\ \A i \in 1..Len(s) : (l \o s)[Len(l) + i] = s[i]
  BY <1>3, ConcatBegins
<1>6. ASSUME NEW i \in 1..(Len(l) + k) PROVE SameNews((l \o cut)[i], (l \o s)[i])
  <2>1. CASE i \in 1..Len(l)
    BY <1>4, <1>5, <2>1 DEF SameNews
  <2>2. CASE i \notin 1..Len(l)
    <3> DEFINE j == i - Len(l)
    <3>1. j \in 1..k /\ j \in 1..Len(s) /\ i = Len(l) + j
      BY <1>1, <1>4, <2>2
    <3> HIDE DEF j
    <3>2. (l \o cut)[i] = (l \o s)[i]
      BY <1>2, <1>4, <1>5, <3>1
    <3> QED BY <3>2 DEF SameNews
  <2> QED BY <2>1, <2>2
<1>7. Begins(l \o cut, l \o s)
  <2>1. Len(l) + k <= Len(l) + Len(s)
    BY <1>1, <1>4
  <2> QED BY <1>4, <1>5, <1>6, <2>1 DEF Begins
<1> QED BY <1>2, <1>4, <1>7 DEF cut

LEMMA BoxLeaves ==
  ASSUME IInv, Tale, InBox, NEW es \in Seq(Watched), NEW exit, Exits(es, exit), Story(log \o es),
         exit = "complete" /\ pc = "base" => Drawn(log \o es, n, BaseDraws, {repro})
  PROVE  Tale'
<1>1. pc \in Looping /\ pc \in Early /\ afterSeq = Len(log)
  BY InTheBox, InTheLoop
<1>2. es \in Seq(Observed) /\ \A i \in 1..Len(es) : es[i].type # "ATTEMPT_STARTED"
  BY WatchedIsObserved
<1>3. /\ log' = log \o Numbered(es, Len(log)) /\ n' = n /\ repro' = repro /\ stream' = <<>>
      /\ UNCHANGED planeVars
  BY <1>1 DEF Exits, Push, PushAndEnd, ClearBox
<1>4. \/ pc' = "gate" /\ exit = "complete" /\ pc = "base"
      \/ pc' = "closing"
  BY DEF Exits, InBox
<1>5. ASSUME Alike(log \o es, log') PROVE Stage'
  <2>1. CASE pc' = "closing"
    BY <2>1 DEF Stage
  <2>2. CASE pc' = "gate" /\ exit = "complete" /\ pc = "base"
    <3>1. Drawn(log', n, BaseDraws, {repro})
      BY <1>5, <2>2, AlikeKeeps DEF Kept
    <3>2. Told' = log'
      <4>1. log' \in Seq(Events)
        BY <1>5 DEF Alike
      <4> QED BY <1>3, <4>1, NothingToTell DEF Told
    <3> QED BY <1>3, <2>2, <3>1, <3>2 DEF Stage
  <2> QED BY <1>4, <2>1, <2>2
<1>6. pc' \in Looping /\ pc' # "over" /\ pc' # "attempt"
  BY <1>4 DEF Looping
<1> QED BY <1>1, <1>2, <1>3, <1>5, <1>6, LoopWrites

LEMMA StreamIsWatched ==
  ASSUME IInv, Tale
  PROVE  stream \in Seq(Watched)
<1>1. stream \in Seq(Observed)
  BY DEF IInv, Typed
<1>2. /\ Len(stream) \in Nat /\ stream \in [1..Len(stream) -> Observed]
      /\ \A i \in 1..Len(stream) : stream[i].type # "ATTEMPT_STARTED"
  BY <1>1, LenProperties DEF Tale, Contained
<1>3. stream \in [1..Len(stream) -> Watched]
  BY <1>2 DEF Watched
<1> QED BY <1>2, <1>3, SeqDef

LEMMA BoxEnds ==
  ASSUME IInv, Tale, Completes \/ Fails \/ Refused \/ Dies \/ Stopped
  PROVE  Tale'
<1>1. InBox
  BY DEF Completes, Fails, Refused, Dies, Stopped
<1>2. /\ Told \in Seq(Events) /\ Owner(Told, Len(Told)) = n /\ Story(Told)
      /\ log \in Seq(Events) /\ Story(log) /\ stream \in Seq(Watched) /\ stream \in Seq(Events)
  BY <1>1, InTheBox, InTheLoop, StreamIsWatched
<1>3. Completes => Tale'
  <2> SUFFICES ASSUME Completes PROVE Tale'
    OBVIOUS
  <2>1. PICK extra \in Collected : Exits(stream \o extra, "complete")
    BY DEF Completes
  <2>2. extra \in Seq(Plains) /\ extra \in Seq(Watched) /\ extra \in Seq(Events)
    BY HostsArePlain, WatchedIsObserved
  <2>3. log \o (stream \o extra) = Told \o extra
    BY <1>2, <2>2, ConcatsAssociate DEF Told
  <2>4. Kept(Told, Told \o extra)
    BY <1>2, <2>2, PlainsKeep, WatchedIsObserved
  <2>5. stream \o extra \in Seq(Watched)
    BY <1>2, <2>2, Sequences
  <2>6. pc = "base" => Drawn(Told, n, BaseDraws, {repro})
    BY DEF Completes, Tale, Stage, BaseSteps
  <2> QED BY <1>1, <1>2, <2>1, <2>3, <2>4, <2>5, <2>6, BoxLeaves DEF Kept
<1>4. Fails => Tale'
  <2> SUFFICES ASSUME Fails PROVE Tale'
    OBVIOUS
  <2> DEFINE a == AbortEvent(Progress(step), "none")
  <2>1. PICK e \in Recorded : Exits(stream \o e \o <<a>>, "partial")
    BY DEF Fails
  <2>2. step \in Steps /\ pc \in {"base", "fix"}
    BY OrchestrateAssumption DEF Fails, InBox
  <2>3. Progress(step) \in Phases
    BY <2>2 DEF Progress, Steps, Phases
  <2>4. a \in Watched /\ a \in Events
    <3>1. a \in Observed
      BY <2>3, EventsAreObserved DEF Causes
    <3> QED BY <3>1 DEF Watched, AbortEvent, Events
  <2>5. e \in Seq(Plains) /\ e \in Seq(Watched) /\ e \in Seq(Events)
    <3>1. \A r \in SuiteResults \ {"none"} : SuiteEvent(pc, r) \in Plains
      BY <2>2, OrchestrateAssumption, ArePlain DEF Phases, Results
    <3>2. e = <<>> \/ \E r \in SuiteResults \ {"none"} : e = <<SuiteEvent(pc, r)>>
      BY DEF Recorded
    <3>3. e \in Seq(Plains)
      BY <3>1, <3>2, Sequences
    <3> QED BY <3>3, WatchedIsObserved
  <2> DEFINE m == Told \o e
  <2>6. Kept(Told, m) /\ m \in Seq(Events) /\ Owner(m, Len(m)) = n
    <3>1. Kept(Told, Told \o e)
      BY <1>2, <2>5, PlainsKeep, WatchedIsObserved
    <3> QED BY <1>2, <2>5, <3>1, OwnerGoesOn
  <2>7. Story(m)
    BY <1>2, <2>6 DEF Kept
  <2>8. stream \o e \o <<a>> \in Seq(Watched) /\ log \o (stream \o e \o <<a>>) = Append(m, a)
    <3> HIDE DEF a, m
    <3>1. /\ stream \o e \in Seq(Watched) /\ <<a>> \in Seq(Watched)
          /\ stream \o e \o <<a>> \in Seq(Watched)
      BY <1>2, <2>4, <2>5, Sequences
    <3>2. stream \o e \in Seq(Events) /\ stream \o e \o <<a>> = Append(stream \o e, a)
      BY <2>4, <3>1, WatchedIsObserved, NothingToTell
    <3>3. log \o Append(stream \o e, a) = Append(log \o (stream \o e), a)
      BY <1>2, <2>4, <3>2, ConcatBegins
    <3>4. log \o (stream \o e) = Told \o e
      BY <1>2, <2>5, ConcatsAssociate DEF Told
    <3> QED BY <3>1, <3>2, <3>3, <3>4 DEF m
  <2>9. CASE Progress(step) \in {"diff", "cleanup"}
    <3>1. step \in {"diff", "cleanup"}
      BY <2>2, <2>9 DEF Progress, Steps
    <3>2. \/ Tests(m, n, "fix", Len(m)) = {}
          \/ Cardinality(Tests(m, n, "fix", Len(m))) = FixDraws
      <4>1. CASE pc = "base"
        <5>1. \E given : Drawn(Told, n, draws, given)
          BY <4>1 DEF Tale, Stage
        <5>2. \E given : Drawn(m, n, draws, given)
          BY <2>6, <5>1 DEF Kept
        <5> QED BY <5>2 DEF Drawn, NoFixYet
      <4>2. CASE pc = "fix"
        <5>1. Fixing(Told, n, draws) /\ draws = FixDraws
          BY <3>1, <4>2 DEF Tale, Stage, FixSteps
        <5>2. Fixing(m, n, FixDraws)
          BY <2>6, <5>1 DEF Kept
        <5> QED BY <5>2 DEF Fixing
      <4> QED BY <2>2, <4>1, <4>2
    <3>3. IsWitness(a)
      BY <2>9 DEF IsWitness, AbortEvent
    <3> HIDE DEF a, m
    <3>4. Story(Append(m, a))
      BY <2>4, <2>6, <2>7, <3>2, <3>3, WitnessGrows
    <3> QED BY <1>1, <2>1, <2>8, <3>4, BoxLeaves
  <2>10. CASE Progress(step) \notin {"diff", "cleanup"}
    <3>1. a \in Plains
      BY <2>3, <2>10, ArePlain DEF Causes
    <3> HIDE DEF a, m
    <3>2. Story(Append(m, a))
      BY <2>6, <2>7, <3>1, PlainKeeps DEF Plains
    <3> QED BY <1>1, <2>1, <2>8, <3>2, BoxLeaves
  <2> QED BY <2>9, <2>10
<1>5. ASSUME NEW e \in Plains, NEW exit, Exits(<<e>>, exit), exit # "complete" PROVE Tale'
  <2>1. <<e>> \in Seq(Watched) /\ <<e>> \in Seq(Plains)
    BY Sequences DEF Plains
  <2>2. Kept(log, log \o <<e>>)
    BY <1>2, <2>1, PlainsKeep, WatchedIsObserved
  <2> QED BY <1>1, <1>2, <1>5, <2>1, <2>2, BoxLeaves DEF Kept
<1>6. Refused => Tale'
  <2>1. AbortEvent("setup", "environment") \in Plains
    BY ArePlain DEF Phases, Causes
  <2> QED BY <1>5, <2>1 DEF Refused
<1>7. Dies => Tale'
  BY <1>1, <1>2, Sequences, NothingToTell, BoxLeaves DEF Dies
<1>8. Stopped => Tale'
  <2> SUFFICES ASSUME Stopped PROVE Tale'
    OBVIOUS
  <2> DEFINE a == AbortEvent("setup", "ceiling")
  <2>1. PICK k \in 0..Len(stream) :
          \/ Exits(SubSeq(stream, 1, k), "killed")
          \/ Exits(Append(SubSeq(stream, 1, k), a), "killed")
    BY DEF Stopped
  <2> DEFINE cut == SubSeq(stream, 1, k)
  <2>2. /\ cut \in Seq(Watched) /\ log \o cut \in Seq(Events) /\ Begins(log \o cut, Told)
    BY <1>2, CutBegins DEF Told
  <2>3. Story(log \o cut)
    BY <1>2, <2>2, StoriesBegin
  <2>4. a \in Plains
    BY ArePlain DEF Phases, Causes
  <2> HIDE DEF a, cut
  <2>5. CASE Exits(cut, "killed")
    BY <1>1, <2>2, <2>3, <2>5, BoxLeaves
  <2>6. CASE Exits(Append(cut, a), "killed")
    <3>1. a \in Watched /\ a \in Events /\ cut \in Seq(Events) /\ Append(cut, a) \in Seq(Watched)
      BY <2>2, <2>4, Sequences, WatchedIsObserved DEF Plains, Plain
    <3>2. log \o Append(cut, a) = Append(log \o cut, a)
      BY <1>2, <3>1, ConcatBegins
    <3>3. Story(Append(log \o cut, a))
      BY <2>2, <2>3, <2>4, PlainKeeps DEF Plains
    <3> QED BY <1>1, <2>6, <3>1, <3>2, <3>3, BoxLeaves
  <2> QED BY <2>1, <2>5, <2>6 DEF a, cut
<1> QED BY <1>3, <1>4, <1>6, <1>7, <1>8

-----------------------------------------------------------------------------
(***************************************************************************)
(* What an agent leaves behind.                                            *)
(***************************************************************************)
LEMMA AgentIsIdle ==
  ASSUME IInv, Tale, InAgent
  PROVE  /\ pc \in Looping /\ pc \in Early /\ afterSeq = Len(log) /\ stream = <<>> /\ Told = log
         /\ log \in Seq(Events) /\ Story(log) /\ Owner(log, Len(log)) = n
<1>1. pc \in Looping /\ pc \in Early /\ pc \notin {"base", "fix", "threw"}
  BY DEF InAgent, Looping, Early
<1> QED BY <1>1, InTheLoop DEF Tale, Contained, Ordered

\* An agent that hands over nothing that can be used ends the attempt.
LEMMA AgentCloses ==
  ASSUME IInv, Tale, InAgent, NEW es \in Seq(Plains), NEW reason, PushAndEnd(es, reason),
         pc' = "closing", UNCHANGED <<n, boxVars, planeVars>>
  PROVE  Tale'
<1>1. /\ pc \in Looping /\ pc \in Early /\ afterSeq = Len(log) /\ stream = <<>>
      /\ log \in Seq(Events) /\ Story(log)
  BY AgentIsIdle
<1>2. /\ es \in Seq(Observed) /\ es \in Seq(Events)
      /\ \A i \in 1..Len(es) : Plain(es[i]) /\ es[i].type # "ATTEMPT_STARTED"
  BY WatchedIsObserved
<1>3. log' = log \o Numbered(es, Len(log)) /\ n' = n /\ stream' = <<>> /\ UNCHANGED planeVars
  BY <1>1 DEF PushAndEnd, boxVars
<1>4. Story(log \o es)
  BY <1>1, <1>2, PlainsKeep DEF Kept
<1>5. Stage' /\ pc' \in Looping /\ pc' # "over" /\ pc' # "attempt"
  BY DEF Stage, Looping
<1> QED BY <1>1, <1>2, <1>3, <1>4, <1>5, LoopWrites

LEMMA AgentHandsOver ==
  ASSUME IInv, Tale, HandsOver
  PROVE  Tale'
<1>1. PICK c \in Commits, extra \in Collected :
        /\ Push(Append(extra, HandOverEvent(Kind, c)))
        /\ pc' = IF pc = "reproducing" THEN "base" ELSE "fix"
        /\ n' = n /\ UNCHANGED planeVars /\ ClearBox
  BY DEF HandsOver
<1>2. /\ pc \in Looping /\ pc \in Early /\ afterSeq = Len(log) /\ stream = <<>> /\ Told = log
      /\ log \in Seq(Events) /\ Story(log) /\ Owner(log, Len(log)) = n
      /\ pc \in {"reproducing", "fixing"}
  BY AgentIsIdle DEF HandsOver, InAgent
<1> DEFINE h == HandOverEvent(Kind, c)
           es == Append(extra, h)
           m == log \o extra
<1>3. /\ extra \in Seq(Plains) /\ extra \in Seq(Watched) /\ extra \in Seq(Events)
      /\ \A i \in 1..Len(extra) : Plain(extra[i])
  BY HostsArePlain, WatchedIsObserved
<1>4. Kept(log, m) /\ m \in Seq(Events) /\ Owner(m, Len(m)) = n /\ Story(m)
  <2>1. Kept(log, m)
    BY <1>2, <1>3, PlainsKeep
  <2>2. m \in Seq(Events) /\ Owner(m, Len(m)) = n
    BY <1>2, <1>3, OwnerGoesOn
  <2> QED BY <1>2, <2>1, <2>2 DEF Kept
<1>5. h \in Watched /\ h \in Events /\ h.type = "AGENT_HANDED_OVER" /\ h.kind = Kind
  <2>1. h \in Observed
    BY EventsAreObserved DEF Kind
  <2> QED BY <2>1 DEF Watched, HandOverEvent, Events
<1>6. es \in Seq(Watched) /\ log \o es = Append(m, h)
  <2> HIDE DEF h
  <2> QED BY <1>2, <1>3, <1>5, Sequences, ConcatBegins
<1>7. es \in Seq(Observed) /\ \A i \in 1..Len(es) : es[i].type # "ATTEMPT_STARTED"
  BY <1>6, WatchedIsObserved
<1>8. /\ log' = log \o Numbered(es, Len(log)) /\ stream' = <<>> /\ step' = "setup" /\ draws' = 0
  BY <1>1, <1>2 DEF Push, ClearBox
<1> HIDE DEF h, m, es
<1>9. pc' \in Looping /\ pc' # "over" /\ pc' # "attempt"
  BY <1>1 DEF Looping
<1>10. ASSUME Alike(log \o es, log') PROVE Told' = log' /\ Kept(log \o es, log')
  <2>1. log' \in Seq(Events)
    BY <1>10 DEF Alike
  <2> QED BY <1>8, <1>10, <2>1, NothingToTell, AlikeKeeps DEF Told
<1>11. CASE pc = "reproducing"
  <2>1. Plain(h)
    <3>1. h \in Plains
      BY <1>11, ArePlain DEF Kind, h
    <3> QED BY <3>1 DEF Plains
  <2>2. Kept(m, Append(m, h))
    BY <1>4, <2>1, PlainKeeps DEF Kept
  <2>3. Story(log \o es) /\ Untested(log \o es, n)
    BY <1>2, <1>4, <1>6, <1>11, <2>2 DEF Kept, Tale, Stage
  <2>4. ASSUME Alike(log \o es, log') PROVE Stage'
    <3>1. Untested(Told', n)
      BY <1>10, <2>3, <2>4 DEF Kept
    <3>2. Drawn(Told', n, 0, {})
      <4>1. Cardinality({}) = 0
        BY FS_EmptySet
      <4> QED BY <3>1, <4>1 DEF Untested, Drawn, Given
    <3>3. BaseSteps'
      BY <1>8 DEF BaseSteps
    <3> QED BY <1>1, <1>8, <1>11, <3>2, <3>3 DEF Stage
  <2> QED BY <1>1, <1>2, <1>7, <1>8, <1>9, <2>3, <2>4, LoopWrites
<1>12. CASE pc = "fixing"
  <2>1. h.kind # "repro"
    BY <1>5, <1>12 DEF Kind
  <2>2. /\ IsFixHandOver(h) /\ IsFix(h) /\ ~IsBase(h) /\ ~IsWitness(h) /\ ~IsTest(h, "fix")
        /\ h.type # "ATTEMPT_STARTED"
    BY <1>5, <2>1 DEF IsFixHandOver, IsFix, IsBase, IsWitness, IsTest, IsRegistration
  <2>3. Shown(m, n)
    BY <1>2, <1>4, <1>12 DEF Kept, Tale, Stage
  <2>4. Story(Append(m, h))
    <3>1. Fits(m, h)
      BY <1>4, <2>2, <2>3 DEF Fits, Shown
    <3> QED BY <1>4, <1>5, <3>1, StoryGrows
  <2> DEFINE r == Append(m, h)
  <2>5. /\ \A phase : Tests(r, n, phase, Len(r)) =
             Grown(Tests(m, n, phase, Len(m)), IsTest(h, phase), Len(m) + 1)
        /\ HandOvers(r, n, Len(r)) = Grown(HandOvers(m, n, Len(m)), IsFixHandOver(h), Len(m) + 1)
        /\ Witnesses(r, n, Len(r)) = Grown(Witnesses(m, n, Len(m)), IsWitness(h), Len(m) + 1)
        /\ ShownUpTo(r, n, Len(r)) <=> ShownUpTo(m, n, Len(m))
    BY <1>4, <1>5, <2>2, GrowsHere
  <2> HIDE DEF r
  <2>6. Fixing(r, n, 0) /\ Witnesses(r, n, Len(r)) = {}
    <3>1. Tests(r, n, "fix", Len(r)) = {} /\ Witnesses(r, n, Len(r)) = {}
      BY <2>2, <2>3, <2>5 DEF Grown, Shown
    <3>2. HandOvers(r, n, Len(r)) # {}
      BY <2>2, <2>5 DEF Grown
    <3>3. ShownUpTo(r, n, Len(r))
      BY <2>2, <2>3, <2>5 DEF Shown
    <3> QED BY <3>1, <3>2, <3>3, FS_EmptySet DEF Fixing
  <2>7. ASSUME Alike(log \o es, log') PROVE Stage'
    <3>1. Fixing(Told', n, 0) /\ Witnesses(Told', n, Len(Told')) = {}
      BY <1>6, <1>10, <2>6, <2>7 DEF Kept, r
    <3>2. FixSteps'
      BY <1>8 DEF FixSteps
    <3> QED BY <1>1, <1>8, <1>12, <3>1, <3>2 DEF Stage
  <2> QED BY <1>1, <1>2, <1>6, <1>7, <1>8, <1>9, <2>4, <2>7, LoopWrites
<1> QED BY <1>2, <1>11, <1>12

LEMMA AgentTold ==
  ASSUME IInv, Tale, Agent
  PROVE  Tale'
<1>1. InAgent
  BY DEF Agent, HandsOver, BadManifest, HandsNothingOver, EnvironmentDown, AgentContainerFails,
    InAgent
<1>2. /\ AbortEvent("setup", "handover") \in Plains
      /\ AbortEvent("setup", "environment") \in Plains
      /\ AbortEvent("setup", "ceiling") \in Plains
      /\ \A c \in Commits : HandOverEvent("repro", c) \in Plains
  BY ArePlain DEF Phases, Causes
<1>3. CASE HandsOver
  BY <1>3, AgentHandsOver
<1>4. CASE BadManifest
  <2>1. PICK c \in Commits :
          PushAndEnd(<<HandOverEvent("repro", c), AbortEvent("setup", "handover")>>,
                     "attempts_exhausted")
    BY <1>4 DEF BadManifest
  <2>2. <<HandOverEvent("repro", c), AbortEvent("setup", "handover")>> \in Seq(Plains)
    BY <1>2, Sequences
  <2>3. pc' = "closing" /\ UNCHANGED <<n, boxVars, planeVars>>
    BY <1>4 DEF BadManifest
  <2> QED BY <1>1, <2>1, <2>2, <2>3, AgentCloses
<1>5. CASE HandsNothingOver
  <2>1. PICK report \in Reported :
          PushAndEnd(Append(report, AbortEvent("setup", "handover")), "attempts_exhausted")
    BY <1>5 DEF HandsNothingOver
  <2>2. Append(report, AbortEvent("setup", "handover")) \in Seq(Plains)
    BY <1>2, HostsArePlain, Sequences
  <2>3. pc' = "closing" /\ UNCHANGED <<n, boxVars, planeVars>>
    BY <1>5 DEF HandsNothingOver
  <2> QED BY <1>1, <2>1, <2>2, <2>3, AgentCloses
<1>6. CASE EnvironmentDown
  <2>1. PICK report \in Reported :
          LET said == <<AbortEvent("setup", "environment")>> \o report IN
          IF pc = "reproducing"
            THEN PushAndEnd(said, "error")
            ELSE PushAndEnd(Append(said, AbortEvent("setup", "handover")), "attempts_exhausted")
    BY <1>6 DEF EnvironmentDown
  <2> DEFINE said == <<AbortEvent("setup", "environment")>> \o report
  <2>2. said \in Seq(Plains) /\ Append(said, AbortEvent("setup", "handover")) \in Seq(Plains)
    BY <1>2, HostsArePlain, Sequences
  <2>3. pc' = "closing" /\ UNCHANGED <<n, boxVars, planeVars>>
    BY <1>6 DEF EnvironmentDown
  <2>4. \E es \in Seq(Plains) : \E reason : PushAndEnd(es, reason)
    BY <2>1, <2>2
  <2> QED BY <1>1, <2>3, <2>4, AgentCloses
<1>7. CASE AgentContainerFails
  <2>1. PICK events \in {<<AbortEvent("setup", "environment")>>,
                         <<AbortEvent("setup", "ceiling")>>, <<>>} : PushAndEnd(events, "error")
    BY <1>7 DEF AgentContainerFails
  <2>2. events \in Seq(Plains)
    BY <1>2, Sequences
  <2>3. pc' = "closing" /\ UNCHANGED <<n, boxVars, planeVars>>
    BY <1>7 DEF AgentContainerFails
  <2> QED BY <1>1, <2>1, <2>2, <2>3, AgentCloses
<1> QED BY <1>3, <1>4, <1>5, <1>6, <1>7 DEF Agent

-----------------------------------------------------------------------------
(***************************************************************************)
(* What the loop makes of it.                                              *)
(***************************************************************************)
LEMMA LogsAreLists ==
  ASSUME NEW l \in Seq(Events)
  PROVE  IsList(l) /\ Reasoned(l) /\ Listed(l, FoldOf(l))
<1>1. IsList(l)
  BY SequencesAreLists
<1>2. \A i \in DOMAIN l : l[i] \in Events
  BY LenProperties, ElementOfSeq
<1>3. Reasoned(l)
  BY <1>2 DEF Reasoned, Events, Observed, Ends, Reasons
<1> QED BY <1>1, <1>3, FoldIsFaithful DEF Faithful

\* What a fold says of the attempts.
LEMMA CreditIsEarned ==
  ASSUME NEW l \in Seq(Events), NEW st, Listed(l, st)
  PROVE  /\ \A a \in st.shown : ShownIn(l, a)
         /\ st.credited # 0 => st.credited \in Attempts(l) /\ Earned(l, st.credited)
         /\ \A a : a # 0 /\ Earned(l, a) => st.credited # 0
<1>1. IsList(l)
  BY LogsAreLists
<1>2. ASSUME NEW a, a # 0, Earned(l, a) PROVE a \in Attempts(l)
  <2>1. PICK i \in TestsOf(l, a, "base") : TRUE
    BY <1>2 DEF Earned, ShownIn
  <2>2. AttemptAt(l, i) = a
    BY <2>1 DEF TestsOf, Within
  <2> QED BY <1>1, <1>2, <2>2, AttemptsAreDeclared
<1>3. /\ st.shown = {a \in Attempts(l) : ShownIn(l, a)}
      /\ st.credited # 0 => /\ st.credited \in Attempts(l)
                            /\ ShownIn(l, st.credited) /\ FixedIn(l, st.credited)
      /\ (\E a \in Attempts(l) : ShownIn(l, a) /\ FixedIn(l, a)) => st.credited # 0
  BY <1>1, VerdictIsLogged
<1> QED BY <1>2, <1>3 DEF Earned

\* The loop asks the fold of its own log.
LEMMA LoopIsTold ==
  ASSUME IInv, Tale, pc \in Looping
  PROVE  /\ n \in FoldOf(log).shown => ShownIn(log, n)
         /\ FoldOf(log).credited = 0 => \A a \in 1..n : ~Earned(log, a)
<1>1. log \in Seq(Events) /\ n \in Nat
  BY InTheLoop
<1>2. Listed(log, FoldOf(log))
  BY <1>1, LogsAreLists
<1>3. \A a \in 1..n : a # 0
  BY <1>1
<1> QED BY <1>1, <1>2, <1>3, CreditIsEarned

LEMMA NothingIsPushed ==
  ASSUME NEW l \in Seq(Events), NEW k \in Nat
  PROVE  l \o Numbered(<<>>, k) = l /\ l \o <<>> = l
<1>1. <<>> \in Seq(Events) /\ Len(<<>>) = 0
  OBVIOUS
<1>2. Numbered(<<>>, k) \in Seq(Events) /\ Len(Numbered(<<>>, k)) = 0
  BY <1>1, NumberedIsSeq
<1>3. Numbered(<<>>, k) = <<>>
  BY <1>2, EmptySeq
<1> QED BY <1>3, NothingToTell

\* A step of the loop that writes nothing.
LEMMA LoopDecides ==
  ASSUME IInv, Tale, pc \in Looping, n' = n, UNCHANGED <<boxVars, planeVars>>, stream = <<>>,
         log' = log, pc' \in {"fixing", "closing", "over", "attempt"},
         pc' = "over" /\ ended' = NoEnd => FoldOf(log).credited # 0,
         pc' = "attempt" => \A a \in 1..n : ~Earned(log, a),
         pc' = "fixing" => Shown(log, n)
  PROVE  Tale'
<1>1. log \in Seq(Events) /\ Len(log) \in Nat /\ Story(log)
  BY InTheLoop
<1>2. log \o Numbered(<<>>, Len(log)) = log /\ log \o <<>> = log
  BY <1>1, NothingIsPushed
<1>3. <<>> \in Seq(Observed) /\ \A i \in 1..Len(<<>>) : <<>>[i].type # "ATTEMPT_STARTED"
  BY ObservedSequences
<1>4. Stage'
  <2>1. stream' = <<>>
    BY DEF boxVars
  <2>2. Told' = log
    BY <1>2, <2>1 DEF Told
  <2> QED BY <2>2 DEF Stage
<1>5. pc' \in Looping /\ stream' = <<>> /\ UNCHANGED planeVars
  BY DEF Looping, boxVars
<1> QED BY <1>1, <1>2, <1>3, <1>4, <1>5, LoopWrites

LEMMA GateTold ==
  ASSUME IInv, Tale, Gate
  PROVE  Tale'
<1>1. /\ pc = "gate" /\ pc \in Looping /\ pc \in Early /\ n' = n
      /\ UNCHANGED <<boxVars, planeVars>>
  BY DEF Gate, Looping, Early
<1>2. /\ stream = <<>> /\ Told = log /\ log \in Seq(Events) /\ OnlyLast(log)
      /\ Len(log) \in Nat /\ afterSeq = Len(log)
  BY <1>1, InTheLoop DEF Tale, Contained
<1>3. CASE GateOpen(n)
  <2>1. ShownIn(log, n)
    BY <1>1, <1>3, LoopIsTold DEF GateOpen
  <2>2. Drawn(log, n, BaseDraws, {repro})
    BY <1>1, <1>2 DEF Tale, Stage
  <2>3. Shown(log, n)
    BY <1>2, <2>1, <2>2, GateTellsShown
  <2>4. log' = log /\ pc' = "fixing"
    BY <1>3 DEF Gate, logVars
  <2> QED BY <1>1, <1>2, <2>3, <2>4, LoopDecides
<1>4. CASE ~GateOpen(n)
  <2>1. PushAndEnd(<<>>, "not_reproduced") /\ pc' = "closing"
    BY <1>4 DEF Gate
  <2>2. log' = log
    BY <1>2, <2>1, NothingIsPushed DEF PushAndEnd
  <2> QED BY <1>1, <1>2, <2>1, <2>2, LoopDecides
<1> QED BY <1>3, <1>4

LEMMA CloseTold ==
  ASSUME IInv, Tale, CloseAttempt
  PROVE  Tale'
<1>1. pc = "closing" /\ pc \in Looping /\ n' = n /\ UNCHANGED <<boxVars, planeVars>>
  BY DEF CloseAttempt, Looping
<1>2. /\ stream = <<>> /\ log \in Seq(Events) /\ Len(log) \in Nat /\ afterSeq \in Nat
  BY <1>1, InTheLoop DEF Tale, Contained, IInv, Typed, TypeOK
<1> DEFINE reproduced == FoldOf(log).credited # 0
           exhausted == ~reproduced /\ LastOne(n) /\ ended = NoEnd
<1>3. CASE exhausted
  <2>1. PushAndEnd(<<>>, "attempts_exhausted") /\ pc' = "over"
    BY <1>3 DEF CloseAttempt
  <2>2. log' = log
    BY <1>2, <2>1, NothingIsPushed DEF PushAndEnd
  <2>3. ended' # NoEnd
    <3>1. ended' = At(afterSeq + Len(<<>>) + 1, EndEvent("attempts_exhausted"))
      BY <2>1 DEF PushAndEnd
    <3>2. EndEvent("attempts_exhausted") \in Ends
      BY DEF EndEvent, Ends, Reasons
    <3>3. afterSeq + Len(<<>>) + 1 \in Nat
      BY <1>2
    <3>4. ended' \in Ends
      BY <3>1, <3>2, <3>3, AtEnd
    <3> QED BY <3>4, OrchestrateAssumption
  <2> QED BY <1>1, <1>2, <2>1, <2>2, <2>3, LoopDecides
<1>4. CASE ~exhausted
         /\ (reproduced \/ NoneLeft(n) \/ (ended # NoEnd /\ ended.reason = "error"))
  <2>1. pc' = "over" /\ log' = log /\ ended' = ended
    BY <1>4 DEF CloseAttempt, logVars
  <2>2. ended' = NoEnd => reproduced
    BY <1>4, <2>1 DEF NoneLeft, LastOne
  <2> QED BY <1>1, <1>2, <2>1, <2>2, LoopDecides
<1>5. CASE ~exhausted
         /\ ~(reproduced \/ NoneLeft(n) \/ (ended # NoEnd /\ ended.reason = "error"))
  <2>1. pc' = "attempt" /\ log' = log
    BY <1>5 DEF CloseAttempt
  <2>2. \A a \in 1..n : ~Earned(log, a)
    BY <1>1, <1>5, LoopIsTold
  <2> QED BY <1>1, <1>2, <2>1, <2>2, LoopDecides
<1> QED BY <1>3, <1>4, <1>5

LEMMA BeginsOn ==
  ASSUME NEW l, NEW m, NEW r, Len(l) \in Nat, Len(m) \in Nat, Len(r) \in Nat,
         Begins(l, m), Begins(m, r)
  PROVE  Begins(l, r)
<1>1. \A i \in 1..Len(l) : i \in 1..Len(m)
  BY DEF Begins
<1>2. \A i \in 1..Len(l) : SameNews(l[i], r[i])
  BY <1>1 DEF Begins, SameNews
<1> QED BY <1>2 DEF Begins

LEMMA FirstThenRest ==
  ASSUME NEW l \in Seq(Events), NEW e \in Events, NEW rest \in Seq(Events)
  PROVE  l \o (<<e>> \o rest) = Append(l, e) \o rest
<1> DEFINE one == <<e>>
<1>1. one \in Seq(Events)
  OBVIOUS
<1>2. l \o one = Append(l, e)
  BY NothingToTell
<1> HIDE DEF one
<1>3. (l \o one) \o rest = l \o (one \o rest)
  BY <1>1, ConcatsAssociate
<1> QED BY <1>2, <1>3 DEF one

\* Another attempt is written down, with what is said at once of it.
LEMMA Starts ==
  ASSUME NEW l \in Seq(Events), NEW k \in Nat, Story(l), Ordered(l, k), Unended(l),
         NEW rest \in Seq(Plains), NEW m \in Seq(Events),
         m = l \o Numbered(<<StartEvent(k + 1)>> \o rest, Len(l))
  PROVE  /\ Story(m) /\ Untested(m, k + 1) /\ Ordered(m, k + 1) /\ Unended(m) /\ Begins(l, m)
         /\ \A i \in 1..Len(m) : i \in 1..Len(l) \/ Owner(m, i) = k + 1
<1> DEFINE s == StartEvent(k + 1)
           es == <<s>> \o rest
           t == Append(l, s)
<1>1. /\ s \in Events /\ s.type = "ATTEMPT_STARTED" /\ s.n = k + 1
      /\ <<s>> \in Seq(Events)
  <2>1. s \in Observed
    BY EventsAreObserved
  <2> QED BY <2>1 DEF Events, StartEvent
<1>2. /\ rest \in Seq(Events) /\ Len(rest) \in Nat
      /\ \A i \in 1..Len(rest) : Plain(rest[i])
      /\ \A i \in 1..Len(rest) : rest[i].type \notin {"ATTEMPT_STARTED", "RUN_ENDED"}
  BY WatchedIsObserved, LenProperties DEF Plain
<1> HIDE DEF s
<1>3. /\ t \in Seq(Events) /\ Len(l) \in Nat /\ Len(t) = Len(l) + 1
      /\ \A i \in 1..Len(l) : t[i] = l[i]
      /\ t[Len(l) + 1] = s /\ Begins(l, t)
  BY <1>1, AppendBegins
<1>4. es \in Seq(Events) /\ l \o es = t \o rest
  <2>1. es \in Seq(Events)
    BY <1>1, <1>2, ConcatProperties
  <2>2. l \o (<<s>> \o rest) = t \o rest
    BY <1>1, <1>2, FirstThenRest
  <2> QED BY <2>1, <2>2
<1>5. ~IsBase(s) /\ ~IsFix(s) /\ ~IsWitness(s) /\ ~IsTest(s, "base") /\ ~IsTest(s, "fix")
      /\ ~IsRegistration(s) /\ ~IsFixHandOver(s)
  BY <1>1 DEF IsBase, IsFix, IsWitness, IsTest, IsRegistration, IsFixHandOver
<1>6. Story(t)
  <2>1. Fits(l, s)
    BY <1>5 DEF Fits, IsFix
  <2> QED BY <1>1, <2>1, StoryGrows
<1>7. /\ \A i \in 0..Len(l) : Owner(t, i) = Owner(l, i)
      /\ Owner(t, Len(l) + 1) = k + 1
  BY <1>1, OwnersGrow
<1>8. \A i \in 1..Len(l) : Owner(l, i) <= k /\ i \in 0..Len(l)
  <2>1. \A i \in 1..Len(l) : i <= Len(l) /\ Len(l) \in 1..Len(l) /\ i \in 0..Len(l)
    BY <1>3
  <2> QED BY <2>1 DEF Ordered
<1>9. \A i \in 1..Len(t) : Owner(t, i) = k + 1 => t[i] = s
  <2> SUFFICES ASSUME NEW i \in 1..Len(t), Owner(t, i) = k + 1 PROVE t[i] = s
    OBVIOUS
  <2>1. CASE i \in 1..Len(l)
    <3>1. Owner(l, i) = k + 1 /\ Owner(l, i) <= k
      BY <1>7, <1>8, <2>1
    <3> QED BY <3>1
  <2>2. CASE i \notin 1..Len(l)
    <3>1. i = Len(l) + 1
      BY <1>3, <2>2
    <3> QED BY <1>3, <3>1
  <2> QED BY <2>1, <2>2
<1>10. Untested(t, k + 1)
  BY <1>5, <1>9 DEF Untested, NoFixYet, Tests, Registrations, HandOvers, Witnesses
<1> HIDE DEF es, t
<1>11. Kept(t, t \o rest) /\ t \o rest \in Seq(Events) /\ Begins(t, t \o rest)
       /\ Len(t \o rest) = Len(t) + Len(rest)
       /\ \A i \in 1..Len(rest) : (t \o rest)[Len(t) + i] = rest[i]
  BY <1>2, <1>3, PlainsKeep, ConcatBegins
<1>12. Alike(t \o rest, m) /\ Len(m) = Len(t) + Len(rest)
  <2>1. m = l \o Numbered(es, Len(l))
    BY DEF es, s
  <2>2. Alike(l \o es, m)
    BY <1>3, <1>4, <2>1, PushedIsTold
  <2>3. Alike(t \o rest, m)
    BY <1>4, <2>2
  <2> QED BY <1>11, <2>3, AlikeStands
<1>13. Kept(t, m)
  BY <1>11, <1>12, AlikeKeeps, KeptIsTransitive
<1>14. Story(m) /\ Untested(m, k + 1)
  BY <1>6, <1>10, <1>13 DEF Kept
<1>15. Begins(t, m) /\ Begins(l, m) /\ Len(m) \in Nat
  <2>1. Len(t) \in Nat /\ Len(t \o rest) \in Nat /\ Len(m) \in Nat /\ Len(l) \in Nat
    BY <1>2, <1>3, <1>11, <1>12
  <2>2. Begins(t, m)
    BY <1>11, <1>12, <2>1, BeginsOn DEF Alike
  <2> QED BY <1>3, <2>1, <2>2, BeginsOn
<1>16. \A i \in 1..Len(m) :
         i \in 1..Len(t) \/ m[i].type \notin {"ATTEMPT_STARTED", "RUN_ENDED"}
  <2> SUFFICES ASSUME NEW i \in 1..Len(m), i \notin 1..Len(t)
               PROVE  m[i].type \notin {"ATTEMPT_STARTED", "RUN_ENDED"}
    OBVIOUS
  <2> DEFINE j == i - Len(t)
  <2>1. j \in 1..Len(rest) /\ i = Len(t) + j /\ i \in 1..Len(t \o rest)
    BY <1>2, <1>3, <1>11, <1>12
  <2> HIDE DEF j
  <2>2. m[i].type = (t \o rest)[i].type
    BY <1>12, <2>1 DEF Alike, Begins, SameNews
  <2> QED BY <1>2, <1>11, <2>1, <2>2
<1>17. \A i \in 0..Len(m) : Owner(m, i) = IF i <= Len(t) THEN Owner(t, i) ELSE Owner(t, Len(t))
  BY <1>3, <1>15, <1>16, OwnersGoOn
<1>18. \A i \in 0..Len(m) : Owner(m, i) = IF i <= Len(l) THEN Owner(l, i) ELSE k + 1
  <2> SUFFICES ASSUME NEW i \in 0..Len(m)
               PROVE  Owner(m, i) = IF i <= Len(l) THEN Owner(l, i) ELSE k + 1
    OBVIOUS
  <2>1. CASE i <= Len(l)
    <3>1. i \in 0..Len(l) /\ i <= Len(t)
      BY <1>3, <2>1
    <3> QED BY <1>7, <1>17, <2>1, <3>1
  <2>2. CASE ~(i <= Len(l)) /\ i <= Len(t)
    <3>1. i = Len(l) + 1
      BY <1>3, <2>2
    <3> QED BY <1>7, <1>17, <2>2, <3>1
  <2>3. CASE ~(i <= Len(t))
    <3>1. Owner(m, i) = Owner(t, Len(t))
      BY <1>17, <2>3
    <3>2. i \in Nat /\ ~(i <= Len(l))
      BY <1>3, <1>15, <2>3
    <3> QED BY <1>3, <1>7, <3>1, <3>2
  <2> QED BY <2>1, <2>2, <2>3
<1>19. \A i \in 1..Len(m) : i \in 1..Len(l) \/ Owner(m, i) = k + 1
  <2>1. \A i \in 1..Len(m) : i \in 0..Len(m) /\ (i \in 1..Len(l) \/ ~(i <= Len(l)))
    BY <1>3, <1>15
  <2> QED BY <1>18, <2>1
<1>20. Ordered(m, k + 1)
  <2> DEFINE N == Len(l)
             M == Len(m)
  <2>1. N \in Nat /\ M \in Nat /\ M > N
    BY <1>2, <1>3, <1>12
  <2>2. \A i \in 1..M : Owner(m, i) = IF i <= N THEN Owner(l, i) ELSE k + 1
    <3>1. \A i \in 1..M : i \in 0..M
      BY <2>1
    <3> QED BY <1>18, <3>1
  <2>3. \A i, j \in 1..N : i <= j => Owner(l, i) <= Owner(l, j)
    BY DEF Ordered
  <2>4. \A i \in 1..N : Owner(l, i) <= k
    BY <1>8
  <2>5. Owner(m, M) = k + 1
    <3>1. M \in 1..M /\ ~(M <= N)
      BY <2>1
    <3> QED BY <2>2, <3>1
  <2>6. \A i \in 1..N : Owner(l, i) \in Nat
    BY OwnersAreNat
  <2> HIDE DEF N, M
  <2>7. ASSUME NEW i \in 1..M, NEW j \in 1..M, i <= j PROVE Owner(m, i) <= Owner(m, j)
    <3>1. CASE j <= N
      <4>1. i \in 1..N /\ j \in 1..N /\ i <= N
        BY <2>1, <2>7, <3>1
      <4>2. Owner(m, i) = Owner(l, i) /\ Owner(m, j) = Owner(l, j)
        BY <2>2, <3>1, <4>1
      <4> QED BY <2>3, <2>7, <4>1, <4>2
    <3>2. CASE i <= N /\ ~(j <= N)
      <4>1. i \in 1..N
        BY <2>1, <3>2
      <4>2. Owner(m, i) <= k /\ Owner(m, i) \in Nat /\ Owner(m, j) = k + 1
        BY <2>2, <2>4, <2>6, <3>2, <4>1
      <4> QED BY <4>2
    <3>3. CASE ~(i <= N) /\ ~(j <= N)
      <4>1. Owner(m, i) = k + 1 /\ Owner(m, j) = k + 1
        BY <2>2, <3>3
      <4> QED BY <4>1
    <3> QED BY <2>1, <2>7, <3>1, <3>2, <3>3
  <2> QED BY <2>5, <2>7 DEF Ordered, M
<1>21. Unended(m)
  <2>1. \A i \in 1..Len(t) : t[i].type # "RUN_ENDED"
    <3> SUFFICES ASSUME NEW i \in 1..Len(t) PROVE t[i].type # "RUN_ENDED"
      OBVIOUS
    <3>1. i \in 1..Len(l) \/ i = Len(l) + 1
      BY <1>3
    <3> QED BY <1>1, <1>3, <3>1 DEF Unended
  <2>2. \A i \in 1..Len(t) : m[i].type = t[i].type
    BY <1>15 DEF Begins, SameNews
  <2> QED BY <1>16, <2>1, <2>2 DEF Unended
<1> QED BY <1>14, <1>15, <1>19, <1>20, <1>21

LEMMA StartTold ==
  ASSUME IInv, Tale, pc = "attempt", n' = n + 1, UNCHANGED <<boxVars, planeVars>>,
         NEW rest \in Seq(Plains),
         log' = log \o Numbered(<<StartEvent(n + 1)>> \o rest, Len(log)),
         pc' \in {"reproducing", "over"}, pc' = "over" => ended' # NoEnd
  PROVE  Tale'
<1>1. pc \in Looping /\ pc' \in Looping
  BY DEF Looping
<1>2. /\ log \in Seq(Events) /\ Len(log) \in Nat /\ n \in Nat
      /\ Ordered(log, n) /\ Unended(log) /\ OnlyLast(log) /\ sent = 0 /\ pull = NoCommit
      /\ Story(log) /\ stream = <<>> /\ n' \in Nat
  BY <1>1, InTheLoop DEF Tale, Contained
<1>3. log' \in Seq(Events)
  <2>1. <<StartEvent(n + 1)>> \in Seq(Events) /\ rest \in Seq(Events)
    <3>1. StartEvent(n + 1) \in Events
      BY <1>2, EventsAreObserved DEF Events
    <3> QED BY <3>1, WatchedIsObserved
  <2>2. <<StartEvent(n + 1)>> \o rest \in Seq(Events)
    BY <2>1, ConcatProperties
  <2>3. Numbered(<<StartEvent(n + 1)>> \o rest, Len(log)) \in Seq(Events)
    BY <1>2, <2>2, NumberedIsSeq
  <2> QED BY <1>2, <2>3, ConcatProperties
<1>4. /\ Story(log') /\ Untested(log', n') /\ Ordered(log', n') /\ Unended(log')
      /\ Begins(log, log')
      /\ \A i \in 1..Len(log') : i \in 1..Len(log) \/ Owner(log', i) = n'
  <2> DEFINE m == log'
             k == n
  <2>1. m \in Seq(Events) /\ m = log \o Numbered(<<StartEvent(k + 1)>> \o rest, Len(log))
    BY <1>3
  <2>2. k \in Nat /\ Story(log) /\ Ordered(log, k) /\ Unended(log) /\ log \in Seq(Events)
    BY <1>2
  <2>3. n' = k + 1
    OBVIOUS
  <2> HIDE DEF m, k
  <2>4. /\ Story(m) /\ Untested(m, k + 1) /\ Ordered(m, k + 1) /\ Unended(m) /\ Begins(log, m)
        /\ \A i \in 1..Len(m) : i \in 1..Len(log) \/ Owner(m, i) = k + 1
    BY <2>1, <2>2, Starts
  <2> QED BY <2>3, <2>4 DEF m
<1>5. stream' = <<>> /\ Told' = log'
  <2>1. stream' = <<>>
    BY <1>2 DEF boxVars
  <2> QED BY <1>3, <2>1, NothingToTell DEF Told
<1>6. OnlyLast(log')
  BY <1>4 DEF Unended, OnlyLast
<1>7. Uncredited'
  <2> SUFFICES ASSUME NEW a \in 1..n', a < n' \/ pc' = "attempt", Earned(log', a) PROVE FALSE
    BY DEF Uncredited
  <2>1. a \in 1..n /\ a # n' /\ a # 0 /\ n' # 0
    BY <1>2
  <2>2. Earned(log, a)
    BY <1>2, <1>3, <1>4, <1>6, <2>1, VerdictStays
  <2> QED BY <2>1, <2>2 DEF Tale, Uncredited
<1>8. Stage'
  BY <1>4, <1>5 DEF Stage
<1>9. Contained' /\ StoryIsTold' /\ Attempted' /\ Ending'
  BY <1>1, <1>4, <1>5 DEF Contained, StoryIsTold, Attempted, Ending, Looping
<1>10. Copied'
  <2>1. SubSeq(log, 1, 0) = <<>> /\ SubSeq(log', 1, 0) = <<>>
    BY <1>2, <1>3
  <2>2. seen' = seen /\ sent' = 0
    BY <1>2 DEF planeVars
  <2> QED BY <1>2, <2>1, <2>2 DEF Copied, Tale
<1>11. Proved' /\ AnswersAreFinal'
  BY <1>2 DEF Proved, Backed, AnswersAreFinal, planeVars
<1> QED BY <1>7, <1>8, <1>9, <1>10, <1>11 DEF Tale

LEMMA ReturnTold ==
  ASSUME IInv, Tale, Return
  PROVE  Tale'
<1>1. /\ pc = "over" /\ pc \in Looping /\ pc' = "shipping" /\ pc' \notin Looping
      /\ n' = n /\ UNCHANGED <<boxVars, planeVars>>
      /\ log' = IF ended = NoEnd THEN log ELSE Append(log, ended)
  BY DEF Return, Looping, loopVars
<1>2. /\ log \in Seq(Events) /\ Len(log) \in Nat /\ n \in Nat
      /\ Ordered(log, n) /\ Unended(log) /\ OnlyLast(log) /\ sent = 0 /\ pull = NoCommit
      /\ Story(log) /\ stream = <<>>
  BY <1>1, InTheLoop DEF Tale, Contained
<1>3. ended # NoEnd => ended \in Events /\ ended.type = "RUN_ENDED"
  BY DEF IInv, Typed, TypeOK, Events, Ends
<1>4. /\ log' \in Seq(Events) /\ Story(log') /\ Begins(log, log')
      /\ \A i \in 1..Len(log') : i \in 1..Len(log) \/ log'[i].type = "RUN_ENDED"
      /\ OnlyLast(log') /\ (ended # NoEnd => ~Unended(log'))
  <2>1. CASE ended = NoEnd
    <3>1. log' = log
      BY <1>1, <2>1
    <3>2. Begins(log, log)
      BY <1>2 DEF Begins, SameNews
    <3> QED BY <1>2, <2>1, <3>1, <3>2
  <2>2. CASE ended # NoEnd
    <3> DEFINE m == Append(log, ended)
    <3>1. /\ m \in Seq(Events) /\ Len(m) = Len(log) + 1 /\ Begins(log, m)
          /\ \A i \in 1..Len(log) : m[i] = log[i]
          /\ m[Len(log) + 1] = ended
      BY <1>2, <1>3, <2>2, AppendBegins
    <3>2. Story(m)
      <4>1. Fits(log, ended)
        BY <1>3, <2>2 DEF Fits, IsBase, IsFix, IsWitness, IsTest, IsRegistration, IsFixHandOver
      <4> QED BY <1>2, <1>3, <2>2, <4>1, StoryGrows
    <3> HIDE DEF m
    <3>3. \A i \in 1..Len(m) : i \in 1..Len(log) \/ i = Len(m)
      BY <1>2, <3>1
    <3>4. OnlyLast(m)
      BY <1>2, <3>1, <3>3 DEF OnlyLast, Unended
    <3>5. Len(m) \in 1..Len(m) /\ m[Len(m)] = ended
      BY <1>2, <3>1
    <3>6. ~Unended(m) /\ \A i \in 1..Len(m) : i \in 1..Len(log) \/ m[i].type = "RUN_ENDED"
      BY <1>3, <2>2, <3>3, <3>5 DEF Unended
    <3> QED BY <1>1, <2>2, <3>1, <3>2, <3>4, <3>6 DEF m
  <2> QED BY <2>1, <2>2
<1>5. stream' = <<>> /\ Told' = log'
  <2>1. stream' = <<>>
    BY <1>1, <1>2 DEF boxVars
  <2> QED BY <1>4, <2>1, NothingToTell DEF Told
<1>6. \A i \in 0..Len(log') : Owner(log', i) = IF i <= Len(log) THEN Owner(log, i) ELSE n
  <2>1. \A i \in 1..Len(log') : i \in 1..Len(log) \/ log'[i].type # "ATTEMPT_STARTED"
    BY <1>4
  <2> QED BY <1>2, <1>4, <2>1, OwnersGoOn DEF Ordered
<1>7. Ordered(log', n)
  <2>1. Len(log') \in Nat /\ Len(log) <= Len(log') /\ n \in Int
    BY <1>2, <1>4, LenProperties DEF Begins
  <2> QED BY <1>2, <1>6, <2>1, OrderGoesOn
<1>8. Uncredited'
  <2> SUFFICES ASSUME NEW a \in 1..n, a < n, Earned(log', a) PROVE FALSE
    BY <1>1 DEF Uncredited
  <2>1. Earned(log, a)
    BY <1>2, <1>4, VerdictStays
  <2> QED BY <2>1 DEF Tale, Uncredited
<1>9. Ending'
  <2>1. ended = NoEnd => FoldOf(log').credited # 0
    BY <1>1 DEF Tale, Ending
  <2> QED BY <1>1, <1>4, <2>1 DEF Ending
<1>10. Stage' /\ Contained' /\ StoryIsTold' /\ Attempted'
  BY <1>1, <1>4, <1>5, <1>7 DEF Stage, Contained, StoryIsTold, Attempted
<1>11. Copied'
  <2>1. SubSeq(log, 1, 0) = <<>> /\ SubSeq(log', 1, 0) = <<>>
    BY <1>2, <1>4
  <2>2. seen' = seen /\ sent' = 0
    BY <1>1, <1>2 DEF planeVars
  <2> QED BY <1>1, <1>2, <2>1, <2>2 DEF Copied, Tale
<1>12. Proved' /\ AnswersAreFinal'
  BY <1>1, <1>2 DEF Proved, Backed, AnswersAreFinal, planeVars
<1> QED BY <1>8, <1>9, <1>10, <1>11, <1>12 DEF Tale

LEMMA LoopTold ==
  ASSUME IInv, Tale, Loop
  PROVE  Tale'
<1>1. CASE StartAttempt
  <2>1. /\ pc = "attempt" /\ n' = n + 1 /\ UNCHANGED <<boxVars, planeVars>>
        /\ Push(<<StartEvent(n + 1)>>) /\ pc' = "reproducing"
    BY <1>1 DEF StartAttempt, NextAttempt
  <2>2. afterSeq = Len(log)
    BY <2>1, InTheLoop DEF Looping, Early
  <2>3. <<StartEvent(n + 1)>> \o <<>> = <<StartEvent(n + 1)>> /\ <<>> \in Seq(Plains)
    OBVIOUS
  <2>4. log' = log \o Numbered(<<StartEvent(n + 1)>> \o <<>>, Len(log))
    BY <2>1, <2>2, <2>3 DEF Push
  <2> QED BY <2>1, <2>3, <2>4, StartTold
<1>2. CASE BuildFailed
  <2> DEFINE es == <<StartEvent(1), AbortEvent("setup", "environment")>>
  <2>1. /\ pc = "attempt" /\ n = 0 /\ n' = n + 1 /\ UNCHANGED <<boxVars, planeVars>>
        /\ PushAndEnd(es, "error") /\ pc' = "over"
    BY <1>2 DEF BuildFailed, NextAttempt
  <2>2. afterSeq = Len(log) /\ Len(log) \in Nat
    BY <2>1, InTheLoop DEF Looping, Early
  <2>3. <<AbortEvent("setup", "environment")>> \in Seq(Plains)
    BY ArePlain, Sequences DEF Phases, Causes
  <2>4. <<StartEvent(n + 1)>> \o <<AbortEvent("setup", "environment")>> = es
    <3>1. \A a, b : <<a>> \o <<b>> = <<a, b>>
      <4> SUFFICES ASSUME NEW a, NEW b PROVE <<a>> \o <<b>> = <<a, b>>
        OBVIOUS
      <4>1. <<a>> \o <<b>> = Append(<<a>>, b)
        OBVIOUS
      <4> DEFINE S == {a, b}
                 p == Append(<<a>>, b)
                 q == <<a, b>>
      <4>2. p \in Seq(S) /\ Len(p) = 2 /\ p[1] = a /\ p[2] = b
        <5>1. <<a>> \in Seq(S) /\ Len(<<a>>) = 1 /\ <<a>>[1] = a /\ b \in S
          OBVIOUS
        <5> DEFINE one == <<a>>
        <5> HIDE DEF one
        <5>2. /\ Append(one, b) \in Seq(S) /\ Len(Append(one, b)) = Len(one) + 1
              /\ \A i \in 1..Len(one) : Append(one, b)[i] = one[i]
              /\ Append(one, b)[Len(one) + 1] = b
          BY <5>1, AppendProperties DEF one
        <5> QED BY <5>1, <5>2 DEF one
      <4>3. q \in Seq(S) /\ Len(q) = 2 /\ q[1] = a /\ q[2] = b
        OBVIOUS
      <4> HIDE DEF p, q, S
      <4>4. \A i \in 1..2 : p[i] = q[i]
        BY <4>2, <4>3
      <4>5. p = q
        BY <4>2, <4>3, <4>4, SeqEqual
      <4> QED BY <4>1, <4>5 DEF p, q
    <3>2. n + 1 = 1
      BY <2>1
    <3> QED BY <3>1, <3>2
  <2>5. log' = log \o Numbered(es, Len(log))
    BY <2>1, <2>2 DEF PushAndEnd
  <2>6. ended' # NoEnd
    <3>1. ended' = At(afterSeq + Len(es) + 1, EndEvent("error"))
      BY <2>1 DEF PushAndEnd
    <3>2. EndEvent("error") \in Ends
      BY DEF EndEvent, Ends, Reasons
    <3>3. afterSeq + Len(es) + 1 \in Nat
      BY <2>2
    <3>4. ended' \in Ends
      BY <3>1, <3>2, <3>3, AtEnd
    <3> QED BY <3>4, OrchestrateAssumption
  <2> HIDE DEF es
  <2> QED BY <2>1, <2>3, <2>4, <2>5, <2>6, StartTold
<1>3. CASE Gate
  BY <1>3, GateTold
<1>4. CASE CloseAttempt
  BY <1>4, CloseTold
<1>5. CASE Return
  BY <1>5, ReturnTold
<1> QED BY <1>1, <1>2, <1>3, <1>4, <1>5 DEF Loop

-----------------------------------------------------------------------------
(***************************************************************************)
(* What reaches the plane, and what is made of it.                         *)
(***************************************************************************)
\* Nothing comes before the request.
Fresh == pc = "requested" => n = 0 /\ log = <<>>

LEMMA FreshStays ==
  ASSUME IInv, Fresh, [Next]_vars
  PROVE  Fresh'
<1>1. CASE Verify
  <2>1. pc' # "requested"
    BY <1>1, VerifyWrites DEF IInv
  <2> QED BY <2>1 DEF Fresh
<1>2. CASE Agent
  <2>1. pc' # "requested"
    BY <1>2, AgentWrites DEF IInv
  <2> QED BY <2>1 DEF Fresh
<1>3. CASE Loop
  <2>1. pc' # "requested"
    BY <1>3 DEF Loop, StartAttempt, BuildFailed, Gate, CloseAttempt, Return
  <2> QED BY <2>1 DEF Fresh
<1>4. CASE RunFromIssue
  <2>1. pc' # "requested"
    BY <1>4 DEF RunFromIssue, Request, Block, Ship, Decide, PushBranch, OpenPullRequest,
      RecordPullRequest, EndWithPullRequest, Throws
  <2> QED BY <2>1 DEF Fresh
<1>5. CASE UNCHANGED vars
  BY <1>5 DEF Fresh, vars, loopVars, logVars
<1> QED BY <1>1, <1>2, <1>3, <1>4, <1>5 DEF Next

\* A log and what of it was sent.
LEMMA InThePlane ==
  ASSUME IInv, Tale
  PROVE  LET p == SubSeq(log, 1, sent) IN
         /\ log \in Seq(Events) /\ Len(log) \in Nat /\ n \in Nat /\ sent \in 0..Len(log)
         /\ Story(log) /\ OnlyLast(log) /\ IsList(log)
         /\ p \in Seq(Events) /\ IsList(p) /\ Len(p) = sent /\ Begins(p, log)
         /\ Story(p) /\ OnlyLast(p) /\ Listed(p, seen)
         /\ sent = Len(log) => p = log
         /\ Owner(log, 0) = 0
<1> DEFINE p == SubSeq(log, 1, sent)
<1>1. /\ log \in Seq(Events) /\ stream \in Seq(Events) /\ Len(log) \in Nat /\ n \in Nat
      /\ sent \in 0..Len(log)
  BY ObservedIsFree, LenProperties, OrchestrateAssumption DEF IInv, Typed, TypeOK
<1>2. Story(log)
  <2>1. Told \in Seq(Events) /\ Begins(log, Told)
    BY <1>1, ConcatBegins DEF Told
  <2> QED BY <1>1, <2>1, StoriesBegin DEF Tale, StoryIsTold
<1>3. OnlyLast(log)
  BY DEF Tale, Ending, Unended, OnlyLast
<1>4. IsList(log) /\ IsList(p) /\ Len(p) = sent /\ (sent = Len(log) => p = log)
  BY <1>1, LogsAreLists, PrefixesGrow
<1>5. /\ p \in Seq(Events)
      /\ \A i \in 1..sent : p[i] = log[i]
  <2>1. \A i \in 1..sent : i \in 1..Len(log)
    BY <1>1
  <2>2. \A i \in 1..sent : log[i] \in Events
    BY <1>1, <2>1, ElementOfSeq
  <2>3. 1 \in 1..(Len(log) + 1) /\ sent \in 0..Len(log) /\ sent \in Nat
    BY <1>1
  <2> QED BY <1>1, <2>2, <2>3, SubSeqProperties
<1> HIDE DEF p
<1>6. Begins(p, log)
  BY <1>1, <1>4, <1>5 DEF Begins, SameNews
<1>7. Story(p)
  BY <1>1, <1>2, <1>5, <1>6, StoriesBegin
<1>8. OnlyLast(p)
  <2> SUFFICES ASSUME NEW i \in 1..sent, p[i].type = "RUN_ENDED" PROVE i = sent
    BY <1>4 DEF OnlyLast
  <2>1. log[i].type = "RUN_ENDED" /\ i \in 1..Len(log)
    BY <1>1, <1>5
  <2>2. i = Len(log)
    BY <1>3, <2>1 DEF OnlyLast
  <2> QED BY <1>1, <2>2
<1>9. Listed(p, seen)
  BY DEF Tale, Copied, p
<1>10. Owner(log, 0) = 0
  BY DEF Owner
<1> QED BY <1>1, <1>2, <1>3, <1>4, <1>5, <1>6, <1>7, <1>8, <1>9, <1>10 DEF p

\* A request, a pull request and an end are no news of any attempt.
LEMMA NoNews ==
  ASSUME NEW l, NEW st, Listed(l, st), NEW e,
         e.type \in {"RUN_REQUESTED", "PR_OPENED", "RUN_ENDED"}
  PROVE  Listed(l, Apply(st, e))
<1> DEFINE next == [st EXCEPT !.lastSeq = e.seq]
<1>1. DOMAIN st = DOMAIN InitialState /\ Judged(st) /\ st.attempt = Current(l)
  BY DEF Listed
<1>2. /\ DOMAIN next = DOMAIN InitialState /\ Judged(next) /\ SameLists(next, st)
      /\ next.attempt = st.attempt
  BY <1>1, StandingDoes DEF InitialState
<1>3. Listed(l, next)
  BY <1>1, <1>2, ListedStays
<1> HIDE DEF next
<1>4. CASE st.ended # "no"
  <2> DEFINE new == [next EXCEPT !.afterEnd = @ + 1]
  <2>1. Apply(st, e) = new
    BY <1>4 DEF Apply, next
  <2>2. new = [st EXCEPT !.lastSeq = e.seq, !.afterEnd = @ + 1]
    BY <1>1 DEF next, InitialState
  <2>3. /\ DOMAIN new = DOMAIN InitialState /\ Judged(new) /\ SameLists(new, st)
    BY <1>1, <2>2, StandingDoes
  <2>4. new.attempt = st.attempt
    BY <1>1, <2>2 DEF InitialState
  <2> HIDE DEF new
  <2> QED BY <1>1, <2>1, <2>3, <2>4, ListedStays
<1>5. CASE st.ended = "no"
  <2> DEFINE new == Interpret(next, e)
  <2>1. Apply(st, e) = new
    BY <1>5 DEF Apply, next
  <2>2. \/ new = [next EXCEPT !.status = "requested"]
        \/ new = [next EXCEPT !.status = "pr_opened", !.pr = TRUE]
        \/ new = End(next, e)
    BY DEF Interpret
  <2> HIDE DEF new
  <2>3. /\ DOMAIN new = DOMAIN InitialState /\ Judged(new) /\ SameLists(new, next)
    BY <1>2, <2>2, StandingDoes
  <2>4. new.attempt = next.attempt
    BY <1>2, <2>2 DEF InitialState, End
  <2>5. Listed(l, new)
    BY <1>1, <1>2, <1>3, <2>3, <2>4, ListedStays
  <2> QED BY <2>1, <2>5
<1> QED BY <1>4, <1>5

\* How a fold ends.
LEMMA EndsAreFinal ==
  ASSUME NEW l, NEW st, Listed(l, st), st.ended # "no" => st.status \in Finals,
         NEW e, e.type = "RUN_ENDED" => e.reason # "no"
  PROVE  LET new == Apply(st, e) IN
         /\ new.ended # "no" => new.status \in Finals
         /\ new.ended # "no" <=> st.ended # "no" \/ e.type = "RUN_ENDED"
<1> DEFINE next == [st EXCEPT !.lastSeq = e.seq]
           new == Apply(st, e)
<1>1. DOMAIN st = DOMAIN InitialState /\ Judged(st)
  BY DEF Listed
<1>2. /\ DOMAIN next = DOMAIN InitialState /\ Judged(next)
      /\ next.ended = st.ended /\ next.status = st.status
  BY <1>1, StandingDoes DEF InitialState
<1>3. new = IF st.ended # "no" THEN [next EXCEPT !.afterEnd = @ + 1] ELSE Interpret(next, e)
  BY DEF Apply
<1> HIDE DEF next, new
<1>4. CASE st.ended # "no"
  <2>1. new.ended = st.ended /\ new.status = st.status
    BY <1>2, <1>3, <1>4 DEF InitialState
  <2> QED BY <1>4, <2>1 DEF new
<1>5. CASE st.ended = "no"
  <2>1. new.ended = IF e.type = "RUN_ENDED" THEN e.reason ELSE "no"
    BY <1>2, <1>3, <1>5, InterpretEnds
  <2>2. e.type = "RUN_ENDED" => new.status \in Finals
    <3> SUFFICES ASSUME e.type = "RUN_ENDED" PROVE new.status \in Finals
      OBVIOUS
    <3>1. new = End(next, e)
      BY <1>3, <1>5 DEF Interpret
    <3> QED BY <1>2, <3>1 DEF End, Finals, InitialState
  <2> QED BY <1>5, <2>1, <2>2 DEF new
<1> QED BY <1>4, <1>5

\* A step that leaves the log alone once the loop is over.
LEMMA PlaneGoesOn ==
  ASSUME IInv, Tale, UNCHANGED <<loopVars, logVars, boxVars>>, pc # "threw",
         pc' \in Points \ Looping, pc \notin Looping \/ pc' = "threw",
         Copied', Proved', AnswersAreFinal'
  PROVE  Tale'
<1>1. log' = log /\ n' = n /\ stream' = stream /\ Told' = Told /\ ended' = ended
  BY DEF loopVars, logVars, boxVars, Told
<1>2. StoryIsTold' /\ Stage' /\ Contained' /\ Attempted'
  BY <1>1 DEF Tale, StoryIsTold, Stage, Contained, Attempted, Looping
<1>3. Uncredited'
  BY <1>1 DEF Tale, Uncredited, Looping
<1>4. Ending'
  BY <1>1 DEF Tale, Ending, Looping, Unended, OnlyLast
<1> QED BY <1>2, <1>3, <1>4 DEF Tale

\* Emitting an event without news: what was sent of the log is still folded.
LEMMA EmitTold ==
  ASSUME IInv, Tale, NEW e, e.type \in {"RUN_REQUESTED", "PR_OPENED", "RUN_ENDED"},
         e.type = "RUN_ENDED" => e.reason # "no", Emit(e)
  PROVE  /\ Listed(SubSeq(log, 1, sent), seen')
         /\ seen'.ended # "no" => seen'.status \in Finals
         /\ seen'.ended # "no" <=> seen.ended # "no" \/ e.type = "RUN_ENDED"
<1> DEFINE f == At(seq + 1, e)
           p == SubSeq(log, 1, sent)
<1>1. seen' = Apply(seen, f)
  BY DEF Emit
<1>2. f.type = e.type /\ (e.type = "RUN_ENDED" => f.reason # "no")
  BY DEF At
<1>3. Listed(p, seen) /\ (seen.ended # "no" => seen.status \in Finals)
  BY DEF Tale, Copied
<1> HIDE DEF f, p
<1>4. Listed(p, Apply(seen, f))
  BY <1>2, <1>3, NoNews
<1>5. /\ Apply(seen, f).ended # "no" => Apply(seen, f).status \in Finals
      /\ Apply(seen, f).ended # "no" <=> seen.ended # "no" \/ f.type = "RUN_ENDED"
  BY <1>2, <1>3, EndsAreFinal
<1> QED BY <1>1, <1>2, <1>4, <1>5 DEF p

LEMMA RequestTold ==
  ASSUME IInv, Tale, Fresh, Request
  PROVE  Tale'
<1>1. /\ pc = "requested" /\ pc' = "attempt" /\ Emit(Event("RUN_REQUESTED"))
      /\ log' = log /\ n' = n /\ stream' = stream /\ Told' = Told /\ sent' = sent /\ pull' = pull
      /\ ended' = ended
  BY DEF Request, loopVars, logVars, boxVars, Told
<1>2. n = 0 /\ sent = 0 /\ Unended(log) /\ pull = NoCommit /\ SubSeq(log, 1, 0) = <<>>
  <2>1. pc \in Looping
    BY <1>1 DEF Looping
  <2> QED BY <1>1, <2>1, InTheLoop DEF Fresh
<1>3. /\ Listed(SubSeq(log, 1, sent), seen')
      /\ seen'.ended # "no" => seen'.status \in Finals
      /\ seen'.ended # "no" <=> seen.ended # "no"
  <2>1. Event("RUN_REQUESTED").type = "RUN_REQUESTED"
    BY DEF Event
  <2> QED BY <1>1, <2>1, EmitTold
<1>4. Copied'
  <2>1. seen.ended = "no" <=> ~Closed(SubSeq(log, 1, sent))
    BY <1>1 DEF Tale, Copied
  <2> QED BY <1>1, <1>2, <1>3, <2>1 DEF Copied
<1>5. StoryIsTold' /\ Stage' /\ Contained' /\ Attempted'
  BY <1>1 DEF Tale, StoryIsTold, Stage, Contained, Attempted, Looping
<1>6. Uncredited'
  <2>1. \A a : a \notin 1..0
    OBVIOUS
  <2> QED BY <1>1, <1>2, <2>1 DEF Uncredited
<1>7. Ending' /\ Proved' /\ AnswersAreFinal'
  BY <1>1, <1>2 DEF Ending, Proved, Backed, AnswersAreFinal, Looping, Unended
<1> QED BY <1>4, <1>5, <1>6, <1>7 DEF Tale

LEMMA BlockTold ==
  ASSUME IInv, Tale, Fresh, Block
  PROVE  Tale'
<1> DEFINE es == <<StartEvent(1), AbortEvent("setup", "missing_env"), EndEvent("blocked")>>
<1>1. /\ pc = "requested" /\ pc' = "shipping" /\ Emit(Event("RUN_REQUESTED")) /\ Push(es)
      /\ n' = n /\ stream' = stream /\ sent' = sent /\ pull' = pull
  BY DEF Block, loopVars, boxVars
<1>2. /\ n = 0 /\ log = <<>> /\ sent = 0 /\ pull = NoCommit /\ afterSeq = Len(log)
      /\ stream = <<>> /\ Len(log) \in Nat /\ log \in Seq(Events)
  <2>1. pc \in Looping /\ pc \in Early
    BY <1>1 DEF Looping, Early
  <2> QED BY <1>1, <2>1, InTheLoop DEF Fresh, Tale, Contained
<1>3. /\ es \in Seq(Events) /\ Len(es) = 3
      /\ es[1].type = "ATTEMPT_STARTED" /\ es[2].type = "VERIFICATION_ABORTED"
      /\ es[3].type = "RUN_ENDED"
  <2>1. StartEvent(1) \in Events /\ AbortEvent("setup", "missing_env") \in Events
    BY EventsAreObserved DEF Events, Phases, Causes
  <2>2. EndEvent("blocked") \in Events
    BY DEF EndEvent, Events, Ends, Reasons
  <2>3. es \in Seq(Events) /\ Len(es) = 3
    BY <2>1, <2>2
  <2> QED BY <2>3 DEF StartEvent, AbortEvent, EndEvent
<1> HIDE DEF es
<1>4. /\ log' \in Seq(Events) /\ Len(log') = 3
      /\ log'[1].type = "ATTEMPT_STARTED" /\ log'[2].type = "VERIFICATION_ABORTED"
      /\ log'[3].type = "RUN_ENDED"
  <2> DEFINE num == Numbered(es, 0)
  <2>1. /\ num \in Seq(Events) /\ Len(num) = 3
        /\ \A i \in 1..3 : num[i] = At(0 + i, es[i]) /\ es[i] \in Events
    BY <1>3, NumberedIsSeq
  <2>2. \A i \in 1..3 : num[i].type = es[i].type
    <3> SUFFICES ASSUME NEW i \in 1..3 PROVE num[i].type = es[i].type
      OBVIOUS
    <3> DEFINE e == es[i]
    <3>1. e \in Events /\ i \in Nat /\ num[i] = At(i, e)
      BY <2>1
    <3> HIDE DEF e, num
    <3>2. At(i, e).type = e.type
      BY <3>1, AtEvent
    <3> QED BY <3>1, <3>2 DEF e
  <2>3. log' = <<>> \o num
    BY <1>1, <1>2 DEF Push
  <2> HIDE DEF num
  <2>4. log' = num
    BY <2>1, <2>3, ConcatEmptySeq
  <2>5. 1 \in 1..3 /\ 2 \in 1..3 /\ 3 \in 1..3
    OBVIOUS
  <2> QED BY <1>3, <2>1, <2>2, <2>4, <2>5
<1>5. \A i \in 1..Len(log') :
        log'[i].type \in {"ATTEMPT_STARTED", "VERIFICATION_ABORTED", "RUN_ENDED"}
  <2>1. \A i \in 1..3 : i = 1 \/ i = 2 \/ i = 3
    OBVIOUS
  <2> QED BY <1>4, <2>1
<1>6. stream' = <<>> /\ Told' = log'
  BY <1>1, <1>2, <1>4, NothingToTell DEF Told
<1>7. StoryIsTold'
  <2>1. \A i \in 1..Len(log') : ~IsFix(log'[i]) /\ ~IsTest(log'[i], "fix")
    BY <1>5 DEF IsFix, IsTest, IsFixHandOver
  <2>2. Story(log')
    BY <2>1 DEF Story, GateHeld, BaseIsOver, SeriesIsWhole, FixIsHandedOver
  <2> QED BY <1>6, <2>2 DEF StoryIsTold
<1>8. Stage' /\ Contained' /\ Attempted'
  BY <1>1, <1>5, <1>6 DEF Stage, Contained, Attempted, Looping, Blocked
<1>9. Uncredited'
  <2>1. \A a : a \notin 1..0
    OBVIOUS
  <2> QED BY <1>1, <1>2, <2>1 DEF Uncredited
<1>10. Ending'
  <2>1. OnlyLast(log')
    <3>1. \A i \in 1..3 : i = 1 \/ i = 2 \/ i = 3
      OBVIOUS
    <3> QED BY <1>4, <3>1 DEF OnlyLast
  <2>2. ~Unended(log')
    <3>1. 3 \in 1..Len(log')
      BY <1>4
    <3> QED BY <1>4, <3>1 DEF Unended
  <2> QED BY <1>1, <2>1, <2>2 DEF Ending, Looping
<1>11. Copied'
  <2>1. /\ Listed(SubSeq(log, 1, sent), seen')
        /\ seen'.ended # "no" => seen'.status \in Finals
        /\ seen'.ended # "no" <=> seen.ended # "no"
    <3>1. Event("RUN_REQUESTED").type = "RUN_REQUESTED"
      BY DEF Event
    <3> QED BY <1>1, <3>1, EmitTold
  <2>2. seen.ended = "no" <=> ~Closed(SubSeq(log, 1, sent))
    BY <1>1 DEF Tale, Copied
  <2>3. SubSeq(log, 1, 0) = <<>> /\ SubSeq(log', 1, 0) = <<>>
    BY <1>2, <1>4
  <2> QED BY <1>1, <1>2, <2>1, <2>2, <2>3 DEF Copied
<1>12. Proved' /\ AnswersAreFinal'
  BY <1>1, <1>2 DEF Proved, Backed, AnswersAreFinal
<1> QED BY <1>7, <1>8, <1>9, <1>10, <1>11, <1>12 DEF Tale

LEMMA ShipTold ==
  ASSUME IInv, Tale, Ship
  PROVE  Tale'
<1>1. /\ pc = "shipping" /\ pc' = "shipping" /\ sent < Len(log) /\ sent' = sent + 1
      /\ Emit(log[sent + 1]) /\ UNCHANGED <<loopVars, logVars, boxVars>> /\ pull' = pull
      /\ log' = log
  BY DEF Ship, logVars
<1> DEFINE p == SubSeq(log, 1, sent)
           e == log[sent + 1]
           f == At(seq + 1, e)
<1>2. /\ log \in Seq(Events) /\ Len(log) \in Nat /\ sent \in 0..Len(log)
      /\ IsList(log) /\ IsList(p) /\ Listed(p, seen)
  BY InThePlane
<1>3. sent + 1 \in 1..Len(log) /\ sent \in Nat
  BY <1>1, <1>2
<1>4. e \in Events /\ (e.type = "RUN_ENDED" => e.reason # "no")
  <2>1. e \in Events
    BY <1>2, <1>3, ElementOfSeq
  <2> QED BY <2>1 DEF Events, Observed, Ends, Reasons
<1>5. SubSeq(log, 1, sent + 1) = Append(p, e)
  BY <1>2, <1>3, PrefixesGrow
<1>6. seen' = Apply(seen, f)
  BY <1>1 DEF Emit
<1>7. Faithful(p, seen)
  BY <1>1, <1>2 DEF Tale, Copied, Faithful
<1>8. SameNews(f, e) /\ f.type = e.type /\ (e.type = "RUN_ENDED" => f.reason = e.reason)
  <2>1. seq + 1 \in Nat
    BY DEF IInv, Typed
  <2> DEFINE k == seq + 1
  <2> HIDE DEF k, e
  <2>2. SameNews(At(k, e), e)
    BY <1>4, <2>1, NumbersAreNoNews DEF k
  <2> QED BY <2>2 DEF k, SameNews
<1>9. seen.ended # "no" => seen.status \in Finals
  BY DEF Tale, Copied
<1> HIDE DEF p, e, f
<1>10. Faithful(Append(p, e), Apply(seen, f))
  BY <1>2, <1>4, <1>7, <1>8, ApplyIsFaithful
<1>11. Apply(seen, f).ended # "no" => Apply(seen, f).status \in Finals
  BY <1>2, <1>4, <1>8, <1>9, EndsAreFinal
<1>12. Copied'
  BY <1>1, <1>5, <1>6, <1>10, <1>11 DEF Copied, Faithful, Looping
<1>13. Proved' /\ AnswersAreFinal'
  <2>1. pull = NoCommit
    BY <1>1 DEF Tale, Proved
  <2> QED BY <1>1, <2>1 DEF Proved, Backed, AnswersAreFinal
<1>14. pc # "threw" /\ pc' \in Points \ Looping /\ pc \notin Looping
  BY <1>1 DEF Points, Looping
<1> QED BY <1>1, <1>12, <1>13, <1>14, PlaneGoesOn

LEMMA PositionsBefore ==
  ASSUME NEW N \in Nat, NEW i \in 1..N, NEW j \in 1..(i - 1)
  PROVE  j \in 1..N /\ j # N
OBVIOUS

\* A log without an end has none.
LEMMA OpenIsUnended ==
  ASSUME NEW l \in Seq(Events), OnlyLast(l), ~Closed(l)
  PROVE  Unended(l)
<1>1. Len(l) \in Nat /\ DOMAIN l = 1..Len(l)
  BY LenProperties
<1> SUFFICES ASSUME NEW i \in 1..Len(l), l[i].type = "RUN_ENDED" PROVE FALSE
  BY DEF Unended
<1>2. i = Len(l)
  BY DEF OnlyLast
<1>3. \A j \in 1..(i - 1) : j \in 1..Len(l) /\ j # Len(l)
  BY <1>1, PositionsBefore
<1>4. Counts(l, i)
  BY <1>3 DEF Counts, OnlyLast
<1> QED BY <1>1, <1>4 DEF Closed, Positions

\* The fixes that an honest log says were handed over.
LEMMA HandOversCount ==
  ASSUME NEW l \in Seq(Events), OnlyLast(l)
  PROVE  /\ FixHandOvers(l) = {i \in 1..Len(l) : IsFixHandOver(l[i])}
         /\ FixHandOvers(l) # {} =>
              /\ Latest(FixHandOvers(l)) \in FixHandOvers(l)
              /\ \A h \in FixHandOvers(l) : h <= Latest(FixHandOvers(l))
              /\ CommitHandedOver(l) = l[Latest(FixHandOvers(l))].commit
              /\ CommitHandedOver(l) \in Commits
<1>1. Len(l) \in Nat /\ DOMAIN l = 1..Len(l) /\ \A i \in 1..Len(l) : l[i] \in Events
  BY LenProperties, ElementOfSeq
<1>2. \A i \in 1..Len(l) : Counts(l, i)
  <2> SUFFICES ASSUME NEW i \in 1..Len(l), NEW j \in 1..(i - 1) PROVE l[j].type # "RUN_ENDED"
    BY DEF Counts
  <2>1. j \in 1..Len(l) /\ j # Len(l)
    BY <1>1, PositionsBefore
  <2> QED BY <2>1 DEF OnlyLast
<1>3. FixHandOvers(l) = {i \in 1..Len(l) : IsFixHandOver(l[i])}
  BY <1>1, <1>2 DEF FixHandOvers, Positions, IsFixHandOver
<1> DEFINE S == FixHandOvers(l)
<1>4. ASSUME S # {}
      PROVE  /\ Latest(S) \in S /\ \A h \in S : h <= Latest(S)
             /\ CommitHandedOver(l) = l[Latest(S)].commit /\ CommitHandedOver(l) \in Commits
  <2>1. S \subseteq 1..Len(l)
    BY <1>3
  <2>2. CommitHandedOver(l) = l[Latest(S)].commit
    BY <1>4 DEF CommitHandedOver
  <2> HIDE DEF S
  <2>3. Latest(S) \in S /\ \A h \in S : h <= Latest(S)
    BY <1>1, <1>4, <2>1, LatestIs
  <2>4. l[Latest(S)] \in Events /\ l[Latest(S)].type = "AGENT_HANDED_OVER"
    BY <1>1, <1>3, <2>1, <2>3 DEF IsFixHandOver, S
  <2>5. l[Latest(S)].commit \in Commits
    BY <2>4 DEF Events, Observed, Ends
  <2> QED BY <2>2, <2>3, <2>5
<1> QED BY <1>3, <1>4

\* Where everything was sent: the plane's fold is the fold of the log.
LEMMA AllIsSent ==
  ASSUME IInv, Tale, sent = Len(log)
  PROVE  /\ log \in Seq(Events) /\ Len(log) \in Nat /\ n \in Nat /\ OnlyLast(log) /\ Story(log)
         /\ Listed(log, seen) /\ seen.handedOver = CommitHandedOver(log)
<1>1. /\ log \in Seq(Events) /\ Len(log) \in Nat /\ n \in Nat /\ OnlyLast(log) /\ Story(log)
      /\ Listed(SubSeq(log, 1, sent), seen) /\ SubSeq(log, 1, sent) = log
  BY InThePlane
<1>2. Listed(log, seen)
  BY <1>1
<1> QED BY <1>1, <1>2 DEF Listed

LEMMA DecideTold ==
  ASSUME IInv, Tale, Decide
  PROVE  Tale'
<1>1. /\ pc = "shipping" /\ sent = Len(log) /\ pc' = IF Offers(seen) THEN "pushing" ELSE "answered"
      /\ UNCHANGED <<loopVars, logVars, boxVars>> /\ UNCHANGED planeVars
      /\ log' = log /\ seen' = seen /\ sent' = sent /\ pull' = pull /\ n' = n
  BY DEF Decide, Shipped, planeVars, logVars, loopVars
<1>2. /\ log \in Seq(Events) /\ Len(log) \in Nat /\ OnlyLast(log) /\ Story(log)
      /\ Listed(log, seen) /\ seen.handedOver = CommitHandedOver(log)
      /\ SubSeq(log, 1, sent) = log
  BY <1>1, AllIsSent, InThePlane
<1>3. ~Offers(seen) => seen.ended # "no"
  <2> SUFFICES ASSUME ~Offers(seen), seen.ended = "no" PROVE FALSE
    OBVIOUS
  <2>1. ~Closed(log)
    BY <1>1, <1>2 DEF Tale, Copied
  <2>2. Unended(log)
    BY <1>2, <2>1, OpenIsUnended
  <2> DEFINE c == FoldOf(log).credited
  <2>3. c # 0
    BY <1>1, <2>2 DEF Tale, Ending, Looping
  <2>4. Earned(log, c)
    BY <1>2, <2>3, LogsAreLists, CreditIsEarned
  <2> HIDE DEF c
  <2>5. seen.credited # 0
    BY <1>2, <2>3, <2>4, CreditIsEarned
  <2>6. HandOvers(log, c, Len(log)) # {}
    BY <1>2, <2>4, EarnedIsProved
  <2>7. FixHandOvers(log) # {}
    BY <1>2, <2>6, HandOversCount DEF HandOvers
  <2>8. CommitHandedOver(log) \in Commits
    BY <1>2, <2>7, HandOversCount
  <2> QED BY <1>2, <2>5, <2>8, OrchestrateAssumption DEF Offers
<1>4. Copied'
  BY <1>1 DEF Tale, Copied, Looping
<1>5. Proved'
  <2>1. pull = NoCommit
    BY <1>1 DEF Tale, Proved
  <2> QED BY <1>1, <2>1 DEF Proved, Backed
<1>6. AnswersAreFinal'
  BY <1>1, <1>3 DEF Tale, Copied, AnswersAreFinal, Finals
<1>7. pc # "threw" /\ pc' \in Points \ Looping /\ pc \notin Looping
  BY <1>1 DEF Points, Looping
<1> QED BY <1>1, <1>4, <1>5, <1>6, <1>7, PlaneGoesOn

LEMMA PushBranchTold ==
  ASSUME IInv, Tale, PushBranch
  PROVE  Tale'
<1>1. /\ pc = "pushing" /\ pc' = "opening"
      /\ UNCHANGED <<loopVars, logVars, boxVars>>
      /\ log' = log /\ seen' = seen /\ sent' = sent /\ pull' = pull /\ n' = n
  BY DEF PushBranch, planeVars, logVars, loopVars
<1>2. Copied'
  BY <1>1 DEF Tale, Copied, Looping
<1>3. Proved' /\ AnswersAreFinal'
  <2>1. pull = NoCommit
    BY <1>1 DEF Tale, Proved
  <2> QED BY <1>1, <2>1 DEF Proved, Backed, AnswersAreFinal
<1>4. pc # "threw" /\ pc' \in Points \ Looping /\ pc \notin Looping
  BY <1>1 DEF Points, Looping
<1> QED BY <1>1, <1>2, <1>3, <1>4, PlaneGoesOn

\* What a pull request is opened for is the commit of the one attempt that earned it.
LEMMA OfferIsProved ==
  ASSUME IInv, Tale, pc = "opening"
  PROVE  /\ n \in 1..n
         /\ ShownUpTo(log, n, Len(log)) /\ FixedUpTo(log, n, seen.handedOver, Len(log))
<1>1. Offers(seen) /\ sent = Len(log)
  BY DEF Tale, Copied
<1>2. /\ log \in Seq(Events) /\ Len(log) \in Nat /\ n \in Nat /\ OnlyLast(log) /\ Story(log)
      /\ Listed(log, seen) /\ seen.handedOver = CommitHandedOver(log)
  BY <1>1, AllIsSent
<1> DEFINE a == seen.credited
           N == Len(log)
<1>3. a # 0 /\ Earned(log, a)
  BY <1>1, <1>2, CreditIsEarned DEF Offers
<1> HIDE DEF a
<1>4. /\ ShownUpTo(log, a, N) /\ HandOvers(log, a, N) # {}
      /\ \A h \in HandOvers(log, a, N) : FixedUpTo(log, a, log[h].commit, N)
  BY <1>2, <1>3, EarnedIsProved
<1>5. PICK h \in HandOvers(log, a, N) : TRUE
  BY <1>4
<1>6. h \in 1..N /\ IsFixHandOver(log[h]) /\ Owner(log, h) = a
  BY <1>5 DEF HandOvers
<1>7. Ordered(log, n)
  <2>1. ~Blocked(log)
    BY <1>6 DEF Blocked, IsFixHandOver
  <2> QED BY <2>1 DEF Tale, Attempted
<1>8. a \in Nat /\ a <= n
  <2>1. h <= N /\ N \in 1..N
    BY <1>2, <1>6
  <2>2. Owner(log, h) <= Owner(log, N) /\ Owner(log, N) = n
    BY <1>6, <1>7, <2>1 DEF Ordered
  <2> QED BY <1>2, <1>6, <2>2, OwnersAreNat
<1>9. a = n /\ n \in 1..n
  <2>1. a \in 1..n
    BY <1>2, <1>3, <1>8
  <2>2. ~(a < n)
    BY <1>3, <2>1 DEF Tale, Uncredited
  <2> QED BY <1>2, <2>1, <2>2
<1> DEFINE last == Latest(FixHandOvers(log))
<1>10. /\ last \in 1..N /\ IsFixHandOver(log[last]) /\ h <= last
       /\ CommitHandedOver(log) = log[last].commit
  <2>1. h \in FixHandOvers(log)
    BY <1>2, <1>6, HandOversCount
  <2>2. /\ last \in FixHandOvers(log) /\ h <= last
        /\ CommitHandedOver(log) = log[last].commit
    BY <1>2, <2>1, HandOversCount
  <2> QED BY <1>2, <2>2, HandOversCount
<1> HIDE DEF last
<1>11. last \in HandOvers(log, a, N)
  <2>1. last <= N /\ N \in 1..N
    BY <1>2, <1>10
  <2>2. Owner(log, h) <= Owner(log, last) /\ Owner(log, last) <= Owner(log, N)
    BY <1>6, <1>7, <1>10, <2>1 DEF Ordered
  <2>3. Owner(log, h) = n /\ Owner(log, N) = n
    BY <1>6, <1>7, <1>9 DEF Ordered
  <2>4. Owner(log, last) \in Nat
    BY <1>2, <1>10, OwnersAreNat
  <2>5. Owner(log, last) = n
    BY <1>2, <2>2, <2>3, <2>4
  <2> QED BY <1>9, <1>10, <2>5 DEF HandOvers
<1> QED BY <1>2, <1>4, <1>9, <1>10, <1>11

LEMMA OpenTold ==
  ASSUME IInv, Tale, OpenPullRequest
  PROVE  Tale'
<1>1. /\ pc = "opening" /\ pc' = "recording" /\ pull' = seen.handedOver
      /\ UNCHANGED <<loopVars, logVars, boxVars>>
      /\ log' = log /\ seen' = seen /\ sent' = sent /\ n' = n
  BY DEF OpenPullRequest, logVars, loopVars
<1>2. Copied'
  BY <1>1 DEF Tale, Copied, Looping
<1>3. Proved' /\ AnswersAreFinal'
  <2>1. n \in 1..n /\ ShownUpTo(log, n, Len(log)) /\ FixedUpTo(log, n, seen.handedOver, Len(log))
    BY <1>1, OfferIsProved
  <2>2. Backed(log, n, seen.handedOver)
    BY <2>1 DEF Backed
  <2> QED BY <1>1, <2>2 DEF Proved, AnswersAreFinal
<1>4. pc # "threw" /\ pc' \in Points \ Looping /\ pc \notin Looping
  BY <1>1 DEF Points, Looping
<1> QED BY <1>1, <1>2, <1>3, <1>4, PlaneGoesOn

LEMMA RecordTold ==
  ASSUME IInv, Tale, RecordPullRequest \/ EndWithPullRequest
  PROVE  Tale'
<1> DEFINE e == IF pc = "recording" THEN Event("PR_OPENED") ELSE EndEvent("pr_opened")
<1>1. /\ \/ pc = "recording" /\ pc' = "ending"
         \/ pc = "ending" /\ pc' = "answered"
      /\ Emit(e)
      /\ UNCHANGED <<loopVars, logVars, boxVars>>
      /\ log' = log /\ sent' = sent /\ n' = n /\ pull' = pull
  BY DEF RecordPullRequest, EndWithPullRequest, logVars, loopVars
<1>2. /\ e.type \in {"PR_OPENED", "RUN_ENDED"}
      /\ e.type = "RUN_ENDED" <=> pc # "recording"
      /\ e.type = "RUN_ENDED" => e.reason # "no"
  BY DEF Event, EndEvent
<1> HIDE DEF e
<1>3. /\ Listed(SubSeq(log, 1, sent), seen')
      /\ seen'.ended # "no" => seen'.status \in Finals
      /\ seen'.ended # "no" <=> seen.ended # "no" \/ e.type = "RUN_ENDED"
  BY <1>1, <1>2, EmitTold
<1>4. Copied'
  BY <1>1, <1>3 DEF Copied, Looping
<1>5. Proved'
  BY <1>1 DEF Tale, Proved, Backed
<1>6. AnswersAreFinal'
  BY <1>1, <1>2, <1>3 DEF AnswersAreFinal, Finals
<1>7. pc # "threw" /\ pc' \in Points \ Looping /\ pc \notin Looping
  BY <1>1 DEF Points, Looping
<1> QED BY <1>1, <1>4, <1>5, <1>6, <1>7, PlaneGoesOn

LEMMA ThrowsTold ==
  ASSUME IInv, Tale, Throws
  PROVE  Tale'
<1>1. /\ pc # "threw" /\ pc' = "threw" /\ UNCHANGED <<loopVars, logVars, boxVars>>
      /\ log' = log /\ seen' = seen /\ sent' = sent /\ pull' = pull /\ n' = n
  BY DEF Throws, planeVars, logVars, loopVars, InBox, InAgent
<1>2. Copied'
  BY <1>1 DEF Tale, Copied, Looping
<1>3. Proved'
  BY <1>1 DEF Tale, Proved, Backed
<1>4. AnswersAreFinal'
  BY <1>1 DEF AnswersAreFinal
<1>5. pc' \in Points \ Looping
  BY <1>1 DEF Points, Looping
<1> QED BY <1>1, <1>2, <1>3, <1>4, <1>5, PlaneGoesOn

LEMMA RunTold ==
  ASSUME IInv, Tale, Fresh, RunFromIssue
  PROVE  Tale'
BY RequestTold, BlockTold, ShipTold, DecideTold, PushBranchTold, OpenTold, RecordTold, ThrowsTold
  DEF RunFromIssue

-----------------------------------------------------------------------------
(***************************************************************************)
(* The tale of a run.                                                      *)
(***************************************************************************)
LEMMA TaleBegins == Init => Tale /\ Fresh
<1> SUFFICES ASSUME Init PROVE Tale /\ Fresh
  OBVIOUS
<1>1. /\ pc = "requested" /\ n = 0 /\ log = <<>> /\ stream = <<>> /\ ended = NoEnd
      /\ seen = InitialState /\ sent = 0 /\ pull = NoCommit
  BY DEF Init
<1>2. Told = <<>> /\ Len(Told) = 0 /\ Len(log) = 0 /\ SubSeq(log, 1, sent) = <<>>
  <2>1. <<>> \o <<>> = <<>> /\ Len(<<>>) = 0 /\ SubSeq(<<>>, 1, 0) = <<>>
    OBVIOUS
  <2> QED BY <1>1, <2>1 DEF Told
<1>3. \A i : i \notin 1..0
  OBVIOUS
<1>4. StoryIsTold /\ Contained /\ Stage
  <2>1. Len(stream) = 0
    BY <1>1
  <2> QED BY <1>1, <1>2, <1>3, <2>1 DEF StoryIsTold, Contained, Stage, Story, GateHeld, BaseIsOver,
    SeriesIsWhole, FixIsHandedOver
<1>5. Attempted
  <2>1. Owner(log, 0) = 0
    BY <1>3 DEF Owner
  <2> QED BY <1>1, <1>2, <1>3, <2>1 DEF Attempted, Ordered
<1>6. Uncredited
  BY <1>1, <1>3 DEF Uncredited
<1>7. Ending
  BY <1>1, <1>2, <1>3 DEF Ending, Unended, Looping
<1>8. Copied
  <2>1. Faithful(<<>>, InitialState)
    BY EmptyIsFaithful
  <2>2. InitialState.ended = "no"
    BY DEF InitialState
  <2> QED BY <1>1, <1>2, <2>1, <2>2 DEF Copied, Faithful, Looping
<1>9. Proved /\ AnswersAreFinal /\ Fresh
  BY <1>1 DEF Proved, Backed, AnswersAreFinal, Fresh
<1> QED BY <1>4, <1>5, <1>6, <1>7, <1>8, <1>9 DEF Tale

LEMMA TaleGoesOn ==
  ASSUME IInv, Tale, Fresh, [Next]_vars
  PROVE  Tale'
<1>1. CASE Verify
  BY <1>1, BoxStep, BoxEnds DEF Verify
<1>2. CASE Agent
  BY <1>2, AgentTold
<1>3. CASE Loop
  BY <1>3, LoopTold
<1>4. CASE RunFromIssue
  BY <1>4, RunTold
<1>5. CASE UNCHANGED vars
  <2>1. /\ pc' = pc /\ n' = n /\ log' = log /\ stream' = stream /\ ended' = ended /\ step' = step
        /\ draws' = draws /\ seen' = seen /\ sent' = sent /\ pull' = pull /\ repro' = repro
    BY <1>5 DEF vars, loopVars, boxVars, logVars, planeVars
  <2>2. Told' = Told
    BY <2>1 DEF Told
  <2>3. StoryIsTold' /\ Stage'
    BY <2>1, <2>2 DEF Tale, StoryIsTold, Stage, BaseSteps, FixSteps
  <2>4. Contained' /\ Attempted' /\ Uncredited' /\ Ending' /\ Copied'
    BY <2>1 DEF Tale, Contained, Attempted, Uncredited, Ending, Copied
  <2>5. Proved' /\ AnswersAreFinal'
    BY <2>1 DEF Tale, Proved, Backed, AnswersAreFinal
  <2> QED BY <2>3, <2>4, <2>5 DEF Tale
<1> QED BY <1>1, <1>2, <1>3, <1>4, <1>5 DEF Next

LEMMA TaleIsInvariant == Spec => [](IInv /\ Tale /\ Fresh)
<1>1. Init => IInv /\ Tale /\ Fresh
  BY InitHolds, TaleBegins
<1>2. IInv /\ Tale /\ Fresh /\ [Next]_vars => (IInv /\ Tale /\ Fresh)'
  BY NextKeeps, TaleGoesOn, FreshStays
<1> QED BY <1>1, <1>2, PTL DEF Spec

\* A fix agent and a fix container come only after the base phase of their own attempt has
\* shown the bug to the last draw, with the bytes that were registered (ADR-0007; the gate of
\* orchestrate.ts, and fold.ts behind it).
THEOREM TheGateHolds == Spec => []NoFixWithoutReproduction
<1>1. IInv /\ Tale => NoFixWithoutReproduction
  <2> SUFFICES ASSUME IInv, Tale, NEW i \in DOMAIN log,
                      \/ log[i].type = "AGENT_HANDED_OVER" /\ log[i].kind = "fix"
                      \/ log[i].type = "TEST_RUN" /\ log[i].phase = "fix"
               PROVE  ShownBy(AttemptOf(i), i)
    BY DEF NoFixWithoutReproduction
  <2>1. log \in Seq(Events) /\ Story(log)
    BY InThePlane
  <2>2. i \in 1..Len(log)
    BY <2>1, LenProperties
  <2>3. IsFix(log[i])
    BY DEF IsFix, IsTest, IsFixHandOver
  <2>4. ShownUpTo(log, Owner(log, i), i)
    BY <2>1, <2>2, <2>3 DEF Story, GateHeld
  <2> QED BY <2>4, LogsAreRead
<1> QED BY <1>1, TaleIsInvariant, PTL

\* At no point of the appending, cut off anywhere, is an attempt credited whose base and fix
\* series are not whole in what was sent (fold.ts, completedAttempts).
THEOREM PrefixesNeverOverclaim == Spec => []NoPrefixOverclaims
<1>1. IInv /\ Tale => NoPrefixOverclaims
  <2> SUFFICES ASSUME IInv, Tale, seen.credited # 0
               PROVE  /\ ShownBy(seen.credited, sent)
                      /\ \E c \in Commits : FixedBy(seen.credited, c, sent)
    BY DEF NoPrefixOverclaims
  <2> DEFINE p == SubSeq(log, 1, sent)
             a == seen.credited
  <2>1. /\ log \in Seq(Events) /\ p \in Seq(Events) /\ Len(p) = sent /\ Begins(p, log)
        /\ Story(p) /\ OnlyLast(p) /\ Listed(p, seen) /\ sent \in 0..Len(log)
    BY InThePlane
  <2> HIDE DEF p
  <2>2. Earned(p, a)
    BY <2>1, CreditIsEarned
  <2> HIDE DEF a
  <2>3. /\ ShownUpTo(p, a, sent) /\ HandOvers(p, a, sent) # {}
        /\ \A h \in HandOvers(p, a, sent) : FixedUpTo(p, a, p[h].commit, sent)
    BY <2>1, <2>2, EarnedIsProved
  <2>4. PICK h \in HandOvers(p, a, sent) : TRUE
    BY <2>3
  <2>5. p[h].commit \in Commits
    <3>1. h \in 1..Len(p) /\ p[h].type = "AGENT_HANDED_OVER"
      BY <2>1, <2>4 DEF HandOvers, IsFixHandOver
    <3>2. p[h] \in Events
      BY <2>1, <3>1, ElementOfSeq
    <3> QED BY <3>1, <3>2 DEF Events, Observed, Ends
  <2>6. sent \in 0..Len(p)
    BY <2>1
  <2>7. ShownUpTo(log, a, sent) /\ FixedUpTo(log, a, p[h].commit, sent)
    BY <2>1, <2>3, <2>4, <2>6, TaleStays
  <2> QED BY <2>5, <2>7, LogsAreRead DEF a
<1> QED BY <1>1, TaleIsInvariant, PTL

\* A pull request exists only for a commit that one attempt proved (ADR-0007, run.ts): all of
\* its base draws red for the reported reason and all of its fix draws green on that commit.
THEOREM PullRequestsStayProved == Spec => []PullRequestsAreProved
<1>1. Tale => PullRequestsAreProved
  BY ProofsAreRead DEF Tale, Proved
<1> QED BY <1>1, TaleIsInvariant, PTL

\* A run that was answered on the issue is over on the dashboard, under a status that says how
\* (run.ts, and RUN_ENDED in fold.ts).
THEOREM AnswersStayFinal == Spec => []AnswersAreFinal
<1>1. Tale => AnswersAreFinal
  BY DEF Tale
<1> QED BY <1>1, TaleIsInvariant, PTL
=============================================================================
