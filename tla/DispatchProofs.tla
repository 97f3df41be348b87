--------------------------- MODULE DispatchProofs ---------------------------
(***************************************************************************)
(* Proofs about Dispatch, for every number of runs, runners and machines,  *)
(* every assignment of tokens and every bound.                             *)
(***************************************************************************)
EXTENDS Dispatch, FiniteSetTheorems, TLAPS

-----------------------------------------------------------------------------
(***************************************************************************)
(* Types.                                                                  *)
(***************************************************************************)
\* Requests stay requests.
LEMMA SendIsTyped ==
  ASSUME TypeOK, NEW m \in Machines, NEW op \in Ops, NEW r \in Runs \cup {NoRun},
         NEW s \in 0..MaxSeq, NEW says \in BOOLEAN, Send(m, op, r, s, says)
  PROVE  net' \subseteq Request
<1>1. 0 \in 0..MaxSeq
  BY DispatchAssumption
<1>2. "sent" \in Working \cup Answers
  BY DEF Working
<1>3. [m |-> m, op |-> op, run |-> r, seq |-> s, says |-> says,
        rows |-> 0, stage |-> "sent", live |-> TRUE] \in Request
  BY <1>1, <1>2, Zenon DEF Request
<1>4. net \subseteq Request
  BY DEF TypeOK
<1> QED BY <1>3, <1>4, Zenon DEF Send

LEMMA MoveIsTyped ==
  ASSUME TypeOK, NEW q \in net, NEW st \in Working \cup Answers,
         Move(q, st) \/ Reply(q, st)
  PROVE  net' \subseteq Request
<1>1. net \subseteq Request
  BY DEF TypeOK
<1>2. [q EXCEPT !.stage = st] \in Request
  BY <1>1 DEF Request
<1>3. net' \subseteq net \cup {[q EXCEPT !.stage = st]}
  BY Zenon DEF Move, Reply
<1> QED BY <1>1, <1>2, <1>3

LEMMA AbandonIsTyped ==
  ASSUME TypeOK, NEW m \in Machines, Abandon(m)
  PROVE  net' \subseteq Request
<1>1. PICK kept \in SUBSET {q \in net : q.m = m /\ q.live /\ q.stage \in Working} :
         net' = {q \in net : ~(q.m = m /\ q.live)} \cup {[q EXCEPT !.live = FALSE] : q \in kept}
  BY DEF Abandon
<1>2. \A q \in Request : [q EXCEPT !.live = FALSE] \in Request
  BY DEF Request
<1> QED BY <1>1, <1>2 DEF TypeOK

\* The daemon's own variables stay in their types.
DaemonTyped ==
  /\ pc \in [Machines -> Points]
  /\ job \in [Machines -> Runs \cup {NoRun}]
  /\ seq \in [Machines -> 1..MaxSeq]
  /\ tries \in [Machines -> Nat]
  /\ note \in [Machines -> {"none", "declined", "threw"}]

LEMMA GotoIsTyped ==
  ASSUME TypeOK, NEW m \in Machines, NEW point \in Points,
         NEW why \in {"none", "declined", "threw"}, Goto(m, point, why)
  PROVE  DaemonTyped'
BY DispatchAssumption DEF TypeOK, Goto, DaemonTyped

LEMMA UnansweredIsTyped ==
  ASSUME TypeOK, NEW m \in Machines, Unanswered(m)
  PROVE  DaemonTyped'
<1>1. Goto(m, "idle", "none") \/ Throw(m)
        \/ (tries' = [tries EXCEPT ![m] = @ + 1] /\ UNCHANGED <<pc, job, seq, note>>)
  BY DEF Unanswered
<1>2. CASE Goto(m, "idle", "none")
  BY <1>2, GotoIsTyped DEF Points
<1>3. CASE Throw(m)
  BY <1>3, GotoIsTyped DEF Points, Throw
<1>4. CASE tries' = [tries EXCEPT ![m] = @ + 1] /\ UNCHANGED <<pc, job, seq, note>>
  BY <1>4 DEF TypeOK, DaemonTyped
<1> QED BY <1>1, <1>2, <1>3, <1>4

LEMMA HearIsTyped ==
  ASSUME TypeOK, NEW q \in net, Hear(q)
  PROVE  DaemonTyped' /\ net' \subseteq Request
<1>. DEFINE m == q.m
<1>1. q \in Request /\ m \in Machines
  BY DEF TypeOK, Request
<1>2. net' \subseteq Request
  BY DEF TypeOK, Hear
<1>3. \/ Unanswered(m)
      \/ q.op = "poll" /\ pc' = [pc EXCEPT ![m] = "minting"]
           /\ job' = [job EXCEPT ![m] = q.run] /\ UNCHANGED <<seq, tries, note>>
      \/ seq[m] < MaxSeq /\ seq' = [seq EXCEPT ![m] = @ + 1]
           /\ tries' = [tries EXCEPT ![m] = 0] /\ UNCHANGED <<pc, job, note>>
      \/ Goto(m, "idle", "none") \/ Goto(m, "stopped", "none")
      \/ Goto(m, "finishing", "none") \/ Goto(m, "shipping", "none")
      \/ Goto(m, "finding", "none") \/ Throw(m)
  BY Zenon DEF Hear
<1>4. CASE Unanswered(m)
  BY <1>1, <1>2, <1>4, UnansweredIsTyped
<1>5. CASE q.op = "poll" /\ pc' = [pc EXCEPT ![m] = "minting"]
           /\ job' = [job EXCEPT ![m] = q.run] /\ UNCHANGED <<seq, tries, note>>
  <2>1. q.run \in Runs \cup {NoRun}
    BY <1>1 DEF Request
  <2> QED BY <1>1, <1>2, <1>5, <2>1 DEF TypeOK, DaemonTyped, Points
<1>6. CASE seq[m] < MaxSeq /\ seq' = [seq EXCEPT ![m] = @ + 1]
           /\ tries' = [tries EXCEPT ![m] = 0] /\ UNCHANGED <<pc, job, note>>
  BY <1>1, <1>2, <1>6, DispatchAssumption DEF TypeOK, DaemonTyped
<1>7. CASE Throw(m)
  BY <1>1, <1>2, <1>7, GotoIsTyped DEF Throw, Points
<1>8. ASSUME NEW p \in {"idle", "stopped", "finishing", "shipping", "finding"},
             Goto(m, p, "none")
      PROVE  DaemonTyped'
  BY <1>1, <1>8, GotoIsTyped DEF Points
<1> QED BY <1>2, <1>3, <1>4, <1>5, <1>6, <1>7, <1>8

\* Every variable keeps its type, whatever the constants (schema.sql, daemon.ts).
LEMMA TypeStep == TypeOK /\ [Next]_vars => TypeOK'
<1>. SUFFICES ASSUME TypeOK, [Next]_vars PROVE TypeOK'
  OBVIOUS
<1>. USE DEF jobVars, logVars, runnerVars, daemonVars
<1>1. ASSUME NEW r \in Runs, EnqueueJob(r) PROVE TypeOK'
  BY <1>1 DEF TypeOK, EnqueueJob
<1>2. ASSUME NEW r \in Runs, GraceElapses(r) PROVE TypeOK'
  BY <1>2 DEF TypeOK, GraceElapses
<1>3. ASSUME NEW t \in Runners, RevokeRunner(t) PROVE TypeOK'
  BY <1>3 DEF TypeOK, RevokeRunner
<1>4. ASSUME NEW t \in Runners, ReleaseJobs(t) PROVE TypeOK'
  <2>1. \A r \in Runs : (heard[r] /\ ~Unstarted(t, r)) \in BOOLEAN
                        /\ (overdue[r] /\ ~Unstarted(t, r)) \in BOOLEAN
    OBVIOUS
  <2>2. heard' \in [Runs -> BOOLEAN] /\ overdue' \in [Runs -> BOOLEAN]
    BY <1>4, <2>1 DEF ReleaseJobs
  <2>3. runnerId' \in [Runs -> Runners \cup {NoRunner}]
    BY <1>4 DEF ReleaseJobs, TypeOK
  <2> QED BY <1>4, <2>2, <2>3 DEF TypeOK, ReleaseJobs
<1>5. ASSUME NEW q \in net, Handle(q) PROVE TypeOK'
  <2>0. q \in Request
    BY DEF TypeOK
  <2>1. CASE VerifyRunner(q)
    <3>1. Move(q, "verified") \/ Reply(q, "unpaired")
      BY <2>1 DEF VerifyRunner
    <3>2. net' \subseteq Request
      BY <3>1, MoveIsTyped DEF Working, Answers
    <3> QED BY <2>1, <3>2 DEF VerifyRunner, TypeOK
  <2>2. CASE ClaimJob(q)
    <3>1. PICK r \in Runs :
            /\ runnerId' = [runnerId EXCEPT ![r] = TokenOf[q.m]]
            /\ heard' = [heard EXCEPT ![r] = FALSE]
            /\ overdue' = [overdue EXCEPT ![r] = FALSE]
            /\ dispatches' = [dispatches EXCEPT ![r] = @ + 1]
            /\ net' = (net \ {q}) \cup
                      (IF q.live THEN {[q EXCEPT !.stage = "ok", !.run = r]} ELSE {})
      BY <2>2 DEF ClaimJob
    <3>2. TokenOf[q.m] \in Runners
      BY <2>0, DispatchAssumption DEF Request
    <3>3. [q EXCEPT !.stage = "ok", !.run = r] \in Request
      BY <2>0 DEF Request, Answers
    <3>4. net' \subseteq Request
      BY <3>1, <3>3 DEF TypeOK
    <3> QED BY <2>2, <3>1, <3>2, <3>4 DEF ClaimJob, TypeOK
  <2>3. CASE PollExpires(q)
    <3>1. net' \subseteq Request
      BY <2>3, MoveIsTyped DEF PollExpires, Answers
    <3> QED BY <2>3, <3>1 DEF PollExpires, TypeOK
  <2>4. CASE Authorize(q)
    <3>1. Move(q, "authorized") \/ Reply(q, "refused") \/ Reply(q, "ok")
      BY <2>4 DEF Authorize
    <3>2. net' \subseteq Request
      BY <3>1, MoveIsTyped DEF Working, Answers
    <3> QED BY <2>4, <3>2 DEF Authorize, TypeOK
  <2>5. CASE InsertEvent(q)
    <3>1. Move(q, "inserted") \/ Reply(q, "refused") \/ Reply(q, "ok")
      BY <2>5 DEF InsertEvent
    <3>2. net' \subseteq Request
      BY <3>1, MoveIsTyped DEF Working, Answers
    <3>3. log' = log \/ log' = [log EXCEPT ![q.run][q.seq] = q.m]
      BY <2>5 DEF InsertEvent
    <3>4. q.m \in Machines
      BY <2>0 DEF Request
    <3>5. log' \in [Runs -> [Seqs -> Machines \cup {NoEvent}]]
      <4>1. [log[q.run] EXCEPT ![q.seq] = q.m] \in [Seqs -> Machines \cup {NoEvent}]
            \/ q.run \notin Runs
        BY <3>4 DEF TypeOK
      <4> QED BY <3>3, <4>1 DEF TypeOK
    <3> QED BY <2>5, <3>2, <3>5 DEF InsertEvent, TypeOK
  <2>6. CASE ProjectRead(q)
    <3>1. CASE Reply(q, "ok")
      <4>1. net' \subseteq Request
        BY <3>1, MoveIsTyped DEF Answers
      <4> QED BY <2>6, <4>1 DEF ProjectRead, TypeOK
    <3>2. CASE net' = (net \ {q}) \cup
                      {[q EXCEPT !.stage = "projecting", !.rows = Rows(q.run)]}
      <4>1. Rows(q.run) \in 0..MaxSeq
        <5>. DEFINE filled == {s \in Seqs : log[q.run][s] # NoEvent}
        <5>1. IsFiniteSet(1..MaxSeq) /\ Cardinality(1..MaxSeq) = MaxSeq
          BY FS_Interval, DispatchAssumption
        <5>2. filled \subseteq 1..MaxSeq
          BY DEF Seqs
        <5>3. IsFiniteSet(filled) /\ Cardinality(filled) <= MaxSeq
          BY <5>1, <5>2, FS_Subset
        <5>4. Cardinality(filled) \in Nat
          BY <5>3, FS_CardinalityType
        <5> QED BY <5>3, <5>4, DispatchAssumption DEF Rows
      <4>2. [q EXCEPT !.stage = "projecting", !.rows = Rows(q.run)] \in Request
        BY <2>0, <4>1 DEF Request, Working
      <4>3. net' \subseteq Request
        BY <3>2, <4>2 DEF TypeOK
      <4> QED BY <2>6, <4>3 DEF ProjectRead, TypeOK
    <3> QED BY <2>6, <3>1, <3>2 DEF ProjectRead
  <2>7. CASE ProjectWrite(q)
    <3>1. net' \subseteq Request
      BY <2>7, MoveIsTyped DEF ProjectWrite, Answers
    <3>2. q.rows \in 0..MaxSeq
      BY <2>0 DEF Request
    <3> QED BY <2>7, <3>1, <3>2 DEF ProjectWrite, TypeOK
  <2>8. CASE StoreFinding(q)
    <3>1. net' \subseteq Request
      BY <2>8, MoveIsTyped DEF StoreFinding, Answers
    <3> QED BY <2>8, <3>1 DEF StoreFinding, TypeOK
  <2>9. CASE FinishJob(q)
    <3>1. net' \subseteq Request
      BY <2>9, MoveIsTyped DEF FinishJob, Answers
    <3>2. noted' \in [Runs -> BOOLEAN]
      <4>1. (noted[q.run] \/ q.says) \in BOOLEAN
        OBVIOUS
      <4> QED BY <2>9, <4>1 DEF FinishJob, TypeOK
    <3> QED BY <2>9, <3>1, <3>2 DEF FinishJob, TypeOK
  <2> QED BY <1>5, <2>1, <2>2, <2>3, <2>4, <2>5, <2>6, <2>7, <2>8, <2>9 DEF Handle
<1>6. ASSUME NEW q \in net, Hear(q) PROVE TypeOK'
  <2>1. DaemonTyped' /\ net' \subseteq Request
    BY <1>6, HearIsTyped
  <2> QED BY <1>6, <2>1 DEF Hear, TypeOK, DaemonTyped
<1>7. ASSUME NEW m \in Machines, Daemon(m) PROVE TypeOK'
  <2>1. CASE SendNext(m)
    <3>1. \E op \in Ops, r \in Runs \cup {NoRun}, s \in 0..MaxSeq, says \in BOOLEAN :
            Send(m, op, r, s, says)
      <4>1. job[m] \in Runs \cup {NoRun} /\ seq[m] \in 0..MaxSeq /\ 0 \in 0..MaxSeq
        BY DispatchAssumption DEF TypeOK
      <4>2. (note[m] # "none") \in BOOLEAN
        OBVIOUS
      <4> QED BY <2>1, <4>1, <4>2, Zenon DEF SendNext, Ops
    <3>2. net' \subseteq Request
      BY <3>1, SendIsTyped
    <3>3. DaemonTyped'
      <4>1. Goto(m, "polling", "none") \/ UNCHANGED daemonVars
        BY <2>1, Zenon DEF SendNext
      <4> QED BY <4>1, GotoIsTyped DEF TypeOK, DaemonTyped, Points
    <3> QED BY <2>1, <3>2, <3>3 DEF SendNext, TypeOK, DaemonTyped
  <2>2. CASE NothingToReport(m)
    <3>1. DaemonTyped'
      BY <2>2, GotoIsTyped DEF NothingToReport, Points
    <3> QED BY <2>2, <3>1 DEF NothingToReport, TypeOK, DaemonTyped
  <2>3. CASE ExecuteFails(m)
    <3>1. DaemonTyped'
      BY <2>3, GotoIsTyped DEF ExecuteFails, Throw, Points
    <3> QED BY <2>3, <3>1 DEF ExecuteFails, TypeOK, DaemonTyped
  <2>4. CASE AnswerLost(m)
    <3>1. DaemonTyped' /\ net' \subseteq Request
      BY <2>4, UnansweredIsTyped, AbandonIsTyped DEF AnswerLost
    <3> QED BY <2>4, <3>1, DispatchAssumption DEF AnswerLost, TypeOK, DaemonTyped
  <2>5. CASE Crash(m)
    <3>1. DaemonTyped' /\ net' \subseteq Request
      BY <2>5, GotoIsTyped, AbandonIsTyped DEF Crash, Points
    <3> QED BY <2>5, <3>1, DispatchAssumption DEF Crash, TypeOK, DaemonTyped
  <2>6. CASE Boot(m)
    <3>1. DaemonTyped'
      BY <2>6, GotoIsTyped DEF Boot, Points
    <3> QED BY <2>6, <3>1 DEF Boot, TypeOK, DaemonTyped
  <2> QED BY <1>7, <2>1, <2>2, <2>3, <2>4, <2>5, <2>6 DEF Daemon
<1>8. CASE PlaneRestarts
  <2>1. \A q \in net : [q EXCEPT !.stage = "none"] \in Request
    BY DEF TypeOK, Request, Answers
  <2>2. net' \subseteq Request
    BY <1>8, <2>1 DEF PlaneRestarts, TypeOK
  <2> QED BY <1>8, <2>2, DispatchAssumption DEF PlaneRestarts, TypeOK
<1>9. CASE UNCHANGED vars
  BY <1>9 DEF TypeOK, vars
<1> QED BY <1>1, <1>2, <1>3, <1>4, <1>5, <1>6, <1>7, <1>8, <1>9 DEF Next

\* schema.sql, daemon.ts: every column and every variable of the loop keeps its type.
THEOREM TypeCorrect == Spec => []TypeOK
<1>1. Init => TypeOK
  BY DispatchAssumption DEF Init, TypeOK, Points, Seqs
<1> QED BY <1>1, TypeStep, PTL DEF Spec

-----------------------------------------------------------------------------
(***************************************************************************)
(* A daemon has at most one request it waits for, and that request is about *)
(* what the daemon is doing.                                               *)
(***************************************************************************)
Busy == {"minting", "shipping", "finding", "finishing"}

OneLine == \A p, q \in net : p.live /\ q.live /\ p.m = q.m => p = q

Known(q) ==
  /\ q.op # "poll" => q.run \in Runs
  /\ q.op = "poll" /\ q.stage = "ok" => q.run \in Runs
  /\ q.op = "event" => q.seq \in Seqs
  /\ q.stage \in {"inserted", "projecting"} => q.op = "event"

PointOf(op) == CASE op = "poll" -> "polling"
                 [] op = "token" -> "minting"
                 [] op = "event" -> "shipping"
                 [] op = "finding" -> "finding"
                 [] op = "finish" -> "finishing"

InStep(q) ==
  q.live => /\ pc[q.m] = PointOf(q.op)
            /\ q.op # "poll" => job[q.m] = q.run
            /\ q.op = "event" => seq[q.m] = q.seq

JobKnown == \A m \in Machines : pc[m] \in Busy => job[m] \in Runs

Conversation ==
  /\ OneLine
  /\ \A q \in net : Known(q) /\ InStep(q)
  /\ JobKnown

\* One request of net is answered or moves on; the daemons do not.
LEMMA AnsweringKeeps ==
  ASSUME TypeOK, Conversation, NEW q \in net, NEW w, Known(w),
         w.m = q.m, w.op = q.op, w.live = q.live, w.seq = q.seq,
         q.op # "poll" => w.run = q.run,
         net' \subseteq (net \ {q}) \cup {w},
         UNCHANGED daemonVars
  PROVE  Conversation'
<1>. USE DEF daemonVars
<1>1. OneLine'
  BY DEF Conversation, OneLine
<1>2. InStep(w)'
  BY DEF Conversation, InStep
<1>3. \A p \in net' : Known(p)' /\ InStep(p)'
  BY <1>2 DEF Conversation, Known, InStep, Seqs
<1>4. JobKnown'
  BY DEF Conversation, JobKnown
<1> QED BY <1>1, <1>3, <1>4 DEF Conversation

\* The loop of m moves on, with nothing left that it waits for.
LEMMA MovingOnKeeps ==
  ASSUME TypeOK, Conversation, NEW m \in Machines,
         \A q \in net' : /\ q.live => q \in net /\ q.m # m
                         /\ Known(q)',
         \A n \in Machines : n # m =>
           pc'[n] = pc[n] /\ job'[n] = job[n] /\ seq'[n] = seq[n],
         pc'[m] \in Busy => job'[m] \in Runs
  PROVE  Conversation'
<1>1. OneLine'
  BY DEF Conversation, OneLine
<1>2. \A q \in net' : InStep(q)'
  <2>. SUFFICES ASSUME NEW q \in net', q.live PROVE InStep(q)'
    BY DEF InStep
  <2>1. q \in net /\ q.m # m /\ q.m \in Machines
    BY DEF TypeOK, Request
  <2> QED BY <2>1 DEF InStep, Conversation
<1>3. JobKnown'
  BY DEF Conversation, JobKnown
<1> QED BY <1>1, <1>2, <1>3 DEF Conversation

LEMMA GotoMoves ==
  ASSUME TypeOK, NEW m \in Machines, NEW point, NEW why, Goto(m, point, why)
  PROVE  /\ \A n \in Machines : n # m =>
              pc'[n] = pc[n] /\ job'[n] = job[n] /\ seq'[n] = seq[n]
         /\ pc'[m] = point
         /\ point \in Busy => job'[m] = job[m]
         /\ note'[m] = why
         /\ \A n \in Machines : n # m => note'[n] = note[n]
BY DEF TypeOK, Goto, Busy

\* What a daemon that got no answer does, where it may wait for one.
LEMMA UnansweredMoves ==
  ASSUME TypeOK, JobKnown, NEW m \in Machines, Unanswered(m),
         pc[m] \in Busy \cup {"polling"}
  PROVE  /\ \A n \in Machines : n # m =>
              pc'[n] = pc[n] /\ job'[n] = job[n] /\ seq'[n] = seq[n]
                /\ note'[n] = note[n]
         /\ pc'[m] \in Busy => job'[m] = job[m] /\ job[m] \in Runs
         /\ \/ pc'[m] = "idle"
            \/ pc'[m] = "finishing" /\ note'[m] = "threw"
            \/ pc'[m] = "shipping" /\ pc[m] = "shipping" /\ seq'[m] = seq[m]
<1>1. CASE pc[m] \in {"polling", "finishing"}
  <2>1. Goto(m, "idle", "none")
    BY <1>1 DEF Unanswered
  <2> QED BY <2>1, GotoMoves DEF Busy
<1>2. CASE pc[m] \in {"minting", "shipping", "finding"}
  <2>1. \/ Throw(m)
        \/ /\ pc[m] = "shipping"
           /\ UNCHANGED <<pc, job, seq, note>>
    BY <1>2, Zenon DEF Unanswered
  <2>2. job[m] \in Runs
    BY <1>2 DEF JobKnown, Busy
  <2>3. CASE Throw(m)
    BY <2>3, <2>2, GotoMoves DEF Throw, Busy
  <2> QED BY <2>1, <2>2, <2>3
<1> QED BY <1>1, <1>2 DEF Busy

LEMMA AbandonLeaves ==
  ASSUME TypeOK, Conversation, NEW m \in Machines, Abandon(m)
  PROVE  \A q \in net' : /\ q.live => q \in net /\ q.m # m
                         /\ \/ q \in net
                            \/ /\ ~q.live
                               /\ \E p \in net : p.live /\ q = [p EXCEPT !.live = FALSE]
                         /\ Known(q)
<1>1. PICK kept \in SUBSET {q \in net : q.m = m /\ q.live /\ q.stage \in Working} :
         net' = {q \in net : ~(q.m = m /\ q.live)} \cup {[q EXCEPT !.live = FALSE] : q \in kept}
  BY DEF Abandon
<1>2. SUFFICES ASSUME NEW p \in kept
               PROVE  LET q == [p EXCEPT !.live = FALSE]
                      IN  ~q.live /\ p \in net /\ p.live /\ Known(q)
  BY <1>1 DEF Conversation
<1>3. p \in Request /\ Known(p)
  BY DEF TypeOK, Conversation
<1> QED BY <1>3 DEF Known, Request

\* What Hear does, from what the daemon was waiting for.
LEMMA HearMoves ==
  ASSUME TypeOK, Conversation, NEW q \in net, Hear(q)
  PROVE  LET m == q.m IN
         /\ \A n \in Machines : n # m =>
              pc'[n] = pc[n] /\ job'[n] = job[n] /\ seq'[n] = seq[n]
                /\ note'[n] = note[n]
         /\ pc'[m] \in Busy => job'[m] \in Runs
         /\ pc'[m] = "finding" => /\ q.op = "token" /\ q.stage = "ok"
                                  /\ job'[m] = q.run /\ Kind[q.run] # "run"
         /\ pc'[m] = "shipping" =>
              \/ pc[m] = "shipping" /\ job'[m] = job[m] /\ seq'[m] = seq[m]
              \/ /\ q.op = "event" /\ q.stage = "ok" /\ pc[m] = "shipping"
                 /\ job'[m] = job[m] /\ seq'[m] = q.seq + 1
              \/ /\ q.op = "token" /\ q.stage = "ok" /\ job'[m] = q.run
                 /\ seq'[m] = 1 /\ Kind[q.run] = "run"
         /\ pc'[m] = "finishing" =>
              \/ note'[m] = "threw"
              \/ /\ q.op \in {"event", "finding"} /\ q.stage = "ok"
                 /\ job'[m] = q.run /\ note'[m] = "none"
<1>. DEFINE m == q.m
<1>1. q \in Request /\ m \in Machines /\ q.live
  BY DEF TypeOK, Request, Hear
<1>2. /\ pc[m] = PointOf(q.op)
      /\ q.op # "poll" => job[m] = q.run /\ q.run \in Runs
      /\ q.op = "poll" /\ q.stage = "ok" => q.run \in Runs
      /\ q.op = "event" => seq[m] = q.seq
  BY <1>1 DEF Conversation, InStep, Known
<1>3. CASE q.stage = "none" /\ Unanswered(m)
  <2>1. pc[m] \in Busy \cup {"polling"}
    BY <1>1, <1>2 DEF Request, Ops, PointOf, Busy
  <2>2. JobKnown
    BY DEF Conversation
  <2> QED BY <1>1, <1>3, <2>1, <2>2, UnansweredMoves DEF Busy
<1>4. CASE q.op = "poll" /\ q.stage = "ok" /\ pc' = [pc EXCEPT ![m] = "minting"]
           /\ job' = [job EXCEPT ![m] = q.run] /\ UNCHANGED <<seq, tries, note>>
  BY <1>1, <1>2, <1>4 DEF TypeOK
<1>5. CASE Goto(m, "idle", "none") \/ Goto(m, "stopped", "none")
  BY <1>1, <1>5, GotoMoves DEF Busy
<1>6. CASE /\ q.op = "token" /\ q.stage = "ok"
           /\ Goto(m, IF Kind[q.run] = "run" THEN "shipping" ELSE "finding", "none")
  <2>1. seq'[m] = 1
    BY <1>1, <1>6 DEF TypeOK, Goto
  <2>2. CASE Kind[q.run] = "run"
    BY <1>1, <1>2, <1>6, <2>1, <2>2, GotoMoves DEF Busy
  <2>3. CASE Kind[q.run] # "run"
    BY <1>1, <1>2, <1>6, <2>1, <2>3, GotoMoves DEF Busy
  <2> QED BY <2>2, <2>3
<1>7. CASE /\ q.op = "event" /\ q.stage = "ok" /\ seq[m] < MaxSeq
           /\ seq' = [seq EXCEPT ![m] = @ + 1] /\ UNCHANGED <<pc, job, note>>
  BY <1>1, <1>2, <1>7 DEF TypeOK, PointOf
<1>8. CASE /\ q.op \in {"event", "finding"} /\ q.stage = "ok"
           /\ Goto(m, "finishing", "none")
  BY <1>1, <1>2, <1>8, GotoMoves DEF Busy
<1>9. CASE q.op \in {"token", "event", "finding"} /\ Throw(m)
  BY <1>1, <1>2, <1>9, GotoMoves DEF Busy, Throw
<1> QED BY <1>3, <1>4, <1>5, <1>6, <1>7, <1>8, <1>9, Zenon DEF Hear

LEMMA ConversationStep == TypeOK /\ Conversation /\ [Next]_vars => Conversation'
<1>. SUFFICES ASSUME TypeOK, Conversation, [Next]_vars PROVE Conversation'
  OBVIOUS
<1>. USE DEF jobVars, logVars, runnerVars
<1>0. ASSUME UNCHANGED <<net, daemonVars>> PROVE Conversation'
  BY <1>0 DEF Conversation, OneLine, Known, InStep, JobKnown, daemonVars, Seqs
<1>1. ASSUME NEW r \in Runs, EnqueueJob(r) \/ GraceElapses(r) PROVE Conversation'
  BY <1>0, <1>1 DEF EnqueueJob, GraceElapses
<1>2. ASSUME NEW t \in Runners, RevokeRunner(t) \/ ReleaseJobs(t) PROVE Conversation'
  BY <1>0, <1>2 DEF RevokeRunner, ReleaseJobs
<1>3. ASSUME NEW q \in net, Handle(q) PROVE Conversation'
  <2>0. q \in Request /\ Known(q)
    BY DEF TypeOK, Conversation
  <2>1. CASE ClaimJob(q)
    <3>1. PICK r \in Runs :
            net' = (net \ {q}) \cup
                   (IF q.live THEN {[q EXCEPT !.stage = "ok", !.run = r]} ELSE {})
      BY <2>1 DEF ClaimJob
    <3>. DEFINE w == [q EXCEPT !.stage = "ok", !.run = r]
    <3>2. q.op = "poll" /\ UNCHANGED daemonVars
      BY <2>1 DEF ClaimJob
    <3>3. Known(w) /\ w.m = q.m /\ w.op = q.op /\ w.live = q.live /\ w.seq = q.seq
      BY <2>0, <3>2 DEF Known, Request
    <3>. HIDE DEF w
    <3>4. net' \subseteq (net \ {q}) \cup {w}
      BY <3>1 DEF w
    <3> QED BY <3>2, <3>3, <3>4, AnsweringKeeps
  <2>2. CASE ProjectRead(q) /\ net' = (net \ {q}) \cup
               {[q EXCEPT !.stage = "projecting", !.rows = Rows(q.run)]}
    <3>. DEFINE w == [q EXCEPT !.stage = "projecting", !.rows = Rows(q.run)]
    <3>1. Known(w) /\ w.m = q.m /\ w.op = q.op /\ w.live = q.live /\ w.seq = q.seq
            /\ w.run = q.run
      BY <2>0, <2>2 DEF ProjectRead, Known, Request
    <3>. HIDE DEF w
    <3>2. net' \subseteq (net \ {q}) \cup {w} /\ UNCHANGED daemonVars
      BY <2>2 DEF ProjectRead, w
    <3> QED BY <3>1, <3>2, AnsweringKeeps
  <2>3. ASSUME NEW st, Move(q, st) \/ Reply(q, st), UNCHANGED daemonVars,
               q.op # "poll" \/ st # "ok",
               st \in {"inserted", "projecting"} => q.op = "event"
        PROVE  Conversation'
    <3>. DEFINE w == [q EXCEPT !.stage = st]
    <3>1. Known(w) /\ w.m = q.m /\ w.op = q.op /\ w.live = q.live /\ w.seq = q.seq
            /\ w.run = q.run
      BY <2>0, <2>3 DEF Known, Request
    <3>. HIDE DEF w
    <3>2. net' \subseteq (net \ {q}) \cup {w}
      BY <2>3, Zenon DEF Move, Reply, w
    <3> QED BY <2>3, <3>1, <3>2, AnsweringKeeps
  <2>4. CASE VerifyRunner(q)
    BY <2>3, <2>4 DEF VerifyRunner
  <2>5. CASE PollExpires(q)
    BY <2>3, <2>5 DEF PollExpires
  <2>6. CASE Authorize(q)
    BY <2>3, <2>6 DEF Authorize
  <2>7. CASE InsertEvent(q)
    BY <2>3, <2>7 DEF InsertEvent
  <2>8. CASE ProjectRead(q) /\ Reply(q, "ok")
    BY <2>0, <2>3, <2>8 DEF ProjectRead, Known
  <2>9. CASE ProjectWrite(q)
    BY <2>0, <2>3, <2>9 DEF ProjectWrite, Known
  <2>10. CASE StoreFinding(q)
    BY <2>3, <2>10 DEF StoreFinding
  <2>11. CASE FinishJob(q)
    BY <2>3, <2>11 DEF FinishJob
  <2> QED BY <1>3, <2>1, <2>2, <2>4, <2>5, <2>6, <2>7, <2>8, <2>9, <2>10, <2>11
          DEF Handle, ProjectRead
<1>4. ASSUME NEW q \in net, Hear(q) PROVE Conversation'
  <2>1. q.live /\ net' = net \ {q} /\ q.m \in Machines
    BY <1>4 DEF Hear, TypeOK, Request
  <2>2. \A p \in net' : (p.live => p \in net /\ p.m # q.m) /\ Known(p)'
    BY <2>1 DEF Conversation, OneLine, Known, Seqs
  <2> QED BY <1>4, <2>1, <2>2, HearMoves, MovingOnKeeps
<1>5. ASSUME NEW m \in Machines, Daemon(m) PROVE Conversation'
  <2>. DEFINE Quiet == net' = net /\ ~Waiting(m)
  <2>0. ASSUME NEW point, NEW why, Goto(m, point, why), Quiet,
               point \in Busy => pc[m] \in Busy
        PROVE  Conversation'
    <3>1. \A p \in net' : (p.live => p \in net /\ p.m # m) /\ Known(p)'
      BY <2>0 DEF Conversation, Known, Waiting, Seqs
    <3>2. \A n \in Machines : n # m =>
            pc'[n] = pc[n] /\ job'[n] = job[n] /\ seq'[n] = seq[n]
      BY <2>0, GotoMoves
    <3>3. pc'[m] \in Busy => job'[m] \in Runs
      BY <2>0, GotoMoves DEF Conversation, JobKnown
    <3> QED BY <3>1, <3>2, <3>3, MovingOnKeeps
  <2>1. CASE SendNext(m)
    <3>1. PICK op \in Ops, r \in Runs \cup {NoRun}, s \in 0..MaxSeq, says \in BOOLEAN :
            /\ Send(m, op, r, s, says)
            /\ pc'[m] = PointOf(op)
            /\ op # "poll" => r = job[m] /\ pc[m] \in Busy /\ UNCHANGED daemonVars
            /\ op = "event" => s = seq[m]
            /\ op = "poll" => Goto(m, "polling", "none")
      <4>0. 0 \in 0..MaxSeq /\ job[m] \in Runs \cup {NoRun} /\ seq[m] \in 0..MaxSeq
            /\ (note[m] # "none") \in BOOLEAN
        BY DispatchAssumption DEF TypeOK
      <4>1. CASE pc[m] = "idle"
        <5>1. Send(m, "poll", NoRun, 0, FALSE) /\ Goto(m, "polling", "none")
          BY <2>1, <4>1 DEF SendNext
        <5>2. pc'[m] = PointOf("poll")
          BY <5>1, GotoMoves DEF PointOf
        <5> QED BY <5>1, <5>2, <4>0 DEF Ops
      <4>2. CASE pc[m] = "minting"
        <5>1. Send(m, "token", job[m], 0, FALSE) /\ UNCHANGED daemonVars
          BY <2>1, <4>2 DEF SendNext
        <5>2. pc'[m] = PointOf("token") /\ pc[m] \in Busy
          BY <5>1, <4>2 DEF PointOf, Busy, daemonVars
        <5> QED BY <5>1, <5>2, <4>0 DEF Ops
      <4>3. CASE pc[m] = "shipping"
        <5>1. Send(m, "event", job[m], seq[m], FALSE) /\ UNCHANGED daemonVars
          BY <2>1, <4>3 DEF SendNext
        <5>2. pc'[m] = PointOf("event") /\ pc[m] \in Busy
          BY <5>1, <4>3 DEF PointOf, Busy, daemonVars
        <5> QED BY <5>1, <5>2, <4>0 DEF Ops
      <4>4. CASE pc[m] = "finding"
        <5>1. Send(m, "finding", job[m], 0, FALSE) /\ UNCHANGED daemonVars
          BY <2>1, <4>4 DEF SendNext
        <5>2. pc'[m] = PointOf("finding") /\ pc[m] \in Busy
          BY <5>1, <4>4 DEF PointOf, Busy, daemonVars
        <5> QED BY <5>1, <5>2, <4>0 DEF Ops
      <4>5. CASE pc[m] = "finishing"
        <5>1. Send(m, "finish", job[m], 0, note[m] # "none") /\ UNCHANGED daemonVars
          BY <2>1, <4>5 DEF SendNext
        <5>2. pc'[m] = PointOf("finish") /\ pc[m] \in Busy
          BY <5>1, <4>5 DEF PointOf, Busy, daemonVars
        <5> QED BY <5>1, <5>2, <4>0 DEF Ops
      <4> QED BY <2>1, <4>1, <4>2, <4>3, <4>4, <4>5 DEF SendNext
    <3>. DEFINE w == [m |-> m, op |-> op, run |-> r, seq |-> s, says |-> says,
                      rows |-> 0, stage |-> "sent", live |-> TRUE]
    <3>2. w.m = m /\ w.op = op /\ w.run = r /\ w.seq = s /\ w.live /\ w.stage = "sent"
      OBVIOUS
    <3>3. Known(w) /\ InStep(w)'
      <4>1. op # "poll" => r \in Runs /\ job'[m] = r
        BY <3>1 DEF Conversation, JobKnown, daemonVars
      <4>2. op = "event" => s \in Seqs /\ seq'[m] = s
        BY <3>1 DEF TypeOK, Seqs, daemonVars
      <4> QED BY <3>1, <3>2, <4>1, <4>2 DEF Known, InStep
    <3>. HIDE DEF w
    <3>4. net' = net \cup {w}
      BY <3>1, Zenon DEF Send, w
    <3>5. \A p \in net : p.live => p.m # m
      BY <2>1 DEF SendNext, Waiting
    <3>6. \A n \in Machines : n # m =>
            pc'[n] = pc[n] /\ job'[n] = job[n] /\ seq'[n] = seq[n]
      BY <3>1, GotoMoves DEF daemonVars
    <3>7. OneLine'
      BY <3>2, <3>4, <3>5 DEF Conversation, OneLine
    <3>8. \A p \in net : InStep(p)'
      BY <3>5, <3>6 DEF Conversation, InStep, TypeOK, Request
    <3>9. \A p \in net' : Known(p)'
      BY <3>3, <3>4 DEF Conversation, Known, Seqs
    <3>10. JobKnown'
      <4>1. pc'[m] \in Busy => job'[m] \in Runs
        BY <3>1, GotoMoves DEF Conversation, JobKnown, PointOf, Busy, daemonVars
      <4> QED BY <3>6, <4>1 DEF Conversation, JobKnown
    <3> QED BY <3>3, <3>4, <3>7, <3>8, <3>9, <3>10 DEF Conversation
  <2>2. CASE NothingToReport(m)
    <3>1. PICK why : Goto(m, "finishing", why)
      BY <2>2 DEF NothingToReport
    <3> QED BY <2>0, <2>2, <3>1 DEF NothingToReport, Busy
  <2>3. CASE ExecuteFails(m)
    BY <2>0, <2>3 DEF ExecuteFails, Throw, Busy
  <2>4. CASE AnswerLost(m)
    <3>1. pc[m] \in Busy \cup {"polling"}
      <4>1. PICK q \in net : q.m = m /\ q.live
        BY <2>4 DEF AnswerLost
      <4>2. q.op \in Ops /\ pc[m] = PointOf(q.op)
        BY <4>1 DEF TypeOK, Request, Conversation, InStep
      <4> QED BY <4>2 DEF Ops, PointOf, Busy
    <3>2. \A p \in net' : (p.live => p \in net /\ p.m # m) /\ Known(p)'
      BY <2>4, AbandonLeaves DEF AnswerLost, Known, Seqs
    <3> QED BY <2>4, <3>1, <3>2, UnansweredMoves, MovingOnKeeps
            DEF AnswerLost, Conversation
  <2>5. CASE Crash(m)
    <3>1. \A p \in net' : (p.live => p \in net /\ p.m # m) /\ Known(p)'
      BY <2>5, AbandonLeaves DEF Crash, Known, Seqs
    <3> QED BY <2>5, <3>1, GotoMoves, MovingOnKeeps DEF Crash, Busy
  <2>6. CASE Boot(m)
    <3>1. \A p \in net : p.live => p.m # m
      BY <2>6 DEF Boot, Conversation, InStep, PointOf, TypeOK, Request, Ops
    <3> QED BY <2>0, <2>6, <3>1 DEF Boot, Waiting, Busy
  <2> QED BY <1>5, <2>1, <2>2, <2>3, <2>4, <2>5, <2>6 DEF Daemon
<1>6. CASE PlaneRestarts
  <2>1. net' = {q \in net : q.stage \in Answers} \cup
               {[q EXCEPT !.stage = "none"] : q \in {p \in net : p.live /\ p.stage \in Working}}
        /\ UNCHANGED daemonVars
    BY <1>6 DEF PlaneRestarts
  <2>2. ASSUME NEW w \in net'
        PROVE  \E q \in net : /\ w.m = q.m /\ w.op = q.op /\ w.run = q.run
                              /\ w.seq = q.seq /\ w.live = q.live
                              /\ \/ w = q /\ q.stage \in Answers
                                 \/ w = [q EXCEPT !.stage = "none"] /\ q.stage \in Working
                              /\ Known(w)
    <3>1. PICK q \in net : \/ w = q /\ q.stage \in Answers
                           \/ w = [q EXCEPT !.stage = "none"] /\ q.stage \in Working
      BY <2>1
    <3>2. q \in Request /\ Known(q)
      BY DEF TypeOK, Conversation
    <3> QED BY <3>1, <3>2 DEF Request, Known
  <2>3. OneLine'
    BY <2>2 DEF Conversation, OneLine, Working, Answers
  <2>4. \A w \in net' : InStep(w)' /\ Known(w)'
    BY <2>1, <2>2 DEF Conversation, InStep, Known, daemonVars, Seqs
  <2>5. JobKnown'
    BY <2>1 DEF Conversation, JobKnown, daemonVars
  <2> QED BY <2>3, <2>4, <2>5 DEF Conversation
<1>7. CASE UNCHANGED vars
  BY <1>0, <1>7 DEF vars
<1> QED BY <1>1, <1>2, <1>3, <1>4, <1>5, <1>6, <1>7 DEF Next

-----------------------------------------------------------------------------
(***************************************************************************)
(* Who holds a run.  `heard` is what makes the holder's claim permanent:    *)
(* from the stamp on, no reclaim can take the run from a runner that is not *)
(* revoked.  This is the strengthening that makes OneVoice and              *)
(* OneWorkerPastMint inductive.                                            *)
(***************************************************************************)
Holds(m, r) ==
  TokenOf[m] \notin revoked => runnerId[r] = TokenOf[m] /\ heard[r]

\* Past the author check, with an insert, a finding or a finish still to write; or
\* about to hear that the token was minted.
Admitted(q) ==
  /\ q.op # "poll"
  /\ \/ q.stage \in {"authorized", "inserted", "projecting"}
     \/ q.op = "token" /\ q.stage = "ok"

Authority ==
  /\ releasing \subseteq revoked
  /\ \A q \in net : Admitted(q) => Holds(q.m, q.run)
  /\ \A m \in Machines : pc[m] \in {"shipping", "finding"} => Holds(m, job[m])
  /\ \A r \in Runs, s \in Seqs : log[r][s] # NoEvent => Holds(log[r][s], r)

LEMMA HoldIsKept ==
  ASSUME TypeOK, releasing \subseteq revoked, [Next]_vars,
         NEW m \in Machines, NEW r \in Runs, Holds(m, r)
  PROVE  Holds(m, r)'
<1>. SUFFICES ASSUME TokenOf[m] \notin revoked'
              PROVE  runnerId'[r] = TokenOf[m] /\ heard'[r]
  BY DEF Holds
<1>. USE DEF jobVars, logVars, runnerVars, daemonVars
<1>0. revoked \subseteq revoked' /\ TokenOf[m] \in Runners
  <2>1. TokenOf[m] \in Runners
    BY DispatchAssumption
  <2>2. revoked \subseteq revoked'
    BY DEF Next, vars, EnqueueJob, GraceElapses, RevokeRunner, ReleaseJobs, Handle,
      VerifyRunner, ClaimJob, PollExpires, Authorize, InsertEvent, ProjectRead,
      ProjectWrite, StoreFinding, FinishJob, Hear, Daemon, SendNext,
      NothingToReport, ExecuteFails, AnswerLost, Crash, Boot, PlaneRestarts
  <2> QED BY <2>1, <2>2
<1>1. TokenOf[m] \notin revoked /\ runnerId[r] = TokenOf[m] /\ heard[r]
  BY <1>0 DEF Holds
<1>2. ASSUME NEW q \in net, ClaimJob(q) PROVE runnerId'[r] = TokenOf[m] /\ heard'[r]
  <2>1. PICK c \in Runs : /\ Claimable(TokenOf[q.m], c)
                          /\ runnerId' = [runnerId EXCEPT ![c] = TokenOf[q.m]]
                          /\ heard' = [heard EXCEPT ![c] = FALSE]
    BY <1>2 DEF ClaimJob, Oldest
  <2>2. c # r
    BY <1>0, <1>1, <2>1, DispatchAssumption DEF Claimable, NeverCameFor
  <2> QED BY <1>1, <2>1, <2>2 DEF TypeOK
<1>3. ASSUME NEW t \in Runners, ReleaseJobs(t) PROVE runnerId'[r] = TokenOf[m] /\ heard'[r]
  <2>1. ~Unstarted(t, r)
    BY <1>1, <1>3 DEF ReleaseJobs, Unstarted
  <2> QED BY <1>1, <1>3, <2>1 DEF ReleaseJobs
<1>4. ASSUME NEW q \in net, Authorize(q) PROVE runnerId'[r] = TokenOf[m] /\ heard'[r]
  BY <1>1, <1>4 DEF Authorize, TypeOK
<1>5. CASE UNCHANGED <<runnerId, heard>>
  BY <1>1, <1>5
<1> QED BY <1>2, <1>3, <1>4, <1>5 DEF Next, vars, EnqueueJob, GraceElapses,
      RevokeRunner, Handle, VerifyRunner, PollExpires, InsertEvent,
      ProjectRead, ProjectWrite, StoreFinding, FinishJob, Hear, Daemon, SendNext,
      NothingToReport, ExecuteFails, AnswerLost, Crash, Boot, PlaneRestarts

\* A request past the author check was past it before this step, or just passed it.
LEMMA AdmittedBefore ==
  ASSUME TypeOK, Conversation, [Next]_vars, NEW w \in net', Admitted(w)
  PROVE  \E q \in net : /\ w.m = q.m /\ w.run = q.run /\ q.run \in Runs
                        /\ \/ Admitted(q)
                           \/ Authorize(q) /\ runnerId[q.run] = TokenOf[q.m]
<1>. USE DEF jobVars, logVars, runnerVars, daemonVars
<1>1. CASE w \in net
  BY <1>1 DEF Conversation, Known, Admitted
<1>2. ASSUME w \notin net, NEW q \in net, Handle(q)
      PROVE  /\ w.m = q.m /\ w.run = q.run /\ q.run \in Runs
             /\ \/ Admitted(q)
                \/ Authorize(q) /\ runnerId[q.run] = TokenOf[q.m]
  <2>0. q \in Request /\ Known(q)
    BY DEF TypeOK, Conversation
  <2>1. CASE ClaimJob(q)
    <3>1. PICK r \in Runs : w = [q EXCEPT !.stage = "ok", !.run = r]
      BY <1>2, <2>1, Zenon DEF ClaimJob
    <3>2. w.op = "poll"
      BY <2>0, <2>1, <3>1 DEF ClaimJob, Request
    <3> QED BY <3>2 DEF Admitted
  <2>2. ASSUME NEW st, Move(q, st) \/ Reply(q, st)
        PROVE  w.m = q.m /\ w.run = q.run /\ w.op = q.op /\ w.stage = st
    <3>1. w = [q EXCEPT !.stage = st]
      BY <1>2, <2>2, Zenon DEF Move, Reply
    <3> QED BY <2>0, <3>1 DEF Request
  <2>3. CASE VerifyRunner(q)
    <3>1. w.stage \in {"unpaired", "verified"}
      BY <2>2, <2>3 DEF VerifyRunner
    <3> QED BY <3>1 DEF Admitted
  <2>4. CASE PollExpires(q)
    <3>1. w.stage = "empty"
      BY <2>2, <2>4 DEF PollExpires
    <3> QED BY <3>1 DEF Admitted
  <2>5. CASE Authorize(q)
    <3>1. \/ w.stage = "refused"
          \/ runnerId[q.run] = TokenOf[q.m] /\ w.m = q.m /\ w.run = q.run
      BY <2>2, <2>5 DEF Authorize
    <3> QED BY <2>0, <2>5, <3>1 DEF Admitted, Authorize, Known
  <2>6. CASE InsertEvent(q)
    BY <2>0, <2>2, <2>6 DEF InsertEvent, Admitted, Known
  <2>7. CASE ProjectRead(q)
    <3>1. q.op = "event"
      BY <2>0, <2>7 DEF ProjectRead, Known
    <3>2. w.m = q.m /\ w.run = q.run
      <4>1. CASE Reply(q, "ok")
        BY <2>2, <4>1
      <4>2. CASE net' = (net \ {q}) \cup
                 {[q EXCEPT !.stage = "projecting", !.rows = Rows(q.run)]}
        <5>1. w = [q EXCEPT !.stage = "projecting", !.rows = Rows(q.run)]
          BY <1>2, <4>2
        <5> QED BY <2>0, <5>1 DEF Request
      <4> QED BY <2>7, <4>1, <4>2 DEF ProjectRead
    <3> QED BY <2>0, <2>7, <3>1, <3>2 DEF ProjectRead, Admitted, Known
  <2>8. CASE ProjectWrite(q)
    BY <2>0, <2>2, <2>8 DEF ProjectWrite, Admitted, Known
  <2>9. CASE StoreFinding(q)
    BY <2>0, <2>2, <2>9 DEF StoreFinding, Admitted, Known
  <2>10. CASE FinishJob(q)
    BY <2>0, <2>2, <2>10 DEF FinishJob, Admitted, Known
  <2> QED BY <1>2, <2>1, <2>3, <2>4, <2>5, <2>6, <2>7, <2>8, <2>9, <2>10 DEF Handle
<1>3. ASSUME w \notin net, NEW m \in Machines, Abandon(m)
      PROVE  \E q \in net : /\ w.m = q.m /\ w.run = q.run /\ q.run \in Runs
                            /\ Admitted(q)
  <2>1. PICK q \in net : w = [q EXCEPT !.live = FALSE]
    BY <1>3, AbandonLeaves
  <2>2. q \in Request /\ Known(q)
    BY DEF TypeOK, Conversation
  <2> QED BY <2>1, <2>2 DEF Request, Admitted, Known
<1>4. ASSUME w \notin net, NEW m \in Machines, SendNext(m) PROVE FALSE
  <2>1. w.stage = "sent"
    BY <1>4 DEF SendNext, Send
  <2> QED BY <2>1 DEF Admitted
<1>5. ASSUME w \notin net, PlaneRestarts PROVE FALSE
  <2>1. PICK q \in net : w = [q EXCEPT !.stage = "none"]
    BY <1>5 DEF PlaneRestarts
  <2>2. w.stage = "none"
    BY <2>1 DEF TypeOK, Request
  <2> QED BY <2>2 DEF Admitted
<1>6. CASE net' \subseteq net
  BY <1>1, <1>6
<1> QED BY <1>1, <1>2, <1>3, <1>4, <1>5, <1>6 DEF Next, vars, EnqueueJob, GraceElapses,
      RevokeRunner, ReleaseJobs, Hear, Daemon, NothingToReport, ExecuteFails,
      AnswerLost, Crash, Boot

\* A loop past the token mint was there before, or hears now that it was minted.
LEMMA WorkerBefore ==
  ASSUME TypeOK, Conversation, [Next]_vars, NEW m \in Machines,
         pc'[m] \in {"shipping", "finding"}
  PROVE  /\ job'[m] \in Runs
         /\ \/ pc[m] \in {"shipping", "finding"} /\ job'[m] = job[m]
            \/ \E q \in net : /\ q.m = m /\ q.run = job'[m]
                              /\ q.op = "token" /\ q.stage = "ok"
<1>. USE DEF jobVars, logVars, runnerVars, daemonVars
<1>0. job'[m] \in Runs
  BY ConversationStep DEF Conversation, JobKnown, Busy
<1>1. CASE UNCHANGED <<pc, job>>
  BY <1>0, <1>1
<1>2. ASSUME NEW q \in net, Hear(q)
      PROVE  \/ pc[m] \in {"shipping", "finding"} /\ job'[m] = job[m]
             \/ q.m = m /\ q.run = job'[m] /\ q.op = "token" /\ q.stage = "ok"
  <2>1. q.m \in Machines
    BY DEF TypeOK, Request
  <2>2. CASE q.m # m
    BY <1>2, <2>2, HearMoves
  <2>3. CASE q.m = m
    BY <1>2, <2>3, HearMoves
  <2> QED BY <2>2, <2>3
<1>3. ASSUME NEW n \in Machines, Daemon(n)
      PROVE  pc[m] \in {"shipping", "finding"} /\ job'[m] = job[m]
  <2>1. ASSUME NEW point, NEW why, Goto(n, point, why), point \notin {"shipping", "finding"}
        PROVE  pc[m] \in {"shipping", "finding"} /\ job'[m] = job[m]
    BY <2>1, GotoMoves
  <2>2. CASE SendNext(n)
    <3>1. Goto(n, "polling", "none") \/ UNCHANGED daemonVars
      BY <2>2, Zenon DEF SendNext
    <3> QED BY <2>1, <3>1
  <2>3. CASE NothingToReport(n)
    BY <2>1, <2>3 DEF NothingToReport
  <2>4. CASE ExecuteFails(n)
    BY <2>1, <2>4 DEF ExecuteFails, Throw
  <2>5. CASE AnswerLost(n)
    <3>1. pc[n] \in Busy \cup {"polling"}
      <4>1. PICK q \in net : q.m = n /\ q.live
        BY <2>5 DEF AnswerLost
      <4>2. q.op \in Ops /\ pc[n] = PointOf(q.op)
        BY <4>1 DEF TypeOK, Request, Conversation, InStep
      <4> QED BY <4>2 DEF Ops, PointOf, Busy
    <3>2. Unanswered(n) /\ JobKnown
      BY <2>5 DEF AnswerLost, Conversation
    <3>3. CASE m # n
      BY <3>1, <3>2, <3>3, UnansweredMoves
    <3>4. CASE m = n
      BY <3>1, <3>2, <3>4, UnansweredMoves DEF Busy
    <3> QED BY <3>3, <3>4
  <2>6. CASE Crash(n)
    BY <2>1, <2>6 DEF Crash
  <2>7. CASE Boot(n)
    BY <2>1, <2>7 DEF Boot
  <2> QED BY <1>3, <2>2, <2>3, <2>4, <2>5, <2>6, <2>7 DEF Daemon
<1> QED BY <1>0, <1>1, <1>2, <1>3 DEF Next, vars, EnqueueJob, GraceElapses,
      RevokeRunner, ReleaseJobs, Handle, VerifyRunner, ClaimJob, PollExpires, Authorize,
      InsertEvent, ProjectRead, ProjectWrite, StoreFinding, FinishJob, PlaneRestarts

\* The log only changes where a request past the author check fills an empty slot.
LEMMA LogGrows ==
  ASSUME TypeOK, Conversation, [Next]_vars
  PROVE  \/ UNCHANGED log
         \/ \E q \in net : /\ InsertEvent(q) /\ Move(q, "inserted")
                           /\ q.op = "event" /\ q.stage = "authorized"
                           /\ q.m \in Machines /\ q.run \in Runs /\ q.seq \in Seqs
                           /\ log[q.run][q.seq] = NoEvent
                           /\ log' = [log EXCEPT ![q.run][q.seq] = q.m]
                           /\ UNCHANGED <<revoked, releasing, daemonVars>>
<1>. USE DEF jobVars, logVars, runnerVars
<1>1. ASSUME NEW q \in net, InsertEvent(q)
      PROVE  \/ UNCHANGED log
             \/ /\ Move(q, "inserted")
                /\ q.op = "event" /\ q.stage = "authorized"
                /\ q.m \in Machines /\ q.run \in Runs /\ q.seq \in Seqs
                /\ log[q.run][q.seq] = NoEvent
                /\ log' = [log EXCEPT ![q.run][q.seq] = q.m]
                /\ UNCHANGED <<revoked, releasing, daemonVars>>
  BY <1>1 DEF InsertEvent, TypeOK, Request, Conversation, Known
<1> QED BY <1>1 DEF Next, vars, EnqueueJob, GraceElapses, RevokeRunner, ReleaseJobs,
      Handle, VerifyRunner, ClaimJob, PollExpires, Authorize, ProjectRead,
      ProjectWrite, StoreFinding, FinishJob, Hear, Daemon, SendNext, NothingToReport,
      ExecuteFails, AnswerLost, Crash, Boot, PlaneRestarts

LEMMA AppendingChangesOneSlot ==
  ASSUME TypeOK, NEW c \in Runs, NEW i \in Seqs, NEW m,
         log' = [log EXCEPT ![c][i] = m]
  PROVE  /\ log'[c][i] = m
         /\ \A r \in Runs, s \in Seqs : r # c \/ s # i => log'[r][s] = log[r][s]
<1>1. log \in [Runs -> [Seqs -> Machines \cup {NoEvent}]]
  BY DEF TypeOK
<1>2. log' = [log EXCEPT ![c] = [log[c] EXCEPT ![i] = m]]
  OBVIOUS
<1>3. log[c] \in [Seqs -> Machines \cup {NoEvent}]
  BY <1>1
<1>4. log'[c] = [log[c] EXCEPT ![i] = m] /\ \A r \in Runs \ {c} : log'[r] = log[r]
  BY <1>1, <1>2
<1> QED BY <1>3, <1>4

LEMMA AuthorityStep ==
  TypeOK /\ Conversation /\ Authority /\ [Next]_vars => Authority'
<1>. SUFFICES ASSUME TypeOK, Conversation, Authority, [Next]_vars PROVE Authority'
  OBVIOUS
<1>0. releasing \subseteq revoked
  BY DEF Authority
<1>1. (releasing \subseteq revoked)'
  BY <1>0 DEF Next, vars, EnqueueJob, GraceElapses, RevokeRunner, ReleaseJobs, Handle,
     VerifyRunner, ClaimJob, PollExpires, Authorize, InsertEvent, ProjectRead,
     ProjectWrite, StoreFinding, FinishJob, Hear, Daemon, SendNext, NothingToReport,
     ExecuteFails, AnswerLost, Crash, Boot, PlaneRestarts, jobVars, logVars, runnerVars
<1>2. ASSUME NEW w \in net', Admitted(w) PROVE Holds(w.m, w.run)'
  <2>1. PICK q \in net : /\ w.m = q.m /\ w.run = q.run /\ q.run \in Runs
                         /\ \/ Admitted(q)
                            \/ Authorize(q) /\ runnerId[q.run] = TokenOf[q.m]
    BY <1>2, AdmittedBefore
  <2>2. q.m \in Machines
    BY DEF TypeOK, Request
  <2>3. CASE Admitted(q)
    BY <1>0, <2>1, <2>2, <2>3, HoldIsKept DEF Authority
  <2>4. CASE Authorize(q) /\ runnerId[q.run] = TokenOf[q.m]
    BY <2>1, <2>2, <2>4 DEF Authorize, Holds, TypeOK
  <2> QED BY <2>1, <2>3, <2>4
<1>3. ASSUME NEW m \in Machines, pc'[m] \in {"shipping", "finding"}
      PROVE  Holds(m, job[m])'
  <2>1. job'[m] \in Runs
    BY <1>3, WorkerBefore
  <2>2. Holds(m, job'[m])
    BY <1>3, WorkerBefore DEF Authority, Admitted
  <2>3. \A r \in Runs : Holds(m, r) => Holds(m, r)'
    BY <1>0, HoldIsKept
  <2> QED BY <2>1, <2>2, <2>3 DEF Holds
<1>4. ASSUME NEW r \in Runs, NEW s \in Seqs, log'[r][s] # NoEvent
      PROVE  Holds(log[r][s], r)'
  <2>1. CASE log'[r][s] = log[r][s]
    <3>1. log[r][s] \in Machines /\ Holds(log[r][s], r)
      BY <1>4, <2>1 DEF TypeOK, Authority
    <3>2. \A m \in Machines : Holds(m, r) => Holds(m, r)'
      BY <1>0, HoldIsKept
    <3> QED BY <2>1, <3>1, <3>2 DEF Holds
  <2>2. ASSUME NEW q \in net, q.stage = "authorized", q.op = "event",
               q.m \in Machines, log'[r][s] = q.m, q.run = r
        PROVE  Holds(log[r][s], r)'
    <3>1. Holds(q.m, r)
      BY <2>2 DEF Authority, Admitted
    <3>2. Holds(q.m, r)'
      BY <1>0, <2>2, <3>1, HoldIsKept
    <3> QED BY <2>2, <3>2 DEF Holds
  <2>3. ASSUME NEW q \in net, q.m \in Machines, q.run \in Runs, q.seq \in Seqs,
               log' = [log EXCEPT ![q.run][q.seq] = q.m]
        PROVE  log'[r][s] = log[r][s] \/ (q.run = r /\ log'[r][s] = q.m)
    BY <2>3, AppendingChangesOneSlot
  <2> QED BY <2>1, <2>2, <2>3, LogGrows
<1> QED BY <1>1, <1>2, <1>3, <1>4 DEF Authority

LEMMA HoldsInit == Init => TypeOK /\ Conversation /\ Authority
<1>. SUFFICES ASSUME Init PROVE TypeOK /\ Conversation /\ Authority
  OBVIOUS
<1>1. TypeOK
  BY DispatchAssumption DEF Init, TypeOK, Points, Seqs
<1>2. Conversation
  BY DEF Init, Conversation, OneLine, JobKnown, Busy
<1>3. Authority
  BY DEF Init, Authority
<1> QED BY <1>1, <1>2, <1>3

THEOREM AuthorityHolds == Spec => [](TypeOK /\ Conversation /\ Authority)
BY HoldsInit, TypeStep, ConversationStep, AuthorityStep, PTL DEF Spec

\* appendFromRunner: two runners are both in the log of a run only if one of them has
\* been revoked, although nothing holds the author check and the insert together.
THEOREM LogHasOneVoice == Spec => []OneVoice
<1>1. TypeOK /\ Authority => OneVoice
  BY DispatchAssumption DEF OneVoice, Recorded, AuthorOf, Authority, Holds, TypeOK
<1> QED BY <1>1, AuthorityHolds, PTL

\* claimJob: a reclaim never leaves two paired runners at work on one run.
THEOREM ReclaimIsExclusive == Spec => []OneWorkerPastMint
<1>1. Authority => OneWorkerPastMint
  BY DEF OneWorkerPastMint, Authority, Holds
<1> QED BY <1>1, AuthorityHolds, PTL
-----------------------------------------------------------------------------
(***************************************************************************)
(* Hand-outs.  A revocation that has put its jobs back is worth one more    *)
(* hand-out of each; until then the row still counts as handed out.        *)
(***************************************************************************)
PutBack == revoked \ releasing

Budget ==
  /\ releasing \subseteq revoked
  /\ \A r \in Runs :
       dispatches[r] <= MaxDispatches + Cardinality(PutBack)
                        - (IF runnerId[r] = NoRunner THEN 1 ELSE 0)

LEMMA PutBackIsFinite ==
  ASSUME NEW S, S \subseteq Runners
  PROVE  IsFiniteSet(S) /\ Cardinality(S) \in Nat
BY DispatchAssumption, FS_Subset, FS_CardinalityType
LEMMA BudgetStep == TypeOK /\ Budget /\ [Next]_vars => Budget'
<1>. SUFFICES ASSUME TypeOK, Budget, [Next]_vars PROVE Budget'
  OBVIOUS
<1>. USE DEF jobVars, logVars, runnerVars, daemonVars
<1>0. /\ PutBack \subseteq Runners /\ Cardinality(PutBack) \in Nat
      /\ MaxDispatches \in Nat
      /\ \A r \in Runs : dispatches[r] \in Nat
  BY PutBackIsFinite, DispatchAssumption DEF TypeOK, PutBack
<1>1. CASE UNCHANGED <<dispatches, runnerId, revoked, releasing>>
  BY <1>1 DEF Budget, PutBack
<1>2. ASSUME NEW q \in net, ClaimJob(q) PROVE Budget'
  <2>1. PICK c \in Runs : /\ Claimable(TokenOf[q.m], c)
                          /\ runnerId' = [runnerId EXCEPT ![c] = TokenOf[q.m]]
                          /\ dispatches' = [dispatches EXCEPT ![c] = @ + 1]
    BY <1>2 DEF ClaimJob, Oldest
  <2>2. PutBack' = PutBack /\ (releasing \subseteq revoked)'
    BY <1>2 DEF ClaimJob, PutBack, Budget
  <2>3. TokenOf[q.m] # NoRunner
    BY DispatchAssumption DEF TypeOK, Request
  <2>4. ASSUME NEW r \in Runs
        PROVE  dispatches'[r] <= MaxDispatches + Cardinality(PutBack')
                                 - (IF runnerId'[r] = NoRunner THEN 1 ELSE 0)
    <3>1. CASE r # c
      BY <2>1, <2>2, <3>1 DEF Budget, TypeOK
    <3>2. CASE r = c
      <4>1. dispatches'[r] = dispatches[r] + 1 /\ runnerId'[r] # NoRunner
        BY <2>1, <2>3, <3>2 DEF TypeOK
      <4>2. dispatches[r] + 1 <= MaxDispatches + Cardinality(PutBack)
        <5>1. CASE runnerId[r] = NoRunner
          BY <1>0, <5>1 DEF Budget
        <5>2. CASE dispatches[r] < MaxDispatches
          BY <1>0, <5>2
        <5> QED BY <2>1, <3>2, <5>1, <5>2 DEF Claimable, NeverCameFor
      <4> QED BY <1>0, <2>2, <4>1, <4>2
    <3> QED BY <3>1, <3>2
  <2> QED BY <2>2, <2>4 DEF Budget
<1>3. ASSUME NEW t \in Runners, RevokeRunner(t) PROVE Budget'
  <2>1. PutBack' = PutBack
    BY <1>3 DEF RevokeRunner, PutBack
  <2> QED BY <1>3, <2>1 DEF RevokeRunner, Budget
<1>4. ASSUME NEW t \in Runners, ReleaseJobs(t) PROVE Budget'
  <2>1. /\ t \notin PutBack /\ PutBack' = PutBack \cup {t}
        /\ (releasing \subseteq revoked)' /\ dispatches' = dispatches
    BY <1>4 DEF ReleaseJobs, PutBack, Budget
  <2>2. Cardinality(PutBack') = Cardinality(PutBack) + 1
    BY <1>0, <2>1, PutBackIsFinite, FS_AddElement
  <2> QED BY <1>0, <2>1, <2>2 DEF Budget
<1>5. CASE PlaneRestarts
  <2>1. /\ PutBack \subseteq PutBack' /\ (releasing \subseteq revoked)'
        /\ PutBack' \subseteq Runners
        /\ UNCHANGED <<dispatches, runnerId>>
    BY <1>5 DEF PlaneRestarts, PutBack, TypeOK
  <2>2. Cardinality(PutBack) <= Cardinality(PutBack') /\ Cardinality(PutBack') \in Nat
    BY <2>1, PutBackIsFinite, FS_Subset
  <2> QED BY <1>0, <2>1, <2>2 DEF Budget
<1> QED BY <1>1, <1>2, <1>3, <1>4, <1>5 DEF Next, vars, EnqueueJob, GraceElapses,
      Handle, VerifyRunner, PollExpires, Authorize, InsertEvent, ProjectRead,
      ProjectWrite, StoreFinding, FinishJob, Hear, Daemon, SendNext, NothingToReport,
      ExecuteFails, AnswerLost, Crash, Boot

\* claimJob and revokeRunner: a job is handed out at most MAX_DISPATCHES times, plus once
\* for every revoked runner, so a run that strands every time cannot spend for ever.
THEOREM HandOutsAreBounded == Spec => []DispatchBudget
<1>1. Init => TypeOK /\ Budget
  <2>1. Init => Budget
    BY DispatchAssumption, FS_EmptySet DEF Init, Budget, PutBack
  <2> QED BY <2>1, HoldsInit
<1>2. TypeOK /\ Budget => DispatchBudget
  <2>. SUFFICES ASSUME TypeOK, Budget, NEW r \in Runs
                PROVE  dispatches[r] <= MaxDispatches + Cardinality(revoked)
    BY DEF DispatchBudget
  <2>1. Cardinality(PutBack) <= Cardinality(revoked)
    BY PutBackIsFinite, FS_Subset DEF TypeOK, PutBack
  <2>2. Cardinality(PutBack) \in Nat /\ Cardinality(revoked) \in Nat
    BY PutBackIsFinite DEF TypeOK, PutBack
  <2>3. dispatches[r] <= MaxDispatches + Cardinality(PutBack)
    <3>1. dispatches[r] \in Nat /\ MaxDispatches \in Nat
      BY DispatchAssumption DEF TypeOK
    <3>2. dispatches[r] <= MaxDispatches + Cardinality(PutBack)
                           - (IF runnerId[r] = NoRunner THEN 1 ELSE 0)
      BY DEF Budget
    <3> QED BY <2>2, <3>1, <3>2
  <2>4. dispatches[r] \in Nat /\ MaxDispatches \in Nat
    BY DispatchAssumption DEF TypeOK
  <2> QED BY <2>1, <2>2, <2>3, <2>4
<1> QED BY <1>1, <1>2, TypeStep, BudgetStep, PTL DEF Spec

-----------------------------------------------------------------------------
(***************************************************************************)
(* Notes.                                                                  *)
(***************************************************************************)
Explained ==
  /\ \A m \in Machines : pc[m] = "shipping" => Kind[job[m]] = "run"
  /\ \A m \in Machines : pc[m] = "finishing" /\ Kind[job[m]] = "draft" =>
       note[m] # "none" \/ found[job[m]]
  /\ \A q \in net : q.op = "finish" /\ Kind[q.run] = "draft" => q.says \/ found[q.run]
  /\ \A q \in net : q.op = "finding" /\ q.stage = "ok" => found[q.run]
  /\ EmptyBoxIsExplained

\* Where a request of the next state comes from.
LEMMA RequestBefore ==
  ASSUME TypeOK, Conversation, [Next]_vars, NEW w \in net',
         w.op = "finish" \/ (w.op = "finding" /\ w.stage = "ok")
  PROVE  \/ \E q \in net : /\ w.op = q.op /\ w.run = q.run /\ w.says = q.says
                           /\ w.stage = q.stage \/ w.stage = "none" \/ Handle(q)
         \/ \E m \in Machines : /\ w.op = "finish" /\ w.run = job[m]
                                /\ w.says = (note[m] # "none")
                                /\ pc[m] = "finishing" /\ UNCHANGED found
<1>. USE DEF jobVars, logVars, runnerVars, daemonVars
<1>0. \A q \in net : q \in Request
  BY DEF TypeOK
<1>1. ASSUME w \notin net, NEW q \in net, Handle(q)
      PROVE  w.op = q.op /\ w.run = q.run /\ w.says = q.says
  <2>1. CASE ClaimJob(q)
    <3>1. PICK r \in Runs : w = [q EXCEPT !.stage = "ok", !.run = r]
      BY <1>1, <2>1, Zenon DEF ClaimJob
    <3>2. w.op = "poll"
      BY <1>0, <2>1, <3>1 DEF ClaimJob, Request
    <3> QED BY <3>2
  <2>2. CASE net' = (net \ {q}) \cup
               {[q EXCEPT !.stage = "projecting", !.rows = Rows(q.run)]}
    BY <1>0, <1>1, <2>2 DEF Request
  <2>3. ASSUME NEW st, Move(q, st) \/ Reply(q, st)
        PROVE  w.op = q.op /\ w.run = q.run /\ w.says = q.says
    <3>1. w = [q EXCEPT !.stage = st]
      BY <1>1, <2>3, Zenon DEF Move, Reply
    <3> QED BY <1>0, <3>1 DEF Request
  <2>4. \/ ClaimJob(q) \/ ProjectRead(q)
        \/ \E st : Move(q, st) \/ Reply(q, st)
    BY <1>1, Zenon DEF Handle, VerifyRunner, PollExpires, Authorize, InsertEvent, ProjectWrite,
       StoreFinding, FinishJob
  <2> QED BY <2>1, <2>2, <2>3, <2>4 DEF ProjectRead
<1>2. ASSUME w \notin net, NEW m \in Machines, Abandon(m)
      PROVE  \E q \in net : /\ w.op = q.op /\ w.run = q.run /\ w.says = q.says
                            /\ w.stage = q.stage
  <2>1. PICK q \in net : w = [q EXCEPT !.live = FALSE]
    BY <1>2, AbandonLeaves
  <2> QED BY <1>0, <2>1 DEF Request
<1>3. ASSUME w \notin net, NEW m \in Machines, SendNext(m)
      PROVE  /\ w.op = "finish" /\ w.run = job[m] /\ w.says = (note[m] # "none")
             /\ pc[m] = "finishing" /\ UNCHANGED found
  <2>1. w.stage = "sent"
    BY <1>3 DEF SendNext, Send
  <2>2. Send(m, "finish", job[m], 0, note[m] # "none") /\ pc[m] = "finishing"
    BY <1>3, <2>1 DEF SendNext, Send
  <2>3. w = [m |-> m, op |-> "finish", run |-> job[m], seq |-> 0, says |-> note[m] # "none",
             rows |-> 0, stage |-> "sent", live |-> TRUE]
    BY <1>3, <2>2 DEF Send
  <2>4. w.op = "finish" /\ w.run = job[m] /\ w.says = (note[m] # "none")
    BY <2>3
  <2> QED BY <1>3, <2>2, <2>4 DEF SendNext
<1>4. ASSUME w \notin net, PlaneRestarts
      PROVE  \E q \in net : /\ w.op = q.op /\ w.run = q.run /\ w.says = q.says
                            /\ w.stage = "none"
  <2>1. PICK q \in net : w = [q EXCEPT !.stage = "none"]
    BY <1>4 DEF PlaneRestarts
  <2> QED BY <1>0, <2>1 DEF Request
<1>5. CASE w \in net
  BY <1>5
<1> QED BY <1>1, <1>2, <1>3, <1>4, <1>5 DEF Next, vars, EnqueueJob, GraceElapses,
      RevokeRunner, ReleaseJobs, Hear, Daemon, NothingToReport, ExecuteFails,
      AnswerLost, Crash, Boot

\* Nothing takes a finding back, or a note.
LEMMA FindingsStay ==
  ASSUME TypeOK, [Next]_vars, NEW r \in Runs
  PROVE  (found[r] => found'[r]) /\ (noted[r] => noted'[r])
<1>1. CASE UNCHANGED <<found, noted>>
  BY <1>1
<1>2. ASSUME NEW q \in net, StoreFinding(q) PROVE (found[r] => found'[r]) /\ UNCHANGED noted
  BY <1>2 DEF StoreFinding, TypeOK
<1>3. ASSUME NEW q \in net, FinishJob(q) PROVE UNCHANGED found /\ (noted[r] => noted'[r])
  BY <1>3 DEF FinishJob, TypeOK
<1> QED BY <1>1, <1>2, <1>3 DEF Next, vars, EnqueueJob, GraceElapses, RevokeRunner,
      ReleaseJobs, Handle, VerifyRunner, ClaimJob, PollExpires, Authorize, InsertEvent,
      ProjectRead, ProjectWrite, Hear, Daemon, SendNext, NothingToReport, ExecuteFails,
      AnswerLost, Crash, Boot, PlaneRestarts, jobVars

\* The loop: only runs are shipped, and a drafting job goes to /finished with a note
\* or after its draft was stored.
LEMMA LoopExplained ==
  ASSUME TypeOK, Conversation, Explained, [Next]_vars, NEW m \in Machines
  PROVE  /\ pc'[m] = "shipping" => Kind[job'[m]] = "run"
         /\ pc'[m] = "finishing" /\ Kind[job'[m]] = "draft" =>
              note'[m] # "none" \/ found'[job'[m]]
<1>. DEFINE Told == /\ pc'[m] = "shipping" => Kind[job'[m]] = "run"
                    /\ pc'[m] = "finishing" /\ Kind[job'[m]] = "draft" =>
                         note'[m] # "none" \/ found'[job'[m]]
<1>. USE DEF jobVars, logVars, runnerVars, daemonVars
<1>0. \A r \in Runs : found[r] => found'[r]
  BY FindingsStay
<1>1. CASE pc'[m] = pc[m] /\ job'[m] = job[m] /\ note'[m] = note[m]
  <2>1. pc[m] = "finishing" => job[m] \in Runs
    BY DEF Conversation, JobKnown, Busy
  <2> QED BY <1>0, <1>1, <2>1 DEF Explained
<1>2. ASSUME NEW q \in net, Hear(q) PROVE Told
  <2>1. q.live /\ q.m \in Machines /\ Known(q) /\ InStep(q)
    BY <1>2 DEF Hear, TypeOK, Request, Conversation
  <2>2. CASE q.m # m
    BY <1>1, <1>2, <2>2, HearMoves
  <2>3. CASE q.m = m
    <3>1. pc[m] = "shipping" => Kind[job[m]] = "run"
      BY DEF Explained
    <3>2. q.op = "event" => Kind[q.run] = "run"
      BY <2>1, <2>3, <3>1 DEF InStep, PointOf
    <3>3. q.op = "finding" /\ q.stage = "ok" => found'[q.run]
      BY <1>0, <2>1 DEF Explained, Known
    <3> QED BY <1>2, <2>3, <3>1, <3>2, <3>3, HearMoves
  <2> QED BY <2>2, <2>3
<1>3. ASSUME NEW n \in Machines, Daemon(n) PROVE Told
  <2>0. CASE m # n
    <3>1. ASSUME NEW point, NEW why, Goto(n, point, why) PROVE Told
      BY <1>1, <2>0, <3>1, GotoMoves
    <3>2. CASE AnswerLost(n)
      <4>1. pc[n] \in Busy \cup {"polling"}
        <5>1. PICK q \in net : q.m = n /\ q.live
          BY <3>2 DEF AnswerLost
        <5>2. q.op \in Ops /\ pc[n] = PointOf(q.op)
          BY <5>1 DEF TypeOK, Request, Conversation, InStep
        <5> QED BY <5>2 DEF Ops, PointOf, Busy
      <4> QED BY <1>1, <2>0, <3>2, <4>1, UnansweredMoves DEF AnswerLost, Conversation
    <3>3. \/ AnswerLost(n) \/ UNCHANGED daemonVars
          \/ \E point, why : Goto(n, point, why)
      BY <1>3, Zenon DEF Daemon, SendNext, NothingToReport, ExecuteFails, Throw, Crash, Boot
    <3> QED BY <1>1, <3>1, <3>2, <3>3
  <2>1. CASE m = n /\ SendNext(n)
    <3>1. Goto(n, "polling", "none") \/ UNCHANGED daemonVars
      BY <2>1, Zenon DEF SendNext
    <3> QED BY <1>1, <2>1, <3>1, GotoMoves
  <2>2. CASE m = n /\ NothingToReport(n)
    <3>1. /\ pc'[m] = "finishing" /\ job'[m] = job[m]
          /\ Kind[job[m]] = "draft" => note'[m] = "declined"
      BY <2>2, GotoMoves DEF NothingToReport, Busy
    <3> QED BY <3>1
  <2>3. CASE m = n /\ ExecuteFails(n)
    BY <2>3, GotoMoves DEF ExecuteFails, Throw
  <2>4. CASE m = n /\ AnswerLost(n)
    <3>1. pc[m] \in Busy \cup {"polling"}
      <4>1. PICK q \in net : q.m = m /\ q.live
        BY <2>4 DEF AnswerLost
      <4>2. q.op \in Ops /\ pc[m] = PointOf(q.op)
        BY <4>1 DEF TypeOK, Request, Conversation, InStep
      <4> QED BY <4>2 DEF Ops, PointOf, Busy
    <3>2. pc[m] = "shipping" => Kind[job[m]] = "run"
      BY DEF Explained
    <3> QED BY <2>4, <3>1, <3>2, UnansweredMoves DEF AnswerLost, Conversation, Busy
  <2>5. CASE m = n /\ (Crash(n) \/ Boot(n))
    BY <2>5, GotoMoves DEF Crash, Boot
  <2> QED BY <1>3, <2>0, <2>1, <2>2, <2>3, <2>4, <2>5 DEF Daemon
<1> QED BY <1>1, <1>2, <1>3 DEF Next, vars, EnqueueJob, GraceElapses,
      RevokeRunner, ReleaseJobs, Handle, VerifyRunner, ClaimJob, PollExpires, Authorize,
      InsertEvent, ProjectRead, ProjectWrite, StoreFinding, FinishJob, PlaneRestarts

LEMMA ExplainedStep ==
  TypeOK /\ Conversation /\ Explained /\ [Next]_vars => Explained'
<1>. SUFFICES ASSUME TypeOK, Conversation, Explained, [Next]_vars PROVE Explained'
  OBVIOUS
<1>. USE DEF jobVars, logVars, runnerVars, daemonVars
<1>0. \A r \in Runs : (found[r] => found'[r]) /\ (noted[r] => noted'[r])
  BY FindingsStay
<1>1. ASSUME NEW w \in net', w.op = "finish", Kind[w.run] = "draft"
      PROVE  w.says \/ found'[w.run]
  <2>1. ASSUME NEW q \in net, w.op = q.op, w.run = q.run, w.says = q.says
        PROVE  w.says \/ found'[w.run]
    BY <1>0, <1>1, <2>1 DEF Explained, Conversation, Known
  <2>2. ASSUME NEW m \in Machines, w.run = job[m], w.says = (note[m] # "none"),
               pc[m] = "finishing", UNCHANGED found
        PROVE  w.says \/ found'[w.run]
    BY <1>1, <2>2 DEF Explained
  <2> QED BY <1>1, <2>1, <2>2, RequestBefore
<1>2. ASSUME NEW w \in net', w.op = "finding", w.stage = "ok" PROVE found'[w.run]
  <2>1. PICK q \in net : /\ w.op = q.op /\ w.run = q.run
                         /\ w.stage = q.stage \/ Handle(q)
    BY <1>2, RequestBefore
  <2>2. q.run \in Runs
    BY <1>2, <2>1 DEF Conversation, Known
  <2>3. CASE w.stage = q.stage
    BY <1>0, <1>2, <2>1, <2>2, <2>3 DEF Explained
  <2>4. CASE StoreFinding(q)
    BY <2>1, <2>2, <2>4 DEF StoreFinding, TypeOK
  <2>5. CASE Handle(q) /\ ~StoreFinding(q) /\ w.stage # q.stage
    <3>1. q \in Request /\ Known(q) /\ q.op = "finding"
      BY <1>2, <2>1 DEF TypeOK, Conversation
    <3>2. CASE w \in net
      BY <1>0, <1>2, <2>2, <3>2 DEF Explained, Conversation, Known
    <3>3. CASE w \notin net
      <4>1. ASSUME NEW st, Move(q, st) \/ Reply(q, st) PROVE w.stage = st
        <5>1. w = [q EXCEPT !.stage = st]
          BY <3>3, <4>1, Zenon DEF Move, Reply
        <5> QED BY <3>1, <5>1 DEF Request
      <4>2. VerifyRunner(q) \/ Authorize(q)
        BY <2>5, <3>1 DEF Handle, ClaimJob, PollExpires, InsertEvent, FinishJob,
           ProjectRead, ProjectWrite, Known
      <4>3. CASE VerifyRunner(q)
        <5>1. w.stage \in {"unpaired", "verified"}
          BY <4>1, <4>3 DEF VerifyRunner
        <5> QED BY <1>2, <5>1
      <4>4. CASE Authorize(q)
        <5>1. w.stage \in {"refused", "authorized"}
          BY <3>1, <4>1, <4>4 DEF Authorize
        <5> QED BY <1>2, <5>1
      <4> QED BY <4>2, <4>3, <4>4
    <3> QED BY <3>2, <3>3
  <2> QED BY <2>1, <2>3, <2>4, <2>5
<1>3. EmptyBoxIsExplained'
  <2>. SUFFICES ASSUME NEW r \in Runs, Kind[r] = "draft", finished'[r], ~found'[r]
                PROVE  noted'[r]
    BY DEF EmptyBoxIsExplained
  <2>1. CASE finished[r]
    BY <1>0, <2>1 DEF Explained, EmptyBoxIsExplained
  <2>2. ASSUME NEW q \in net, FinishJob(q), ~finished[r] PROVE noted'[r]
    <3>1. q.run = r /\ q.op = "finish"
      BY <2>2 DEF FinishJob, TypeOK
    <3>2. q.says
      BY <1>0, <3>1 DEF Explained
    <3> QED BY <2>2, <3>1, <3>2 DEF FinishJob, TypeOK
  <2> QED BY <2>1, <2>2 DEF Next, vars, EnqueueJob, GraceElapses, RevokeRunner,
      ReleaseJobs, Handle, VerifyRunner, ClaimJob, PollExpires, Authorize, InsertEvent,
      ProjectRead, ProjectWrite, StoreFinding, Hear, Daemon, SendNext, NothingToReport,
      ExecuteFails, AnswerLost, Crash, Boot, PlaneRestarts
<1> QED BY <1>1, <1>2, <1>3, LoopExplained DEF Explained

\* daemon.ts: a drafting job that is over has stored a draft or says why it did not.
THEOREM DraftsExplainThemselves == Spec => []EmptyBoxIsExplained
<1>1. Init => Explained
  BY DEF Init, Explained, EmptyBoxIsExplained
<1>2. Explained => EmptyBoxIsExplained
  BY DEF Explained
<1> QED BY <1>1, <1>2, HoldsInit, TypeStep, ConversationStep, ExplainedStep, PTL DEF Spec

-----------------------------------------------------------------------------
(***************************************************************************)
(* What is in the log and in the row read from it: what was acknowledged   *)
(* is recorded, the stream of a run has no gap, Dispatch implements        *)
(* RunLog, and the dashboard follows.                                      *)
(***************************************************************************)
\* An event that has been inserted, or found to be there already.
Landed(q) == q.stage \in {"inserted", "projecting", "ok"}

Stream ==
  /\ \A q \in net : q.op = "event" =>
       /\ \A i \in Seqs : i < q.seq => log[q.run][i] # NoEvent
       /\ Landed(q) => /\ log[q.run][q.seq] # NoEvent
                       /\ SamePayload(q.seq, log[q.run][q.seq], q.m)
  /\ AckedIsRecorded
  /\ NoGaps

\* An event once recorded is never changed.
LEMMA LogIsKept ==
  ASSUME TypeOK, Conversation, [Next]_vars,
         NEW r \in Runs, NEW s \in Seqs, log[r][s] # NoEvent
  PROVE  log'[r][s] = log[r][s]
<1>1. ASSUME NEW q \in net, q.m \in Machines, q.run \in Runs, q.seq \in Seqs,
             log[q.run][q.seq] = NoEvent, log' = [log EXCEPT ![q.run][q.seq] = q.m]
      PROVE  log'[r][s] = log[r][s]
  BY <1>1, AppendingChangesOneSlot
<1> QED BY <1>1, LogGrows

LEMMA InsertedIsThere ==
  ASSUME TypeOK, NEW q \in net, q.run \in Runs, q.seq \in Seqs,
         log' = [log EXCEPT ![q.run][q.seq] = q.m]
  PROVE  log'[q.run][q.seq] = q.m
<1>1. log \in [Runs -> [Seqs -> Machines \cup {NoEvent}]]
  BY DEF TypeOK
<1>2. log' = [log EXCEPT ![q.run] = [log[q.run] EXCEPT ![q.seq] = q.m]]
  OBVIOUS
<1>3. log'[q.run] = [log[q.run] EXCEPT ![q.seq] = q.m]
  BY <1>1, <1>2
<1> QED BY <1>1, <1>3

LEMMA EventBefore ==
  ASSUME TypeOK, Conversation, [Next]_vars, NEW w \in net', w.op = "event"
  PROVE  \/ \E q \in net : /\ q.op = "event" /\ w.m = q.m /\ w.run = q.run /\ w.seq = q.seq
                           /\ q.m \in Machines /\ q.run \in Runs /\ q.seq \in Seqs
                           /\ Landed(w) =>
                                \/ Landed(q)
                                \/ /\ InsertEvent(q)
                                   /\ \/ log'[q.run][q.seq] = q.m
                                      \/ /\ UNCHANGED log /\ log[q.run][q.seq] # NoEvent
                                         /\ SamePayload(q.seq, log[q.run][q.seq], q.m)
         \/ /\ ~Landed(w) /\ UNCHANGED log /\ w.m \in Machines /\ pc[w.m] = "shipping"
            /\ w.run = job[w.m] /\ w.seq = seq[w.m]
<1>. USE DEF jobVars, logVars, runnerVars, daemonVars
<1>. DEFINE Same(q) == /\ q.op = "event" /\ w.m = q.m /\ w.run = q.run /\ w.seq = q.seq
                       /\ q.m \in Machines /\ q.run \in Runs /\ q.seq \in Seqs
            Fresh(q) == /\ InsertEvent(q)
                        /\ \/ log'[q.run][q.seq] = q.m
                           \/ /\ UNCHANGED log /\ log[q.run][q.seq] # NoEvent
                              /\ SamePayload(q.seq, log[q.run][q.seq], q.m)
<1>1. \A q \in net : /\ q \in Request /\ Known(q)
                     /\ q.op = "event" => q.m \in Machines /\ q.run \in Runs /\ q.seq \in Seqs
  BY DEF TypeOK, Conversation, Known, Request
<1>3. ASSUME w \notin net, NEW q \in net, Handle(q)
      PROVE  Same(q) /\ (Landed(w) => Landed(q) \/ Fresh(q))
  <2>1. CASE ClaimJob(q)
    <3>1. PICK r \in Runs : w = [q EXCEPT !.stage = "ok", !.run = r]
      BY <1>3, <2>1, Zenon DEF ClaimJob
    <3>2. w.op = "poll"
      BY <1>1, <2>1, <3>1 DEF ClaimJob, Request
    <3> QED BY <3>2
  <2>2. ASSUME NEW st, Move(q, st) \/ Reply(q, st)
        PROVE  Same(q) /\ w.stage = st
    <3>1. w = [q EXCEPT !.stage = st]
      BY <1>3, <2>2, Zenon DEF Move, Reply
    <3> QED BY <1>1, <3>1 DEF Request
  <2>3. CASE VerifyRunner(q)
    <3>1. Same(q) /\ w.stage \in {"unpaired", "verified"}
      BY <2>2, <2>3 DEF VerifyRunner
    <3> QED BY <3>1 DEF Landed
  <2>4. CASE PollExpires(q)
    <3>1. Same(q) /\ w.stage = "empty"
      BY <2>2, <2>4 DEF PollExpires
    <3> QED BY <3>1 DEF Landed
  <2>5. CASE Authorize(q)
    <3>1. Same(q)
      BY <2>2, <2>5 DEF Authorize
    <3>2. w.stage \in {"refused", "authorized"}
      BY <2>2, <2>5, <3>1 DEF Authorize
    <3> QED BY <3>1, <3>2 DEF Landed
  <2>6. CASE InsertEvent(q)
    <3>1. CASE /\ log[q.run][q.seq] = NoEvent /\ Move(q, "inserted")
               /\ log' = [log EXCEPT ![q.run][q.seq] = q.m]
      <4>1. Same(q)
        BY <2>2, <3>1
      <4>2. q.run \in Runs /\ q.seq \in Seqs
        BY <4>1
      <4> HIDE DEF Same
      <4>3. log'[q.run][q.seq] = q.m
        BY <3>1, <4>2, InsertedIsThere
      <4> QED BY <2>6, <4>1, <4>3
    <3>2. CASE /\ log[q.run][q.seq] # NoEvent /\ UNCHANGED log
               /\ Reply(q, IF SamePayload(q.seq, log[q.run][q.seq], q.m) THEN "ok"
                           ELSE "refused")
      <4>1. Same(q) /\ w.stage = (IF SamePayload(q.seq, log[q.run][q.seq], q.m) THEN "ok"
                                  ELSE "refused")
        BY <2>2, <3>2
      <4> QED BY <2>6, <3>2, <4>1 DEF Landed
    <3> QED BY <2>6, <3>1, <3>2 DEF InsertEvent
  <2>7. CASE ProjectRead(q)
    <3>1. CASE Reply(q, "ok")
      BY <2>2, <2>7, <3>1 DEF ProjectRead, Landed
    <3>2. CASE net' = (net \ {q}) \cup
               {[q EXCEPT !.stage = "projecting", !.rows = Rows(q.run)]}
      <4>1. w = [q EXCEPT !.stage = "projecting", !.rows = Rows(q.run)]
        BY <1>3, <3>2
      <4>2. w.m = q.m /\ w.op = q.op /\ w.run = q.run /\ w.seq = q.seq
        BY <1>1, <4>1 DEF Request
      <4> QED BY <1>1, <2>7, <4>2 DEF ProjectRead, Landed
    <3> QED BY <2>7, <3>1, <3>2 DEF ProjectRead
  <2>8. CASE ProjectWrite(q)
    BY <2>2, <2>8 DEF ProjectWrite, Landed
  <2>9. CASE StoreFinding(q)
    <3>1. Same(q)
      BY <2>2, <2>9 DEF StoreFinding
    <3> QED BY <2>9, <3>1 DEF StoreFinding
  <2>10. CASE FinishJob(q)
    <3>1. Same(q)
      BY <2>2, <2>10 DEF FinishJob
    <3> QED BY <2>10, <3>1 DEF FinishJob
  <2> QED BY <1>3, <2>1, <2>3, <2>4, <2>5, <2>6, <2>7, <2>8, <2>9, <2>10 DEF Handle
<1>4. ASSUME w \notin net, NEW m \in Machines, Abandon(m)
      PROVE  \E q \in net : Same(q) /\ (Landed(w) => Landed(q))
  <2>1. PICK q \in net : w = [q EXCEPT !.live = FALSE]
    BY <1>4, AbandonLeaves
  <2>2. w.m = q.m /\ w.op = q.op /\ w.run = q.run /\ w.seq = q.seq /\ w.stage = q.stage
    BY <1>1, <2>1 DEF Request
  <2> QED BY <1>1, <2>2 DEF Landed
<1>5. ASSUME w \notin net, NEW m \in Machines, SendNext(m)
      PROVE  /\ ~Landed(w) /\ UNCHANGED log /\ w.m \in Machines /\ pc[w.m] = "shipping"
             /\ w.run = job[w.m] /\ w.seq = seq[w.m]
  <2>1. Send(m, "event", job[m], seq[m], FALSE) /\ pc[m] = "shipping"
    BY <1>5 DEF SendNext, Send
  <2>2. w = [m |-> m, op |-> "event", run |-> job[m], seq |-> seq[m], says |-> FALSE,
             rows |-> 0, stage |-> "sent", live |-> TRUE]
    BY <1>5, <2>1 DEF Send
  <2> QED BY <1>5, <2>1, <2>2 DEF SendNext, Landed
<1>6. ASSUME w \notin net, PlaneRestarts
      PROVE  \E q \in net : Same(q) /\ ~Landed(w)
  <2>1. PICK q \in net : w = [q EXCEPT !.stage = "none"]
    BY <1>6 DEF PlaneRestarts
  <2>2. w.m = q.m /\ w.op = q.op /\ w.run = q.run /\ w.seq = q.seq /\ w.stage = "none"
    BY <1>1, <2>1 DEF Request
  <2> QED BY <1>1, <2>2 DEF Landed
<1> HIDE DEF Same, Fresh
<1>7. \/ \E q \in net : Same(q) /\ (Landed(w) => Landed(q) \/ Fresh(q))
      \/ /\ ~Landed(w) /\ UNCHANGED log /\ w.m \in Machines /\ pc[w.m] = "shipping"
         /\ w.run = job[w.m] /\ w.seq = seq[w.m]
  <2>1. CASE w \in net
    BY <1>1, <2>1 DEF Same
  <2> QED BY <1>3, <1>4, <1>5, <1>6, <2>1 DEF Next, vars, EnqueueJob, GraceElapses,
        RevokeRunner, ReleaseJobs, Hear, Daemon, NothingToReport, ExecuteFails,
        AnswerLost, Crash, Boot
<1> QED BY <1>7 DEF Same, Fresh

\* A loop that ships was shipping the same run before, or starts at seq 1.
LEMMA ShippingBefore ==
  ASSUME TypeOK, Conversation, [Next]_vars, NEW m \in Machines, pc'[m] = "shipping"
  PROVE  \/ /\ pc[m] = "shipping" /\ job'[m] = job[m]
            /\ \/ seq'[m] = seq[m]
               \/ \E q \in net : /\ q.op = "event" /\ q.stage = "ok" /\ q.m = m
                                 /\ q.run = job[m] /\ q.seq = seq[m]
                                 /\ seq'[m] = seq[m] + 1
         \/ seq'[m] = 1
<1>. USE DEF jobVars, logVars, runnerVars, daemonVars
<1>1. CASE UNCHANGED <<pc, job, seq>>
  BY <1>1
<1>2. ASSUME NEW q \in net, Hear(q)
      PROVE  \/ /\ pc[m] = "shipping" /\ job'[m] = job[m]
                /\ \/ seq'[m] = seq[m]
                   \/ /\ q.op = "event" /\ q.stage = "ok" /\ q.m = m
                      /\ q.run = job[m] /\ q.seq = seq[m]
                      /\ seq'[m] = seq[m] + 1
             \/ seq'[m] = 1
  <2>1. q.m \in Machines /\ q.live
    BY <1>2 DEF TypeOK, Request, Hear
  <2>2. q.op = "event" => q.run = job[q.m] /\ q.seq = seq[q.m]
    BY <2>1 DEF Conversation, InStep
  <2>3. CASE q.m # m
    BY <1>2, <2>3, HearMoves
  <2>4. CASE q.m = m
    BY <1>2, <2>2, <2>4, HearMoves
  <2> QED BY <2>3, <2>4
<1>3. ASSUME NEW n \in Machines, Daemon(n)
      PROVE  pc[m] = "shipping" /\ job'[m] = job[m] /\ seq'[m] = seq[m]
  <2>1. ASSUME NEW point, NEW why, Goto(n, point, why), point # "shipping"
        PROVE  pc[m] = "shipping" /\ job'[m] = job[m] /\ seq'[m] = seq[m]
    BY <2>1, GotoMoves
  <2>2. CASE SendNext(n)
    <3>1. Goto(n, "polling", "none") \/ UNCHANGED daemonVars
      BY <2>2, Zenon DEF SendNext
    <3> QED BY <2>1, <3>1
  <2>3. CASE NothingToReport(n)
    BY <2>1, <2>3 DEF NothingToReport
  <2>4. CASE ExecuteFails(n)
    BY <2>1, <2>4 DEF ExecuteFails, Throw
  <2>5. CASE AnswerLost(n)
    <3>1. pc[n] \in Busy \cup {"polling"}
      <4>1. PICK q \in net : q.m = n /\ q.live
        BY <2>5 DEF AnswerLost
      <4>2. q.op \in Ops /\ pc[n] = PointOf(q.op)
        BY <4>1 DEF TypeOK, Request, Conversation, InStep
      <4> QED BY <4>2 DEF Ops, PointOf, Busy
    <3>2. Unanswered(n) /\ JobKnown
      BY <2>5 DEF AnswerLost, Conversation
    <3>3. CASE m # n
      BY <3>1, <3>2, <3>3, UnansweredMoves
    <3>4. CASE m = n
      BY <3>1, <3>2, <3>4, UnansweredMoves DEF Busy
    <3> QED BY <3>3, <3>4
  <2>6. CASE Crash(n)
    BY <2>1, <2>6 DEF Crash
  <2>7. CASE Boot(n)
    BY <2>1, <2>7 DEF Boot
  <2> QED BY <1>3, <2>2, <2>3, <2>4, <2>5, <2>6, <2>7 DEF Daemon
<1> QED BY <1>1, <1>2, <1>3 DEF Next, vars, EnqueueJob, GraceElapses,
      RevokeRunner, ReleaseJobs, Handle, VerifyRunner, ClaimJob, PollExpires, Authorize,
      InsertEvent, ProjectRead, ProjectWrite, StoreFinding, FinishJob, PlaneRestarts

LEMMA StreamStep == TypeOK /\ Conversation /\ Stream /\ [Next]_vars => Stream'
<1>. SUFFICES ASSUME TypeOK, Conversation, Stream, [Next]_vars PROVE Stream'
  OBVIOUS
<1>0. \A r \in Runs, s \in Seqs : log[r][s] # NoEvent => log'[r][s] = log[r][s]
  BY LogIsKept
<1>1. ASSUME NEW w \in net', w.op = "event"
      PROVE  /\ \A i \in Seqs : i < w.seq => log'[w.run][i] # NoEvent
             /\ Landed(w) => /\ log'[w.run][w.seq] # NoEvent
                             /\ SamePayload(w.seq, log'[w.run][w.seq], w.m)
  <2>1. CASE /\ ~Landed(w) /\ UNCHANGED log /\ w.m \in Machines /\ pc[w.m] = "shipping"
             /\ w.run = job[w.m] /\ w.seq = seq[w.m]
    <3>1. \A i \in Seqs : i < w.seq => i \in 1..(seq[w.m] - 1)
      BY <2>1 DEF Seqs, TypeOK
    <3> QED BY <2>1, <3>1 DEF Stream, AckedIsRecorded, Recorded
  <2>2. ASSUME NEW q \in net, q.op = "event", w.m = q.m, w.run = q.run, w.seq = q.seq,
               q.m \in Machines, q.run \in Runs, q.seq \in Seqs,
               Landed(w) => \/ Landed(q)
                            \/ /\ InsertEvent(q)
                               /\ \/ log'[q.run][q.seq] = q.m
                                  \/ /\ UNCHANGED log /\ log[q.run][q.seq] # NoEvent
                                     /\ SamePayload(q.seq, log[q.run][q.seq], q.m)
        PROVE  /\ \A i \in Seqs : i < w.seq => log'[w.run][i] # NoEvent
               /\ Landed(w) => /\ log'[w.run][w.seq] # NoEvent
                               /\ SamePayload(w.seq, log'[w.run][w.seq], w.m)
    <3>1. \A i \in Seqs : i < w.seq => log'[w.run][i] # NoEvent
      BY <1>0, <2>2 DEF Stream
    <3>2. CASE Landed(q)
      BY <1>0, <2>2, <3>1, <3>2 DEF Stream
    <3>3. CASE log'[q.run][q.seq] = q.m
      BY <2>2, <3>1, <3>3, DispatchAssumption DEF SamePayload
    <3>4. CASE /\ UNCHANGED log /\ log[q.run][q.seq] # NoEvent
               /\ SamePayload(q.seq, log[q.run][q.seq], q.m)
      BY <2>2, <3>1, <3>4
    <3> QED BY <2>2, <3>1, <3>2, <3>3, <3>4
  <2> QED BY <1>1, <2>1, <2>2, EventBefore
<1>2. ASSUME NEW m \in Machines, pc'[m] = "shipping", NEW s \in 1..(seq'[m] - 1)
      PROVE  log'[job'[m]][s] # NoEvent /\ SamePayload(s, log'[job'[m]][s], m)
  <2>1. s \in Seqs /\ seq[m] \in Seqs /\ seq'[m] \in Seqs
    BY <1>2, TypeStep, DispatchAssumption DEF TypeOK, Seqs
  <2>2. CASE seq'[m] = 1
    BY <1>2, <2>2
  <2>3. CASE pc[m] = "shipping" /\ job'[m] = job[m] /\ s < seq[m]
    <3>1. s \in 1..(seq[m] - 1) /\ job[m] \in Runs
      BY <2>1, <2>3 DEF Seqs, Conversation, JobKnown, Busy
    <3>2. log[job[m]][s] # NoEvent /\ SamePayload(s, log[job[m]][s], m)
      BY <2>3, <3>1 DEF Stream, AckedIsRecorded, Recorded
    <3> QED BY <1>0, <2>1, <2>3, <3>1, <3>2
  <2>4. ASSUME pc[m] = "shipping", job'[m] = job[m], s = seq[m],
               NEW q \in net, q.op = "event", q.stage = "ok", q.m = m,
               q.run = job[m], q.seq = seq[m]
        PROVE  log'[job'[m]][s] # NoEvent /\ SamePayload(s, log'[job'[m]][s], m)
    <3>1. job[m] \in Runs
      BY <2>4 DEF Conversation, JobKnown, Busy
    <3>2. log[job[m]][s] # NoEvent /\ SamePayload(s, log[job[m]][s], m)
      BY <2>4 DEF Stream, Landed
    <3> QED BY <1>0, <2>1, <2>4, <3>1, <3>2
  <2>5. \/ s < seq[m]
        \/ s = seq[m] /\ seq'[m] # seq[m]
        \/ seq'[m] # seq[m] /\ seq'[m] # seq[m] + 1
    BY <1>2, <2>1 DEF Seqs
  <2> QED BY <1>2, <2>2, <2>3, <2>4, <2>5, ShippingBefore
<1>3. ASSUME NEW r \in Runs, NEW s \in Seqs, NEW i \in Seqs, log'[r][s] # NoEvent, i < s
      PROVE  log'[r][i] # NoEvent
  <2>1. CASE log[r][s] # NoEvent
    BY <1>0, <1>3, <2>1 DEF Stream, NoGaps, Foldable
  <2>2. ASSUME NEW q \in net, q.op = "event", q.run = r, q.seq = s
        PROVE  log'[r][i] # NoEvent
    BY <1>0, <1>3, <2>2 DEF Stream
  <2>3. ASSUME NEW q \in net, q.m \in Machines, q.run \in Runs, q.seq \in Seqs,
               log' = [log EXCEPT ![q.run][q.seq] = q.m]
        PROVE  log'[r][s] = log[r][s] \/ (q.run = r /\ q.seq = s)
    BY <2>3, AppendingChangesOneSlot
  <2> QED BY <1>3, <2>1, <2>2, <2>3, LogGrows
<1> QED BY <1>1, <1>2, <1>3 DEF Stream, AckedIsRecorded, Recorded, NoGaps, Foldable,
                              SamePayload, Landed

Invariant == TypeOK /\ Conversation /\ Authority /\ Stream

THEOREM InvariantHolds == Spec => []Invariant
<1>1. Init => Invariant
  <2>1. Init => Stream
    BY DEF Init, Stream, AckedIsRecorded, NoGaps, Foldable
  <2> QED BY <2>1, HoldsInit DEF Invariant
<1>2. Invariant /\ [Next]_vars => Invariant'
  BY TypeStep, ConversationStep, AuthorityStep, StreamStep DEF Invariant
<1> QED BY <1>1, <1>2, PTL DEF Spec

\* appendFromRunner and append (daemon.ts): whatever was lost, retried or written by
\* another machine, what the plane acknowledged is recorded with the daemon's payload.
THEOREM AckedEventsAreRecorded == Spec => []AckedIsRecorded
BY InvariantHolds, PTL DEF Invariant, Stream

\* append (daemon.ts) gives up rather than skip: fold() can take every recorded run.
THEOREM StreamsHaveNoGap == Spec => []NoGaps
BY InvariantHolds, PTL DEF Invariant, Stream

\* The event log is append-only, gap-free and single-voiced, whatever happens between
\* the plane and the runners.
THEOREM DispatchImplementsRunLog == Spec => ImplementsRunLog
<1>1. Init => Ledger!LogInit
  BY DEF Init, Ledger!LogInit, Ledger!Slots, Seqs
<1>2. Invariant /\ [Next]_vars => [Ledger!LogNext]_<<log, revoked>>
  <2>. SUFFICES ASSUME Invariant, [Next]_vars, ~UNCHANGED <<log, revoked>>
                PROVE  Ledger!LogNext
    OBVIOUS
  <2>. USE DEF Invariant
  <2>1. CASE UNCHANGED log
    <3>1. \/ UNCHANGED revoked
          \/ \E t \in Runners : RevokeRunner(t)
      BY DEF Next, vars, EnqueueJob, GraceElapses, ReleaseJobs,
        Handle, VerifyRunner, ClaimJob, PollExpires, Authorize, InsertEvent, ProjectRead,
        ProjectWrite, StoreFinding, FinishJob, Hear, Daemon, SendNext, NothingToReport,
        ExecuteFails, AnswerLost, Crash, Boot, PlaneRestarts, runnerVars
    <3> QED BY <2>1, <3>1 DEF RevokeRunner, Ledger!LogNext, Ledger!Revoke
  <2>2. ASSUME NEW q \in net, q.op = "event", q.stage = "authorized",
               q.m \in Machines, q.run \in Runs, q.seq \in Seqs,
               log[q.run][q.seq] = NoEvent,
               log' = [log EXCEPT ![q.run][q.seq] = q.m], UNCHANGED revoked
        PROVE  Ledger!Record(q.run, q.seq, q.m)
    <3>1. \A i \in Seqs : i < q.seq => log[q.run][i] # NoEvent
      BY <2>2 DEF Stream
    <3>2. ASSUME TokenOf[q.m] \notin revoked
          PROVE  Ledger!Authors(q.run) \subseteq revoked \cup {TokenOf[q.m]}
      <4>1. runnerId[q.run] = TokenOf[q.m]
        BY <2>2, <3>2 DEF Authority, Admitted, Holds
      <4>2. \A s \in Seqs : log[q.run][s] # NoEvent =>
              TokenOf[log[q.run][s]] \in revoked \/ TokenOf[log[q.run][s]] = runnerId[q.run]
        BY <2>2 DEF Authority, Holds
      <4> QED BY <4>1, <4>2 DEF Ledger!Authors, Ledger!Slots, Seqs
    <3> QED BY <2>2, <3>1, <3>2 DEF Ledger!Record, Ledger!Slots, Seqs
  <2> QED BY <2>1, <2>2, LogGrows DEF Ledger!LogNext, Ledger!Slots, Seqs
<1> QED BY <1>1, <1>2, InvariantHolds, PTL DEF Spec, ImplementsRunLog, Ledger!LogSpec
-----------------------------------------------------------------------------
(***************************************************************************)
(* The dashboard row.  While nothing fails, a machine has one request at a *)
(* time; a run handed out once is in one machine's hands, and where tokens *)
(* are not shared the author check lets one machine write.  Either way no  *)
(* two projections of one run overlap.                                     *)
(***************************************************************************)
AllWaitedFor == \A q \in net : q.live

Touches(m, r) == job[m] = r \/ \E q \in net : q.m = m /\ q.run = r

OneHand ==
  \A r \in Runs : \A a, b \in Machines :
    /\ Touches(a, r) => dispatches[r] >= 1
    /\ Touches(a, r) /\ Touches(b, r) /\ dispatches[r] <= 1 => a = b

Calm(r) == faults = 0 /\ revoked = {} /\ (dispatches[r] <= 1 \/ TokensAreOwn)

Projecting(q, r) == q.run = r /\ q.stage \in {"inserted", "projecting"}

RowFollows ==
  \A r \in Runs : Calm(r) =>
    /\ shown[r] = Rows(r) \/ \E q \in net : Projecting(q, r)
    /\ \A q \in net : q.run = r /\ q.stage = "projecting" => q.rows = Rows(r)

Quiet == faults = 0 => AllWaitedFor /\ OneHand

\* Where the requests of a step without a failure come from.
LEMMA SentBefore ==
  ASSUME TypeOK, Conversation, [Next]_vars, faults' = 0, NEW w \in net', w \notin net
  PROVE  \/ \E q \in net : /\ q.m \in Machines /\ w.m = q.m /\ w.live = q.live
                           /\ \/ w.run = q.run
                              \/ ClaimJob(q) /\ w.run \in Runs
                                 /\ dispatches' = [dispatches EXCEPT ![w.run] = @ + 1]
                           /\ w.stage = "projecting" =>
                                /\ ProjectRead(q) /\ w.rows = Rows(q.run)
                                /\ w.run = q.run /\ UNCHANGED <<log, shown>>
         \/ \E m \in Machines : /\ w.m = m /\ w.live /\ w.stage = "sent"
                                /\ w.run = NoRun \/ w.run = job[m]
<1>. USE DEF jobVars, logVars, runnerVars, daemonVars
<1>1. \A q \in net : q \in Request /\ q.m \in Machines
  BY DEF TypeOK, Request
<1>2. ASSUME NEW q \in net, Handle(q)
      PROVE  /\ w.m = q.m /\ w.live = q.live
             /\ \/ w.run = q.run
                \/ ClaimJob(q) /\ w.run \in Runs
                   /\ dispatches' = [dispatches EXCEPT ![w.run] = @ + 1]
             /\ w.stage = "projecting" => /\ ProjectRead(q) /\ w.rows = Rows(q.run)
                                          /\ w.run = q.run /\ UNCHANGED <<log, shown>>
  <2>1. ASSUME NEW st, Move(q, st) \/ Reply(q, st)
        PROVE  w.m = q.m /\ w.live = q.live /\ w.run = q.run /\ w.stage = st
    <3>1. w = [q EXCEPT !.stage = st]
      BY <2>1, Zenon DEF Move, Reply
    <3> QED BY <1>1, <3>1 DEF Request
  <2>2. CASE ClaimJob(q)
    <3>1. PICK r \in Runs : /\ w = [q EXCEPT !.stage = "ok", !.run = r]
                            /\ dispatches' = [dispatches EXCEPT ![r] = @ + 1]
      BY <2>2, Zenon DEF ClaimJob
    <3>2. w.m = q.m /\ w.live = q.live /\ w.run = r /\ w.stage = "ok"
      BY <1>1, <3>1 DEF Request
    <3> QED BY <2>2, <3>1, <3>2
  <2>3. CASE ProjectRead(q)
    <3>1. CASE Reply(q, "ok")
      BY <2>1, <3>1
    <3>2. CASE net' = (net \ {q}) \cup
               {[q EXCEPT !.stage = "projecting", !.rows = Rows(q.run)]}
      <4>1. w = [q EXCEPT !.stage = "projecting", !.rows = Rows(q.run)]
        BY <3>2
      <4>2. w.m = q.m /\ w.live = q.live /\ w.run = q.run /\ w.rows = Rows(q.run)
        BY <1>1, <4>1 DEF Request
      <4> QED BY <2>3, <4>2 DEF ProjectRead
    <3> QED BY <2>3, <3>1, <3>2 DEF ProjectRead
  <2>4. ASSUME NEW st \in {"unpaired", "verified", "empty", "refused", "authorized",
                           "inserted", "ok"},
               Move(q, st) \/ Reply(q, st)
        PROVE  w.m = q.m /\ w.live = q.live /\ w.run = q.run /\ w.stage # "projecting"
    BY <2>1, <2>4
  <2>5. CASE InsertEvent(q)
    <3>1. \/ Move(q, "inserted")
          \/ \E st \in {"ok", "refused"} : Reply(q, st)
      BY <2>5 DEF InsertEvent
    <3> QED BY <2>4, <3>1
  <2>6. \/ InsertEvent(q) \/ ClaimJob(q) \/ ProjectRead(q)
        \/ \E st \in {"unpaired", "verified", "empty", "refused", "authorized", "ok"} :
             Move(q, st) \/ Reply(q, st)
    BY <1>2 DEF Handle, VerifyRunner, PollExpires, Authorize, ProjectWrite, StoreFinding,
      FinishJob
  <2> QED BY <2>2, <2>3, <2>4, <2>5, <2>6
<1>3. ASSUME NEW m \in Machines, SendNext(m)
      PROVE  w.m = m /\ w.live /\ w.stage = "sent" /\ (w.run = NoRun \/ w.run = job[m])
  <2>1. ASSUME NEW op, NEW r, NEW s, NEW says, Send(m, op, r, s, says)
        PROVE  w.m = m /\ w.live /\ w.stage = "sent" /\ w.run = r
    <3>1. w = [m |-> m, op |-> op, run |-> r, seq |-> s, says |-> says,
               rows |-> 0, stage |-> "sent", live |-> TRUE]
      BY <2>1 DEF Send
    <3> QED BY <3>1
  <2>2. \/ Send(m, "poll", NoRun, 0, FALSE)
        \/ Send(m, "token", job[m], 0, FALSE)
        \/ Send(m, "event", job[m], seq[m], FALSE)
        \/ Send(m, "finding", job[m], 0, FALSE)
        \/ Send(m, "finish", job[m], 0, note[m] # "none")
    BY <1>3, Zenon DEF SendNext
  <2> QED BY <2>1, <2>2
<1>4. ASSUME NEW m \in Machines, AnswerLost(m) \/ Crash(m)
      PROVE  FALSE
  BY <1>4 DEF AnswerLost, Crash, TypeOK
<1>5. ~PlaneRestarts
  BY DEF PlaneRestarts, TypeOK
<1> QED BY <1>1, <1>2, <1>3, <1>4, <1>5 DEF Next, vars, EnqueueJob, GraceElapses,
      RevokeRunner, ReleaseJobs, Hear, Daemon, NothingToReport, ExecuteFails, Boot

\* A job is given by an answer; otherwise a machine keeps the one it has.
LEMMA JobBefore ==
  ASSUME TypeOK, Conversation, [Next]_vars, NEW m \in Machines, job'[m] \in Runs
  PROVE  job'[m] = job[m] \/ \E q \in net : q.m = m /\ q.run = job'[m]
<1>. USE DEF jobVars, logVars, runnerVars, daemonVars
<1>1. ASSUME NEW n \in Machines, NEW point, NEW why, Goto(n, point, why)
      PROVE  job'[m] = job[m]
  BY <1>1, DispatchAssumption DEF Goto, TypeOK
<1>2. ASSUME NEW n \in Machines, Unanswered(n)
      PROVE  job'[m] = job[m]
  <2>1. \/ \E point, why : Goto(n, point, why)
        \/ UNCHANGED job
    BY <1>2, Zenon DEF Unanswered, Throw
  <2> QED BY <1>1, <2>1
<1>3. ASSUME NEW q \in net, Hear(q)
      PROVE  job'[m] = job[m] \/ (q.m = m /\ q.run = job'[m])
  <2>1. q.m \in Machines
    BY DEF TypeOK, Request
  <2>2. \/ Unanswered(q.m)
        \/ \E point, why : Goto(q.m, point, why)
        \/ UNCHANGED job
        \/ job' = [job EXCEPT ![q.m] = q.run]
    BY <1>3, Zenon DEF Hear, Throw
  <2> QED BY <1>1, <1>2, <2>1, <2>2 DEF TypeOK
<1>4. ASSUME NEW n \in Machines, Daemon(n)
      PROVE  job'[m] = job[m]
  <2>1. \/ Unanswered(n)
        \/ \E point, why : Goto(n, point, why)
        \/ UNCHANGED job
    BY <1>4, Zenon DEF Daemon, SendNext, NothingToReport, ExecuteFails, Throw, AnswerLost,
      Crash, Boot
  <2> QED BY <1>1, <1>2, <2>1
<1> QED BY <1>3, <1>4 DEF Next, vars, EnqueueJob, GraceElapses, RevokeRunner,
      ReleaseJobs, Handle, VerifyRunner, ClaimJob, PollExpires, Authorize,
      InsertEvent, ProjectRead, ProjectWrite, StoreFinding, FinishJob, PlaneRestarts

\* What only grows.
LEMMA CountersGrow ==
  ASSUME TypeOK, [Next]_vars
  PROVE  /\ faults' = 0 => faults = 0
         /\ revoked' = {} => revoked = {}
         /\ \A r \in Runs : dispatches[r] <= dispatches'[r]
<1>. USE DEF jobVars, logVars, runnerVars, daemonVars
<1>1. ASSUME NEW q \in net, ClaimJob(q), NEW r \in Runs
      PROVE  dispatches[r] <= dispatches'[r]
  <2>1. PICK c \in Runs : dispatches' = [dispatches EXCEPT ![c] = @ + 1]
    BY <1>1 DEF ClaimJob
  <2> QED BY <2>1 DEF TypeOK
<1>2. ASSUME UNCHANGED dispatches, NEW r \in Runs
      PROVE  dispatches[r] <= dispatches'[r]
  <2>1. dispatches[r] \in Nat
    BY DEF TypeOK
  <2> QED BY <1>2, <2>1
<1>3. (\E q \in net : ClaimJob(q)) \/ UNCHANGED dispatches
  BY DEF Next, vars, EnqueueJob, GraceElapses, RevokeRunner, ReleaseJobs, Handle,
     VerifyRunner, PollExpires, Authorize, InsertEvent, ProjectRead, ProjectWrite,
     StoreFinding, FinishJob, Hear, Daemon, SendNext, NothingToReport, ExecuteFails,
     AnswerLost, Crash, Boot, PlaneRestarts
<1>4. UNCHANGED faults \/ faults' = faults + 1
  BY DEF Next, vars, EnqueueJob, GraceElapses, RevokeRunner, ReleaseJobs, Handle,
     VerifyRunner, ClaimJob, PollExpires, Authorize, InsertEvent, ProjectRead,
     ProjectWrite, StoreFinding, FinishJob, Hear, Daemon, SendNext, NothingToReport,
     ExecuteFails, AnswerLost, Crash, Boot, PlaneRestarts
<1>5. faults' = 0 => faults = 0
  BY <1>4 DEF TypeOK
<1>6. UNCHANGED revoked \/ \E t \in Runners : revoked' = revoked \cup {t}
  BY DEF Next, vars, EnqueueJob, GraceElapses, RevokeRunner, ReleaseJobs, Handle,
     VerifyRunner, ClaimJob, PollExpires, Authorize, InsertEvent, ProjectRead,
     ProjectWrite, StoreFinding, FinishJob, Hear, Daemon, SendNext, NothingToReport,
     ExecuteFails, AnswerLost, Crash, Boot, PlaneRestarts
<1>7. revoked' = {} => revoked = {}
  BY <1>6
<1> QED BY <1>1, <1>2, <1>3, <1>5, <1>7

\* Only a claim brings a run into other hands, and it is counted.
LEMMA TouchesBefore ==
  ASSUME TypeOK, Conversation, [Next]_vars, faults' = 0,
         NEW r \in Runs, NEW m \in Machines, Touches(m, r)'
  PROVE  \/ Touches(m, r)
         \/ \E q \in net : ClaimJob(q) /\ q.m = m /\ dispatches'[r] = dispatches[r] + 1
<1>1. CASE job'[m] = r
  BY <1>1, JobBefore DEF Touches
<1>2. ASSUME NEW w \in net', w \notin net, w.m = m, w.run = r
      PROVE  \/ Touches(m, r)
             \/ \E q \in net : ClaimJob(q) /\ q.m = m /\ dispatches'[r] = dispatches[r] + 1
  <2>1. ASSUME NEW q \in net, ClaimJob(q), q.m = m,
               dispatches' = [dispatches EXCEPT ![r] = @ + 1]
        PROVE  dispatches'[r] = dispatches[r] + 1
    BY <2>1 DEF TypeOK
  <2>2. ASSUME NEW q \in net, q.m = m, q.run = r
        PROVE  Touches(m, r)
    BY <2>2 DEF Touches
  <2>3. r # NoRun
    BY DispatchAssumption
  <2> QED BY <1>2, <2>1, <2>2, <2>3, SentBefore DEF Touches
<1> QED BY <1>1, <1>2 DEF Touches

\* Two claims are not made in one step.
LEMMA OneClaim ==
  ASSUME TypeOK, NEW p \in net, ClaimJob(p), NEW q \in net, ClaimJob(q),
         \A a, b \in net : a.live /\ b.live /\ a.m = b.m => a = b, p.live, q.live
  PROVE  p = q
<1>1. p \in Request /\ q \in Request
  BY DEF TypeOK
<1>2. PICK r \in Runs : net' = (net \ {p}) \cup {[p EXCEPT !.stage = "ok", !.run = r]}
  BY DEF ClaimJob
<1>3. PICK c \in Runs : net' = (net \ {q}) \cup {[q EXCEPT !.stage = "ok", !.run = c]}
  BY DEF ClaimJob
<1>4. [p EXCEPT !.stage = "ok", !.run = r] # p /\ p.stage = "verified"
  BY <1>1 DEF ClaimJob, Request
<1>5. p \notin net'
  BY <1>2, <1>4
<1> QED BY <1>3, <1>5

LEMMA QuietStep == TypeOK /\ Conversation /\ Quiet /\ [Next]_vars => Quiet'
<1>. SUFFICES ASSUME TypeOK, Conversation, Quiet, [Next]_vars, faults' = 0
              PROVE  AllWaitedFor' /\ OneHand'
  BY DEF Quiet
<1>1. faults = 0 /\ AllWaitedFor /\ OneHand
  BY CountersGrow DEF Quiet
<1>2. AllWaitedFor'
  <2>1. ASSUME NEW w \in net', w \notin net PROVE w.live
    BY <1>1, <2>1, SentBefore DEF AllWaitedFor
  <2> QED BY <1>1, <2>1 DEF AllWaitedFor
<1>3. ASSUME NEW r \in Runs, NEW a \in Machines, Touches(a, r)'
      PROVE  dispatches'[r] >= 1
  <2>1. dispatches[r] \in Nat /\ dispatches'[r] \in Nat /\ dispatches[r] <= dispatches'[r]
    BY TypeStep, CountersGrow DEF TypeOK
  <2> QED BY <1>1, <1>3, <2>1, TouchesBefore DEF OneHand
<1>4. ASSUME NEW r \in Runs, NEW a \in Machines, NEW b \in Machines,
             Touches(a, r)', Touches(b, r)', dispatches'[r] <= 1
      PROVE  a = b
  <2>1. dispatches[r] \in Nat /\ dispatches'[r] \in Nat /\ dispatches[r] <= dispatches'[r]
    BY TypeStep, CountersGrow DEF TypeOK
  <2>2. CASE Touches(a, r) /\ Touches(b, r)
    BY <1>1, <1>4, <2>1, <2>2 DEF OneHand
  <2>3. ASSUME NEW m \in Machines, Touches(m, r), dispatches'[r] = dispatches[r] + 1
        PROVE  FALSE
    BY <1>1, <1>4, <2>1, <2>3 DEF OneHand
  <2>4. ASSUME NEW p \in net, ClaimJob(p), p.m = a, NEW q \in net, ClaimJob(q), q.m = b
        PROVE  a = b
    BY <1>1, <2>4, OneClaim DEF AllWaitedFor, Conversation, OneLine
  <2> QED BY <1>1, <1>4, <2>2, <2>3, <2>4, TouchesBefore
<1> QED BY <1>2, <1>3, <1>4 DEF OneHand

\* Of a calm run, one request at a time is past the author check.
LEMMA NoTwoWriters ==
  ASSUME TypeOK, Conversation, Authority, Quiet,
         NEW r \in Runs, Calm(r),
         NEW p \in net, NEW q \in net, Admitted(p), Admitted(q), p.run = r, q.run = r
  PROVE  p = q
<1>1. p.m \in Machines /\ q.m \in Machines /\ p.live /\ q.live
  BY DEF TypeOK, Request, Quiet, AllWaitedFor, Calm
<1>2. CASE dispatches[r] <= 1
  <2>1. Touches(p.m, r) /\ Touches(q.m, r)
    BY DEF Touches
  <2>2. p.m = q.m
    BY <1>1, <1>2, <2>1 DEF Quiet, OneHand, Calm
  <2> QED BY <1>1, <2>2 DEF Conversation, OneLine
<1>3. CASE TokensAreOwn
  <2>1. TokenOf[p.m] = runnerId[r] /\ TokenOf[q.m] = runnerId[r]
    BY DEF Authority, Holds, Calm
  <2>2. p.m = q.m
    BY <1>1, <1>3, <2>1 DEF TokensAreOwn
  <2> QED BY <1>1, <2>2 DEF Conversation, OneLine
<1> QED BY <1>2, <1>3 DEF Calm

LEMMA RowStep ==
  TypeOK /\ Conversation /\ Authority /\ Stream /\ Quiet /\ RowFollows /\ [Next]_vars
    => RowFollows'
<1>. SUFFICES ASSUME TypeOK, Conversation, Authority, Stream, Quiet, RowFollows,
                     [Next]_vars, NEW r \in Runs, Calm(r)'
              PROVE  /\ shown'[r] = Rows(r)' \/ \E q \in net' : Projecting(q, r)
                     /\ \A q \in net' : q.run = r /\ q.stage = "projecting" =>
                          q.rows = Rows(r)'
  BY DEF RowFollows, Projecting
<1>. USE DEF jobVars, logVars, runnerVars, daemonVars
<1>. DEFINE Records(q) == /\ InsertEvent(q) /\ Move(q, "inserted")
                          /\ log' = [log EXCEPT ![q.run][q.seq] = q.m]
<1>1. Calm(r) /\ faults' = 0
  <2>1. dispatches[r] \in Nat /\ dispatches'[r] \in Nat
    BY TypeStep DEF TypeOK
  <2> QED BY <2>1, CountersGrow DEF Calm
<1>2. /\ shown[r] = Rows(r) \/ \E q \in net : Projecting(q, r)
      /\ \A q \in net : q.run = r /\ q.stage = "projecting" => q.rows = Rows(r)
  BY <1>1 DEF RowFollows
<1>3. \A q \in net : q \in Request /\ Known(q)
  BY DEF TypeOK, Conversation
<1>4. ASSUME log'[r] = log[r]
      PROVE  Rows(r)' = Rows(r)
  BY <1>4 DEF Rows
<1>5. ASSUME NEW q \in net, InsertEvent(q), Move(q, "inserted"),
             log' = [log EXCEPT ![q.run][q.seq] = q.m], UNCHANGED shown
      PROVE  /\ shown'[r] = Rows(r)' \/ \E p \in net' : Projecting(p, r)
             /\ \A p \in net' : p.run = r /\ p.stage = "projecting" => p.rows = Rows(r)'
  <2>1. [q EXCEPT !.stage = "inserted"].run = q.run
        /\ [q EXCEPT !.stage = "inserted"].stage = "inserted"
    BY <1>3 DEF Request
  <2>2. q.op = "event" /\ q.stage = "authorized" /\ q.run \in Runs
    BY <1>3, <1>5 DEF InsertEvent, Known
  <2>3. CASE q.run = r
    <3>1. \E p \in net' : Projecting(p, r)
      BY <1>5, <2>1, <2>3 DEF Move, Projecting
    <3>2. ASSUME NEW p \in net', p.run = r, p.stage = "projecting"
          PROVE  FALSE
      <4>1. p \in net
        BY <1>5, <2>1, <3>2 DEF Move
      <4>2. Admitted(p) /\ Admitted(q)
        BY <1>3, <2>2, <3>2, <4>1 DEF Admitted, Known
      <4>3. p = q
        BY <1>1, <2>3, <3>2, <4>1, <4>2, NoTwoWriters
      <4> QED BY <2>2, <3>2, <4>3
    <3> QED BY <3>1, <3>2
  <2>4. CASE q.run # r
    <3>1. log'[r] = log[r]
      BY <1>5, <2>2, <2>4 DEF TypeOK
    <3>2. \A p \in net : p.run = r => p \in net'
      BY <1>5, <2>4 DEF Move
    <3>3. \A p \in net' : p.run = r => p \in net
      BY <1>5, <2>1, <2>4 DEF Move
    <3> QED BY <1>2, <1>4, <1>5, <3>1, <3>2, <3>3 DEF Projecting
  <2> QED BY <2>3, <2>4
<1>6. ASSUME NEW q \in net, ProjectRead(q)
      PROVE  /\ shown'[r] = Rows(r)' \/ \E p \in net' : Projecting(p, r)
             /\ \A p \in net' : p.run = r /\ p.stage = "projecting" => p.rows = Rows(r)'
  <2>1. q.run \in Runs /\ UNCHANGED <<log, shown>>
    BY <1>3, <1>6 DEF ProjectRead, Known
  <2>2. Foldable(q.run)
    BY <2>1 DEF Stream, NoGaps
  <2>. DEFINE w == [q EXCEPT !.stage = "projecting", !.rows = Rows(q.run)]
  <2>3. net' = (net \ {q}) \cup {w}
    BY <1>6, <2>2 DEF ProjectRead
  <2>4. w.run = q.run /\ w.stage = "projecting" /\ w.rows = Rows(q.run)
    BY <1>3 DEF Request
  <2>. HIDE DEF w
  <2> QED BY <1>2, <1>4, <2>1, <2>3, <2>4 DEF Projecting
<1>7. ASSUME NEW q \in net, ProjectWrite(q)
      PROVE  /\ shown'[r] = Rows(r)' \/ \E p \in net' : Projecting(p, r)
             /\ \A p \in net' : p.run = r /\ p.stage = "projecting" => p.rows = Rows(r)'
  <2>1. /\ q.run \in Runs /\ UNCHANGED log /\ q.stage = "projecting"
        /\ shown' = [shown EXCEPT ![q.run] = q.rows]
        /\ net' \subseteq (net \ {q}) \cup {[q EXCEPT !.stage = "ok"]}
        /\ net \ {q} \subseteq net'
    BY <1>3, <1>7 DEF ProjectWrite, Known, Reply
  <2>2. [q EXCEPT !.stage = "ok"].stage = "ok"
    BY <1>3 DEF Request
  <2>3. \A p \in net' : p.run = r /\ p.stage = "projecting" => p.rows = Rows(r)'
    BY <1>2, <1>4, <2>1, <2>2
  <2>4. CASE q.run = r
    BY <1>2, <1>4, <2>1, <2>3, <2>4 DEF TypeOK
  <2>5. CASE q.run # r
    <3>1. shown'[r] = shown[r]
      BY <2>1, <2>5 DEF TypeOK
    <3> QED BY <1>2, <1>4, <2>1, <2>3, <2>5, <3>1 DEF Projecting
  <2> QED BY <2>4, <2>5
<1>8. ASSUME UNCHANGED <<log, shown>>,
             \A p \in net : p.stage \in {"inserted", "projecting"} => p \in net',
             \A p \in net' : p.stage = "projecting" => p \in net
      PROVE  /\ shown'[r] = Rows(r)' \/ \E p \in net' : Projecting(p, r)
             /\ \A p \in net' : p.run = r /\ p.stage = "projecting" => p.rows = Rows(r)'
  BY <1>2, <1>4, <1>8 DEF Projecting
<1>9. ASSUME \A q \in net : ~ProjectRead(q)
      PROVE  \A p \in net' : p.stage = "projecting" => p \in net
  BY <1>1, <1>9, SentBefore
<1>10. ASSUME NEW q \in net, Handle(q),
              ~ProjectRead(q), ~ProjectWrite(q), ~Records(q)
       PROVE  /\ UNCHANGED <<log, shown>>
              /\ q.stage \notin {"inserted", "projecting"}
              /\ net \ {q} \subseteq net'
  <2>1. CASE InsertEvent(q)
    BY <1>10, <2>1 DEF InsertEvent, Reply
  <2>2. CASE ClaimJob(q)
    BY <2>2 DEF ClaimJob
  <2> QED BY <1>10, <2>1, <2>2 DEF Handle, VerifyRunner, PollExpires, Authorize,
            StoreFinding, FinishJob, Move, Reply
<1>11. ASSUME NEW q \in net, Hear(q)
       PROVE  /\ UNCHANGED <<log, shown>>
              /\ q.stage \notin {"inserted", "projecting"}
              /\ net \ {q} \subseteq net'
  BY <1>11 DEF Hear, Answers
<1>12. ASSUME NEW m \in Machines, Daemon(m)
       PROVE  UNCHANGED <<log, shown>> /\ net \subseteq net'
  <2>1. ~AnswerLost(m) /\ ~Crash(m)
    BY <1>1 DEF AnswerLost, Crash, TypeOK
  <2> QED BY <1>12, <2>1 DEF Daemon, SendNext, Send, NothingToReport, ExecuteFails, Boot
<1>13. ~PlaneRestarts
  BY <1>1 DEF PlaneRestarts, TypeOK
<1>14. CASE \E q \in net : ProjectRead(q) \/ ProjectWrite(q) \/ Records(q)
  BY <1>5, <1>6, <1>7, <1>14 DEF InsertEvent
<1>15. CASE ~\E q \in net : ProjectRead(q) \/ ProjectWrite(q) \/ Records(q)
  <2>1. UNCHANGED <<log, shown>>
        /\ \A p \in net : p.stage \in {"inserted", "projecting"} => p \in net'
    BY <1>10, <1>11, <1>12, <1>13, <1>15 DEF Next, vars, EnqueueJob, GraceElapses,
      RevokeRunner, ReleaseJobs
  <2> QED BY <1>8, <1>9, <1>15, <2>1
<1> QED BY <1>14, <1>15

THEOREM RowHolds == Spec => [](Quiet /\ RowFollows)
<1>1. Init => Quiet /\ RowFollows
  <2>. SUFFICES ASSUME Init PROVE Quiet /\ RowFollows
    OBVIOUS
  <2>1. Quiet
    BY DispatchAssumption DEF Init, Quiet, AllWaitedFor, OneHand, Touches
  <2>2. ASSUME NEW r \in Runs PROVE Rows(r) = 0
    <3>1. {s \in Seqs : log[r][s] # NoEvent} = {}
      BY DEF Init
    <3> QED BY <3>1, FS_EmptySet DEF Rows
  <2> QED BY <2>1, <2>2 DEF Init, RowFollows
<1>2. Invariant /\ Quiet /\ RowFollows /\ [Next]_vars => (Quiet /\ RowFollows)'
  BY QuietStep, RowStep DEF Invariant
<1> QED BY <1>1, <1>2, InvariantHolds, PTL DEF Spec

\* The events route: without a failure, and without two machines of one token on one
\* run, the dashboard's row of a run that is over is the fold of its whole log.
THEOREM DashboardFollowsTheLog == Spec => []DashboardCatchesUp
<1>1. RowFollows => DashboardCatchesUp
  BY DEF RowFollows, DashboardCatchesUp, Calm, Projecting
<1> QED BY <1>1, RowHolds, PTL
=============================================================================
