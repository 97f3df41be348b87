------------------------------ MODULE Dispatch ------------------------------
(***************************************************************************)
(* Dispatch of work from the control plane to the runners that dial out to *)
(* it: the rows of `jobs`, `runners` and `events` (src/src/plane.ts), the  *)
(* HTTP surface in front of them (src/src/runner-api.ts) and the loop of   *)
(* the daemon on the other side (src/src/daemon.ts, runner-main.ts).       *)
(*                                                                         *)
(* One SQL statement is one step.  A handler is several statements and is  *)
(* therefore several steps: the token is verified, then the job row is     *)
(* stamped and the author checked, then the event is inserted, then the    *)
(* read model is read and written.  Nothing holds them together, so any    *)
(* other request, a revocation or a restart can fall between two of them.  *)
(*                                                                         *)
(* Failures covered: a request or an answer that is lost, a client that    *)
(* gives up on a request the plane is still working on, a machine that     *)
(* sleeps past the grace period, a machine that crashes and comes back, a  *)
(* plane that restarts, a runner revoked at any moment, an execution that  *)
(* throws.  Abstracted: payloads (seq 1 is the intake, later events are    *)
(* whatever that machine observed), wall-clock time (only "older than the  *)
(* grace period" is kept), the recipe, secrets, cost and blob requests,    *)
(* which pass the same gate as the token request and change nothing here.  *)
(***************************************************************************)
EXTENDS Integers, FiniteSets, Sequences

CONSTANTS
  Runs,             \* run ids the plane may mint
  Runners,          \* rows of `runners`: one pairing token each
  Machines,         \* daemon processes
  TokenOf,          \* the runner row a machine's token authenticates as
  Serves,           \* per runner, the runs of the installations it may serve
  Kind,             \* `jobs.kind` of each run
  MaxSeq,           \* bound: events a run writes
  MaxDispatches,    \* MAX_DISPATCHES
  AppendAttempts,   \* APPEND_ATTEMPTS
  MayRevoke,        \* runners an operator may revoke
  MayCrash,         \* points of the daemon's loop at which a machine may die
  MayLose,          \* operations whose answer may never arrive
  MayRestartPlane,  \* whether the plane may restart
  Prompt,           \* whether a daemon that has a job is quicker than the grace period
  MaxFaults,        \* bound: lost answers, crashes and restarts in a behaviour
  NoRun, NoRunner, NoEvent

Kinds == {"run", "prove", "draft"}
Ops == {"poll", "token", "event", "finding", "finish"}
Points == {"idle", "polling", "minting", "shipping", "finding", "finishing",
           "stopped", "down"}

ASSUME DispatchAssumption ==
  /\ IsFiniteSet(Runners)
  /\ TokenOf \in [Machines -> Runners]
  /\ Serves \in [Runners -> SUBSET Runs]
  /\ Kind \in [Runs -> Kinds]
  /\ MaxSeq \in Nat \ {0}
  /\ MaxDispatches \in Nat \ {0}
  /\ AppendAttempts \in Nat \ {0}
  /\ MaxFaults \in Nat
  /\ MayRevoke \subseteq Runners
  /\ MayCrash \subseteq Points
  /\ MayLose \subseteq Ops
  /\ MayRestartPlane \in BOOLEAN
  /\ Prompt \in BOOLEAN
  /\ NoRun \notin Runs
  /\ NoRunner \notin Runners
  /\ NoEvent \notin Machines

VARIABLES
  \* the database
  queue,       \* runs in order of `queued_at`
  runnerId,    \* jobs.runner_id
  heard,       \* jobs.heard_at is not null
  overdue,     \* jobs.dispatched_at is older than STRANDED_AFTER_MS
  dispatches,  \* jobs.dispatches
  finished,    \* jobs.finished_at is not null
  noted,       \* jobs.note is not null
  found,       \* a proof or a draft was stored for the job
  log,         \* events: the machine whose event holds (run, seq), or NoEvent
  shown,       \* run_projection: events the run's saved row was folded from
  revoked,     \* runners.revoked_at is not null
  \* the plane's process
  releasing,   \* runners between the two statements of revokeRunner
  net,         \* requests the plane is working on, or has answered
  \* the daemons
  pc, job, seq, tries, note,
  \* the bound on failures
  faults

jobVars == <<queue, runnerId, heard, overdue, dispatches, finished, noted, found>>
logVars == <<log, shown>>
runnerVars == <<revoked, releasing>>
daemonVars == <<pc, job, seq, tries, note>>
vars == <<jobVars, logVars, runnerVars, net, daemonVars, faults>>

Seqs == 1..MaxSeq
Working == {"sent", "verified", "authorized", "inserted", "projecting"}
Answers == {"ok", "refused", "unpaired", "empty", "none"}

\* One request.  `live`: somebody still waits for the answer; `rows`: the events
\* projectOne read; `says`: a finish that carries a note.
Request == [m : Machines, op : Ops, run : Runs \cup {NoRun}, seq : 0..MaxSeq,
            says : BOOLEAN, rows : 0..MaxSeq, stage : Working \cup Answers,
            live : BOOLEAN]

TypeOK ==
  /\ queue \in Seq(Runs)
  /\ runnerId \in [Runs -> Runners \cup {NoRunner}]
  /\ heard \in [Runs -> BOOLEAN]
  /\ overdue \in [Runs -> BOOLEAN]
  /\ dispatches \in [Runs -> Nat]
  /\ finished \in [Runs -> BOOLEAN]
  /\ noted \in [Runs -> BOOLEAN]
  /\ found \in [Runs -> BOOLEAN]
  /\ log \in [Runs -> [Seqs -> Machines \cup {NoEvent}]]
  /\ shown \in [Runs -> 0..MaxSeq]
  /\ revoked \subseteq Runners
  /\ releasing \subseteq Runners
  /\ net \subseteq Request
  /\ pc \in [Machines -> Points]
  /\ job \in [Machines -> Runs \cup {NoRun}]
  /\ seq \in [Machines -> 1..MaxSeq]
  /\ tries \in [Machines -> Nat]
  /\ note \in [Machines -> {"none", "declined", "threw"}]
  /\ faults \in 0..MaxFaults
-----------------------------------------------------------------------------
(***************************************************************************)
(* What the statements read.                                               *)
(***************************************************************************)
Started(r) == \E s \in Seqs : log[r][s] # NoEvent
Queued(r) == \E i \in DOMAIN queue : queue[i] = r

\* The payload a machine ships at a seq: RUN_REQUESTED is the intake, whoever
\* sends it; anything later is what that machine saw.
SamePayload(s, a, b) == s = 1 \/ a = b

\* Variants of claimJob's `where`: without the stamp; without the reclaim.
ReclaimsAnswered(r) == dispatches[r] < MaxDispatches /\ overdue[r] /\ ~Started(r)
NeverReclaims(r) == FALSE

\* The `where` of claimJob.
NeverCameFor(r) ==
  /\ ~heard[r]
  /\ dispatches[r] < MaxDispatches
  /\ overdue[r]
  /\ ~Started(r)

Claimable(t, r) ==
  /\ r \in Serves[t]
  /\ ~finished[r]
  /\ runnerId[r] = NoRunner \/ NeverCameFor(r)

\* `order by j.queued_at limit 1`.
Oldest(t, r) ==
  \E i \in DOMAIN queue :
    /\ queue[i] = r
    /\ Claimable(t, r)
    /\ \A j \in DOMAIN queue : j < i => ~Claimable(t, queue[j])

\* fold() takes a stream that starts at 1 and has no gap; the number of events
\* read by readRun, or 0 when there is no stream to fold.
Rows(r) == Cardinality({s \in Seqs : log[r][s] # NoEvent})
Foldable(r) == \A s \in Seqs, i \in Seqs :
                 log[r][s] # NoEvent /\ i < s => log[r][i] # NoEvent
-----------------------------------------------------------------------------
(***************************************************************************)
(* Requests in flight.                                                     *)
(***************************************************************************)
Send(m, op, r, s, says) ==
  net' = net \cup {[m |-> m, op |-> op, run |-> r, seq |-> s, says |-> says,
                    rows |-> 0, stage |-> "sent", live |-> TRUE]}

Move(q, st) == net' = (net \ {q}) \cup {[q EXCEPT !.stage = st]}

\* The answer goes to whoever waits; nobody reads an abandoned one.
Reply(q, st) ==
  net' = (net \ {q}) \cup (IF q.live THEN {[q EXCEPT !.stage = st]} ELSE {})

Waiting(m) == \E q \in net : q.m = m /\ q.live
-----------------------------------------------------------------------------
(***************************************************************************)
(* The plane: enqueueing and revocation.                                   *)
(***************************************************************************)
EnqueueJob(r) ==
  /\ ~Queued(r)
  /\ queue' = Append(queue, r)
  /\ UNCHANGED <<runnerId, heard, overdue, dispatches, finished, noted, found,
                 logVars, runnerVars, net, daemonVars, faults>>

\* revokeRunner, first statement; a second call finds no row and stops there.
RevokeRunner(t) ==
  /\ t \in MayRevoke \ revoked
  /\ revoked' = revoked \cup {t}
  /\ releasing' = releasing \cup {t}
  /\ UNCHANGED <<jobVars, logVars, net, daemonVars, faults>>

\* Variant: a revocation that puts nothing back.
KeepsEverything(t, r) == FALSE

Unstarted(t, r) == Queued(r) /\ runnerId[r] = t /\ ~finished[r] /\ ~Started(r)

\* revokeRunner, second statement; `dispatches` is left as it is.
ReleaseJobs(t) ==
  /\ t \in releasing
  /\ releasing' = releasing \ {t}
  /\ runnerId' = [r \in Runs |-> IF Unstarted(t, r) THEN NoRunner ELSE runnerId[r]]
  /\ heard' = [r \in Runs |-> heard[r] /\ ~Unstarted(t, r)]
  /\ overdue' = [r \in Runs |-> overdue[r] /\ ~Unstarted(t, r)]
  /\ UNCHANGED <<queue, dispatches, finished, noted, found, logVars, revoked, net,
                 daemonVars, faults>>

\* A daemon is on the job, or about to hear that it has it.
InHand(r) ==
  \/ \E m \in Machines : job[m] = r
  \/ \E q \in net : q.op = "poll" /\ q.stage = "ok" /\ q.run = r

\* Two minutes pass on the database's clock.  STRANDED_AFTER_MS is sized so that
\* a daemon at work has spoken long before; nothing enforces it (a laptop sleeps).
GraceElapses(r) ==
  /\ runnerId[r] # NoRunner
  /\ Prompt => ~InHand(r)
  /\ ~overdue[r]
  /\ overdue' = [overdue EXCEPT ![r] = TRUE]
  /\ UNCHANGED <<queue, runnerId, heard, dispatches, finished, noted, found,
                 logVars, runnerVars, net, daemonVars, faults>>
-----------------------------------------------------------------------------
(***************************************************************************)
(* The plane: one request, statement by statement.                         *)
(***************************************************************************)
VerifyRunner(q) ==
  /\ q.stage = "sent"
  /\ IF TokenOf[q.m] \in revoked THEN Reply(q, "unpaired") ELSE Move(q, "verified")
  /\ UNCHANGED <<jobVars, logVars, runnerVars, daemonVars, faults>>

ClaimJob(q) ==
  /\ q.op = "poll" /\ q.stage = "verified"
  /\ \E r \in Runs :
       /\ Oldest(TokenOf[q.m], r)
       /\ runnerId' = [runnerId EXCEPT ![r] = TokenOf[q.m]]
       /\ heard' = [heard EXCEPT ![r] = FALSE]
       /\ overdue' = [overdue EXCEPT ![r] = FALSE]
       /\ dispatches' = [dispatches EXCEPT ![r] = @ + 1]
       /\ net' = (net \ {q}) \cup
                 (IF q.live THEN {[q EXCEPT !.stage = "ok", !.run = r]} ELSE {})
  /\ UNCHANGED <<queue, finished, noted, found, logVars, runnerVars, daemonVars,
                 faults>>

\* The deadline of the long poll, 204.
PollExpires(q) ==
  /\ q.op = "poll" /\ q.stage = "verified"
  /\ ~\E r \in Runs : Oldest(TokenOf[q.m], r)
  /\ Reply(q, "empty")
  /\ UNCHANGED <<jobVars, logVars, runnerVars, daemonVars, faults>>

\* The head of appendFromRunner: the stamp is written whoever asks, and only
\* then is the author compared.  A token request is answered here.
Authorize(q) ==
  /\ q.op # "poll" /\ q.stage = "verified"
  /\ heard' = [heard EXCEPT ![q.run] = TRUE]
  /\ IF runnerId[q.run] # TokenOf[q.m] THEN Reply(q, "refused")
     ELSE IF q.op = "token" THEN Reply(q, "ok")
     ELSE Move(q, "authorized")
  /\ UNCHANGED <<queue, runnerId, overdue, dispatches, finished, noted, found,
                 logVars, runnerVars, daemonVars, faults>>

\* `insert ... on conflict do nothing`, and the comparison when it conflicts.
InsertEvent(q) ==
  /\ q.op = "event" /\ q.stage = "authorized"
  /\ \/ /\ log[q.run][q.seq] = NoEvent
        /\ log' = [log EXCEPT ![q.run][q.seq] = q.m]
        /\ Move(q, "inserted")
     \/ /\ log[q.run][q.seq] # NoEvent
        /\ Reply(q, IF SamePayload(q.seq, log[q.run][q.seq], q.m) THEN "ok"
                    ELSE "refused")
        /\ UNCHANGED log
  /\ UNCHANGED <<jobVars, shown, runnerVars, daemonVars, faults>>

\* Variant: the events route answers without projecting.
LogsOnly(q) ==
  /\ q.stage = "inserted"
  /\ Reply(q, "ok")
  /\ UNCHANGED <<jobVars, logVars, runnerVars, daemonVars, faults>>

\* projectOne: readRun and the fold, which throws on a gap and is swallowed ...
ProjectRead(q) ==
  /\ q.stage = "inserted"
  /\ IF Foldable(q.run)
       THEN net' = (net \ {q}) \cup
                   {[q EXCEPT !.stage = "projecting", !.rows = Rows(q.run)]}
       ELSE Reply(q, "ok")
  /\ UNCHANGED <<jobVars, logVars, runnerVars, daemonVars, faults>>

\* ... and saveRunRow, which overwrites whatever row is there.
ProjectWrite(q) ==
  /\ q.stage = "projecting"
  /\ shown' = [shown EXCEPT ![q.run] = q.rows]
  /\ Reply(q, "ok")
  /\ UNCHANGED <<jobVars, log, runnerVars, daemonVars, faults>>

StoreFinding(q) ==
  /\ q.op = "finding" /\ q.stage = "authorized"
  /\ found' = [found EXCEPT ![q.run] = TRUE]
  /\ Reply(q, "ok")
  /\ UNCHANGED <<queue, runnerId, heard, overdue, dispatches, finished, noted,
                 logVars, runnerVars, daemonVars, faults>>

FinishJob(q) ==
  /\ q.op = "finish" /\ q.stage = "authorized"
  /\ finished' = [finished EXCEPT ![q.run] = TRUE]
  /\ noted' = [noted EXCEPT ![q.run] = @ \/ q.says]
  /\ Reply(q, "ok")
  /\ UNCHANGED <<queue, runnerId, heard, overdue, dispatches, found, logVars,
                 runnerVars, daemonVars, faults>>

\* The process dies under every handler: who waits gets no answer, and a
\* revocation between its statements never gets to the second.
PlaneRestarts ==
  /\ MayRestartPlane
  /\ faults < MaxFaults
  /\ faults' = faults + 1
  /\ net' = {q \in net : q.stage \in Answers} \cup
            {[q EXCEPT !.stage = "none"] : q \in {p \in net : p.live /\ p.stage \in Working}}
  /\ releasing' = {}
  /\ UNCHANGED <<jobVars, logVars, revoked, daemonVars>>
-----------------------------------------------------------------------------
(***************************************************************************)
(* The daemon.                                                             *)
(***************************************************************************)
\* Variant: events counted from 0.
CountsFromZero(m, point, why) ==
  /\ pc' = [pc EXCEPT ![m] = point]
  /\ note' = [note EXCEPT ![m] = why]
  /\ seq' = [seq EXCEPT ![m] = 0]
  /\ tries' = [tries EXCEPT ![m] = 0]
  /\ job' = [job EXCEPT ![m] = IF point \in {"idle", "stopped", "down"} THEN NoRun ELSE @]

\* Where the loop goes next, with what it remembers of the job.
Goto(m, point, why) ==
  /\ pc' = [pc EXCEPT ![m] = point]
  /\ note' = [note EXCEPT ![m] = why]
  /\ seq' = [seq EXCEPT ![m] = 1]
  /\ tries' = [tries EXCEPT ![m] = 0]
  /\ job' = [job EXCEPT ![m] = IF point \in {"idle", "stopped", "down"} THEN NoRun ELSE @]

\* Variant: `note` set by the drafting session only.
ThrowsSilently(m) == Goto(m, "finishing", "none")

\* execute() threw: logged, `note ??=`, and the job is finished all the same.
Throw(m) == Goto(m, "finishing", "threw")

\* What the loop sends next, given where it is.
SendNext(m) ==
  /\ ~Waiting(m)
  /\ \/ /\ pc[m] = "idle"
        /\ Send(m, "poll", NoRun, 0, FALSE)
        /\ Goto(m, "polling", "none")
     \/ /\ pc[m] = "minting"
        /\ Send(m, "token", job[m], 0, FALSE)
        /\ UNCHANGED daemonVars
     \/ /\ pc[m] = "shipping"
        /\ Send(m, "event", job[m], seq[m], FALSE)
        /\ UNCHANGED daemonVars
     \/ /\ pc[m] = "finding"
        /\ Send(m, "finding", job[m], 0, FALSE)
        /\ UNCHANGED daemonVars
     \/ /\ pc[m] = "finishing"
        /\ Send(m, "finish", job[m], 0, note[m] # "none")
        /\ UNCHANGED daemonVars
  /\ UNCHANGED <<jobVars, logVars, runnerVars, faults>>

\* Variant: an append that got no answer is taken for done.
SkipsUnanswered(m) ==
  CASE pc[m] = "polling" -> Goto(m, "idle", "none")
    [] pc[m] = "finishing" -> Goto(m, "idle", "none")
    [] pc[m] = "shipping" /\ seq[m] < MaxSeq ->
         /\ seq' = [seq EXCEPT ![m] = @ + 1]
         /\ UNCHANGED <<pc, job, tries, note>>
    [] OTHER -> Throw(m)

\* No answer, or a 5xx: an append is tried again, the other calls are not.
Unanswered(m) ==
  CASE pc[m] = "polling" -> Goto(m, "idle", "none")
    [] pc[m] = "finishing" -> Goto(m, "idle", "none")
    [] pc[m] = "shipping" /\ tries[m] + 1 < AppendAttempts ->
         /\ tries' = [tries EXCEPT ![m] = @ + 1]
         /\ UNCHANGED <<pc, job, seq, note>>
    [] OTHER -> Throw(m)

\* The answer arrives.
Hear(q) ==
  LET m == q.m IN
  /\ q.live /\ q.stage \in Answers
  /\ net' = net \ {q}
  /\ \/ q.stage = "none" /\ Unanswered(m)
     \/ q.op = "poll" /\ q.stage = "ok"
          /\ pc' = [pc EXCEPT ![m] = "minting"]
          /\ job' = [job EXCEPT ![m] = q.run]
          /\ UNCHANGED <<seq, tries, note>>
     \/ q.op = "poll" /\ q.stage = "empty" /\ Goto(m, "idle", "none")
     \/ q.op = "poll" /\ q.stage = "unpaired" /\ Goto(m, "stopped", "none")
     \/ q.op = "token" /\ q.stage = "ok"
          /\ Goto(m, IF Kind[q.run] = "run" THEN "shipping" ELSE "finding", "none")
     \/ q.op = "event" /\ q.stage = "ok" /\ seq[m] < MaxSeq
          /\ seq' = [seq EXCEPT ![m] = @ + 1]
          /\ tries' = [tries EXCEPT ![m] = 0]
          /\ UNCHANGED <<pc, job, note>>
     \/ q.op = "event" /\ q.stage = "ok" /\ Goto(m, "finishing", "none")
     \/ q.op = "finding" /\ q.stage = "ok" /\ Goto(m, "finishing", "none")
     \/ q.op \in {"token", "event", "finding"} /\ q.stage \in {"refused", "unpaired"}
          /\ Throw(m)
     \/ q.op = "finish" /\ q.stage \in {"ok", "refused", "unpaired"}
          /\ Goto(m, "idle", "none")
  /\ UNCHANGED <<jobVars, logVars, runnerVars, faults>>

\* A drafting session that proposes nothing says so; a prove job whose recipe
\* was withdrawn returns without a word.
NothingToReport(m) ==
  /\ pc[m] = "finding" /\ ~Waiting(m)
  /\ Goto(m, "finishing", IF Kind[job[m]] = "draft" THEN "declined" ELSE "none")
  /\ UNCHANGED <<jobVars, logVars, runnerVars, net, faults>>

\* A clone, a container or the engine fails.
ExecuteFails(m) ==
  /\ pc[m] \in {"minting", "shipping", "finding"} /\ ~Waiting(m)
  /\ Throw(m)
  /\ UNCHANGED <<jobVars, logVars, runnerVars, net, faults>>

\* Requests of m nobody waits for any more: the plane may never have got one,
\* or may still be working on it.
Abandon(m) ==
  \E kept \in SUBSET {q \in net : q.m = m /\ q.live /\ q.stage \in Working} :
    net' = {q \in net : ~(q.m = m /\ q.live)} \cup {[q EXCEPT !.live = FALSE] : q \in kept}

AnswerLost(m) ==
  /\ faults < MaxFaults
  /\ \E q \in net : q.m = m /\ q.live /\ q.op \in MayLose
  /\ faults' = faults + 1
  /\ Abandon(m)
  /\ Unanswered(m)
  /\ UNCHANGED <<jobVars, logVars, runnerVars>>

Crash(m) ==
  /\ faults < MaxFaults
  /\ pc[m] \in MayCrash \ {"down"}
  /\ faults' = faults + 1
  /\ Abandon(m)
  /\ Goto(m, "down", "none")
  /\ UNCHANGED <<jobVars, logVars, runnerVars>>

Boot(m) ==
  /\ pc[m] = "down"
  /\ Goto(m, "idle", "none")
  /\ UNCHANGED <<jobVars, logVars, runnerVars, net, faults>>
-----------------------------------------------------------------------------
Init ==
  /\ queue = <<>>
  /\ runnerId = [r \in Runs |-> NoRunner]
  /\ heard = [r \in Runs |-> FALSE]
  /\ overdue = [r \in Runs |-> FALSE]
  /\ dispatches = [r \in Runs |-> 0]
  /\ finished = [r \in Runs |-> FALSE]
  /\ noted = [r \in Runs |-> FALSE]
  /\ found = [r \in Runs |-> FALSE]
  /\ log = [r \in Runs |-> [s \in Seqs |-> NoEvent]]
  /\ shown = [r \in Runs |-> 0]
  /\ revoked = {}
  /\ releasing = {}
  /\ net = {}
  /\ pc = [m \in Machines |-> "idle"]
  /\ job = [m \in Machines |-> NoRun]
  /\ seq = [m \in Machines |-> 1]
  /\ tries = [m \in Machines |-> 0]
  /\ note = [m \in Machines |-> "none"]
  /\ faults = 0

Handle(q) ==
  \/ VerifyRunner(q) \/ ClaimJob(q) \/ PollExpires(q) \/ Authorize(q)
  \/ InsertEvent(q) \/ ProjectRead(q) \/ ProjectWrite(q)
  \/ StoreFinding(q) \/ FinishJob(q)

Daemon(m) ==
  \/ SendNext(m) \/ NothingToReport(m) \/ ExecuteFails(m)
  \/ AnswerLost(m) \/ Crash(m) \/ Boot(m)

Next ==
  \/ \E r \in Runs : EnqueueJob(r) \/ GraceElapses(r)
  \/ \E t \in Runners : RevokeRunner(t) \/ ReleaseJobs(t)
  \/ \E q \in net : Handle(q) \/ Hear(q)
  \/ \E m \in Machines : Daemon(m)
  \/ PlaneRestarts

Spec == Init /\ [][Next]_vars

\* The plane keeps serving, a waiting daemon reads what it is sent, a machine that
\* went down comes back (Fly restarts it), the operator's revocation runs to its end
\* and the clock moves.  Nobody has to revoke, crash, lose or throw anything.
Fairness ==
  /\ \A r \in Runs : WF_vars(EnqueueJob(r)) /\ WF_vars(GraceElapses(r))
  /\ \A t \in Runners : WF_vars(ReleaseJobs(t))
  /\ \A m \in Machines :
       /\ WF_vars(\E q \in net : q.m = m /\ q.live /\ Handle(q))
       /\ WF_vars(\E q \in net : q.m = m /\ q.live /\ Hear(q))
       /\ WF_vars(SendNext(m))
       /\ WF_vars(Boot(m))

FairSpec == Spec /\ Fairness
-----------------------------------------------------------------------------
(***************************************************************************)
(* Properties.                                                             *)
(***************************************************************************)
Recorded(r, s) == log[r][s] # NoEvent
AuthorOf(r, s) == TokenOf[log[r][s]]

(* appendFromRunner: the log of a run has one author.  Two runners may both
   have events in it only if one of them has been revoked: the gap between the
   authorization and the insert is otherwise harmless. *)
OneVoice ==
  \A r \in Runs : \A a, b \in Seqs :
    /\ Recorded(r, a) /\ Recorded(r, b)
    /\ AuthorOf(r, a) \notin revoked /\ AuthorOf(r, b) \notin revoked
    => AuthorOf(r, a) = AuthorOf(r, b)

(* claimJob's reclaim: whatever was lost, slept through or reclaimed, two
   runners that both still hold a valid token are never both past the token
   mint of one run, so at most one of them clones, spends and reports. *)
OneWorkerPastMint ==
  \A a, b \in Machines :
    /\ pc[a] \in {"shipping", "finding"} /\ pc[b] \in {"shipping", "finding"}
    /\ job[a] = job[b]
    /\ TokenOf[a] \notin revoked /\ TokenOf[b] \notin revoked
    => TokenOf[a] = TokenOf[b]

(* appendFromRunner, "idempotent" and "immutable" together: every event the
   plane has acknowledged to a daemon that is still shipping is in the log with
   the payload that daemon sent, however many times it was retried and whoever
   else was writing. *)
AckedIsRecorded ==
  \A m \in Machines : pc[m] = "shipping" =>
    \A s \in 1..(seq[m] - 1) :
      Recorded(job[m], s) /\ SamePayload(s, log[job[m]][s], m)

(* The daemon's append gives up rather than skip: what is recorded of a run is
   a stream fold() accepts, starting at 1 and without a gap. *)
NoGaps == \A r \in Runs : Foldable(r)

(* daemon.ts, `note`: a drafting job that is over and has stored no draft says
   on its row why the box is empty. *)
EmptyBoxIsExplained ==
  \A r \in Runs : Kind[r] = "draft" /\ finished[r] /\ ~found[r] => noted[r]

(* What MAX_DISPATCHES really bounds: a job is handed out at most that often,
   once more for every runner whose revocation put it back. *)
DispatchBudget ==
  \A r \in Runs : dispatches[r] <= MaxDispatches + Cardinality(revoked)

\* Every machine is paired on its own; the plane's own workers share one token.
TokensAreOwn == \A a, b \in Machines : TokenOf[a] = TokenOf[b] => a = b

(* runner-api.ts, the events route: when nothing failed and nobody was revoked,
   a run that is over and has no request in flight is on the dashboard as the
   log has it, provided it was handed out once or machines have tokens of their
   own.  Two machines that share a token may both ship a reclaimed run, and the
   older of two overlapping projections may be the one that is saved last. *)
DashboardCatchesUp ==
  \A r \in Runs :
    /\ faults = 0 /\ revoked = {}
    /\ dispatches[r] <= 1 \/ TokensAreOwn
    /\ finished[r] /\ ~\E q \in net : q.run = r
    => shown[r] = Rows(r)

(* The log as everybody else relies on it. *)
Ledger == INSTANCE RunLog WITH log <- log, revoked <- revoked
ImplementsRunLog == Ledger!LogSpec

(* plane.ts, daemon.ts: as long as daemons are prompt, nothing dies past the
   token mint and only hand-overs and appends lose their answers, every job that
   is queued is over one day: reclaim rescues the job nobody came for, and a
   revocation puts back what its runner held without having started it.  What a
   revoked runner did start waits for a person, and so may what it held when an
   answer was lost as well. *)
EveryJobEnds ==
  \A r \in Runs :
    Queued(r) ~> (finished[r] \/ (revoked # {} /\ (Started(r) \/ faults > 0)))
=============================================================================
