------------------------------ MODULE LiveView ------------------------------
(***************************************************************************)
(* One run watched from a browser while its worker is still writing it:    *)
(* the log and its projected row (src/src/store.ts, readmodel.ts), the     *)
(* tail behind the event stream (sse.ts), the evidence route (routes.ts)   *)
(* and the page that puts the two together (src/web/lib/hooks.ts,          *)
(* src/web/components/views/Run.tsx).                                      *)
(*                                                                         *)
(* One database statement, one HTTP answer and one delivered frame is a    *)
(* step.  A tail reads, then writes what it read, and its client may have  *)
(* gone in between; the page's read of the verdict is two statements on    *)
(* the plane, of which the first reads a cache.                            *)
(*                                                                         *)
(* Failures covered: a connection that drops with frames still on it while *)
(* the server has not noticed, a session that has expired, a read that     *)
(* answers with an error, a projection that is not written, an operator's  *)
(* `rebuild` beside the worker.  Abstracted: payloads (an event is what it *)
(* means to the page), the wall clock (one bit: less than 1200 ms since    *)
(* the last reload), keep-alive frames and empty polls, which change       *)
(* nothing a client sees, and the second identical run page.               *)
(***************************************************************************)
EXTENDS Integers, Sequences, FiniteSets

CONSTANTS
  Scripts,     \* the logs a worker may write, as sequences of classes
  Written,     \* how much of it is written and projected when the page opens
  MaxFaults,   \* bound: drops, refusals, failed reads and projections, rebuilds
  MayFail      \* which of them may happen

\* What an event is to the page: it moves the verdict, it ends the run, or it is
\* one of the many that only lengthen the timeline.
Classes == {"plain", "moves", "end"}
Failures == {"drop", "refuse", "read", "project", "rebuild"}

ASSUME LiveViewAssumption ==
  /\ \A s \in Scripts : s \in Seq(Classes) /\ s # <<>>
  /\ Written \in Nat
  /\ \A s \in Scripts : Written <= Len(s)
  /\ MaxFaults \in Nat
  /\ MayFail \subseteq Failures

VARIABLES
  script,   \* what this run's worker writes
  \* the plane
  log,      \* events inserted
  row,      \* events run_projection was folded from; 0: no row
  handler,  \* the events request: between insert, read and save of projectOne
  rebuild,  \* the operator's rebuildProjection
  tails,    \* the tail behind each connection
  wire,     \* frames written to each connection and not yet received
  hung,     \* connections whose closing the server has not heard of
  asks,     \* evidence requests somebody waits for, worked on or answered
  \* the page
  es,       \* the EventSource
  cur,      \* its connection
  lastId,   \* what it would send as Last-Event-ID
  given,    \* frames its listeners were called with
  recent,   \* the evidence was re-read less than 1200 ms ago
  evidence, \* the answer on screen
  stored,   \* events in the snapshot of the log; -1: not read, or refused
  faults

planeVars == <<log, row, handler, rebuild>>
streamVars == <<tails, wire, hung>>
sourceVars == <<es, cur, lastId, given>>
pageVars == <<recent, evidence, stored>>
vars == <<script, planeVars, streamVars, asks, sourceVars, pageVars, faults>>

Conns == 1..(MaxFaults + 1)
Seqs == 0..Len(script)

TypeOK ==
  /\ log \in Seqs /\ row \in Seqs
  /\ handler \in [stage : {"idle", "read", "save"}, rows : Seqs]
  /\ rebuild \in [stage : {"off", "list", "read", "save", "done"}, rows : Seqs]
  /\ tails \in [Conns -> [stage : {"unused", "authorizing", "tailing", "reading", "gone"},
                          after : Seqs, upto : Seqs, connected : BOOLEAN]]
  /\ wire \in [Conns -> Seq(Seqs)]
  /\ hung \subseteq Conns
  /\ asks \subseteq [stage : {"sent", "looked", "answered"}, row : Seqs, log : Seqs]
  /\ es \in {"connecting", "open", "retrying", "lost", "closed", "unmounted"}
  /\ cur \in Conns
  /\ lastId \in Seqs
  /\ given \in Seq(Seqs)
  /\ recent \in BOOLEAN
  /\ evidence \in [is : {"none", "shown", "failed", "crashed"}, row : Seqs, log : Seqs]
  /\ stored \in -1..Len(script)
  /\ faults \in 0..MaxFaults

Fault(kind) == kind \in MayFail /\ faults < MaxFaults /\ faults' = faults + 1

Holds(n, class) == \E i \in 1..n : script[i] = class
-----------------------------------------------------------------------------
(***************************************************************************)
(* The worker's events and the row folded from them.                       *)
(***************************************************************************)
\* The daemon ships one event and waits for the answer, which comes after projectOne.
AppendEvent ==
  /\ log < Len(script)
  /\ handler.stage = "idle"
  /\ log' = log + 1
  /\ handler' = [handler EXCEPT !.stage = "read"]
  /\ UNCHANGED <<script, row, rebuild, streamVars, asks, sourceVars, pageVars, faults>>

\* projectOne, first half: readRun and the fold.
ProjectRead ==
  /\ handler.stage = "read"
  /\ handler' = [stage |-> "save", rows |-> log]
  /\ UNCHANGED <<script, log, row, rebuild, streamVars, asks, sourceVars, pageVars, faults>>

\* projectOne, second half: saveRunRow replaces whatever was there.
ProjectSave ==
  /\ handler.stage = "save"
  /\ row' = handler.rows
  /\ handler' = [stage |-> "idle", rows |-> 0]
  /\ UNCHANGED <<script, log, rebuild, streamVars, asks, sourceVars, pageVars, faults>>

\* Either query fails; the handler swallows it.
ProjectFails ==
  /\ handler.stage # "idle"
  /\ Fault("project")
  /\ handler' = [stage |-> "idle", rows |-> 0]
  /\ UNCHANGED <<script, log, row, rebuild, streamVars, asks, sourceVars, pageVars>>

\* rebuildProjection: delete every row, list the runs that have events, then
\* project each: a read and a save.
RebuildDeletes ==
  /\ rebuild.stage = "off"
  /\ Fault("rebuild")
  /\ row' = 0
  /\ rebuild' = [rebuild EXCEPT !.stage = "list"]
  /\ UNCHANGED <<script, log, handler, streamVars, asks, sourceVars, pageVars>>

RebuildProjects ==
  /\ \/ /\ rebuild.stage = "list"
        /\ rebuild' = [rebuild EXCEPT !.stage = IF log = 0 THEN "done" ELSE "read"]
        /\ UNCHANGED row
     \/ /\ rebuild.stage = "read"
        /\ rebuild' = [stage |-> "save", rows |-> log]
        /\ UNCHANGED row
     \/ /\ rebuild.stage = "save"
        /\ row' = rebuild.rows
        /\ rebuild' = [stage |-> "done", rows |-> 0]
  /\ UNCHANGED <<script, log, handler, streamVars, asks, sourceVars, pageVars, faults>>
-----------------------------------------------------------------------------
(***************************************************************************)
(* The tail.                                                               *)
(***************************************************************************)
\* The authorizer answered; a client that hung up meanwhile is not tailed for.
Authorize(c) ==
  /\ tails[c].stage = "authorizing"
  /\ tails' = [tails EXCEPT ![c].stage = IF tails[c].connected THEN "tailing" ELSE "gone"]
  /\ es' = IF tails[c].connected /\ c = cur /\ es = "connecting" THEN "open" ELSE es
  /\ UNCHANGED <<script, planeVars, wire, hung, asks, cur, lastId, given, pageVars, faults>>

\* 401, 404 or 500 before the headers: the browser does not come back.
Refuse(c) ==
  /\ tails[c].stage = "authorizing" /\ tails[c].connected
  /\ Fault("refuse")
  /\ tails' = [tails EXCEPT ![c].stage = "gone"]
  /\ es' = IF c = cur /\ es = "connecting" THEN "lost" ELSE es
  /\ UNCHANGED <<script, planeVars, wire, hung, asks, cur, lastId, given, pageVars>>

\* readRunAfter.  A poll that finds nothing is a stutter.
TailRead(c) ==
  /\ tails[c].stage = "tailing" /\ tails[c].connected
  /\ log > tails[c].after
  /\ tails' = [tails EXCEPT ![c].stage = "reading", ![c].upto = log]
  /\ UNCHANGED <<script, planeVars, wire, hung, asks, sourceVars, pageVars, faults>>

\* The loop over what was read: written only to a client still there.
TailWrite(c) ==
  LET t == tails[c]
      frames == [i \in 1..(t.upto - t.after) |-> t.after + i]
  IN /\ t.stage = "reading"
     /\ wire' = [wire EXCEPT ![c] = IF t.connected THEN @ \o frames ELSE @]
     /\ tails' = [tails EXCEPT ![c].stage = "tailing", ![c].after = t.upto]
     /\ UNCHANGED <<script, planeVars, hung, asks, sourceVars, pageVars, faults>>

TailStops(c) ==
  /\ tails[c].stage = "tailing" /\ ~tails[c].connected
  /\ tails' = [tails EXCEPT ![c].stage = "gone"]
  /\ UNCHANGED <<script, planeVars, wire, hung, asks, sourceVars, pageVars, faults>>

\* The `close` listeners, attached before the authorizer is awaited.
HearClose(c) ==
  /\ c \in hung
  /\ hung' = hung \ {c}
  /\ tails' = [tails EXCEPT ![c].connected = FALSE]
  /\ UNCHANGED <<script, planeVars, wire, asks, sourceVars, pageVars, faults>>
-----------------------------------------------------------------------------
(***************************************************************************)
(* The plane's answer to a reload of the evidence: the row, then the log.  *)
(***************************************************************************)
LookAtRow(q) ==
  /\ q \in asks /\ q.stage = "sent"
  /\ asks' = (asks \ {q}) \cup
       {IF row = 0 THEN [q EXCEPT !.stage = "answered"]
                   ELSE [q EXCEPT !.stage = "looked", !.row = row]}
  /\ UNCHANGED <<script, planeVars, streamVars, sourceVars, pageVars, faults>>

FoldTheLog(q) ==
  /\ q \in asks /\ q.stage = "looked"
  /\ asks' = (asks \ {q}) \cup {[q EXCEPT !.stage = "answered", !.log = log]}
  /\ UNCHANGED <<script, planeVars, streamVars, sourceVars, pageVars, faults>>
-----------------------------------------------------------------------------
(***************************************************************************)
(* The page.                                                               *)
(***************************************************************************)
Mounted == es # "unmounted"
Streaming == es \in {"connecting", "open"}

\* logEnded: proof that nothing is left to stream.
LogEnded ==
  \/ stored > 0 /\ Holds(stored, "end")
  \/ evidence.is = "shown" /\ Holds(evidence.row, "end")

ConnectFromStart(id) ==
  /\ cur < MaxFaults + 1
  /\ cur' = cur + 1
  /\ tails' = [tails EXCEPT ![cur + 1] =
                 [stage |-> "authorizing", after |-> 0, upto |-> 0, connected |-> TRUE]]
  /\ es' = "connecting"

\* A new EventSource, or a reconnection by the browser, with the last id it has.
Connect(id) ==
  /\ cur < MaxFaults + 1
  /\ cur' = cur + 1
  /\ tails' = [tails EXCEPT ![cur + 1] =
                 [stage |-> "authorizing", after |-> id, upto |-> 0, connected |-> TRUE]]
  /\ es' = "connecting"

\* The network drops the connection; what was on it is lost.
Drop ==
  /\ Streaming
  /\ Fault("drop")
  /\ es' = "retrying"
  /\ wire' = [wire EXCEPT ![cur] = <<>>]
  /\ hung' = hung \cup {cur}
  /\ UNCHANGED <<script, planeVars, tails, asks, cur, lastId, given, pageVars>>

Reconnect ==
  /\ es = "retrying"
  /\ Connect(lastId)
  /\ UNCHANGED <<script, planeVars, wire, hung, asks, lastId, given, pageVars, faults>>

Sent == [stage |-> "sent", row |-> 0, log |-> 0]

\* Without the abort.
ReloadBeside == asks' = asks \cup {Sent}

\* useJson's reload: the request before it is aborted, and its answer never heard.
Reload == asks' = {Sent}

\* The same throttle without the exception.
ThrottleAll(class) ==
  IF class = "plain" \/ recent
  THEN UNCHANGED <<asks, recent>>
  ELSE Reload /\ recent' = TRUE

\* onMeaningful: anything but the last event waits for the next reload.
OnMeaningful(class) ==
  IF class = "plain" \/ (class # "end" /\ recent)
  THEN UNCHANGED <<asks, recent>>
  ELSE Reload /\ recent' = TRUE

\* A frame arrives: collected once, and the fold re-read when it has moved.
OnFrame ==
  /\ es = "open" /\ wire[cur] # <<>>
  /\ LET seq == Head(wire[cur])
     IN /\ given' = Append(given, seq)
        /\ lastId' = seq
        /\ OnMeaningful(script[seq])
  /\ wire' = [wire EXCEPT ![cur] = Tail(@)]
  /\ UNCHANGED <<script, planeVars, tails, hung, es, cur, evidence, stored, faults>>

\* A run without a row answers 202 with a body that has neither `row` nor `state`, and
\* `Run` reads through both before it looks at the status: the screen cannot be drawn
\* and its effects are undone.
EvidenceArrives(q) ==
  /\ q \in asks /\ q.stage = "answered"
  /\ asks' = asks \ {q}
  /\ IF q.row = 0
     THEN /\ evidence' = [is |-> "crashed", row |-> 0, log |-> 0]
          /\ es' = "unmounted"
          /\ wire' = [wire EXCEPT ![cur] = <<>>]
          /\ hung' = IF Streaming THEN hung \cup {cur} ELSE hung
     ELSE /\ evidence' = [is |-> "shown", row |-> q.row, log |-> q.log]
          /\ UNCHANGED <<es, wire, hung>>
  /\ UNCHANGED <<script, planeVars, tails, cur, lastId, given, recent, stored, faults>>

\* The answer is an error: it is said on screen, with a button.
ReadFails(q) ==
  /\ q \in asks
  /\ Fault("read")
  /\ asks' = asks \ {q}
  /\ evidence' = [is |-> "failed", row |-> 0, log |-> 0]
  /\ UNCHANGED <<script, planeVars, streamVars, sourceVars, recent, stored>>

Retry ==
  /\ evidence.is = "failed" /\ asks = {}
  /\ Reload
  /\ UNCHANGED <<script, planeVars, streamVars, sourceVars, recent, evidence, stored, faults>>

\* The unconditional snapshot of the log; without a row it is a 404.
StoredArrives ==
  /\ stored = -1 /\ row # 0 /\ Mounted
  /\ stored' = log
  /\ UNCHANGED <<script, planeVars, streamVars, asks, sourceVars, recent, evidence, faults>>

\* useTail(null): the effect's cleanup closes the socket.
CloseStream ==
  /\ es \in {"connecting", "open", "retrying"} /\ LogEnded
  /\ es' = "closed"
  /\ wire' = [wire EXCEPT ![cur] = <<>>]
  /\ hung' = IF Streaming THEN hung \cup {cur} ELSE hung
  /\ UNCHANGED <<script, planeVars, tails, asks, cur, lastId, given, pageVars, faults>>

\* ... and the effect again, from nothing, should the proof be withdrawn.
ReopenStream ==
  /\ es = "closed" /\ ~LogEnded
  /\ Connect(0)
  /\ given' = <<>> /\ lastId' = 0
  /\ UNCHANGED <<script, planeVars, wire, hung, asks, pageVars, faults>>

Tick ==
  /\ recent
  /\ recent' = FALSE
  /\ UNCHANGED <<script, planeVars, streamVars, asks, sourceVars, evidence, stored, faults>>
-----------------------------------------------------------------------------
\* The page has just been opened on a run of which `Written` events exist.
Init ==
  /\ script \in Scripts
  /\ log = Written /\ row = Written
  /\ handler = [stage |-> "idle", rows |-> 0]
  /\ rebuild = [stage |-> "off", rows |-> 0]
  /\ tails = [c \in Conns |-> [stage |-> IF c = 1 THEN "authorizing" ELSE "unused",
                               after |-> 0, upto |-> 0, connected |-> TRUE]]
  /\ wire = [c \in Conns |-> <<>>]
  /\ hung = {}
  /\ asks = {[stage |-> "sent", row |-> 0, log |-> 0]}
  /\ es = "connecting" /\ cur = 1 /\ lastId = 0 /\ given = <<>>
  /\ recent = FALSE
  /\ evidence = [is |-> "none", row |-> 0, log |-> 0]
  /\ stored = -1
  /\ faults = 0

Worker == AppendEvent \/ ProjectRead \/ ProjectSave

TailSteps(c) == Authorize(c) \/ TailRead(c) \/ TailWrite(c) \/ TailStops(c)

Answers == \E q \in asks : LookAtRow(q) \/ FoldTheLog(q) \/ EvidenceArrives(q)

Page == OnFrame \/ Reconnect \/ CloseStream \/ ReopenStream

Next ==
  \/ Worker \/ ProjectFails \/ RebuildDeletes \/ RebuildProjects
  \/ \E c \in Conns : TailSteps(c) \/ Refuse(c) \/ HearClose(c)
  \/ Answers \/ (\E q \in asks : ReadFails(q))
  \/ Page \/ Drop \/ Retry \/ StoredArrives \/ Tick

Spec == Init /\ [][Next]_vars

\* The worker goes on, the plane answers what it was asked, a tail goes on, a
\* closed connection is heard of, the browser retries, and React runs its effects.
\* Nobody has to press a button, and the snapshot may be refused for ever.
Fairness ==
  /\ WF_vars(Worker) /\ WF_vars(RebuildProjects) /\ WF_vars(Page) /\ WF_vars(Tick)
  /\ WF_vars(Answers)
  /\ \A c \in 1..(MaxFaults + 1) : WF_vars(TailSteps(c)) /\ WF_vars(HearClose(c))

FairSpec == Spec /\ Fairness
-----------------------------------------------------------------------------
(* sse.ts, "no missed and no duplicated events": what the page's listeners are
   called with is the log from its first event, in order, each once, across
   drops in which the server may still be writing to the old connection. *)
Feed == INSTANCE EventFeed WITH published <- log, given <- given
ImplementsEventFeed == Feed!FeedSpec

(* hooks.ts, useJson: an early slow answer never replaces a later one, so the
   verdict on screen never goes back to a shorter log. *)
VerdictNeverGoesBack ==
  [][evidence.is = "shown" /\ evidence'.is = "shown" => evidence.log <= evidence'.log]_vars

Troubled == evidence.is \in {"failed", "crashed"} \/ es = "lost"

(* hooks.ts, FINAL: the throttle never swallows the last event.  A page that was
   given the end of a run shows the verdict of its whole log, or says what is
   wrong: that the read failed, or that it is not connected. *)
LastFrameBringsTheVerdict ==
  (given # <<>> /\ given[Len(given)] = Len(script))
    ~> (evidence.log = Len(script) \/ Troubled)
=============================================================================
