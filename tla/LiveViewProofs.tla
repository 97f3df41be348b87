---------------------------- MODULE LiveViewProofs ----------------------------
(***************************************************************************)
(* The live view, proved for any log, any number of connections and any    *)
(* failures: what the page's listeners are given, and that the verdict on  *)
(* screen never goes back.                                                 *)
(***************************************************************************)
EXTENDS LiveView, SequenceTheorems, TLAPS

-----------------------------------------------------------------------------
(***************************************************************************)
(* The stream.                                                             *)
(***************************************************************************)
TailRecord == [stage : {"unused", "authorizing", "tailing", "reading", "gone"},
               after : Nat, upto : Nat, connected : BOOLEAN]

StreamTyped ==
  /\ log \in Nat /\ cur \in Conns
  /\ tails \in [Conns -> TailRecord]
  /\ wire \in [Conns -> Seq(Nat)]
  /\ hung \subseteq Conns
  /\ given \in Seq(Nat) /\ lastId = Len(given) /\ lastId <= log

\* A tail is never ahead of the log.
TailsFollow ==
  \A c \in Conns :
    /\ tails[c].after <= log
    /\ tails[c].stage = "reading" => tails[c].after <= tails[c].upto /\ tails[c].upto <= log

\* A connection not made yet has nothing on it.
FreshOnes ==
  \A c \in Conns : c > cur =>
    tails[c].stage = "unused" /\ tails[c].after = 0 /\ wire[c] = <<>> /\ c \notin hung

\* What is on the page's connection is what comes next, up to where its tail has written.
\* Only a connection the page has left can be written to in vain.
Continues ==
  Streaming =>
    /\ tails[cur].connected /\ cur \notin hung
    /\ lastId + Len(wire[cur]) = tails[cur].after
    /\ \A i \in 1..Len(wire[cur]) : wire[cur][i] = lastId + i

StreamInv == StreamTyped /\ TailsFollow /\ FreshOnes /\ Continues

LEMMA ConnsAreNat == Conns \subseteq Nat /\ 1 \in Conns
BY LiveViewAssumption DEF Conns

\* What no step but the stream's own touches.
LEMMA StreamUntouched ==
  ASSUME StreamInv, UNCHANGED <<tails, wire, hung, sourceVars>>, log' \in Nat, log <= log'
  PROVE  StreamInv'
<1>. USE DEF sourceVars
<1>1. StreamTyped'
  BY DEF StreamInv, StreamTyped
<1>2. TailsFollow'
  BY DEF StreamInv, StreamTyped, TailsFollow, TailRecord
<1>3. FreshOnes' /\ Continues'
  BY DEF StreamInv, FreshOnes, Continues, Streaming
<1> QED BY <1>1, <1>2, <1>3 DEF StreamInv

\* The page leaves its connection: what was on it is lost, and the server may not know yet.
LEMMA StreamLeft ==
  ASSUME StreamInv, ~Streaming',
         wire' = [wire EXCEPT ![cur] = <<>>], hung' \in {hung, hung \cup {cur}},
         UNCHANGED <<log, tails, cur, lastId, given>>
  PROVE  StreamInv'
<1>1. StreamTyped'
  BY DEF StreamInv, StreamTyped
<1>2. TailsFollow' /\ FreshOnes'
  BY ConnsAreNat DEF StreamInv, StreamTyped, TailsFollow, FreshOnes
<1> QED BY <1>1, <1>2 DEF StreamInv, Continues

\* A new connection, from what the page has.
LEMMA StreamConnects ==
  ASSUME StreamInv, Connect(lastId'), given' \in Seq(Nat), lastId' = Len(given'), lastId' <= log,
         UNCHANGED <<log, wire, hung>>
  PROVE  StreamInv'
<1>. DEFINE new == [stage |-> "authorizing", after |-> lastId', upto |-> 0, connected |-> TRUE]
<1>1. /\ cur \in Nat /\ cur' = cur + 1 /\ cur' \in Conns /\ MaxFaults \in Nat
      /\ tails' = [tails EXCEPT ![cur'] = new] /\ es' = "connecting"
  BY LiveViewAssumption DEF Connect, Conns, StreamInv, StreamTyped
<1>2. lastId' \in Nat /\ new \in TailRecord
  BY DEF TailRecord
<1>3. /\ new.after = lastId' /\ new.connected /\ new.stage = "authorizing"
  OBVIOUS
<1>4. /\ cur' \notin hung /\ wire[cur'] = <<>>
  BY <1>1 DEF StreamInv, FreshOnes
<1> HIDE DEF new
<1>5. StreamTyped'
  BY <1>1, <1>2 DEF StreamInv, StreamTyped
<1>6. TailsFollow'
  BY <1>1, <1>2, <1>3 DEF StreamInv, StreamTyped, TailsFollow
<1>7. FreshOnes'
  BY <1>1, ConnsAreNat DEF StreamInv, StreamTyped, FreshOnes
<1>8. Continues'
  <2>1. tails'[cur'] = new
    BY <1>1 DEF StreamInv, StreamTyped
  <2> QED BY <1>1, <1>2, <1>3, <1>4, <2>1 DEF Continues
<1> QED BY <1>5, <1>6, <1>7, <1>8 DEF StreamInv

LEMMA StreamStep == StreamInv /\ [Next]_vars => StreamInv'
<1>. SUFFICES ASSUME StreamInv, [Next]_vars PROVE StreamInv'
  OBVIOUS
<1>0. log \in Nat /\ cur \in Nat
  BY ConnsAreNat DEF StreamInv, StreamTyped
<1>. USE ConnsAreNat
<1>1. ASSUME NEW c \in Conns, TailSteps(c) \/ Refuse(c) \/ HearClose(c) PROVE StreamInv'
  <2>0. /\ UNCHANGED <<log, cur, lastId, given>>
        /\ es' \in {es, "open", "lost"} /\ (es' = "open" => Streaming)
    BY <1>1 DEF TailSteps, Authorize, Refuse, TailRead, TailWrite, TailStops, HearClose,
                planeVars, sourceVars, Streaming
  <2>01. tails \in [Conns -> TailRecord] /\ tails[c] \in TailRecord
    BY DEF StreamInv, StreamTyped
  <2>1. CASE Authorize(c) \/ Refuse(c) \/ TailStops(c)
    <3>1. PICK stage \in {"tailing", "gone"} : tails' = [tails EXCEPT ![c].stage = stage]
      BY <2>1 DEF Authorize, Refuse, TailStops
    <3>2. tails[c].stage # "unused" /\ UNCHANGED <<wire, hung>>
      BY <2>1 DEF Authorize, Refuse, TailStops
    <3>3. /\ tails' \in [Conns -> TailRecord] /\ tails'[c].stage = stage
          /\ \A d \in Conns : /\ tails'[d].after = tails[d].after /\ tails'[d].upto = tails[d].upto
                              /\ tails'[d].connected = tails[d].connected
                              /\ d # c => tails'[d] = tails[d]
      BY <2>01, <3>1 DEF TailRecord
    <3>4. StreamTyped' /\ FreshOnes'
      BY <2>0, <3>2, <3>3 DEF StreamInv, StreamTyped, FreshOnes
    <3>5. TailsFollow'
      BY <2>0, <3>3 DEF StreamInv, TailsFollow
    <3>6. Streaming' => Streaming
      BY <2>0 DEF Streaming
    <3>7. Continues'
      BY <2>0, <3>2, <3>3, <3>6 DEF StreamInv, StreamTyped, Continues
    <3> QED BY <3>4, <3>5, <3>7 DEF StreamInv
  <2>2. CASE TailRead(c)
    <3>1. /\ tails' = [tails EXCEPT ![c].stage = "reading", ![c].upto = log]
          /\ tails[c].stage = "tailing" /\ log > tails[c].after
          /\ UNCHANGED <<wire, hung, es>>
      BY <2>2 DEF TailRead, sourceVars
    <3>2. /\ tails' \in [Conns -> TailRecord] /\ tails'[c].stage = "reading" /\ tails'[c].upto = log
          /\ \A d \in Conns : /\ tails'[d].after = tails[d].after
                              /\ tails'[d].connected = tails[d].connected
                              /\ d # c => tails'[d] = tails[d]
      BY <1>0, <2>01, <3>1 DEF TailRecord
    <3>3. StreamTyped' /\ FreshOnes'
      BY <2>0, <3>1, <3>2 DEF StreamInv, StreamTyped, FreshOnes
    <3>4. TailsFollow'
      <4>1. log' = log /\ tails[c].after <= log
        BY <2>0 DEF StreamInv, TailsFollow
      <4>2. tails'[c].after <= tails'[c].upto /\ tails'[c].upto <= log
        BY <1>0, <3>2, <4>1
      <4>3. ASSUME NEW d \in Conns, d # c PROVE tails'[d] = tails[d]
        BY <3>2, <4>3
      <4> QED BY <3>2, <4>1, <4>2, <4>3 DEF StreamInv, TailsFollow
    <3>5. Continues'
      BY <2>0, <3>1, <3>2 DEF StreamInv, StreamTyped, Continues, Streaming
    <3> QED BY <3>3, <3>4, <3>5 DEF StreamInv
  <2>3. CASE TailWrite(c)
    <3>. DEFINE t == tails[c]
                frames == [i \in 1..(t.upto - t.after) |-> t.after + i]
    <3>1. /\ wire' = [wire EXCEPT ![c] = IF t.connected THEN @ \o frames ELSE @]
          /\ tails' = [tails EXCEPT ![c].stage = "tailing", ![c].after = t.upto]
          /\ t.stage = "reading" /\ UNCHANGED <<hung, es>>
      BY <2>3 DEF TailWrite, sourceVars
    <3>2. /\ t \in TailRecord /\ t.after <= t.upto /\ t.upto <= log
          /\ wire[c] \in Seq(Nat)
      BY <3>1 DEF StreamInv, StreamTyped, TailsFollow
    <3>3. /\ frames \in Seq(Nat) /\ Len(frames) = t.upto - t.after
          /\ \A i \in 1..Len(frames) : frames[i] = t.after + i
      <4>1. t.upto - t.after \in Nat /\ t.after \in Nat
        BY <3>2 DEF TailRecord
      <4> QED BY <4>1
    <3> HIDE DEF frames
    <3>4. /\ wire[c] \o frames \in Seq(Nat)
          /\ Len(wire[c] \o frames) = Len(wire[c]) + Len(frames)
          /\ \A i \in 1..(Len(wire[c]) + Len(frames)) :
               (wire[c] \o frames)[i] = IF i <= Len(wire[c]) THEN wire[c][i]
                                        ELSE frames[i - Len(wire[c])]
      BY <3>2, <3>3, ConcatProperties
    <3>5. StreamTyped' /\ TailsFollow' /\ FreshOnes'
      BY <1>0, <2>0, <3>1, <3>2, <3>4 DEF StreamInv, StreamTyped, TailsFollow, FreshOnes, TailRecord
    <3>6. ASSUME c # cur PROVE Continues'
      <4>1. /\ tails'[cur] = tails[cur] /\ wire'[cur] = wire[cur]
            /\ UNCHANGED <<cur, lastId, hung, es>>
        BY <2>0, <3>1, <3>6 DEF StreamInv, StreamTyped
      <4> QED BY <4>1 DEF StreamInv, Continues, Streaming
    <3>7. ASSUME c = cur, Streaming PROVE Continues'
      <4>1. /\ t.connected /\ cur \notin hung /\ lastId \in Nat /\ Len(wire[c]) \in Nat
            /\ lastId + Len(wire[c]) = t.after
            /\ \A i \in 1..Len(wire[c]) : wire[c][i] = lastId + i
        BY <3>2, <3>7, LenProperties DEF StreamInv, StreamTyped, Continues
      <4>2. /\ wire'[c] = wire[c] \o frames /\ tails'[c].after = t.upto /\ tails'[c].connected
            /\ UNCHANGED <<cur, lastId, hung>>
        BY <2>0, <3>1, <3>2, <4>1 DEF StreamInv, StreamTyped, TailRecord
      <4>0. t.after \in Nat /\ t.upto \in Nat
        BY <3>2 DEF TailRecord
      <4>3. Len(wire'[c]) = Len(wire[c]) + Len(frames) /\ lastId + Len(wire'[c]) = t.upto
        <5>1. Len(wire'[c]) = Len(wire[c]) + Len(frames)
          BY <3>4, <4>2
        <5> HIDE DEF t
        <5> QED BY <3>2, <3>3, <4>0, <4>1, <5>1
      <4>4. ASSUME NEW i \in 1..Len(wire'[c]) PROVE wire'[c][i] = lastId + i
        <5>1. CASE i <= Len(wire[c])
          BY <3>4, <4>1, <4>2, <4>3, <4>4, <5>1
        <5>2. CASE i > Len(wire[c])
          <6>1. i - Len(wire[c]) \in 1..Len(frames)
            <7>1. i \in 1..(Len(wire[c]) + Len(frames)) /\ Len(frames) \in Nat
              BY <3>3, <4>3, <4>4, LenProperties
            <7> HIDE DEF t
            <7> QED BY <4>1, <5>2, <7>1
          <6>2. wire'[c][i] = t.after + (i - Len(wire[c]))
            <7>1. wire'[c][i] = frames[i - Len(wire[c])]
              BY <3>4, <4>2, <4>3, <4>4, <5>2
            <7> QED BY <3>3, <6>1, <7>1
          <6> QED BY <3>2, <4>1, <6>1, <6>2 DEF TailRecord
        <5> QED BY <4>1, <5>1, <5>2
      <4> QED BY <3>7, <4>1, <4>2, <4>3, <4>4 DEF Continues
    <3> QED BY <3>1, <3>5, <3>6, <3>7 DEF StreamInv, Continues, Streaming
  <2>4. CASE HearClose(c)
    <3>1. /\ hung' = hung \ {c} /\ c \in hung
          /\ tails' = [tails EXCEPT ![c].connected = FALSE]
          /\ UNCHANGED <<wire, es>>
      BY <2>4 DEF HearClose, sourceVars
    <3>2. StreamTyped' /\ TailsFollow' /\ FreshOnes'
      BY <2>0, <3>1 DEF StreamInv, StreamTyped, TailsFollow, FreshOnes, TailRecord
    <3>3. Continues'
      BY <2>0, <3>1 DEF StreamInv, StreamTyped, Continues, Streaming, TailRecord
    <3> QED BY <3>2, <3>3 DEF StreamInv
  <2> QED BY <1>1, <2>1, <2>2, <2>3, <2>4 DEF TailSteps
<1>2. CASE OnFrame
  <2>1. /\ Streaming /\ wire[cur] # <<>> /\ es' = es
        /\ given' = Append(given, Head(wire[cur])) /\ lastId' = Head(wire[cur])
        /\ wire' = [wire EXCEPT ![cur] = Tail(@)]
        /\ UNCHANGED <<log, tails, hung, cur>>
    BY <1>2 DEF OnFrame, Streaming, planeVars
  <2>2. /\ wire[cur] \in Seq(Nat) /\ tails[cur].after <= log /\ tails[cur].after \in Nat
        /\ lastId + Len(wire[cur]) = tails[cur].after /\ lastId \in Nat
        /\ \A i \in 1..Len(wire[cur]) : wire[cur][i] = lastId + i
        /\ given \in Seq(Nat) /\ lastId = Len(given)
    BY <2>1 DEF StreamInv, StreamTyped, TailsFollow, Continues, TailRecord
  <2>3. /\ Len(wire[cur]) \in Nat \ {0} /\ Head(wire[cur]) = lastId + 1
        /\ Tail(wire[cur]) \in Seq(Nat) /\ Len(Tail(wire[cur])) = Len(wire[cur]) - 1
        /\ \A i \in 1..Len(Tail(wire[cur])) : Tail(wire[cur])[i] = wire[cur][i + 1]
    BY <2>1, <2>2, HeadTailProperties, EmptySeq
  <2>4. /\ given' \in Seq(Nat) /\ lastId' = Len(given') /\ lastId' <= log /\ lastId' = lastId + 1
    BY <1>0, <2>1, <2>2, <2>3
  <2>5. wire'[cur] = Tail(wire[cur]) /\ \A c \in Conns : c # cur => wire'[c] = wire[c]
    BY <2>1 DEF StreamInv, StreamTyped
  <2>6. StreamTyped' /\ TailsFollow' /\ FreshOnes'
    BY <1>0, <2>1, <2>3, <2>4, <2>5 DEF StreamInv, StreamTyped, TailsFollow, FreshOnes
  <2>7. Continues'
    <3>1. ASSUME NEW i \in 1..Len(Tail(wire[cur])) PROVE Tail(wire[cur])[i] = lastId + 1 + i
      <4>1. Len(Tail(wire[cur])) = Len(wire[cur]) - 1 /\ Len(wire[cur]) \in Nat
        BY <2>3
      <4>2. i + 1 \in 1..Len(wire[cur])
        BY <3>1, <4>1
      <4>3. Tail(wire[cur])[i] = wire[cur][i + 1] /\ wire[cur][i + 1] = lastId + (i + 1)
        BY <2>2, <2>3, <3>1, <4>2
      <4> QED BY <2>2, <3>1, <4>1, <4>3
    <3>2. lastId' + Len(Tail(wire[cur])) = tails[cur].after
      <4>1. lastId' = lastId + 1 /\ lastId \in Nat /\ Len(wire[cur]) \in Nat
            /\ lastId + Len(wire[cur]) = tails[cur].after
            /\ Len(Tail(wire[cur])) = Len(wire[cur]) - 1
        BY <2>2, <2>3, <2>4
      <4> QED BY <4>1
    <3>3. tails[cur].connected /\ cur \notin hung
      BY <2>1 DEF StreamInv, Continues
    <3>4. wire'[cur'] = Tail(wire[cur]) /\ tails'[cur'] = tails[cur] /\ hung' = hung /\ cur' = cur
      BY <2>1, <2>5
    <3> QED BY <2>4, <3>1, <3>2, <3>3, <3>4 DEF Continues
  <2> QED BY <2>6, <2>7 DEF StreamInv
<1>3. CASE Reconnect
  BY <1>3, StreamConnects DEF Reconnect, planeVars, StreamInv, StreamTyped
<1>4. CASE ReopenStream
  <2>1. /\ given' = <<>> /\ lastId' = 0 /\ Connect(lastId') /\ UNCHANGED <<log, wire, hung>>
    BY <1>4 DEF ReopenStream, planeVars
  <2> QED BY <1>0, <2>1, StreamConnects, EmptySeq
<1>5. CASE Drop \/ CloseStream
  <2>1. /\ es' \in {"retrying", "closed"} /\ wire' = [wire EXCEPT ![cur] = <<>>]
        /\ hung' \in {hung, hung \cup {cur}}
        /\ UNCHANGED <<log, tails, cur, lastId, given>>
    BY <1>5 DEF Drop, CloseStream, planeVars
  <2> QED BY <2>1, StreamLeft DEF Streaming
<1>6. ASSUME NEW q \in asks, EvidenceArrives(q) PROVE StreamInv'
  <2>1. CASE q.row = 0
    <3>1. /\ es' = "unmounted" /\ wire' = [wire EXCEPT ![cur] = <<>>]
          /\ hung' \in {hung, hung \cup {cur}}
          /\ UNCHANGED <<log, tails, cur, lastId, given>>
      BY <1>6, <2>1 DEF EvidenceArrives, planeVars
    <3> QED BY <3>1, StreamLeft DEF Streaming
  <2>2. CASE q.row # 0
    BY <1>0, <1>6, <2>2, StreamUntouched DEF EvidenceArrives, planeVars, sourceVars
  <2> QED BY <2>1, <2>2
<1>7. CASE AppendEvent
  BY <1>0, <1>7, StreamUntouched DEF AppendEvent, streamVars
<1>8. CASE UNCHANGED <<log, tails, wire, hung, sourceVars>>
  BY <1>0, <1>8, StreamUntouched
<1> QED BY <1>1, <1>2, <1>3, <1>4, <1>5, <1>6, <1>7, <1>8
        DEF Next, Worker, ProjectRead, ProjectSave, ProjectFails, RebuildDeletes, RebuildProjects,
            Answers, LookAtRow, FoldTheLog, ReadFails, Page, Retry, StoredArrives, Tick,
            vars, planeVars, streamVars, sourceVars

(* sse.ts, "no missed and no duplicated events", hooks.ts: whatever drops, refusals and
   reconnections there are, the page's listeners are called with the events of the log from
   the first one on, in order, each once. *)
THEOREM ListenersGetTheLog == Spec => ImplementsEventFeed
<1>1. Init => StreamInv /\ Feed!FeedInit
  <2>. SUFFICES ASSUME Init PROVE StreamInv /\ Feed!FeedInit
    OBVIOUS
  <2>1. log \in Nat /\ cur \in Conns /\ cur = 1 /\ given = <<>> /\ lastId = 0
    BY LiveViewAssumption, ConnsAreNat DEF Init
  <2>2. \A c \in Conns :
          /\ tails[c] = [stage |-> IF c = 1 THEN "authorizing" ELSE "unused",
                         after |-> 0, upto |-> 0, connected |-> TRUE]
          /\ tails[c] \in TailRecord
          /\ wire[c] = <<>>
    BY DEF Init, TailRecord
  <2>3. StreamTyped
    BY <2>1, <2>2, EmptySeq DEF Init, StreamTyped
  <2>4. TailsFollow /\ FreshOnes /\ Continues
    BY <2>1, <2>2, ConnsAreNat DEF Init, TailsFollow, FreshOnes, Continues
  <2> QED BY <2>1, <2>3, <2>4 DEF StreamInv, Feed!FeedInit
<1>2. StreamInv /\ [Next]_vars => [Feed!FeedNext]_<<log, given>>
  <2>. SUFFICES ASSUME StreamInv, [Next]_vars, ~UNCHANGED <<log, given>> PROVE Feed!FeedNext
    OBVIOUS
  <2>1. CASE AppendEvent
    BY <2>1 DEF AppendEvent, sourceVars, Feed!FeedNext, Feed!Publish
  <2>2. CASE OnFrame
    <3>1. /\ Streaming /\ wire[cur] # <<>> /\ wire[cur] \in Seq(Nat)
          /\ given' = Append(given, Head(wire[cur])) /\ log' = log
      BY <2>2 DEF OnFrame, Streaming, planeVars, StreamInv, StreamTyped
    <3>2. Len(wire[cur]) \in Nat \ {0}
      BY <3>1, EmptySeq
    <3>3. /\ Head(wire[cur]) = Len(given) + 1 /\ Len(given) < log
      BY <3>1, <3>2 DEF StreamInv, StreamTyped, TailsFollow, Continues, TailRecord
    <3> QED BY <3>1, <3>3 DEF Feed!FeedNext, Feed!Give
  <2>3. CASE ReopenStream
    BY <2>3 DEF ReopenStream, planeVars, Feed!FeedNext, Feed!StartOver
  <2>4. AppendEvent \/ OnFrame \/ ReopenStream
    <3>1. ASSUME NEW c \in Conns, TailSteps(c) \/ Refuse(c) \/ HearClose(c) PROVE FALSE
      BY <3>1 DEF TailSteps, Authorize, Refuse, TailRead, TailWrite, TailStops, HearClose,
                  planeVars, sourceVars
    <3>2. ASSUME NEW q \in asks,
                 LookAtRow(q) \/ FoldTheLog(q) \/ EvidenceArrives(q) \/ ReadFails(q)
          PROVE FALSE
      BY <3>2 DEF LookAtRow, FoldTheLog, EvidenceArrives, ReadFails, planeVars, sourceVars
    <3> QED BY <3>1, <3>2
          DEF Next, Worker, ProjectRead, ProjectSave, ProjectFails, RebuildDeletes,
              RebuildProjects, Answers, Page, Reconnect, CloseStream, Drop, Retry,
              StoredArrives, Tick, vars, planeVars, sourceVars
  <2> QED BY <2>1, <2>2, <2>3, <2>4
<1> QED BY <1>1, <1>2, StreamStep, PTL DEF Spec, ImplementsEventFeed, Feed!FeedSpec
-----------------------------------------------------------------------------
(***************************************************************************)
(* The verdict.                                                            *)
(***************************************************************************)
AskRecord == [stage : {"sent", "looked", "answered"}, row : Nat, log : Nat]

RowsTyped ==
  /\ log \in Nat /\ row \in Nat
  /\ handler \in [stage : {"idle", "read", "save"}, rows : Nat]
  /\ rebuild \in [stage : {"off", "list", "read", "save", "done"}, rows : Nat]
  /\ asks \subseteq AskRecord

\* Somebody waits for at most one answer, and it will not be older than what is shown.
OneAsked ==
  /\ \A p, q \in asks : p = q
  /\ \A q \in asks :
       /\ q.stage = "sent" => q.row = 0
       /\ q.stage = "answered" /\ q.row # 0 =>
            q.log <= log /\ (evidence.is = "shown" => evidence.log <= q.log)
  /\ evidence.is = "shown" => evidence.log \in Nat /\ evidence.log <= log

VerdictInv == RowsTyped /\ OneAsked

\* Nothing about the answers changes, but the log may grow.
LEMMA AsksUntouched ==
  ASSUME VerdictInv, RowsTyped', asks' = asks, evidence' = evidence, log <= log'
  PROVE  VerdictInv'
<1>1. ASSUME NEW q \in asks, q.stage = "answered", q.row # 0 PROVE q.log <= log'
  <2>1. q.log \in Nat /\ q.log <= log /\ log \in Nat /\ log' \in Nat
    BY <1>1 DEF VerdictInv, OneAsked, RowsTyped, AskRecord
  <2> QED BY <2>1
<1>2. ASSUME evidence.is = "shown" PROVE evidence.log \in Nat /\ evidence.log <= log'
  <2>1. evidence.log \in Nat /\ evidence.log <= log /\ log \in Nat /\ log' \in Nat
    BY <1>2 DEF VerdictInv, OneAsked, RowsTyped
  <2> QED BY <2>1
<1> QED BY <1>1, <1>2 DEF VerdictInv, OneAsked

\* A reload aborts the request before it.
LEMMA AskedAnew ==
  ASSUME VerdictInv, UNCHANGED <<log, row, handler, rebuild, evidence>>,
         asks' = {Sent} \/ asks' = asks
  PROVE  VerdictInv'
<1>1. Sent \in AskRecord /\ Sent.stage = "sent" /\ Sent.row = 0
  BY DEF Sent, AskRecord
<1>2. RowsTyped'
  BY <1>1 DEF VerdictInv, RowsTyped
<1>3. CASE asks' = asks
  <2>1. log <= log'
    BY DEF VerdictInv, RowsTyped
  <2> QED BY <1>2, <1>3, <2>1, AsksUntouched
<1>4. CASE asks' = {Sent}
  BY <1>1, <1>2, <1>4 DEF VerdictInv, OneAsked
<1> QED BY <1>3, <1>4

LEMMA VerdictStep == VerdictInv /\ [Next]_vars => VerdictInv'
<1>. SUFFICES ASSUME VerdictInv, [Next]_vars PROVE VerdictInv'
  OBVIOUS
<1>0. RowsTyped /\ log <= log /\ log <= log + 1
  BY DEF VerdictInv, RowsTyped
<1>1. ASSUME NEW q \in asks, LookAtRow(q) PROVE VerdictInv'
  <2>1. /\ q \in AskRecord /\ q.stage = "sent" /\ q.row = 0 /\ asks = {q} /\ row \in Nat
    BY <1>1 DEF LookAtRow, VerdictInv, OneAsked, RowsTyped
  <2>2. PICK p \in AskRecord :
          asks' = {p} /\ (\/ p.stage = "answered" /\ p.row = 0
                          \/ p.stage = "looked")
    <3>1. CASE row = 0
      <4>. DEFINE p == [q EXCEPT !.stage = "answered"]
      <4>1. asks' = {p}
        BY <1>1, <2>1, <3>1 DEF LookAtRow
      <4>2. p \in AskRecord /\ p.stage = "answered" /\ p.row = 0
        BY <2>1 DEF AskRecord
      <4> HIDE DEF p
      <4> QED BY <4>1, <4>2
    <3>2. CASE row # 0
      <4>. DEFINE p == [q EXCEPT !.stage = "looked", !.row = row]
      <4>1. asks' = {p}
        BY <1>1, <2>1, <3>2 DEF LookAtRow
      <4>2. p \in AskRecord /\ p.stage = "looked"
        BY <2>1 DEF AskRecord
      <4> HIDE DEF p
      <4> QED BY <4>1, <4>2
    <3> QED BY <3>1, <3>2
  <2>3. UNCHANGED <<log, row, handler, rebuild, evidence>>
    BY <1>1 DEF LookAtRow, planeVars, pageVars
  <2> QED BY <2>2, <2>3 DEF VerdictInv, OneAsked, RowsTyped
<1>2. ASSUME NEW q \in asks, FoldTheLog(q) PROVE VerdictInv'
  <2>1. /\ q \in AskRecord /\ asks = {q} /\ log \in Nat
    BY <1>2 DEF VerdictInv, OneAsked, RowsTyped
  <2>2. PICK p \in AskRecord : asks' = {p} /\ p.stage = "answered" /\ p.log = log
    <3>. DEFINE p == [q EXCEPT !.stage = "answered", !.log = log]
    <3>1. asks' = {p}
      BY <1>2, <2>1 DEF FoldTheLog
    <3>2. p \in AskRecord /\ p.stage = "answered" /\ p.log = log
      BY <2>1 DEF AskRecord
    <3> HIDE DEF p
    <3> QED BY <3>1, <3>2
  <2>3. UNCHANGED <<log, row, handler, rebuild, evidence>>
    BY <1>2 DEF FoldTheLog, planeVars, pageVars
  <2> QED BY <1>0, <2>2, <2>3 DEF VerdictInv, OneAsked, RowsTyped
<1>3. ASSUME NEW q \in asks, EvidenceArrives(q) \/ ReadFails(q) PROVE VerdictInv'
  <2>1. q \in AskRecord /\ asks' = {}
    BY <1>3 DEF EvidenceArrives, ReadFails, VerdictInv, OneAsked, RowsTyped
  <2>2. /\ UNCHANGED <<log, row, handler, rebuild>>
        /\ evidence'.is = "shown" =>
             evidence'.log = q.log /\ q.stage = "answered" /\ q.row # 0
    BY <1>3 DEF EvidenceArrives, ReadFails, planeVars
  <2>3. evidence'.is = "shown" => evidence'.log \in Nat /\ evidence'.log <= log
    BY <2>1, <2>2 DEF VerdictInv, OneAsked, AskRecord
  <2> QED BY <2>1, <2>2, <2>3 DEF VerdictInv, OneAsked, RowsTyped
<1>4. CASE OnFrame
  BY <1>4, AskedAnew DEF OnFrame, OnMeaningful, Reload, planeVars
<1>5. CASE Retry
  BY <1>5, AskedAnew DEF Retry, Reload, planeVars
<1>6. CASE AppendEvent
  <2>1. RowsTyped' /\ log <= log' /\ UNCHANGED <<asks, evidence>>
    BY <1>0, <1>6 DEF AppendEvent, RowsTyped, pageVars
  <2> QED BY <2>1, AsksUntouched
<1>7. CASE ProjectRead \/ ProjectSave \/ ProjectFails \/ RebuildDeletes \/ RebuildProjects
  <2>1. UNCHANGED <<log, asks, evidence>>
    BY <1>7 DEF ProjectRead, ProjectSave, ProjectFails, RebuildDeletes, RebuildProjects, pageVars
  <2>2. RowsTyped'
    BY <1>0, <1>7, <2>1 DEF ProjectRead, ProjectSave, ProjectFails, RebuildDeletes,
                            RebuildProjects, RowsTyped
  <2> QED BY <1>0, <2>1, <2>2, AsksUntouched
<1>8. CASE UNCHANGED <<planeVars, asks, evidence>>
  BY <1>0, <1>8, AskedAnew DEF planeVars
<1>9. ASSUME NEW c \in Conns, TailSteps(c) \/ Refuse(c) \/ HearClose(c)
      PROVE  UNCHANGED <<planeVars, asks, evidence>>
  BY <1>9 DEF TailSteps, Authorize, Refuse, TailRead, TailWrite, TailStops, HearClose, pageVars
<1> QED BY <1>1, <1>2, <1>3, <1>4, <1>5, <1>6, <1>7, <1>8, <1>9
        DEF Next, Worker, Answers, Page, Reconnect, CloseStream, ReopenStream, Drop,
            StoredArrives, Tick, vars, pageVars

(* hooks.ts, useJson: however reloads, failures and answers interleave, the verdict on screen
   is never replaced by one of a shorter log. *)
THEOREM NoOldVerdictReturns == Spec => VerdictNeverGoesBack
<1>1. Init => VerdictInv
  <2>. SUFFICES ASSUME Init PROVE VerdictInv
    OBVIOUS
  <2>1. log \in Nat /\ row \in Nat /\ evidence.is = "none"
    BY LiveViewAssumption DEF Init
  <2>2. asks = {Sent} /\ Sent \in AskRecord /\ Sent.stage = "sent" /\ Sent.row = 0
    BY DEF Init, Sent, AskRecord
  <2>3. RowsTyped
    BY <2>1, <2>2 DEF Init, RowsTyped
  <2> QED BY <2>1, <2>2, <2>3 DEF VerdictInv, OneAsked
<1>2. VerdictInv /\ [Next]_vars
        => [evidence.is = "shown" /\ evidence'.is = "shown" => evidence.log <= evidence'.log]_vars
  <2>. SUFFICES ASSUME VerdictInv, [Next]_vars, evidence.is = "shown", evidence'.is = "shown"
                PROVE  evidence.log <= evidence'.log
    OBVIOUS
  <2>1. ASSUME NEW q \in asks, EvidenceArrives(q) PROVE evidence.log <= evidence'.log
    <3>1. evidence'.log = q.log /\ q.stage = "answered" /\ q.row # 0
      BY <2>1 DEF EvidenceArrives
    <3> QED BY <3>1 DEF VerdictInv, OneAsked
  <2>2. ASSUME NEW q \in asks, ReadFails(q) PROVE FALSE
    BY <2>2 DEF ReadFails
  <2>3. CASE evidence' = evidence
    <3>1. evidence.log \in Nat
      BY DEF VerdictInv, OneAsked
    <3> QED BY <2>3, <3>1
  <2>4. ASSUME NEW q \in asks, LookAtRow(q) \/ FoldTheLog(q) PROVE evidence' = evidence
    BY <2>4 DEF LookAtRow, FoldTheLog, pageVars
  <2>5. ASSUME NEW c \in Conns, TailSteps(c) \/ Refuse(c) \/ HearClose(c)
        PROVE  evidence' = evidence
    BY <2>5 DEF TailSteps, Authorize, Refuse, TailRead, TailWrite, TailStops, HearClose, pageVars
  <2> QED BY <2>1, <2>2, <2>3, <2>4, <2>5
          DEF Next, Worker, Answers, Page, OnFrame, Retry, AppendEvent, ProjectRead, ProjectSave,
              ProjectFails, RebuildDeletes, RebuildProjects, Reconnect, CloseStream,
              ReopenStream, Drop, StoredArrives, Tick, vars, pageVars
<1> QED BY <1>1, <1>2, VerdictStep, PTL DEF Spec, VerdictNeverGoesBack
=============================================================================
