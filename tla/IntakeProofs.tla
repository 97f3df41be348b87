----------------------------- MODULE IntakeProofs -----------------------------
(***************************************************************************)
(* Deliveries, reconciles and the local queue, proved for any installation *)
(* ids, any number of reconciles at once, of changes at GitHub and of      *)
(* issues, and any failures.                                               *)
(***************************************************************************)
EXTENDS Intake, SequenceTheorems, TLAPS

Slots == [Walks -> [stage : {"idle", "minting", "listing", "recording", "sweeping"},
                    id : Ids \cup {None}, held : BOOLEAN, current : BOOLEAN]]
Lives == [life : {"up", "closing", "draining", "exited", "dead"}, awaits : Nat]
Memories == [late : BOOLEAN, settled : BOOLEAN, gone : SUBSET Ids, lost : BOOLEAN, told : BOOLEAN,
             answers : SUBSET [owed : BOOLEAN, how : {"ignored", "commented", "ran", "failed"}]]
-----------------------------------------------------------------------------
(***************************************************************************)
(* Every variable stays in its range.                                      *)
(***************************************************************************)
LEMMA Unfolded ==
  TypeOK => /\ walk \in Slots /\ server \in Lives /\ seen \in Memories
            /\ tail \in Seq(Tasks) /\ row.id \in Ids \cup {None} /\ row.live \in BOOLEAN
            /\ github.id \in Ids \cup {None} /\ github.holds \in BOOLEAN
            /\ github.issued \subseteq Ids
BY DEF TypeOK, Slots, Lives, Memories

LEMMA Counted ==
  ASSUME TypeOK
  PROVE  /\ changes < MaxChanges[mode] => changes + 1 \in 0..MaxChanges[mode]
         /\ issues < MaxIssues[mode] => issues + 1 \in 0..MaxIssues[mode]
         /\ Fault => faults' \in 0..MaxFaults
BY IntakeAssumption DEF TypeOK, Fault

\* What is covered is covered by an installation there is, its id is spent, and an uninstall
\* GitHub tells of is of one there is no more.
GitHubIsSound ==
  /\ github.holds => github.id # None
  /\ github.id # None => github.id \in github.issued
  /\ \A d \in post : /\ d.event = "installation" <=> d.action \in {"created", "deleted"}
                     /\ d.action = "deleted" => d.id \in github.issued /\ d.id # github.id

\* The steps that change what GitHub covers, as one.
LEMMA Changing ==
  ASSUME TypeOK, GitHubIsSound,
         (\E holds \in BOOLEAN : Install(holds) \/ Select(holds)) \/ Uninstall \/ Deselect
  PROVE  /\ \E d \in Deliveries : Changed(github', d)
         /\ github' \in [id : Ids \cup {None}, holds : BOOLEAN, issued : SUBSET Ids]
         /\ github.issued \subseteq github'.issued
         /\ github'.id = github.id \/ github'.id \notin github.issued
         /\ GitHubIsSound'
<1>. DEFINE Goal(d) ==
       /\ d \in Deliveries /\ Changed(github', d)
       /\ github' \in [id : Ids \cup {None}, holds : BOOLEAN, issued : SUBSET Ids]
       /\ github.issued \subseteq github'.issued
       /\ github'.id = github.id \/ github'.id \notin github.issued
       /\ github'.holds => github'.id # None
       /\ github'.id # None => github'.id \in github'.issued
       /\ d.event = "installation" <=> d.action \in {"created", "deleted"}
       /\ d.action = "deleted" => d.id \in github'.issued /\ d.id # github'.id
<1>0. /\ github \in [id : Ids \cup {None}, holds : BOOLEAN, issued : SUBSET Ids]
      /\ None \notin Ids
      /\ github.holds => github.id # None
      /\ github.id # None => github.id \in github.issued
  BY IntakeAssumption DEF TypeOK, GitHubIsSound
<1>1. ASSUME NEW holds \in BOOLEAN, Install(holds) PROVE \E d : Goal(d)
  <2>1. PICK i \in Ids \ github.issued :
          /\ Changed(github', Delivery("installation", "created", i, holds))
          /\ github' = [id |-> i, holds |-> holds, issued |-> github.issued \cup {i}]
    BY <1>1 DEF Install, Changed
  <2>2. Goal(Delivery("installation", "created", i, holds))
    BY <1>0, <2>1 DEF Delivery, Deliveries
  <2> QED BY <2>2
<1>2. ASSUME NEW holds \in BOOLEAN, Select(holds) PROVE \E d : Goal(d)
  <2>1. /\ Changed(github', Delivery("installation_repositories", "added", github.id, holds))
        /\ github' = [github EXCEPT !.holds = TRUE] /\ github.id # None
    BY <1>2 DEF Select, Changed
  <2>2. Goal(Delivery("installation_repositories", "added", github.id, holds))
    BY <1>0, <2>1 DEF Delivery, Deliveries
  <2> QED BY <2>2
<1>3. ASSUME Deselect PROVE \E d : Goal(d)
  <2>1. /\ Changed(github', Delivery("installation_repositories", "removed", github.id, TRUE))
        /\ github' = [github EXCEPT !.holds = FALSE] /\ github.holds
    BY <1>3 DEF Deselect, Changed
  <2>2. Goal(Delivery("installation_repositories", "removed", github.id, TRUE))
    BY <1>0, <2>1 DEF Delivery, Deliveries
  <2> QED BY <2>2
<1>4. ASSUME Uninstall PROVE \E d : Goal(d)
  <2>1. /\ Changed(github', Delivery("installation", "deleted", github.id, github.holds))
        /\ github' = [github EXCEPT !.id = None, !.holds = FALSE] /\ github.id # None
    BY <1>4 DEF Uninstall, Changed
  <2>2. None \notin github.issued
    BY <1>0
  <2>3. Goal(Delivery("installation", "deleted", github.id, github.holds))
    BY <1>0, <2>1, <2>2 DEF Delivery, Deliveries
  <2> QED BY <2>3
<1>5. PICK d : Goal(d)
  BY <1>1, <1>2, <1>3, <1>4
<1>6. post' = post \cup {d}
  BY <1>5 DEF Changed
<1>7. \A e \in post : e.action = "deleted" => e.id \in github'.issued /\ e.id # github'.id
  BY <1>5 DEF GitHubIsSound
<1>8. GitHubIsSound'
  BY <1>5, <1>6, <1>7 DEF GitHubIsSound
<1> QED BY <1>5, <1>8

Rows == [id : Ids \cup {None}, live : BOOLEAN]

\* What changes at GitHub touches nothing of the servers but their walks' `current`.
LEMMA ChangedFrame ==
  ASSUME TypeOK, NEW g, NEW d \in Deliveries, Changed(g, d),
         g \in [id : Ids \cup {None}, holds : BOOLEAN, issued : SUBSET Ids]
  PROVE  TypeOK'
<1>1. changes' \in 0..MaxChanges[mode] /\ post' \subseteq Deliveries /\ github' = g
  BY Counted DEF Changed, TypeOK
<1>2. walk' \in Slots /\ seen' \in Memories
  BY Unfolded DEF Changed, Slots, Memories
<1> QED BY <1>1, <1>2 DEF Changed, TypeOK, Slots, Memories

LEMMA TypeWorldFrom ==
  ASSUME TypeOK, UNCHANGED <<mode, github, row, walk, younger, tail, doing, server, request,
                             onboarded, changes>>,
         post' \subseteq Deliveries, issues' \in 0..MaxIssues[mode], faults' \in 0..MaxFaults,
         seen' \in Memories
  PROVE  TypeOK'
BY DEF TypeOK, Memories

LEMMA HandedTyped ==
  ASSUME TypeOK, NEW d \in post, Handed(d)
  PROVE  post' \subseteq post /\ post' \subseteq Deliveries /\ faults' \in 0..MaxFaults
BY Counted DEF Handed, TypeOK

LEMMA TypeWorld ==
  ASSUME TypeOK, GitHubIsSound, World PROVE TypeOK'
<1>1. CASE (\E holds \in BOOLEAN : Install(holds) \/ Select(holds)) \/ Uninstall \/ Deselect
  <2>1. PICK d \in Deliveries : Changed(github', d)
    BY <1>1, Changing
  <2>2. github' \in [id : Ids \cup {None}, holds : BOOLEAN, issued : SUBSET Ids]
    BY <1>1, Changing
  <2> QED BY <2>1, <2>2, ChangedFrame
<1>2. CASE ReportIssue
  <2>1. Delivery("issues", "opened", github.id, TRUE) \in Deliveries
    BY <1>2, Unfolded DEF ReportIssue, GitHubIsSound, Delivery, Deliveries
  <2>2. issues' \in 0..MaxIssues[mode] /\ post' \subseteq Deliveries
    BY <1>2, <2>1, Counted DEF ReportIssue, TypeOK
  <2>3. UNCHANGED <<mode, github, row, walk, younger, tail, doing, server, request, onboarded,
                    changes, faults, seen>>
    BY <1>2 DEF ReportIssue
  <2>4. seen \in Memories /\ faults \in 0..MaxFaults
    BY Unfolded DEF TypeOK
  <2> QED BY <2>2, <2>3, <2>4, TypeWorldFrom
<1>3. ASSUME NEW d \in post, Lose(d) PROVE TypeOK'
  <2>1. seen' \in Memories
    BY <1>3, Unfolded DEF Lose, Memories
  <2>2. faults' \in 0..MaxFaults /\ post' \subseteq Deliveries
    BY <1>3, Counted DEF Lose, TypeOK
  <2>3. UNCHANGED <<mode, github, row, walk, younger, tail, doing, server, request, onboarded,
                    changes, issues>>
    BY <1>3 DEF Lose
  <2>4. issues \in 0..MaxIssues[mode]
    BY DEF TypeOK
  <2> QED BY <2>1, <2>2, <2>3, <2>4, TypeWorldFrom
<1> QED BY <1>1, <1>2, <1>3 DEF World

\* A step of the plane, by what it may touch.
LEMMA TypePlaneFrom ==
  ASSUME TypeOK, UNCHANGED <<mode, github, tail, doing, server, request, onboarded, changes, issues>>,
         post' \subseteq Deliveries, row' \in Rows, walk' \in Slots, younger' \subseteq Walks,
         faults' \in 0..MaxFaults, seen' \in Memories
  PROVE  TypeOK'
BY DEF TypeOK, Slots, Memories, Rows

LEMMA RestingTyped ==
  /\ Resting.stage = "idle" /\ ~Resting.current
  /\ \A w \in Walks : walk \in Slots => [walk EXCEPT ![w] = Resting] \in Slots
BY DEF Resting, Slots

LEMMA TypePlane ==
  ASSUME TypeOK, Plane PROVE TypeOK'
<1>0. /\ walk \in Slots /\ row \in Rows /\ younger \subseteq Walks /\ seen \in Memories
      /\ faults \in 0..MaxFaults /\ post \subseteq Deliveries /\ InFlight \subseteq Walks
      /\ Fault => faults' \in 0..MaxFaults
      /\ github.id \in Ids \cup {None} /\ github.holds \in BOOLEAN
  BY Unfolded, Counted DEF TypeOK, Rows, InFlight
<1>1. ASSUME NEW d \in post, HandleUninstall(d) \/ IgnoreIssue(d) \/ \E w \in Walks : HandleChange(d, w)
      PROVE  TypeOK'
  <2>0. /\ d \in Deliveries /\ d.id \in Ids
        /\ UNCHANGED <<mode, github, tail, doing, server, request, onboarded, changes, issues>>
    BY <1>0, <1>1 DEF HandleUninstall, IgnoreIssue, HandleChange, Deliveries
  <2>1. post' \subseteq Deliveries /\ faults' \in 0..MaxFaults
    BY <1>1, HandedTyped DEF HandleUninstall, IgnoreIssue, HandleChange
  <2>2. Acted(d) \in Memories
    BY <1>0, <2>0 DEF Acted, Memories
  <2>3. seen' \in Memories
    BY <1>0, <1>1, <2>2 DEF HandleUninstall, IgnoreIssue, HandleChange
  <2>4. row' \in Rows /\ younger' \subseteq Walks
    BY <1>0, <1>1 DEF HandleUninstall, IgnoreIssue, HandleChange, ForgetInstallation, Rows
  <2>5. walk' \in Slots
    <3>1. ASSUME NEW w \in Walks, HandleChange(d, w) PROVE walk' \in Slots
      <4>. DEFINE new == [Resting EXCEPT !.stage = "minting", !.id = d.id]
      <4>1. new \in [stage : {"idle", "minting", "listing", "recording", "sweeping"},
                     id : Ids \cup {None}, held : BOOLEAN, current : BOOLEAN]
        BY <2>0 DEF Resting
      <4>2. walk' = [walk EXCEPT ![w] = new]
        BY <3>1 DEF HandleChange
      <4> HIDE DEF new
      <4> QED BY <1>0, <4>1, <4>2 DEF Slots
    <3> QED BY <1>0, <1>1, <3>1 DEF HandleUninstall, IgnoreIssue
  <2> QED BY <2>0, <2>1, <2>3, <2>4, <2>5, TypePlaneFrom
<1>2. ASSUME NEW w \in Walks,
             \/ MintToken(w) \/ List(w) \/ RecordHeld(w) \/ Sweep(w)
             \/ WalkRefused(w) \/ WalkFails(w)
      PROVE  TypeOK'
  <2>0. UNCHANGED <<mode, github, post, tail, doing, server, request, onboarded, changes, issues>>
    BY <1>2 DEF MintToken, List, RecordHeld, Sweep, WalkRefused, WalkFails, Walking
  <2>1. walk' \in Slots
    <3>1. CASE MintToken(w) \/ List(w) \/ RecordHeld(w)
      BY <1>0, <3>1 DEF MintToken, List, RecordHeld, Slots
    <3>2. CASE Sweep(w) \/ WalkRefused(w) \/ WalkFails(w)
      BY <1>0, <3>2, RestingTyped DEF Sweep, WalkRefused, WalkFails
    <3> QED BY <1>2, <3>1, <3>2
  <2>2. younger' \subseteq Walks /\ faults' \in 0..MaxFaults
    BY <1>0, <1>2 DEF MintToken, List, RecordHeld, RecordInstallation, Sweep, WalkRefused, WalkFails
  <2>3. row' \in Rows
    <3>1. walk[w].id \in Ids \cup {None}
      BY <1>0 DEF Slots
    <3>2. \/ row' = row \/ row' = [row EXCEPT !.live = FALSE]
          \/ row' = [id |-> walk[w].id, live |-> TRUE]
      BY <1>2 DEF MintToken, List, RecordHeld, RecordInstallation, Sweep, WalkRefused, WalkFails
    <3>3. row \in Rows
      BY <1>0
    <3>4. [row EXCEPT !.live = FALSE] \in Rows /\ [id |-> walk[w].id, live |-> TRUE] \in Rows
      BY <3>1, <3>3 DEF Rows
    <3> QED BY <3>2, <3>3, <3>4
  <2>4. seen' \in Memories
    <3>1. CASE RecordHeld(w)
      <4>. DEFINE l == seen.late \/ github.id # walk[w].id \/ ~github.holds
      <4>1. seen' = seen \/ seen' = [seen EXCEPT !.late = l]
        BY <3>1 DEF RecordHeld
      <4>2. l \in BOOLEAN
        OBVIOUS
      <4> HIDE DEF l
      <4> QED BY <1>0, <4>1, <4>2 DEF Memories
    <3>2. CASE Sweep(w)
      <4>. DEFINE l == seen.settled \/ walk[w].current
      <4>1. seen' = [seen EXCEPT !.settled = l]
        BY <3>2 DEF Sweep
      <4>2. l \in BOOLEAN
        OBVIOUS
      <4> HIDE DEF l
      <4> QED BY <1>0, <4>1, <4>2 DEF Memories
    <3>3. CASE MintToken(w) \/ List(w) \/ WalkRefused(w) \/ WalkFails(w)
      BY <1>0, <3>3 DEF MintToken, List, WalkRefused, WalkFails
    <3> QED BY <1>2, <3>1, <3>2, <3>3
  <2> QED BY <1>0, <2>0, <2>1, <2>2, <2>3, <2>4, TypePlaneFrom
<1>3. CASE PlaneRestarts
  <2>1. walk' \in Slots
    BY <1>3 DEF PlaneRestarts, Resting, Slots
  <2> QED BY <1>0, <1>3, <2>1, TypePlaneFrom DEF PlaneRestarts
<1> QED BY <1>1, <1>2, <1>3 DEF Plane

LEMMA TypeLocalFrom ==
  ASSUME TypeOK, UNCHANGED <<mode, github, walk, changes, issues>>,
         post' \subseteq Deliveries, row' \in Rows, younger' \subseteq Walks,
         tail' \in Seq(Tasks), doing' \in {"waiting", "recipe", "running", "drafting"},
         server' \in Lives, request' \in {"none", "checking", "done"}, onboarded' \in BOOLEAN,
         faults' \in 0..MaxFaults, seen' \in Memories
  PROVE  TypeOK'
BY DEF TypeOK, Slots, Memories, Rows, Lives

LEMMA SettleTyped ==
  ASSUME TypeOK, tail # <<>>, Settle
  PROVE  /\ tail' \in Seq(Tasks) /\ server' \in Lives
         /\ doing' \in {"waiting", "recipe", "running", "drafting"}
         /\ server'.life = server.life
         /\ server'.awaits = IF server.awaits > 0 THEN server.awaits - 1 ELSE 0
<1>1. /\ tail \in Seq(Tasks) /\ tail' = Tail(tail) /\ doing' = "waiting"
      /\ server \in Lives
      /\ server' = [server EXCEPT !.awaits = IF @ > 0 THEN @ - 1 ELSE 0]
  BY Unfolded DEF Settle
<1>2. tail' \in Seq(Tasks)
  BY <1>1, HeadTailProperties
<1>3. (IF server.awaits > 0 THEN server.awaits - 1 ELSE 0) \in Nat
  BY <1>1 DEF Lives
<1> QED BY <1>1, <1>2, <1>3 DEF Lives

\* The task a delivery becomes.
TaskOf(d) == [about |-> Says(d).about, id |-> d.id, named |-> d.named, owed |-> seen.told]
DraftTask == [about |-> "draft", id |-> None, named |-> TRUE, owed |-> FALSE]

LEMMA TasksTyped ==
  ASSUME TypeOK
  PROVE  /\ DraftTask \in Tasks
         /\ \A d \in post : TaskOf(d) \in Tasks /\ Says(d).about \in {"added", "removed", "issue"}
<1>1. DraftTask \in Tasks
  BY DEF DraftTask, Tasks
<1>2. ASSUME NEW d \in post
      PROVE  TaskOf(d) \in Tasks /\ Says(d).about \in {"added", "removed", "issue"}
  <2>1. Says(d).about \in {"added", "removed", "issue"}
    BY DEF Says
  <2>2. d.id \in Ids /\ d.named \in BOOLEAN /\ seen.told \in BOOLEAN
    BY <1>2, Unfolded DEF TypeOK, Deliveries, Memories
  <2> QED BY <2>1, <2>2 DEF TaskOf, Tasks
<1> QED BY <1>1, <1>2

LEMMA AcceptMeans ==
  ASSUME TypeOK, NEW d \in post, Accept(d)
  PROVE  /\ tail' = Append(tail, TaskOf(d)) /\ server.life = "up"
         /\ UNCHANGED <<row, younger, doing, server, request, onboarded, mode, github, walk, changes, issues>>
         /\ seen'.lost = seen.lost /\ seen'.answers = seen.answers
         /\ seen'.told = (IF Says(d).about = "issue" \/ ~d.named THEN seen.told
                          ELSE Says(d).about = "added")
         /\ seen' \in Memories /\ post' \subseteq Deliveries /\ faults' \in 0..MaxFaults
<1>1. /\ tail' = Append(tail, TaskOf(d)) /\ server.life = "up"
      /\ UNCHANGED <<row, younger, doing, server, request, onboarded, mode, github, walk, changes, issues>>
  BY DEF Accept, OnQueue, Accepting, TaskOf
<1>. DEFINE told == IF Says(d).about = "issue" \/ ~d.named THEN seen.told ELSE Says(d).about = "added"
<1>2. seen' = [seen EXCEPT !.told = told]
  BY DEF Accept
<1>3. told \in BOOLEAN /\ seen \in Memories
  BY Unfolded DEF Memories
<1>4. post' \subseteq Deliveries /\ faults' \in 0..MaxFaults
  BY HandedTyped DEF Accept
<1> HIDE DEF told
<1>5. seen' \in Memories /\ seen'.lost = seen.lost /\ seen'.answers = seen.answers /\ seen'.told = told
  BY <1>2, <1>3 DEF Memories
<1> QED BY <1>1, <1>4, <1>5 DEF told

\* The head of the queue is over.
Outcome(how) == [owed |-> tail[1].owed, how |-> how]

LEMMA AnswerMeans ==
  ASSUME TypeOK, tail # <<>>, NEW how \in {"ignored", "commented", "ran", "failed"}, Answer(how)
  PROVE  /\ Settle /\ UNCHANGED <<row, younger>>
         /\ seen'.answers = seen.answers \cup {Outcome(how)}
         /\ seen'.lost = seen.lost /\ seen'.told = seen.told /\ seen' \in Memories
<1>1. Settle /\ UNCHANGED <<row, younger>>
      /\ seen' = [seen EXCEPT !.answers = @ \cup {Outcome(how)}]
  BY DEF Answer, Outcome
<1>2. tail[1] \in Tasks /\ seen \in Memories
  BY Unfolded
<1>3. Outcome(how) \in [owed : BOOLEAN, how : {"ignored", "commented", "ran", "failed"}]
  BY <1>2 DEF Outcome, Tasks
<1> HIDE DEF Outcome
<1> QED BY <1>1, <1>2, <1>3 DEF Memories

LEMMA TypeLocal ==
  ASSUME TypeOK, Local PROVE TypeOK'
<1>0. /\ row \in Rows /\ younger \subseteq Walks /\ seen \in Memories /\ tail \in Seq(Tasks)
      /\ server \in Lives /\ request \in {"none", "checking", "done"} /\ onboarded \in BOOLEAN
      /\ doing \in {"waiting", "recipe", "running", "drafting"}
      /\ faults \in 0..MaxFaults /\ post \subseteq Deliveries /\ InFlight \subseteq Walks
      /\ Fault => faults' \in 0..MaxFaults
  BY Unfolded, Counted DEF TypeOK, Rows, InFlight
<1>1. ASSUME NEW d \in post, Accept(d) PROVE TypeOK'
  <2>1. tail' \in Seq(Tasks)
    BY <1>0, <1>1, AcceptMeans, TasksTyped, AppendProperties
  <2>2. /\ UNCHANGED <<row, younger, doing, server, request, onboarded, mode, github, walk, changes, issues>>
        /\ seen' \in Memories /\ post' \subseteq Deliveries /\ faults' \in 0..MaxFaults
    BY <1>1, AcceptMeans
  <2> QED BY <1>0, <2>1, <2>2, TypeLocalFrom
<1>2. CASE AskForDraft \/ Approve \/ Signal \/ Drain \/ Exit
  <2>1. UNCHANGED <<mode, github, walk, changes, issues, post, row, younger, tail, doing, faults, seen>>
    BY <1>2 DEF AskForDraft, Approve, Signal, Drain, Exit, OnQueue
  <2>2. request' \in {"none", "checking", "done"} /\ onboarded' \in BOOLEAN
    BY <1>0, <1>2 DEF AskForDraft, Approve, Signal, Drain, Exit
  <2>3. server' \in Lives
    <3>1. Len(tail) \in Nat
      BY <1>0, LenProperties
    <3> QED BY <1>0, <1>2, <3>1 DEF AskForDraft, Approve, Signal, Drain, Exit, Lives
  <2> QED BY <1>0, <2>1, <2>2, <2>3, TypeLocalFrom
<1>3. CASE QueueDraft
  <2>1. /\ UNCHANGED <<mode, github, walk, changes, issues, post, row, younger, doing, server, onboarded, faults, seen>>
        /\ request' = "done" /\ tail' = Append(tail, DraftTask)
    BY <1>3 DEF QueueDraft, OnQueue, DraftTask
  <2>2. tail' \in Seq(Tasks)
    BY <1>0, <2>1, TasksTyped, AppendProperties
  <2> QED BY <1>0, <2>1, <2>2, TypeLocalFrom
<1>4. CASE Record \/ RecordFails
  <2>1. /\ UNCHANGED <<mode, github, walk, changes, issues, post, request, onboarded>>
        /\ tail # <<>> /\ Settle
    BY <1>4 DEF Record, RecordFails, OnHead, OnQueue
  <2>2. row' \in Rows /\ younger' \subseteq Walks
    <3>1. tail[1] \in Tasks
      BY <1>0, <2>1
    <3>2. [row EXCEPT !.live = FALSE] \in Rows /\ [id |-> tail[1].id, live |-> TRUE] \in Rows
      BY <1>0, <3>1 DEF Rows, Tasks
    <3>3. CASE RecordFails
      BY <1>0, <3>3 DEF RecordFails
    <3>4. CASE Record
      <4>1. (row' = row /\ younger' = younger) \/ RecordInstallation(tail[1].id) \/ RemoveInstallation
        BY <3>4 DEF Record
      <4> QED BY <1>0, <3>2, <4>1 DEF RecordInstallation, RemoveInstallation
    <3> QED BY <1>4, <3>3, <3>4
  <2>3. seen' \in Memories /\ faults' \in 0..MaxFaults
    BY <1>0, <1>4 DEF Record, RecordFails, Memories
  <2>4. tail' \in Seq(Tasks) /\ server' \in Lives /\ doing' \in {"waiting", "recipe", "running", "drafting"}
    BY <2>1, SettleTyped
  <2> QED BY <1>0, <2>1, <2>2, <2>3, <2>4, TypeLocalFrom
<1>5. ASSUME NEW how \in {"ignored", "commented", "ran", "failed"}, OnHead, tail # <<>>, Answer(how),
             faults' \in 0..MaxFaults
      PROVE  TypeOK'
  <2>1. UNCHANGED <<mode, github, walk, changes, issues, post, request, onboarded>>
    BY <1>5 DEF OnHead, OnQueue
  <2>2. Settle /\ UNCHANGED <<row, younger>> /\ seen' \in Memories
    BY <1>5, AnswerMeans
  <2>4. tail' \in Seq(Tasks) /\ server' \in Lives /\ doing' \in {"waiting", "recipe", "running", "drafting"}
    BY <1>5, <2>2, SettleTyped
  <2> QED BY <1>0, <1>5, <2>1, <2>2, <2>4, TypeLocalFrom
<1>6. CASE LookUpInstallation
  <2>1. CASE row.live
    BY <1>0, <1>6, <2>1, TypeLocalFrom DEF LookUpInstallation, OnHead, OnQueue
  <2>2. CASE ~row.live
    BY <1>0, <1>5, <1>6, <2>2 DEF LookUpInstallation, AtHead
  <2> QED BY <2>1, <2>2
<1>7. CASE LookUpRecipe
  <2>1. CASE onboarded
    BY <1>0, <1>7, <2>1, TypeLocalFrom DEF LookUpRecipe, OnHead, OnQueue
  <2>2. CASE ~onboarded
    BY <1>0, <1>5, <1>7, <2>2 DEF LookUpRecipe, AtHead
  <2> QED BY <2>1, <2>2
<1>8. CASE RunEnds \/ IssueFails
  BY <1>0, <1>5, <1>8 DEF RunEnds, IssueFails, AtHead
<1>9. CASE LookUpForDraft \/ DraftEnds
  <2>1. /\ UNCHANGED <<mode, github, walk, changes, issues, post, request, onboarded, row, younger, faults, seen>>
        /\ tail # <<>>
        /\ Settle \/ (UNCHANGED <<tail, server>> /\ doing' = "drafting")
    BY <1>9 DEF LookUpForDraft, DraftEnds, OnHead, OnQueue, AtHead
  <2>2. tail' \in Seq(Tasks) /\ server' \in Lives /\ doing' \in {"waiting", "recipe", "running", "drafting"}
    BY <1>0, <2>1, SettleTyped
  <2> QED BY <1>0, <2>1, <2>2, TypeLocalFrom
<1>10. CASE LookUpForDraftFails
  <2>1. /\ UNCHANGED <<mode, github, walk, changes, issues, post, request, onboarded, row, younger, doing, seen>>
        /\ tail # <<>> /\ tail' = Tail(tail) /\ server' = [server EXCEPT !.life = "dead"]
        /\ faults' \in 0..MaxFaults
    BY <1>0, <1>10 DEF LookUpForDraftFails, OnHead, OnQueue, AtHead
  <2>2. tail' \in Seq(Tasks) /\ server' \in Lives
    BY <1>0, <2>1, HeadTailProperties DEF Lives
  <2> QED BY <1>0, <2>1, <2>2, TypeLocalFrom
<1> QED BY <1>1, <1>2, <1>3, <1>4, <1>6, <1>7, <1>8, <1>9, <1>10 DEF Local, Turn

LEMMA TypeStep == TypeOK /\ GitHubIsSound /\ [Next]_vars => TypeOK'
<1>1. ASSUME TypeOK, UNCHANGED vars PROVE TypeOK'
  BY <1>1 DEF vars, TypeOK
<1> QED BY <1>1, TypeWorld, TypePlane, TypeLocal DEF Next

LEMMA PlaneFrame ==
  Plane => OnPlane /\ UNCHANGED <<mode, github, tail, doing, server, request, onboarded, changes, issues>>
BY DEF Plane, HandleUninstall, IgnoreIssue, HandleChange, MintToken, List, RecordHeld, Sweep,
       WalkRefused, WalkFails, Walking, PlaneRestarts, OnPlane

LEMMA LocalFrame == Local => Locally /\ UNCHANGED <<mode, github, walk, changes, issues>>
BY DEF Local, Accept, AskForDraft, QueueDraft, Approve, Turn, Record, LookUpInstallation,
       LookUpRecipe, RunEnds, LookUpForDraft, DraftEnds, RecordFails, IssueFails,
       LookUpForDraftFails, Signal, Drain, Exit, OnHead, OnQueue

LEMMA PostShrinks ==
  Plane \/ Local => post' \subseteq post
<1>1. Plane => post' \subseteq post
  BY DEF Plane, HandleUninstall, IgnoreIssue, HandleChange, MintToken, List, RecordHeld, Sweep,
         WalkRefused, WalkFails, Walking, PlaneRestarts, Handed
<1>2. Local => post' \subseteq post
  BY DEF Local, Accept, AskForDraft, QueueDraft, Approve, Turn, Record, LookUpInstallation,
         LookUpRecipe, RunEnds, LookUpForDraft, DraftEnds, RecordFails, IssueFails,
         LookUpForDraftFails, Signal, Drain, Exit, OnHead, OnQueue, Handed
<1> QED BY <1>1, <1>2

LEMMA SoundStep == TypeOK /\ GitHubIsSound /\ [Next]_vars => GitHubIsSound'
<1>. SUFFICES ASSUME TypeOK, GitHubIsSound, [Next]_vars PROVE GitHubIsSound'
  OBVIOUS
<1>1. ASSUME UNCHANGED github, post' \subseteq post PROVE GitHubIsSound'
  BY <1>1 DEF GitHubIsSound
<1>2. CASE (\E holds \in BOOLEAN : Install(holds) \/ Select(holds)) \/ Uninstall \/ Deselect
  BY <1>2, Changing
<1>3. CASE ReportIssue
  <2>1. UNCHANGED github /\ post' = post \cup {Delivery("issues", "opened", github.id, TRUE)}
    BY <1>3 DEF ReportIssue
  <2>2. /\ Delivery("issues", "opened", github.id, TRUE).event = "issues"
        /\ Delivery("issues", "opened", github.id, TRUE).action = "opened"
    BY DEF Delivery
  <2> QED BY <2>1, <2>2 DEF GitHubIsSound
<1>4. CASE \E d \in post : Lose(d)
  BY <1>1, <1>4 DEF Lose
<1>5. CASE Plane \/ Local
  BY <1>1, <1>5, PlaneFrame, LocalFrame, PostShrinks
<1>6. CASE UNCHANGED vars
  BY <1>1, <1>6 DEF vars
<1> QED BY <1>2, <1>3, <1>4, <1>5, <1>6 DEF Next, World

(* What the servers keep of an installation, a reconcile and the queue stays in its range. *)
THEOREM TypeCorrect == Spec => [](TypeOK /\ GitHubIsSound)
<1>1. Init => TypeOK /\ GitHubIsSound
  <2>. SUFFICES ASSUME Init PROVE TypeOK /\ GitHubIsSound
    OBVIOUS
  <2>1. /\ changes \in 0..MaxChanges[mode] /\ issues \in 0..MaxIssues[mode] /\ faults \in 0..MaxFaults
    BY IntakeAssumption DEF Init
  <2>2. walk \in Slots /\ seen \in Memories /\ tail \in Seq(Tasks)
    BY DEF Init, Resting, Slots, Memories
  <2>3. GitHubIsSound
    BY DEF Init, GitHubIsSound
  <2> QED BY <2>1, <2>2, <2>3 DEF Init, TypeOK, Slots, Memories
<1> QED BY <1>1, TypeStep, SoundStep, PTL DEF Spec
-----------------------------------------------------------------------------
(***************************************************************************)
(* The table.                                                              *)
(***************************************************************************)
\* A walk that began after the last change at GitHub has recorded what it listed.
Recorded ==
  \/ seen.settled
  \/ \E w \in Walks : walk[w].current /\ walk[w].stage = "sweeping"

Started(w) == walk[w].stage \in {"listing", "recording", "sweeping"}

\* What a walk lists is current until GitHub changes.
ListsAreTrue ==
  \A w \in Walks : walk[w].current =>
    Started(w) /\ walk[w].id = github.id /\ (walk[w].stage # "listing" => walk[w].held = github.holds)

\* An id that was uninstalled does not return, nor does its row.
GoneIsGone ==
  /\ seen.gone \subseteq github.issued /\ github.id \notin seen.gone
  /\ ~seen.late => \A i \in seen.gone : ~Live(i)

\* Covered: once a current walk has recorded, the row lives, and its stamp fences off every
\* walk that began before the change.
CoveredStays ==
  ~seen.late /\ github.holds /\ Recorded =>
    Live(github.id) /\ \A w \in Walks : Started(w) /\ ~walk[w].current => w \in younger

\* Not covered: no stamp protects the row from a current walk.
UncoveredGoes ==
  ~seen.late /\ ~github.holds =>
    (\A w \in Walks : walk[w].current => w \notin younger) /\ (seen.settled => ~Live(github.id))

TableInv == OnPlane => ListsAreTrue /\ GoneIsGone /\ CoveredStays /\ UncoveredGoes

\* What the invariant reads is as it was.
LEMMA TableKept ==
  ASSUME TableInv, UNCHANGED <<mode, github, row, walk, younger>>,
         seen'.late = seen.late, seen'.settled = seen.settled, seen'.gone = seen.gone
  PROVE  TableInv'
BY DEF TableInv, OnPlane, ListsAreTrue, GoneIsGone, CoveredStays, UncoveredGoes, Recorded, Started, Live

\* GitHub changes: nothing is current any more.
LEMMA TableChanged ==
  ASSUME TypeOK, GitHubIsSound, TableInv,
         (\E holds \in BOOLEAN : Install(holds) \/ Select(holds)) \/ Uninstall \/ Deselect
  PROVE  TableInv'
<1>1. PICK d \in Deliveries : Changed(github', d)
  BY Changing
<1>2. github.issued \subseteq github'.issued /\ (github'.id = github.id \/ github'.id \notin github.issued)
  BY Changing
<1>3. /\ UNCHANGED <<mode, row, younger>>
      /\ walk' = [w \in Walks |-> [walk[w] EXCEPT !.current = FALSE]]
      /\ seen' = [seen EXCEPT !.settled = FALSE]
  BY <1>1 DEF Changed
<1>4. /\ ~seen'.settled /\ seen'.late = seen.late /\ seen'.gone = seen.gone
      /\ \A w \in Walks : ~walk'[w].current
  BY <1>3, Unfolded DEF Memories, Slots
<1>. SUFFICES ASSUME OnPlane' PROVE (ListsAreTrue /\ GoneIsGone /\ CoveredStays /\ UncoveredGoes)'
  BY DEF TableInv
<1>5. OnPlane
  BY <1>3 DEF OnPlane
<1>6. GoneIsGone'
  BY <1>2, <1>3, <1>4, <1>5 DEF TableInv, GoneIsGone, Live
<1>7. ListsAreTrue' /\ CoveredStays' /\ UncoveredGoes'
  BY <1>4 DEF ListsAreTrue, CoveredStays, UncoveredGoes, Recorded
<1> QED BY <1>6, <1>7

\* A walk that is given up, or one about to mint, counts for nothing.
LEMMA WalkRests ==
  ASSUME TypeOK, TableInv, OnPlane, NEW w \in Walks, NEW slot,
         walk' = [walk EXCEPT ![w] = slot], ~slot.current, slot.stage \in {"idle", "minting"},
         UNCHANGED <<mode, github, row>>, younger' \in {younger, younger \ {w}},
         seen'.late = seen.late, seen'.settled = seen.settled, seen'.gone = seen.gone
  PROVE  TableInv'
<1>1. /\ walk'[w] = slot /\ \A v \in Walks : v # w => walk'[v] = walk[v]
      /\ \A v \in Walks : v # w => (v \in younger' <=> v \in younger)
  BY Unfolded DEF Slots
<1>2. Recorded' => Recorded
  BY <1>1 DEF Recorded
<1>3. ListsAreTrue' /\ GoneIsGone'
  BY <1>1 DEF TableInv, ListsAreTrue, GoneIsGone, Started, Live
<1>4. CoveredStays'
  BY <1>1, <1>2 DEF TableInv, CoveredStays, Started, Live
<1>5. UncoveredGoes'
  BY <1>1 DEF TableInv, UncoveredGoes, Live
<1> QED BY <1>3, <1>4, <1>5 DEF TableInv

LEMMA TableMint ==
  ASSUME TypeOK, TableInv, NEW w \in Walks, MintToken(w) PROVE TableInv'
<1>1. /\ OnPlane /\ UNCHANGED <<mode, github, row, seen>> /\ walk[w].stage = "minting"
      /\ github.id = walk[w].id /\ younger' = younger \ {w}
      /\ walk' = [walk EXCEPT ![w].stage = "listing", ![w].current = TRUE]
  BY DEF MintToken, Walking
<1>2. /\ walk'[w].stage = "listing" /\ walk'[w].current /\ walk'[w].id = walk[w].id
      /\ \A v \in Walks : v # w => walk'[v] = walk[v]
  BY <1>1, Unfolded DEF Slots
<1>3. Recorded' => Recorded
  BY <1>1, <1>2 DEF Recorded
<1>4. ListsAreTrue' /\ GoneIsGone'
  BY <1>1, <1>2 DEF TableInv, ListsAreTrue, GoneIsGone, Started, Live
<1>5. CoveredStays'
  BY <1>1, <1>2, <1>3 DEF TableInv, CoveredStays, Started, Live
<1>6. UncoveredGoes'
  BY <1>1, <1>2 DEF TableInv, UncoveredGoes, Live
<1> QED BY <1>4, <1>5, <1>6 DEF TableInv

LEMMA TableList ==
  ASSUME TypeOK, TableInv, NEW w \in Walks, List(w) PROVE TableInv'
<1>1. /\ OnPlane /\ UNCHANGED <<mode, github, row, seen, younger>> /\ walk[w].stage = "listing"
      /\ github.id = walk[w].id
      /\ walk' = [walk EXCEPT ![w].stage = "recording", ![w].held = github.holds]
  BY DEF List, Walking
<1>2. /\ walk'[w].stage = "recording" /\ walk'[w].current = walk[w].current
      /\ walk'[w].id = walk[w].id /\ walk'[w].held = github.holds
      /\ \A v \in Walks : v # w => walk'[v] = walk[v]
  BY <1>1, Unfolded DEF Slots
<1>3. Recorded' => Recorded
  BY <1>1, <1>2 DEF Recorded
<1>4. ListsAreTrue' /\ GoneIsGone'
  BY <1>1, <1>2 DEF TableInv, ListsAreTrue, GoneIsGone, Started, Live
<1>5. CoveredStays'
  BY <1>1, <1>2, <1>3 DEF TableInv, CoveredStays, Started, Live
<1>6. UncoveredGoes'
  BY <1>1, <1>2 DEF TableInv, UncoveredGoes, Live
<1> QED BY <1>4, <1>5, <1>6 DEF TableInv

LEMMA TableRecord ==
  ASSUME TypeOK, TableInv, NEW w \in Walks, RecordHeld(w) PROVE TableInv'
<1>1. /\ OnPlane /\ UNCHANGED <<mode, github>> /\ walk[w].stage = "recording"
      /\ walk' = [walk EXCEPT ![w].stage = "sweeping"]
  BY DEF RecordHeld, Walking
<1>2. /\ walk'[w].stage = "sweeping" /\ walk'[w].current = walk[w].current
      /\ walk'[w].id = walk[w].id /\ walk'[w].held = walk[w].held
      /\ \A v \in Walks : v # w => walk'[v] = walk[v]
  BY <1>1, Unfolded DEF Slots
<1>3. ListsAreTrue'
  BY <1>1, <1>2 DEF TableInv, ListsAreTrue, Started
<1>4. CASE ~walk[w].held
  <2>1. UNCHANGED <<row, younger, seen>>
    BY <1>4 DEF RecordHeld
  <2>2. github.holds => ~walk[w].current
    BY <1>1, <1>4 DEF TableInv, ListsAreTrue
  <2>3. github.holds /\ Recorded' => Recorded
    BY <1>2, <2>1, <2>2 DEF Recorded
  <2>4. CoveredStays'
    BY <1>1, <1>2, <2>1, <2>3 DEF TableInv, CoveredStays, Started, Live
  <2>5. GoneIsGone' /\ UncoveredGoes'
    BY <1>1, <1>2, <2>1 DEF TableInv, GoneIsGone, UncoveredGoes, Live
  <2> QED BY <1>3, <2>4, <2>5 DEF TableInv
<1>5. CASE walk[w].held
  <2>. DEFINE l == seen.late \/ github.id # walk[w].id \/ ~github.holds
  <2>1. /\ row' = [id |-> walk[w].id, live |-> TRUE] /\ younger' = InFlight
        /\ seen' = [seen EXCEPT !.late = l]
    BY <1>5 DEF RecordHeld, RecordInstallation
  <2>2. seen'.late = l /\ seen'.settled = seen.settled /\ seen'.gone = seen.gone
    BY <2>1, Unfolded DEF Memories
  <2>3. ~seen'.late => github.id = walk[w].id /\ github.holds /\ ~seen.late
    BY <2>2
  <2> HIDE DEF l
  <2>4. GoneIsGone'
    BY <1>1, <2>1, <2>2, <2>3 DEF TableInv, GoneIsGone, Live
  <2>5. CoveredStays'
    <3>1. \A v \in Walks : Started(v)' => v \in younger'
      BY <1>1, <1>2, <2>1 DEF Started, InFlight
    <3> QED BY <1>1, <2>1, <2>3, <3>1 DEF CoveredStays, Live
  <2>6. UncoveredGoes'
    BY <1>1, <2>3 DEF UncoveredGoes
  <2> QED BY <1>3, <2>4, <2>5, <2>6 DEF TableInv
<1> QED BY <1>4, <1>5

LEMMA TableSweep ==
  ASSUME TypeOK, TableInv, NEW w \in Walks, Sweep(w) PROVE TableInv'
<1>1. /\ OnPlane /\ UNCHANGED <<mode, github>> /\ walk[w].stage = "sweeping"
      /\ walk' = [walk EXCEPT ![w] = Resting] /\ younger' = younger \ {w}
      /\ row' = IF ~walk[w].held /\ Live(walk[w].id) /\ w \notin younger
                THEN [row EXCEPT !.live = FALSE] ELSE row
  BY DEF Sweep, Walking
<1>2. /\ walk'[w].stage = "idle" /\ ~walk'[w].current
      /\ \A v \in Walks : v # w => walk'[v] = walk[v]
  BY <1>1, Unfolded, RestingTyped DEF Slots
<1>. DEFINE s == seen.settled \/ walk[w].current
<1>3. seen' = [seen EXCEPT !.settled = s]
  BY DEF Sweep
<1>4. seen'.settled = s /\ seen'.late = seen.late /\ seen'.gone = seen.gone
  BY <1>3, Unfolded DEF Memories
<1>5. seen'.settled <=> seen.settled \/ walk[w].current
  BY <1>4
<1> HIDE DEF s
<1>6. row.id = row'.id /\ (row'.live => row.live)
  BY <1>1, Unfolded DEF TypeOK
<1>7. ListsAreTrue' /\ GoneIsGone'
  BY <1>1, <1>2, <1>4, <1>6 DEF TableInv, ListsAreTrue, GoneIsGone, Started, Live
<1>8. CoveredStays'
  <2>. SUFFICES ASSUME ~seen.late, github.holds, Recorded'
                PROVE  Live(github.id)' /\ \A v \in Walks : Started(v)' /\ ~walk'[v].current => v \in younger'
    BY <1>1, <1>4 DEF CoveredStays
  <2>1. Recorded
    BY <1>1, <1>2, <1>5 DEF Recorded
  <2>2. Live(github.id) /\ \A v \in Walks : Started(v) /\ ~walk[v].current => v \in younger
    BY <1>1, <2>1 DEF TableInv, CoveredStays
  <2>3. walk[w].held \/ ~Live(walk[w].id) \/ w \in younger
    <3>1. CASE walk[w].current
      BY <1>1, <3>1 DEF TableInv, ListsAreTrue
    <3>2. CASE ~walk[w].current
      BY <1>1, <2>2, <3>2 DEF Started
    <3> QED BY <3>1, <3>2
  <2>4. row' = row
    BY <1>1, <2>3
  <2> QED BY <1>1, <1>2, <2>2, <2>4 DEF Live, Started
<1>9. UncoveredGoes'
  <2>. SUFFICES ASSUME ~seen.late, ~github.holds
                PROVE  /\ \A v \in Walks : walk'[v].current => v \notin younger'
                       /\ seen'.settled => ~Live(github.id)'
    BY <1>1, <1>4 DEF UncoveredGoes
  <2>1. \A v \in Walks : walk[v].current => v \notin younger
    BY <1>1 DEF TableInv, UncoveredGoes
  <2>2. CASE seen.settled
    BY <1>1, <1>6, <2>2 DEF TableInv, UncoveredGoes, Live
  <2>3. CASE walk[w].current
    <3>1. w \notin younger /\ walk[w].id = github.id /\ ~walk[w].held
      BY <1>1, <2>1, <2>3 DEF TableInv, ListsAreTrue
    <3>2. CASE Live(walk[w].id)
      <4>1. row' = [row EXCEPT !.live = FALSE]
        BY <1>1, <3>1, <3>2
      <4>2. ~row'.live
        BY <4>1 DEF TypeOK
      <4> QED BY <1>1, <1>2, <1>5, <2>1, <4>2 DEF Live
    <3>3. CASE ~Live(walk[w].id)
      <4>1. row' = row
        BY <1>1, <3>3
      <4>2. github' = github /\ ~(row.live /\ row.id = github.id)
        BY <1>1, <3>1, <3>3 DEF Live
      <4> QED BY <1>2, <1>1, <2>1, <4>1, <4>2 DEF Live
    <3> QED BY <3>2, <3>3
  <2> QED BY <1>1, <1>2, <1>5, <2>1, <2>2, <2>3
<1> QED BY <1>7, <1>8, <1>9 DEF TableInv

LEMMA TableStep == TypeOK /\ GitHubIsSound /\ TableInv /\ [Next]_vars => TableInv'
<1>. SUFFICES ASSUME TypeOK, GitHubIsSound, TableInv, [Next]_vars PROVE TableInv'
  OBVIOUS
<1>0. walk \in Slots /\ seen \in Memories
  BY Unfolded
<1>1. CASE (\E holds \in BOOLEAN : Install(holds) \/ Select(holds)) \/ Uninstall \/ Deselect
  BY <1>1, TableChanged
<1>2. CASE ReportIssue \/ \E d \in post : Lose(d)
  <2>1. UNCHANGED <<mode, github, row, walk, younger>>
    BY <1>2 DEF ReportIssue, Lose
  <2>2. seen'.late = seen.late /\ seen'.settled = seen.settled /\ seen'.gone = seen.gone
    BY <1>0, <1>2 DEF ReportIssue, Lose, Memories
  <2> QED BY <2>1, <2>2, TableKept
<1>3. ASSUME NEW d \in post, HandleUninstall(d) PROVE TableInv'
  <2>1. /\ OnPlane /\ UNCHANGED <<mode, github, walk, younger>>
        /\ Says(d) = [about |-> "removed", app |-> TRUE]
        /\ row' = IF Live(d.id) THEN [row EXCEPT !.live = FALSE] ELSE row
        /\ seen' = Acted(d)
    BY <1>3 DEF HandleUninstall, ForgetInstallation
  <2>2. d.action = "deleted"
    BY <2>1 DEF GitHubIsSound, Says
  <2>3. d.id \in github.issued /\ d.id # github.id
    BY <2>2 DEF GitHubIsSound
  <2>4. seen'.late = seen.late /\ seen'.settled = seen.settled /\ seen'.gone = seen.gone \cup {d.id}
    BY <1>0, <2>1, <2>2 DEF Acted, Memories
  <2>5. row'.id = row.id /\ (row'.live => row.live) /\ (row.id = d.id => ~row'.live)
        /\ (row.id # d.id => row'.live = row.live)
    BY <2>1, Unfolded DEF Live, TypeOK
  <2>6. ListsAreTrue' /\ GoneIsGone'
    BY <2>1, <2>3, <2>4, <2>5 DEF TableInv, ListsAreTrue, GoneIsGone, Started, Live
  <2>7. Recorded' <=> Recorded
    BY <2>1, <2>4 DEF Recorded
  <2>8. CoveredStays' /\ UncoveredGoes'
    BY <2>1, <2>3, <2>4, <2>5, <2>7 DEF TableInv, CoveredStays, UncoveredGoes, Started, Live
  <2> QED BY <2>6, <2>8 DEF TableInv
<1>4. ASSUME NEW d \in post, NEW w \in Walks, HandleChange(d, w) PROVE TableInv'
  <2>. DEFINE new == [Resting EXCEPT !.stage = "minting", !.id = d.id]
  <2>1. /\ OnPlane /\ UNCHANGED <<mode, github, row, younger>> /\ seen' = Acted(d)
        /\ walk' = [walk EXCEPT ![w] = new]
        /\ Says(d) # [about |-> "removed", app |-> TRUE]
    BY <1>4 DEF HandleChange
  <2>2. ~new.current /\ new.stage = "minting"
    BY DEF Resting
  <2>3. d.action # "deleted"
    BY <2>1 DEF GitHubIsSound, Says
  <2>4. seen'.late = seen.late /\ seen'.settled = seen.settled /\ seen'.gone = seen.gone
    BY <1>0, <2>1, <2>3 DEF Acted, Memories
  <2> HIDE DEF new
  <2> QED BY <2>1, <2>2, <2>4, WalkRests
<1>5. CASE \E d \in post : IgnoreIssue(d)
  BY <1>5, TableKept DEF IgnoreIssue
<1>6. ASSUME NEW w \in Walks, WalkRefused(w) \/ WalkFails(w) PROVE TableInv'
  <2>1. /\ OnPlane /\ UNCHANGED <<mode, github, row, seen>>
        /\ walk' = [walk EXCEPT ![w] = Resting] /\ younger' = younger \ {w}
    BY <1>6 DEF WalkRefused, WalkFails, Walking
  <2> QED BY <2>1, RestingTyped, WalkRests
<1>7. CASE PlaneRestarts
  <2>1. /\ OnPlane /\ UNCHANGED <<mode, github, row, seen>> /\ younger' = {}
        /\ \A w \in Walks : walk'[w] = Resting
    BY <1>7 DEF PlaneRestarts
  <2>2. \A w \in Walks : ~walk'[w].current /\ ~Started(w)'
    BY <2>1, RestingTyped DEF Started
  <2>3. Recorded' => Recorded
    BY <2>1, <2>2 DEF Recorded
  <2> QED BY <2>1, <2>2, <2>3
          DEF TableInv, ListsAreTrue, GoneIsGone, CoveredStays, UncoveredGoes, Live
<1>8. CASE Local
  <2>1. ~OnPlane'
    BY <1>8, LocalFrame DEF Locally, OnPlane
  <2> QED BY <2>1 DEF TableInv
<1>9. CASE UNCHANGED vars
  BY <1>9, TableKept DEF vars
<1> QED BY <1>1, <1>2, <1>3, <1>4, <1>5, <1>6, <1>7, <1>8, <1>9,
           TableMint, TableList, TableRecord, TableSweep
        DEF Next, World, Plane

(* The plane's row of a repository says what GitHub says once a reconcile begun after the last
   change is over and no reconcile is left, whatever deliveries were lost, repeated or overtaken,
   and an uninstall is never undone - unless a reconcile recorded a list that was not true any
   more. *)
THEOREM RowsFollowGitHub == Spec => []TableFollowsGitHub
<1>1. Init => TableInv
  <2>. SUFFICES ASSUME Init PROVE TableInv
    OBVIOUS
  <2>1. \A w \in Walks : walk[w] = Resting
    BY DEF Init
  <2>2. \A w \in Walks : ~walk[w].current /\ ~Started(w)
    BY <2>1 DEF Resting, Started
  <2>3. ~row.live /\ seen.gone = {} /\ ~seen.settled /\ ~github.holds
    BY DEF Init
  <2> QED BY <2>2, <2>3
          DEF TableInv, ListsAreTrue, GoneIsGone, CoveredStays, UncoveredGoes, Recorded, Live
<1>2. TypeOK /\ TableInv => TableFollowsGitHub
  BY DEF TypeOK, TableInv, TableFollowsGitHub, GoneIsGone, CoveredStays, UncoveredGoes, Recorded
<1> QED BY <1>1, <1>2, TableStep, TypeCorrect, PTL DEF Spec
-----------------------------------------------------------------------------
(***************************************************************************)
(* The local queue.  What an issue is owed was settled when it was         *)
(* accepted; what it meets is the row when its turn comes.  They agree     *)
(* because every installation accepted before it is handled before it.     *)
(***************************************************************************)
SpeaksOf(t) == t.about \in {"added", "removed"} /\ t.named
LeavesLive(t, live) == IF SpeaksOf(t) THEN t.about = "added" ELSE live

\* What the row will be at turn n of q is o: as it is now if nothing before n speaks of the
\* installation, and otherwise as the last to speak says.
Meets(q, live, n, o) ==
  /\ (\A j \in 1..(n - 1) : ~SpeaksOf(q[j])) => (o <=> live)
  /\ \A m \in 1..(n - 1) :
       SpeaksOf(q[m]) /\ (\A j \in (m + 1)..(n - 1) : ~SpeaksOf(q[j])) => (o <=> q[m].about = "added")

Orderly(q, live, told) ==
  /\ Meets(q, live, Len(q) + 1, told)
  /\ \A n \in 1..Len(q) : q[n].about = "issue" => Meets(q, live, n, q[n].owed)

LEMMA OrderlyAppended ==
  ASSUME NEW q \in Seq(Tasks), NEW t \in Tasks, NEW live \in BOOLEAN, NEW told \in BOOLEAN,
         Orderly(q, live, told), t.about = "issue" => (t.owed <=> told)
  PROVE  Orderly(Append(q, t), live, LeavesLive(t, told))
<1>. DEFINE p == Append(q, t)
<1>1. /\ Len(q) \in Nat /\ Len(p) = Len(q) + 1 /\ p[Len(q) + 1] = t
      /\ \A n \in 1..Len(q) : p[n] = q[n]
  BY LenProperties, AppendProperties
<1> HIDE DEF p
<1>2. ASSUME NEW n \in 1..(Len(q) + 1), NEW o, Meets(q, live, n, o) PROVE Meets(p, live, n, o)
  BY <1>1, <1>2 DEF Meets
<1>3. ASSUME NEW n \in 1..Len(p), p[n].about = "issue" PROVE Meets(p, live, n, p[n].owed)
  <2>1. CASE n \in 1..Len(q)
    BY <1>1, <1>2, <1>3, <2>1 DEF Orderly
  <2>2. CASE n = Len(q) + 1
    <3>1. Meets(p, live, n, told)
      BY <1>1, <1>2, <2>2 DEF Orderly
    <3>2. p[n].owed <=> told
      BY <1>1, <1>3, <2>2
    <3> QED BY <3>1, <3>2 DEF Meets
  <2> QED BY <1>1, <1>3, <2>1, <2>2
<1>4. Meets(p, live, Len(p) + 1, LeavesLive(t, told))
  <2>1. CASE SpeaksOf(t)
    <3>1. SpeaksOf(p[Len(q) + 1]) /\ (LeavesLive(t, told) <=> p[Len(q) + 1].about = "added")
      BY <1>1, <2>1 DEF LeavesLive
    <3>2. (Len(p) + 1) - 1 = Len(q) + 1 /\ Len(q) + 1 \in 1..(Len(q) + 1)
      BY <1>1
    <3>3. \A m \in 1..(Len(q) + 1) : m # Len(q) + 1 => Len(q) + 1 \in (m + 1)..(Len(q) + 1)
      BY <1>1
    <3> QED BY <3>1, <3>2, <3>3 DEF Meets
  <2>2. CASE ~SpeaksOf(t)
    <3>1. Meets(q, live, Len(q) + 1, told) /\ LeavesLive(t, told) = told
      BY <2>2 DEF Orderly, LeavesLive
    <3>2. (Len(p) + 1) - 1 = Len(q) + 1 /\ (Len(q) + 1) - 1 = Len(q) /\ ~SpeaksOf(p[Len(q) + 1])
      BY <1>1, <2>2
    <3>3. (\A j \in 1..(Len(q) + 1) : ~SpeaksOf(p[j])) => (\A j \in 1..Len(q) : ~SpeaksOf(q[j]))
      BY <1>1
    <3>4. ASSUME NEW m \in 1..(Len(q) + 1), SpeaksOf(p[m]),
                 \A j \in (m + 1)..(Len(q) + 1) : ~SpeaksOf(p[j])
          PROVE  m \in 1..Len(q) /\ SpeaksOf(q[m]) /\ p[m] = q[m]
                 /\ \A j \in (m + 1)..Len(q) : ~SpeaksOf(q[j])
      <4>1. m \in 1..Len(q)
        BY <1>1, <3>2, <3>4
      <4>2. \A j \in (m + 1)..Len(q) : j \in 1..Len(q) /\ j \in (m + 1)..(Len(q) + 1)
        BY <1>1
      <4> QED BY <1>1, <3>4, <4>1, <4>2
    <3> QED BY <3>1, <3>2, <3>3, <3>4 DEF Meets
  <2> QED BY <2>1, <2>2
<1> QED BY <1>3, <1>4 DEF Orderly, p

LEMMA OrderlyDropped ==
  ASSUME NEW q \in Seq(Tasks), q # <<>>, NEW live \in BOOLEAN, NEW told \in BOOLEAN,
         Orderly(q, live, told)
  PROVE  Orderly(Tail(q), LeavesLive(q[1], live), told)
<1>. DEFINE p == Tail(q)
<1>1. /\ Len(q) \in Nat /\ Len(q) > 0 /\ Len(p) = Len(q) - 1
      /\ \A n \in 1..Len(p) : p[n] = q[n + 1]
  BY LenProperties, HeadTailProperties, EmptySeq
<1> HIDE DEF p
<1>2. ASSUME NEW n \in 1..(Len(p) + 1), NEW o, Meets(q, live, n + 1, o)
      PROVE  Meets(p, LeavesLive(q[1], live), n, o)
  <2>0. (n + 1) - 1 = n /\ n \in 1..Len(q) /\ 1 \in 1..n
    BY <1>1
  <2>1. ASSUME \A j \in 1..(n - 1) : ~SpeaksOf(p[j]) PROVE o <=> LeavesLive(q[1], live)
    <3>1. \A j \in 2..n : ~SpeaksOf(q[j])
      <4>1. \A j \in 2..n : j - 1 \in 1..(n - 1) /\ p[j - 1] = q[j]
        BY <1>1
      <4> QED BY <2>1, <4>1
    <3>2. CASE SpeaksOf(q[1])
      BY <1>2, <2>0, <3>1, <3>2 DEF Meets, LeavesLive
    <3>3. CASE ~SpeaksOf(q[1])
      <4>1. \A j \in 1..n : ~SpeaksOf(q[j])
        BY <2>0, <3>1, <3>3
      <4> QED BY <1>2, <2>0, <3>3, <4>1 DEF Meets, LeavesLive
    <3> QED BY <3>2, <3>3
  <2>2. ASSUME NEW m \in 1..(n - 1), SpeaksOf(p[m]), \A j \in (m + 1)..(n - 1) : ~SpeaksOf(p[j])
        PROVE  o <=> p[m].about = "added"
    <3>1. m + 1 \in 1..n /\ p[m] = q[m + 1]
      BY <1>1, <2>0
    <3>2. \A j \in ((m + 1) + 1)..n : j - 1 \in (m + 1)..(n - 1) /\ p[j - 1] = q[j]
      BY <1>1, <2>0
    <3>3. \A j \in ((m + 1) + 1)..n : ~SpeaksOf(q[j])
      BY <2>2, <3>2
    <3> QED BY <1>2, <2>0, <2>2, <3>1, <3>3 DEF Meets
  <2> QED BY <2>1, <2>2 DEF Meets
<1>3. Meets(p, LeavesLive(q[1], live), Len(p) + 1, told)
  <2>1. (Len(p) + 1) + 1 = Len(q) + 1 /\ Len(p) + 1 \in 1..(Len(p) + 1)
    BY <1>1
  <2> QED BY <1>2, <2>1 DEF Orderly
<1>4. ASSUME NEW n \in 1..Len(p), p[n].about = "issue"
      PROVE  Meets(p, LeavesLive(q[1], live), n, p[n].owed)
  <2>1. n + 1 \in 1..Len(q) /\ p[n] = q[n + 1] /\ n \in 1..(Len(p) + 1)
    BY <1>1
  <2> QED BY <1>2, <1>4, <2>1 DEF Orderly
<1> QED BY <1>3, <1>4 DEF Orderly, p

QueueInOrder ==
  Locally /\ ~seen.lost =>
    /\ Orderly(tail, row.live, seen.told)
    /\ doing \in {"recipe", "running"} => AtHead("issue") /\ row.live
QueueInv == IssuesMeetTheirInstallation /\ QueueInOrder

\* What the invariant reads is as it was.
LEMMA QueueKept ==
  ASSUME QueueInv, UNCHANGED <<mode, tail, row, doing>>, seen.lost => seen'.lost,
         ~seen'.lost => seen'.told = seen.told, seen'.answers = seen.answers
  PROVE  QueueInv'
BY DEF QueueInv, QueueInOrder, IssuesMeetTheirInstallation, Locally, AtHead

\* The head, which is no issue, is over.
LEMMA QueueDrops ==
  ASSUME TypeOK, QueueInv, UNCHANGED mode, tail # <<>>, tail' = Tail(tail), doing' = "waiting",
         row'.live = LeavesLive(tail[1], row.live),
         seen'.lost = seen.lost, seen'.told = seen.told, seen'.answers = seen.answers
  PROVE  QueueInv'
<1>1. ASSUME Locally, ~seen.lost PROVE Orderly(tail', row'.live, seen'.told)
  <2>1. tail \in Seq(Tasks) /\ row.live \in BOOLEAN /\ seen.told \in BOOLEAN
    BY Unfolded DEF Memories
  <2>2. Orderly(tail, row.live, seen.told)
    BY <1>1 DEF QueueInv, QueueInOrder
  <2> QED BY <2>1, <2>2, OrderlyDropped
<1> QED BY <1>1 DEF QueueInv, QueueInOrder, IssuesMeetTheirInstallation, Locally

\* The head, an issue, is answered as the row has it.
LEMMA QueueAnswers ==
  ASSUME TypeOK, QueueInv, Locally, UNCHANGED mode, AtHead("issue"),
         NEW how \in {"ignored", "commented", "ran", "failed"}, Answer(how),
         ~seen.lost => how = "failed" \/ (row.live <=> how # "ignored")
  PROVE  QueueInv'
<1>0. tail # <<>> /\ tail[1].about = "issue"
  BY DEF AtHead
<1>1. /\ tail' = Tail(tail) /\ doing' = "waiting" /\ UNCHANGED row
      /\ seen'.answers = seen.answers \cup {Outcome(how)}
      /\ seen'.lost = seen.lost /\ seen'.told = seen.told
  BY <1>0, AnswerMeans DEF Settle
<1>2. tail \in Seq(Tasks) /\ row.live \in BOOLEAN /\ seen.told \in BOOLEAN
  BY Unfolded DEF Memories
<1>3. CASE seen.lost
  <2>1. QueueInOrder'
    BY <1>1, <1>3 DEF QueueInOrder, Locally
  <2> QED BY <1>1, <1>3, <2>1 DEF QueueInv, IssuesMeetTheirInstallation
<1>4. CASE ~seen.lost
  <2>1. Orderly(tail, row.live, seen.told)
    BY <1>4 DEF QueueInv, QueueInOrder
  <2>2. LeavesLive(tail[1], row.live) = row.live
    BY <1>0 DEF LeavesLive, SpeaksOf
  <2>3. Orderly(tail', row'.live, seen'.told)
    BY <1>0, <1>1, <1>2, <2>1, <2>2, OrderlyDropped
  <2>4. tail[1].owed <=> row.live
    <3>1. 1 \in 1..Len(tail)
      BY <1>0, <1>2, LenProperties, EmptySeq
    <3>2. Meets(tail, row.live, 1, tail[1].owed)
      BY <1>0, <2>1, <3>1 DEF Orderly
    <3>3. \A j \in 1..(1 - 1) : FALSE
      OBVIOUS
    <3> QED BY <3>2, <3>3 DEF Meets
  <2>5. Outcome(how).how = how /\ Outcome(how).owed = tail[1].owed
    BY DEF Outcome
  <2>6. \A a \in seen'.answers : a.how # "failed" => (a.owed <=> a.how # "ignored")
    BY <1>1, <1>4, <2>4, <2>5 DEF QueueInv, IssuesMeetTheirInstallation
  <2> QED BY <1>1, <2>3, <2>6 DEF QueueInv, QueueInOrder, IssuesMeetTheirInstallation
<1> QED BY <1>3, <1>4

LEMMA QueueLocal ==
  ASSUME TypeOK, QueueInv, Local PROVE QueueInv'
<1>0. Locally /\ UNCHANGED mode
  BY LocalFrame
<1>1. ASSUME NEW d \in post, Accept(d) PROVE QueueInv'
  <2>1. /\ tail' = Append(tail, TaskOf(d)) /\ UNCHANGED <<row, doing>>
        /\ seen'.lost = seen.lost /\ seen'.answers = seen.answers
        /\ seen'.told = (IF Says(d).about = "issue" \/ ~d.named THEN seen.told
                         ELSE Says(d).about = "added")
    BY <1>1, AcceptMeans
  <2>2. /\ tail \in Seq(Tasks) /\ row.live \in BOOLEAN /\ seen.told \in BOOLEAN
        /\ TaskOf(d) \in Tasks /\ Says(d).about \in {"added", "removed", "issue"}
    BY Unfolded, TasksTyped DEF Memories
  <2>3. /\ TaskOf(d).owed = seen.told /\ TaskOf(d).named = d.named
        /\ TaskOf(d).about = Says(d).about
    BY DEF TaskOf
  <2>4. seen'.told = LeavesLive(TaskOf(d), seen.told)
    BY <2>1, <2>2, <2>3 DEF LeavesLive, SpeaksOf
  <2>5. ASSUME ~seen.lost PROVE Orderly(tail', row'.live, seen'.told)
    BY <1>0, <2>1, <2>2, <2>3, <2>4, <2>5, OrderlyAppended DEF QueueInv, QueueInOrder
  <2>6. AtHead("issue") => AtHead("issue")'
    <3>1. tail # <<>> => tail' # <<>> /\ tail'[1] = tail[1]
      BY <2>1, <2>2, AppendProperties, LenProperties, EmptySeq
    <3> QED BY <3>1 DEF AtHead
  <2> QED BY <1>0, <2>1, <2>5, <2>6 DEF QueueInv, QueueInOrder, IssuesMeetTheirInstallation
<1>2. CASE AskForDraft \/ Approve \/ Signal \/ Drain \/ Exit
  BY <1>0, <1>2, QueueKept DEF AskForDraft, Approve, Signal, Drain, Exit
<1>3. CASE QueueDraft
  <2>1. /\ UNCHANGED <<row, doing, seen>> /\ tail' = Append(tail, DraftTask)
    BY <1>3 DEF QueueDraft, DraftTask
  <2>2. /\ tail \in Seq(Tasks) /\ row.live \in BOOLEAN /\ seen.told \in BOOLEAN
        /\ DraftTask \in Tasks /\ DraftTask.about = "draft"
    BY Unfolded, TasksTyped DEF Memories, DraftTask
  <2>3. LeavesLive(DraftTask, seen.told) = seen.told
    BY <2>2 DEF LeavesLive, SpeaksOf
  <2>4. ASSUME ~seen.lost PROVE Orderly(tail', row'.live, seen'.told)
    BY <1>0, <2>1, <2>2, <2>3, <2>4, OrderlyAppended DEF QueueInv, QueueInOrder
  <2>5. AtHead("issue") => AtHead("issue")'
    <3>1. tail # <<>> => tail' # <<>> /\ tail'[1] = tail[1]
      BY <2>1, <2>2, AppendProperties, LenProperties, EmptySeq
    <3> QED BY <3>1 DEF AtHead
  <2> QED BY <1>0, <2>1, <2>4, <2>5 DEF QueueInv, QueueInOrder, IssuesMeetTheirInstallation
<1>4. CASE Record
  <2>1. /\ tail # <<>> /\ tail[1].about \in {"added", "removed"} /\ Settle /\ UNCHANGED seen
        /\ \/ ~tail[1].named /\ UNCHANGED <<row, younger>>
           \/ tail[1].named /\ tail[1].about = "added" /\ RecordInstallation(tail[1].id)
           \/ tail[1].named /\ tail[1].about = "removed" /\ RemoveInstallation
    BY <1>4 DEF Record
  <2>2. tail[1] \in Tasks /\ row \in Rows
    BY <2>1, Unfolded DEF TypeOK, Rows
  <2>3. row'.live = LeavesLive(tail[1], row.live)
    <3>1. CASE ~tail[1].named
      BY <2>1, <3>1 DEF LeavesLive, SpeaksOf
    <3>2. CASE tail[1].named /\ tail[1].about = "added"
      <4>1. row'.live = TRUE
        BY <2>1, <3>2 DEF RecordInstallation
      <4>2. LeavesLive(tail[1], row.live) = TRUE
        BY <3>2 DEF LeavesLive, SpeaksOf
      <4> QED BY <4>1, <4>2
    <3>3. CASE tail[1].named /\ tail[1].about # "added"
      BY <2>1, <2>2, <3>3 DEF LeavesLive, SpeaksOf, RemoveInstallation, Rows
    <3> QED BY <3>1, <3>2, <3>3
  <2> QED BY <1>0, <2>1, <2>3, QueueDrops DEF Settle
<1>5. CASE RecordFails
  <2>1. seen' = [seen EXCEPT !.lost = TRUE] /\ seen \in Memories
    BY <1>5, Unfolded DEF RecordFails
  <2>2. seen'.lost
    BY <2>1 DEF Memories
  <2> QED BY <2>2 DEF QueueInv, QueueInOrder, IssuesMeetTheirInstallation
<1>6. CASE LookUpInstallation
  <2>1. CASE row.live
    <3>1. AtHead("issue") /\ UNCHANGED <<tail, row, seen>>
      BY <1>6, <2>1 DEF LookUpInstallation
    <3> QED BY <1>0, <2>1, <3>1
            DEF QueueInv, QueueInOrder, IssuesMeetTheirInstallation, AtHead, Locally
  <2>2. CASE ~row.live
    BY <1>0, <1>6, <2>2, QueueAnswers DEF LookUpInstallation
  <2> QED BY <2>1, <2>2
<1>7. CASE LookUpRecipe
  <2>1. AtHead("issue") /\ (~seen.lost => row.live)
    BY <1>0, <1>7 DEF LookUpRecipe, QueueInv, QueueInOrder
  <2>2. CASE onboarded
    <3>1. UNCHANGED <<tail, row, seen>>
      BY <1>7, <2>2 DEF LookUpRecipe
    <3> QED BY <1>0, <2>1, <3>1
            DEF QueueInv, QueueInOrder, IssuesMeetTheirInstallation, AtHead, Locally
  <2>3. CASE ~onboarded
    BY <1>0, <1>7, <2>1, <2>3, QueueAnswers DEF LookUpRecipe
  <2> QED BY <2>2, <2>3
<1>8. CASE RunEnds
  <2>1. AtHead("issue") /\ (~seen.lost => row.live) /\ Answer("ran")
    BY <1>0, <1>8 DEF RunEnds, QueueInv, QueueInOrder
  <2> QED BY <1>0, <2>1, QueueAnswers
<1>9. CASE IssueFails
  BY <1>0, <1>9, QueueAnswers DEF IssueFails
<1>10. CASE LookUpForDraft \/ DraftEnds \/ LookUpForDraftFails
  <2>1. AtHead("draft") /\ UNCHANGED <<row, seen>>
    BY <1>10 DEF LookUpForDraft, DraftEnds, LookUpForDraftFails
  <2>2. \/ UNCHANGED tail /\ doing' = "drafting"
        \/ tail' = Tail(tail) /\ doing' = "waiting"
    BY <1>10 DEF LookUpForDraft, DraftEnds, LookUpForDraftFails, Settle
  <2>3. CASE UNCHANGED tail /\ doing' = "drafting"
    BY <1>0, <2>1, <2>3 DEF QueueInv, QueueInOrder, IssuesMeetTheirInstallation, Locally
  <2>4. CASE tail' = Tail(tail) /\ doing' = "waiting"
    <3>1. tail # <<>> /\ LeavesLive(tail[1], row.live) = row.live
      BY <2>1 DEF AtHead, LeavesLive, SpeaksOf
    <3> QED BY <1>0, <2>1, <2>4, <3>1, QueueDrops
  <2> QED BY <2>2, <2>3, <2>4
<1> QED BY <1>1, <1>2, <1>3, <1>4, <1>5, <1>6, <1>7, <1>8, <1>9, <1>10 DEF Local, Turn

LEMMA QueueStep == TypeOK /\ GitHubIsSound /\ QueueInv /\ [Next]_vars => QueueInv'
<1>. SUFFICES ASSUME TypeOK, GitHubIsSound, QueueInv, [Next]_vars PROVE QueueInv'
  OBVIOUS
<1>0. seen \in Memories
  BY Unfolded
<1>1. CASE (\E holds \in BOOLEAN : Install(holds) \/ Select(holds)) \/ Uninstall \/ Deselect
  <2>1. PICK d \in Deliveries : Changed(github', d)
    BY <1>1, Changing
  <2>2. UNCHANGED <<mode, tail, row, doing>> /\ seen' = [seen EXCEPT !.settled = FALSE]
    BY <2>1 DEF Changed
  <2> QED BY <1>0, <2>2, QueueKept DEF Memories
<1>2. CASE ReportIssue \/ \E d \in post : Lose(d)
  <2>1. UNCHANGED <<mode, tail, row, doing>>
        /\ (seen' = seen \/ seen' = [seen EXCEPT !.lost = TRUE])
    BY <1>2 DEF ReportIssue, Lose
  <2> QED BY <1>0, <2>1, QueueKept DEF Memories
<1>3. CASE Plane
  <2>1. ~Locally' /\ ~Locally
    BY <1>3, PlaneFrame DEF Locally, OnPlane
  <2>2. seen'.lost = seen.lost /\ seen'.answers = seen.answers
    <3>1. \A d \in post : seen' = Acted(d) => seen'.lost = seen.lost /\ seen'.answers = seen.answers
      BY <1>0 DEF Acted, Memories
    <3>2. \A w \in Walks : \/ seen' = [seen EXCEPT !.late = @ \/ github.id # walk[w].id \/ ~github.holds]
                           \/ seen' = [seen EXCEPT !.settled = @ \/ walk[w].current]
            => seen'.lost = seen.lost /\ seen'.answers = seen.answers
      BY <1>0 DEF Memories
    <3>3. CASE \E d \in post : HandleUninstall(d) \/ \E w \in Walks : HandleChange(d, w)
      BY <3>1, <3>3 DEF HandleUninstall, HandleChange
    <3>4. CASE \E w \in Walks : RecordHeld(w) \/ Sweep(w)
      BY <3>2, <3>4 DEF RecordHeld, Sweep
    <3>5. CASE \/ \E d \in post : IgnoreIssue(d)
               \/ \E w \in Walks : MintToken(w) \/ List(w) \/ WalkRefused(w) \/ WalkFails(w)
               \/ PlaneRestarts
      BY <3>5 DEF IgnoreIssue, MintToken, List, WalkRefused, WalkFails, PlaneRestarts
    <3> QED BY <1>3, <3>3, <3>4, <3>5 DEF Plane
  <2> QED BY <2>1, <2>2 DEF QueueInv, QueueInOrder, IssuesMeetTheirInstallation
<1>4. CASE Local
  BY <1>4, QueueLocal
<1>5. CASE UNCHANGED vars
  BY <1>5, QueueKept DEF vars
<1> QED BY <1>1, <1>2, <1>3, <1>4, <1>5 DEF Next, World

(* An issue is judged by the installation as of the deliveries accepted before it, and by none
   accepted after: it is ignored exactly when it is not owed a run. *)
THEOREM IssuesAreJudgedInOrder == Spec => []IssuesMeetTheirInstallation
<1>1. Init => QueueInv
  <2>. SUFFICES ASSUME Init PROVE QueueInv
    OBVIOUS
  <2>1. /\ tail = <<>> /\ Len(tail) = 0 /\ ~row.live /\ ~seen.told /\ seen.answers = {}
        /\ doing = "waiting"
    BY EmptySeq DEF Init
  <2>2. \A n \in 1..((0 + 1) - 1) : FALSE
    OBVIOUS
  <2>3. Orderly(tail, row.live, seen.told)
    BY <2>1, <2>2 DEF Orderly, Meets
  <2> QED BY <2>1, <2>3 DEF QueueInv, QueueInOrder, IssuesMeetTheirInstallation
<1>2. QueueInv => IssuesMeetTheirInstallation
  BY DEF QueueInv
<1> QED BY <1>1, <1>2, QueueStep, TypeCorrect, PTL DEF Spec
-----------------------------------------------------------------------------
(***************************************************************************)
(* Shutdown.  Nothing but a draft is queued behind what drain() waits for. *)
(***************************************************************************)
ShutdownInv ==
  /\ server.life \in {"draining", "exited"} =>
       \A n \in 1..Len(tail) : n > server.awaits => tail[n].about = "draft"
  /\ server.life = "exited" => server.awaits = 0

LEMMA ShutdownDrops ==
  ASSUME TypeOK, ShutdownInv, tail # <<>>, Settle PROVE ShutdownInv'
<1>1. /\ server'.life = server.life
      /\ server'.awaits = IF server.awaits > 0 THEN server.awaits - 1 ELSE 0
      /\ server.awaits \in Nat /\ tail' = Tail(tail) /\ tail \in Seq(Tasks)
  BY SettleTyped, Unfolded DEF Settle, Lives
<1>2. /\ Len(tail) \in Nat /\ Len(tail') = Len(tail) - 1
      /\ \A n \in 1..Len(tail') : tail'[n] = tail[n + 1]
  BY <1>1, LenProperties, HeadTailProperties, EmptySeq
<1>3. ASSUME server.life \in {"draining", "exited"}, NEW n \in 1..Len(tail'), n > server'.awaits
      PROVE  tail'[n].about = "draft"
  <2>1. n + 1 \in 1..Len(tail) /\ n + 1 > server.awaits
    BY <1>1, <1>2, <1>3
  <2> QED BY <1>2, <1>3, <2>1 DEF ShutdownInv
<1> QED BY <1>1, <1>3 DEF ShutdownInv

LEMMA ShutdownLocal ==
  ASSUME TypeOK, ShutdownInv, Local PROVE ShutdownInv'
<1>0. tail \in Seq(Tasks) /\ Len(tail) \in Nat /\ server \in Lives
  BY Unfolded, LenProperties
<1>1. ASSUME NEW d \in post, Accept(d) PROVE ShutdownInv'
  BY <1>1, AcceptMeans DEF ShutdownInv
<1>2. CASE AskForDraft \/ Approve
  BY <1>2 DEF AskForDraft, Approve, ShutdownInv
<1>3. CASE QueueDraft
  <2>1. UNCHANGED server /\ tail' = Append(tail, DraftTask) /\ DraftTask.about = "draft"
    BY <1>3 DEF QueueDraft, DraftTask
  <2>2. /\ Len(tail') = Len(tail) + 1 /\ tail'[Len(tail) + 1] = DraftTask
        /\ \A n \in 1..Len(tail) : tail'[n] = tail[n]
    BY <1>0, <2>1, TasksTyped, AppendProperties
  <2>3. \A n \in 1..Len(tail') : n \in 1..Len(tail) \/ n = Len(tail) + 1
    BY <1>0, <2>2
  <2> QED BY <2>1, <2>2, <2>3 DEF ShutdownInv
<1>4. CASE Record \/ RecordFails
  BY <1>4, ShutdownDrops DEF Record, RecordFails
<1>5. ASSUME NEW how, Answer(how), tail # <<>> PROVE ShutdownInv'
  BY <1>5, ShutdownDrops DEF Answer
<1>6. ASSUME UNCHANGED <<tail, server>> PROVE ShutdownInv'
  BY <1>6 DEF ShutdownInv
<1>7. CASE LookUpInstallation \/ LookUpRecipe \/ RunEnds \/ IssueFails
  BY <1>5, <1>6, <1>7 DEF LookUpInstallation, LookUpRecipe, RunEnds, IssueFails, AtHead
<1>8. CASE LookUpForDraft \/ DraftEnds
  BY <1>6, <1>8, ShutdownDrops DEF LookUpForDraft, DraftEnds, AtHead
<1>9. CASE LookUpForDraftFails
  <2>1. server'.life = "dead"
    BY <1>0, <1>9 DEF LookUpForDraftFails, Lives
  <2> QED BY <2>1 DEF ShutdownInv
<1>10. CASE Signal
  <2>1. server'.life = "closing"
    BY <1>0, <1>10 DEF Signal, Lives
  <2> QED BY <2>1 DEF ShutdownInv
<1>11. CASE Drain
  <2>1. server'.life = "draining" /\ server'.awaits = Len(tail) /\ UNCHANGED tail
    BY <1>11 DEF Drain
  <2> QED BY <1>0, <2>1 DEF ShutdownInv
<1>12. CASE Exit
  <2>1. /\ server'.life = "exited" /\ server'.awaits = 0 /\ server.awaits = 0 /\ UNCHANGED tail
        /\ server.life = "draining"
    BY <1>0, <1>12 DEF Exit, Lives
  <2> QED BY <2>1 DEF ShutdownInv
<1> QED BY <1>1, <1>2, <1>3, <1>4, <1>7, <1>8, <1>9, <1>10, <1>11, <1>12 DEF Local, Turn

(* A server that stops on a signal has done all it acknowledged: every delivery was queued before
   the queue was waited for, and only a draft can have been queued since. *)
THEOREM NothingAcknowledgedIsLeft == Spec => []ShutdownFinishesTheQueue
<1>1. Init => ShutdownInv
  BY DEF Init, ShutdownInv
<1>2. TypeOK /\ GitHubIsSound /\ ShutdownInv /\ [Next]_vars => ShutdownInv'
  <2>. SUFFICES ASSUME TypeOK, GitHubIsSound, ShutdownInv, [Next]_vars PROVE ShutdownInv'
    OBVIOUS
  <2>1. CASE Local
    BY <2>1, ShutdownLocal
  <2>2. CASE Plane
    BY <2>2, PlaneFrame DEF ShutdownInv
  <2>3. CASE World
    <3>1. CASE (\E holds \in BOOLEAN : Install(holds) \/ Select(holds)) \/ Uninstall \/ Deselect
      <4>1. PICK d \in Deliveries : Changed(github', d)
        BY <3>1, Changing
      <4> QED BY <4>1 DEF Changed, ShutdownInv
    <3>2. CASE ReportIssue \/ \E d \in post : Lose(d)
      BY <3>2 DEF ReportIssue, Lose, ShutdownInv
    <3> QED BY <2>3, <3>1, <3>2 DEF World
  <2>4. CASE UNCHANGED vars
    BY <2>4 DEF vars, ShutdownInv
  <2> QED BY <2>1, <2>2, <2>3, <2>4 DEF Next
<1>3. TypeOK /\ ShutdownInv => ShutdownFinishesTheQueue
  BY Unfolded, LenProperties DEF ShutdownInv, ShutdownFinishesTheQueue
<1> QED BY <1>1, <1>2, <1>3, TypeCorrect, PTL DEF Spec
=============================================================================
