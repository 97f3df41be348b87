------------------------------- MODULE Intake -------------------------------
(***************************************************************************)
(* Deliveries from GitHub and what the two servers do with them, for one   *)
(* repository.  The plane (src/src/plane-server.ts) handles deliveries     *)
(* side by side and asks GitHub what an installation covers                *)
(* (installations.ts); the local server (serve.ts) puts everything on one  *)
(* queue, applies what a delivery names, and starts runs.                  *)
(*                                                                         *)
(* A statement, a request to GitHub or a turn of the queue is a step.      *)
(* Abstracted: signatures, payload shapes and other repositories (a list   *)
(* that is short or malformed is a walk that fails, whichever entry is     *)
(* wrong); the run, the drafting session and the comment are one step.     *)
(* Time: a row is younger than a walk when it was stamped after the walk   *)
(* noted its start, which is all the code compares.                        *)
(***************************************************************************)
EXTENDS Integers, Sequences, FiniteSets

CONSTANTS
  Ids,        \* installation ids, issued in ascending order
  Walks,      \* reconciles the plane may have in flight
  MaxChanges, \* bound, per server: changes at GitHub
  MaxIssues,  \* bound, per server: issues reported
  MaxFaults,  \* bound: failed statements and requests, lost or repeated deliveries, restarts
  None

ASSUME IntakeAssumption ==
  /\ Ids \subseteq Nat
  /\ MaxChanges \in [{"plane", "local"} -> Nat] /\ MaxIssues \in [{"plane", "local"} -> Nat]
  /\ MaxFaults \in Nat
  /\ None \notin Ids

VARIABLES
  mode,      \* scenario: "plane" or "local"
  github,    \* the installation there is, whether it covers the repository, which ids were issued
  post,      \* deliveries GitHub has yet to make
  row,       \* the repository's row of `installations`
  walk,      \* reconcileInstallation, per slot
  younger,   \* walks the row's connected_at is younger than
  tail,      \* the local server's queue, its head being the task at work
  doing,     \* how far that task is
  server,    \* the local server's life; `awaits`: tasks drain() still waits for
  request,   \* POST /draft on the local server
  onboarded, \* a recipe is approved
  changes, issues, faults,
  seen       \* history, for the properties only

vars == <<mode, github, post, row, walk, younger, tail, doing, server, request,
          onboarded, changes, issues, faults, seen>>

Deliveries == [event : {"installation", "installation_repositories", "issues"},
               action : {"created", "deleted", "added", "removed", "opened"},
               id : Ids, named : BOOLEAN]
Tasks == [about : {"added", "removed", "issue", "draft"}, id : Ids \cup {None},
          named : BOOLEAN, owed : BOOLEAN]
Resting == [stage |-> "idle", id |-> None, held |-> FALSE, current |-> FALSE]

TypeOK ==
  /\ mode \in {"plane", "local"}
  /\ github \in [id : Ids \cup {None}, holds : BOOLEAN, issued : SUBSET Ids]
  /\ post \subseteq Deliveries
  /\ row \in [id : Ids \cup {None}, live : BOOLEAN]
  /\ walk \in [Walks -> [stage : {"idle", "minting", "listing", "recording", "sweeping"},
                         id : Ids \cup {None}, held : BOOLEAN, current : BOOLEAN]]
  /\ younger \subseteq Walks
  /\ tail \in Seq(Tasks)
  /\ doing \in {"waiting", "recipe", "running", "drafting"}
  /\ server \in [life : {"up", "closing", "draining", "exited", "dead"}, awaits : Nat]
  /\ request \in {"none", "checking", "done"}
  /\ onboarded \in BOOLEAN
  /\ changes \in 0..MaxChanges[mode] /\ issues \in 0..MaxIssues[mode] /\ faults \in 0..MaxFaults
  /\ seen \in [late : BOOLEAN, settled : BOOLEAN, gone : SUBSET Ids, lost : BOOLEAN,
               told : BOOLEAN, answers : SUBSET [owed : BOOLEAN, how : {"ignored", "commented", "ran", "failed"}]]

Live(i) == row.live /\ row.id = i
InFlight == {w \in Walks : walk[w].stage # "idle"}
Fault == faults < MaxFaults /\ faults' = faults + 1
OnPlane == mode = "plane"
Locally == mode = "local"
-----------------------------------------------------------------------------
(* GitHub, and the people who change what the App may see. *)

Delivery(event, action, i, named) == [event |-> event, action |-> action, id |-> i, named |-> named]

\* What is covered changes, and GitHub has a delivery to make about it.
Changed(g, d) ==
  /\ changes < MaxChanges[mode]
  /\ changes' = changes + 1
  /\ github' = g /\ post' = post \cup {d}
  /\ walk' = [w \in Walks |-> [walk[w] EXCEPT !.current = FALSE]]
  /\ seen' = [seen EXCEPT !.settled = FALSE]
  /\ UNCHANGED <<mode, row, younger, tail, doing, server, request, onboarded, issues, faults>>

Install(holds) ==
  \E i \in Ids \ github.issued :
    /\ github.id = None /\ \A j \in Ids \ github.issued : i <= j
    /\ Changed([id |-> i, holds |-> holds, issued |-> github.issued \cup {i}],
               Delivery("installation", "created", i, holds))

Uninstall ==
  /\ github.id # None
  /\ Changed([github EXCEPT !.id = None, !.holds = FALSE],
             Delivery("installation", "deleted", github.id, github.holds))

\* Widening a selection to all repositories names none of them.
Select(named) ==
  /\ github.id # None /\ ~github.holds
  /\ Changed([github EXCEPT !.holds = TRUE],
             Delivery("installation_repositories", "added", github.id, named))

Deselect ==
  /\ github.holds
  /\ Changed([github EXCEPT !.holds = FALSE],
             Delivery("installation_repositories", "removed", github.id, TRUE))

ReportIssue ==
  /\ github.holds /\ issues < MaxIssues[mode]
  /\ issues' = issues + 1
  /\ post' = post \cup {Delivery("issues", "opened", github.id, TRUE)}
  /\ UNCHANGED <<mode, github, row, walk, younger, tail, doing, server, request, onboarded,
                 changes, faults, seen>>

\* GitHub could not deliver it, and nobody asks for it again.
Lose(d) ==
  /\ d \in post /\ Fault
  /\ post' = post \ {d}
  /\ seen' = [seen EXCEPT !.lost = TRUE]
  /\ UNCHANGED <<mode, github, row, walk, younger, tail, doing, server, request, onboarded,
                 changes, issues>>

\* Delivered, unless somebody presses "Redeliver" later.
Handed(d) == \/ post' = post \ {d} /\ UNCHANGED faults
             \/ UNCHANGED post /\ Fault
-----------------------------------------------------------------------------
(* installations.ts: the statements. *)

RecordInstallation(i) == row' = [id |-> i, live |-> TRUE] /\ younger' = InFlight

RemoveInstallation == row' = [row EXCEPT !.live = FALSE] /\ UNCHANGED younger

ForgetInstallation(i) ==
  /\ row' = IF Live(i) THEN [row EXCEPT !.live = FALSE] ELSE row
  /\ UNCHANGED younger

\* What a delivery says.  Only an `installation` event is about the App as a whole.
Says(d) ==
  IF d.event = "issues" THEN [about |-> "issue", app |-> FALSE]
  ELSE [about |-> IF d.action \in {"created", "added"} THEN "added" ELSE "removed",
        app |-> d.event = "installation"]
-----------------------------------------------------------------------------
(* The plane.  Each delivery is handled beside the others. *)

\* History: an uninstall has been acted on.
Acted(d) == [seen EXCEPT !.gone = IF d.action = "deleted" THEN @ \cup {d.id} ELSE @]

\* An uninstall is believed: there is nobody left to ask.
HandleUninstall(d) ==
  /\ OnPlane /\ d \in post
  /\ Says(d) = [about |-> "removed", app |-> TRUE]
  /\ Handed(d)
  /\ ForgetInstallation(d.id)
  /\ seen' = Acted(d)
  /\ UNCHANGED <<mode, github, walk, tail, doing, server, request, onboarded, changes, issues>>

\* Anything else about an installation: ask GitHub.
HandleChange(d, w) ==
  /\ OnPlane /\ d \in post /\ w \notin InFlight
  /\ Says(d).about # "issue" /\ Says(d) # [about |-> "removed", app |-> TRUE]
  /\ Handed(d)
  /\ walk' = [walk EXCEPT ![w] = [Resting EXCEPT !.stage = "minting", !.id = d.id]]
  /\ seen' = Acted(d)
  /\ UNCHANGED <<mode, github, row, younger, tail, doing, server, request, onboarded, changes, issues>>

IgnoreIssue(d) ==
  /\ OnPlane /\ d \in post /\ Says(d).about = "issue"
  /\ Handed(d)
  /\ UNCHANGED <<mode, github, row, walk, younger, tail, doing, server, request, onboarded,
                 changes, issues, seen>>

Walking(w) == OnPlane /\ UNCHANGED <<mode, github, post, tail, doing, server, request, onboarded, changes, issues>>

\* A token is minted for an installation that exists; then the start is noted.
MintToken(w) ==
  /\ Walking(w) /\ walk[w].stage = "minting" /\ github.id = walk[w].id
  /\ walk' = [walk EXCEPT ![w].stage = "listing", ![w].current = TRUE]
  /\ younger' = younger \ {w}
  /\ UNCHANGED <<row, faults, seen>>

List(w) ==
  /\ Walking(w) /\ walk[w].stage = "listing" /\ github.id = walk[w].id
  /\ walk' = [walk EXCEPT ![w].stage = "recording", ![w].held = github.holds]
  /\ UNCHANGED <<row, younger, faults, seen>>

RecordHeld(w) ==
  /\ Walking(w) /\ walk[w].stage = "recording"
  /\ walk' = [walk EXCEPT ![w].stage = "sweeping"]
  /\ IF walk[w].held
     THEN /\ RecordInstallation(walk[w].id)
          /\ seen' = [seen EXCEPT !.late = @ \/ github.id # walk[w].id \/ ~github.holds]
     ELSE UNCHANGED <<row, younger, seen>>
  /\ UNCHANGED faults

\* Everything it no longer lists, however young.
SweepUnfenced(w) ==
  /\ Walking(w) /\ walk[w].stage = "sweeping"
  /\ row' = IF ~walk[w].held /\ Live(walk[w].id) THEN [row EXCEPT !.live = FALSE] ELSE row
  /\ walk' = [walk EXCEPT ![w] = Resting]
  /\ younger' = younger \ {w}
  /\ seen' = [seen EXCEPT !.settled = @ \/ walk[w].current]
  /\ UNCHANGED faults

\* What the installation no longer lists is removed, unless it was stamped since the start.
Sweep(w) ==
  /\ Walking(w) /\ walk[w].stage = "sweeping"
  /\ row' = IF ~walk[w].held /\ Live(walk[w].id) /\ w \notin younger
            THEN [row EXCEPT !.live = FALSE] ELSE row
  /\ walk' = [walk EXCEPT ![w] = Resting]
  /\ younger' = younger \ {w}
  /\ seen' = [seen EXCEPT !.settled = @ \/ walk[w].current]
  /\ UNCHANGED faults

\* No token or no complete list: it throws, and the delivery has been acknowledged.
WalkRefused(w) ==
  /\ Walking(w) /\ walk[w].stage \in {"minting", "listing"} /\ github.id # walk[w].id
  /\ walk' = [walk EXCEPT ![w] = Resting] /\ younger' = younger \ {w}
  /\ UNCHANGED <<row, faults, seen>>

WalkFails(w) ==
  /\ Walking(w) /\ w \in InFlight /\ Fault
  /\ walk' = [walk EXCEPT ![w] = Resting] /\ younger' = younger \ {w}
  /\ UNCHANGED <<row, seen>>

PlaneRestarts ==
  /\ OnPlane /\ InFlight # {} /\ Fault
  /\ walk' = [w \in Walks |-> Resting] /\ younger' = {}
  /\ UNCHANGED <<mode, github, post, row, tail, doing, server, request, onboarded, changes, issues, seen>>
-----------------------------------------------------------------------------
(* The local server.  One queue; the task at its head is at work. *)

OnQueue == Locally /\ server.life \in {"up", "closing", "draining"}
           /\ UNCHANGED <<mode, github, walk, changes, issues>>
Accepting == server.life = "up"

\* An installation recorded as it arrives, beside the queue.
RecordsOnArrival(d) ==
  /\ OnQueue /\ Accepting /\ d \in post
  /\ Handed(d)
  /\ IF Says(d).about = "issue"
     THEN /\ tail' = Append(tail, [about |-> "issue", id |-> d.id, named |-> d.named, owed |-> seen.told])
          /\ UNCHANGED <<row, younger, seen>>
     ELSE /\ row' = IF d.named THEN [id |-> d.id, live |-> Says(d).about = "added"] ELSE row
          /\ seen' = [seen EXCEPT !.told = IF d.named THEN Says(d).about = "added" ELSE @]
          /\ UNCHANGED <<tail, younger>>
  /\ UNCHANGED <<doing, server, request, onboarded>>

\* The receiver acknowledges, then queues.
Accept(d) ==
  /\ OnQueue /\ Accepting /\ d \in post
  /\ Handed(d)
  /\ tail' = Append(tail, [about |-> Says(d).about, id |-> d.id, named |-> d.named, owed |-> seen.told])
  /\ seen' = [seen EXCEPT !.told = IF Says(d).about = "issue" \/ ~d.named THEN @
                                   ELSE Says(d).about = "added"]
  /\ UNCHANGED <<row, younger, doing, server, request, onboarded>>

\* POST /draft looks at the installation and the recipe first, and is queued after.
AskForDraft ==
  /\ OnQueue /\ request = "none" /\ server.life \in {"up", "closing"}
  /\ row.live /\ ~onboarded
  /\ request' = "checking"
  /\ UNCHANGED <<post, row, younger, tail, doing, server, onboarded, faults, seen>>

QueueDraft ==
  /\ OnQueue /\ request = "checking"
  /\ request' = "done"
  /\ tail' = Append(tail, [about |-> "draft", id |-> None, named |-> TRUE, owed |-> FALSE])
  /\ UNCHANGED <<post, row, younger, doing, server, onboarded, faults, seen>>

Approve ==
  /\ OnQueue /\ row.live /\ ~onboarded
  /\ onboarded' = TRUE
  /\ UNCHANGED <<post, row, younger, tail, doing, server, request, faults, seen>>

AtHead(about) == tail # <<>> /\ tail[1].about = about
OnHead == OnQueue /\ UNCHANGED <<post, request, onboarded>>

\* The head is over and the next task starts.
Settle ==
  /\ tail' = Tail(tail) /\ doing' = "waiting"
  /\ server' = [server EXCEPT !.awaits = IF @ > 0 THEN @ - 1 ELSE 0]

\* The delta is applied as named; a name it lacks is not looked for.
Record ==
  /\ OnHead /\ tail # <<>> /\ tail[1].about \in {"added", "removed"}
  /\ \/ ~tail[1].named /\ UNCHANGED <<row, younger>>
     \/ tail[1].named /\ tail[1].about = "added" /\ RecordInstallation(tail[1].id)
     \/ tail[1].named /\ tail[1].about = "removed" /\ RemoveInstallation
  /\ Settle /\ UNCHANGED <<faults, seen>>

RecordFails ==
  /\ OnHead /\ tail # <<>> /\ tail[1].about \in {"added", "removed"}
  /\ Fault /\ Settle
  /\ seen' = [seen EXCEPT !.lost = TRUE]
  /\ UNCHANGED <<row, younger>>

Answer(how) ==
  /\ Settle
  /\ seen' = [seen EXCEPT !.answers = @ \cup {[owed |-> tail[1].owed, how |-> how]}]
  /\ UNCHANGED <<row, younger>>

\* The gate: installed, then onboarded.
LookUpInstallation ==
  /\ OnHead /\ AtHead("issue") /\ doing = "waiting" /\ UNCHANGED faults
  /\ IF row.live THEN doing' = "recipe" /\ UNCHANGED <<row, younger, tail, server, seen>>
                 ELSE Answer("ignored")

LookUpRecipe ==
  /\ OnHead /\ AtHead("issue") /\ doing = "recipe" /\ UNCHANGED faults
  /\ IF onboarded THEN doing' = "running" /\ UNCHANGED <<row, younger, tail, server, seen>>
                  ELSE Answer("commented")

RunEnds == OnHead /\ AtHead("issue") /\ doing = "running" /\ Answer("ran") /\ UNCHANGED faults

\* Anything thrown on the way is logged and swallowed.
IssueFails == OnHead /\ AtHead("issue") /\ Answer("failed") /\ Fault

LookUpForDraft ==
  /\ OnHead /\ AtHead("draft") /\ doing = "waiting"
  /\ IF row.live THEN doing' = "drafting" /\ UNCHANGED <<tail, server>> ELSE Settle
  /\ UNCHANGED <<row, younger, faults, seen>>

DraftEnds ==
  /\ OnHead /\ AtHead("draft") /\ doing = "drafting" /\ Settle
  /\ UNCHANGED <<row, younger, faults, seen>>

\* The look-up is outside the catch: the queue rejects, nobody handles it, and Node ends.
LookUpForDraftFails ==
  /\ OnHead /\ AtHead("draft") /\ doing = "waiting" /\ Fault
  /\ tail' = Tail(tail) /\ server' = [server EXCEPT !.life = "dead"]
  /\ UNCHANGED <<row, younger, doing, seen>>

\* A signal: the receiver closes, then the pages, then the queue is waited for.
Signal ==
  /\ OnQueue /\ server.life = "up"
  /\ server' = [server EXCEPT !.life = "closing"]
  /\ UNCHANGED <<post, row, younger, tail, doing, request, onboarded, faults, seen>>

Drain ==
  /\ OnQueue /\ server.life = "closing"
  /\ server' = [life |-> "draining", awaits |-> Len(tail)]
  /\ UNCHANGED <<post, row, younger, tail, doing, request, onboarded, faults, seen>>

\* The pool closed as soon as the ports are.
ExitAtOnce ==
  /\ OnQueue /\ server.life = "draining"
  /\ server' = [server EXCEPT !.life = "exited"]
  /\ UNCHANGED <<post, row, younger, tail, doing, request, onboarded, faults, seen>>

Exit ==
  /\ OnQueue /\ server.life = "draining" /\ server.awaits = 0
  /\ server' = [server EXCEPT !.life = "exited"]
  /\ UNCHANGED <<post, row, younger, tail, doing, request, onboarded, faults, seen>>
-----------------------------------------------------------------------------
Init ==
  /\ mode \in {"plane", "local"}
  /\ github = [id |-> None, holds |-> FALSE, issued |-> {}] /\ post = {}
  /\ row = [id |-> None, live |-> FALSE]
  /\ walk = [w \in Walks |-> Resting] /\ younger = {}
  /\ tail = <<>> /\ doing = "waiting" /\ server = [life |-> "up", awaits |-> 0]
  /\ request = "none" /\ onboarded = FALSE
  /\ changes = 0 /\ issues = 0 /\ faults = 0
  /\ seen = [late |-> FALSE, settled |-> FALSE, gone |-> {}, lost |-> FALSE, told |-> FALSE,
             answers |-> {}]

World ==
  \/ \E holds \in BOOLEAN : Install(holds) \/ Select(holds)
  \/ Uninstall \/ Deselect \/ ReportIssue
  \/ \E d \in post : Lose(d)

Plane ==
  \/ \E d \in post : \/ HandleUninstall(d) \/ IgnoreIssue(d)
                     \/ \E w \in Walks : HandleChange(d, w)
  \/ \E w \in Walks : \/ MintToken(w) \/ List(w) \/ RecordHeld(w) \/ Sweep(w)
                      \/ WalkRefused(w) \/ WalkFails(w)
  \/ PlaneRestarts

Turn ==
  \/ Record \/ LookUpInstallation \/ LookUpRecipe \/ RunEnds
  \/ LookUpForDraft \/ DraftEnds

Local ==
  \/ \E d \in post : Accept(d)
  \/ AskForDraft \/ QueueDraft \/ Approve
  \/ Turn \/ RecordFails \/ IssueFails \/ LookUpForDraftFails
  \/ Signal \/ Drain \/ Exit

Next == World \/ Plane \/ Local
Spec == Init /\ [][Next]_vars
-----------------------------------------------------------------------------
\* Once every walk is over and none recorded a list GitHub had since changed, a walk
\* that began after the last change has left the row saying what GitHub says, whatever was
\* lost, repeated or overtaken before, and no uninstall that was acted on is undone
\* (reconcileInstallation and its fence, planeIntake).
TableFollowsGitHub ==
  OnPlane /\ InFlight = {} /\ ~seen.late =>
    /\ seen.settled => (Live(github.id) <=> github.holds)
    /\ \A i \in seen.gone : ~Live(i)

\* An issue is judged by the installation as of the deliveries accepted before it: it is
\* never ignored because its installation is still in the queue, and never run for one whose
\* removal is (serve.ts, one queue for both).
IssuesMeetTheirInstallation ==
  ~seen.lost => \A a \in seen.answers : a.how # "failed" => (a.owed <=> a.how # "ignored")

\* A server that was asked to stop leaves nothing it acknowledged undone (serve.ts, close
\* and drain): what is left in the queue is a draft whose connection was closed.
ShutdownFinishesTheQueue ==
  server.life = "exited" => \A n \in 1..Len(tail) : tail[n].about = "draft"
=============================================================================
