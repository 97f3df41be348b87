----------------------------- MODULE Onboarding -----------------------------
(***************************************************************************)
(* Onboarding one repository on the plane, and starting runs of it: the    *)
(* routes (src/src/routes.ts), the rows they write (recipe.ts, drafts.ts,  *)
(* secrets.ts, plane.ts), the workers that draft, prove and run            *)
(* (runner-main.ts) and the page a person watches (web/components).        *)
(*                                                                         *)
(* A statement, a request or a fetch of the page is a step.  Who may see   *)
(* the repository, and how a job is claimed, retried and reclaimed, is     *)
(* Dispatch's: here a dead worker's job is lost.  Commands stand for a     *)
(* whole recipe; what the code distinguishes is kept: some run nothing,    *)
(* some require a value, and a proposal may not be a recipe at all.        *)
(***************************************************************************)
EXTENDS Integers, Sequences, FiniteSets

CONSTANTS
  Commands,     \* recipes that parse
  Skeleton,     \* the one that runs nothing
  Needy,        \* those that require a stored value
  Bad,          \* a proposal that does not parse as a recipe
  Requests,     \* POST /api/runs, for one issue
  Workers,      \* how many jobs are worked on at once
  Bounds,       \* bounds, per story: approvals, drafts asked for, runs started,
                \* and changes: values and keys stored or removed
  MaxFaults,    \* bound: failed statements, lost workers, two hours gone by
  None

ASSUME OnboardingAssumption ==
  /\ Skeleton \in Commands /\ Needy \subseteq Commands \ {Skeleton} /\ Bad \notin Commands
  /\ Workers \in Nat \ {0} /\ MaxFaults \in Nat
  /\ Bounds \in [{"new", "old"} -> [approvals : Nat, drafts : Nat, starts : Nat, changes : Nat]]
  /\ None \notin Commands \cup Requests \cup {Bad}

VARIABLES
  story,      \* scenario: a repository just connected, or one long onboarded
  injects,    \* scenario: whether stored values are handed out at all
  recipe,     \* the row of `recipes`; a proof is of some commands, and says a state
  draft,      \* the row of `recipe_drafts`
  handlers,   \* handlers under way: approvals yet to clear the draft, jobs yet to be queued
  jobs,       \* the repository's rows of `jobs`, in the order they were queued
  start,      \* POST /api/runs, per request
  value, key, \* whether the required value and the asker's model key are stored
  page,       \* the repository's page: the answer it shows, and whether another is due;
              \* nobody looks at that of a repository long onboarded, where nothing is waited for
  approvals, drafts, changes, faults,
  seen        \* history, for the properties only

vars == <<story, injects, recipe, draft, handlers, jobs, start, value, key, page,
          approvals, drafts, changes, faults, seen>>

Documents == Commands \cup {Bad}
Proofs == [of : Commands, state : {"ready", "ready_with_caveats", "blocked"}]
Details == [commands : Commands \cup {None}, proof : Proofs \cup {None}, draft : Documents \cup {None},
            drafting : BOOLEAN, proving : BOOLEAN, value : BOOLEAN]

AtWork == {n \in DOMAIN jobs : jobs[n].stage \in {"working", "fetched", "told"}}

TypeOK ==
  /\ story \in {"new", "old"} /\ injects \in BOOLEAN
  /\ recipe \in [commands : Commands \cup {None}, proof : Proofs \cup {None}]
  /\ draft \in Documents \cup {None}
  /\ handlers \in [clear : Nat, prove : Nat, draft : Nat]
  /\ jobs \in Seq([kind : {"draft", "prove", "run"}, request : Requests \cup {None},
                   stage : {"open", "working", "fetched", "told", "over", "lost"},
                   commands : Commands \cup {None}, held : BOOLEAN, young : BOOLEAN])
  /\ Cardinality(AtWork) <= Workers
  /\ start \in [Requests -> {"idle", "looking", "clear", "over"}]
  /\ value \in BOOLEAN /\ key \in BOOLEAN
  /\ page \in [detail : Details \cup {None}, due : BOOLEAN]
  /\ approvals \in 0..Bounds[story].approvals /\ drafts \in 0..Bounds[story].drafts
  /\ changes \in 0..Bounds[story].changes /\ faults \in 0..MaxFaults
  /\ seen \in [overtaken : BOOLEAN, late : BOOLEAN, overlaps : SUBSET SUBSET Requests,
               booted : SUBSET [needs : BOOLEAN, held : BOOLEAN]]

Fault == faults < MaxFaults /\ faults' = faults + 1
Onboarded == recipe.commands # None
Work(kind, request) ==
  [kind |-> kind, request |-> request, stage |-> "open", commands |-> None, held |-> FALSE,
   young |-> TRUE]
Unfinished(kind) == {n \in DOMAIN jobs : jobs[n].kind = kind /\ jobs[n].stage # "over"}
-----------------------------------------------------------------------------
(* The page. *)

\* Any job there ever was.
DetailOfAll ==
  [commands |-> recipe.commands, proof |-> recipe.proof, draft |-> draft,
   drafting |-> \E n \in DOMAIN jobs : jobs[n].kind = "draft",
   proving |-> \E n \in DOMAIN jobs : jobs[n].kind = "prove", value |-> value]

\* GET /api/repos/:repo.  A job is under way until it is marked finished.
Detail == [commands |-> recipe.commands, proof |-> recipe.proof, draft |-> draft,
           drafting |-> Unfinished("draft") # {}, proving |-> Unfinished("prove") # {}, value |-> value]

DoesNothing(d) == d.commands = Skeleton
Missing(d) == d.commands \in Needy /\ ~d.value

Stage(d) ==
  CASE d.commands # None /\ DoesNothing(d) -> "empty"
    [] d.commands # None /\ ~DoesNothing(d) /\ Missing(d)  -> "values"
    [] d.commands # None /\ ~DoesNothing(d) /\ ~Missing(d) -> "ready"
    [] d.commands = None /\ d.drafting     -> "working"
    [] d.commands = None /\ ~d.drafting /\ d.draft # None -> "review"
    [] OTHER                               -> "propose"

\* An agent can be asked: there is a key to spend.
Proposing(d) == Stage(d) = "propose" /\ key

\* The checklist has a step waiting on a machine: the page asks again in five seconds.
Waiting(d) ==
  \/ d.commands = None /\ d.draft = None /\ d.drafting
  \/ d.commands # None /\ ~DoesNothing(d) /\ d.proving

\* One answer, of six statements side by side; here they are one step.
Draw ==
  /\ page' = [detail |-> Detail, due |-> FALSE]
  /\ UNCHANGED <<story, injects, recipe, draft, handlers, jobs, start, value, key,
                 approvals, drafts, changes, faults, seen>>

Open == story = "new" /\ page.detail = None /\ Draw
Reload == page.due /\ Draw
Watching == page.detail # None /\ Waiting(page.detail)
Poll == Watching /\ Draw
-----------------------------------------------------------------------------
(* Proposing and approving. *)

Routed == UNCHANGED <<story, injects, start, value, key, changes>>

\* POST /draft whatever is approved.
AskAnyway ==
  /\ Routed /\ page.detail # None /\ Proposing(page.detail) /\ ~page.due
  /\ drafts < Bounds[story].drafts /\ drafts' = drafts + 1
  /\ handlers' = [handlers EXCEPT !.draft = @ + 1]
  /\ page' = [page EXCEPT !.due = TRUE]
  /\ UNCHANGED <<recipe, draft, jobs, approvals, faults, seen>>

\* POST /draft: refused beside an approved recipe; otherwise answered before it is queued.
AskForDraft ==
  /\ Routed /\ page.detail # None /\ Proposing(page.detail) /\ ~page.due
  /\ drafts < Bounds[story].drafts /\ drafts' = drafts + 1
  /\ IF Onboarded THEN UNCHANGED <<handlers, page>>
     ELSE /\ handlers' = [handlers EXCEPT !.draft = @ + 1]
          /\ page' = [page EXCEPT !.due = TRUE]
  /\ UNCHANGED <<recipe, draft, jobs, approvals, faults, seen>>

\* saveRecipe, leaving the proof where it is.
SaveKeepingProof(c) == recipe' = [recipe EXCEPT !.commands = c]

\* saveRecipe: new commands have no proof.
SaveRecipe(c) == recipe' = [commands |-> c, proof |-> None]

Parses(c) == c \in Commands

\* PUT /recipe, with what is in the box of this page or of another.
Approve(c) ==
  /\ Routed
  /\ approvals < Bounds[story].approvals /\ approvals' = approvals + 1
  /\ IF Parses(c)
     THEN /\ SaveRecipe(c)
          /\ handlers' = [handlers EXCEPT !.clear = @ + 1]
          /\ seen' = [seen EXCEPT
               !.overtaken = @ \/ \E n \in AtWork : jobs[n].kind = "prove" /\ jobs[n].stage = "working",
               !.late = @ \/ Unfinished("draft") # {} \/ handlers.draft > 0]
     ELSE UNCHANGED <<recipe, handlers, seen>>
  /\ UNCHANGED <<draft, jobs, page, drafts, faults>>

\* Then the draft goes, if the statement works, and the proof is asked for; the answer is sent.
ClearDraft ==
  /\ Routed /\ handlers.clear > 0
  /\ handlers' = [handlers EXCEPT !.clear = @ - 1, !.prove = @ + 1]
  /\ page' = [page EXCEPT !.due = TRUE]
  /\ \/ draft' = None /\ UNCHANGED <<faults, seen>>
     \/ Fault /\ seen' = [seen EXCEPT !.late = TRUE] /\ UNCHANGED draft
  /\ UNCHANGED <<recipe, jobs, approvals, drafts>>

Queued(kind) ==
  /\ Routed /\ handlers[kind] > 0
  /\ handlers' = [handlers EXCEPT ![kind] = @ - 1]
  /\ UNCHANGED <<recipe, draft, page, approvals, drafts, seen>>

\* One proof at a time is enough.
QueueOneProve ==
  /\ Queued("prove") /\ UNCHANGED faults
  /\ jobs' = IF Unfinished("prove") = {} THEN Append(jobs, Work("prove", None)) ELSE jobs

\* Queued by a handler nobody awaits.
QueueDraft == Queued("draft") /\ jobs' = Append(jobs, Work("draft", None)) /\ UNCHANGED faults
QueueProve == Queued("prove") /\ jobs' = Append(jobs, Work("prove", None)) /\ UNCHANGED faults

QueueingFails == \E kind \in {"draft", "prove"} : Queued(kind) /\ Fault /\ UNCHANGED jobs
-----------------------------------------------------------------------------
(* Values, keys and starting a run. *)

Settings ==
  /\ changes < Bounds[story].changes /\ changes' = changes + 1
  /\ UNCHANGED <<story, injects, recipe, draft, handlers, jobs, start, page,
                 approvals, drafts, faults, seen>>

\* PUT and DELETE of a repository's value, and of the asker's model key.
ChangeValue == Settings /\ value' = ~value /\ UNCHANGED key
ChangeKey == Settings /\ key' = ~key /\ UNCHANGED value

Starting(r, from, to) ==
  /\ start[r] = from /\ start' = [start EXCEPT ![r] = to]
  /\ UNCHANGED <<story, injects, recipe, draft, handlers, value, key, page, approvals, drafts, changes>>

CheckStart(r) ==
  /\ Onboarded /\ key /\ Cardinality({q \in Requests : start[q] # "idle"}) < Bounds[story].starts
  /\ Starting(r, "idle", "looking")
  /\ UNCHANGED <<jobs, faults, seen>>

\* Only what no worker has taken.
OpenUnclaimed == {n \in Unfinished("run") : jobs[n].young /\ jobs[n].stage = "open"}

\* openJobFor: a run of this issue, unfinished and queued in the last two hours.
OpenJobFor == {n \in Unfinished("run") : jobs[n].young}

LookForOpen(r) ==
  /\ IF OpenJobFor # {} THEN Starting(r, "looking", "over") /\ UNCHANGED seen
     ELSE /\ Starting(r, "looking", "clear")
          /\ seen' = [seen EXCEPT !.overlaps = @ \cup {{r, q} : q \in {q \in Requests : start[q] = "clear"}}]
  /\ UNCHANGED <<jobs, faults>>

\* After a token was minted and the issue read.
QueueRun(r) ==
  /\ Starting(r, "clear", "over")
  /\ jobs' = Append(jobs, Work("run", r))
  /\ UNCHANGED <<faults, seen>>

StartFails(r) == \E from \in {"looking", "clear"} : Starting(r, from, "over") /\ Fault /\ UNCHANGED <<jobs, seen>>
-----------------------------------------------------------------------------
(* The workers. *)

Working(n, kind, stage) ==
  /\ jobs[n].kind = kind /\ jobs[n].stage = stage
  /\ UNCHANGED <<story, injects, handlers, start, value, key, page, approvals, drafts, changes>>

\* The oldest job; what is approved now travels with it.
Take(n) ==
  /\ Working(n, jobs[n].kind, "open")
  /\ \A m \in 1..(n - 1) : jobs[m].stage # "open"
  /\ jobs' = [jobs EXCEPT ![n].stage = "working", ![n].commands = recipe.commands]
  /\ UNCHANGED <<recipe, draft, faults, seen>>

\* A worker takes one job at a time.
Claim(n) == Take(n) /\ Cardinality(AtWork) < Workers

\* saveProof and saveDraft replace what is there.
SaveProof(proof) == recipe' = [recipe EXCEPT !.proof = proof]
SaveDraft(d) == draft' = d

\* What the worker found is stored by the plane, and the job is not over yet.
Tell(n) == jobs' = [jobs EXCEPT ![n].stage = "told"]

\* What a proof may meet: a repository without a commit, an environment that builds or not,
\* and what the project's own test command does in the sealed container.
SuiteSays == {"none", "unrunnable", "red", "green"}
Worlds(c) ==
  {w \in [commits : BOOLEAN, installs : BOOLEAN, builds : BOOLEAN, suite : SuiteSays] :
     c = Skeleton => ~w.installs /\ w.suite = "none"}

ProvedAs(w) ==
  CASE ~w.commits \/ (w.installs /\ ~w.builds) -> "blocked"
    [] w.commits /\ w.installs /\ w.builds /\ w.suite = "green" -> "ready"
    [] OTHER -> "ready_with_caveats"

ProofsOf(c) == {[of |-> c, state |-> ProvedAs(w)] : w \in Worlds(c)}

\* The project is built and tested, and the finding stored, whatever is approved by then.
Prove(n) ==
  /\ Working(n, "prove", "working")
  /\ IF jobs[n].commands = None THEN UNCHANGED recipe
     ELSE \E proof \in ProofsOf(jobs[n].commands) : SaveProof(proof)
  /\ Tell(n)
  /\ UNCHANGED <<draft, faults, seen>>

\* What a drafting session hands back: a document nobody has parsed yet, or only a reason
\* (no commit to explore, an agent that never ran, was cut off, or wrote no proposal).
Outcomes == Documents \cup {None}

\* An agent explores, and proposes something or nothing.
Draft(n, d) ==
  /\ Working(n, "draft", "working")
  /\ IF d = None THEN UNCHANGED draft ELSE SaveDraft(d)
  /\ Tell(n)
  /\ UNCHANGED <<recipe, faults, seen>>

\* The names of what is stored.
FetchNames(n) ==
  /\ Working(n, "run", "working")
  /\ jobs' = [jobs EXCEPT ![n].stage = "fetched", ![n].held = value]
  /\ UNCHANGED <<recipe, draft, faults, seen>>

\* repoSecrets, where the deployment hands them out at all.
Handed == injects /\ value

\* The stored values, or word that this deployment hands none out.
FetchValues(n) ==
  /\ Working(n, "run", "working")
  /\ jobs' = [jobs EXCEPT ![n].stage = "fetched", ![n].held = Handed]
  /\ UNCHANGED <<recipe, draft, faults, seen>>

MissingRequired(n) == jobs[n].commands \in Needy /\ ~jobs[n].held

\* The gate on required values, and the run.
Run(n) ==
  /\ Working(n, "run", "fetched")
  /\ Tell(n)
  /\ seen' = IF MissingRequired(n) THEN seen
             ELSE [seen EXCEPT !.booted = @ \cup {[needs |-> jobs[n].commands \in Needy,
                                                   held |-> injects /\ jobs[n].held]}]
  /\ UNCHANGED <<recipe, draft, faults>>

Finish(n) ==
  /\ Working(n, jobs[n].kind, "told")
  /\ jobs' = [jobs EXCEPT ![n].stage = "over"]
  /\ UNCHANGED <<recipe, draft, faults, seen>>

\* Whatever throws is noted, and the job is over all the same; a worker may also die.
WorkFails(n) ==
  /\ n \in AtWork /\ Working(n, jobs[n].kind, jobs[n].stage) /\ Fault
  /\ \E stage \in {"over", "lost"} : jobs' = [jobs EXCEPT ![n].stage = stage]
  /\ UNCHANGED <<recipe, draft, seen>>

Ages(n) ==
  /\ n \in Unfinished("run") /\ jobs[n].young /\ Working(n, "run", jobs[n].stage) /\ Fault
  /\ jobs' = [jobs EXCEPT ![n].young = FALSE]
  /\ UNCHANGED <<recipe, draft, seen>>
-----------------------------------------------------------------------------
Init ==
  /\ story \in {"new", "old"} /\ injects \in IF story = "new" THEN {FALSE} ELSE BOOLEAN
  /\ recipe \in IF story = "new" THEN {[commands |-> None, proof |-> None]}
                ELSE {[commands |-> c, proof |-> [of |-> c, state |-> "ready"]] : c \in Needy}
  /\ draft = None /\ handlers = [clear |-> 0, prove |-> 0, draft |-> 0]
  /\ jobs = <<>> /\ start = [r \in Requests |-> "idle"]
  /\ value = FALSE /\ key = TRUE
  /\ page = [detail |-> None, due |-> FALSE]
  /\ approvals = 0 /\ drafts = 0 /\ changes = 0 /\ faults = 0
  /\ seen = [overtaken |-> FALSE, late |-> FALSE, overlaps |-> {}, booted |-> {}]

Handlers == ClearDraft \/ QueueDraft \/ QueueProve
Worker ==
  \E n \in DOMAIN jobs : \/ Claim(n) \/ Prove(n) \/ FetchValues(n) \/ Run(n) \/ Finish(n)
                          \/ \E d \in Outcomes : Draft(n, d)

Next ==
  \/ Open \/ Reload \/ Poll
  \/ AskForDraft \/ ChangeValue \/ ChangeKey \/ \E c \in Documents : Approve(c)
  \/ Handlers \/ QueueingFails
  \/ \E r \in Requests : CheckStart(r) \/ LookForOpen(r) \/ QueueRun(r) \/ StartFails(r)
  \/ Worker \/ \E n \in DOMAIN jobs : WorkFails(n) \/ Ages(n)

Spec == Init /\ [][Next]_vars

\* A handler goes on, an open page polls, and there is a worker that goes on working.
FairSpec == Spec /\ WF_vars(Handlers) /\ WF_vars(Worker) /\ WF_vars(Reload) /\ WF_vars(Poll)
-----------------------------------------------------------------------------
\* A stored proof is about the approved commands, unless they were changed while a proof was
\* being made (saveRecipe clears it; saveProof stores what arrives).
ProofIsOfTheCommands == recipe.proof # None /\ ~seen.overtaken => recipe.proof.of = recipe.commands

\* The commands last approved end up proved, whatever was approved before them
\* (onApproved queues a job per approval, and a job proves what is approved when it is taken).
ApprovedCommandsAreProved ==
  <>[](faults = 0 /\ ~seen.overtaken /\ Onboarded =>
       recipe.proof # None /\ recipe.proof.of = recipe.commands)

\* Once approvals are answered no proposal stands beside approved commands, unless it was being
\* made when they were approved or could not be removed (POST /draft's 409, clearDraft).
NoSecondProposal == Onboarded /\ draft # None /\ handlers.clear = 0 => seen.late

\* Two runs of an issue are under way together only if their requests were both between the
\* look and the insert (openJobFor is a check, not a constraint).
OnlyOverlappingStartsDouble ==
  \A n, m \in Unfinished("run") : n # m /\ jobs[n].young /\ jobs[m].young =>
    {jobs[n].request, jobs[m].request} \in seen.overlaps

\* A run that needs a value boots only with the value itself in hand, not its name
\* (missingRequired over what the plane handed out).
NothingBootsHalfConfigured == \A b \in seen.booted : b.needs => b.held

\* A page that waits on a machine stops waiting, if nothing failed (isWaiting, finished_at).
PageComesToRest == Watching ~> (~Watching \/ faults > 0)
=============================================================================
