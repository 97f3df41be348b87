# Verification of test-framework-v2

TLA+ models of the parts of this repository that decide things: who may write
the record of a run, what that record says, and what is done because of it.
Each module is translated from the code it names; `PROJECT.json` maps every
definition to its lines. TLC checks the modules on small instances
(`MC*.tla`, `*.cfg`), TLAPS proves what matters most for all instances
(`*Proofs.tla`).

    tlc -workers 2 -config MCDispatch_revoke.cfg MCDispatch
    tlapm DispatchProofs.tla

1. [The system](#1-the-system) - parts, state, operations, hazards
2. [The modules](#2-the-modules) - how state and actions correspond to the code
3. [The runs](#3-the-runs) - questions, bounds, fairness
4. [Where the code and its documentation disagree](#4-where-the-code-and-its-documentation-disagree)
5. [The proofs](#5-the-proofs)
6. [What is not covered](#6-what-is-not-covered)
7. [Plan](#7-plan)

## 1. The system

An issue on GitHub becomes a *run*. An agent in a sandbox writes a
reproduction of the reported bug; the engine executes it against the
unpatched code until it has been seen to fail for the reported reason every
time (the *gate*); only then does a second agent write a fix, and the engine
executes the same bytes against the fix until they have been seen to pass
every time. Everything seen is an event of an append-only log; nothing in the
log is a verdict. The verdict is a *fold* over it, and a pull request is
opened only for a commit the fold credits.

    GitHub --webhook--> serve.ts --+                    +--> fold.ts --> run_projection --> dashboard
                                   v                    |                       (sse.ts: live tail)
    dashboard --routes.ts--> plane.ts (jobs) <--poll-- daemon.ts
                                   ^                    |
                                   +---- events --------+-- run.ts -- orchestrate.ts -- executor-*.ts
                                                                          |               |
                                                                          +-- agent.ts    +-- runner.ts: verify.ts

| Part | State it keeps | Operations | What makes it correct |
| --- | --- | --- | --- |
| Control plane, `plane.ts` | `jobs`, `runners`, `events` in Postgres | enqueue, claim (and reclaim), revoke, append, finish, heartbeat | one author per run; an event is recorded once and never changed; a job nobody works on is handed out again, but not for ever |
| Runner API, `runner-api.ts` | none; one handler per request | authenticate, poll, events, token, finding, finished | every write passes the author check; the row follows the log |
| Daemon, `daemon.ts`, `runner-main.ts` | the job in hand, next seq, a note | poll, execute, append with retries, finish | never skips an event; explains an empty result |
| Event log store, `store.ts` | `events` | append, read, tail | idempotent and immutable |
| Read model, `readmodel.ts`, `projection.ts` | `run_projection` | project one run, rebuild | a cache of the fold |
| Fold, `fold.ts` | `RunState`, rebuilt on every read | one case per event | the verdict is a function of the log, whatever the order of the events |
| Orchestration, `orchestrate.ts`, `run.ts` | attempt, `events`, next seq, pending `RUN_ENDED` | attempt loop, agents, gate, ends, pull request | a fix is only asked for after a reproduction; a pull request only for what was proved; our faults are never findings, nor the reverse |
| Verification, `verify.ts`, `runner.ts` | progress, stream | apply, draw, suite, control, diff, cleanup | a step that could not be observed leaves an abort, not a result |
| Live view, `sse.ts`, `hooks.ts`, `Run.tsx` | a cursor per connection; the page's events, evidence and snapshot | tail, reconnect, reload | neither skips nor repeats; the verdict on screen only moves forward and arrives |
| Webhook servers, `serve.ts`, `plane-server.ts` | the local server's queue in memory | accept, gate, run, drain; reconcile | what was acknowledged is done, in order |
| Dashboard routes, `routes.ts` | none | start, recipe, draft, values, keys, forget, reads | one young run per issue, unless two requests overlap |
| Blobs and forgetting, `blobs.ts`, `forget.ts` | files by digest, tombstones | put, forget | what is forgotten is gone, what is cited stays |
| Sandboxes, `executor-*.ts`, `runner-vm.ts` | machines, a ledger and tags of them | open, seal, write, start, flip, await, collect, stop, sweep | nothing trusted has a way out that was seen; a leak is found, a machine in use is not stopped |
| Agent loop, `loop.ts`, `openrouter.ts`, `tools.ts` | turns, calls in flight, a named shell session | model turn, tool call, its answer or timeout | ends; an answer belongs to its call |
| Recipes, drafts, secrets | a recipe and its proof, a proposal, values, keys | approve, prove, propose, withdraw, store | a proof is of the approved commands; nothing boots half configured |
| Installations and access, `installations.ts`, `auth.ts` | what each installation covers; sessions | record, remove, reconcile; sign in | access follows GitHub |
| Confidence and report, `confidence.ts`, `report.ts` | none | tier, score, reason, comment | claims nothing the log does not hold |

Hard behaviours, in the order of what they could cost:

- **Statements without a transaction.** `plane.ts` authorizes an append in one
  statement and inserts in another; `revokeRunner` is two statements;
  projecting is a read, a fold and an overwrite. Any other request, a
  revocation or a restart falls in between.
- **A timeout that races its answer.** A job whose holder said nothing for two
  minutes is given to another machine; the first one may only have slept.
- **Lost answers and retries.** The daemon retries an append whose answer it
  did not get while the plane may still be working on it.
- **Events in any order, and streams cut anywhere.** A container that dies
  leaves a prefix without an abort; an attempt's evidence may precede its
  declaration; the fold keeps its verdict in the state and must recompute it
  at every input it depends on.
- **One failure decided in three places.** The loop, the fold and `run.ts` each
  decide what a failed container makes of a run.
- **Sequence numbers handed around.** Four writers number events from a number
  they were given, and a dropped end gives one back.
- **Reads that are old when used.** A reload of the evidence overtaken by a
  later one; a list of repositories recorded after the App was uninstalled;
  references read before another run's log was complete; a proof that arrives
  after its recipe was replaced.
- **A page that must come to rest.** It streams, polls and reloads, each with
  its own condition for stopping.
- **Machines that outlive their worker**, and workers that outlive their
  machine: a wall clock, a session limit, a crash and a sweep by a neighbour
  around one phase, with a tool call in flight.

`PROJECT.json` lists each hazard at its line, with the properties that cover it.

## 2. The modules

| module | models | uses | proofs |
| --- | --- | --- | --- |
| `RunLog` | what readers of the log rely on (abstract) | | |
| `Dispatch` | `plane.ts`, `runner-api.ts`, `daemon.ts`, `store.ts`, `projectOne` | implements `RunLog` | `DispatchProofs` |
| `Fold`, `Confidence` | `fold.ts`, `confidence.ts`, `report.ts` | | |
| `Evidence`, `FoldLaws` | what a log says, read as a whole; the fold fed with any of them | `Confidence` | `FoldProofs` |
| `Orchestrate` | `orchestrate.ts`, `run.ts`, `verify.ts` | `Fold` | `OrchestrateProofs` |
| `EventFeed` | each event once and in order (abstract) | | |
| `LiveView` | `sse.ts`, `readmodel.ts`, `hooks.ts`, `Run.tsx` | implements `EventFeed` | `LiveViewProofs` |
| `Forget` | `blobs.ts`, `forget.ts`, the upload of `daemon.ts` | | `ForgetProofs` |
| `Intake` | `serve.ts`, `plane-server.ts`, `github.ts`, `installations.ts` | | `IntakeProofs` |
| `Onboarding` | `routes.ts`, `recipe.ts`, `drafts.ts`, `runner-main.ts`, the repository page | | `OnboardingProofs` |
| `Tools` | `loop.ts`, `openrouter.ts`, `tools.ts`, `runner-vm.ts` | | |
| `Sandbox` | `executor-vercel.ts`, `vercel-client.ts`, the phases of `runner.ts` | `Tools` | `SandboxProofs` |

`Sandbox` and `Tools` compose: `Sandbox` decides when a machine starts, stops and
dies, `Tools` what happens inside. `Onboarding` takes claiming and reclaiming a
job from `Dispatch` as one step, `Intake` takes a run from `Orchestrate` as one
step, and `Orchestrate` takes what a machine may leave behind from `Sandbox`.

### RunLog and Dispatch

`RunLog` is what everybody who reads the log relies on: events are recorded
one at a time from 1 without a gap, never changed, and the runners that wrote
one run and are not revoked are one runner. It has two variables and two
actions.

`Dispatch` is the protocol that has to deliver this: the rows of `jobs`,
`runners`, `events` and `run_projection`, the requests in flight (`net`), and
the loop of each daemon (`pc`, `job`, `seq`, `tries`, `note`).
**One SQL statement is one step**: a request goes from `sent` through
`verified` (`verifyRunner`), `authorized` (`Authorize`: the stamp on
`heard_at`, then the author check), `inserted` and `projecting` to its answer,
and everything else may happen between two of these stages. `ClaimJob` is one
step because it is one `update ... where ... returning`; its guard is
`Claimable`, its order `Oldest`. A reply is read by the daemon in `Hear`, whose
disjuncts are the branches of the daemon's `post` and of its loop.

Faults are actions under a common budget `MaxFaults`: an answer that never
arrives (`AnswerLost`: the request may not have reached the plane, or may
still be worked on), a machine that dies and comes back without memory
(`Crash`, `Boot`), a plane that restarts under all its handlers
(`PlaneRestarts`). Revocation, exceptions in an execution and the passing of the
grace period are not faults and not bounded (`GraceElapses` is enabled
whenever a job is held; `Prompt` restricts it, see fairness).

Data: seq 1 is the intake, which any machine would send alike; a later event
is identified with the machine that observed it, because two machines that run
the same issue observe different things (`SamePayload`). A wall clock is one
bit per job, "older than the grace period". `TokenOf` maps machines to
runners: in production several machines of one Fly app share a token.

### Fold, Evidence, Confidence and FoldLaws

`Fold` is `fold.ts` as a recursive function over the log: `Apply` has one
case per event type that changes a field the verdict, the status, the
regression or the authorship and seal claims depend on. `Confidence` sits on
top of a folded run: the tier and score of a pull request, the reason given
when there is none (one clause per way `credited()` withholds the credit), and
the comment on the issue, each reduced to the claim it makes.

`Evidence` says what a log supports **from the log alone**, by the positions of
its events and without lists, tags or caches: which attempt an event belongs to,
what was shown, what was fixed. `FoldLaws` is a machine that appends one event at
a time and folds it, and states that the fold's bookkeeping comes to what
`Evidence` reads. Events are written by machines the engine does not
control, so no order is assumed: each scenario has the events every stream starts with and
those that may come next, from anybody. For the proofs a scenario is any event set
whose events say what they are (`ScenariosAssumption`).

### Orchestrate

One run from `RUN_REQUESTED` to the answer on the issue, with `fold.ts` (module
`Fold`) used exactly where the code uses it: the gate, the end of the loop's body,
and the decision to open a pull request. `pc` is where `orchestrate()` and
`runFromIssue` are; `step`, `draws` and `stream` belong to the container that is
running. A container's events reach the host only when it is over, so a
stopped one leaves a prefix of `stream` (`Stopped`, `Dies`). `afterSeq` and
`ended` are the code's own; `seen`/`sent`/`seq` are the plane's copy, appended
event by event after `orchestrate()` returned.

What the code under test does is chosen freely: every execution of the
reproduction has any of the results of `BaseKinds` / `FixKinds`, every step of
`verify()` may fail to observe (`Hangs`). What may go wrong around it is in
`Faults`, under the budget `MaxFaults`:

| fault | what it is |
| --- | --- |
| `build` | the environment image did not build |
| `envdown` | the recipe's services did not boot under an agent |
| `unsealed` | the sandbox's network did not close |
| `ceiling` | a sandbox was stopped at its ceiling, and that was recorded |
| `crash`, `cut` | a container died or was stopped, leaving nothing or a prefix |
| `flush` | it died while writing |
| `collect` | an artifact could not be collected |
| `lost` | its stream was no stream; `orchestrate()` throws |
| `append`, `push` | the plane or GitHub refused |

`plan.maxAttempts` is a constant. Today's callers leave it at its default of 1,
and the `attempts` run, with 2, exercises the loop the code has.

### EventFeed and LiveView

One run watched while its worker is still writing it. `script` is what the worker
will write; an event is `plain`, or it `moves` the verdict, or it is the `end`.
`log`, `row`, `handler` and `rebuild` are the plane: an insert, then `projectOne` as a
read and a save, beside an operator's rebuild. `tails` are the connections the
server knows, each authorized, reading, then writing what it read; `wire` is what
was written and not received. The page has a stream (`es`, `lastId`, `given`), at
most one reload of the evidence in `asks` (a new one aborts the old), a throttle
(`recent`) that the end of a run passes, and a snapshot of the log. A dropped
connection loses its wire and the server hears of it only later (`hung`), so two
tails may be writing for one page. `EventFeed` has two variables, what is published
and what the listeners were given; `LiveView` implements it.

### Forget

`req` are the POSTs to `/forget`, each at a statement of `forgetRun`: look for a
tombstone, read the run's references, ask for each whether another run still
cites it, remove the file, and write the tombstone last. Uploads
of runs that are over, other requests and a restart fall between any two. Bytes
are their digest, so two runs may share one file. `quiet` chooses between
requests that overlap and requests that each have the plane for themselves, where
more is promised.

### Intake

GitHub (`github`, `post`) changes what the App covers and delivers it - or loses it,
or delivers it again. `mode` selects the server. On the **plane** deliveries are
handled side by side: an uninstall is believed, anything else starts
`reconcileInstallation` in a slot of `walk`: mint, list, record what is held, sweep
what is not listed and was not stamped since (`younger`). On the **local** server
everything is queued (`tail`, its head is at work) and applied as named; an issue
passes the gate (installed, onboarded) when its turn comes. `Signal`, `Drain` and
`Exit` are `serve()`'s close.

### Onboarding

Two stories of one repository: new (propose, approve, prove, with the page open)
and long onboarded (start runs while the value and the key come and go). Each
route is its statements, each job kind the worker's calls to the plane; `handlers`
counts what an answered request still has to do. `page` is the answer the
repository's page shows and whether another is due: it polls while `isWaiting`. The
history in `seen` says when an approval came during a proof, a proposal
during an approval, and which start requests overlapped.

### Tools and Sandbox

`Tools` is an agent at work: the loop asks the model, sends each call into the
machine (`spool`), and awaits an answer or its timeout; the Runner serves one
call at a time and writes it to a shell session whose output is read up to a
mark. A token of that output is the number of the call that printed it, so an
answer that carries another call's output is visible in `told`.

`Sandbox` is a worker that runs phases (`agent`, `judge`, `build`) in machines. `boxes`
has for each its tags, its ways out (`open`), those its probes did not see (`missed`, for the
properties only) and what it was given (`holds`); `pc` walks from `create` through the
seal, the probes, the source, the start, the flip and the driver or the judgement to
draining, collecting and stopping. `bell` is the wall clock, `SessionEnds` the platform's
limit, `ledger` and the tags are how the next boot finds what a crash left. `deployment` is
the scenario, chosen at the start, and says what of the two outlives a process: on `fly`
the machine's id, but not always the disk; for a `local` worker the disk, but its tag is a
process id; `shared` is two local workers started in one checkout, whose blob roots, and so
whose ledgers, are one by default.

`NeighbourBoots`, `NeighbourStops` and `NeighbourForgets` are another worker's `sweep()`: it
gathers what it lists by its tags and what the ledger it reads has, stops these machines
one by one while everything else goes on, and removes the file. A probe (`Probed`) reports
a way out only if it is open and the probe came through: each may fail for a reason of its
own, at any time and without a budget, and then says what a closed way says.

## 3. The runs

| run | question | instance |
| --- | --- | --- |
| `revoke` | two machines with their own tokens, one revoked at any moment, one fault anywhere: who wrote, what is recorded, does the row follow | 1 run, 2 events, 2 dispatches |
| `ends` | is every queued job over one day, and does an empty draft say why | a draft and a run, a runner confined to one installation, 1 event, 1 fault |
| `fold_laws` | the incremental verdict, the seal scan and the claims made of them against their definitions over the log | 5 events after a reproduction was shown; 4 from a registered one, from nothing, and with suites; 7 for the seals |
| `accused` | section 4 | 4 events |
| `attempts` | the loop, its numbering, its ends, and that it ends | 2 attempts, 2 base draws, 1 fix draw, 1 fault |
| `outcomes` | an adversarial reproduction and truncated streams | 1 attempt, every result, 2 draws each, 2 commits, 2 faults |
| `hidden` | section 4 | 1 attempt, 1 draw each, 1 fault |
| `views` | does the page get the log and its last verdict | 2 events, the first there when the page opens; 1 drop, refusal, failed read, failed projection or rebuild |
| `forget` | overlapping requests, uploads and a shared file | 2 runs, 2 files, 3 requests (two for one run), 1 fault |
| `intake` | reconciles that overlap; one queue for issues and installations; shutdown | plane: 4 changes, 2 walks; local: 2 changes, 2 issues; 1 fault |
| `onboard` | propose, approve, prove; start; values and keys; the page | 2 recipes, 2 approvals, 1 draft; 2 starts, 2 changes; 2 workers; 1 fault |
| `sandbox` | a phase in a machine that may die, with its agent; whose machines a booting worker stops | fly: a phase of any kind, 2 turns, 3 calls; shared: 2 judging phases; 1 event, 1 fault in each |

What each run showed beyond "no error" is in the properties' comments, and each
property has a plausible bug of the code (`mutants` in `PROJECT.json`) that
violates it in its run.

**Why the bounds are enough to mean something.** Dispatch: every race in the
protocol is between two machines over one job, so two machines; two events
tell the intake from what a machine observed; two tries let one succeed after
one is lost; `MaxDispatches` 2 makes the bound bite. Orchestrate: two draws per
phase tell "all" from "some" (production: three and more); two attempts tell the
attempt from the run; two commits tell the judged fix from another; two faults
let one hide another. Fold: five events from a log that has shown the bug is
what it takes to credit an attempt, take the credit back and give it again.
LiveView: one event before and one after the page opens is a snapshot and a
tail; one drop is two connections at once. Forget: two requests for one run and
one for its neighbour is every pair of statements. Intake: four changes are an
install, a selection, an uninstall and a reinstall; two walks are an old list
and a new one. Onboarding: two approvals overtake a proof, two workers finish in
either order, two starts overlap. Sandbox: one machine of this worker's and the
neighbour's sweep; three calls are a session, a command that times out and the
next; with a shared ledger a second phase follows what the first left, with a crash or an
append that failed in between. A `local` worker does nothing a `shared` one without its
neighbour does not. The theorems of section 5 remove the bounds where there is one.

`CHECK_DEADLOCK FALSE` stands where stopping is right: everything is written,
answered, forgotten or at rest, or a bound is reached. `Dispatch` never stops, so
deadlock is checked there.

**Fairness.** All weak, all of actions that stay enabled until taken; nobody has
to revoke, crash, lose, press or approve anything.

- `Dispatch!Fairness`: the plane serves the requests somebody waits for, a daemon
  goes on with its loop and reads its answers, a machine that went down is
  restarted (Fly does), an operator's revocation runs to its end, time passes.
  `EveryJobEnds` additionally needs `Prompt`: while a daemon has a job, the grace
  period does not elapse. `STRANDED_AFTER_MS` is sized for this and nothing enforces
  it. Deaths after the mint are excluded: a machine that dies having spoken
  strands its job by design, until a person starts another.
- `Orchestrate!FairSpec`: one process; every call it makes has a wall clock.
- `LiveView!Fairness`: the worker writes, the plane answers what it was asked, each
  tail goes on, a closed connection is heard of, the browser reconnects and React
  runs its effects. The snapshot may be refused for ever.
- `Onboarding!FairSpec`: a handler goes on, there is a worker that goes on working,
  an open page polls and takes its answers.
- `Sandbox!FairSpec`: the worker, the machine and the loop go on, a call is awaited
  only as long as its timeout, the platform ends every session. Nothing makes a
  command end.

## 4. Where the code and its documentation disagree

The first two have a run that ends in a counterexample; `PROJECT.json` quotes the lines. Where
a passing run has a weaker property, it says what does hold.

| run | what the code does | what holds instead |
| --- | --- | --- |
| `hidden` | a fix container that fails after its green series leaves both a credited attempt and a `RUN_ENDED`; the pull request is opened after the end, where the fold only counts it: the run stays `unresolved` | `PullRequestsAreProved` |
| `accused` | a complete series that the wall clock meets after its diff was observed is reported as "two different tests were compared": no clause of `notReproducedBecause` knows the aborts for which the fold withholds the credit | `ClaimsAreEarned` |
Also met, without a run of their own. Most of them happen in the models, and the properties
named with them say, in a condition of their own, what holds beside them.

*Jobs and the log*

- A runner revoked between its authorization and its insert still writes, beside the one
  its released job went to (plane.ts:593 says "exactly one runner per run"). `OneVoice`:
  of the runners that are not revoked only one writes.
- `MAX_DISPATCHES` (plane.ts:96) is not read when a job comes back from a revoked
  runner; `DispatchBudget`, proved and in no run, is what does hold.
- Machines that share a token are one author: after a reclaim the old one is
  not refused (plane.ts:392). Their events cannot overwrite each other
  (`AckedIsRecorded`).
- `heard_at` is stamped also for a runner that is about to be refused, so a
  successor that never heard it has the job looks attended for ever.
- A failed onboarding job is said to stay open for a re-dispatch and is finished; a
  job abandoned past its dispatches is never finished, and the page waits on it.
- A restart between insert and projection leaves the dashboard row behind the
  log, and the daemon's retry does not repair it. Nor is a failure needed where
  machines share a token: one sleeps past the grace period, both ship the run, and
  the older of two overlapping `projectOne` (runner-api.ts:192) is saved last.
  `DashboardCatchesUp` says when the row does follow.

*A run and what is said of it*

- `runFromIssue` throws from a run that has events when an append, the push or
  the pull request is refused (run.ts:198 says it throws "only when it could not
  even start"); if the run dies between opening the pull request and recording it
  (run.ts:454), no log mentions that pull request.
- A fix-only container calls its first step `base` (verify.ts:608), and its
  failure there takes back what the base container showed.
- A base-only container whose tidying up fails is taken for a completed fix
  series (verify.ts:900); it is credited nothing for it (`NoPrefixOverclaims`).
- An attempt credited by an abort keeps the regression of the attempt before it
  (fold.ts:563, against 103-109 and 510-513).
- The fix agent's environment failing ends the run as a finding about the bug
  (orchestrate.ts:1007, against executor.ts:98-101).
- `notReproducedBecause` describes an earlier attempt when the last one registered
  and never ran; "witnessed by the diff observed after it" is claimed also when the
  witness is an abort; `pullRequestBody` shows the first registration of an attempt,
  the fold judges the last; in the case of `hidden`, the comment on the issue says
  that no fix held.

*The live page*

- A finished stream is never closed by its server, because `closing` is unused, and
  `Run.tsx:71-72` closes it on the snapshot while the evidence may be older.
- A run that was only queued answers 202 without a row (routes.ts:476), and `Run.tsx`
  reads through the row at 72 before it looks for `queued` at 270: the page cannot be drawn.

*Forgetting*

- Two overlapping requests for runs that share a file each see the other as not
  forgotten and both keep the file; an upload that lands after the request leaves
  its bytes (Run.tsx:341 says they are gone). `ForgottenBytesAreGone` is about
  requests that have the plane for themselves.

- A run that uploads bytes between the question who else cites a file (forget.ts:33) and its
  removal (61) loses them though nobody asked for it. `SharedEvidenceStays` is about the
  runs the question could see.

*Deliveries and installations*

- A reconcile that recorded a list GitHub had since changed resurrects a row
  (installations.ts:212): list read, App uninstalled, list recorded; after a
  reinstall a late uninstall delivery removes the new row.
  `TableFollowsGitHub` is about tables no such list was recorded into.
- The fence compares a stamp of the database's clock with the plane's own
  (installations.ts:154). The model gives them one clock.
- The look-up before a draft is outside the catch (serve.ts:540, against 544): if it
  fails, the queue rejects, nobody handles it, and the process ends with all that
  was queued.
- An issue filed with a label is delivered twice, and locally becomes two runs (github.ts:133).

*Onboarding*

- A proof that arrives after its recipe was replaced is stored beside the new one
  (recipe.ts:253, against 229, 247 and Environment.tsx:613). `ProofIsOfTheCommands`
  and `ApprovedCommandsAreProved` are about recipes no approval of which overtook a proof
  in the making.
- `Checklist.tsx:167` says "Your project builds and its tests ran" of any proof, also
  a blocked one, which `Environment.tsx:544` calls blocked.
- An approval is answered 400 when reading the stored names fails, though it was
  stored (routes.ts:819); the page does not keep itself up to date after a 202
  (Environment.tsx:322) and its editor may hold an old text (221-227, 385, 412).
- The page lists missing values while injection is disabled; a run only asks for
  them when it is enabled (run.ts:295). Two places name a payer other than the one
  the worker uses (plane-server.ts:88, Environment.tsx:334, runner-main.ts:321).
- routes.ts:838 says "Four round trips", and six statements run side by side.

*Machines and tools*

- Two workers started in one checkout share a ledger (runner-main.ts:219): the one that
  boots stops the other's machine in the middle of a phase, and removes its record, against "Both are
  scoped to this worker" (executor-vercel.ts:384) and docs/adr/0021:215. What is left is
  `OnlyASharedLineStopsAMachine`.
- A probe that fails for a reason of its own counts as sealed (executor-vercel.ts:1027, against
  186, 742 and 1024-1026): with a policy that was not applied, an open machine gets the
  source, the values and the calls. What is left is `OnlyALostProbeLeavesAWayOut`.
- A command retried after its timeout is answered with the first one's output and status,
  for its mark is a hash of its text (tools.ts:430-433). What is left is
  `OnlyUnfinishedCommandsLeak`.
- A session that ends before the Runner is ready makes the seal throw out of
  `runPhase` (executor-vercel.ts:868), against vercel-client.ts:40 and test/executor-vercel.test.ts:800: the
  exception named in `CeilingsKeepTheRecord`. A bell before that still drives a
  paid loop against a dead machine.
- A flip or a driver that throws clears the bell and then awaits a Runner nobody told to
  stop; only the session's own limit ends it. A stream that stays open after the
  command has exited is waited for as well.
- `open`'s last command throwing (executor-vercel.ts:350) leaves a machine nobody remembers; a
  stop that failed in a sweep or a close is not tried again.
- `MAX_SESSIONS` counts exited sessions, and "close one first" names a tool there is not;
  `busy` never fires (tools.ts:250, 406).

## 5. The proofs

For every value of the constants and with every fault, from the named
assumption of each module and no other: any set of runs, runners and machines
and any token assignment; any number of attempts and draws and any results; any
log, connections, requests, files, reconciles, approvals and workers; any number
of phases, machines, turns and calls.

- `DispatchProofs`. `TypeCorrect`; then `AuthorityHolds`, from which `OneVoice` and
  `OneWorkerPastMint` follow. Neither of these is inductive: both speak of what
  was written or minted, and are kept by who *holds* the run. `Holds(m, r)` says
  that m's runner, unless revoked, is the one in `jobs.runner_id` and that
  `heard_at` is set. `Authority` demands it of everybody who was admitted to a run:
  a request past the author check, a token answer on its way, a machine past the
  mint, and every event in the log. It is inductive because `claimJob` takes a
  job only from nobody or from a holder never heard of (`HoldIsKept`), and because
  a release only touches what a revoked runner held. It needs `Conversation`: a
  daemon waits for at most one request, and that request is about the job and
  the seq the daemon is at.
- `DispatchProofs`, on the log. `AckedEventsAreRecorded` and `StreamsHaveNoGap` rest on
  `Stream`: below the seq of any event request, also an abandoned one, everything
  is recorded, and one that has landed is in the log with an acceptable payload.
  `DispatchImplementsRunLog` composes this with `Authority`: every step of `Dispatch`
  is a `Record`, a `Revoke` or a stutter of `RunLog`. `DashboardFollowsTheLog` needs
  that no two projections of one run overlap (`NoTwoWriters`): a run handed out once
  is in one machine's hands (`OneHand`), and where tokens are not shared `Authority`
  lets one machine write; then the row is the log's, or somebody is about to write
  it (`RowFollows`).
- `DispatchProofs`, on jobs. `HandOutsAreBounded`: `Budget` counts an unheld job one
  hand-out lower and a revocation only once its jobs have been put back; every
  step then keeps it. It needs the cardinality of a set of runners, hence that
  `Runners` is finite. `DraftsExplainThemselves`: a finish without a note is only
  sent by a daemon whose finding was stored or whose job was no draft.
- `FoldProofs`, about every log whoever wrote it. `FoldDecidesByTheLog`: the attempts shown
  and the one credited are those the log supports. The inductive invariant is
  `Faithful(log, state)`: each list of the state holds exactly what the log has of it
  (`Listed`), and the verdict in it is the one recomputed from these lists
  (`Judged`), which is what a stale value would break. `ApplyIsFaithful` is its step,
  one case per event type (`InterpretIsFaithful`), over lemmas on how each reading of
  a log grows with one event (`WithinGrows`, `SeriesClosedGrows`, ...).
  `VerdictIsLogged` then goes from lists to positions. The fold is a recursion
  over the log, and the library's induction theorems cannot be used here: they take an
  operator. `EveryNatural` is induction with a *set* instead, from
  the well-foundedness of `<` on the naturals, and gives `StatesFollow`: a fold is
  the step after step it is computed by. `SealClaimsAreTrue` does the same for the
  scan of `sealedBeforeEveryAgent` with its open window (`WindowSays`, `WindowGrows`).
  `NoClaimIsUnearned` draws the tier, the score and the comment from the first.
- `OrchestrateProofs`, on numbers and blame. `TypeCorrect`, `LogStaysWellNumbered` and
  `OnlyWeChooseErrored` rest on one inductive invariant, `IInv`. `Numbers`: until
  the loop is over `afterSeq` is the length of the log, or one more when an end is
  held back, which then has that number; it is why a dropped end must give its
  number back, and `TypeOK` itself needs it (giving back reads the last event, so
  the log of a started attempt must not be empty). `Blame`: before the first fault
  no end in the log or held back says `error`, and the plane's fold is not
  `errored`. `Typed` adds what an event is (`Events`; a container only writes
  `Observed`, which holds no end) and what these proofs need of the fold
  (`ApplyKeeps`: the only way to `errored` is an end that says `error`). Containers
  and agents are first reduced to what they write (`VerifyWrites`,
  `AgentWrites`): events pushed (`Adds`) or an end held back (`Closes`).
- `OrchestrateProofs`, on the verdict and the draws behind it. `TheGateHolds`,
  `PrefixesNeverOverclaim`, `PullRequestsStayProved` and `AnswersStayFinal` rest on
  `IInv` and a second invariant, `Tale`. None of the four is inductive: they read a log
  that is long complete, and a container may stop at any moment with any prefix
  of what it saw. `Tale` therefore speaks of `Told`, the log with what the running
  container has observed so far, and everything it says of a log holds of its
  prefixes (`Story`): a fix is only looked at once the bug was shown
  (`GateHeld`) and closes the base phase (`BaseIsOver`); who says that a series was run to
  its end says so after the last draw (`SeriesIsWhole`). `Stage` ties `pc`, `step`
  and `draws` to it: how much of which series the current attempt has. `Ordered`
  gives each event the attempt declared last, and `Uncredited` says that an earlier
  attempt earned nothing, or the loop had stopped; so the attempt the gate's fold
  credits is the current one. `Ending` is what the loop leaves: a log with exactly
  one end, its last event, or credit. `Copied` is the plane: its state is
  `Listed` against the prefix it was sent. `Backed` is the pull request's commit with both of its
  series. Here the module needs `FoldProofs`: the code folds its log afresh at the gate, at the
  end of the body and before the pull request, and what that recursion gives for
  any log is `ApplyIsFaithful`. It extends that module, and with it
  declares the constants and variables of `FoldLaws`; no lemma used here speaks of them.

- `LiveViewProofs`. `ListenersGetTheLog`: every step of `LiveView` publishes an event,
  gives the next one, starts over, or is a stutter of `EventFeed`. `StreamInv` carries
  it: what was given is the log up to `lastId`, and what is on the current wire
  continues it up to where the tail has written (`Continues`); only a connection the
  page has left is written to in vain. `NoOldVerdictReturns` rests on `OneAsked`: at
  most one answer is waited for, and it is not older than what is shown.
- `ForgetProofs`. `EvidenceOfOthersStays` is kept by `Condemned`: whoever else cites a
  file that is about to be removed was asked to be forgotten, or was not over when
  the request looked. `BytesGoWithTheLastRun` is about requests that have the plane
  for themselves (`Settled`: one at a time, and no upload of its run outstanding);
  what such a request is done with is gone or somebody else's (`Cleared`).
- `IntakeProofs`. `RowsFollowGitHub`: until a list that is no longer true is recorded,
  a reconcile that is `current` (begun after the last change) has listed what GitHub
  says (`ListsAreTrue`), an uninstalled row stays away (`GoneIsGone`), a row that one
  of them recorded is younger than every reconcile begun before the change
  (`CoveredStays`: this is the fence), and no stamp protects a row that has to go from
  a current one (`UncoveredGoes`). `IssuesAreJudgedInOrder`: each issue in the queue is
  owed what the last installation before it says, or what the row says if none
  does (`Orderly`), which appending to the queue and taking its head both keep.
  `NothingAcknowledgedIsLeft`: behind what `drain()` waits for there are only drafts.
- `OnboardingProofs`. `NeverHalfConfigured`: no job holds a value where none is handed
  out (`HeldIsHanded`), and a run boots only what it was told. `OnlyARaceDoubles`: two
  requests that both found nothing open, or one of them and a run, overlapped
  (`BothClear`, `ClearBesideARun`). `ProofsMatch`: a proof being made is of the approved
  commands until an approval overtakes it (`WorkIsCurrent`). `OneProposalAtMost`: beside
  approved commands nothing proposes any more (`NothingProposes`).
- `SandboxProofs`. One inductive invariant, `SInv`, over the worker, the machine and the
  loop inside it. `Place`: from its creation to its close a phase has a machine.
  `Found`: a machine that runs is in use, known to be lost, among those the boot in progress
  will stop, or one the next boot can name (`Nameable`: by its tags on Fly, by the ledger
  elsewhere), which every step of a phase, a crash and a neighbour's removal of the ledger
  keep; hence `NothingRunsOn`. `Owned` gives `MachinesAreTheirOwners`: a
  neighbour's sweep never lists a machine by this worker's tags, so that what it has still to
  stop (`hunted`) was in a shared ledger, and the line of the machine in use stays there until
  that sweep is over and the neighbour removes the file. `Confined` relates the ways out to
  what the machine was given: a phase that keeps its network gets no values, judges nothing
  and was not probed; any other is written to only while no way out was seen (`Unseen`). `Quiet`: until then no model has been asked
  anything, and at most the Runner was told to be done, so `TrustedWorkIsConfined`. `Recorded`:
  only the flip of an agent's machine lets the end of a session out of the phase once the
  Runner was started (`RecordsSurviveCeilings`).
- `SandboxProofs`, on answers. `AnswersStayApart` needs a second invariant,
  `Conversation`, from the model's call to the answer it is given. `OneAnswer`: a call is in
  one place, the spool, the Runner's hands or one line of the channel, and has no
  answer with a status yet; if nobody waits for it any more, it was refused. `Queue`: a
  command is written to the session once, and nothing still to be run has printed. `Explained`: a
  foreign number in a line of the channel, and as long as the host listens in the shell,
  is of a command that was, or by a line before it will be, answered without its own mark
  (`UnfinishedBefore`). The order of the channel alone would not do, for an answer nobody
  waits for goes unread: `OneAnswer` says that its call was refused, which is an answer
  without a status too (`TakeKeeps`). Before a model is asked, and once the phase has
  forgotten it, nothing of this is there (`Unasked`); `SInv` says when that is. The Runner takes
  the least number in the spool, whose being there is the well-foundedness of `<` again
  (`LeastIsIn`).

Only model-checked: the liveness properties (`EveryJobEnds`, `EveryRunIsOver`,
`LastFrameBringsTheVerdict`, `ApprovedCommandsAreProved`, `PageComesToRest`, `PhasesEnd`),
for liveness under fairness is out of this prover's reach.
Every other property of a passing run is a theorem.

## 6. What is not covered

`PROJECT.json` lists each component with its status. Left out on purpose:
pure input and output (static pages, CLI, status lines), data transformations
without protocol (redaction, encryption, prompts, the model's wire format,
validating and rendering a recipe, the text of a pull request), rendering,
one-shot scripts, sessions and OAuth. In `Dispatch`: pairing and listing runners,
model keys and cost, which pass the same gate and write nothing it reads. In
`Fold`: fields only displayed. In `Orchestrate`: the workspace, plans without a repro
agent, the one-container path of `verify()`, transcripts. In `LiveView`: keep-alives, empty
polls, and the list of runs, which only polls. In `Intake`: signatures,
payload shapes, triage, and other repositories of the installation (a list that is short is a walk that
fails). In `Sandbox`: the Docker executor, of which `Orchestrate` has only what a
phase may leave behind, and the file and browser tools.

## 7. Plan

Done: all modules above, checked; the eight detailed ones proved about. Next, most
important first:

1. The Docker executor beside the microVMs: networks and containers by label
   instead of a ledger.
2. Sessions and access: a cookie that outlives the installation it was made for.
