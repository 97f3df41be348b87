------------------------------ MODULE Sandbox ------------------------------
(***************************************************************************)
(* Phases of a run in microVMs (executor-vercel.ts, vercel-client.ts): one *)
(* worker that opens a machine per phase, seals it, hands it the source,   *)
(* drives an agent in it or watches it judge, and stops it; the ledger and *)
(* the tags by which a worker that died finds what it left; the platform   *)
(* that ends a session at its limit; another worker that boots and sweeps. *)
(*                                                                         *)
(* A call to the platform is a step; any of them may fail.  What happens   *)
(* inside an agent's machine is Tools'.  A crash forgets what was going on *)
(* inside the machine, and so does the phase once it waits for nothing     *)
(* there: nobody will ask it again.                                        *)
(***************************************************************************)
EXTENDS Tools

CONSTANTS
  Deployments, \* scenarios, some of "fly": a machine's id outlives its process, its disk need not;
               \* "local": each process is a worker of its own, on a disk that stays; "shared": so
               \* are two, started in one checkout, whose blob roots and so whose ledgers are one
  Bounds,      \* of each scenario: the kinds of phases the worker is given, how many of them, and
               \* faults: crashes, calls to the platform that fail, policies not applied
  MaxEvents    \* bound: what a judging machine observes

PhaseKinds == {"agent", "judge", "build"}

ASSUME SandboxAssumption ==
  /\ Deployments \subseteq {"fly", "local", "shared"}
  /\ Bounds \in [Deployments -> [kinds : SUBSET PhaseKinds, phases : Nat, faults : Nat]]
  /\ MaxEvents \in Nat

VARIABLES
  deployment, \* scenario: where this worker runs
  boxes,      \* every machine: who runs it, the ways out it has, what it was given, and (history,
              \* for the properties only) which ways out it had that its probes did not see
  ledger,     \* sandboxes.jsonl
  pc,         \* how far this worker is
  phase,      \* the phase under way: its kind, whether it has a network, its machine
  probe,      \* the ways out the probes found, or {"unknown"}
  report,     \* what the machine said of its environment, and whether it is ready
  bell, ceiling,
  throws,     \* what is on its way out of runPhase: the machine is gone, or another fault
  outcome,    \* how the last phase ended
  toStop,     \* machines the sweep still has to stop
  hunted,     \* ... and those another worker's sweep has to
  phases, faults,
  excused     \* history, for the properties only: machines nobody could stop or name

boxVars == <<deployment, boxes, ledger, toStop, hunted, excused>>
hostVars == <<pc, phase, probe, report, bell, ceiling, throws, outcome, phases>>
vars == <<boxVars, hostVars, faults, toolVars>>

Ways == {"dns", "route"}
NoPhase == [kind |-> "none", net |-> FALSE, box |-> 0]
NoOutcome == [ended |-> "none", kind |-> "none", started |-> FALSE, probe |-> {"unknown"},
              threw |-> "no"]

TypeOK ==
  /\ deployment \in Deployments
  /\ ToolsTypeOK
  /\ boxes \in Seq([tags : SUBSET {"engine", "this", "other"},
                    state : {"runs", "stopped", "expired"},
                    open : SUBSET Ways, missed : SUBSET Ways,
                    holds : SUBSET {"source", "values"}])
  /\ \A set \in {ledger, toStop, hunted, excused} : set \subseteq DOMAIN boxes
  /\ pc \in {"down", "sweep", "idle", "create", "remember", "prepare", "seal", "write", "start",
             "ready", "flip", "drive", "tell", "await", "drain", "collect", "close",
             "build", "scrub", "snapshot"}
  /\ phase \in [kind : PhaseKinds \cup {"none"}, net : BOOLEAN, box : {0} \cup DOMAIN boxes]
  /\ probe \in SUBSET Ways \cup {{"unknown"}}
  /\ report \in [failed : BOOLEAN, ready : BOOLEAN]
  /\ bell \in {"off", "set"} /\ ceiling \in {"none", "wall", "session"}
  /\ throws \in {"no", "gone", "fault"}
  /\ outcome \in [ended : {"none", "returned", "refused", "failed", "threw"},
                  kind : PhaseKinds \cup {"none"}, started : BOOLEAN,
                  probe : SUBSET Ways \cup {{"unknown"}}, threw : {"no", "gone", "fault"}]
  /\ phases \in 0..Bounds[deployment].phases /\ faults \in 0..Bounds[deployment].faults

Fault == faults < Bounds[deployment].faults /\ faults' = faults + 1
Box == phase.box
Runs(b) == boxes[b].state = "runs"
Sealed == probe = {}
Unsealed == probe \cap Ways # {}
-----------------------------------------------------------------------------
(* Machines: created with a policy and tags, stopped by an id.             *)

\* The tag of the deployment alone.
DeploymentTags(w) == {"engine"}
TagsOf(w) == {"engine", w}
Listed(tags) == {b \in DOMAIN boxes : Runs(b) /\ tags \subseteq boxes[b].tags}

Stop(set) == boxes' = [b \in DOMAIN boxes |->
                         IF b \in set /\ Runs(b) THEN [boxes[b] EXCEPT !.state = "stopped"]
                         ELSE boxes[b]]

(* Stopped, or the platform did not answer: nobody tries this one again.   *)
StopOrNot(b) ==
  \/ Stop({b}) /\ UNCHANGED <<excused, faults>>
  \/ Runs(b) /\ Fault /\ excused' = excused \cup {b} /\ UNCHANGED boxes

LoopForgotten ==
  /\ provider' = "none" /\ loop' = "off" /\ returned' = FALSE /\ turns' = 0 /\ toAsk' = 0
  /\ calls' = <<>> /\ pending' = {} /\ spool' = {} /\ serving' = 0
  /\ session' = "none" /\ stdin' = <<>> /\ buffer' = <<>> /\ told' = {}

ToolsReset ==
  /\ LoopForgotten
  /\ vm' = "off" /\ channel' = <<>> /\ stream' = "none" /\ abandoned' = FALSE

HostReset(to) ==
  /\ pc' = to /\ phase' = NoPhase /\ probe' = {"unknown"}
  /\ report' = [failed |-> FALSE, ready |-> FALSE]
  /\ bell' = "off" /\ ceiling' = "none" /\ throws' = "no"

\* The Runner is gone, and its sessions and its spool with it.
RunnerEnds ==
  /\ vm' = "exited" /\ serving' = 0 /\ session' = "none"
  /\ stdin' = <<>> /\ buffer' = <<>> /\ spool' = {}

\* A call to a machine that is gone throws; one to a machine that runs may.
Threw == IF Runs(Box) THEN "fault" ELSE "gone"
ItThrows == IF Runs(Box) THEN Fault ELSE UNCHANGED faults
Ended(how, why) == outcome' = [ended |-> how, kind |-> phase.kind, started |-> vm # "off",
                               probe |-> probe, threw |-> why]
Go(to) == pc' = to /\ UNCHANGED <<phase, probe, report, bell, ceiling, throws, outcome, phases>>
-----------------------------------------------------------------------------
(* The worker's life: the boot sweep, the phases, a crash anywhere.        *)

\* What was written down alone.
LedgerOnly(known, listed) == known
SweepIds(known, listed) == known \cup listed

\* A process id that was never in use tags no machine.
Mine == IF deployment = "fly" THEN Listed(TagsOf("this")) ELSE {}
Disks == IF deployment = "fly" THEN {ledger, {}} ELSE {ledger}

\* Only a deployed worker finds a machine again that it did not write down.
Unwritten == IF deployment = "fly" THEN {} ELSE {Box}

Boot ==
  /\ pc = "down" /\ HostReset("sweep") /\ ledger' \in Disks
  /\ \/ toStop' = SweepIds(ledger', Mine) /\ UNCHANGED <<excused, faults>>
     \/ /\ toStop' = SweepIds(ledger', {}) /\ Fault
        /\ excused' = excused \cup (Mine \ ledger')
  /\ UNCHANGED <<deployment, boxes, hunted, outcome, phases, toolVars>>

SweepOne(b) ==
  /\ pc = "sweep" /\ b \in toStop /\ toStop' = toStop \ {b} /\ StopOrNot(b)
  /\ UNCHANGED <<deployment, ledger, hunted, hostVars, toolVars>>

SweepEnds ==
  /\ pc = "sweep" /\ toStop = {} /\ ledger' = {} /\ Go("idle")
  /\ UNCHANGED <<deployment, boxes, toStop, hunted, excused, faults, toolVars>>

Crash ==
  /\ pc \notin {"down", "idle"} /\ Fault
  /\ HostReset("down") /\ ToolsReset /\ toStop' = {}
  /\ outcome' = NoOutcome
  /\ excused' = excused \cup IF pc = "remember" THEN Unwritten ELSE {}
  /\ UNCHANGED <<deployment, boxes, ledger, hunted, phases>>

(* Another worker boots and sweeps.  It has no machine of its own here:    *)
(* whatever it lists or reads, it takes for one it left behind.            *)
NeighbourBoots ==
  /\ hunted = {}
  /\ hunted' = SweepIds(IF deployment = "shared" THEN ledger ELSE {}, Listed(TagsOf("other")))
  /\ UNCHANGED <<deployment, boxes, ledger, toStop, excused, faults, hostVars, toolVars>>

NeighbourStops(b) ==
  /\ b \in hunted /\ hunted' = hunted \ {b} /\ StopOrNot(b)
  /\ IF b = Box /\ Runs(b) /\ ~Runs(b)' /\ vm # "off" THEN RunnerEnds
     ELSE UNCHANGED <<spool, vmVars>>
  /\ UNCHANGED <<deployment, ledger, toStop, hostVars, loopVars, pending, channel, stream,
                 abandoned, told>>

\* Its sweep ends, also one that read the file before this worker wrote to it.
NeighbourForgets ==
  /\ deployment = "shared" /\ hunted = {} /\ ledger' = {} /\ excused' = excused \cup ledger
  /\ UNCHANGED <<deployment, boxes, toStop, hunted, faults, hostVars, toolVars>>

\* The platform's own limit, also for a machine everybody forgot.
SessionEnds(b) ==
  /\ Runs(b) /\ boxes' = [boxes EXCEPT ![b].state = "expired"]
  /\ IF b = Box /\ vm # "off" THEN RunnerEnds ELSE UNCHANGED <<spool, vmVars>>
  /\ UNCHANGED <<deployment, ledger, toStop, hunted, excused, faults, hostVars, loopVars, pending,
                 channel, stream, abandoned, told>>
-----------------------------------------------------------------------------
(* Opening a machine.                                                      *)

Begin(kind, net) ==
  /\ pc = "idle" /\ kind \in Bounds[deployment].kinds
  /\ phases < Bounds[deployment].phases /\ phases' = phases + 1
  /\ (kind = "build" => net) /\ (kind = "judge" => ~net)
  /\ pc' = "create" /\ phase' = [kind |-> kind, net |-> net, box |-> 0]
  /\ outcome' = NoOutcome /\ ToolsReset
  /\ UNCHANGED <<boxVars, probe, report, bell, ceiling, throws, faults>>

Create ==
  /\ pc = "create"
  /\ \E ways \in IF phase.net THEN {Ways} ELSE SUBSET Ways :
       /\ boxes' = Append(boxes, [tags |-> TagsOf("this"), state |-> "runs",
                                  open |-> ways, missed |-> {}, holds |-> {}])
       /\ IF ways = {} \/ phase.net THEN UNCHANGED faults ELSE Fault
  /\ pc' = "remember" /\ phase' = [phase EXCEPT !.box = Len(boxes) + 1]
  /\ UNCHANGED <<deployment, probe, report, bell, ceiling, throws, outcome, phases, ledger, toStop,
                 hunted, excused, toolVars>>

CreateFails ==
  /\ pc = "create" /\ Fault /\ Ended("threw", "fault") /\ HostReset("idle")
  /\ UNCHANGED <<boxVars, phases, toolVars>>

(* A write to the ledger that fails is swallowed. *)
Remember ==
  /\ pc = "remember" /\ Go("prepare")
  /\ \/ ledger' = ledger \cup {Box} /\ UNCHANGED <<excused, faults>>
     \/ Fault /\ UNCHANGED ledger /\ excused' = excused \cup Unwritten
  /\ UNCHANGED <<deployment, boxes, toStop, hunted, toolVars>>

Prepared ==
  /\ pc = "prepare" /\ Runs(Box)
  /\ Go(IF phase.net THEN "write" ELSE "seal")
  /\ UNCHANGED <<boxVars, faults, toolVars>>

(* `abandon`: the image cannot be used, and the machine is stopped.        *)
Abandoned ==
  /\ pc = "prepare" /\ Ended("threw", "fault") /\ HostReset("idle") /\ StopOrNot(Box)
  /\ UNCHANGED <<deployment, ledger, toStop, hunted, phases, toolVars>>

(* The last command of `open` throws: `sandbox` is not assigned yet, so    *)
(* nothing stops the machine.                                              *)
PrepareThrows ==
  /\ pc = "prepare" /\ ItThrows
  /\ Ended("threw", Threw) /\ HostReset("idle") /\ excused' = excused \cup {Box}
  /\ UNCHANGED <<deployment, boxes, ledger, toStop, hunted, phases, toolVars>>
-----------------------------------------------------------------------------
(* Sealing it, and what it may be given.                                   *)

(* Two commands, one for each way out.  One that fails for a reason of its *)
(* own (it cannot run, its answer is lost, its time is up) says what a     *)
(* closed way says.                                                        *)

\* One probe would do.
DnsOnly(ways, lost) == (ways \cap {"dns"}) \ lost
Probed(ways, lost) == ways \ lost

Seal ==
  /\ pc = "seal" /\ Runs(Box)
  /\ \E lost \in SUBSET boxes[Box].open :
       probe' = Probed(boxes[Box].open, lost) /\ boxes' = [boxes EXCEPT ![Box].missed = lost]
  /\ IF probe' = {} THEN pc' = "write" /\ UNCHANGED outcome
     ELSE pc' = "close" /\ outcome' = [ended |-> "refused", kind |-> phase.kind,
                                       started |-> FALSE, probe |-> probe', threw |-> "no"]
  /\ UNCHANGED <<deployment, phase, report, bell, ceiling, throws, phases, ledger, toStop, hunted,
                 excused, faults, toolVars>>

MayInject == ~phase.net /\ Sealed

Write ==
  /\ pc = "write" /\ Runs(Box)
  /\ boxes' = [boxes EXCEPT ![Box].holds =
                 {"source"} \cup IF MayInject /\ phase.kind # "build" THEN {"values"} ELSE {}]
  /\ Go(IF phase.kind = "build" THEN "build" ELSE "start")
  /\ UNCHANGED <<deployment, ledger, toStop, hunted, excused, faults, toolVars>>

Start ==
  /\ pc = "start" /\ Runs(Box)
  /\ vm' = "booting" /\ stream' = "live"
  /\ bell' = "set" /\ pc' = IF phase.kind = "agent" THEN "ready" ELSE "await"
  /\ UNCHANGED <<phase, probe, report, ceiling, throws, outcome, phases, boxVars, faults,
                 loopVars, pending, spool, serving, session, stdin, buffer, channel,
                 abandoned, told>>

(* Before the Runner is started, an exception only has the machine to stop. *)
OpenThrows ==
  /\ pc \in {"seal", "write", "start"} /\ ItThrows
  /\ Ended("threw", Threw) /\ pc' = "close"
  /\ UNCHANGED <<phase, probe, report, bell, ceiling, throws, phases, boxVars, toolVars>>
-----------------------------------------------------------------------------
(* The machine at work.                                                    *)

HostRest == UNCHANGED <<boxVars, hostVars, faults>>

\* replayRecipe: the steps in their order; the first that does not come up ends the replay.
Replayed(failed) == IF failed THEN <<[says |-> "env_failed"]>> ELSE <<>>

\* An agent's world: the registered reproduction put into its clone, the recipe replayed there
\* and reported on, if there is one; what comes next is served either way.
Boots(failed) ==
  /\ vm = "booting" /\ phase.kind = "agent" /\ (failed => phase.net)
  /\ vm' = "serving" /\ SayAll(Replayed(failed) \o <<[says |-> "ready"]>>)
  /\ UNCHANGED <<loopVars, pending, spool, serving, session, stdin, buffer, stream,
                 abandoned, told>> /\ HostRest

Observes(n) ==
  /\ vm = "booting" /\ phase.kind = "judge" /\ vm' = "exited"
  /\ SayAll([i \in 1..n |-> [says |-> "event"]])
  /\ UNCHANGED <<loopVars, pending, spool, serving, session, stdin, buffer, stream,
                 abandoned, told>> /\ HostRest

\* `close` and the reap end the session; the commits are bundled, and the Runner is done.
HandsOver ==
  /\ vm = "closing" /\ RunnerEnds /\ SayAll(<<[says |-> "finished"]>>)
  /\ UNCHANGED <<loopVars, pending, stream, abandoned, told>> /\ HostRest

\* A store that would not outlive the Runner, a clone that fails or cannot be handed to the
\* participant: the Runner is done before it said anything.
SetUpFails ==
  /\ vm = "booting" /\ Fault /\ RunnerEnds
  /\ UNCHANGED <<loopVars, pending, channel, stream, abandoned, told, boxVars, hostVars>>

RunnerDies ==
  /\ vm \in {"serving", "closing"} /\ Fault /\ RunnerEnds
  /\ UNCHANGED <<loopVars, pending, channel, stream, abandoned, told, boxVars, hostVars>>
-----------------------------------------------------------------------------
(* The host's end of the stream.                                           *)

TakeLine ==
  /\ Take
  /\ LET says == Head(channel).says IN
       report' = [failed |-> report.failed \/ says = "env_failed",
                  ready |-> report.ready \/ says = "ready"]
  /\ UNCHANGED <<pc, phase, probe, bell, ceiling, throws, outcome, phases, boxVars, faults>>

StreamEnds ==
  /\ stream = "live" /\ channel = <<>> /\ vm = "exited" /\ Box # 0 /\ Runs(Box)
  /\ stream' = "ended"
  /\ UNCHANGED <<loopVars, pending, spool, vmVars, channel, abandoned, told>> /\ HostRest

Met(limit) == IF ceiling = "none" THEN limit ELSE ceiling

\* SessionEnded on the stream: what was taken stays taken, what was not is gone.
StreamCut ==
  /\ stream = "live" /\ Box # 0 /\ ~Runs(Box)
  /\ stream' = "cut" /\ channel' = <<>> /\ ceiling' = Met("session")
  /\ UNCHANGED <<pc, phase, probe, report, bell, throws, outcome, phases, boxVars, faults,
                 loopVars, pending, spool, vmVars, abandoned, told>>

\* What was not taken is not taken any more.
Abandon == abandoned' = TRUE /\ channel' = <<>>

\* The wall clock: asks for the command to be killed, and waits for nothing.
Bell(killed) ==
  /\ bell = "set" /\ bell' = "off" /\ ceiling' = "wall" /\ Abandon
  /\ IF killed THEN RunnerEnds ELSE UNCHANGED <<spool, vmVars>>
  /\ UNCHANGED <<pc, phase, probe, report, throws, outcome, phases, boxVars, faults, loopVars,
                 pending, stream, told>>
-----------------------------------------------------------------------------
(* Driving it.                                                             *)

Ready ==
  /\ pc = "ready" /\ (report.ready \/ Settled)
  /\ Go(IF report.failed THEN "tell" ELSE IF phase.net THEN "flip" ELSE "drive")
  /\ UNCHANGED <<boxVars, faults, toolVars>>

\* The agent's seal: the policy is changed, and probed like any other.
Flip ==
  /\ pc = "flip" /\ Runs(Box)
  /\ \E ways \in SUBSET Ways : \E lost \in SUBSET ways :
       /\ boxes' = [boxes EXCEPT ![Box].open = ways, ![Box].missed = lost]
       /\ IF ways = {} THEN UNCHANGED faults ELSE Fault
       /\ probe' = Probed(ways, lost)
  /\ phase' = [phase EXCEPT !.net = FALSE]
  /\ pc' = IF Unsealed' THEN "tell" ELSE "drive"
  /\ IF Unsealed' THEN Abandon ELSE UNCHANGED <<abandoned, channel>>
  /\ UNCHANGED <<deployment, report, bell, ceiling, throws, outcome, phases, ledger, toStop, hunted,
                 excused, loopVars, pending, spool, vmVars, stream, told>>

\* The flip or a probe throws, a machine that is gone among the reasons: nobody tells the
\* Runner, and the bell is cleared.
FlipThrows ==
  /\ pc = "flip" /\ ItThrows
  /\ pc' = "drain" /\ throws' = Threw /\ bell' = "off"
  /\ UNCHANGED <<phase, probe, report, ceiling, outcome, phases, boxVars, toolVars>>

Drive ==
  /\ pc = "drive" /\ loop = "off" /\ loop' = "asking"
  /\ provider' \in {"anthropic", "openrouter"}
  /\ UNCHANGED <<returned, turns, toAsk, calls, pending, spool, vmVars,
                 channel, stream, abandoned, told>> /\ HostRest

DriverReturns ==
  /\ pc = "drive" /\ returned /\ Go("tell")
  /\ UNCHANGED <<boxVars, faults, toolVars>>

\* {done: true}, or the phase is abandoned.
Tell(arrives) ==
  /\ pc = "tell" /\ Go("await") /\ calls' = Append(calls, "done")
  /\ IF arrives THEN Runs(Box) /\ spool' = spool \cup {Len(calls) + 1}
                       /\ UNCHANGED <<abandoned, channel, faults>>
     ELSE UNCHANGED spool /\ Abandon /\ ItThrows
  /\ UNCHANGED <<boxVars, provider, loop, returned, turns, toAsk, pending, vmVars,
                 stream, told>>
-----------------------------------------------------------------------------
(* The end of a phase.                                                     *)

\* `wait` throws what it is told.
RethrowsGone == throws' = (IF Runs(Box) THEN throws ELSE "gone") /\ UNCHANGED ceiling
\* A session that is over is a ceiling, also where `wait` says so.
CatchesGone == ceiling' = (IF Runs(Box) THEN ceiling ELSE Met("session")) /\ UNCHANGED throws

Await ==
  /\ pc = "await" /\ (ceiling # "none" \/ abandoned \/ vm = "exited")
  /\ IF ceiling = "none" /\ ~abandoned THEN CatchesGone ELSE UNCHANGED <<ceiling, throws>>
  /\ pc' = "drain" /\ bell' = "off" /\ LoopForgotten
  /\ UNCHANGED <<phase, probe, report, outcome, phases, boxVars, faults,
                 vm, channel, stream, abandoned>>

AwaitThrows ==
  /\ pc = "await" /\ ceiling = "none" /\ ~abandoned /\ Fault
  /\ pc' = "drain" /\ bell' = "off" /\ throws' = "fault"
  /\ UNCHANGED <<phase, probe, report, ceiling, outcome, phases, boxVars, toolVars>>

Drain ==
  /\ pc = "drain" /\ Settled
  /\ IF throws # "no" THEN pc' = "close" /\ Ended("threw", throws)
     ELSE pc' = "collect" /\ UNCHANGED outcome
  /\ UNCHANGED <<phase, probe, report, bell, ceiling, throws, phases, boxVars, faults, toolVars>>

\* A store that cannot be read back is said in the record, and the record is complete.
Collect ==
  /\ pc = "collect" /\ pc' = "close" /\ Ended("returned", "no")
  /\ UNCHANGED <<phase, probe, report, bell, ceiling, throws, phases, boxVars, faults, toolVars>>

Close ==
  /\ pc = "close" /\ StopOrNot(Box) /\ HostReset("idle")
  /\ UNCHANGED <<deployment, ledger, toStop, hunted, outcome, phases, toolVars>>
-----------------------------------------------------------------------------
(* The environment build: one command, raced against a bell of its own.    *)

BuildEnds(to) ==
  /\ pc' = to /\ IF to = "close" THEN Ended("failed", "no") ELSE UNCHANGED outcome
  /\ UNCHANGED <<phase, probe, report, bell, ceiling, throws, phases, toolVars>>

Build ==
  /\ pc = "build" /\ \E to \in {"scrub", "close"} : (to = "scrub" => Runs(Box)) /\ BuildEnds(to)
  /\ UNCHANGED <<boxVars, faults>>

Scrub ==
  /\ pc = "scrub"
  /\ \/ Runs(Box) /\ boxes' = [boxes EXCEPT ![Box].holds = {}] /\ BuildEnds("snapshot")
        /\ UNCHANGED faults
     \/ ItThrows /\ BuildEnds("close") /\ UNCHANGED boxes
  /\ UNCHANGED <<deployment, ledger, toStop, hunted, excused>>

\* Taking the snapshot is what stops this machine.
Snapshot ==
  /\ pc = "snapshot"
  /\ \/ /\ Runs(Box) /\ Stop({Box}) /\ Ended("returned", "no") /\ HostReset("idle")
        /\ UNCHANGED <<phases, faults, toolVars>>
     \/ ItThrows /\ BuildEnds("close") /\ UNCHANGED boxes
  /\ UNCHANGED <<deployment, ledger, toStop, hunted, excused>>
-----------------------------------------------------------------------------
Init ==
  /\ deployment \in Deployments
  /\ boxes = <<>> /\ ledger = {} /\ toStop = {} /\ hunted = {} /\ excused = {}
  /\ phases = 0 /\ faults = 0
  /\ pc = "idle" /\ phase = NoPhase /\ probe = {"unknown"}
  /\ report = [failed |-> FALSE, ready |-> FALSE] /\ bell = "off" /\ ceiling = "none"
  /\ throws = "no" /\ outcome = NoOutcome
  /\ provider = "none" /\ loop = "off" /\ returned = FALSE /\ turns = 0 /\ toAsk = 0 /\ calls = <<>>
  /\ pending = {} /\ spool = {} /\ serving = 0
  /\ session = "none" /\ stdin = <<>> /\ buffer = <<>> /\ vm = "off"
  /\ channel = <<>> /\ stream = "none" /\ abandoned = FALSE /\ told = {}

Host ==
  \/ Boot \/ (\E b \in toStop : SweepOne(b)) \/ SweepEnds
  \/ Create \/ Remember \/ Prepared \/ PrepareThrows \/ Seal \/ Write \/ Start \/ OpenThrows
  \/ Ready \/ Flip \/ FlipThrows \/ Drive \/ DriverReturns \/ (\E a \in BOOLEAN : Tell(a))
  \/ Await \/ Drain \/ Collect \/ Close \/ Build \/ Scrub \/ Snapshot
Machine ==
  (\E failed \in BOOLEAN : Boots(failed)) \/ (\E n \in 0..MaxEvents : Observes(n))
    \/ HandsOver
Stream == TakeLine \/ StreamEnds \/ StreamCut
Working == {"drive", "tell", "await", "drain"}
Inside == pc \in Working /\ (LoopStep \/ RunnerStep) /\ HostRest
Failing ==
  CreateFails \/ Abandoned \/ AwaitThrows \/ SetUpFails \/ RunnerDies
    \/ ((\E n \in pending : DeliveryFails(n))
         /\ Fault /\ UNCHANGED <<boxVars, hostVars>>)

Next ==
  \/ Host \/ Machine \/ Stream \/ Inside \/ Failing \/ Crash
  \/ \E kind \in PhaseKinds, net \in BOOLEAN : Begin(kind, net)
  \/ (pc \in Working /\ (ShellRuns \/ ShellExits) /\ HostRest)
  \/ \E killed \in BOOLEAN : Bell(killed)
  \/ NeighbourBoots \/ (\E b \in hunted : NeighbourStops(b)) \/ NeighbourForgets
  \/ \E b \in DOMAIN boxes : SessionEnds(b)

Spec == Init /\ [][Next]_vars

\* The worker, the machine and the loop go on; a call of the session is waited for only so
\* long; the platform ends every session.  Nothing makes a command end.
FairSpec ==
  /\ Spec /\ WF_vars(Host) /\ WF_vars(Machine) /\ WF_vars(Stream) /\ WF_vars(Inside)
  /\ WF_vars(\E b \in DOMAIN boxes : SessionEnds(b))
-----------------------------------------------------------------------------
Using == {"remember", "prepare", "seal", "write", "start", "ready", "flip", "drive", "tell",
          "await", "drain", "collect", "build", "scrub", "snapshot"}

\* A sweep stops the machine of another worker's phase only if both workers have one ledger and
\* the machine's line is in it, or was before a neighbour removed it: never by the tags, and
\* never one whose line is still to be written (the tags and the ledger of executorFor).
OnlyASharedLineStopsAMachine ==
  pc \in Using /\ boxes[Box].state = "stopped" =>
    deployment = "shared" /\ Box \in ledger \cup excused

\* A machine this worker is not using runs on only if it refused to be stopped, if `open` threw
\* over its last command, if a deployed worker's disk and the platform's list both failed the
\* boot, if another worker's had no line for it, or a neighbour removed it (close, abandon,
\* sweep, the ledger).
NothingIsLeftRunning ==
  pc = "idle" => \A b \in DOMAIN boxes : Runs(b) => b \in excused

\* A phase whose Runner was started keeps its record when its machine ends under it, except an
\* agent's that had not been sealed yet (SessionEnded is a ceiling, runPhase's catches).
CeilingsKeepTheRecord ==
  outcome.threw = "gone" /\ outcome.started =>
    outcome.kind = "agent" /\ outcome.probe = {"unknown"}

\* What judges has the source, a stored value is handed over, or a tool ran for the model.
Entrusted ==
  \/ phase.kind = "judge" /\ "source" \in boxes[Box].holds
  \/ "values" \in boxes[Box].holds
  \/ \E line \in told : line.exit # 0

\* None of them is in a machine with a way out, except one that the probe for it could have seen
\* and did not, for a reason of its own (seal before the Job, mayInject, the flip before the
\* driver; probe).
OnlyALostProbeLeavesAWayOut == Box # 0 /\ Entrusted => boxes[Box].open \subseteq boxes[Box].missed

\* A command's output turns up in the answer to another only if its own answer did not end with
\* its own mark (shellWrite clears the buffer, looks for its mark, and gives up in time).
OnlyUnfinishedCommandsLeak ==
  \A line \in told : \A k \in ({line.exit} \cup line.saw) \ {0, line.id} :
    \E own \in told : own.id = k /\ own.exit # k

\* A phase ends (the bell, the session's limit, and a call that is refused when either strikes).
PhasesEnd == pc \notin {"idle", "down"} ~> pc \in {"idle", "down"}
=============================================================================
