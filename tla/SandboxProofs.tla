---------------------------- MODULE SandboxProofs ----------------------------
(***************************************************************************)
(* Proofs about Sandbox, for every number of phases, faults, turns, calls  *)
(* and machines.                                                           *)
(***************************************************************************)
EXTENDS Sandbox, SequenceTheorems, WellFoundedInduction, TLAPS

-----------------------------------------------------------------------------
(***************************************************************************)
(* Where the worker is, and what is true there.                            *)
(***************************************************************************)
BoxType == [tags : {{"engine", "this"}}, state : {"runs", "stopped", "expired"},
            open : SUBSET Ways, missed : SUBSET Ways, holds : SUBSET {"source", "values"}]

Away == {"down", "sweep", "idle"}
AfterTell == {"await", "drain", "collect", "close"}

\* A phase has a machine from `create` on until it is over.
Place ==
  /\ boxes \in Seq(BoxType)
  /\ phase \in [kind : PhaseKinds \cup {"none"}, net : BOOLEAN, box : Nat]
  /\ pc \in Away \cup {"create", "close"} \cup Using
  /\ pc \in Away \cup {"create"} => Box = 0
  /\ pc \notin Away \cup {"create"} => Box \in DOMAIN boxes

\* Another worker's sweep has none of its machines, except those whose line it read in the ledger
\* they share; the line of the machine in use stays there until that sweep is over.
Owned ==
  /\ deployment # "shared" => hunted = {}
  /\ hunted \subseteq DOMAIN boxes /\ ledger \subseteq DOMAIN boxes
  /\ pc \in Using /\ Box \in hunted => Box \in ledger
  /\ OnlyASharedLineStopsAMachine

\* What the next boot finds again.
Nameable(b) == deployment = "fly" \/ b \in ledger

\* A machine that runs is in use, known to be lost, or about to be found.
Found ==
  /\ \A b \in DOMAIN boxes : Runs(b) =>
       \/ b = Box \/ b \in excused
       \/ (pc = "down" /\ Nameable(b)) \/ (pc = "sweep" /\ b \in toStop)
  /\ pc \notin Away \cup {"create", "remember"} => Box \in excused \/ Nameable(Box)
  /\ pc = "sweep" => \A b \in toStop : b \in excused \/ Nameable(b)

\* No way out of its machine was seen.
Unseen == boxes[Box].open \subseteq boxes[Box].missed

\* What is known of the ways out of the machine, and what it was given.
Confined ==
  /\ phase.net => phase.kind # "judge" /\ probe = {"unknown"}
  /\ pc \in Away => probe = {"unknown"}
  /\ pc = "flip" => phase.net
  /\ pc \in {"seal", "drive"} => ~phase.net
  /\ Box # 0 =>
       /\ pc \in {"remember", "prepare", "seal", "write"} => boxes[Box].holds = {}
       /\ phase.net => "values" \notin boxes[Box].holds
       /\ pc \in {"write", "start", "ready", "drive"} /\ ~phase.net => Unseen
       /\ "values" \in boxes[Box].holds => Unseen
       /\ phase.kind = "judge" /\ "source" \in boxes[Box].holds => Unseen

\* No model has been asked anything; at most the Runner was told to be done.
Untouched ==
  /\ loop = "off" /\ pending = {} /\ told = {} /\ serving = 0
  /\ \/ calls = <<>> /\ spool = {}
     \/ pc \in AfterTell /\ calls = <<"done">> /\ spool \subseteq {1}

Quiet ==
  pc \notin Away =>
    Untouched \/ (pc \in AfterTell \cup {"drive", "tell"} /\ Unseen)

\* Which exceptions can still be on their way out.
Recorded ==
  /\ pc \in {"create", "remember", "prepare", "seal", "write", "start", "build", "scrub",
             "snapshot"} => vm = "off"
  /\ bell = "set" => pc \in {"ready", "flip", "drive", "tell", "await"}
  /\ pc \in {"ready", "flip"} => phase.kind = "agent"
  /\ throws = "gone" => /\ pc \in {"drain", "close"}
                        /\ phase.kind = "agent" /\ probe = {"unknown"}
  /\ CeilingsKeepTheRecord

SInv == Place /\ Owned /\ Found /\ Confined /\ Quiet /\ Recorded

LEMMA BoxFields ==
  ASSUME Place, NEW b \in DOMAIN boxes
  PROVE  /\ boxes[b] \in BoxType
         /\ boxes[b].tags = {"engine", "this"} /\ boxes[b].open \subseteq Ways
         /\ boxes[b].state \in {"runs", "stopped", "expired"}
<1>1. boxes[b] \in BoxType
  BY DEF Place
<1> QED BY <1>1 DEF BoxType

\* Steps inside the machine leave the worker where it is.
LEMMA InsideKeeps ==
  ASSUME SInv,
         UNCHANGED <<boxVars, pc, phase, probe, throws, outcome>>,
         bell' = bell \/ bell' = "off", vm = "off" /\ bell # "set" => vm' = "off",
         Untouched => Untouched'
  PROVE  SInv'
BY DEF SInv, Place, Owned, Found, Nameable, Confined, Quiet, Unseen, Recorded,
       CeilingsKeepTheRecord, OnlyASharedLineStopsAMachine, Box, Runs, boxVars

\* Nothing that goes on in a machine asks the model.
LEMMA MachineKeeps ==
  ASSUME SInv,
         \/ Machine \/ Stream \/ Inside \/ SetUpFails \/ RunnerDies
         \/ \E k \in pending : DeliveryFails(k) /\ UNCHANGED <<boxVars, hostVars>>
         \/ (ShellRuns \/ ShellExits) /\ HostRest
         \/ \E killed \in BOOLEAN : Bell(killed)
  PROVE  SInv'
<1>. USE DEF boxVars, hostVars, HostRest, loopVars, vmVars
<1>. DEFINE Frame == /\ UNCHANGED <<boxVars, pc, phase, probe, throws, outcome>>
                     /\ bell' = bell \/ bell' = "off"
                     /\ vm = "off" /\ bell # "set" => vm' = "off"
                     /\ Untouched => Untouched'
<1>. SUFFICES Frame
  BY InsideKeeps
<1>1. CASE Machine
  BY <1>1 DEF Machine, Boots, Observes, HandsOver, RunnerEnds, Untouched
<1>2. CASE Stream
  <2>1. CASE TakeLine
    BY <2>1 DEF TakeLine, Take, Untouched
  <2>2. CASE StreamEnds \/ StreamCut
    BY <2>2 DEF StreamEnds, StreamCut, Untouched
  <2> QED BY <1>2, <2>1, <2>2 DEF Stream
<1>3. CASE Inside /\ LoopStep
  <2>1. UNCHANGED <<pending, spool, vmVars, told>> \/ \E ask \in Asks : Invoke(ask)
    BY <1>3 DEF LoopStep, Ask, ModelFails, TurnCap, LoopTimesOut, NextTurn, RestOfLoop
  <2>2. Untouched => UNCHANGED <<loop, calls>> /\ ~\E ask \in Asks : Invoke(ask)
    BY <1>3 DEF Untouched, LoopStep, Ask, ModelFails, TurnCap, LoopTimesOut, Invoke, NextTurn
  <2>3. vm' = vm
    BY <1>3, <2>1 DEF Invoke
  <2> QED BY <1>3, <2>1, <2>2, <2>3 DEF Inside, Untouched
<1>4. CASE Inside /\ RunnerStep
  <2>1. CASE RejectWaiting
    BY <1>4, <2>1 DEF Inside, RejectWaiting, Untouched
  <2>2. CASE Settle \/ NoResult
    BY <1>4, <2>2 DEF Inside, Settle, NoResult, RestOfVm, Untouched
  <2>3. CASE Serve
    <3>1. /\ UNCHANGED <<boxVars, pc, phase, probe, throws, outcome, bell>>
          /\ vm # "off" /\ spool # {}
          /\ UNCHANGED <<loop, calls, pending, told>> /\ spool' \subseteq spool
      BY <1>4, <2>3 DEF Inside, Serve, RestOfVm
    <3>2. ASSUME Untouched PROVE serving' = 0
      <4>1. spool = {1} /\ calls = <<"done">> /\ serving = 0
        BY <3>1, <3>2 DEF Untouched
      <4>2. Min(spool) = 1
        BY <4>1 DEF Min
      <4>3. "done" \notin Commands /\ calls[1] = "done"
        BY <4>1, ToolsAssumption
      <4>4. vm' = "closing" /\ UNCHANGED serving
        BY <2>3, <4>2, <4>3 DEF Serve
      <4> QED BY <4>1, <4>4
    <3> QED BY <3>1, <3>2 DEF Untouched
  <2> QED BY <1>4, <2>1, <2>2, <2>3 DEF RunnerStep
<1>5. CASE SetUpFails \/ RunnerDies
  BY <1>5 DEF SetUpFails, RunnerDies, RunnerEnds, Untouched
<1>6. CASE \E k \in pending : DeliveryFails(k) /\ UNCHANGED <<boxVars, hostVars>>
  BY <1>6 DEF DeliveryFails, Untouched
<1>7. CASE (ShellRuns \/ ShellExits) /\ HostRest
  BY <1>7 DEF ShellRuns, ShellExits, RestOfVm, Untouched
<1>8. CASE \E killed \in BOOLEAN : Bell(killed)
  BY <1>8 DEF Bell, Abandon, RunnerEnds, Untouched
<1> QED BY <1>1, <1>2, <1>3, <1>4, <1>5, <1>6, <1>7, <1>8 DEF Inside

\* A worker that is through with its phase, or died, has nothing in hand.
LEMMA LettingGo ==
  ASSUME NEW to \in Away, HostReset(to), boxes' \in Seq(BoxType), Found', CeilingsKeepTheRecord',
         hunted' \subseteq DOMAIN boxes', ledger' \subseteq DOMAIN boxes',
         deployment' # "shared" => hunted' = {}
  PROVE  SInv'
<1>. USE DEF HostReset, NoPhase, Away, Using, AfterTell, Box
<1>1. phase'.box = 0 /\ phase'.net = FALSE /\ phase'.kind = "none"
      /\ phase' \in [kind : PhaseKinds \cup {"none"}, net : BOOLEAN, box : Nat]
  OBVIOUS
<1>2. Place'
  BY <1>1 DEF Place
<1>3. Owned' /\ Quiet'
  BY DEF Owned, Quiet, OnlyASharedLineStopsAMachine
<1>4. Confined'
  BY <1>1 DEF Confined
<1>5. Recorded'
  BY DEF Recorded
<1> QED BY <1>2, <1>3, <1>4, <1>5 DEF SInv

\* An exception leaves the phase's record behind, and what it may say of a machine that is gone.
LEMMA EndingKeeps ==
  ASSUME NEW how, NEW why, Ended(how, why), why = "gone" => vm = "off"
  PROVE  CeilingsKeepTheRecord'
BY DEF Ended, CeilingsKeepTheRecord

\* The worker's own steps that neither touch the platform nor the machine.
LEMMA WorkerKeeps ==
  ASSUME SInv,
         \/ Boot \/ SweepEnds \/ Remember \/ Prepared \/ PrepareThrows \/ OpenThrows
         \/ CreateFails \/ Ready \/ FlipThrows \/ DriverReturns \/ Drain \/ Collect
         \/ AwaitThrows \/ Build
  PROVE  SInv'
<1>. USE DEF boxVars, hostVars, toolVars, loopVars, vmVars, Box, Runs, Go, HostReset, NoPhase,
             Ended, Away, Using, AfterTell, SInv
<1>. USE DEF Place, Owned, Found, Nameable, Confined, Quiet, Unseen, Untouched, Recorded,
             CeilingsKeepTheRecord, OnlyASharedLineStopsAMachine
<1>1. CASE Boot
  <2>1. deployment = "fly" => Mine = {b \in DOMAIN boxes : Runs(b)}
    <3>1. \A b \in DOMAIN boxes : boxes[b].tags = {"engine", "this"}
      BY BoxFields
    <3> QED BY <3>1 DEF Mine, Listed, TagsOf
  <2>2. deployment # "fly" => ledger' = ledger /\ toStop' = ledger
    BY <1>1 DEF Boot, Disks, Mine, SweepIds
  <2>3. deployment = "fly" =>
          \A b \in DOMAIN boxes : Runs(b) => b \in excused' \/ b \in toStop'
    BY <1>1, <2>1 DEF Boot, SweepIds
  <2>4. \A b \in DOMAIN boxes : Runs(b) => b \in excused' \/ b \in toStop'
    <3>1. ASSUME deployment # "fly", NEW b \in DOMAIN boxes, Runs(b)
          PROVE  b \in excused' \/ b \in toStop'
      <4>1. Box = 0 /\ b # 0 /\ pc = "down" /\ excused \subseteq excused'
        BY <1>1, LenProperties DEF Boot
      <4> QED BY <2>2, <3>1, <4>1
    <3> QED BY <2>3, <3>1
  <2>5. Found' /\ CeilingsKeepTheRecord'
    BY <1>1, <2>2, <2>4 DEF Boot
  <2>6. /\ boxes' \in Seq(BoxType) /\ HostReset("sweep")
        /\ hunted' \subseteq DOMAIN boxes' /\ ledger' \subseteq DOMAIN boxes'
        /\ deployment' # "shared" => hunted' = {}
    BY <1>1 DEF Boot, Disks
  <2> QED BY <2>5, <2>6, LettingGo
<1>2. CASE SweepEnds
  BY <1>2 DEF SweepEnds
<1>3. CASE Remember
  <2>1. Found'
    BY <1>3 DEF Remember, Unwritten
  <2> QED BY <1>3, <2>1 DEF Remember
<1>4. CASE Prepared
  BY <1>4 DEF Prepared
<1>5. CASE PrepareThrows
  <2>1. Found'
    BY <1>5 DEF PrepareThrows
  <2>2. CeilingsKeepTheRecord'
    BY <1>5, EndingKeeps DEF PrepareThrows
  <2> QED BY <1>5, <2>1, <2>2, LettingGo DEF PrepareThrows
<1>6. CASE OpenThrows
  BY <1>6 DEF OpenThrows
<1>7. CASE CreateFails
  <2>1. Found'
    BY <1>7 DEF CreateFails
  <2>2. CeilingsKeepTheRecord'
    BY <1>7, EndingKeeps DEF CreateFails
  <2> QED BY <1>7, <2>1, <2>2, LettingGo DEF CreateFails
<1>8. CASE Ready
  BY <1>8 DEF Ready
<1>9. CASE FlipThrows
  BY <1>9 DEF FlipThrows
<1>10. CASE DriverReturns
  BY <1>10 DEF DriverReturns
<1>11. CASE Drain
  BY <1>11 DEF Drain
<1>12. CASE Collect
  BY <1>12 DEF Collect
<1>13. CASE AwaitThrows
  BY <1>13 DEF AwaitThrows
<1>14. CASE Build
  BY <1>14 DEF Build, BuildEnds
<1> QED BY <1>1, <1>2, <1>3, <1>4, <1>5, <1>6, <1>7, <1>8, <1>9, <1>10, <1>11, <1>12, <1>13,
           <1>14
-----------------------------------------------------------------------------
(***************************************************************************)
(* Steps that change a machine.                                            *)
(***************************************************************************)
LEMMA StoppingLeaves ==
  ASSUME Place, NEW set, Stop(set)
  PROVE  /\ boxes' \in Seq(BoxType) /\ DOMAIN boxes' = DOMAIN boxes
         /\ \A b \in DOMAIN boxes :
              /\ boxes'[b].open = boxes[b].open /\ boxes'[b].missed = boxes[b].missed
              /\ boxes'[b].holds = boxes[b].holds
              /\ boxes'[b].state = IF b \in set /\ Runs(b) THEN "stopped" ELSE boxes[b].state
<1>1. /\ \A b \in DOMAIN boxes : boxes[b] \in BoxType
      /\ DOMAIN boxes = 1..Len(boxes) /\ Len(boxes) \in Nat
  BY BoxFields, LenProperties DEF Place
<1>2. ASSUME NEW b \in DOMAIN boxes
      PROVE  /\ boxes'[b] \in BoxType
             /\ boxes'[b].open = boxes[b].open /\ boxes'[b].missed = boxes[b].missed
             /\ boxes'[b].holds = boxes[b].holds
             /\ boxes'[b].state = IF b \in set /\ Runs(b) THEN "stopped" ELSE boxes[b].state
  BY <1>1 DEF Stop, BoxType
<1>3. DOMAIN boxes' = DOMAIN boxes /\ boxes' = [b \in 1..Len(boxes) |-> boxes'[b]]
  BY <1>1 DEF Stop
<1>4. boxes' \in [1..Len(boxes) -> BoxType]
  BY <1>1, <1>2, <1>3
<1>5. boxes' \in Seq(BoxType)
  BY <1>1, <1>4, SeqDef
<1> QED BY <1>2, <1>3, <1>5

LEMMA ChangingOneLeaves ==
  ASSUME Place, NEW c \in DOMAIN boxes, NEW x \in BoxType, boxes' = [boxes EXCEPT ![c] = x]
  PROVE  /\ boxes' \in Seq(BoxType) /\ DOMAIN boxes' = DOMAIN boxes
         /\ boxes'[c] = x
         /\ \A b \in DOMAIN boxes : b # c => boxes'[b] = boxes[b]
BY DEF Place

\* An attempt to stop a machine: it is stopped, was over, or is known to run on.
LEMMA StopOrNotLeaves ==
  ASSUME Place, NEW c, StopOrNot(c)
  PROVE  /\ boxes' \in Seq(BoxType) /\ DOMAIN boxes' = DOMAIN boxes
         /\ excused \subseteq excused'
         /\ \A b \in DOMAIN boxes :
              /\ Runs(b)' => Runs(b) /\ (b = c => b \in excused')
              /\ boxes'[b].open = boxes[b].open /\ boxes'[b].missed = boxes[b].missed
              /\ boxes'[b].holds = boxes[b].holds
<1>1. CASE Stop({c}) /\ UNCHANGED excused
  BY <1>1, StoppingLeaves DEF Runs
<1>2. CASE UNCHANGED boxes /\ excused' = excused \cup {c}
  BY <1>2 DEF Place, Runs
<1> QED BY <1>1, <1>2 DEF StopOrNot

LEMMA StoppingKeeps ==
  ASSUME SInv,
         \/ \E b \in toStop : SweepOne(b)
         \/ Abandoned \/ Close \/ Snapshot
  PROVE  SInv'
<1>. USE DEF boxVars, hostVars, toolVars, loopVars, vmVars, Box, Runs, NoPhase,
             Away, Using, AfterTell, SInv
<1>. USE DEF Place, Owned, Found, Nameable, Confined, Quiet, Unseen, Untouched, Recorded,
             CeilingsKeepTheRecord, OnlyASharedLineStopsAMachine
<1>1. ASSUME NEW c \in toStop, SweepOne(c) PROVE SInv'
  <2>1. /\ boxes' \in Seq(BoxType) /\ DOMAIN boxes' = DOMAIN boxes
        /\ excused \subseteq excused'
        /\ \A b \in DOMAIN boxes : Runs(b)' => Runs(b) /\ (b = c => b \in excused')
    BY <1>1, StopOrNotLeaves DEF SweepOne
  <2> QED BY <1>1, <2>1 DEF SweepOne
<1>2. CASE Abandoned \/ Close
  <2>1. /\ boxes' \in Seq(BoxType) /\ DOMAIN boxes' = DOMAIN boxes
        /\ excused \subseteq excused'
        /\ \A b \in DOMAIN boxes : Runs(b)' => Runs(b) /\ (b = Box => b \in excused')
    BY <1>2, StopOrNotLeaves DEF Abandoned, Close
  <2>2. Found'
    BY <1>2, <2>1 DEF Abandoned, Close, HostReset
  <2>3. CeilingsKeepTheRecord'
    BY <1>2, EndingKeeps DEF Abandoned, Close
  <2> QED BY <1>2, <2>1, <2>2, <2>3, LettingGo DEF Abandoned, Close
<1>3. CASE Snapshot
  <2>1. CASE Stop({Box}) /\ Ended("returned", "no") /\ HostReset("idle")
    <3>1. Found'
      BY <1>3, <2>1, StoppingLeaves DEF Snapshot, HostReset
    <3>2. CeilingsKeepTheRecord'
      BY <2>1, EndingKeeps
    <3>3. boxes' \in Seq(BoxType) /\ DOMAIN boxes' = DOMAIN boxes
      BY <2>1, StoppingLeaves
    <3> QED BY <1>3, <2>1, <3>1, <3>2, <3>3, LettingGo DEF Snapshot
  <2>2. CASE ItThrows /\ BuildEnds("close") /\ UNCHANGED boxes
    BY <1>3, <2>2 DEF Snapshot, BuildEnds, Ended
  <2> QED BY <1>3, <2>1, <2>2 DEF Snapshot
<1> QED BY <1>1, <1>2, <1>3

\* Another worker's sweep: it stops this one's machines only where it reads its ledger.
LEMMA NeighbourKeeps ==
  ASSUME SInv,
         NeighbourBoots \/ (\E b \in hunted : NeighbourStops(b)) \/ NeighbourForgets
  PROVE  SInv'
<1>. USE DEF boxVars, hostVars, toolVars, loopVars, vmVars, Box, Runs, Away, Using, AfterTell, SInv
<1>1. CASE NeighbourBoots
  <2>1. Listed(TagsOf("other")) = {}
    BY BoxFields DEF Listed, TagsOf
  <2>2. UNCHANGED <<boxes, ledger, toStop, excused, hostVars, toolVars>>
    BY <1>1 DEF NeighbourBoots
  <2>3. /\ deployment' = deployment /\ hunted' \subseteq ledger
        /\ deployment # "shared" => hunted' = {}
    BY <1>1, <2>1 DEF NeighbourBoots, SweepIds
  <2>4. Place' /\ Owned' /\ Found'
    BY <2>2, <2>3 DEF Place, Owned, OnlyASharedLineStopsAMachine, Found, Nameable
  <2>5. Confined' /\ Quiet' /\ Recorded'
    BY <2>2 DEF Confined, Quiet, Unseen, Untouched, Recorded, CeilingsKeepTheRecord
  <2> QED BY <2>4, <2>5
<1>2. ASSUME NEW c \in hunted, NeighbourStops(c) PROVE SInv'
  <2>1. /\ boxes' \in Seq(BoxType) /\ DOMAIN boxes' = DOMAIN boxes
        /\ excused \subseteq excused'
        /\ \A b \in DOMAIN boxes : /\ Runs(b)' => Runs(b)
                                   /\ boxes'[b].open = boxes[b].open
                                   /\ boxes'[b].missed = boxes[b].missed
                                   /\ boxes'[b].holds = boxes[b].holds
                                   /\ b # c => boxes'[b].state = boxes[b].state
    <3>1. \A b \in DOMAIN boxes : b # c => boxes'[b].state = boxes[b].state
      BY <1>2, StoppingLeaves DEF NeighbourStops, StopOrNot
    <3> QED BY <1>2, <3>1, StopOrNotLeaves DEF NeighbourStops
  <2>2. /\ hunted' = hunted \ {c}
        /\ UNCHANGED <<deployment, ledger, toStop, pc, phase, probe, throws, outcome, bell, loop,
                       calls, pending, told>>
        /\ vm = "off" => vm' = "off"
        /\ \/ serving' = serving /\ spool' = spool
           \/ serving' = 0 /\ spool' = {}
    BY <1>2 DEF NeighbourStops, RunnerEnds
  <2>3. deployment = "shared"
    BY DEF Owned
  <2>4. Place' /\ Owned' /\ Found'
    BY <2>1, <2>2, <2>3 DEF Place, Owned, OnlyASharedLineStopsAMachine, Found, Nameable
  <2>5. Confined'
    BY <2>1, <2>2 DEF Place, Confined, Unseen
  <2>6. Quiet'
    BY <2>1, <2>2 DEF Place, Quiet, Unseen, Untouched
  <2>7. Recorded'
    BY <2>2 DEF Recorded, CeilingsKeepTheRecord
  <2> QED BY <2>4, <2>5, <2>6, <2>7
<1>3. CASE NeighbourForgets
  <2>1. /\ UNCHANGED <<deployment, boxes, toStop, hunted, hostVars, toolVars>> /\ hunted = {}
        /\ ledger' = {} /\ excused' = excused \cup ledger /\ deployment = "shared"
    BY <1>3 DEF NeighbourForgets
  <2>2. Place' /\ Owned' /\ Found'
    BY <2>1 DEF Place, Owned, OnlyASharedLineStopsAMachine, Found, Nameable
  <2>3. Confined' /\ Quiet' /\ Recorded'
    BY <2>1 DEF Confined, Quiet, Unseen, Untouched, Recorded, CeilingsKeepTheRecord
  <2> QED BY <2>2, <2>3
<1> QED BY <1>1, <1>2, <1>3

\* The platform ends a session: the machine is over, but nobody stopped it.
LEMMA SessionKeeps == ASSUME SInv, NEW c \in DOMAIN boxes, SessionEnds(c) PROVE SInv'
<1>. USE DEF boxVars, hostVars, loopVars, vmVars, SInv, Away, Using, AfterTell
<1>1. [boxes[c] EXCEPT !.state = "expired"] \in BoxType
  BY BoxFields DEF BoxType
<1>2. /\ boxes' \in Seq(BoxType) /\ DOMAIN boxes' = DOMAIN boxes
      /\ boxes'[c] = [boxes[c] EXCEPT !.state = "expired"]
      /\ \A b \in DOMAIN boxes : b # c => boxes'[b] = boxes[b]
  BY <1>1, ChangingOneLeaves DEF SessionEnds
<1>3. \A b \in DOMAIN boxes : /\ boxes'[b].open = boxes[b].open
                              /\ boxes'[b].missed = boxes[b].missed
                              /\ boxes'[b].holds = boxes[b].holds
                              /\ boxes'[b].state \in {boxes[b].state, "expired"}
  BY <1>2, BoxFields DEF BoxType
<1>4. /\ UNCHANGED <<deployment, excused, toStop, ledger, hunted, pc, phase, probe, throws,
                     outcome, bell, loop, calls, pending, told>>
      /\ vm = "off" => vm' = "off"
      /\ \/ serving' = serving /\ spool' = spool
         \/ serving' = 0 /\ spool' = {}
  BY DEF SessionEnds, RunnerEnds
<1>5. Place' /\ Owned' /\ Found'
  BY <1>2, <1>3, <1>4 DEF Place, Owned, OnlyASharedLineStopsAMachine, Found, Nameable, Box, Runs
<1>6. Confined'
  BY <1>2, <1>3, <1>4 DEF Place, Confined, Unseen, Box
<1>7. Quiet'
  BY <1>2, <1>3, <1>4 DEF Place, Quiet, Unseen, Untouched, Box
<1>8. Recorded'
  BY <1>4 DEF Recorded, CeilingsKeepTheRecord
<1> QED BY <1>5, <1>6, <1>7, <1>8

\* What the worker does to its machine, short of stopping it.
LEMMA OpeningKeeps == ASSUME SInv, Create \/ Seal \/ Write \/ Scrub \/ Flip PROVE SInv'
<1>. USE DEF boxVars, hostVars, toolVars, loopVars, vmVars, Box, Runs, Go,
             Away, Using, AfterTell, SInv
<1>. USE DEF Place, Owned, Found, Nameable, Confined, Quiet, Unseen, Untouched, Recorded,
             CeilingsKeepTheRecord, OnlyASharedLineStopsAMachine
<1>1. CASE Create
  <2>1. PICK ways \in SUBSET Ways :
          boxes' = Append(boxes, [tags |-> TagsOf("this"), state |-> "runs",
                                  open |-> ways, missed |-> {}, holds |-> {}])
    BY <1>1 DEF Create
  <2>. DEFINE new == [tags |-> TagsOf("this"), state |-> "runs",
                     open |-> ways, missed |-> {}, holds |-> {}]
  <2>2. new \in BoxType /\ new.holds = {} /\ new.state = "runs"
    BY DEF BoxType, TagsOf
  <2>. HIDE DEF new
  <2>3. /\ boxes' \in Seq(BoxType) /\ DOMAIN boxes' = DOMAIN boxes \cup {Len(boxes) + 1}
        /\ boxes'[Len(boxes) + 1] = new /\ Len(boxes) \in Nat
        /\ \A b \in DOMAIN boxes : boxes'[b] = boxes[b] /\ b # Len(boxes) + 1
    <3>1. boxes' = Append(boxes, new)
      BY <2>1 DEF new
    <3> QED BY <2>2, <3>1
  <2>4. phase'.box = Len(boxes) + 1 /\ phase'.kind = phase.kind /\ phase'.net = phase.net
        /\ phase' \in [kind : PhaseKinds \cup {"none"}, net : BOOLEAN, box : Nat]
    <3>1. phase \in [kind : PhaseKinds \cup {"none"}, net : BOOLEAN, box : Nat]
      OBVIOUS
    <3>2. phase' = [phase EXCEPT !.box = Len(boxes) + 1] /\ Len(boxes) + 1 \in Nat
      BY <1>1, <2>3 DEF Create
    <3> HIDE DEF SInv, Place, Owned, Found, Nameable, Confined, Quiet, Unseen, Untouched,
                 Recorded, CeilingsKeepTheRecord
    <3> QED BY <3>1, <3>2
  <2>5. /\ pc = "create" /\ pc' = "remember"
        /\ UNCHANGED <<deployment, probe, bell, throws, outcome, excused, toStop, ledger, hunted,
                     toolVars>>
    BY <1>1 DEF Create
  <2>6. Place' /\ Owned' /\ Found'
    BY <2>2, <2>3, <2>4, <2>5
  <2>7. Confined'
    BY <2>2, <2>3, <2>4, <2>5
  <2>8. Quiet' /\ Recorded'
    BY <2>4, <2>5
  <2> QED BY <2>6, <2>7, <2>8
<1>2. CASE Write
  <2>. DEFINE given == {"source"} \cup IF MayInject /\ phase.kind # "build" THEN {"values"} ELSE {}
              next == [boxes[Box] EXCEPT !.holds = given]
  <2>1. boxes[Box] \in BoxType
    BY <1>2, BoxFields DEF Write
  <2>2. /\ next \in BoxType /\ next.open = boxes[Box].open /\ next.state = boxes[Box].state
        /\ next.missed = boxes[Box].missed /\ next.holds = given
    BY <2>1 DEF BoxType
  <2>3. boxes' = [boxes EXCEPT ![Box] = next]
    BY <1>2 DEF Write
  <2>. HIDE DEF next
  <2>4. /\ boxes' \in Seq(BoxType) /\ DOMAIN boxes' = DOMAIN boxes /\ boxes'[Box] = next
        /\ \A b \in DOMAIN boxes : b # Box => boxes'[b] = boxes[b]
    <3>1. Place /\ Box \in DOMAIN boxes
      BY <1>2 DEF Write
    <3> HIDE DEF Place, Box
    <3> QED BY <2>2, <2>3, <3>1, ChangingOneLeaves
  <2>5. phase.net => "values" \notin given
    BY DEF MayInject
  <2>6. Place' /\ Owned' /\ Found'
    BY <1>2, <2>2, <2>4 DEF Write
  <2>7. Confined'
    BY <1>2, <2>2, <2>4, <2>5 DEF Write
  <2>8. Quiet' /\ Recorded'
    BY <1>2, <2>2, <2>4 DEF Write
  <2> QED BY <2>6, <2>7, <2>8
<1>3. CASE Scrub
  <2>1. CASE ItThrows /\ BuildEnds("close") /\ UNCHANGED boxes
    BY <1>3, <2>1 DEF Scrub, BuildEnds, Ended
  <2>2. CASE boxes' = [boxes EXCEPT ![Box].holds = {}] /\ BuildEnds("snapshot")
    <3>. DEFINE next == [boxes[Box] EXCEPT !.holds = {}]
    <3>1. boxes[Box] \in BoxType
      BY <1>3, BoxFields DEF Scrub
    <3>2. /\ next \in BoxType /\ next.open = boxes[Box].open /\ next.state = boxes[Box].state
          /\ next.missed = boxes[Box].missed /\ next.holds = {}
      BY <3>1 DEF BoxType
    <3>3. boxes' = [boxes EXCEPT ![Box] = next]
      BY <2>2
    <3>. HIDE DEF next
    <3>4. /\ boxes' \in Seq(BoxType) /\ DOMAIN boxes' = DOMAIN boxes /\ boxes'[Box] = next
          /\ \A b \in DOMAIN boxes : b # Box => boxes'[b] = boxes[b]
      <4>1. Place /\ Box \in DOMAIN boxes
        BY <1>3 DEF Scrub
      <4> HIDE DEF Place, Box
      <4> QED BY <3>2, <3>3, <4>1, ChangingOneLeaves
    <3>5. Place' /\ Owned' /\ Found'
      BY <1>3, <2>2, <3>2, <3>4 DEF Scrub, BuildEnds
    <3>6. Confined' /\ Quiet' /\ Recorded'
      BY <1>3, <2>2, <3>2, <3>4 DEF Scrub, BuildEnds
    <3> QED BY <3>5, <3>6
  <2> QED BY <1>3, <2>1, <2>2 DEF Scrub
<1>4. CASE Flip
  <2>1. PICK ways \in SUBSET Ways, lost \in SUBSET Ways :
          /\ boxes' = [boxes EXCEPT ![Box].open = ways, ![Box].missed = lost]
          /\ probe' = ways \ lost
    BY <1>4 DEF Flip, Probed
  <2>. DEFINE next == [boxes[Box] EXCEPT !.open = ways, !.missed = lost]
  <2>2. boxes[Box] \in BoxType
    BY <1>4, BoxFields DEF Flip
  <2>3. /\ next \in BoxType /\ next.open = ways /\ next.state = boxes[Box].state
        /\ next.missed = lost /\ next.holds = boxes[Box].holds
    BY <2>2 DEF BoxType
  <2>4. boxes' = [boxes EXCEPT ![Box] = next]
    BY <2>1
  <2>. HIDE DEF next
  <2>5. /\ boxes' \in Seq(BoxType) /\ DOMAIN boxes' = DOMAIN boxes /\ boxes'[Box] = next
        /\ \A b \in DOMAIN boxes : b # Box => boxes'[b] = boxes[b]
    <3>1. Place /\ Box \in DOMAIN boxes
      BY <1>4 DEF Flip
    <3> HIDE DEF Place, Box
    <3> QED BY <2>3, <2>4, <3>1, ChangingOneLeaves
  <2>6. phase'.box = Box /\ phase'.kind = phase.kind /\ phase'.net = FALSE
        /\ phase' \in [kind : PhaseKinds \cup {"none"}, net : BOOLEAN, box : Nat]
    BY <1>4 DEF Flip
  <2>7. /\ pc = "flip" /\ pc' \in {"tell", "drive"} /\ (pc' = "drive" => ways \subseteq lost)
        /\ UNCHANGED <<deployment, bell, throws, outcome, excused, toStop, ledger, hunted, loop,
                       calls, pending, spool, serving, vm, told>>
    <3>1. Unsealed' <=> ~(ways \subseteq lost)
      BY <2>1 DEF Unsealed
    <3> QED BY <1>4, <3>1 DEF Flip
  <2>8. Place' /\ Owned' /\ Found'
    BY <2>3, <2>5, <2>6, <2>7
  <2>9. Confined'
    BY <2>3, <2>5, <2>6, <2>7
  <2>10. Quiet' /\ Recorded'
    BY <2>3, <2>5, <2>6, <2>7
  <2> QED BY <2>8, <2>9, <2>10
<1>5. CASE Seal
  <2>1. PICK lost \in SUBSET Ways : /\ boxes' = [boxes EXCEPT ![Box].missed = lost]
                                    /\ probe' = boxes[Box].open \ lost
    <3>1. boxes[Box].open \subseteq Ways
      BY <1>5, BoxFields DEF Seal
    <3> QED BY <1>5, <3>1 DEF Seal, Probed
  <2>. DEFINE next == [boxes[Box] EXCEPT !.missed = lost]
  <2>2. boxes[Box] \in BoxType
    BY <1>5, BoxFields DEF Seal
  <2>3. /\ next \in BoxType /\ next.open = boxes[Box].open /\ next.state = boxes[Box].state
        /\ next.missed = lost /\ next.holds = boxes[Box].holds
    BY <2>2 DEF BoxType
  <2>4. boxes' = [boxes EXCEPT ![Box] = next]
    BY <2>1
  <2>. HIDE DEF next
  <2>5. /\ boxes' \in Seq(BoxType) /\ DOMAIN boxes' = DOMAIN boxes /\ boxes'[Box] = next
        /\ \A b \in DOMAIN boxes : b # Box => boxes'[b] = boxes[b]
    <3>1. Place /\ Box \in DOMAIN boxes
      BY <1>5 DEF Seal
    <3> HIDE DEF Place, Box
    <3> QED BY <2>3, <2>4, <3>1, ChangingOneLeaves
  <2>6. /\ pc = "seal" /\ pc' \in {"write", "close"}
        /\ (pc' = "write" => boxes[Box].open \subseteq lost)
        /\ UNCHANGED <<deployment, phase, bell, throws, excused, toStop, ledger, hunted, loop,
                       calls, pending, spool, serving, vm, told>>
    <3>1. probe' = {} <=> boxes[Box].open \subseteq lost
      BY <2>1
    <3> QED BY <1>5, <3>1 DEF Seal
  <2>7. Place' /\ Owned' /\ Found'
    BY <2>3, <2>5, <2>6
  <2>8. Confined'
    BY <2>3, <2>5, <2>6
  <2>9. Quiet' /\ Recorded'
    <3>1. CeilingsKeepTheRecord'
      BY <1>5 DEF Seal
    <3> QED BY <2>3, <2>5, <2>6, <3>1
  <2> QED BY <2>7, <2>8, <2>9
<1> QED BY <1>1, <1>2, <1>3, <1>4, <1>5

\* Beginning a phase, driving the machine, and a crash.
LEMMA DrivingKeeps ==
  ASSUME SInv,
         \/ \E kind \in PhaseKinds, net \in BOOLEAN : Begin(kind, net)
         \/ Start \/ Drive \/ (\E a \in BOOLEAN : Tell(a)) \/ Await \/ Crash
  PROVE  SInv'
<1>. USE DEF boxVars, hostVars, toolVars, loopVars, vmVars, Box, Runs, Go, HostRest,
             Away, Using, AfterTell, SInv
<1>. USE DEF Place, Owned, Found, Nameable, Confined, Quiet, Unseen, Untouched, Recorded,
             CeilingsKeepTheRecord, OnlyASharedLineStopsAMachine
<1>1. ASSUME NEW kind \in PhaseKinds, NEW net \in BOOLEAN, Begin(kind, net) PROVE SInv'
  <2>1. phase'.box = 0 /\ phase'.kind = kind /\ phase'.net = net
        /\ phase' \in [kind : PhaseKinds \cup {"none"}, net : BOOLEAN, box : Nat]
    BY <1>1 DEF Begin
  <2> QED BY <1>1, <2>1 DEF Begin, ToolsReset, LoopForgotten, NoOutcome
<1>2. CASE Start
  BY <1>2 DEF Start
<1>3. CASE Drive
  BY <1>3 DEF Drive
<1>4. ASSUME NEW a \in BOOLEAN, Tell(a) PROVE SInv'
  <2>1. Untouched => calls = <<>> /\ spool = {}
    BY <1>4 DEF Tell
  <2>2. Untouched => calls' = <<"done">> /\ spool' \subseteq {1}
    BY <1>4, <2>1 DEF Tell
  <2>3. UNCHANGED <<deployment, boxes, excused, toStop, ledger, hunted, phase, probe, throws,
                    outcome, bell, loop, pending, vm, serving, told>>
        /\ pc = "tell" /\ pc' = "await"
    BY <1>4 DEF Tell
  <2> QED BY <2>2, <2>3
<1>5. CASE Await
  BY <1>5 DEF Await, LoopForgotten, CatchesGone
<1>6. CASE Crash
  <2>1. Found'
    BY <1>6 DEF Crash, HostReset, Unwritten
  <2>2. CeilingsKeepTheRecord'
    BY <1>6 DEF Crash, NoOutcome
  <2> QED BY <1>6, <2>1, <2>2, LettingGo DEF Crash
<1> QED BY <1>1, <1>2, <1>3, <1>4, <1>5, <1>6

-----------------------------------------------------------------------------
LEMMA SandboxInit == Init => SInv
<1>. SUFFICES ASSUME Init PROVE SInv
  OBVIOUS
<1>1. phase.box = 0 /\ phase.net = FALSE /\ phase.kind = "none"
      /\ phase \in [kind : PhaseKinds \cup {"none"}, net : BOOLEAN, box : Nat]
  BY DEF Init, NoPhase
<1>2. boxes \in Seq(BoxType) /\ DOMAIN boxes = {}
  BY DEF Init
<1> QED BY <1>1, <1>2 DEF Init, SInv, Place, Owned, Found, Confined, Quiet, Recorded,
          CeilingsKeepTheRecord, OnlyASharedLineStopsAMachine, NoOutcome, Box, Away, Using

LEMMA SandboxStep == SInv /\ [Next]_vars => SInv'
<1>. SUFFICES ASSUME SInv, [Next]_vars PROVE SInv'
  OBVIOUS
<1>1. CASE UNCHANGED vars
  BY <1>1, InsideKeeps DEF vars, boxVars, hostVars, toolVars, loopVars, vmVars, Untouched
<1>2. CASE Host
  BY <1>2, WorkerKeeps, StoppingKeeps, OpeningKeeps, DrivingKeeps DEF Host
<1>3. CASE Failing
  BY <1>3, WorkerKeeps, StoppingKeeps, MachineKeeps DEF Failing
<1>4. CASE Machine \/ Stream \/ Inside
  BY <1>4, MachineKeeps
<1>5. CASE pc \in Working /\ (ShellRuns \/ ShellExits) /\ HostRest
  BY <1>5, MachineKeeps
<1>6. CASE \E killed \in BOOLEAN : Bell(killed)
  BY <1>6, MachineKeeps
<1>7. CASE Crash \/ \E kind \in PhaseKinds, net \in BOOLEAN : Begin(kind, net)
  BY <1>7, DrivingKeeps
<1>8. CASE NeighbourBoots \/ (\E b \in hunted : NeighbourStops(b)) \/ NeighbourForgets
  BY <1>8, NeighbourKeeps
<1>9. ASSUME NEW c \in DOMAIN boxes, SessionEnds(c) PROVE SInv'
  BY <1>9, SessionKeeps
<1> QED BY <1>1, <1>2, <1>3, <1>4, <1>5, <1>6, <1>7, <1>8, <1>9 DEF Next

THEOREM SandboxHolds == Spec => []SInv
BY SandboxInit, SandboxStep, PTL DEF Spec

\* executorFor's tags and ledger: a worker that boots stops the machine another one is using only
\* where the two have one ledger and the machine's line is or was in it.
THEOREM MachinesAreTheirOwners == Spec => []OnlyASharedLineStopsAMachine
BY SandboxHolds, PTL DEF SInv, Owned

\* close, abandon, sweep and the ledger: across any number of crashes and boots a worker
\* leaves no machine running that could have been stopped and named.
THEOREM NothingRunsOn == Spec => []NothingIsLeftRunning
<1>1. SInv => NothingIsLeftRunning
  <2>. SUFFICES ASSUME SInv, pc = "idle", NEW b \in DOMAIN boxes, Runs(b)
                PROVE  b \in excused
    BY DEF NothingIsLeftRunning
  <2>1. Box = 0 /\ b # 0
    BY LenProperties DEF SInv, Place, Away
  <2> QED BY <2>1 DEF SInv, Found
<1> QED BY <1>1, SandboxHolds, PTL

\* runPhase's catches: the end of a session costs no record but that of an agent whose
\* flip it interrupted.
THEOREM RecordsSurviveCeilings == Spec => []CeilingsKeepTheRecord
BY SandboxHolds, PTL DEF SInv, Recorded

\* seal before the Job, mayInject, the flip before the driver: whatever the probes find or miss
\* and whichever call fails, what judges, holds a value or answers a model has no way out of its
\* machine but one that the probe of it failed to see.
THEOREM TrustedWorkIsConfined == Spec => []OnlyALostProbeLeavesAWayOut
<1>1. SInv => OnlyALostProbeLeavesAWayOut
  <2>. SUFFICES ASSUME SInv, Box # 0, Entrusted PROVE Unseen
    BY DEF OnlyALostProbeLeavesAWayOut, Unseen
  <2>1. pc \notin Away
    BY DEF SInv, Place
  <2> QED BY <2>1 DEF SInv, Confined, Quiet, Untouched, Entrusted
<1> QED BY <1>1, SandboxHolds, PTL
-----------------------------------------------------------------------------
(***************************************************************************)
(* Which answer belongs to which call.                                     *)
(***************************************************************************)
Lines == [says : {"result"}, id : Nat, exit : Nat, saw : SUBSET Nat]

ToolsTyped ==
  /\ calls \in Seq(Asks \cup {"done"})
  /\ pending \subseteq DOMAIN calls /\ spool \subseteq DOMAIN calls
  /\ serving \in Nat /\ stdin \in Seq(Nat) /\ buffer \in Seq(Nat)
  /\ channel \in Seq(Lines \cup Reports)
  /\ told \subseteq Lines /\ \A line \in told : line.id \in DOMAIN calls

Results == {i \in DOMAIN channel : channel[i].says = "result"}

\* A call whose own answer did not end with its own mark: among the answers given, or on its way
\* before another.
Late(line, k) == line.id = k /\ line.exit # k
Unfinished(k) == \E line \in told : Late(line, k)
UnfinishedBefore(k, i) == Unfinished(k) \/ \E j \in Results : j < i /\ Late(channel[j], k)

\* What an answer carries that is not its own.
Foreign(line) == ({line.exit} \cup line.saw) \ {0, line.id}

\* Calls that went into the machine and whose answer was not taken.
UnderWay(k) ==
  k \in spool \/ (k # 0 /\ k = serving) \/ \E i \in Results : channel[i].id = k

\* A call is answered once, unless the host gave up on it before.
OneAnswer ==
  /\ serving # 0 =>
       serving \in DOMAIN calls /\ calls[serving] \in Commands /\ serving \notin spool
  /\ \A i \in Results :
       /\ channel[i].id \in DOMAIN calls /\ calls[channel[i].id] # "done"
       /\ channel[i].id \notin spool /\ channel[i].id # serving
  /\ \A i, j \in Results : channel[i].id = channel[j].id => i = j
  /\ \A line \in told : line.exit # 0 => ~UnderWay(line.id)
  /\ \A k \in DOMAIN calls : UnderWay(k) /\ calls[k] # "done" =>
       k \in pending \/ \E line \in told : line.id = k

Among(s) == {s[i] : i \in DOMAIN s}

\* A command is written to the session once, and prints its mark once.
Queue ==
  /\ Among(stdin) \subseteq DOMAIN calls /\ Among(stdin) \cap spool = {}
  /\ \A i, j \in DOMAIN stdin : stdin[i] = stdin[j] => i = j
  /\ serving # 0 /\ serving \in Among(stdin) => serving \notin Among(buffer)

\* What may still print, or has printed where the next answer looks, but what is being served.
Others == (Among(stdin) \cup IF serving # 0 THEN Among(buffer) ELSE {}) \ {serving}

Heard == stream = "live" /\ ~abandoned

Explained ==
  /\ \A i \in Results : \A k \in Foreign(channel[i]) : UnfinishedBefore(k, i)
  /\ Heard => \A k \in Others : UnfinishedBefore(k, Len(channel) + 1)

\* Before a model is asked, and after the phase has forgotten it.
Before == {"create", "remember", "prepare", "seal", "write", "start", "ready", "flip", "drive",
           "tell", "await"}
Unasked ==
  /\ pending = {} /\ told = {} /\ serving = 0 /\ stdin = <<>> /\ buffer = <<>>
  /\ \A k \in spool : calls[k] = "done"
  /\ pc \in Before => Results = {}

Conversation ==
  /\ ToolsTyped
  /\ IF loop = "off" THEN Unasked ELSE OneAnswer /\ Queue /\ Explained
  /\ OnlyUnfinishedCommandsLeak

LEMMA LeastIsIn ==
  ASSUME NEW S, S \subseteq Nat, S # {}
  PROVE  Min(S) \in S
<1> DEFINE R == {pair \in Nat \X Nat : pair[1] < pair[2]}
<1>1. IsWellFoundedOn(R, Nat)
  BY NatLessThanWellFounded DEF OpToRel
<1>2. \E x \in S : \A y \in S : <<y, x>> \notin R
  <2> HIDE DEF R
  <2> QED BY <1>1, WFMin
<1>3. PICK x \in S : \A y \in S : <<y, x>> \notin R
  BY <1>2
<1>4. \A y \in S : x \in Nat /\ y \in Nat /\ ~(y < x)
  BY <1>3
<1>5. \A y \in S : x <= y
  BY <1>4
<1> QED BY <1>5 DEF Min

\* Where the channel stays as it is, or gets shorter from its front, or longer by one.
LEMMA ChannelIs ==
  ASSUME channel \in Seq(Lines \cup Reports)
  PROVE  /\ Len(channel) \in Nat /\ DOMAIN channel = 1..Len(channel)
         /\ Results \subseteq 1..Len(channel)
         /\ \A i \in Results : channel[i] \in Lines
         /\ \A i \in DOMAIN channel : channel[i] \in Lines \cup Reports
<1>1. Len(channel) \in Nat /\ DOMAIN channel = 1..Len(channel)
  BY LenProperties
<1>2. \A i \in DOMAIN channel : channel[i] \in Lines \cup Reports
  BY <1>1, ElementOfSeq
<1>3. \A line \in Reports : line.says # "result"
  BY DEF Reports
<1> QED BY <1>1, <1>2, <1>3 DEF Results

LEMMA SayingOne ==
  ASSUME channel \in Seq(Lines \cup Reports), NEW line \in Lines, Say(line)
  PROVE  /\ channel' \in Seq(Lines \cup Reports)
         /\ ~Heard => channel' = channel
         /\ Heard =>
              /\ Len(channel') = Len(channel) + 1 /\ Len(channel) + 1 \notin Results
              /\ Results' = Results \cup {Len(channel) + 1}
              /\ channel'[Len(channel) + 1] = line
              /\ \A i \in Results : channel'[i] = channel[i]
<1> DEFINE S == Lines \cup Reports
           N == Len(channel)
           m == channel \o <<line>>
<1>1. N \in Nat /\ DOMAIN channel = 1..N
  BY LenProperties
<1>2. <<line>> \in Seq(S) /\ Len(<<line>>) = 1 /\ <<line>>[1] = line
  OBVIOUS
<1>3. /\ m \in Seq(S) /\ Len(m) = N + 1
      /\ \A i \in 1..(N + 1) : m[i] = IF i <= N THEN channel[i] ELSE <<line>>[i - N]
  <2> HIDE DEF S
  <2>1. channel \in Seq(S)
    BY DEF S
  <2> QED BY <1>2, <2>1, ConcatProperties
<1>4. DOMAIN m = 1..(N + 1)
  BY <1>3, LenProperties
<1>5. m[N + 1] = line /\ \A i \in 1..N : m[i] = channel[i]
  BY <1>1, <1>2, <1>3
<1>6. channel' = IF Heard THEN m ELSE channel
  BY DEF Say, SayAll, Heard
<1> HIDE DEF m
<1>7. line.says = "result"
  BY DEF Lines
<1>8. ASSUME Heard
      PROVE  /\ Results' = Results \cup {N + 1} /\ N + 1 \notin Results
             /\ \A i \in Results : i \in 1..N
  BY <1>1, <1>4, <1>5, <1>6, <1>7, <1>8 DEF Results
<1> QED BY <1>3, <1>5, <1>6, <1>8

\* What is no answer changes nothing about them.
LEMMA SayingMore ==
  ASSUME channel \in Seq(Lines \cup Reports), NEW lines \in Seq(Reports), SayAll(lines)
  PROVE  /\ channel' \in Seq(Lines \cup Reports) /\ Len(channel) <= Len(channel')
         /\ Results' = Results /\ \A i \in Results : channel'[i] = channel[i]
<1> DEFINE S == Lines \cup Reports
           N == Len(channel)
           m == channel \o lines
<1>1. N \in Nat /\ DOMAIN channel = 1..N /\ Len(lines) \in Nat
  BY LenProperties
<1>2. lines \in Seq(S)
  BY SeqMonotonic
<1>3. /\ m \in Seq(S) /\ Len(m) = N + Len(lines)
      /\ \A i \in 1..(N + Len(lines)) : m[i] = IF i <= N THEN channel[i] ELSE lines[i - N]
  <2> HIDE DEF S
  <2>1. channel \in Seq(S)
    BY DEF S
  <2> QED BY <1>2, <2>1, ConcatProperties
<1>4. DOMAIN m = 1..(N + Len(lines))
  BY <1>3, LenProperties
<1>5. \A i \in 1..N : m[i] = channel[i]
  BY <1>1, <1>3
<1>6. ASSUME NEW i \in DOMAIN m, i \notin 1..N PROVE m[i].says # "result"
  <2>1. i - N \in 1..Len(lines) /\ m[i] = lines[i - N]
    BY <1>1, <1>3, <1>4, <1>6
  <2>2. lines[i - N] \in Reports
    BY <2>1, ElementOfSeq
  <2> QED BY <2>1, <2>2 DEF Reports
<1>7. channel' = m \/ channel' = channel
  BY DEF SayAll
<1>8. \A i \in 1..N : i \in DOMAIN m
  BY <1>1, <1>4
<1> HIDE DEF m
<1> QED BY <1>1, <1>3, <1>4, <1>5, <1>6, <1>7, <1>8 DEF Results

\* An answer is taken off the front.
LEMMA TakingOne ==
  ASSUME channel \in Seq(Lines \cup Reports), channel # <<>>, channel' = Tail(channel)
  PROVE  /\ channel' \in Seq(Lines \cup Reports)
         /\ Len(channel) \in Nat /\ Len(channel') = Len(channel) - 1
         /\ Head(channel) = channel[1] /\ Head(channel) \in Lines \cup Reports
         /\ Head(channel).says = "result" <=> 1 \in Results
         /\ \A i \in Results' :
              i \in Nat /\ i # 0 /\ i + 1 \in Results /\ channel'[i] = channel[i + 1]
         /\ \A i \in Results : i # 1 => i - 1 \in Results' /\ channel'[i - 1] = channel[i]
<1> DEFINE S == Lines \cup Reports
           N == Len(channel)
<1>1. N \in Nat \ {0} /\ DOMAIN channel = 1..N
  BY EmptySeq, LenProperties
<1>2. /\ Head(channel) \in S /\ Tail(channel) \in Seq(S) /\ Len(Tail(channel)) = N - 1
      /\ \A i \in 1..Len(Tail(channel)) : Tail(channel)[i] = channel[i + 1]
  <2> HIDE DEF S
  <2>1. channel \in Seq(S)
    BY DEF S
  <2> QED BY <2>1, HeadTailProperties
<1>3. DOMAIN channel' = 1..(N - 1)
  BY <1>2, LenProperties
<1>4. Head(channel) = channel[1]
  OBVIOUS
<1>5. \A i \in Results' :
        i \in Nat /\ i # 0 /\ i + 1 \in Results /\ channel'[i] = channel[i + 1]
  BY <1>1, <1>2, <1>3 DEF Results
<1>6. ASSUME NEW i \in Results, i # 1
      PROVE  i - 1 \in Results' /\ channel'[i - 1] = channel[i]
  <2>1. i \in 1..N /\ channel[i].says = "result"
    BY <1>1 DEF Results
  <2>2. i - 1 \in 1..(N - 1) /\ (i - 1) + 1 = i
    BY <1>1, <1>6, <2>1
  <2>3. channel'[i - 1] = channel[i]
    BY <1>2, <2>2
  <2> QED BY <1>3, <2>1, <2>2, <2>3 DEF Results
<1>7. Head(channel).says = "result" <=> 1 \in Results
  BY <1>1, <1>4 DEF Results
<1> QED BY <1>1, <1>2, <1>4, <1>5, <1>6, <1>7

LEMMA CallsAreNumbered ==
  ASSUME ToolsTyped
  PROVE  /\ Len(calls) \in Nat /\ DOMAIN calls = 1..Len(calls) /\ 0 \notin DOMAIN calls
         /\ \A k \in DOMAIN calls : calls[k] \in Asks \cup {"done"}
<1>1. Len(calls) \in Nat /\ DOMAIN calls = 1..Len(calls)
  BY LenProperties DEF ToolsTyped
<1>2. \A k \in DOMAIN calls : calls[k] \in Asks \cup {"done"}
  BY <1>1, ElementOfSeq DEF ToolsTyped
<1> QED BY <1>1, <1>2

LEMMA AmongIs ==
  ASSUME NEW q, q \in Seq(Nat), NEW x \in Nat
  PROVE  /\ Among(q) \subseteq Nat /\ Among(<<>>) = {}
         /\ Append(q, x) \in Seq(Nat) /\ Among(Append(q, x)) = Among(q) \cup {x}
         /\ (\A i, j \in DOMAIN q : q[i] = q[j] => i = j) /\ x \notin Among(q) =>
              LET a == Append(q, x) IN \A i, j \in DOMAIN a : a[i] = a[j] => i = j
<1>1. Len(q) \in Nat /\ DOMAIN q = 1..Len(q) /\ \A i \in DOMAIN q : q[i] \in Nat
  BY LenProperties, ElementOfSeq
<1>2. PICK a : a = Append(q, x)
  OBVIOUS
<1>3. /\ a \in Seq(Nat) /\ DOMAIN a = DOMAIN q \cup {Len(q) + 1} /\ Len(q) + 1 \notin DOMAIN q
      /\ a[Len(q) + 1] = x /\ \A i \in DOMAIN q : a[i] = q[i]
  BY <1>1, <1>2, AppendProperties
<1>4. Among(a) = Among(q) \cup {x}
  BY <1>3 DEF Among
<1>5. ASSUME \A i, j \in DOMAIN q : q[i] = q[j] => i = j, x \notin Among(q),
             NEW i \in DOMAIN a, NEW j \in DOMAIN a, a[i] = a[j]
      PROVE  i = j
  BY <1>3, <1>5 DEF Among
<1>6. Among(<<>>) = {}
  BY DEF Among
<1>7. Among(q) \subseteq Nat
  BY <1>1 DEF Among
<1> QED BY <1>2, <1>3, <1>4, <1>5, <1>6, <1>7

LEMMA TailIsAmong ==
  ASSUME NEW q, q \in Seq(Nat), q # <<>>
  PROVE  /\ Head(q) \in Nat /\ Tail(q) \in Seq(Nat)
         /\ Among(Tail(q)) \subseteq Among(q) /\ Head(q) \in Among(q)
         /\ (\A i, j \in DOMAIN q : q[i] = q[j] => i = j) =>
              LET t == Tail(q) IN
                /\ Head(q) \notin Among(t)
                /\ \A i, j \in DOMAIN t : t[i] = t[j] => i = j
<1>1. Len(q) \in Nat \ {0} /\ DOMAIN q = 1..Len(q)
  BY EmptySeq, LenProperties
<1>2. PICK t : t = Tail(q)
  OBVIOUS
<1>3. /\ t \in Seq(Nat) /\ Len(t) = Len(q) - 1 /\ Head(q) \in Nat
      /\ \A i \in 1..Len(t) : t[i] = q[i + 1]
  BY <1>2, HeadTailProperties
<1>4. DOMAIN t = 1..(Len(q) - 1)
  BY <1>3, LenProperties
<1>5. 1 \in DOMAIN q /\ Head(q) = q[1]
  BY <1>1
<1>6. \A i \in DOMAIN t : i + 1 \in DOMAIN q /\ i + 1 # 1 /\ t[i] = q[i + 1]
  BY <1>1, <1>3, <1>4
<1>7. Among(t) \subseteq Among(q) /\ Head(q) \in Among(q)
  BY <1>5, <1>6 DEF Among
<1>8. ASSUME \A i, j \in DOMAIN q : q[i] = q[j] => i = j
      PROVE  /\ Head(q) \notin Among(t)
             /\ \A i, j \in DOMAIN t : t[i] = t[j] => i = j
  <2>1. Head(q) \notin Among(t)
    BY <1>5, <1>6, <1>8 DEF Among
  <2>2. ASSUME NEW i \in DOMAIN t, NEW j \in DOMAIN t, t[i] = t[j] PROVE i = j
    <3>1. i + 1 = j + 1 /\ i \in Nat /\ j \in Nat
      BY <1>4, <1>6, <1>8, <2>2
    <3> QED BY <3>1
  <2> QED BY <2>1, <2>2
<1> QED BY <1>2, <1>3, <1>7, <1>8

\* Nothing new is asked, answered or taken; a Runner may be gone, and what it said be lost.
LEMMA LessToSay ==
  ASSUME Conversation, ToolsTyped', UNCHANGED <<calls, pending, told>>,
         spool' \subseteq spool, serving' \in {0, serving},
         loop' = "off" <=> loop = "off", pc' \in Before => pc \in Before,
         loop = "off" => stdin' = <<>> /\ buffer' = <<>>,
         Queue => Queue', Others' \subseteq Others,
         \/ /\ Results' = Results /\ \A i \in Results : channel'[i] = channel[i]
            /\ Len(channel) <= Len(channel')
            /\ loop = "off" \/ (Heard' => Heard)
         \/ Results' = {} /\ (loop = "off" \/ ~Heard')
  PROVE  Conversation'
<1>1. OnlyUnfinishedCommandsLeak'
  BY DEF Conversation, OnlyUnfinishedCommandsLeak, Foreign
<1>2. CASE loop = "off"
  <2>1. Unasked
    BY <1>2 DEF Conversation
  <2>2. Unasked'
    BY <1>2, <2>1 DEF Unasked
  <2> QED BY <1>1, <1>2, <2>2 DEF Conversation
<1>3. CASE loop # "off" /\ Results' = Results
  <2>1. OneAnswer /\ Queue' /\ Explained
    BY <1>3 DEF Conversation
  <2>2. \A i \in Results : channel'[i] = channel[i]
    BY <1>3
  <2>4. OneAnswer'
    <3>1. serving' # 0 => serving' \in DOMAIN calls /\ calls[serving'] \in Commands
                          /\ serving' \notin spool'
      BY <2>1 DEF OneAnswer
    <3>2. \A i \in Results : /\ channel'[i].id \in DOMAIN calls /\ calls[channel'[i].id] # "done"
                             /\ channel'[i].id \notin spool' /\ channel'[i].id # serving'
      <4>1. \A i \in Results : channel[i].id # 0
        BY <2>1, CallsAreNumbered DEF OneAnswer, Conversation
      <4> QED BY <2>1, <2>2, <4>1 DEF OneAnswer
    <3>3. \A i, j \in Results : channel'[i].id = channel'[j].id => i = j
      BY <2>1, <2>2 DEF OneAnswer
    <3>4. \A line \in told : line.exit # 0 => ~UnderWay(line.id)'
      BY <1>3, <2>1, <2>2 DEF OneAnswer, UnderWay
    <3>5. ASSUME NEW k \in DOMAIN calls, UnderWay(k)', calls[k] # "done"
          PROVE  k \in pending \/ \E line \in told : line.id = k
      <4>1. UnderWay(k)
        BY <1>3, <2>2, <3>5 DEF UnderWay
      <4> QED BY <2>1, <3>5, <4>1 DEF OneAnswer
    <3> QED BY <1>3, <3>1, <3>2, <3>3, <3>4, <3>5 DEF OneAnswer
  <2>5. ASSUME NEW k, NEW i, UnfinishedBefore(k, i) PROVE UnfinishedBefore(k, i)'
    BY <1>3, <2>2, <2>5 DEF UnfinishedBefore, Unfinished, Late
  <2>6. ASSUME NEW k, UnfinishedBefore(k, Len(channel) + 1)
        PROVE  UnfinishedBefore(k, Len(channel) + 1)'
    <3>1. Len(channel) \in Nat /\ Results \subseteq 1..Len(channel)
      BY ChannelIs DEF Conversation, ToolsTyped
    <3>2. Len(channel') \in Nat
      BY LenProperties DEF ToolsTyped
    <3>3. Len(channel') >= Len(channel) \/ Results = {}
      BY <1>3
    <3>4. \A j \in Results : j < Len(channel) + 1 => j < Len(channel') + 1
      BY <3>1, <3>2, <3>3
    <3> QED BY <1>3, <2>2, <2>6, <3>4 DEF UnfinishedBefore, Unfinished, Late
  <2>7. Explained'
    <3>1. \A i \in Results' : \A k \in Foreign(channel'[i]) : UnfinishedBefore(k, i)'
      BY <1>3, <2>1, <2>2, <2>5 DEF Explained
    <3>2. Heard' => \A k \in Others' : UnfinishedBefore(k, Len(channel) + 1)'
      BY <1>3, <2>1, <2>6 DEF Explained
    <3> QED BY <3>1, <3>2 DEF Explained, Foreign
  <2> QED BY <1>1, <1>3, <2>1, <2>4, <2>7 DEF Conversation
<1>4. CASE loop # "off" /\ Results' = {} /\ ~Heard'
  <2>1. OneAnswer /\ Queue'
    BY <1>4 DEF Conversation
  <2>3. OneAnswer'
    BY <1>4, <2>1 DEF OneAnswer, UnderWay
  <2>4. Explained'
    BY <1>4 DEF Explained
  <2> QED BY <1>1, <1>4, <2>1, <2>3, <2>4 DEF Conversation
<1> QED BY <1>2, <1>3, <1>4

LEMMA CallsGrow ==
  ASSUME ToolsTyped, NEW x \in Asks \cup {"done"}, calls' = Append(calls, x)
  PROVE  /\ calls' \in Seq(Asks \cup {"done"})
         /\ DOMAIN calls' = DOMAIN calls \cup {Len(calls) + 1}
         /\ Len(calls) + 1 \notin DOMAIN calls /\ calls'[Len(calls) + 1] = x
         /\ \A k \in DOMAIN calls : calls'[k] = calls[k]
BY CallsAreNumbered DEF ToolsTyped

\* The model, or the driver when it is done, asks for something.
LEMMA AskingMore ==
  ASSUME Conversation, ToolsTyped', NEW x \in Asks \cup {"done"}, calls' = Append(calls, x),
         UNCHANGED <<loop, told, serving, stdin, buffer>>, pc' \in Before => pc \in Before,
         spool' \subseteq spool \cup {Len(calls) + 1},
         \/ x = "done" /\ pending' = pending
         \/ loop # "off" /\ pending' = pending \cup {Len(calls) + 1},
         \/ channel' = channel /\ Heard' = Heard
         \/ channel' = <<>> /\ ~Heard'
  PROVE  Conversation'
<1> DEFINE new == Len(calls) + 1
<1>1. ToolsTyped
  BY DEF Conversation
<1>2. /\ DOMAIN calls' = DOMAIN calls \cup {new} /\ new \notin DOMAIN calls /\ calls'[new] = x
      /\ \A k \in DOMAIN calls : calls'[k] = calls[k]
  BY <1>1, CallsGrow
<1>3. \A line \in told : line.id \in DOMAIN calls
  BY <1>1 DEF ToolsTyped
<1>5. OnlyUnfinishedCommandsLeak'
  BY DEF Conversation, OnlyUnfinishedCommandsLeak
<1>6. \/ Results' = Results /\ channel' = channel /\ Heard' = Heard
      \/ Results' = {} /\ ~Heard'
  BY DEF Results
<1> HIDE DEF new
<1>7. spool \subseteq DOMAIN calls /\ spool' \subseteq spool \cup {new}
  BY <1>1 DEF ToolsTyped, new
<1>8. pending' = pending \cup {new} \/ (x = "done" /\ pending' = pending)
  BY DEF new
<1>9. CASE loop = "off"
  <2>1. Unasked /\ x = "done" /\ pending' = pending
    BY <1>9 DEF Conversation
  <2>2. \A k \in spool' : calls'[k] = "done"
    BY <1>2, <1>7, <2>1 DEF Unasked
  <2>3. Unasked'
    BY <1>6, <2>1, <2>2 DEF Unasked
  <2> QED BY <1>5, <1>9, <2>3 DEF Conversation
<1>10. CASE loop # "off"
  <2>1. OneAnswer /\ Queue /\ Explained
    BY <1>10 DEF Conversation
  <2>2. OneAnswer'
    <3>1. serving' # 0 => /\ serving' \in DOMAIN calls' /\ calls'[serving'] \in Commands
                          /\ serving' \notin spool'
      BY <1>2, <1>7, <2>1 DEF OneAnswer
    <3>2. \A i \in Results' :
            /\ channel'[i].id \in DOMAIN calls' /\ calls'[channel'[i].id] # "done"
            /\ channel'[i].id \notin spool' /\ channel'[i].id # serving'
      BY <1>2, <1>6, <1>7, <2>1 DEF OneAnswer
    <3>3. \A i, j \in Results' : channel'[i].id = channel'[j].id => i = j
      BY <1>6, <2>1 DEF OneAnswer
    <3>4. ASSUME NEW k \in DOMAIN calls, UnderWay(k)' PROVE UnderWay(k)
      BY <1>2, <1>6, <1>7, <3>4 DEF UnderWay
    <3>5. \A line \in told' : line.exit # 0 => ~UnderWay(line.id)'
      <4>1. ASSUME NEW line \in told, line.exit # 0 PROVE ~UnderWay(line.id)'
        BY <1>3, <2>1, <3>4, <4>1 DEF OneAnswer
      <4> QED BY <4>1
    <3>6. ASSUME NEW k \in DOMAIN calls', UnderWay(k)', calls'[k] # "done"
          PROVE  k \in pending' \/ \E line \in told' : line.id = k
      <4>1. CASE k = new
        BY <1>2, <1>8, <3>6, <4>1
      <4>2. CASE k # new
        BY <1>2, <1>8, <2>1, <3>4, <3>6, <4>2 DEF OneAnswer
      <4> QED BY <4>1, <4>2
    <3> QED BY <3>1, <3>2, <3>3, <3>5, <3>6 DEF OneAnswer
  <2>3. Queue'
    BY <1>2, <1>7, <2>1 DEF Queue
  <2>4. Explained'
    <3>1. CASE Results' = {} /\ ~Heard'
      BY <3>1 DEF Explained
    <3>2. CASE Results' = Results /\ channel' = channel /\ Heard' = Heard
      BY <2>1, <3>2 DEF Explained, UnfinishedBefore, Unfinished, Others
    <3> QED BY <1>6, <3>1, <3>2
  <2> QED BY <1>5, <1>10, <2>2, <2>3, <2>4 DEF Conversation
<1> QED BY <1>9, <1>10

\* An answer that is taken, or goes unread.
LEMMA TakeKeeps ==
  ASSUME Conversation, Take, pc' = pc
  PROVE  Conversation'
<1>0. PICK line : line = Head(channel)
  OBVIOUS
<1> DEFINE given == 1 \in Results /\ line.id \in pending
<1>1. ToolsTyped /\ channel \in Seq(Lines \cup Reports) /\ OnlyUnfinishedCommandsLeak
  BY DEF Conversation, ToolsTyped
<1>2. /\ channel # <<>> /\ channel' = Tail(channel)
      /\ UNCHANGED <<loop, calls, spool, serving, stdin, buffer, stream, abandoned>>
      /\ Heard' = Heard
  BY DEF Take, loopVars, vmVars, Heard
<1>3. /\ channel' \in Seq(Lines \cup Reports)
      /\ Len(channel) \in Nat /\ Len(channel') = Len(channel) - 1
      /\ line = channel[1]
      /\ line.says = "result" <=> 1 \in Results
      /\ \A i \in Results' :
           i \in Nat /\ i # 0 /\ i + 1 \in Results /\ channel'[i] = channel[i + 1]
      /\ \A i \in Results : i # 1 => i - 1 \in Results' /\ channel'[i - 1] = channel[i]
  BY <1>0, <1>1, <1>2, TakingOne
<1>4. IF given THEN told' = told \cup {line} /\ pending' = pending \ {line.id}
               ELSE UNCHANGED <<told, pending>>
  BY <1>0, <1>3 DEF Take
<1>5. Results \subseteq 1..Len(channel) /\ \A i \in Results : channel[i] \in Lines
  BY <1>1, ChannelIs
<1>6. 1 \in Results => line \in Lines
  BY <1>3, <1>5
<1>7. ToolsTyped'
  BY <1>1, <1>2, <1>3, <1>4, <1>6 DEF ToolsTyped
<1>8. CASE loop = "off"
  <2>1. Unasked /\ UNCHANGED <<told, pending>>
    BY <1>4, <1>8 DEF Conversation, Unasked
  <2>2. Results = {} => Results' = {}
    BY <1>3
  <2>3. Unasked'
    BY <1>2, <2>1, <2>2 DEF Unasked
  <2>4. OnlyUnfinishedCommandsLeak'
    BY <1>1, <1>2, <2>1 DEF OnlyUnfinishedCommandsLeak
  <2> QED BY <1>2, <1>7, <1>8, <2>3, <2>4 DEF Conversation
<1>9. CASE loop # "off"
  <2>1. OneAnswer /\ Queue /\ Explained
    BY <1>9 DEF Conversation
  <2>2. \A k : UnderWay(k)' => UnderWay(k)
    <3> SUFFICES ASSUME NEW k, UnderWay(k)' PROVE UnderWay(k)
      OBVIOUS
    <3> QED BY <1>2, <1>3 DEF UnderWay
  <2>3. 1 \in Results => ~UnderWay(line.id)'
    <3>1. \A i \in Results' : 1 \in Results => channel'[i].id # line.id
      BY <1>3, <2>1 DEF OneAnswer
    <3> QED BY <1>2, <1>3, <2>1, <3>1 DEF UnderWay, OneAnswer
  <2>4. OneAnswer'
    <3>1. serving' # 0 =>
            serving' \in DOMAIN calls' /\ calls'[serving'] \in Commands /\ serving' \notin spool'
      BY <1>2, <2>1 DEF OneAnswer
    <3>2. \A i \in Results' :
            /\ channel'[i].id \in DOMAIN calls' /\ calls'[channel'[i].id] # "done"
            /\ channel'[i].id \notin spool' /\ channel'[i].id # serving'
      <4> SUFFICES ASSUME NEW i \in Results'
                   PROVE  /\ channel'[i].id \in DOMAIN calls /\ calls[channel'[i].id] # "done"
                          /\ channel'[i].id \notin spool /\ channel'[i].id # serving
        BY <1>2
      <4>1. i + 1 \in Results /\ channel'[i] = channel[i + 1]
        BY <1>3
      <4> QED BY <2>1, <4>1 DEF OneAnswer
    <3>3. \A i, j \in Results' : channel'[i].id = channel'[j].id => i = j
      <4> SUFFICES ASSUME NEW i \in Results', NEW j \in Results',
                          channel'[i].id = channel'[j].id
                   PROVE  i = j
        OBVIOUS
      <4>1. i + 1 = j + 1
        BY <1>3, <2>1 DEF OneAnswer
      <4> QED BY <1>3, <4>1
    <3>4. ASSUME NEW l \in told', l.exit # 0 PROVE ~UnderWay(l.id)'
      <4>1. CASE l \in told
        BY <2>1, <2>2, <3>4, <4>1 DEF OneAnswer
      <4>2. CASE l \notin told
        BY <1>4, <2>3, <3>4, <4>2
      <4> QED BY <4>1, <4>2
    <3>5. ASSUME NEW k \in DOMAIN calls', UnderWay(k)', calls'[k] # "done"
          PROVE  k \in pending' \/ \E l \in told' : l.id = k
      <4>1. k \in pending \/ \E l \in told : l.id = k
        BY <1>2, <2>1, <2>2, <3>5 DEF OneAnswer
      <4> QED BY <1>4, <4>1
    <3> QED BY <3>1, <3>2, <3>3, <3>4, <3>5 DEF OneAnswer
  <2>5. ASSUME NEW k, Unfinished(k) PROVE Unfinished(k)'
    BY <1>4, <2>5 DEF Unfinished
  <2>6. ASSUME NEW k, 1 \in Results, Late(line, k) PROVE Unfinished(k)'
    <3>1. CASE given
      BY <1>4, <2>6, <3>1 DEF Unfinished
    <3>2. CASE ~given
      <4>1. k \in DOMAIN calls /\ UnderWay(k) /\ calls[k] # "done" /\ k \notin pending /\ k # 0
        BY <1>1, <1>3, <2>1, <2>6, <3>2, CallsAreNumbered DEF OneAnswer, UnderWay, Late
      <4>2. PICK l \in told : l.id = k
        BY <2>1, <4>1 DEF OneAnswer
      <4>3. l.exit = 0
        BY <2>1, <4>1, <4>2 DEF OneAnswer
      <4>4. Unfinished(k)
        BY <4>1, <4>2, <4>3 DEF Unfinished, Late
      <4> QED BY <2>5, <4>4
    <3> QED BY <3>1, <3>2
  <2>7. ASSUME NEW k, NEW i \in Nat, UnfinishedBefore(k, i + 1) PROVE UnfinishedBefore(k, i)'
    <3>1. CASE Unfinished(k)
      BY <2>5, <3>1 DEF UnfinishedBefore
    <3>2. ASSUME NEW j \in Results, j < i + 1, Late(channel[j], k) PROVE UnfinishedBefore(k, i)'
      <4>1. CASE j = 1
        BY <1>3, <2>6, <3>2, <4>1 DEF UnfinishedBefore
      <4>2. CASE j # 1
        <5>1. j - 1 \in Results' /\ channel'[j - 1] = channel[j] /\ j \in Nat
          BY <1>3, <1>5, <4>2
        <5>2. j - 1 < i
          BY <3>2, <5>1
        <5> QED BY <3>2, <5>1, <5>2 DEF UnfinishedBefore
      <4> QED BY <4>1, <4>2
    <3> QED BY <2>7, <3>1, <3>2 DEF UnfinishedBefore
  <2>8. Explained'
    <3>1. ASSUME NEW i \in Results', NEW k \in Foreign(channel'[i]) PROVE UnfinishedBefore(k, i)'
      <4>1. i \in Nat /\ i + 1 \in Results /\ k \in Foreign(channel[i + 1])
        BY <1>3, <3>1
      <4>2. UnfinishedBefore(k, i + 1)
        BY <2>1, <4>1 DEF Explained
      <4> QED BY <2>7, <4>1, <4>2
    <3>2. ASSUME Heard', NEW k \in Others' PROVE UnfinishedBefore(k, Len(channel) + 1)'
      <4>1. k \in Others /\ Heard
        BY <1>2, <3>2 DEF Others
      <4>2. PICK N \in Nat : N = Len(channel) /\ Len(channel') + 1 = N
        BY <1>3
      <4>3. UnfinishedBefore(k, N + 1)
        BY <2>1, <4>1, <4>2 DEF Explained
      <4>4. UnfinishedBefore(k, N)'
        BY <2>7, <4>3
      <4> QED BY <4>2, <4>4
    <3> QED BY <3>1, <3>2 DEF Explained, Foreign
  <2>9. OnlyUnfinishedCommandsLeak'
    <3>1. ASSUME 1 \in Results, NEW k \in Foreign(line) PROVE Unfinished(k)'
      <4>1. UnfinishedBefore(k, 1)
        BY <1>3, <2>1, <3>1 DEF Explained
      <4>2. UnfinishedBefore(k, 1) => Unfinished(k)
        BY <1>5 DEF UnfinishedBefore
      <4> QED BY <2>5, <4>1, <4>2
    <3>2. \A l \in told : \A k \in Foreign(l) : Unfinished(k)
      BY <1>1 DEF OnlyUnfinishedCommandsLeak, Foreign, Unfinished, Late
    <3>3. \A l \in told' : \A k \in Foreign(l) : Unfinished(k)'
      BY <1>4, <2>5, <3>1, <3>2
    <3> QED BY <3>3 DEF OnlyUnfinishedCommandsLeak, Foreign, Unfinished, Late
  <2>10. Queue'
    BY <1>2, <2>1 DEF Queue
  <2> QED BY <1>2, <1>7, <1>9, <2>4, <2>8, <2>9, <2>10 DEF Conversation
<1> QED BY <1>8, <1>9

\* Calls that are refused, or whose delivery fails: each gets an answer without a status.
LEMMA RefusingKeeps ==
  ASSUME Conversation, NEW set, set \subseteq pending, pending' = pending \ set, Refuse(set),
         spool' \subseteq spool, UNCHANGED <<loopVars, vmVars, channel, stream, abandoned, pc>>
  PROVE  Conversation'
<1> DEFINE refused == {Said(k, 0, {}) : k \in set}
<1>1. /\ ToolsTyped /\ OnlyUnfinishedCommandsLeak /\ told' = told \cup refused
      /\ UNCHANGED <<loop, calls, serving, stdin, buffer, channel, stream, abandoned>>
      /\ Results' = Results /\ Heard' = Heard
  BY DEF Conversation, Refuse, loopVars, vmVars, Results, Heard
<1>2. set \subseteq DOMAIN calls /\ set \subseteq Nat
  BY <1>1, CallsAreNumbered DEF ToolsTyped
<1>3. \A line \in refused : line \in Lines /\ line.exit = 0 /\ line.saw = {} /\ line.id \in set
  BY <1>2 DEF Said, Lines
<1>4. \A k \in set : \E line \in told' : line.id = k
  <2> TAKE k \in set
  <2>1. Said(k, 0, {}) \in told' /\ Said(k, 0, {}).id = k
    BY <1>1 DEF Said
  <2> QED BY <2>1
<1> HIDE DEF refused
<1>5. ToolsTyped'
  BY <1>1, <1>2, <1>3 DEF ToolsTyped
<1>6. \A k : Unfinished(k) => Unfinished(k)'
  BY <1>1 DEF Unfinished
<1>7. OnlyUnfinishedCommandsLeak'
  <2>1. \A line \in told : \A k \in Foreign(line) : Unfinished(k)
    BY <1>1 DEF OnlyUnfinishedCommandsLeak, Foreign, Unfinished, Late
  <2>2. \A line \in refused : Foreign(line) = {}
    BY <1>3 DEF Foreign
  <2>3. \A line \in told' : \A k \in Foreign(line) : Unfinished(k)'
    BY <1>1, <1>6, <2>1, <2>2
  <2> QED BY <2>3 DEF OnlyUnfinishedCommandsLeak, Foreign, Unfinished, Late
<1>8. CASE loop = "off"
  <2>1. Unasked /\ set = {}
    BY <1>8 DEF Conversation, Unasked
  <2>2. Unasked'
    BY <1>1, <1>3, <2>1 DEF Unasked
  <2> QED BY <1>1, <1>5, <1>7, <1>8, <2>2 DEF Conversation
<1>9. CASE loop # "off"
  <2>1. OneAnswer /\ Queue /\ Explained
    BY <1>9 DEF Conversation
  <2>2. ASSUME NEW k, UnderWay(k)' PROVE UnderWay(k)
    BY <1>1, <2>2 DEF UnderWay
  <2>3. OneAnswer'
    <3>1. /\ serving # 0 => serving \in DOMAIN calls /\ calls[serving] \in Commands
                            /\ serving \notin spool'
          /\ \A i \in Results : /\ channel[i].id \in DOMAIN calls /\ calls[channel[i].id] # "done"
                                /\ channel[i].id \notin spool' /\ channel[i].id # serving
          /\ \A i, j \in Results : channel[i].id = channel[j].id => i = j
      BY <2>1 DEF OneAnswer
    <3>2. ASSUME NEW line \in told', line.exit # 0 PROVE ~UnderWay(line.id)'
      <4>1. line \in told
        BY <1>1, <1>3, <3>2
      <4> QED BY <2>1, <2>2, <3>2, <4>1 DEF OneAnswer
    <3>3. ASSUME NEW k \in DOMAIN calls, UnderWay(k)', calls[k] # "done"
          PROVE  k \in pending' \/ \E line \in told' : line.id = k
      <4>1. k \in pending \/ \E line \in told : line.id = k
        BY <2>1, <2>2, <3>3 DEF OneAnswer
      <4> QED BY <1>1, <1>4, <4>1
    <3> QED BY <1>1, <3>1, <3>2, <3>3 DEF OneAnswer
  <2>4. \A k, i : UnfinishedBefore(k, i) => UnfinishedBefore(k, i)'
    BY <1>1, <1>6 DEF UnfinishedBefore
  <2>5. Explained'
    BY <1>1, <2>1, <2>4 DEF Explained, Others
  <2>6. Queue'
    BY <1>1, <2>1 DEF Queue
  <2> QED BY <1>1, <1>5, <1>7, <1>9, <2>3, <2>5, <2>6 DEF Conversation
<1> QED BY <1>8, <1>9

\* The Runner answers a call: one it takes from the spool, or the one it is serving.
LEMMA AnsweringKeeps ==
  ASSUME Conversation, ToolsTyped', NEW line \in Lines, Say(line),
         UNCHANGED <<loopVars, pending, stream, abandoned, told, pc>>,
         calls[line.id] # "done",
         \/ line.id \in spool /\ spool' = spool \ {line.id} /\ serving = 0
         \/ line.id = serving /\ serving # 0 /\ spool' = spool,
         serving' = 0,
         Queue => Queue',
         Foreign(line) \subseteq Others, \A k \in Others' \ Others : Late(line, k)
  PROVE  Conversation'
<1>0. PICK new : new = Len(channel) + 1
  OBVIOUS
<1>1. /\ ToolsTyped /\ OnlyUnfinishedCommandsLeak
      /\ UNCHANGED <<loop, calls, pending, stream, abandoned, told>> /\ Heard' = Heard
  BY DEF Conversation, loopVars, Heard
<1>2. line.id # 0
  BY <1>1, CallsAreNumbered DEF ToolsTyped
<1>3. loop # "off" /\ OneAnswer /\ Queue' /\ Explained
  BY DEF Conversation, Unasked
<1>4. /\ Len(channel) \in Nat /\ Results \subseteq 1..Len(channel)
      /\ ~Heard => channel' = channel /\ Results' = Results
      /\ Heard => /\ Len(channel') = Len(channel) + 1 /\ new \notin Results
                  /\ Results' = Results \cup {new} /\ channel'[new] = line
                  /\ \A i \in Results : channel'[i] = channel[i]
  BY <1>0, <1>1, SayingOne, ChannelIs DEF ToolsTyped, Results
<1>5. \A i \in Results : i \in Results' /\ channel'[i] = channel[i]
  BY <1>4
<1>6. \A i \in Results' : i \in Results \/ (i = new /\ Heard /\ channel'[i] = line)
  BY <1>4
<1>7. OnlyUnfinishedCommandsLeak' /\ \A k : Unfinished(k)' = Unfinished(k)
  BY <1>1 DEF OnlyUnfinishedCommandsLeak, Unfinished
<1>8. UnderWay(line.id) /\ line.id \in DOMAIN calls /\ line.id \notin spool'
  BY <1>1, <1>2, <1>3 DEF UnderWay, OneAnswer, ToolsTyped
<1>9. \A i \in Results : channel[i].id # line.id
  BY <1>2, <1>3 DEF OneAnswer
<1>10. ASSUME NEW k, UnderWay(k)' PROVE UnderWay(k)
  <2>1. CASE k \in spool' \/ (k # 0 /\ k = serving')
    BY <2>1 DEF UnderWay
  <2>2. ASSUME NEW i \in Results', channel'[i].id = k PROVE UnderWay(k)
    BY <1>5, <1>6, <1>8, <2>2 DEF UnderWay
  <2> QED BY <1>10, <2>1, <2>2 DEF UnderWay
<1>11. OneAnswer'
  <2>1. ASSUME NEW i \in Results'
        PROVE  /\ channel'[i].id \in DOMAIN calls /\ calls[channel'[i].id] # "done"
               /\ channel'[i].id \notin spool' /\ channel'[i].id # serving'
    <3>1. CASE i \in Results
      <4>1. channel[i].id # 0
        BY <1>1, <1>3, <3>1, CallsAreNumbered DEF OneAnswer
      <4> QED BY <1>3, <1>5, <3>1, <4>1 DEF OneAnswer
    <3>2. CASE channel'[i] = line
      BY <1>2, <1>8, <3>2
    <3> QED BY <1>6, <3>1, <3>2
  <2>2. ASSUME NEW i \in Results', NEW j \in Results', channel'[i].id = channel'[j].id
        PROVE  i = j
    <3>1. CASE i \in Results /\ j \in Results
      BY <1>3, <1>5, <2>2, <3>1 DEF OneAnswer
    <3>2. CASE i \notin Results \/ j \notin Results
      BY <1>5, <1>6, <1>9, <2>2, <3>2
    <3> QED BY <3>1, <3>2
  <2>3. \A l \in told : l.exit # 0 => ~UnderWay(l.id)'
    BY <1>3, <1>10 DEF OneAnswer
  <2>4. \A k \in DOMAIN calls : UnderWay(k)' /\ calls[k] # "done" =>
          k \in pending \/ \E l \in told : l.id = k
    BY <1>3, <1>10 DEF OneAnswer
  <2> QED BY <1>1, <2>1, <2>2, <2>3, <2>4 DEF OneAnswer
<1>12. ASSUME NEW k, NEW i, UnfinishedBefore(k, i) PROVE UnfinishedBefore(k, i)'
  BY <1>5, <1>7, <1>12 DEF UnfinishedBefore
<1>13. Explained'
  <2>1. ASSUME NEW i \in Results', NEW k \in Foreign(channel'[i]) PROVE UnfinishedBefore(k, i)'
    <3>1. CASE i \in Results
      <4>1. k \in Foreign(channel[i])
        BY <1>5, <2>1, <3>1
      <4> QED BY <1>3, <1>12, <3>1, <4>1 DEF Explained
    <3>2. CASE i = new /\ Heard /\ channel'[i] = line
      <4>1. k \in Others
        BY <2>1, <3>2
      <4>2. UnfinishedBefore(k, new)
        BY <1>0, <1>3, <3>2, <4>1 DEF Explained
      <4> QED BY <1>12, <3>2, <4>2
    <3> QED BY <1>6, <3>1, <3>2
  <2>2. ASSUME Heard, NEW k \in Others' PROVE UnfinishedBefore(k, Len(channel) + 1)'
    <3>1. PICK last : last = Len(channel') + 1
      OBVIOUS
    <3>2. /\ new \in Results' /\ new < last /\ channel'[new] = line
          /\ \A j \in Results' : j < new => j < last
      <4>1. /\ new \in Results' /\ new < last /\ channel'[new] = line
            /\ \A j \in Results : j < new => j < last
        BY <1>0, <1>4, <2>2, <3>1
      <4>2. ~(new < new)
        BY <1>0, <1>4
      <4> QED BY <1>6, <4>1, <4>2
    <3>3. CASE Late(line, k)
      BY <3>1, <3>2, <3>3 DEF UnfinishedBefore
    <3>4. CASE k \in Others
      <4>1. UnfinishedBefore(k, new)'
        BY <1>0, <1>3, <1>12, <2>2, <3>4 DEF Explained
      <4> QED BY <3>1, <3>2, <4>1 DEF UnfinishedBefore
    <3> QED BY <2>2, <3>3, <3>4
  <2> QED BY <1>1, <2>1, <2>2 DEF Explained, Foreign
<1> QED BY <1>1, <1>3, <1>7, <1>11, <1>13 DEF Conversation

\* The Runner begins a call.
LEMMA ServingKeeps ==
  ASSUME Conversation, Serve, pc' = pc
  PROVE  Conversation'
<1>0. PICK k : k = Min(spool)
  OBVIOUS
<1>1. /\ ToolsTyped /\ OnlyUnfinishedCommandsLeak /\ serving = 0 /\ k \in spool
      /\ spool' = spool \ {k}
      /\ UNCHANGED <<loopVars, pending, stream, abandoned, told>>
  <2>1. /\ ToolsTyped /\ OnlyUnfinishedCommandsLeak
    BY DEF Conversation
  <2>2. spool # {} /\ spool \subseteq Nat
    BY <2>1, CallsAreNumbered DEF Serve, ToolsTyped
  <2>3. k \in spool
    BY <1>0, <2>2, LeastIsIn
  <2> QED BY <1>0, <2>1, <2>3 DEF Serve, RestOfVm
<1>2. k \in DOMAIN calls /\ k \in Nat /\ k # 0
  BY <1>1, CallsAreNumbered DEF ToolsTyped
<1>3. "create" \notin Commands /\ "done" \notin Commands
  BY ToolsAssumption
<1>4. calls[k] = "done" \/ calls[k] = "create" \/ calls[k] \in Commands
  BY <1>1, <1>2, CallsAreNumbered DEF Asks
<1>5. CASE calls[k] = "done"
  <2>1. UNCHANGED <<serving, session, stdin, buffer, channel>>
    BY <1>0, <1>3, <1>5 DEF Serve
  <2>2. ToolsTyped'
    BY <1>1, <2>1 DEF ToolsTyped, loopVars
  <2>3. /\ UNCHANGED <<calls, loop>> /\ Results' = Results /\ Heard' = Heard
    BY <1>1, <2>1 DEF loopVars, Results, Heard
  <2>4. loop = "off" => stdin = <<>> /\ buffer = <<>>
    BY DEF Conversation, Unasked
  <2>5. Len(channel) \in Nat
    BY <1>1, ChannelIs DEF ToolsTyped
  <2>6. (Queue => Queue') /\ Others' = Others
    BY <1>1, <2>1, <2>3 DEF Queue, Others
  <2> QED BY <1>1, <2>1, <2>2, <2>3, <2>4, <2>5, <2>6, LessToSay
<1>6. CASE calls[k] = "create"
  <2>1. /\ Say(Said(k, k, {k})) /\ serving' = serving
        /\ \/ stdin' = <<>> /\ buffer' = <<>>
           \/ UNCHANGED <<stdin, buffer>>
    BY <1>0, <1>3, <1>6 DEF Serve
  <2>2. Said(k, k, {k}) \in Lines /\ Foreign(Said(k, k, {k})) = {} /\ Said(k, k, {k}).id = k
    BY <1>2 DEF Said, Lines, Foreign
  <2>3. ToolsTyped'
    <3>1. channel' \in Seq(Lines \cup Reports)
      BY <1>1, <2>1, <2>2, SayingOne DEF ToolsTyped
    <3>2. stdin' \in Seq(Nat) /\ buffer' \in Seq(Nat)
      <4>1. stdin \in Seq(Nat) /\ buffer \in Seq(Nat) /\ <<>> \in Seq(Nat)
        BY <1>1 DEF ToolsTyped
      <4> QED BY <2>1, <4>1
    <3> QED BY <1>1, <2>1, <3>1, <3>2 DEF ToolsTyped, loopVars
  <2>4. (Queue => Queue') /\ Others' \subseteq Others
    BY <1>1, <2>1 DEF Queue, Others, Among, loopVars
  <2> QED BY <1>1, <1>6, <2>1, <2>2, <2>3, <2>4, AnsweringKeeps
<1>7. CASE calls[k] \in Commands /\ session # "live"
  <2>1. Say(Said(k, 0, {})) /\ UNCHANGED <<serving, stdin, buffer>>
    BY <1>0, <1>3, <1>7 DEF Serve
  <2>2. Said(k, 0, {}) \in Lines /\ Foreign(Said(k, 0, {})) = {} /\ Said(k, 0, {}).id = k
    BY <1>2, <1>7 DEF Said, Lines, Foreign
  <2>3. ToolsTyped'
    <3>1. channel' \in Seq(Lines \cup Reports)
      BY <1>1, <2>1, <2>2, SayingOne DEF ToolsTyped
    <3> QED BY <1>1, <2>1, <3>1 DEF ToolsTyped, loopVars
  <2>4. (Queue => Queue') /\ Others' = Others
    BY <1>1, <2>1 DEF Queue, Others, loopVars
  <2> QED BY <1>1, <1>3, <1>7, <2>1, <2>2, <2>3, <2>4, AnsweringKeeps
<1>8. CASE calls[k] \in Commands /\ session = "live"
  <2>1. serving' = k /\ buffer' = <<>> /\ stdin' = Append(stdin, k) /\ channel' = channel
    BY <1>0, <1>3, <1>8 DEF Serve, ClearBuffer
  <2>2. /\ UNCHANGED <<calls, loop>> /\ Results' = Results /\ Heard' = Heard
    BY <1>1, <2>1 DEF loopVars, Results, Heard
  <2>3. /\ Among(stdin') = Among(stdin) \cup {k} /\ stdin' \in Seq(Nat) /\ buffer' \in Seq(Nat)
        /\ Among(buffer') = {}
        /\ (\A i, j \in DOMAIN stdin : stdin[i] = stdin[j] => i = j) /\ k \notin Among(stdin) =>
             \A i, j \in DOMAIN stdin' : stdin'[i] = stdin'[j] => i = j
    BY <1>1, <1>2, <2>1, AmongIs, EmptySeq DEF ToolsTyped
  <2>t. ToolsTyped'
    BY <1>1, <1>2, <2>1, <2>2, <2>3 DEF ToolsTyped
  <2>4. OnlyUnfinishedCommandsLeak'
    BY <1>1 DEF OnlyUnfinishedCommandsLeak
  <2>5. loop # "off" /\ OneAnswer /\ Queue /\ Explained
    BY <1>1, <1>3, <1>8 DEF Conversation, Unasked
  <2>6. ASSUME NEW j, UnderWay(j)' PROVE UnderWay(j)
    BY <1>1, <2>1, <2>2, <2>6 DEF UnderWay
  <2>7. OneAnswer'
    <3>1. \A i \in Results : channel[i].id # k
      BY <1>1, <2>5 DEF OneAnswer
    <3>2. \A line \in told : line.exit # 0 => ~UnderWay(line.id)'
      BY <2>5, <2>6 DEF OneAnswer
    <3>3. \A j \in DOMAIN calls : UnderWay(j)' /\ calls[j] # "done" =>
            j \in pending \/ \E line \in told : line.id = j
      BY <2>5, <2>6 DEF OneAnswer
    <3> QED BY <1>1, <1>2, <1>8, <2>1, <2>2, <2>5, <3>1, <3>2, <3>3 DEF OneAnswer
  <2>8. Queue'
    BY <1>1, <1>2, <2>1, <2>2, <2>3, <2>5 DEF Queue
  <2>9. Others' \subseteq Others
    <3>1. 0 \notin Among(stdin)
      BY <1>1, <2>5, CallsAreNumbered DEF Queue
    <3> QED BY <1>1, <2>1, <2>3, <3>1 DEF Others
  <2>10. Explained'
    BY <1>1, <2>1, <2>2, <2>5, <2>9 DEF Explained, UnfinishedBefore, Unfinished
  <2> QED BY <2>2, <2>t, <2>4, <2>5, <2>7, <2>8, <2>10 DEF Conversation
<1> QED BY <1>4, <1>5, <1>6, <1>7, <1>8

\* The mark is there, or the wait is over.
LEMMA SettlingKeeps ==
  ASSUME Conversation, Settle \/ NoResult, pc' = pc
  PROVE  Conversation'
<1>1. /\ ToolsTyped /\ serving # 0 /\ serving' = 0 /\ spool' = spool
      /\ UNCHANGED <<stdin, buffer, loopVars, pending, stream, abandoned, told>>
  BY DEF Conversation, Settle, NoResult, RestOfVm
<1>2. loop # "off" /\ OneAnswer /\ Queue
  BY <1>1 DEF Conversation, Unasked
<1>3. /\ serving \in DOMAIN calls /\ calls[serving] \in Commands /\ calls[serving] # "done"
      /\ serving \in Nat
  BY <1>1, <1>2, ToolsAssumption DEF OneAnswer, ToolsTyped
<1>4. /\ Len(buffer) \in Nat /\ DOMAIN buffer = 1..Len(buffer)
      /\ \A i \in DOMAIN buffer : buffer[i] \in Nat
  BY <1>1, LenProperties, ElementOfSeq DEF ToolsTyped
<1>5. \A last \in 0..Len(buffer) : Seen(last) \subseteq Nat /\ Seen(last) \subseteq Among(buffer)
  BY <1>4 DEF Seen, Among
<1>6. ASSUME NEW line \in Lines, Say(line), line.id = serving,
             line.exit \in Among(buffer) \cup {0}, line.saw \subseteq Among(buffer)
      PROVE  Conversation'
  <2>1. channel' \in Seq(Lines \cup Reports)
    BY <1>1, <1>6, SayingOne DEF ToolsTyped
  <2>2. ToolsTyped'
    BY <1>1, <2>1 DEF ToolsTyped, loopVars
  <2>3. Foreign(line) \subseteq Others
    BY <1>1, <1>6 DEF Foreign, Others
  <2>4. \A k \in Others' \ Others : Late(line, k)
    <3> SUFFICES ASSUME NEW k \in Others', k \notin Others PROVE Late(line, k)
      OBVIOUS
    <3>1. k = serving /\ serving \in Among(stdin)
      BY <1>1 DEF Others
    <3>2. line.exit # serving
      BY <1>1, <1>2, <1>6, <3>1 DEF Queue
    <3> QED BY <1>6, <3>1, <3>2 DEF Late
  <2>5. Queue'
    BY <1>1, <1>2 DEF Queue, loopVars
  <2> QED BY <1>1, <1>3, <1>6, <2>2, <2>3, <2>4, <2>5, AnsweringKeeps
<1>7. CASE Settle
  <2>1. PICK i : i = Min(Marks)
    OBVIOUS
  <2>2. i \in Marks
    <3>1. Marks # {} /\ Marks \subseteq Nat
      BY <1>4, <1>7 DEF Settle, Marks
    <3> QED BY <2>1, <3>1, LeastIsIn
  <2>3. i \in 1..Len(buffer)
    BY <1>4, <2>2 DEF Marks
  <2>4. PICK line : line = Said(serving, buffer[i], Seen(i))
    OBVIOUS
  <2>5. Say(line)
    BY <1>7, <2>1, <2>4 DEF Settle
  <2>6. /\ line \in Lines /\ line.id = serving /\ line.exit = buffer[i] /\ line.saw = Seen(i)
    <3>1. buffer[i] \in Nat /\ Seen(i) \subseteq Nat
      BY <1>4, <1>5, <2>3
    <3> QED BY <1>3, <2>4, <3>1 DEF Said, Lines
  <2>7. buffer[i] \in Among(buffer) /\ Seen(i) \subseteq Among(buffer)
    BY <1>4, <1>5, <2>3 DEF Among
  <2> QED BY <1>6, <2>5, <2>6, <2>7
<1>8. CASE NoResult
  <2>1. PICK line : line = Said(serving, 0, Seen(Len(buffer)))
    OBVIOUS
  <2>2. Say(line)
    BY <1>8, <2>1 DEF NoResult
  <2>3. /\ line \in Lines /\ line.id = serving /\ line.exit = 0
        /\ line.saw \subseteq Among(buffer)
    <3>1. Seen(Len(buffer)) \subseteq Nat /\ Seen(Len(buffer)) \subseteq Among(buffer)
      BY <1>4, <1>5
    <3> QED BY <1>3, <2>1, <3>1 DEF Said, Lines
  <2> QED BY <1>6, <2>2, <2>3
<1> QED BY <1>7, <1>8

\* The session runs at a pace of its own, or its shell ends.
LEMMA ShellKeeps ==
  ASSUME Conversation, ShellRuns \/ ShellExits, pc' = pc
  PROVE  Conversation'
<1>1. /\ ToolsTyped /\ stdin # <<>>
      /\ UNCHANGED <<serving, spool, channel, loopVars, pending, stream, abandoned, told>>
  BY DEF Conversation, ShellRuns, ShellExits, RestOfVm
<1>2. stdin \in Seq(Nat) /\ buffer \in Seq(Nat) /\ <<>> \in Seq(Nat)
  BY <1>1 DEF ToolsTyped
<1>3. /\ Head(stdin) \in Nat /\ Tail(stdin) \in Seq(Nat) /\ Append(buffer, Head(stdin)) \in Seq(Nat)
      /\ Among(Append(buffer, Head(stdin))) = Among(buffer) \cup {Head(stdin)}
      /\ Among(Tail(stdin)) \subseteq Among(stdin) /\ Head(stdin) \in Among(stdin)
      /\ Among(<<>>) = {}
  BY <1>1, <1>2, TailIsAmong, AmongIs
<1>4. ToolsTyped'
  BY <1>1, <1>2, <1>3 DEF ToolsTyped, ShellRuns, ShellExits, loopVars
<1>5. loop # "off"
  BY <1>1 DEF Conversation, Unasked
<1>6. (Queue => Queue') /\ Others' \subseteq Others
  <2>1. CASE ShellExits
    <3>1. stdin' = <<>> /\ buffer' = buffer
      BY <2>1 DEF ShellExits
    <3> QED BY <1>1, <1>3, <3>1 DEF Queue, Others, loopVars, Among
  <2>2. CASE ShellRuns
    <3>1. stdin' = Tail(stdin) /\ buffer' = Append(buffer, Head(stdin))
      BY <2>2 DEF ShellRuns
    <3>2. Others' \subseteq Others
      BY <1>1, <1>3, <3>1 DEF Others
    <3>3. ASSUME Queue PROVE Queue'
      <4>1. /\ Head(stdin) \notin Among(stdin')
            /\ \A i, j \in DOMAIN stdin' : stdin'[i] = stdin'[j] => i = j
        BY <1>1, <1>2, <3>1, <3>3, TailIsAmong DEF Queue
      <4> QED BY <1>1, <1>3, <3>1, <3>3, <4>1 DEF Queue, loopVars
    <3> QED BY <3>2, <3>3
  <2> QED BY <2>1, <2>2
<1>7. Results' = Results /\ Heard' = Heard /\ UNCHANGED <<loop, calls>>
  BY <1>1 DEF Results, Heard, loopVars
<1>8. Len(channel) \in Nat
  BY <1>1, ChannelIs DEF ToolsTyped
<1> QED BY <1>1, <1>4, <1>5, <1>6, <1>7, <1>8, LessToSay

\* What says no answer, and hears none.
LEMMA RestKeeps ==
  ASSUME Conversation, UNCHANGED <<calls, pending, told>>,
         RunnerEnds \/ UNCHANGED <<spool, serving, stdin, buffer>>,
         loop' = "off" <=> loop = "off", pc' \in Before => pc \in Before,
         \/ channel' = channel /\ (Heard' => Heard \/ loop = "off")
         \/ Heard' = Heard /\ \E lines \in Seq(Reports) : SayAll(lines)
         \/ channel' = <<>> /\ ~Heard'
  PROVE  Conversation'
<1>1. ToolsTyped
  BY DEF Conversation
<1>2. /\ channel' \in Seq(Lines \cup Reports)
      /\ \/ /\ Results' = Results /\ \A i \in Results : channel'[i] = channel[i]
            /\ Len(channel) <= Len(channel')
            /\ loop = "off" \/ (Heard' => Heard)
         \/ Results' = {} /\ ~Heard'
  <2>1. channel \in Seq(Lines \cup Reports) /\ Len(channel) \in Nat
    BY <1>1, ChannelIs DEF ToolsTyped
  <2>2. CASE channel' = channel /\ (Heard' => Heard \/ loop = "off")
    BY <2>1, <2>2 DEF Results
  <2>3. CASE Heard' = Heard /\ \E lines \in Seq(Reports) : SayAll(lines)
    BY <2>1, <2>3, SayingMore
  <2>4. CASE channel' = <<>> /\ ~Heard'
    BY <2>4 DEF Results
  <2> QED BY <2>2, <2>3, <2>4
<1>3. /\ spool' \subseteq spool /\ serving' \in {0, serving}
      /\ (Queue => Queue') /\ Others' \subseteq Others
      /\ stdin' \in {<<>>, stdin} /\ buffer' \in {<<>>, buffer}
  <2>1. CASE RunnerEnds
    BY <2>1 DEF RunnerEnds, Queue, Others, Among
  <2>2. CASE UNCHANGED <<spool, serving, stdin, buffer>>
    BY <2>2 DEF Queue, Others
  <2> QED BY <2>1, <2>2
<1>4. ToolsTyped'
  <2>1. <<>> \in Seq(Nat) /\ stdin \in Seq(Nat) /\ buffer \in Seq(Nat) /\ serving \in Nat
    BY <1>1 DEF ToolsTyped
  <2>2. stdin' \in Seq(Nat)
    <3>1. stdin' = <<>> \/ stdin' = stdin
      BY <1>3
    <3> QED BY <2>1, <3>1
  <2>3. buffer' \in Seq(Nat)
    <3>1. buffer' = <<>> \/ buffer' = buffer
      BY <1>3
    <3> QED BY <2>1, <3>1
  <2>4. serving' \in Nat
    BY <1>3, <2>1
  <2> QED BY <1>1, <1>2, <1>3, <2>2, <2>3, <2>4 DEF ToolsTyped
<1>5. loop = "off" => stdin' = <<>> /\ buffer' = <<>>
  BY <1>3 DEF Conversation, Unasked
<1> QED BY <1>2, <1>3, <1>4, <1>5, LessToSay

LEMMA ForgettingKeeps ==
  ASSUME LoopForgotten, channel' \in Seq(Lines \cup Reports), pc' \in Before => channel' = <<>>
  PROVE  Conversation'
<1>1. ToolsTyped'
  <2>1. \A S : <<>> \in Seq(S)
    BY EmptySeq
  <2> QED BY <2>1 DEF ToolsTyped, LoopForgotten
<1>2. Unasked'
  BY DEF Unasked, LoopForgotten, Results
<1> QED BY <1>1, <1>2 DEF Conversation, LoopForgotten, OnlyUnfinishedCommandsLeak

\* The worker's own steps, while what goes on in the machine stays as it is.
LEMMA WorkerSaysNothing ==
  ASSUME SInv, Conversation, UNCHANGED toolVars, pc' \in Before => pc \in Before
  PROVE  Conversation'
BY RestKeeps DEF toolVars, loopVars, vmVars, Heard

LEMMA HostKeepsTheConversation ==
  ASSUME SInv, Conversation, Host
  PROVE  Conversation'
<1>. USE DEF Before, hostVars
<1>1. CASE Boot \/ (\E b \in toStop : SweepOne(b)) \/ SweepEnds
  BY <1>1, WorkerSaysNothing DEF Boot, SweepOne, SweepEnds, HostReset, Go
<1>2. CASE Create \/ Remember \/ Prepared \/ PrepareThrows
  BY <1>2, WorkerSaysNothing DEF Create, Remember, Prepared, PrepareThrows, HostReset, Go
<1>3. CASE Seal \/ Write \/ OpenThrows \/ Ready \/ FlipThrows \/ DriverReturns
  BY <1>3, WorkerSaysNothing DEF Seal, Write, OpenThrows, Ready, FlipThrows, DriverReturns, Go
<1>4. CASE Drain \/ Collect \/ Close \/ Build \/ Scrub \/ Snapshot
  BY <1>4, WorkerSaysNothing
     DEF Drain, Collect, Close, Build, Scrub, Snapshot, BuildEnds, HostReset
<1>5. CASE Start
  <2>1. loop = "off"
    BY <1>5 DEF SInv, Quiet, Untouched, Start, Away, AfterTell
  <2>2. /\ UNCHANGED <<calls, pending, told, spool, serving, stdin, buffer, loop, channel>>
        /\ pc \in Before
    BY <1>5 DEF Start, loopVars
  <2> QED BY <2>1, <2>2, RestKeeps
<1>6. CASE Flip
  <2>1. /\ UNCHANGED <<calls, pending, told, spool, serving, stdin, buffer, loop>>
        /\ pc \in Before
        /\ \/ channel' = channel /\ Heard' = Heard
           \/ channel' = <<>> /\ ~Heard'
    BY <1>6 DEF Flip, loopVars, vmVars, Abandon, Heard
  <2> QED BY <2>1, RestKeeps
<1>7. CASE Drive
  <2>1. /\ loop = "off" /\ loop' # "off" /\ pc = "drive" /\ Unasked /\ ToolsTyped
        /\ OnlyUnfinishedCommandsLeak
        /\ UNCHANGED <<calls, pending, spool, serving, stdin, buffer, channel, told>>
    BY <1>7 DEF Drive, vmVars, Conversation
  <2>2. Results = {} /\ Results' = {}
    BY <2>1 DEF Unasked, Results
  <2>3. ToolsTyped' /\ OnlyUnfinishedCommandsLeak'
    BY <2>1 DEF ToolsTyped, OnlyUnfinishedCommandsLeak
  <2>4. OneAnswer'
    BY <2>1, <2>2 DEF OneAnswer, Unasked, UnderWay
  <2>5. Queue' /\ Explained'
    BY <2>1, <2>2 DEF Queue, Explained, Others, Unasked, Among
  <2> QED BY <2>1, <2>3, <2>4, <2>5 DEF Conversation
<1>8. ASSUME NEW a \in BOOLEAN, Tell(a) PROVE Conversation'
  <2>1. ToolsTyped /\ calls' = Append(calls, "done") /\ pc \in Before
    BY <1>8 DEF Conversation, Tell
  <2>2. /\ UNCHANGED <<loop, told, pending, serving, stdin, buffer>>
        /\ spool' = spool \/ spool' = spool \cup {Len(calls) + 1}
        /\ \/ channel' = channel /\ Heard' = Heard
           \/ channel' = <<>> /\ ~Heard'
    BY <1>8 DEF Tell, vmVars, Abandon, Heard
  <2>3. /\ calls' \in Seq(Asks \cup {"done"})
        /\ DOMAIN calls' = DOMAIN calls \cup {Len(calls) + 1}
    BY <2>1, CallsGrow
  <2>4. channel' \in Seq(Lines \cup Reports)
    BY <2>1, <2>2, EmptySeq DEF ToolsTyped
  <2>5. ToolsTyped'
    BY <2>1, <2>2, <2>3, <2>4 DEF ToolsTyped
  <2> QED BY <2>1, <2>2, <2>5, AskingMore
<1>9. CASE Await
  <2>1. LoopForgotten /\ channel' = channel /\ pc' = "drain" /\ ToolsTyped
    BY <1>9 DEF Await, Conversation
  <2> QED BY <2>1, ForgettingKeeps DEF ToolsTyped
<1> QED BY <1>1, <1>2, <1>3, <1>4, <1>5, <1>6, <1>7, <1>8, <1>9 DEF Host

LEMMA InsideKeepsTheConversation ==
  ASSUME Conversation, LoopStep \/ RunnerStep, pc' = pc
  PROVE  Conversation'
<1>1. ASSUME NEW ask \in Asks, Invoke(ask) PROVE Conversation'
  <2>1. ToolsTyped /\ calls' = Append(calls, ask) /\ loop # "off"
    BY <1>1 DEF Conversation, Invoke
  <2>2. /\ UNCHANGED <<loop, told, serving, stdin, buffer, channel, stream, abandoned>>
        /\ spool' = spool \cup {Len(calls) + 1} /\ pending' = pending \cup {Len(calls) + 1}
    BY <1>1 DEF Invoke, vmVars
  <2>3. /\ calls' \in Seq(Asks \cup {"done"})
        /\ DOMAIN calls' = DOMAIN calls \cup {Len(calls) + 1}
    BY <2>1, CallsGrow
  <2>4. ToolsTyped'
    BY <2>1, <2>2, <2>3 DEF ToolsTyped
  <2> QED BY <2>1, <2>2, <2>4, AskingMore DEF Heard
<1>2. CASE (\E w \in 0..2 : Ask(w)) \/ ModelFails \/ TurnCap \/ LoopTimesOut \/ NextTurn
  <2>1. /\ UNCHANGED <<calls, pending, told, spool, serving, stdin, buffer, channel>>
        /\ Heard' = Heard /\ loop # "off" /\ loop' # "off"
    BY <1>2 DEF Ask, ModelFails, TurnCap, LoopTimesOut, NextTurn, RestOfLoop, vmVars, Heard
  <2> QED BY <2>1, RestKeeps
<1>3. CASE RejectWaiting
  BY <1>3, RefusingKeeps DEF RejectWaiting
<1>4. CASE Serve \/ Settle \/ NoResult
  BY <1>4, ServingKeeps, SettlingKeeps
<1> QED BY <1>1, <1>2, <1>3, <1>4 DEF LoopStep, RunnerStep

LEMMA ReportsAreNoAnswers ==
  ASSUME Conversation, NEW lines \in Seq(Reports), SayAll(lines), pc' = pc,
         UNCHANGED <<loopVars, pending, stream, abandoned, told>>,
         RunnerEnds \/ UNCHANGED <<spool, serving, stdin, buffer>>
  PROVE  Conversation'
<1>1. Heard' = Heard /\ UNCHANGED <<calls, loop>>
  BY DEF Heard, loopVars
<1> QED BY <1>1, RestKeeps

LEMMA MachineKeepsTheConversation ==
  ASSUME Conversation, Machine \/ Stream \/ SetUpFails \/ RunnerDies
  PROVE  Conversation'
<1>1. ASSUME NEW failed \in BOOLEAN, Boots(failed) PROVE Conversation'
  <2>1. Replayed(failed) \o <<[says |-> "ready"]>> \in Seq(Reports)
    <3>1. <<[says |-> "ready"]>> \in Seq(Reports) /\ <<[says |-> "env_failed"]>> \in Seq(Reports)
      BY DEF Reports
    <3>2. Replayed(failed) \in Seq(Reports)
      BY <3>1, EmptySeq DEF Replayed
    <3> HIDE DEF Reports
    <3> QED BY <3>1, <3>2, ConcatProperties
  <2> QED BY <1>1, <2>1, ReportsAreNoAnswers DEF Boots, HostRest, hostVars
<1>2. ASSUME NEW n \in 0..MaxEvents, Observes(n) PROVE Conversation'
  <2>1. [i \in 1..n |-> [says |-> "event"]] \in Seq(Reports)
    <3>1. n \in Nat /\ [says |-> "event"] \in Reports
      BY SandboxAssumption DEF Reports
    <3> QED BY <3>1
  <2> QED BY <1>2, <2>1, ReportsAreNoAnswers DEF Observes, HostRest, hostVars
<1>3. CASE HandsOver
  <2>1. <<[says |-> "finished"]>> \in Seq(Reports)
    BY DEF Reports
  <2> QED BY <1>3, <2>1, ReportsAreNoAnswers DEF HandsOver, HostRest, hostVars
<1>4. CASE TakeLine
  BY <1>4, TakeKeeps DEF TakeLine
<1>5. CASE StreamEnds
  <2>1. /\ UNCHANGED <<calls, loop, pending, told, spool, serving, stdin, buffer, channel, pc>>
        /\ ~Heard'
    BY <1>5 DEF StreamEnds, loopVars, vmVars, HostRest, hostVars, Heard
  <2> QED BY <2>1, RestKeeps
<1>6. CASE StreamCut
  <2>1. /\ UNCHANGED <<calls, loop, pending, told, spool, serving, stdin, buffer, pc>>
        /\ channel' = <<>> /\ ~Heard'
    BY <1>6 DEF StreamCut, loopVars, vmVars, Heard
  <2> QED BY <2>1, RestKeeps
<1>7. CASE SetUpFails \/ RunnerDies
  <2>1. /\ UNCHANGED <<calls, loop, pending, told, channel, pc>> /\ RunnerEnds /\ Heard' = Heard
    BY <1>7 DEF SetUpFails, RunnerDies, loopVars, hostVars, Heard
  <2> QED BY <2>1, RestKeeps
<1> QED BY <1>1, <1>2, <1>3, <1>4, <1>5, <1>6, <1>7 DEF Machine, Stream

LEMMA ConversationKeeps == SInv /\ Conversation /\ [Next]_vars => Conversation'
<1>. SUFFICES ASSUME SInv, Conversation, [Next]_vars PROVE Conversation'
  OBVIOUS
<1>1. CASE UNCHANGED vars
  BY <1>1, WorkerSaysNothing DEF vars, hostVars
<1>2. CASE Host
  BY <1>2, HostKeepsTheConversation
<1>3. CASE Inside
  BY <1>3, InsideKeepsTheConversation DEF Inside, HostRest, hostVars
<1>4. CASE Machine \/ Stream \/ SetUpFails \/ RunnerDies
  BY <1>4, MachineKeepsTheConversation
<1>5. CASE CreateFails \/ Abandoned \/ AwaitThrows
  BY <1>5, WorkerSaysNothing DEF CreateFails, Abandoned, AwaitThrows, HostReset, Before
<1>6. ASSUME NEW n \in pending, DeliveryFails(n), UNCHANGED hostVars PROVE Conversation'
  <2>1. {n} \subseteq pending /\ pending' = pending \ {n} /\ Refuse({n}) /\ spool' \subseteq spool
    BY <1>6 DEF DeliveryFails
  <2>2. UNCHANGED <<loopVars, vmVars, channel, stream, abandoned, pc>>
    BY <1>6 DEF DeliveryFails, hostVars
  <2> QED BY <2>1, <2>2, RefusingKeeps
<1>7. CASE Crash \/ \E kind \in PhaseKinds, net \in BOOLEAN : Begin(kind, net)
  <2>1. LoopForgotten /\ channel' = <<>>
    BY <1>7 DEF Crash, Begin, ToolsReset
  <2> QED BY <2>1, EmptySeq, ForgettingKeeps
<1>8. CASE pc \in Working /\ (ShellRuns \/ ShellExits) /\ HostRest
  BY <1>8, ShellKeeps DEF HostRest, hostVars
<1>9. ASSUME NEW killed \in BOOLEAN, Bell(killed) PROVE Conversation'
  <2>1. /\ UNCHANGED <<calls, loop, pending, told, pc>> /\ channel' = <<>> /\ ~Heard'
        /\ RunnerEnds \/ UNCHANGED <<spool, serving, stdin, buffer>>
    BY <1>9 DEF Bell, Abandon, loopVars, vmVars, Heard
  <2> QED BY <2>1, RestKeeps
<1>10. CASE NeighbourBoots \/ NeighbourForgets
  BY <1>10, WorkerSaysNothing DEF NeighbourBoots, NeighbourForgets, hostVars
<1>11. ASSUME NEW b \in DOMAIN boxes, SessionEnds(b) PROVE Conversation'
  <2>1. /\ UNCHANGED <<calls, loop, pending, told, channel, pc>> /\ Heard' = Heard
        /\ RunnerEnds \/ UNCHANGED <<spool, serving, stdin, buffer>>
    BY <1>11 DEF SessionEnds, loopVars, vmVars, hostVars, Heard
  <2> QED BY <2>1, RestKeeps
<1>12. ASSUME NEW b \in hunted, NeighbourStops(b) PROVE Conversation'
  <2>1. /\ UNCHANGED <<calls, loop, pending, told, channel, pc>> /\ Heard' = Heard
        /\ RunnerEnds \/ UNCHANGED <<spool, serving, stdin, buffer>>
    BY <1>12 DEF NeighbourStops, loopVars, vmVars, hostVars, Heard
  <2> QED BY <2>1, RestKeeps
<1> QED BY <1>1, <1>2, <1>3, <1>4, <1>5, <1>6, <1>7, <1>8, <1>9, <1>10, <1>11, <1>12
        DEF Next, Failing

LEMMA ConversationInit == Init => Conversation
<1>. SUFFICES ASSUME Init PROVE Conversation
  OBVIOUS
<1>1. ToolsTyped
  <2>1. \A S : <<>> \in Seq(S)
    BY EmptySeq
  <2> QED BY <2>1 DEF Init, ToolsTyped
<1> QED BY <1>1 DEF Init, Conversation, Unasked, Before, OnlyUnfinishedCommandsLeak

\* shellWrite and waitFor: what an answer carries of another command is of one whose own answer
\* did not end with its own mark, whatever is lost, refused, retried or served late.
THEOREM AnswersStayApart == Spec => []OnlyUnfinishedCommandsLeak
<1>1. SInv /\ Conversation => OnlyUnfinishedCommandsLeak
  BY DEF Conversation
<1> QED BY <1>1, SandboxInit, SandboxStep, ConversationInit, ConversationKeeps, PTL DEF Spec
=============================================================================
