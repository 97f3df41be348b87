------------------------------- MODULE Tools -------------------------------
(***************************************************************************)
(* An agent at work in a sandbox: the loop on the host that asks a model   *)
(* what to do (loop.ts, openrouter.ts), the calls it sends into the        *)
(* machine (executor-vercel.ts) and the Runner there that answers them one *)
(* at a time, the shell tool from a named session (runner-vm.ts,           *)
(* runner.ts, tools.ts).                                                   *)
(*                                                                         *)
(* Every call has a number.  A session is a shell that reads what was      *)
(* written to it and runs it in order: a token of its output is the number *)
(* of the call whose command printed it and then printed the mark that     *)
(* ends it.  Sandbox.tla says when the machine starts, stops and dies.     *)
(***************************************************************************)
EXTENDS Naturals, Sequences, FiniteSets, FiniteSetsExt

CONSTANTS
  Commands,   \* what the model may write to the session
  MaxTurns,   \* the ceiling on turns
  MaxCalls    \* bound: calls the model makes

ASSUME ToolsAssumption ==
  /\ MaxTurns \in Nat \ {0} /\ MaxCalls \in Nat
  /\ Commands \cap {"create", "done"} = {}

VARIABLES
  provider,   \* scenario: whose model it is
  loop,       \* the loop itself
  returned,   \* runAgentLoop returned to the driver, for whatever reason
  turns,
  toAsk,      \* calls of this turn still to be made
  calls,      \* what each call asks for, in the order of their numbers
  pending,    \* calls the host awaits an answer to
  spool,      \* calls in the spool
  serving,    \* the call the Runner waits for the session with, or 0
  session, stdin, buffer,
  vm,         \* the Runner in the machine
  channel,    \* what the Runner said and the host has not taken yet
  stream,     \* the event stream, as the host sees it
  abandoned,  \* the host gave up on the phase
  told        \* the answers the loop has been given

loopVars == <<provider, loop, returned, turns, toAsk, calls>>
vmVars == <<serving, session, stdin, buffer, vm>>
toolVars == <<loopVars, pending, spool, vmVars, channel, stream, abandoned, told>>

\* shell_write, and shell_create; any other tool answers at once and leaves the session alone.
Asks == Commands \cup {"create"}
Said(n, whose, saw) == [says |-> "result", id |-> n, exit |-> whose, saw |-> saw]
Numbers == 1..(MaxCalls + 1)
Answers == {Said(n, k, s) : n \in Numbers, k \in {0} \cup Numbers, s \in SUBSET Numbers}
Reports == {[says |-> w] : w \in {"env_failed", "ready", "finished", "event"}}

ToolsTypeOK ==
  /\ provider \in {"none", "anthropic", "openrouter"}
  /\ loop \in {"off", "asking", "calling", "over"}
  /\ returned \in BOOLEAN
  /\ turns \in 0..MaxTurns /\ toAsk \in 0..2
  /\ calls \in Seq(Asks \cup {"done"})
  /\ \A set \in {pending, spool} : set \subseteq DOMAIN calls
  /\ serving \in {0} \cup DOMAIN calls
  /\ session \in {"none", "live", "exited"}
  /\ \A s \in {stdin, buffer} : s \in Seq(DOMAIN calls)
  /\ vm \in {"off", "booting", "serving", "closing", "observing", "exited"}
  /\ \A i \in DOMAIN channel : channel[i] \in Answers \cup Reports
  /\ stream \in {"none", "live", "ended", "cut"}
  /\ abandoned \in BOOLEAN
  /\ told \subseteq Answers
-----------------------------------------------------------------------------
(* The host's side of a call.                                              *)

Drained == stream \in {"ended", "cut"}
Settled == Drained \/ abandoned
Refuse(set) == told' = told \cup {Said(n, 0, {}) : n \in set}

\* A call races nothing, it waits for its answer.
OnlyAnswered == FALSE
GivesUp == Settled

RejectWaiting ==
  /\ GivesUp /\ pending # {}
  /\ Refuse(pending) /\ pending' = {}
  /\ UNCHANGED <<loopVars, spool, vmVars, channel, stream, abandoned>>

\* The delivery is refused, or only its answer lost.
DeliveryFails(n) ==
  /\ n \in pending
  /\ pending' = pending \ {n} /\ Refuse({n})
  /\ spool' \in {spool, spool \ {n}}
  /\ UNCHANGED <<loopVars, vmVars, channel, stream, abandoned>>

(* `take`: an answer nobody waits for any more goes unread. *)
Take ==
  /\ stream = "live" /\ channel # <<>>
  /\ channel' = Tail(channel)
  /\ LET line == Head(channel) IN
       IF line.says = "result" /\ line.id \in pending
       THEN told' = told \cup {line} /\ pending' = pending \ {line.id}
       ELSE UNCHANGED <<told, pending>>
  /\ UNCHANGED <<loopVars, spool, vmVars, stream, abandoned>>
-----------------------------------------------------------------------------
(* The loop.  Anthropic's runner makes the calls of a turn at once; ours   *)
(* makes them one by one.                                                  *)

Answered == {line.id : line \in told}
Waiting == {n \in DOMAIN calls : calls[n] # "done"} \ Answered

RestOfLoop == UNCHANGED <<provider, pending, spool, vmVars, channel, stream,
                          abandoned, told>>

TurnsLeft == turns < MaxTurns

Ask(width) ==
  /\ loop = "asking" /\ TurnsLeft /\ Len(calls) + width <= MaxCalls
  /\ turns' = turns + 1 /\ toAsk' = width
  /\ IF width = 0 THEN loop' = "over" /\ returned' = TRUE
                  ELSE loop' = "calling" /\ UNCHANGED returned
  /\ UNCHANGED calls /\ RestOfLoop

ModelFails ==
  /\ loop = "asking" /\ loop' = "over" /\ returned' = TRUE
  /\ UNCHANGED <<turns, toAsk, calls>> /\ RestOfLoop

TurnCap ==
  /\ loop = "asking" /\ turns = MaxTurns
  /\ loop' = "over" /\ returned' = TRUE
  /\ UNCHANGED <<turns, toAsk, calls>> /\ RestOfLoop

(* One loop looks at the clock between turns.  The other is raced against *)
(* it: the driver has its transcript and the loop goes on behind it.       *)
LoopTimesOut ==
  /\ ~returned /\ loop \in {"asking", "calling"}
  /\ provider = "openrouter" => loop = "asking"
  /\ loop' = IF provider = "openrouter" THEN "over" ELSE loop
  /\ returned' = TRUE
  /\ UNCHANGED <<turns, toAsk, calls>> /\ RestOfLoop

Invoke(ask) ==
  /\ loop = "calling" /\ toAsk > 0
  /\ provider = "openrouter" => Waiting = {}
  /\ calls' = Append(calls, ask) /\ toAsk' = toAsk - 1
  /\ pending' = pending \cup {Len(calls) + 1} /\ spool' = spool \cup {Len(calls) + 1}
  /\ UNCHANGED <<provider, loop, returned, turns, vmVars, channel, stream, abandoned, told>>

NextTurn ==
  /\ loop = "calling" /\ toAsk = 0 /\ Waiting = {}
  /\ loop' = "asking"
  /\ UNCHANGED <<returned, turns, toAsk, calls>> /\ RestOfLoop
-----------------------------------------------------------------------------
(* The Runner.                                                             *)

SayAll(lines) == channel' = IF stream = "live" /\ ~abandoned THEN channel \o lines ELSE channel
Say(line) == SayAll(<<line>>)
RestOfVm == UNCHANGED <<loopVars, pending, stream, abandoned, told>>

\* What the session printed before stays in its buffer.
KeepBuffer(n) == buffer
ClearBuffer(n) == <<>>

(* The spool's lowest number first; `busy` never refuses here, for a call  *)
(* is served only when the one before it was answered.                     *)
Serve ==
  /\ vm = "serving" /\ serving = 0 /\ spool # {}
  /\ LET n == Min(spool)
         dead == session # "live"
     IN
       /\ spool' = spool \ {n}
       /\ CASE calls[n] = "done" ->
                 vm' = "closing" /\ UNCHANGED <<serving, session, stdin, buffer, channel>>
            [] calls[n] = "create" ->
                 /\ Say(Said(n, n, {n}))
                 /\ session' = "live"
                 /\ IF dead THEN stdin' = <<>> /\ buffer' = <<>> ELSE UNCHANGED <<stdin, buffer>>
                 /\ UNCHANGED <<vm, serving>>
            [] calls[n] \in Commands /\ dead ->
                 Say(Said(n, 0, {})) /\ UNCHANGED <<vm, serving, session, stdin, buffer>>
            [] calls[n] \in Commands /\ ~dead ->
                 /\ serving' = n /\ buffer' = ClearBuffer(n) /\ stdin' = Append(stdin, n)
                 /\ UNCHANGED <<vm, session, channel>>
  /\ RestOfVm

(* The session's own pace: its next command prints what it has to print,   *)
(* then the mark the Runner wrote after it.                                *)
ShellRuns ==
  /\ vm = "serving" /\ session = "live" /\ stdin # <<>>
  /\ buffer' = Append(buffer, Head(stdin)) /\ stdin' = Tail(stdin)
  /\ UNCHANGED <<serving, session, vm, spool, channel>> /\ RestOfVm

(* The mark is a hash of the session and the command. *)
Mark(n) == calls[n]
Marks == {i \in DOMAIN buffer : Mark(buffer[i]) = Mark(serving)}
Seen(last) == {buffer[i] : i \in 1..last}

(* `waitFor`: the first such mark ends the command, and carries a status.  *)
Settle ==
  /\ serving # 0 /\ vm = "serving" /\ Marks # {}
  /\ Say(Said(serving, buffer[Min(Marks)], Seen(Min(Marks))))
  /\ serving' = 0
  /\ UNCHANGED <<session, stdin, buffer, vm, spool>> /\ RestOfVm

(* ... or the wait is over, and the command may run on. *)
NoResult ==
  /\ serving # 0 /\ vm = "serving" /\ Marks = {}
  /\ Say(Said(serving, 0, Seen(Len(buffer)))) /\ serving' = 0
  /\ UNCHANGED <<session, stdin, buffer, vm, spool>> /\ RestOfVm

\* A command ends the shell that runs it.
ShellExits ==
  /\ vm = "serving" /\ session = "live" /\ stdin # <<>>
  /\ session' = "exited" /\ stdin' = <<>>
  /\ UNCHANGED <<serving, buffer, vm, spool, channel>> /\ RestOfVm
-----------------------------------------------------------------------------
LoopStep == (\E w \in 0..2 : Ask(w)) \/ ModelFails \/ TurnCap \/ LoopTimesOut
              \/ (\E ask \in Asks : Invoke(ask)) \/ NextTurn
RunnerStep == RejectWaiting \/ Serve \/ Settle \/ NoResult
=============================================================================
