------------------------------ MODULE FoldLaws ------------------------------
(***************************************************************************)
(* The fold against what it promises, on streams nobody constrains.        *)
(*                                                                         *)
(* A log is written by a machine the project does not own (ADR-0019), so   *)
(* the verdict has to be right for every stream of events and not only for *)
(* those the engine writes: any event of a scenario's alphabet may come    *)
(* next.  The laws are stated over the raw log (module Evidence); fold.ts  *)
(* works on lists it tags and on values it recomputes at some events and   *)
(* not at others.  The machine has names of its own, so that a proof about *)
(* a component that folds can use what is proved here.                     *)
(***************************************************************************)
EXTENDS Confidence, Evidence

\* What to explore: for each scenario the events every stream starts with, the
\* events that may come next (not yet numbered), and how many of them at most.
CONSTANTS Scenarios

\* An event says what it is, has room for its number, and an end gives a reason.
Happening(e) ==
  /\ {"type", "seq"} \subseteq DOMAIN e
  /\ e.type = "RUN_ENDED" => "reason" \in DOMAIN e /\ e.reason # "no"

ASSUME ScenariosAssumption ==
  \A s \in Scenarios :
    /\ s.opening \in Seq({s.opening[i] : i \in DOMAIN s.opening})
    /\ \A i \in DOMAIN s.opening : Happening(s.opening[i])
    /\ \A e \in s.alphabet : Happening(e)

VARIABLES scenario, written, folded

lawVars == <<scenario, written, folded>>

NumberedFrom(events, from) ==
  [i \in DOMAIN events |-> [events[i] EXCEPT !.seq = from + i]]

LawInit ==
  /\ scenario \in Scenarios
  /\ written = NumberedFrom(scenario.opening, 0)
  /\ folded = FoldOf(NumberedFrom(scenario.opening, 0))

\* One event is appended and the state moves with it.
Write(e) ==
  /\ Len(written) < Len(scenario.opening) + scenario.most
  /\ written' = Append(written, [e EXCEPT !.seq = Len(written) + 1])
  /\ folded' = Apply(folded, written'[Len(written')])
  /\ UNCHANGED scenario

LawNext == \E e \in scenario.alphabet : Write(e)

LawSpec == LawInit /\ [][LawNext]_lawVars
-----------------------------------------------------------------------------
(* fold.ts, credited(): whatever the order in which the facts arrived, the
   attempts shown and the attempt credited are those the whole log supports.
   A value left over from an earlier event would break this. *)
VerdictIsTheLogs ==
  /\ folded.shown = {a \in Attempts(written) : ShownIn(written, a)}
  /\ folded.credited = 0 <=>
       ~\E a \in Attempts(written) : ShownIn(written, a) /\ FixedIn(written, a)
  /\ folded.credited # 0 => ShownIn(written, folded.credited) /\ FixedIn(written, folded.credited)

(* fold.ts, sealedBeforeEveryAgent: it claims that every agent that spoke did so
   in a sandbox sealed before its first word, and by no seal that leaked. *)
SealClaimIsTrue ==
  LET at(type) == {i \in DOMAIN written : written[i].type = type}
      seals == {i \in at("SANDBOX_SEALED") : written[i].phase = "agent"}
      sameAgent(i, j) == ~\E f \in at("AGENT_FINISHED") : i < f /\ f < j
  IN SealedBeforeEveryAgent(written) <=>
       /\ seals # {}
       /\ \A s \in seals : ~written[s].reached
       /\ \A w \in at("AGENT_MESSAGE") : \E s \in seals : s < w /\ sameAgent(s, w)
       /\ \A w \in at("AGENT_MESSAGE"), s \in seals : w < s => ~sameAgent(w, s)
-----------------------------------------------------------------------------
(* confidence.ts, report.ts: a tier better than 3 needs an attempt whose events
   show the bug and the fix; Tier 1 needs one that no agent wrote, or one the
   project had and ran with its own command; the score stays under its ceiling;
   and nobody is told that the bug reproduces unless an attempt showed it. *)
ClaimsAreEarned ==
  LET said == ConfidenceOf(folded)
      a == folded.credited
  IN /\ said.tier # 3 =>
          ShownIn(written, a) /\ FixedIn(written, a) /\ said.score \in 63..Ceiling
     /\ said.tier = 1 /\ AgentWrote(written) =>
          /\ JudgedBytes(written, a) \in Tracked
          /\ \E i \in Within(written, "SUITE_RUN", a) : written[i].phase = "base"
     /\ Comment(folded) = "reproduced, and no fix held" =>
          \E b \in Attempts(written) : ShownIn(written, b)

(* confidence.ts:484-491: a run that falls through to the last reason accuses
   the reproduction of "tampering that had not happened", so "a clause has to
   land here whenever one lands in the fold". *)
TamperingIsSeen ==
  folded.ended # "no" /\ folded.credited = 0 /\ Reason(folded) = "another reproduction" =>
    LET a == LastBase(folded).attempt IN
    \E i \in TestsOf(written, a, "base") \cup TestsOf(written, a, "fix") :
      written[i].bytes # JudgedBytes(written, a)
=============================================================================
