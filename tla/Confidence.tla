----------------------------- MODULE Confidence -----------------------------
(***************************************************************************)
(* What is read off a folded run: the tier and the score of a pull request *)
(* (confidence.ts), the reason given when there is none, and the comment   *)
(* left on the issue (report.ts).                                          *)
(*                                                                         *)
(* The texts are reduced to the claim they make.  What a registration says *)
(* of its files is a property of its bytes: written by the engine over     *)
(* both checkouts, or all of them tracked at the base commit and run by    *)
(* nothing but the project's own test command.                             *)
(***************************************************************************)
EXTENDS Fold

CONSTANTS
  Applied,   \* reproductions every file of which the engine writes
  Tracked    \* reproductions the repository already contained

ASSUME ConfidenceAssumption == Applied \cap Tracked = {} /\ NoBytes \notin Applied \cup Tracked

\* Variant: being tracked is provenance enough, whatever command ran it.
TrackedIsEnough(st, a) == RegisteredBytes(st.registrations, a) \in Tracked

\* A command can be the project's own only where the project's suite was run.
FromRepository(st, a) ==
  /\ RegisteredBytes(st.registrations, a) \in Tracked
  /\ \E i \in DOMAIN st.suites : st.suites[i].attempt = a /\ st.suites[i].phase = "base"

Score(st, a) ==
  LET fixes == RunsOf(st.runs, a, "fix")
      reruns == IF Cardinality(fixes) > 4 THEN 3
                ELSE IF fixes = {} THEN 0 ELSE Cardinality(fixes) - 1
      if(claim, worth) == IF claim THEN worth ELSE 0
  IN 45 + 5 * reruns + 7
       + (IF RegisteredBytes(st.registrations, a) \in Applied THEN 15 ELSE 8)
       + if(fixes # {} /\ \A i \in fixes : ~st.runs[i].matched, 8)
       + if(st.regression = "clean", 10)
       + if(~\E i \in DOMAIN st.aborts :
              st.aborts[i].attempt = a /\ st.aborts[i].phase \in {"base", "fix"}, 3)

Ceiling == 45 + 3 * 5 + 15 + 7 + 3 + 8 + 10

ConfidenceOf(st) ==
  IF st.credited = 0 THEN [tier |-> 3, score |-> 0]
  ELSE [tier |-> IF st.byAgent /\ ~FromRepository(st, st.credited) THEN 2 ELSE 1,
        score |-> Score(st, st.credited)]
-----------------------------------------------------------------------------
(* Why the gate held.                                                      *)

\* The refusal of the last attempt, or an earlier one's if the last said nothing of its own.
RefusalStands(st) ==
  LET refusals == {i \in DOMAIN st.aborts : st.aborts[i].cause = "handover"}
      spoke == \/ \E i \in DOMAIN st.registrations : st.registrations[i].attempt = st.attempt
               \/ \E i \in DOMAIN st.runs : st.runs[i].attempt = st.attempt
  IN refusals # {} /\ (st.aborts[Latest(refusals)].attempt = st.attempt \/ ~spoke)

\* The attempt a follow-up would act on: that of the last base run.
Bases(st) == {i \in DOMAIN st.runs : st.runs[i].phase = "base"}
LastBase(st) == st.runs[Latest(Bases(st))]

WrongCommit(st, a) ==
  \E h \in DOMAIN st.handovers, i \in RunsOf(st.runs, a, "fix") :
    /\ st.handovers[h].kind = "fix" /\ st.handovers[h].attempt \in {a, 0}
    /\ st.runs[i].commit # st.handovers[h].commit

(* The first clause that holds.  What none of them explains is said to be  *)
(* a reproduction that was exchanged between the two phases.               *)
Reason(st) ==
  IF RefusalStands(st) THEN "refused"
  ELSE IF st.registrations = <<>> THEN "unregistered"
  ELSE IF st.runs = <<>> THEN "never ran"
  ELSE IF Bases(st) = {} THEN "no base run"
  ELSE LET base == LastBase(st)
           a == base.attempt
           fixes == RunsOf(st.runs, a, "fix")
       IN CASE a = 0 -> "no attempt declared"
            [] a # 0 /\ base.result # "failed" -> base.result
            [] a # 0 /\ base.result = "failed" /\ ~base.matched -> "another problem"
            [] OTHER ->
                 IF fixes = {} THEN "no fix"
                 ELSE IF \E i \in fixes : st.runs[i].result # "passed" THEN "a flake"
                 ELSE IF RegisteredBytes(st.registrations, a) = NoBytes THEN "no anchor"
                 ELSE IF a \notin st.completed THEN "cut short"
                 ELSE IF WrongCommit(st, a) THEN "wrong commit"
                 ELSE "another reproduction"
-----------------------------------------------------------------------------
(* The comment on the issue, for every end a run can have.                 *)
Comment(st) ==
  CASE st.pr -> "a pull request was opened"
    [] ~st.pr /\ st.status \in {"blocked", "errored"} -> st.status
    [] ~st.pr /\ st.status \notin {"blocked", "errored"} ->
         IF st.shown # {} THEN "reproduced, and no fix held" ELSE "not reproduced"
=============================================================================
