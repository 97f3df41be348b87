--------------------------- MODULE OnboardingProofs ---------------------------
(***************************************************************************)
(* Onboarding and starting runs, proved for any recipes, any number of     *)
(* workers, approvals, proposals and presses of Start, and any failures.   *)
(***************************************************************************)
EXTENDS Onboarding, FiniteSetTheorems, SequenceTheorems, TLAPS

Job == [kind : {"draft", "prove", "run"}, request : Requests \cup {None},
        stage : {"open", "working", "fetched", "told", "over", "lost"},
        commands : Commands \cup {None}, held : BOOLEAN, young : BOOLEAN]
-----------------------------------------------------------------------------
(***************************************************************************)
(* How the rows of `jobs` change.                                          *)
(***************************************************************************)
\* A row is added.
Adds(kind, request) == jobs' = Append(jobs, Work(kind, request))

\* Row n moves on.  What it is, and who asked for it, stays; it only grows older.
MovesOn(n) ==
  /\ jobs' = [jobs EXCEPT ![n] = jobs'[n]]
  /\ jobs'[n] \in Job
  /\ jobs'[n].kind = jobs[n].kind /\ jobs'[n].request = jobs[n].request
  /\ jobs'[n].young => jobs[n].young
  /\ jobs[n].stage # "over"

LEMMA RowsAdded ==
  ASSUME jobs \in Seq(Job), NEW kind \in {"draft", "prove", "run"},
         NEW request \in Requests \cup {None}, Adds(kind, request)
  PROVE  /\ jobs' \in Seq(Job) /\ Len(jobs') = Len(jobs) + 1 /\ Len(jobs) \in Nat
         /\ DOMAIN jobs = 1..Len(jobs) /\ DOMAIN jobs' = 1..(Len(jobs) + 1)
         /\ \A n \in DOMAIN jobs : jobs'[n] = jobs[n]
         /\ jobs'[Len(jobs) + 1] = Work(kind, request)
         /\ \A n \in DOMAIN jobs' : n \in DOMAIN jobs \/ n = Len(jobs) + 1
<1>1. Work(kind, request) \in Job
  BY OnboardingAssumption DEF Work, Job
<1> QED BY <1>1 DEF Adds

LEMMA RowMoved ==
  ASSUME jobs \in Seq(Job), NEW n \in DOMAIN jobs, MovesOn(n)
  PROVE  /\ jobs' \in Seq(Job) /\ DOMAIN jobs' = DOMAIN jobs
         /\ \A m \in DOMAIN jobs : m # n => jobs'[m] = jobs[m]
<1>. DEFINE j == jobs'[n]
<1>1. j \in Job /\ jobs' = [jobs EXCEPT ![n] = j] /\ n \in 1..Len(jobs)
  BY DEF MovesOn
<1> HIDE DEF j
<1>2. jobs' \in Seq(Job) /\ Len(jobs') = Len(jobs)
  BY <1>1, ExceptSeq
<1> QED BY <1>1, <1>2

LEMMA JobsTyped == TypeOK => jobs \in Seq(Job)
BY DEF TypeOK, Job

LEMMA ClaimMoves ==
  ASSUME TypeOK, NEW n \in DOMAIN jobs, Claim(n)
  PROVE  /\ MovesOn(n) /\ jobs[n].stage = "open" /\ jobs'[n].stage = "working"
         /\ jobs'[n].commands = recipe.commands /\ jobs'[n].held = jobs[n].held
         /\ UNCHANGED <<story, injects, recipe, draft, handlers, start, value, key, page,
                        approvals, drafts, changes, faults, seen>>
<1>1. jobs[n] \in Job /\ recipe.commands \in Commands \cup {None}
  BY JobsTyped, ElementOfSeq, LenProperties DEF TypeOK
<1>2. jobs' = [jobs EXCEPT ![n].stage = "working", ![n].commands = recipe.commands]
  BY DEF Claim, Take
<1>3. jobs[n].stage = "open"
  BY DEF Claim, Take, Working
<1>. DEFINE j == [jobs[n] EXCEPT !.stage = "working", !.commands = recipe.commands]
<1>4. jobs' = [jobs EXCEPT ![n] = j] /\ jobs'[n] = j
  BY <1>2
<1>5. /\ j \in Job /\ j.kind = jobs[n].kind /\ j.request = jobs[n].request
      /\ j.young = jobs[n].young /\ j.stage = "working" /\ j.commands = recipe.commands
      /\ j.held = jobs[n].held
  BY <1>1 DEF Job
<1> HIDE DEF j
<1> QED BY <1>3, <1>4, <1>5 DEF MovesOn, Claim, Take, Working

\* A step of a worker that has the job, or the passing of time, and what it leaves alone.
LEMMA StageMoves ==
  ASSUME TypeOK, NEW n \in DOMAIN jobs, NEW stage \in {"told", "over", "lost"},
         jobs[n].stage # "over", jobs' = [jobs EXCEPT ![n].stage = stage]
  PROVE  /\ MovesOn(n) /\ jobs'[n].stage = stage
         /\ jobs'[n].commands = jobs[n].commands /\ jobs'[n].held = jobs[n].held
<1>1. jobs[n] \in Job
  BY JobsTyped, ElementOfSeq, LenProperties
<1>. DEFINE j == [jobs[n] EXCEPT !.stage = stage]
<1>2. jobs' = [jobs EXCEPT ![n] = j] /\ jobs'[n] = j
  OBVIOUS
<1>3. /\ j \in Job /\ j.kind = jobs[n].kind /\ j.request = jobs[n].request
      /\ j.young = jobs[n].young /\ j.stage = stage /\ j.commands = jobs[n].commands
      /\ j.held = jobs[n].held
  BY <1>1 DEF Job
<1> HIDE DEF j
<1> QED BY <1>2, <1>3 DEF MovesOn

LEMMA FetchMoves ==
  ASSUME TypeOK, NEW n \in DOMAIN jobs, FetchValues(n)
  PROVE  /\ MovesOn(n) /\ jobs[n].stage = "working" /\ jobs[n].kind = "run"
         /\ jobs'[n].stage = "fetched"
         /\ jobs'[n].commands = jobs[n].commands /\ (jobs'[n].held => injects)
         /\ UNCHANGED <<story, injects, recipe, draft, handlers, start, value, key, page,
                        approvals, drafts, changes, faults, seen>>
<1>1. jobs[n] \in Job
  BY JobsTyped, ElementOfSeq, LenProperties
<1>2. /\ jobs' = [jobs EXCEPT ![n].stage = "fetched", ![n].held = Handed]
      /\ jobs[n].stage = "working" /\ jobs[n].kind = "run"
  BY DEF FetchValues, Working
<1>3. Handed \in BOOLEAN /\ (Handed => injects)
  BY DEF Handed, TypeOK
<1>. DEFINE h == Handed
            j == [jobs[n] EXCEPT !.stage = "fetched", !.held = h]
<1>4. jobs' = [jobs EXCEPT ![n] = j] /\ jobs'[n] = j
  BY <1>2
<1>5. h \in BOOLEAN /\ (h => injects)
  BY <1>3
<1> HIDE DEF h
<1>6. /\ j \in Job /\ j.kind = jobs[n].kind /\ j.request = jobs[n].request
      /\ j.young = jobs[n].young /\ j.stage = "fetched" /\ j.commands = jobs[n].commands
      /\ j.held = h
  BY <1>1, <1>5 DEF Job
<1> HIDE DEF j
<1> QED BY <1>2, <1>4, <1>5, <1>6 DEF MovesOn, FetchValues, Working

LEMMA AgeMoves ==
  ASSUME TypeOK, NEW n \in DOMAIN jobs, Ages(n)
  PROVE  /\ MovesOn(n) /\ jobs'[n].stage = jobs[n].stage
         /\ jobs'[n].commands = jobs[n].commands /\ jobs'[n].held = jobs[n].held
         /\ UNCHANGED <<story, injects, recipe, draft, handlers, start, value, key, page,
                        approvals, drafts, changes, seen>>
<1>1. jobs[n] \in Job /\ jobs[n].stage # "over"
  BY JobsTyped, ElementOfSeq, LenProperties DEF Ages, Unfinished
<1>2. jobs' = [jobs EXCEPT ![n].young = FALSE]
  BY DEF Ages
<1>. DEFINE j == [jobs[n] EXCEPT !.young = FALSE]
<1>3. jobs' = [jobs EXCEPT ![n] = j] /\ jobs'[n] = j
  BY <1>2
<1>4. /\ j \in Job /\ j.kind = jobs[n].kind /\ j.request = jobs[n].request
      /\ ~j.young /\ j.stage = jobs[n].stage /\ j.commands = jobs[n].commands
      /\ j.held = jobs[n].held
  BY <1>1 DEF Job
<1> HIDE DEF j
<1> QED BY <1>1, <1>3, <1>4 DEF MovesOn, Ages, Working

LEMMA TellMoves ==
  ASSUME TypeOK, NEW n \in DOMAIN jobs,
         \/ Prove(n) \/ Run(n) \/ Finish(n) \/ WorkFails(n)
         \/ \E d \in Outcomes : Draft(n, d)
  PROVE  /\ MovesOn(n) /\ n \in AtWork /\ jobs'[n].stage \in {"told", "over", "lost"}
         /\ jobs'[n].commands = jobs[n].commands /\ jobs'[n].held = jobs[n].held
         /\ UNCHANGED <<story, injects, handlers, start, value, key, page,
                        approvals, drafts, changes>>
<1>1. /\ n \in AtWork
      /\ \E stage \in {"told", "over", "lost"} : jobs' = [jobs EXCEPT ![n].stage = stage]
      /\ UNCHANGED <<story, injects, handlers, start, value, key, page, approvals, drafts, changes>>
  BY DEF Prove, Run, Finish, WorkFails, Draft, Working, Tell, AtWork
<1>2. jobs[n].stage # "over"
  BY <1>1 DEF AtWork
<1> QED BY <1>1, <1>2, StageMoves
-----------------------------------------------------------------------------
(***************************************************************************)
(* Every variable stays in its range, and no worker has two jobs at once.  *)
(***************************************************************************)
LEMMA AtWorkIsFinite ==
  ASSUME jobs \in Seq(Job)
  PROVE  IsFiniteSet(AtWork) /\ Cardinality(AtWork) \in Nat
<1>1. IsFiniteSet(1..Len(jobs))
  BY FS_Interval, LenProperties
<1>2. AtWork \subseteq 1..Len(jobs)
  BY LenProperties DEF AtWork
<1> QED BY <1>1, <1>2, FS_Subset, FS_CardinalityType

LEMMA CrewAdded ==
  ASSUME jobs \in Seq(Job), NEW kind \in {"draft", "prove", "run"},
         NEW request \in Requests \cup {None}, Adds(kind, request)
  PROVE  AtWork' = AtWork
<1>1. \A n \in DOMAIN jobs' : n \in AtWork' <=> n \in AtWork
  <2>. TAKE n \in DOMAIN jobs'
  <2>1. CASE n \in DOMAIN jobs
    BY <2>1, RowsAdded DEF AtWork
  <2>2. CASE n = Len(jobs) + 1
    <3>0. jobs'[n] = Work(kind, request) /\ n \notin DOMAIN jobs
      BY <2>2, RowsAdded
    <3>1. jobs'[n].stage = "open" /\ n \notin DOMAIN jobs
      BY <3>0 DEF Work
    <3> QED BY <3>1 DEF AtWork
  <2> QED BY <2>1, <2>2, RowsAdded
<1>2. DOMAIN jobs \subseteq DOMAIN jobs'
  BY RowsAdded
<1> QED BY <1>1, <1>2 DEF AtWork

LEMMA CrewMoves ==
  ASSUME TypeOK, NEW n \in DOMAIN jobs, MovesOn(n),
         n \in AtWork \/ n \notin AtWork' \/ Cardinality(AtWork) < Workers
  PROVE  (Cardinality(AtWork) <= Workers)'
<1>0. /\ IsFiniteSet(AtWork) /\ Cardinality(AtWork) \in Nat /\ Cardinality(AtWork) <= Workers
      /\ Workers \in Nat /\ Workers' = Workers
  BY JobsTyped, AtWorkIsFinite, OnboardingAssumption DEF TypeOK
<1>1. \A m \in DOMAIN jobs : m # n => (m \in AtWork' <=> m \in AtWork)
  BY JobsTyped, RowMoved DEF AtWork
<1>2. AtWork' \subseteq AtWork \cup {n}
  BY <1>1, JobsTyped, RowMoved DEF AtWork
<1>3. CASE AtWork' \subseteq AtWork
  <2>1. Cardinality(AtWork') <= Cardinality(AtWork) /\ Cardinality(AtWork') \in Nat
    BY <1>0, <1>3, FS_Subset, FS_CardinalityType
  <2> QED BY <1>0, <2>1
<1>4. CASE ~(AtWork' \subseteq AtWork)
  <2>1. AtWork' \subseteq AtWork \cup {n} /\ n \notin AtWork /\ n \in AtWork'
    BY <1>2, <1>4
  <2>2. Cardinality(AtWork \cup {n}) = Cardinality(AtWork) + 1 /\ IsFiniteSet(AtWork \cup {n})
    BY <1>0, <2>1, FS_AddElement
  <2>3. Cardinality(AtWork') <= Cardinality(AtWork \cup {n}) /\ Cardinality(AtWork') \in Nat
    BY <2>1, <2>2, FS_Subset, FS_CardinalityType
  <2>4. Cardinality(AtWork) < Workers
    BY <2>1
  <2> QED BY <1>0, <2>2, <2>3, <2>4
<1> QED BY <1>3, <1>4

\* All but the rows of `jobs`.
Rest ==
  /\ story \in {"new", "old"} /\ injects \in BOOLEAN
  /\ recipe \in [commands : Commands \cup {None}, proof : Proofs \cup {None}]
  /\ draft \in Documents \cup {None}
  /\ handlers \in [clear : Nat, prove : Nat, draft : Nat]
  /\ start \in [Requests -> {"idle", "looking", "clear", "over"}]
  /\ value \in BOOLEAN /\ key \in BOOLEAN
  /\ page \in [detail : Details \cup {None}, due : BOOLEAN]
  /\ approvals \in 0..Bounds[story].approvals /\ drafts \in 0..Bounds[story].drafts
  /\ changes \in 0..Bounds[story].changes /\ faults \in 0..MaxFaults
  /\ seen \in [overtaken : BOOLEAN, late : BOOLEAN, overlaps : SUBSET SUBSET Requests,
               booted : SUBSET [needs : BOOLEAN, held : BOOLEAN]]

LEMMA Parts == TypeOK <=> jobs \in Seq(Job) /\ Cardinality(AtWork) <= Workers /\ Rest
BY DEF TypeOK, Rest, Job

LEMMA NextParts ==
  ASSUME jobs' \in Seq(Job), (Cardinality(AtWork) <= Workers)', Rest'
  PROVE  TypeOK'
BY DEF TypeOK, Rest, Job

LEMMA Bounded ==
  ASSUME Rest
  PROVE  /\ Bounds[story].approvals \in Nat /\ Bounds[story].drafts \in Nat
         /\ Bounds[story].changes \in Nat /\ MaxFaults \in Nat
         /\ (Fault => faults' \in 0..MaxFaults)
         /\ (Settings => changes' \in 0..Bounds[story].changes)
BY OnboardingAssumption DEF Rest, Fault, Settings

LEMMA RestOfPage ==
  ASSUME Rest, Open \/ Reload \/ Poll PROVE Rest' /\ UNCHANGED jobs
<1>1. Detail \in Details
  BY DEF Rest, Detail, Details
<1>2. page' = [detail |-> Detail, due |-> FALSE]
      /\ UNCHANGED <<story, injects, recipe, draft, handlers, jobs, start, value, key,
                     approvals, drafts, changes, faults, seen>>
  BY DEF Open, Reload, Poll, Draw
<1> QED BY <1>1, <1>2 DEF Rest

LEMMA RestOfPeople ==
  ASSUME Rest, AskForDraft \/ ChangeValue \/ ChangeKey \/ \E c \in Documents : Approve(c)
  PROVE  Rest' /\ UNCHANGED jobs
<1>1. CASE AskForDraft
  <2>1. drafts' \in 0..Bounds[story].drafts
    BY <1>1, Bounded DEF AskForDraft, Rest
  <2>2. handlers' \in [clear : Nat, prove : Nat, draft : Nat]
    <3>1. handlers' = handlers \/ handlers' = [handlers EXCEPT !.draft = @ + 1]
      BY <1>1 DEF AskForDraft
    <3>2. handlers.draft + 1 \in Nat
      BY DEF Rest
    <3> QED BY <3>1, <3>2 DEF Rest
  <2>3. page' \in [detail : Details \cup {None}, due : BOOLEAN]
    <3>1. page' = page \/ page' = [page EXCEPT !.due = TRUE]
      BY <1>1 DEF AskForDraft
    <3> QED BY <3>1 DEF Rest
  <2> QED BY <1>1, <2>1, <2>2, <2>3 DEF AskForDraft, Routed, Rest
<1>2. CASE ChangeValue \/ ChangeKey
  <2>1. value' \in BOOLEAN /\ key' \in BOOLEAN /\ changes' \in 0..Bounds[story].changes
    BY <1>2, Bounded DEF ChangeValue, ChangeKey, Rest
  <2> QED BY <1>2, <2>1 DEF ChangeValue, ChangeKey, Settings, Rest
<1>3. ASSUME NEW c \in Documents, Approve(c) PROVE Rest' /\ UNCHANGED jobs
  <2>1. approvals' \in 0..Bounds[story].approvals
    <3>1. /\ approvals \in 0..Bounds[story].approvals /\ Bounds[story].approvals \in Nat
          /\ approvals < Bounds[story].approvals /\ approvals' = approvals + 1
          /\ story' = story
      BY <1>3, Bounded DEF Approve, Routed, Rest
    <3> QED BY <3>1
  <2>2. recipe' \in [commands : Commands \cup {None}, proof : Proofs \cup {None}]
    <3>1. recipe' = recipe \/ (c \in Commands /\ recipe' = [commands |-> c, proof |-> None])
      <4>1. CASE Parses(c)
        BY <1>3, <4>1 DEF Approve, SaveRecipe, Parses
      <4>2. CASE ~Parses(c)
        BY <1>3, <4>2 DEF Approve
      <4> QED BY <4>1, <4>2
    <3> QED BY <3>1 DEF Rest
  <2>3. handlers' \in [clear : Nat, prove : Nat, draft : Nat]
    <3>1. handlers' = handlers \/ handlers' = [handlers EXCEPT !.clear = @ + 1]
      BY <1>3 DEF Approve
    <3>2. handlers.clear + 1 \in Nat
      BY DEF Rest
    <3> QED BY <3>1, <3>2 DEF Rest
  <2>4. seen' \in [overtaken : BOOLEAN, late : BOOLEAN, overlaps : SUBSET SUBSET Requests,
                   booted : SUBSET [needs : BOOLEAN, held : BOOLEAN]]
    <3>. DEFINE o == seen.overtaken \/ \E n \in AtWork : jobs[n].kind = "prove" /\ jobs[n].stage = "working"
                l == seen.late \/ Unfinished("draft") # {} \/ handlers.draft > 0
    <3>1. CASE Parses(c)
      <4>1. seen' = [seen EXCEPT !.overtaken = o, !.late = l]
        BY <1>3, <3>1 DEF Approve
      <4>2. o \in BOOLEAN /\ l \in BOOLEAN
        OBVIOUS
      <4> HIDE DEF o, l
      <4> QED BY <4>1, <4>2 DEF Rest
    <3>2. CASE ~Parses(c)
      BY <1>3, <3>2 DEF Approve, Rest
    <3> QED BY <3>1, <3>2
  <2> QED BY <1>3, <2>1, <2>2, <2>3, <2>4 DEF Approve, Routed, Rest
<1> QED BY <1>1, <1>2, <1>3

LEMMA RestOfHandlers ==
  ASSUME Rest, ClearDraft \/ QueueDraft \/ QueueProve \/ QueueingFails
  PROVE  /\ Rest'
         /\ UNCHANGED jobs \/ \E kind \in {"draft", "prove"} : Adds(kind, None)
<1>1. CASE ClearDraft
  <2>1. handlers' \in [clear : Nat, prove : Nat, draft : Nat]
    <3>1. /\ handlers' = [handlers EXCEPT !.clear = @ - 1, !.prove = @ + 1]
          /\ handlers.clear > 0
      BY <1>1 DEF ClearDraft
    <3>2. handlers.clear - 1 \in Nat /\ handlers.prove + 1 \in Nat
      BY <3>1 DEF Rest
    <3> QED BY <3>1, <3>2 DEF Rest
  <2>3. page' \in [detail : Details \cup {None}, due : BOOLEAN]
    <3>1. page' = [page EXCEPT !.due = TRUE]
      BY <1>1 DEF ClearDraft
    <3> QED BY <3>1 DEF Rest
  <2>2. /\ draft' \in Documents \cup {None} /\ faults' \in 0..MaxFaults
        /\ seen' \in [overtaken : BOOLEAN, late : BOOLEAN, overlaps : SUBSET SUBSET Requests,
                     booted : SUBSET [needs : BOOLEAN, held : BOOLEAN]]
    BY <1>1, Bounded DEF ClearDraft, Rest
  <2> QED BY <1>1, <2>1, <2>2, <2>3 DEF ClearDraft, Routed, Rest
<1>2. ASSUME NEW kind \in {"draft", "prove"}, Queued(kind), faults' \in 0..MaxFaults
      PROVE  Rest'
  <2>1. handlers' \in [clear : Nat, prove : Nat, draft : Nat]
    BY <1>2 DEF Queued, Rest
  <2> QED BY <1>2, <2>1 DEF Queued, Routed, Rest
<1>3. CASE QueueDraft \/ QueueProve \/ QueueingFails
  BY <1>2, <1>3, Bounded DEF QueueDraft, QueueProve, QueueingFails, Adds, Rest
<1> QED BY <1>1, <1>3 DEF ClearDraft

LEMMA RestOfStart ==
  ASSUME Rest, NEW r \in Requests, CheckStart(r) \/ LookForOpen(r) \/ QueueRun(r) \/ StartFails(r)
  PROVE  /\ Rest'
         /\ UNCHANGED jobs \/ Adds("run", r)
<1>1. start' \in [Requests -> {"idle", "looking", "clear", "over"}]
  BY DEF CheckStart, LookForOpen, QueueRun, StartFails, Starting, Rest
<1>2. faults' \in 0..MaxFaults
  BY Bounded DEF CheckStart, LookForOpen, QueueRun, StartFails, Rest
<1>3. seen' \in [overtaken : BOOLEAN, late : BOOLEAN, overlaps : SUBSET SUBSET Requests,
                 booted : SUBSET [needs : BOOLEAN, held : BOOLEAN]]
  <2>1. CASE LookForOpen(r) /\ OpenJobFor = {}
    <3>. DEFINE more == {{r, q} : q \in {q \in Requests : start[q] = "clear"}}
    <3>1. more \subseteq SUBSET Requests
      OBVIOUS
    <3>2. seen' = [seen EXCEPT !.overlaps = @ \cup more]
      BY <2>1 DEF LookForOpen
    <3> HIDE DEF more
    <3> QED BY <3>1, <3>2 DEF Rest
  <2>2. CASE UNCHANGED seen
    BY <2>2 DEF Rest
  <2> QED BY <2>1, <2>2 DEF CheckStart, LookForOpen, QueueRun, StartFails
<1> QED BY <1>1, <1>2, <1>3 DEF CheckStart, LookForOpen, QueueRun, StartFails, Starting, Adds, Rest

LEMMA ProofsAreProofs == \A c \in Commands : ProofsOf(c) \subseteq Proofs
<1>1. \A w : ProvedAs(w) \in {"ready", "ready_with_caveats", "blocked"}
  BY DEF ProvedAs
<1> QED BY <1>1 DEF ProofsOf, Proofs

LEMMA RestOfWork ==
  ASSUME TypeOK, NEW n \in DOMAIN jobs,
         \/ Claim(n) \/ Prove(n) \/ FetchValues(n) \/ Run(n) \/ Finish(n)
         \/ WorkFails(n) \/ Ages(n) \/ \E d \in Outcomes : Draft(n, d)
  PROVE  Rest'
<1>0. jobs[n] \in Job
  BY JobsTyped, ElementOfSeq, LenProperties
<1>1. CASE Claim(n)
  BY <1>1, ClaimMoves, Parts DEF Rest
<1>2. CASE FetchValues(n)
  BY <1>2, FetchMoves, Parts DEF Rest
<1>3. CASE Ages(n)
  BY <1>3, AgeMoves, Parts, Bounded DEF Ages, Rest
<1>4. CASE Prove(n)
  <2>1. recipe' \in [commands : Commands \cup {None}, proof : Proofs \cup {None}]
    <3>1. CASE jobs[n].commands = None
      BY <1>4, <3>1 DEF Prove, TypeOK
    <3>2. CASE jobs[n].commands # None
      <4>1. PICK proof \in ProofsOf(jobs[n].commands) : recipe' = [recipe EXCEPT !.proof = proof]
        BY <1>4, <3>2 DEF Prove, SaveProof
      <4>2. proof \in Proofs
        BY <1>0, <3>2, <4>1, ProofsAreProofs DEF Job
      <4> QED BY <4>1, <4>2 DEF TypeOK
    <3> QED BY <3>1, <3>2
  <2> QED BY <1>4, <2>1, TellMoves, Parts DEF Prove, Rest
<1>5. ASSUME NEW d \in Outcomes, Draft(n, d) PROVE Rest'
  <2>1. draft' \in Documents \cup {None}
    BY <1>5 DEF Draft, Outcomes, SaveDraft, TypeOK
  <2> QED BY <1>5, <2>1, TellMoves, Parts DEF Draft, Rest
<1>6. CASE Run(n)
  <2>1. seen' \in [overtaken : BOOLEAN, late : BOOLEAN, overlaps : SUBSET SUBSET Requests,
                   booted : SUBSET [needs : BOOLEAN, held : BOOLEAN]]
    <3>. DEFINE a == jobs[n].commands \in Needy
                b == injects /\ jobs[n].held
    <3>1. [needs |-> a, held |-> b] \in [needs : BOOLEAN, held : BOOLEAN]
      OBVIOUS
    <3>2. \/ seen' = [seen EXCEPT !.booted = @ \cup {[needs |-> a, held |-> b]}]
          \/ seen' = seen
      BY <1>6 DEF Run
    <3> HIDE DEF a, b
    <3> QED BY <3>1, <3>2 DEF TypeOK
  <2> QED BY <1>6, <2>1, TellMoves, Parts DEF Run, Rest
<1>7. CASE Finish(n) \/ WorkFails(n)
  BY <1>7, TellMoves, Parts, Bounded DEF Finish, WorkFails, Rest
<1> QED BY <1>1, <1>2, <1>3, <1>4, <1>5, <1>6, <1>7

LEMMA TypeStep == TypeOK /\ [Next]_vars => TypeOK'
<1>. SUFFICES ASSUME TypeOK, [Next]_vars PROVE TypeOK'
  OBVIOUS
<1>0. jobs \in Seq(Job) /\ Cardinality(AtWork) <= Workers /\ Rest
  BY Parts
<1>1. ASSUME UNCHANGED jobs, Rest' PROVE TypeOK'
  <2>1. AtWork' = AtWork
    BY <1>1 DEF AtWork
  <2> QED BY <1>0, <1>1, <2>1, NextParts
<1>2. ASSUME NEW kind \in {"draft", "prove", "run"}, NEW request \in Requests \cup {None},
             Adds(kind, request), Rest'
      PROVE  TypeOK'
  BY <1>0, <1>2, RowsAdded, CrewAdded, NextParts
<1>3. ASSUME NEW n \in DOMAIN jobs, MovesOn(n), Rest',
             n \in AtWork \/ n \notin AtWork' \/ Cardinality(AtWork) < Workers
      PROVE  TypeOK'
  BY <1>0, <1>3, RowMoved, CrewMoves, NextParts
<1>4. CASE Open \/ Reload \/ Poll
  BY <1>0, <1>1, <1>4, RestOfPage
<1>5. CASE AskForDraft \/ ChangeValue \/ ChangeKey \/ \E c \in Documents : Approve(c)
  BY <1>0, <1>1, <1>5, RestOfPeople
<1>6. CASE ClearDraft \/ QueueDraft \/ QueueProve \/ QueueingFails
  BY <1>0, <1>1, <1>2, <1>6, RestOfHandlers
<1>7. ASSUME NEW r \in Requests, CheckStart(r) \/ LookForOpen(r) \/ QueueRun(r) \/ StartFails(r)
      PROVE  TypeOK'
  BY <1>0, <1>1, <1>2, <1>7, RestOfStart
<1>8. ASSUME NEW n \in DOMAIN jobs, 
             \/ Claim(n) \/ Prove(n) \/ FetchValues(n) \/ Run(n) \/ Finish(n)
             \/ WorkFails(n) \/ Ages(n) \/ \E d \in Outcomes : Draft(n, d)
      PROVE  TypeOK'
  <2>1. Rest'
    BY <1>8, RestOfWork
  <2>2. CASE Claim(n)
    BY <1>3, <2>1, <2>2, ClaimMoves DEF Claim
  <2>3. CASE FetchValues(n)
    BY <1>3, <2>1, <2>3, FetchMoves DEF AtWork
  <2>4. CASE Ages(n)
    <3>1. MovesOn(n) /\ jobs'[n].stage = jobs[n].stage
      BY <2>4, AgeMoves
    <3>2. n \in AtWork \/ n \notin AtWork'
      BY <3>1 DEF AtWork
    <3> QED BY <1>3, <2>1, <3>1, <3>2
  <2>5. CASE \/ Prove(n) \/ Run(n) \/ Finish(n) \/ WorkFails(n)
             \/ \E d \in Outcomes : Draft(n, d)
    <3>1. MovesOn(n) /\ n \in AtWork
      BY <2>5, TellMoves
    <3> QED BY <1>3, <2>1, <3>1
  <2> QED BY <1>8, <2>2, <2>3, <2>4, <2>5
<1>9. CASE UNCHANGED vars
  BY <1>0, <1>1, <1>9 DEF vars, Rest
<1> QED BY <1>4, <1>5, <1>6, <1>7, <1>8, <1>9 DEF Next, Handlers, Worker

(* The rows of a repository are what its tables can hold, and there are never more jobs at
   work than workers. *)
THEOREM TypeCorrect == Spec => []TypeOK
<1>1. Init => TypeOK
  <2>. SUFFICES ASSUME Init PROVE TypeOK
    OBVIOUS
  <2>1. jobs = <<>> /\ jobs \in Seq(Job)
    BY DEF Init
  <2>2. AtWork = {} /\ Cardinality(AtWork) = 0
    BY <2>1, FS_EmptySet DEF AtWork
  <2>3. Rest
    <3>1. recipe \in [commands : Commands \cup {None}, proof : Proofs \cup {None}]
      <4>1. CASE story = "new"
        BY <4>1 DEF Init
      <4>2. CASE story # "new"
        <5>1. PICK c \in Needy : recipe = [commands |-> c, proof |-> [of |-> c, state |-> "ready"]]
          BY <4>2 DEF Init
        <5>2. c \in Commands /\ [of |-> c, state |-> "ready"] \in Proofs
          BY OnboardingAssumption DEF Proofs
        <5> HIDE DEF Proofs
        <5> QED BY <5>1, <5>2
      <4> QED BY <4>1, <4>2
    <3>2. /\ story \in {"new", "old"} /\ injects \in BOOLEAN
          /\ Bounds[story].approvals \in Nat /\ Bounds[story].drafts \in Nat
          /\ Bounds[story].changes \in Nat /\ MaxFaults \in Nat
      BY OnboardingAssumption DEF Init
    <3>3. /\ approvals \in 0..Bounds[story].approvals /\ drafts \in 0..Bounds[story].drafts
          /\ changes \in 0..Bounds[story].changes /\ faults \in 0..MaxFaults
      BY <3>2 DEF Init
    <3>4. /\ draft \in Documents \cup {None}
          /\ handlers \in [clear : Nat, prove : Nat, draft : Nat]
          /\ start \in [Requests -> {"idle", "looking", "clear", "over"}]
          /\ value \in BOOLEAN /\ key \in BOOLEAN
          /\ page \in [detail : Details \cup {None}, due : BOOLEAN]
          /\ seen \in [overtaken : BOOLEAN, late : BOOLEAN, overlaps : SUBSET SUBSET Requests,
                       booted : SUBSET [needs : BOOLEAN, held : BOOLEAN]]
      BY DEF Init
    <3> QED BY <3>1, <3>2, <3>3, <3>4 DEF Rest
  <2> QED BY <2>1, <2>2, <2>3, Parts, OnboardingAssumption
<1> QED BY <1>1, TypeStep, PTL DEF Spec
-----------------------------------------------------------------------------
(***************************************************************************)
(* What is common to the proofs that follow: an approval's history, the    *)
(* steps that touch nothing the properties read, and how rows change.      *)
(***************************************************************************)
LEMMA RowsChange ==
  ASSUME TypeOK, [Next]_vars
  PROVE  \/ UNCHANGED jobs
         \/ \E kind \in {"draft", "prove", "run"}, request \in Requests \cup {None} : Adds(kind, request)
         \/ \E n \in DOMAIN jobs : MovesOn(n)
<1>0. Rest
  BY Parts
<1>1. CASE Open \/ Reload \/ Poll
  BY <1>0, <1>1, RestOfPage
<1>2. CASE AskForDraft \/ ChangeValue \/ ChangeKey \/ \E c \in Documents : Approve(c)
  BY <1>0, <1>2, RestOfPeople
<1>3. CASE ClearDraft \/ QueueDraft \/ QueueProve \/ QueueingFails
  BY <1>0, <1>3, RestOfHandlers
<1>4. ASSUME NEW r \in Requests, CheckStart(r) \/ LookForOpen(r) \/ QueueRun(r) \/ StartFails(r)
      PROVE  UNCHANGED jobs \/ \E kind \in {"draft", "prove", "run"}, request \in Requests \cup {None} : Adds(kind, request)
  BY <1>0, <1>4, RestOfStart
<1>5. ASSUME NEW n \in DOMAIN jobs,
             \/ Claim(n) \/ Prove(n) \/ FetchValues(n) \/ Run(n) \/ Finish(n)
             \/ WorkFails(n) \/ Ages(n) \/ \E d \in Outcomes : Draft(n, d)
      PROVE  MovesOn(n)
  BY <1>5, ClaimMoves, FetchMoves, TellMoves, AgeMoves
<1>6. CASE UNCHANGED vars
  BY <1>6 DEF vars
<1> QED BY <1>1, <1>2, <1>3, <1>4, <1>5, <1>6 DEF Next, Handlers, Worker

LEMMA Approval ==
  ASSUME TypeOK, NEW c \in Documents, Approve(c)
  PROVE  /\ UNCHANGED <<injects, draft, jobs, start>>
         /\ \/ UNCHANGED <<recipe, handlers, seen>>
            \/ /\ recipe' = [commands |-> c, proof |-> None]
               /\ handlers' = [handlers EXCEPT !.clear = @ + 1]
               /\ seen'.booted = seen.booted /\ seen'.overlaps = seen.overlaps
               /\ ~seen'.late => ~seen.late /\ Unfinished("draft") = {} /\ handlers.draft = 0
               /\ ~seen'.overtaken =>
                    \A n \in DOMAIN jobs : ~(jobs[n].kind = "prove" /\ jobs[n].stage = "working")
<1>1. UNCHANGED <<injects, draft, jobs, start>>
  BY DEF Approve, Routed
<1>2. CASE ~Parses(c)
  BY <1>1, <1>2 DEF Approve
<1>3. CASE Parses(c)
  <2>. DEFINE o == seen.overtaken \/ \E n \in AtWork : jobs[n].kind = "prove" /\ jobs[n].stage = "working"
              l == seen.late \/ Unfinished("draft") # {} \/ handlers.draft > 0
  <2>1. seen' = [seen EXCEPT !.overtaken = o, !.late = l]
    BY <1>3 DEF Approve
  <2>2. /\ recipe' = [commands |-> c, proof |-> None]
        /\ handlers' = [handlers EXCEPT !.clear = @ + 1]
    BY <1>3 DEF Approve, SaveRecipe
  <2>3. ~l => ~seen.late /\ Unfinished("draft") = {} /\ handlers.draft = 0
    BY DEF TypeOK
  <2>4. ~o => \A n \in DOMAIN jobs : ~(jobs[n].kind = "prove" /\ jobs[n].stage = "working")
    BY DEF AtWork
  <2>5. o \in BOOLEAN /\ l \in BOOLEAN
    OBVIOUS
  <2> HIDE DEF o, l
  <2>6. seen'.overtaken = o /\ seen'.late = l /\ seen'.booted = seen.booted /\ seen'.overlaps = seen.overlaps
    BY <2>1 DEF TypeOK
  <2> QED BY <1>1, <2>2, <2>3, <2>4, <2>6
<1> QED BY <1>2, <1>3

\* Nothing a property below reads is touched.
Idle == UNCHANGED <<injects, recipe, draft, handlers, jobs, start, seen>>

LEMMA IdleSteps ==
  ASSUME Open \/ Reload \/ Poll \/ ChangeValue \/ ChangeKey \/ UNCHANGED vars
  PROVE  Idle
BY DEF Open, Reload, Poll, Draw, ChangeValue, ChangeKey, Settings, vars, Idle

\* What starting, asking and the handlers leave alone.
LEMMA Frames ==
  ASSUME TypeOK
  PROVE  /\ AskForDraft => UNCHANGED <<injects, recipe, draft, jobs, start, seen>>
         /\ ClearDraft => /\ UNCHANGED <<injects, recipe, jobs, start>>
                          /\ seen'.overtaken = seen.overtaken /\ seen'.overlaps = seen.overlaps
                          /\ seen'.booted = seen.booted
                          /\ draft' = None \/ seen'.late
                          /\ ~seen'.late => ~seen.late
         /\ QueueDraft \/ QueueProve \/ QueueingFails => UNCHANGED <<injects, recipe, draft, start, seen>>
         /\ \A r \in Requests : CheckStart(r) \/ LookForOpen(r) \/ QueueRun(r) \/ StartFails(r) =>
              /\ UNCHANGED <<injects, recipe, draft, handlers>>
              /\ seen'.overtaken = seen.overtaken /\ seen'.late = seen.late /\ seen'.booted = seen.booted
<1>1. AskForDraft => UNCHANGED <<injects, recipe, draft, jobs, start, seen>>
  BY DEF AskForDraft, Routed
<1>2. ASSUME ClearDraft
      PROVE  /\ UNCHANGED <<injects, recipe, jobs, start>>
             /\ seen'.overtaken = seen.overtaken /\ seen'.overlaps = seen.overlaps
             /\ seen'.booted = seen.booted
             /\ draft' = None \/ seen'.late
             /\ ~seen'.late => ~seen.late
  <2>1. UNCHANGED <<injects, recipe, jobs, start>>
    BY <1>2 DEF ClearDraft, Routed
  <2>2. (draft' = None /\ seen' = seen) \/ seen' = [seen EXCEPT !.late = TRUE]
    BY <1>2 DEF ClearDraft
  <2> QED BY <2>1, <2>2 DEF TypeOK
<1>3. QueueDraft \/ QueueProve \/ QueueingFails => UNCHANGED <<injects, recipe, draft, start, seen>>
  BY DEF QueueDraft, QueueProve, QueueingFails, Queued, Routed
<1>4. ASSUME NEW r \in Requests, CheckStart(r) \/ LookForOpen(r) \/ QueueRun(r) \/ StartFails(r)
      PROVE  /\ UNCHANGED <<injects, recipe, draft, handlers>>
             /\ seen'.overtaken = seen.overtaken /\ seen'.late = seen.late /\ seen'.booted = seen.booted
  <2>1. UNCHANGED <<injects, recipe, draft, handlers>>
    BY <1>4 DEF CheckStart, LookForOpen, QueueRun, StartFails, Starting
  <2>2. seen' = seen \/ \E more : seen' = [seen EXCEPT !.overlaps = @ \cup more]
    BY <1>4 DEF CheckStart, LookForOpen, QueueRun, StartFails
  <2> QED BY <2>1, <2>2 DEF TypeOK
<1> QED BY <1>1, <1>2, <1>3, <1>4

\* What the workers leave alone.
LEMMA WorkFrames ==
  ASSUME TypeOK, NEW n \in DOMAIN jobs,
         \/ Claim(n) \/ Prove(n) \/ FetchValues(n) \/ Run(n) \/ Finish(n)
         \/ WorkFails(n) \/ Ages(n) \/ \E d \in Outcomes : Draft(n, d)
  PROVE  /\ UNCHANGED <<injects, handlers, start>> /\ MovesOn(n)
         /\ ~Prove(n) => UNCHANGED recipe
         /\ (\A d \in Outcomes : ~Draft(n, d)) => UNCHANGED draft
         /\ ~Run(n) => UNCHANGED seen
         /\ seen'.overtaken = seen.overtaken /\ seen'.late = seen.late /\ seen'.overlaps = seen.overlaps
         /\ recipe'.commands = recipe.commands
<1>1. UNCHANGED <<injects, handlers, start>> /\ MovesOn(n)
  BY ClaimMoves, FetchMoves, TellMoves, AgeMoves
<1>2. ~Prove(n) => UNCHANGED recipe
  BY DEF Claim, Take, FetchValues, Run, Finish, WorkFails, Ages, Draft
<1>3. (\A d \in Outcomes : ~Draft(n, d)) => UNCHANGED draft
  BY DEF Claim, Take, Prove, FetchValues, Run, Finish, WorkFails, Ages
<1>4. ~Run(n) => UNCHANGED seen
  BY DEF Claim, Take, Prove, FetchValues, Finish, WorkFails, Ages, Draft
<1>5. seen'.overtaken = seen.overtaken /\ seen'.late = seen.late /\ seen'.overlaps = seen.overlaps
  <2>1. seen' = seen \/ \E b : seen' = [seen EXCEPT !.booted = b]
    BY <1>4 DEF Run
  <2> QED BY <2>1 DEF TypeOK
<1>6. recipe'.commands = recipe.commands
  <2>1. recipe' = recipe \/ \E p : recipe' = [recipe EXCEPT !.proof = p]
    BY <1>2 DEF Prove, SaveProof
  <2> QED BY <2>1 DEF TypeOK
<1> QED BY <1>1, <1>2, <1>3, <1>4, <1>5, <1>6
-----------------------------------------------------------------------------
(***************************************************************************)
(* Values.                                                                 *)
(***************************************************************************)
\* No job holds a value where the deployment hands none out.
HeldIsHanded == \A n \in DOMAIN jobs : jobs[n].held => injects

BootInv == TypeOK /\ HeldIsHanded /\ NothingBootsHalfConfigured

LEMMA HeldStep == ASSUME BootInv, [Next]_vars PROVE HeldIsHanded'
<1>0. TypeOK /\ HeldIsHanded /\ jobs \in Seq(Job)
  BY JobsTyped DEF BootInv
<1>1. ASSUME UNCHANGED injects, UNCHANGED jobs PROVE HeldIsHanded'
  BY <1>0, <1>1 DEF HeldIsHanded
<1>2. ASSUME UNCHANGED injects, NEW kind \in {"draft", "prove", "run"},
             NEW request \in Requests \cup {None}, Adds(kind, request)
      PROVE  HeldIsHanded'
  <2>1. ~Work(kind, request).held
    BY DEF Work
  <2> QED BY <1>0, <1>2, <2>1, RowsAdded DEF HeldIsHanded
<1>3. ASSUME UNCHANGED injects, NEW n \in DOMAIN jobs, MovesOn(n), jobs'[n].held => injects
      PROVE  HeldIsHanded'
  BY <1>0, <1>3, RowMoved DEF HeldIsHanded
<1>4. CASE Open \/ Reload \/ Poll \/ ChangeValue \/ ChangeKey \/ UNCHANGED vars
  BY <1>1, <1>4, IdleSteps DEF Idle
<1>5. CASE AskForDraft \/ ClearDraft \/ \E c \in Documents : Approve(c)
  BY <1>0, <1>1, <1>5, Frames, Approval
<1>6. CASE QueueDraft \/ QueueProve \/ QueueingFails
  <2>1. UNCHANGED jobs \/ \E kind \in {"draft", "prove"} : Adds(kind, None)
    BY <1>0, <1>6, Parts, RestOfHandlers
  <2> QED BY <1>0, <1>1, <1>2, <1>6, <2>1, Frames
<1>7. ASSUME NEW r \in Requests, CheckStart(r) \/ LookForOpen(r) \/ QueueRun(r) \/ StartFails(r)
      PROVE  HeldIsHanded'
  <2>1. UNCHANGED jobs \/ Adds("run", r)
    BY <1>0, <1>7, Parts, RestOfStart
  <2> QED BY <1>0, <1>1, <1>2, <1>7, <2>1, Frames
<1>8. ASSUME NEW n \in DOMAIN jobs,
             \/ Claim(n) \/ Prove(n) \/ FetchValues(n) \/ Run(n) \/ Finish(n)
             \/ WorkFails(n) \/ Ages(n) \/ \E d \in Outcomes : Draft(n, d)
      PROVE  HeldIsHanded'
  <2>1. MovesOn(n) /\ UNCHANGED injects
    BY <1>0, <1>8, WorkFrames
  <2>2. jobs'[n].held = jobs[n].held \/ (jobs'[n].held => injects)
    BY <1>0, <1>8, ClaimMoves, FetchMoves, TellMoves, AgeMoves
  <2>3. jobs'[n].held => injects
    BY <1>0, <2>2 DEF HeldIsHanded
  <2> QED BY <1>3, <2>1, <2>3
<1> QED BY <1>4, <1>5, <1>6, <1>7, <1>8 DEF Next, Handlers, Worker

LEMMA BootStep == ASSUME BootInv, [Next]_vars PROVE NothingBootsHalfConfigured'
<1>0. TypeOK /\ HeldIsHanded /\ NothingBootsHalfConfigured
  BY DEF BootInv
<1>1. ASSUME seen'.booted = seen.booted PROVE NothingBootsHalfConfigured'
  BY <1>0, <1>1 DEF NothingBootsHalfConfigured
<1>4. CASE Open \/ Reload \/ Poll \/ ChangeValue \/ ChangeKey \/ UNCHANGED vars
  BY <1>1, <1>4, IdleSteps DEF Idle
<1>5. CASE AskForDraft \/ ClearDraft \/ \E c \in Documents : Approve(c)
  BY <1>0, <1>1, <1>5, Frames, Approval
<1>6. CASE QueueDraft \/ QueueProve \/ QueueingFails
  BY <1>0, <1>1, <1>6, Frames
<1>7. ASSUME NEW r \in Requests, CheckStart(r) \/ LookForOpen(r) \/ QueueRun(r) \/ StartFails(r)
      PROVE  NothingBootsHalfConfigured'
  BY <1>0, <1>1, <1>7, Frames
<1>8. ASSUME NEW n \in DOMAIN jobs, ~Run(n),
             \/ Claim(n) \/ Prove(n) \/ FetchValues(n) \/ Run(n) \/ Finish(n)
             \/ WorkFails(n) \/ Ages(n) \/ \E d \in Outcomes : Draft(n, d)
      PROVE  NothingBootsHalfConfigured'
  BY <1>0, <1>1, <1>8, WorkFrames
<1>9. ASSUME NEW n \in DOMAIN jobs, Run(n) PROVE NothingBootsHalfConfigured'
  <2>1. CASE MissingRequired(n)
    BY <1>1, <1>9, <2>1 DEF Run
  <2>2. CASE ~MissingRequired(n)
    <3>. DEFINE a == jobs[n].commands \in Needy
                b == injects /\ jobs[n].held
    <3>1. a => b
      BY <1>0, <2>2 DEF MissingRequired, HeldIsHanded
    <3>2. seen' = [seen EXCEPT !.booted = @ \cup {[needs |-> a, held |-> b]}]
      BY <1>9, <2>2 DEF Run
    <3> HIDE DEF a, b
    <3>3. seen'.booted = seen.booted \cup {[needs |-> a, held |-> b]}
      BY <1>0, <3>2 DEF TypeOK
    <3>4. [needs |-> a, held |-> b].needs => [needs |-> a, held |-> b].held
      BY <3>1
    <3> QED BY <1>0, <3>3, <3>4 DEF NothingBootsHalfConfigured
  <2> QED BY <2>1, <2>2
<1> QED BY <1>4, <1>5, <1>6, <1>7, <1>8, <1>9 DEF Next, Handlers, Worker

(* No run whose recipe requires a value boots without the value itself, on a deployment that
   hands values out or not, and whatever is stored, removed or approved meanwhile. *)
THEOREM NeverHalfConfigured == Spec => []NothingBootsHalfConfigured
<1>1. Init => HeldIsHanded /\ NothingBootsHalfConfigured
  BY DEF Init, HeldIsHanded, NothingBootsHalfConfigured
<1>2. TypeOK /\ HeldIsHanded /\ NothingBootsHalfConfigured /\ [Next]_vars
      => (HeldIsHanded /\ NothingBootsHalfConfigured)'
  BY HeldStep, BootStep DEF BootInv
<1> QED BY <1>1, <1>2, TypeCorrect, PTL DEF Spec
-----------------------------------------------------------------------------
(***************************************************************************)
(* Starting runs of one issue.                                             *)
(***************************************************************************)
\* Two requests that both found nothing looked while the other had not inserted.
BothClear ==
  \A r, q \in Requests : r # q /\ start[r] = "clear" /\ start[q] = "clear" => {r, q} \in seen.overlaps

\* So did a request that found nothing and one whose run is there by now.
ClearBesideARun ==
  \A r \in Requests : \A n \in OpenJobFor : start[r] = "clear" => {r, jobs[n].request} \in seen.overlaps

StartInv == TypeOK /\ BothClear /\ ClearBesideARun /\ OnlyOverlappingStartsDouble

\* Rows that do not become young, unfinished runs leave the three alone.
LEMMA StartKeeps ==
  ASSUME StartInv, seen'.overlaps = seen.overlaps,
         \A r \in Requests : start'[r] = "clear" => start[r] = "clear",
         \A n \in OpenJobFor' : n \in OpenJobFor /\ jobs'[n].request = jobs[n].request
  PROVE  (BothClear /\ ClearBesideARun /\ OnlyOverlappingStartsDouble)'
<1>0. OnlyOverlappingStartsDouble <=>
        \A n, m \in OpenJobFor : n # m => {jobs[n].request, jobs[m].request} \in seen.overlaps
  BY DEF OnlyOverlappingStartsDouble, OpenJobFor
<1>1. OnlyOverlappingStartsDouble' <=>
        \A n, m \in OpenJobFor' : n # m => {jobs'[n].request, jobs'[m].request} \in seen'.overlaps
  BY DEF OnlyOverlappingStartsDouble, OpenJobFor
<1> QED BY <1>0, <1>1 DEF StartInv, BothClear, ClearBesideARun

LEMMA OpenRowMoved ==
  ASSUME jobs \in Seq(Job), NEW n \in DOMAIN jobs, MovesOn(n)
  PROVE  \A m \in OpenJobFor' : m \in OpenJobFor /\ jobs'[m].request = jobs[m].request
BY RowMoved DEF OpenJobFor, Unfinished, MovesOn

LEMMA OpenRowAdded ==
  ASSUME jobs \in Seq(Job), NEW kind \in {"draft", "prove", "run"},
         NEW request \in Requests \cup {None}, Adds(kind, request)
  PROVE  \A m \in OpenJobFor' :
           \/ m \in OpenJobFor /\ jobs'[m].request = jobs[m].request
           \/ kind = "run" /\ jobs'[m].request = request /\ m = Len(jobs) + 1
<1>. TAKE m \in OpenJobFor'
<1>0. m \in DOMAIN jobs' /\ jobs'[m].kind = "run" /\ jobs'[m].stage # "over" /\ jobs'[m].young
  BY DEF OpenJobFor, Unfinished
<1>1. CASE m \in DOMAIN jobs
  BY <1>0, <1>1, RowsAdded DEF OpenJobFor, Unfinished
<1>2. CASE m = Len(jobs) + 1
  <2>1. jobs'[m] = Work(kind, request)
    BY <1>2, RowsAdded
  <2>2. Work(kind, request).kind = kind /\ Work(kind, request).request = request
    BY DEF Work
  <2> QED BY <1>0, <1>2, <2>1, <2>2
<1> QED BY <1>0, <1>1, <1>2, RowsAdded

LEMMA StartStep ==
  ASSUME StartInv, [Next]_vars
  PROVE  (BothClear /\ ClearBesideARun /\ OnlyOverlappingStartsDouble)'
<1>. DEFINE Good == (BothClear /\ ClearBesideARun /\ OnlyOverlappingStartsDouble)'
<1>0. TypeOK /\ jobs \in Seq(Job)
  BY JobsTyped DEF StartInv
<1>1. ASSUME seen'.overlaps = seen.overlaps, UNCHANGED <<start, jobs>> PROVE Good
  <2>1. OpenJobFor' = OpenJobFor
    BY <1>1 DEF OpenJobFor, Unfinished
  <2> QED BY <1>1, <2>1, StartKeeps
<1>4. CASE Open \/ Reload \/ Poll \/ ChangeValue \/ ChangeKey \/ UNCHANGED vars
  BY <1>1, <1>4, IdleSteps DEF Idle
<1>5. CASE AskForDraft \/ ClearDraft \/ \E c \in Documents : Approve(c)
  BY <1>0, <1>1, <1>5, Frames, Approval
<1>6. CASE QueueDraft \/ QueueProve \/ QueueingFails
  <2>1. UNCHANGED <<start, seen>>
    BY <1>0, <1>6, Frames
  <2>2. UNCHANGED jobs \/ \E kind \in {"draft", "prove"} : Adds(kind, None)
    BY <1>0, <1>6, Parts, RestOfHandlers
  <2>3. CASE UNCHANGED jobs
    BY <1>1, <2>1, <2>3
  <2>4. ASSUME NEW kind \in {"draft", "prove"}, Adds(kind, None) PROVE Good
    BY <1>0, <2>1, <2>4, OpenRowAdded, StartKeeps
  <2> QED BY <2>2, <2>3, <2>4
<1>7. ASSUME NEW r \in Requests, CheckStart(r) \/ StartFails(r) PROVE Good
  <2>1. UNCHANGED <<jobs, seen>>
    BY <1>7 DEF CheckStart, StartFails
  <2>2. \A q \in Requests : start'[q] = "clear" => start[q] = "clear"
    BY <1>0, <1>7 DEF CheckStart, StartFails, Starting, TypeOK
  <2>3. OpenJobFor' = OpenJobFor
    BY <2>1 DEF OpenJobFor, Unfinished
  <2> QED BY <2>1, <2>2, <2>3, StartKeeps
<1>8. ASSUME NEW r \in Requests, LookForOpen(r) PROVE Good
  <2>1. CASE OpenJobFor # {}
    <3>1. UNCHANGED <<jobs, seen>>
      BY <1>8, <2>1 DEF LookForOpen
    <3>2. \A q \in Requests : start'[q] = "clear" => start[q] = "clear"
      BY <1>0, <1>8, <2>1 DEF LookForOpen, Starting, TypeOK
    <3>3. OpenJobFor' = OpenJobFor
      BY <3>1 DEF OpenJobFor, Unfinished
    <3> QED BY <3>1, <3>2, <3>3, StartKeeps
  <2>2. CASE OpenJobFor = {}
    <3>. DEFINE more == {{r, q} : q \in {q \in Requests : start[q] = "clear"}}
    <3>1. UNCHANGED jobs /\ start' = [start EXCEPT ![r] = "clear"]
      BY <1>8, <2>2 DEF LookForOpen, Starting
    <3>2. seen' = [seen EXCEPT !.overlaps = @ \cup more]
      BY <1>8, <2>2 DEF LookForOpen
    <3>3. \A q \in Requests : start[q] = "clear" => {r, q} \in more /\ {q, r} \in more
      <4>1. \A q : {q, r} = {r, q}
        OBVIOUS
      <4>2. \A q \in Requests : start[q] = "clear" => {r, q} \in more
        OBVIOUS
      <4> QED BY <4>1, <4>2
    <3> HIDE DEF more
    <3>4. seen'.overlaps = seen.overlaps \cup more
      BY <1>0, <3>2 DEF TypeOK
    <3>5. OpenJobFor' = {}
      BY <2>2, <3>1 DEF OpenJobFor, Unfinished
    <3>6. BothClear'
      <4>1. \A q \in Requests : q # r => start'[q] = start[q]
        BY <1>0, <3>1 DEF TypeOK
      <4> QED BY <3>3, <3>4, <4>1 DEF BothClear, StartInv
    <3>7. ClearBesideARun'
      BY <3>5 DEF ClearBesideARun
    <3>8. OnlyOverlappingStartsDouble'
      BY <3>5 DEF OnlyOverlappingStartsDouble, OpenJobFor
    <3> QED BY <3>6, <3>7, <3>8
  <2> QED BY <2>1, <2>2
<1>9. ASSUME NEW r \in Requests, QueueRun(r) PROVE Good
  <2>1. /\ UNCHANGED seen /\ start[r] = "clear" /\ start' = [start EXCEPT ![r] = "over"]
        /\ Adds("run", r)
    BY <1>9 DEF QueueRun, Starting, Adds
  <2>2. \A q \in Requests : start'[q] = "clear" => start[q] = "clear" /\ q # r
    BY <1>0, <2>1 DEF TypeOK
  <2>3. \A m \in OpenJobFor' :
          \/ m \in OpenJobFor /\ jobs'[m].request = jobs[m].request
          \/ jobs'[m].request = r /\ m = Len(jobs) + 1
    BY <1>0, <2>1, OpenRowAdded
  <2>4. BothClear'
    BY <2>1, <2>2 DEF BothClear, StartInv
  <2>5. ClearBesideARun'
    BY <2>1, <2>2, <2>3 DEF ClearBesideARun, BothClear, StartInv
  <2>6. \A n, m \in OpenJobFor' : n # m => {jobs'[n].request, jobs'[m].request} \in seen'.overlaps
    <3>. TAKE n, m \in OpenJobFor'
    <3>. HAVE n # m
    <3>1. \A q : {q, r} = {r, q}
      OBVIOUS
    <3>2. \A k \in OpenJobFor : {r, jobs[k].request} \in seen.overlaps
      BY <2>1 DEF ClearBesideARun, StartInv
    <3>3. CASE n \in OpenJobFor /\ jobs'[n].request = jobs[n].request
      <4>1. CASE m \in OpenJobFor /\ jobs'[m].request = jobs[m].request
        BY <2>1, <3>3, <4>1 DEF OnlyOverlappingStartsDouble, OpenJobFor, StartInv
      <4>2. CASE jobs'[m].request = r
        BY <2>1, <3>1, <3>2, <3>3, <4>2
      <4> QED BY <2>3, <4>1, <4>2
    <3>4. CASE jobs'[n].request = r /\ n = Len(jobs) + 1
      <4>1. m \in OpenJobFor /\ jobs'[m].request = jobs[m].request
        BY <2>3, <3>4
      <4> QED BY <2>1, <3>2, <3>4, <4>1
    <3> QED BY <2>3, <3>3, <3>4
  <2>7. OnlyOverlappingStartsDouble'
    BY <2>6 DEF OnlyOverlappingStartsDouble, OpenJobFor
  <2> QED BY <2>4, <2>5, <2>7
<1>10. ASSUME NEW n \in DOMAIN jobs,
              \/ Claim(n) \/ Prove(n) \/ FetchValues(n) \/ Run(n) \/ Finish(n)
              \/ WorkFails(n) \/ Ages(n) \/ \E d \in Outcomes : Draft(n, d)
       PROVE  Good
  <2>1. MovesOn(n) /\ UNCHANGED start /\ seen'.overlaps = seen.overlaps
    BY <1>0, <1>10, WorkFrames
  <2>2. \A m \in OpenJobFor' : m \in OpenJobFor /\ jobs'[m].request = jobs[m].request
    BY <1>0, <2>1, OpenRowMoved
  <2> QED BY <2>1, <2>2, StartKeeps
<1>11. ASSUME NEW r \in Requests, CheckStart(r) \/ LookForOpen(r) \/ QueueRun(r) \/ StartFails(r)
       PROVE  Good
  BY <1>7, <1>8, <1>9, <1>11
<1> QED BY <1>4, <1>5, <1>6, <1>10, <1>11 DEF Next, Handlers, Worker

(* Two young, unfinished runs of one issue were asked for by requests that had both looked for
   an open one before either had queued its own: the check the route makes is no constraint,
   and this is the only way around it. *)
THEOREM OnlyARaceDoubles == Spec => []OnlyOverlappingStartsDouble
<1>1. Init => BothClear /\ ClearBesideARun /\ OnlyOverlappingStartsDouble
  BY DEF Init, BothClear, ClearBesideARun, OnlyOverlappingStartsDouble, OpenJobFor, Unfinished
<1>2. TypeOK /\ BothClear /\ ClearBesideARun /\ OnlyOverlappingStartsDouble /\ [Next]_vars
      => (BothClear /\ ClearBesideARun /\ OnlyOverlappingStartsDouble)'
  BY StartStep DEF StartInv
<1> QED BY <1>1, <1>2, TypeCorrect, PTL DEF Spec
-----------------------------------------------------------------------------
(***************************************************************************)
(* Proofs and proposals.                                                   *)
(***************************************************************************)
\* Until an approval overtakes one, a proof being made is of the commands approved now.
WorkIsCurrent ==
  ~seen.overtaken =>
    \A n \in DOMAIN jobs : jobs[n].kind = "prove" /\ jobs[n].stage = "working" =>
                             jobs[n].commands = recipe.commands

ProofInv == TypeOK /\ WorkIsCurrent /\ ProofIsOfTheCommands

LEMMA ProofStep == ASSUME ProofInv, [Next]_vars PROVE (WorkIsCurrent /\ ProofIsOfTheCommands)'
<1>0. /\ TypeOK /\ WorkIsCurrent /\ ProofIsOfTheCommands /\ jobs \in Seq(Job)
      /\ None \notin Commands
  BY JobsTyped, OnboardingAssumption DEF ProofInv
<1>1. ASSUME UNCHANGED recipe, seen'.overtaken = seen.overtaken, UNCHANGED jobs
      PROVE  (WorkIsCurrent /\ ProofIsOfTheCommands)'
  BY <1>0, <1>1 DEF WorkIsCurrent, ProofIsOfTheCommands
<1>2. ASSUME UNCHANGED recipe, seen'.overtaken = seen.overtaken,
             NEW kind \in {"draft", "prove", "run"}, NEW request \in Requests \cup {None},
             Adds(kind, request)
      PROVE  (WorkIsCurrent /\ ProofIsOfTheCommands)'
  <2>1. Work(kind, request).stage = "open"
    BY DEF Work
  <2>2. WorkIsCurrent'
    BY <1>0, <1>2, <2>1, RowsAdded DEF WorkIsCurrent
  <2> QED BY <1>0, <1>2, <2>2 DEF ProofIsOfTheCommands
<1>3. ASSUME recipe'.commands = recipe.commands, seen'.overtaken = seen.overtaken,
             NEW n \in DOMAIN jobs, MovesOn(n),
             jobs'[n].stage = "working" =>
               jobs'[n].commands = recipe.commands \/
               (jobs'[n].commands = jobs[n].commands /\ jobs[n].stage = "working")
      PROVE  WorkIsCurrent'
  <2>1. jobs'[n].kind = jobs[n].kind
    BY <1>3 DEF MovesOn
  <2> QED BY <1>0, <1>3, <2>1, RowMoved DEF WorkIsCurrent
<1>4. CASE Open \/ Reload \/ Poll \/ ChangeValue \/ ChangeKey \/ UNCHANGED vars
  BY <1>1, <1>4, IdleSteps DEF Idle
<1>5. CASE AskForDraft \/ ClearDraft
  BY <1>0, <1>1, <1>5, Frames
<1>6. ASSUME NEW c \in Documents, Approve(c) PROVE (WorkIsCurrent /\ ProofIsOfTheCommands)'
  <2>1. CASE UNCHANGED <<recipe, handlers, seen>>
    BY <1>0, <1>1, <1>6, <2>1, Approval
  <2>2. CASE /\ recipe' = [commands |-> c, proof |-> None] /\ UNCHANGED jobs
             /\ ~seen'.overtaken =>
                  \A n \in DOMAIN jobs : ~(jobs[n].kind = "prove" /\ jobs[n].stage = "working")
    BY <2>2 DEF WorkIsCurrent, ProofIsOfTheCommands
  <2> QED BY <1>0, <1>6, <2>1, <2>2, Approval
<1>7. CASE QueueDraft \/ QueueProve \/ QueueingFails
  <2>1. UNCHANGED jobs \/ \E kind \in {"draft", "prove"} : Adds(kind, None)
    BY <1>0, <1>7, Parts, RestOfHandlers
  <2> QED BY <1>0, <1>1, <1>2, <1>7, <2>1, Frames
<1>8. ASSUME NEW r \in Requests, CheckStart(r) \/ LookForOpen(r) \/ QueueRun(r) \/ StartFails(r)
      PROVE  (WorkIsCurrent /\ ProofIsOfTheCommands)'
  <2>1. UNCHANGED jobs \/ Adds("run", r)
    BY <1>0, <1>8, Parts, RestOfStart
  <2> QED BY <1>0, <1>1, <1>2, <1>8, <2>1, Frames
<1>9. ASSUME NEW n \in DOMAIN jobs,
             \/ Claim(n) \/ Prove(n) \/ FetchValues(n) \/ Run(n) \/ Finish(n)
             \/ WorkFails(n) \/ Ages(n) \/ \E d \in Outcomes : Draft(n, d)
      PROVE  (WorkIsCurrent /\ ProofIsOfTheCommands)'
  <2>1. /\ MovesOn(n) /\ recipe'.commands = recipe.commands /\ seen'.overtaken = seen.overtaken
        /\ ~Prove(n) => UNCHANGED recipe
    BY <1>0, <1>9, WorkFrames
  <2>2. jobs'[n].stage = "working" =>
          jobs'[n].commands = recipe.commands \/
          (jobs'[n].commands = jobs[n].commands /\ jobs[n].stage = "working")
    BY <1>0, <1>9, ClaimMoves, FetchMoves, TellMoves, AgeMoves
  <2>3. WorkIsCurrent'
    BY <1>3, <2>1, <2>2
  <2>4. CASE UNCHANGED recipe
    BY <1>0, <2>1, <2>3, <2>4 DEF ProofIsOfTheCommands
  <2>5. CASE Prove(n) /\ ~UNCHANGED recipe
    <3>1. jobs[n].kind = "prove" /\ jobs[n].stage = "working" /\ jobs[n].commands # None
      BY <2>5 DEF Prove, Working
    <3>2. PICK proof \in ProofsOf(jobs[n].commands) : recipe' = [recipe EXCEPT !.proof = proof]
      BY <2>5, <3>1 DEF Prove, SaveProof
    <3>3. proof.of = jobs[n].commands
      BY <3>2 DEF ProofsOf
    <3>4. recipe'.proof = proof
      BY <1>0, <3>2 DEF TypeOK
    <3>5. ~seen.overtaken => jobs[n].commands = recipe.commands
      BY <1>0, <3>1 DEF WorkIsCurrent
    <3> QED BY <2>1, <2>3, <3>3, <3>4, <3>5 DEF ProofIsOfTheCommands
  <2> QED BY <2>1, <2>4, <2>5
<1> QED BY <1>4, <1>5, <1>6, <1>7, <1>8, <1>9 DEF Next, Handlers, Worker

(* The proof stored with approved commands is of those commands, as long as no approval came
   while a proof was being made. *)
THEOREM ProofsMatch == Spec => []ProofIsOfTheCommands
<1>1. Init => WorkIsCurrent /\ ProofIsOfTheCommands
  <2>. SUFFICES ASSUME Init PROVE WorkIsCurrent /\ ProofIsOfTheCommands
    OBVIOUS
  <2>1. WorkIsCurrent
    BY DEF Init, WorkIsCurrent
  <2>2. recipe.proof = None \/ recipe.proof.of = recipe.commands
    <3>1. CASE story = "new"
      BY <3>1 DEF Init
    <3>2. CASE story # "new"
      <4>1. PICK c \in Needy : recipe = [commands |-> c, proof |-> [of |-> c, state |-> "ready"]]
        BY <3>2 DEF Init
      <4> QED BY <4>1
    <3> QED BY <3>1, <3>2
  <2> QED BY <2>1, <2>2 DEF ProofIsOfTheCommands
<1>2. TypeOK /\ WorkIsCurrent /\ ProofIsOfTheCommands /\ [Next]_vars
      => (WorkIsCurrent /\ ProofIsOfTheCommands)'
  BY ProofStep DEF ProofInv
<1> QED BY <1>1, <1>2, TypeCorrect, PTL DEF Spec

\* Beside approved commands nothing proposes any more: no handler is about to ask, no job is
\* under way, and what was proposed is gone or about to go.
NothingProposes ==
  Onboarded /\ ~seen.late => /\ handlers.clear > 0 \/ draft = None
                             /\ Unfinished("draft") = {} /\ handlers.draft = 0

LEMMA DraftRows ==
  ASSUME TypeOK, Unfinished("draft") = {},
         \/ UNCHANGED jobs
         \/ \E kind \in {"prove", "run"}, request \in Requests \cup {None} : Adds(kind, request)
         \/ \E n \in DOMAIN jobs : MovesOn(n)
  PROVE  Unfinished("draft")' = {}
<1>0. jobs \in Seq(Job)
  BY JobsTyped
<1>1. CASE UNCHANGED jobs
  BY <1>1 DEF Unfinished
<1>2. ASSUME NEW kind \in {"prove", "run"}, NEW request \in Requests \cup {None}, Adds(kind, request)
      PROVE  Unfinished("draft")' = {}
  <2>1. Work(kind, request).kind # "draft"
    BY DEF Work
  <2> QED BY <1>0, <1>2, <2>1, RowsAdded DEF Unfinished
<1>3. ASSUME NEW n \in DOMAIN jobs, MovesOn(n) PROVE Unfinished("draft")' = {}
  <2>1. jobs'[n].kind = jobs[n].kind /\ jobs[n].stage # "over"
    BY <1>3 DEF MovesOn
  <2> QED BY <1>0, <1>3, <2>1, RowMoved DEF Unfinished
<1> QED BY <1>1, <1>2, <1>3

LEMMA ProposalStep == ASSUME TypeOK, NothingProposes, [Next]_vars PROVE NothingProposes'
<1>. USE DEF Onboarded
<1>1. CASE Open \/ Reload \/ Poll \/ ChangeValue \/ ChangeKey \/ UNCHANGED vars
  <2>1. UNCHANGED <<recipe, draft, handlers, jobs, seen>>
    BY <1>1, IdleSteps DEF Idle
  <2> QED BY <2>1 DEF NothingProposes, Unfinished
<1>2. CASE AskForDraft
  <2>1. UNCHANGED <<recipe, draft, jobs, seen>> /\ (Onboarded => UNCHANGED handlers)
    BY <1>2 DEF AskForDraft
  <2> QED BY <2>1 DEF NothingProposes, Unfinished
<1>3. CASE ClearDraft
  <2>1. /\ UNCHANGED <<recipe, jobs>> /\ (draft' = None \/ seen'.late) /\ (~seen'.late => ~seen.late)
    BY <1>3, Frames
  <2>2. handlers'.draft = handlers.draft
    BY <1>3 DEF ClearDraft, TypeOK
  <2> QED BY <2>1, <2>2 DEF NothingProposes, Unfinished
<1>4. ASSUME NEW c \in Documents, Approve(c) PROVE NothingProposes'
  <2>1. UNCHANGED <<draft, jobs>>
    BY <1>4, Approval
  <2>2. CASE UNCHANGED <<recipe, handlers, seen>>
    BY <2>1, <2>2 DEF NothingProposes, Unfinished
  <2>3. CASE /\ handlers' = [handlers EXCEPT !.clear = @ + 1]
             /\ ~seen'.late => ~seen.late /\ Unfinished("draft") = {} /\ handlers.draft = 0
    <3>1. handlers.clear \in Nat /\ handlers'.clear = handlers.clear + 1 /\ handlers'.draft = handlers.draft
      BY <2>3 DEF TypeOK
    <3> QED BY <2>1, <2>3, <3>1 DEF NothingProposes, Unfinished
  <2> QED BY <1>4, <2>2, <2>3, Approval
<1>5. ASSUME NEW kind \in {"draft", "prove"}, Queued(kind),
             kind = "prove" => UNCHANGED jobs \/ Adds("prove", None)
      PROVE  NothingProposes'
  <2>1. /\ UNCHANGED <<recipe, draft, seen>> /\ handlers[kind] > 0
        /\ handlers' = [handlers EXCEPT ![kind] = @ - 1]
    BY <1>5 DEF Queued
  <2>2. CASE kind = "draft"
    <3>1. handlers.draft # 0
      BY <2>1, <2>2 DEF TypeOK
    <3> QED BY <2>1, <3>1 DEF NothingProposes
  <2>3. CASE kind = "prove"
    <3>1. handlers'.draft = handlers.draft /\ handlers'.clear = handlers.clear
      BY <2>1, <2>3 DEF TypeOK
    <3>2. Unfinished("draft") = {} => Unfinished("draft")' = {}
      BY <1>5, <2>3, DraftRows
    <3> QED BY <2>1, <3>1, <3>2 DEF NothingProposes
  <2> QED BY <2>2, <2>3
<1>6. CASE QueueDraft \/ QueueProve \/ QueueingFails
  BY <1>5, <1>6 DEF QueueDraft, QueueProve, QueueingFails, Adds
<1>7. ASSUME NEW r \in Requests, CheckStart(r) \/ LookForOpen(r) \/ QueueRun(r) \/ StartFails(r)
      PROVE  NothingProposes'
  <2>1. UNCHANGED <<recipe, draft, handlers>> /\ seen'.late = seen.late
    BY <1>7, Frames
  <2>2. UNCHANGED jobs \/ Adds("run", r)
    BY <1>7, Parts, RestOfStart
  <2>3. Unfinished("draft") = {} => Unfinished("draft")' = {}
    BY <2>2, DraftRows
  <2> QED BY <2>1, <2>3 DEF NothingProposes
<1>8. ASSUME NEW n \in DOMAIN jobs,
             \/ Claim(n) \/ Prove(n) \/ FetchValues(n) \/ Run(n) \/ Finish(n)
             \/ WorkFails(n) \/ Ages(n) \/ \E d \in Outcomes : Draft(n, d)
      PROVE  NothingProposes'
  <2>1. /\ MovesOn(n) /\ UNCHANGED handlers /\ recipe'.commands = recipe.commands /\ seen'.late = seen.late
        /\ (\A d \in Outcomes : ~Draft(n, d)) => UNCHANGED draft
    BY <1>8, WorkFrames
  <2>2. Unfinished("draft") = {} => Unfinished("draft")' = {}
    BY <2>1, DraftRows
  <2>3. Unfinished("draft") = {} => UNCHANGED draft
    BY <2>1 DEF Draft, Working, Unfinished
  <2> QED BY <2>1, <2>2, <2>3 DEF NothingProposes
<1> QED BY <1>1, <1>2, <1>3, <1>4, <1>6, <1>7, <1>8 DEF Next, Handlers, Worker

(* Once the approvals are answered no proposal stands beside approved commands, unless a
   session was proposing when they were approved, or removing the proposal failed. *)
THEOREM OneProposalAtMost == Spec => []NoSecondProposal
<1>1. Init => NothingProposes
  BY DEF Init, NothingProposes, Unfinished
<1>2. TypeOK /\ NothingProposes /\ [Next]_vars => NothingProposes'
  BY ProposalStep
<1>3. TypeOK /\ NothingProposes => NoSecondProposal
  BY DEF TypeOK, NothingProposes, NoSecondProposal
<1> QED BY <1>1, <1>2, <1>3, TypeCorrect, PTL DEF Spec
=============================================================================
