------------------------------- MODULE Forget -------------------------------
(***************************************************************************)
(* Evidence on the plane's disk and the requests that destroy it           *)
(* (src/src/blobs.ts, forget.ts), beside the daemons that upload it after  *)
(* a run is over (daemon.ts, runner-api.ts).  Bytes are stored under their *)
(* digest, so runs that produced the same bytes share one file.            *)
(*                                                                         *)
(* One statement or one file operation is a step.  A request looks for a   *)
(* tombstone, reads what the run cites, asks for each ref whether another  *)
(* run still cites it, removes the file, and only then writes the          *)
(* tombstone; uploads, other requests and a restart fall in between.       *)
(* Abstracted: the bytes (an upload under a wrong digest is refused before *)
(* anything is stored), the events a ref is cited by.                      *)
(***************************************************************************)
EXTENDS Integers, FiniteSets

CONSTANTS
  Runs, Refs,
  Cites,      \* per run, the refs its events mention
  Requests,   \* POSTs to /forget
  About,      \* the run each of them is about
  MaxFaults,  \* bound: lost answers, refused uploads and restarts
  Nobody, NoRef

ASSUME ForgetAssumption ==
  /\ Cites \in [Runs -> SUBSET Refs]
  /\ About \in [Requests -> Runs]
  /\ MaxFaults \in Nat
  /\ Nobody \notin Requests /\ NoRef \notin Refs

VARIABLES
  quiet,     \* scenario: whether a request always has the plane for itself
  over,      \* runs whose events are all in the log
  pending,   \* per run, refs its daemon still has to upload
  landed,    \* per run, refs the plane acknowledged
  stored,    \* files in the blob root
  forgotten, \* the tombstone of each run: the request that wrote it
  req,       \* the requests; `saw`: the runs that were over when it read the refs
  faults

vars == <<quiet, over, pending, landed, stored, forgotten, req, faults>>

Stages == {"unsent", "looked", "checking", "removing", "answered", "lost"}

TypeOK ==
  /\ quiet \in BOOLEAN
  /\ over \subseteq Runs
  /\ pending \in [Runs -> SUBSET Refs]
  /\ landed \in [Runs -> SUBSET Refs]
  /\ stored \subseteq Refs
  /\ forgotten \in [Runs -> Requests \cup {Nobody}]
  /\ req \in [Requests -> [stage : Stages, todo : SUBSET Refs, ref : Refs \cup {NoRef},
                          saw : SUBSET Runs]]
  /\ faults \in 0..MaxFaults

Forgotten(r) == forgotten[r] # Nobody
Working(q) == req[q].stage \in {"looked", "checking", "removing"}
Undisturbed == quiet => ~\E q \in Requests : Working(q)
-----------------------------------------------------------------------------
\* The last event of a run is in the log; its daemon starts on `refsIn(shipped)`.
Ship(r) ==
  /\ r \notin over /\ Undisturbed
  /\ over' = over \cup {r}
  /\ pending' = [pending EXCEPT ![r] = Cites[r]]
  /\ UNCHANGED <<quiet, landed, stored, forgotten, req, faults>>

\* PUT of one blob: authorized like an append, digested, then put.
Upload(r, ref) ==
  /\ ref \in pending[r] /\ Undisturbed
  /\ stored' = stored \cup {ref}
  /\ landed' = [landed EXCEPT ![r] = @ \cup {ref}]
  /\ pending' = [pending EXCEPT ![r] = @ \ {ref}]
  /\ UNCHANGED <<quiet, over, forgotten, req, faults>>

\* The answer is lost: put, and tried again.
UploadUnanswered(r, ref) ==
  /\ ref \in pending[r] /\ Undisturbed
  /\ faults < MaxFaults /\ faults' = faults + 1
  /\ stored' = stored \cup {ref}
  /\ UNCHANGED <<quiet, over, pending, landed, forgotten, req>>

\* Best effort: refused, missing, or out of attempts.
UploadGivenUp(r, ref) ==
  /\ ref \in pending[r]
  /\ faults < MaxFaults /\ faults' = faults + 1
  /\ pending' = [pending EXCEPT ![r] = @ \ {ref}]
  /\ UNCHANGED <<quiet, over, landed, stored, forgotten, req>>
-----------------------------------------------------------------------------
Goto(q, stage) == req' = [req EXCEPT ![q].stage = stage]

\* The button is there once the fold is over; a tombstone answers at once.
LookForTombstone(q) ==
  /\ req[q].stage = "unsent" /\ About[q] \in over
  /\ quiet => pending[About[q]] = {}
  /\ Undisturbed
  /\ Goto(q, IF Forgotten(About[q]) THEN "answered" ELSE "looked")
  /\ UNCHANGED <<quiet, over, pending, landed, stored, forgotten, faults>>

\* refsOf: everything the run's payloads mention.
ReadRefs(q) ==
  /\ req[q].stage = "looked"
  /\ req' = [req EXCEPT ![q] = [stage |-> "checking", todo |-> Cites[About[q]], ref |-> NoRef,
                                saw |-> over]]
  /\ UNCHANGED <<quiet, over, pending, landed, stored, forgotten, faults>>

\* The query of forgetRun without `not exists (select 1 from forgotten ...)`, and no query.
CitedByAnybody(q, ref) == \E r \in over : r # About[q] /\ ref \in Cites[r]
CitedByNobody(q, ref) == FALSE

\* The query of forgetRun: cited by another run that has not been forgotten?
StillCited(q, ref) ==
  \E r \in over : r # About[q] /\ ref \in Cites[r] /\ ~Forgotten(r)

CheckRef(q) ==
  /\ req[q].stage = "checking"
  /\ \E ref \in req[q].todo :
       \/ StillCited(q, ref) /\ req' = [req EXCEPT ![q].todo = @ \ {ref}]
       \/ ~StillCited(q, ref) /\ req' = [req EXCEPT ![q].stage = "removing", ![q].ref = ref]
  /\ UNCHANGED <<quiet, over, pending, landed, stored, forgotten, faults>>

\* rm with `force`: a file that is not there is no error.
RemoveFile(q) ==
  /\ req[q].stage = "removing"
  /\ stored' = stored \ {req[q].ref}
  /\ req' = [req EXCEPT ![q].stage = "checking", ![q].todo = @ \ {req[q].ref}, ![q].ref = NoRef]
  /\ UNCHANGED <<quiet, over, pending, landed, forgotten, faults>>

\* insert ... on conflict with `do update`.
OverwriteTombstone(q) ==
  /\ req[q].stage = "checking" /\ req[q].todo = {}
  /\ forgotten' = [forgotten EXCEPT ![About[q]] = q]
  /\ Goto(q, "answered")
  /\ UNCHANGED <<quiet, over, pending, landed, stored, faults>>

\* insert ... on conflict (run_id) do nothing, and the answer.
WriteTombstone(q) ==
  /\ req[q].stage = "checking" /\ req[q].todo = {}
  /\ forgotten' = [forgotten EXCEPT ![About[q]] = IF @ = Nobody THEN q ELSE @]
  /\ Goto(q, "answered")
  /\ UNCHANGED <<quiet, over, pending, landed, stored, faults>>

\* The plane goes down under its requests.
PlaneRestarts ==
  /\ \E q \in Requests : Working(q)
  /\ faults < MaxFaults /\ faults' = faults + 1
  /\ req' = [q \in Requests |-> [req[q] EXCEPT !.stage = IF Working(q) THEN "lost" ELSE @]]
  /\ UNCHANGED <<quiet, over, pending, landed, stored, forgotten>>
-----------------------------------------------------------------------------
Init ==
  /\ quiet \in BOOLEAN
  /\ over = {}
  /\ pending = [r \in Runs |-> {}]
  /\ landed = [r \in Runs |-> {}]
  /\ stored = {}
  /\ forgotten = [r \in Runs |-> Nobody]
  /\ req = [q \in Requests |-> [stage |-> "unsent", todo |-> {}, ref |-> NoRef, saw |-> Runs]]
  /\ faults = 0

Steps(q) ==
  LookForTombstone(q) \/ ReadRefs(q) \/ CheckRef(q) \/ RemoveFile(q) \/ WriteTombstone(q)

Next ==
  \/ \E r \in Runs : Ship(r)
  \/ \E r \in Runs, ref \in Refs : Upload(r, ref) \/ UploadUnanswered(r, ref) \/ UploadGivenUp(r, ref)
  \/ \E q \in Requests : Steps(q)
  \/ PlaneRestarts

Spec == Init /\ [][Next]_vars
-----------------------------------------------------------------------------
Asked(r) == \E q \in Requests : About[q] = r /\ req[q].stage # "unsent"

(* forget.ts, "still somebody's evidence": forgetting a run never takes bytes that
   had landed for a run nobody asked to forget, unless that run was not over yet
   when the request read what to destroy. *)
SharedEvidenceStays ==
  \A r \in Runs, ref \in Refs :
    ref \in landed[r] \ stored /\ ~Asked(r) =>
      \E q \in Requests : ref \in Cites[About[q]] /\ r \notin req[q].saw

(* forget.ts, "the bytes go": when a request has the plane for itself, the file of a
   ref goes with the last run that cites it - a request that kept a shared file
   leaves it to a later one. *)
ForgottenBytesAreGone ==
  quiet => \A ref \in stored : \E r \in over :
             ref \in Cites[r] /\ ~(Forgotten(r) /\ pending[r] = {})

(* forget.ts, "a retried request must not rewrite who asked or when": whatever
   requests race, the first tombstone stands. *)
TombstonesStand ==
  [][\A r \in Runs : Forgotten(r) => forgotten'[r] = forgotten[r]]_vars
=============================================================================
