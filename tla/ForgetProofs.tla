----------------------------- MODULE ForgetProofs -----------------------------
(***************************************************************************)
(* Forgetting, proved for any runs, files and requests: whatever uploads,  *)
(* requests and restarts fall between the statements of forgetRun.         *)
(***************************************************************************)
EXTENDS Forget, TLAPS

-----------------------------------------------------------------------------
(***************************************************************************)
(* What the requests look like after a step.                               *)
(***************************************************************************)
Record == [stage : Stages, todo : SUBSET Refs, ref : Refs \cup {NoRef}, saw : SUBSET Runs]

\* Only q has moved, and is now as given.
Moves(q, stage, todo, ref, saw) ==
  /\ req' = [req EXCEPT ![q] = req'[q]]
  /\ req'[q] \in Record
  /\ req'[q].stage = stage /\ req'[q].todo = todo /\ req'[q].ref = ref /\ req'[q].saw = saw

LEMMA LookMoves ==
  ASSUME TypeOK, NEW q \in Requests, LookForTombstone(q)
  PROVE  \E stage \in {"answered", "looked"} :
           Moves(q, stage, req[q].todo, req[q].ref, req[q].saw)
BY DEF TypeOK, Record, Stages, Moves, LookForTombstone, Goto

LEMMA ReadMoves ==
  ASSUME TypeOK, NEW q \in Requests, ReadRefs(q)
  PROVE  Moves(q, "checking", Cites[About[q]], NoRef, over)
<1>. DEFINE rec == [stage |-> "checking", todo |-> Cites[About[q]], ref |-> NoRef, saw |-> over]
<1>1. rec \in Record
  BY ForgetAssumption DEF TypeOK, Record, Stages
<1>2. req' = [req EXCEPT ![q] = rec] /\ req'[q] = rec
  BY DEF TypeOK, ReadRefs
<1>3. req' = [req EXCEPT ![q] = req'[q]]
  BY <1>2
<1>4. /\ rec.stage = "checking" /\ rec.todo = Cites[About[q]]
      /\ rec.ref = NoRef /\ rec.saw = over
  OBVIOUS
<1> HIDE DEF rec
<1> QED BY <1>1, <1>2, <1>3, <1>4 DEF Moves

LEMMA CheckMoves ==
  ASSUME TypeOK, NEW q \in Requests, CheckRef(q)
  PROVE  \E ref \in req[q].todo :
           \/ StillCited(q, ref) /\ Moves(q, "checking", req[q].todo \ {ref}, req[q].ref, req[q].saw)
           \/ ~StillCited(q, ref) /\ Moves(q, "removing", req[q].todo, ref, req[q].saw)
<1>. USE DEF TypeOK, Record, Stages, Moves
<1>1. PICK ref \in req[q].todo :
        \/ StillCited(q, ref) /\ req' = [req EXCEPT ![q].todo = @ \ {ref}]
        \/ ~StillCited(q, ref) /\ req' = [req EXCEPT ![q].stage = "removing", ![q].ref = ref]
  BY DEF CheckRef
<1>2. req[q] \in Record /\ req[q].stage = "checking" /\ ref \in Refs
  BY DEF CheckRef
<1>3. CASE StillCited(q, ref)
  <2>1. req' = [req EXCEPT ![q].todo = @ \ {ref}]
    BY <1>1, <1>3
  <2> QED BY <1>2, <1>3, <2>1
<1>4. CASE ~StillCited(q, ref)
  <2>1. req' = [req EXCEPT ![q].stage = "removing", ![q].ref = ref]
    BY <1>1, <1>4
  <2> QED BY <1>2, <1>4, <2>1
<1> QED BY <1>3, <1>4

LEMMA RemoveMoves ==
  ASSUME TypeOK, NEW q \in Requests, RemoveFile(q)
  PROVE  Moves(q, "checking", req[q].todo \ {req[q].ref}, NoRef, req[q].saw)
BY DEF TypeOK, Record, Stages, Moves, RemoveFile

LEMMA WriteMoves ==
  ASSUME TypeOK, NEW q \in Requests, WriteTombstone(q)
  PROVE  Moves(q, "answered", req[q].todo, req[q].ref, req[q].saw)
BY DEF TypeOK, Record, Stages, Moves, WriteTombstone, Goto

\* A restart loses the requests under way, and nothing of what they are about.
LEMMA RestartMoves ==
  ASSUME TypeOK, PlaneRestarts
  PROVE  /\ req' \in [Requests -> Record]
         /\ \A q \in Requests :
              /\ req'[q].saw = req[q].saw
              /\ req'[q].stage = IF Working(q) THEN "lost" ELSE req[q].stage
<1>1. ASSUME NEW q \in Requests
      PROVE  /\ req'[q] \in Record /\ req'[q].saw = req[q].saw
             /\ req'[q].stage = IF Working(q) THEN "lost" ELSE req[q].stage
  <2>1. req'[q] = [req[q] EXCEPT !.stage = IF Working(q) THEN "lost" ELSE @]
    BY DEF PlaneRestarts
  <2>2. req[q] \in Record
    BY DEF TypeOK, Record
  <2>3. (IF Working(q) THEN "lost" ELSE req[q].stage) \in Stages
    BY <2>2 DEF Record, Stages
  <2> QED BY <2>1, <2>2, <2>3 DEF Record
<1>2. req' = [q \in Requests |-> req'[q]]
  BY DEF PlaneRestarts
<1> QED BY <1>1, <1>2

\* Whatever else happens leaves the requests and the tombstones alone.
LEMMA WhoMoves ==
  ASSUME [Next]_vars
  PROVE  \/ \E q \in Requests : Steps(q)
         \/ PlaneRestarts
         \/ UNCHANGED <<quiet, req, forgotten>>
BY DEF Next, vars, Ship, Upload, UploadUnanswered, UploadGivenUp
-----------------------------------------------------------------------------
(***************************************************************************)
(* Every variable stays in its range.                                      *)
(***************************************************************************)
LEMMA TypeStep == TypeOK /\ [Next]_vars => TypeOK'
<1>. SUFFICES ASSUME TypeOK, [Next]_vars PROVE TypeOK'
  OBVIOUS
<1>1. ASSUME NEW r \in Runs, Ship(r) PROVE TypeOK'
  BY <1>1, ForgetAssumption DEF TypeOK, Ship
<1>2. ASSUME NEW r \in Runs, NEW ref \in Refs,
             Upload(r, ref) \/ UploadUnanswered(r, ref) \/ UploadGivenUp(r, ref)
      PROVE TypeOK'
  BY <1>2, ForgetAssumption DEF TypeOK, Upload, UploadUnanswered, UploadGivenUp
<1>3. ASSUME NEW q \in Requests, Steps(q) PROVE TypeOK'
  <2>1. req' \in [Requests -> Record]
    <3>1. req' = [req EXCEPT ![q] = req'[q]] /\ req'[q] \in Record
      BY <1>3, LookMoves, ReadMoves, CheckMoves, RemoveMoves, WriteMoves DEF Steps, Moves
    <3> QED BY <3>1 DEF TypeOK, Record
  <2>2. /\ stored' \subseteq Refs
        /\ forgotten' \in [Runs -> Requests \cup {Nobody}]
        /\ UNCHANGED <<quiet, over, pending, landed, faults>>
    BY <1>3 DEF TypeOK, Steps, LookForTombstone, ReadRefs, CheckRef, RemoveFile, WriteTombstone
  <2> QED BY <2>1, <2>2 DEF TypeOK, Record
<1>4. CASE PlaneRestarts
  <2>1. faults' \in 0..MaxFaults /\ UNCHANGED <<quiet, over, pending, landed, stored, forgotten>>
    BY <1>4, ForgetAssumption DEF TypeOK, PlaneRestarts
  <2> QED BY <1>4, <2>1, RestartMoves DEF TypeOK, Record
<1>5. CASE UNCHANGED vars
  BY <1>5 DEF TypeOK, vars
<1> QED BY <1>1, <1>2, <1>3, <1>4, <1>5 DEF Next

(* forget.ts, blobs.ts: every row, file and request is what its table or disk can hold. *)
THEOREM TypeCorrect == Spec => []TypeOK
<1>1. Init => TypeOK
  BY ForgetAssumption DEF Init, TypeOK, Stages
<1> QED BY <1>1, TypeStep, PTL DEF Spec

(* forget.ts, `on conflict (run_id) do nothing`: the first tombstone of a run is never
   rewritten, whatever requests race. *)
THEOREM FirstTombstoneStands == Spec => TombstonesStand
<1>1. TypeOK /\ [Next]_vars => [\A r \in Runs : Forgotten(r) => forgotten'[r] = forgotten[r]]_vars
  <2>. SUFFICES ASSUME TypeOK, [Next]_vars, NEW r \in Runs, Forgotten(r)
                PROVE  forgotten'[r] = forgotten[r]
    OBVIOUS
  <2>1. ASSUME NEW q \in Requests, WriteTombstone(q) PROVE forgotten'[r] = forgotten[r]
    BY <2>1 DEF WriteTombstone, TypeOK, Forgotten
  <2>2. CASE UNCHANGED forgotten
    BY <2>2
  <2> QED BY <2>1, <2>2 DEF Next, Steps, vars, Ship, Upload, UploadUnanswered, UploadGivenUp,
              LookForTombstone, ReadRefs, CheckRef, RemoveFile, PlaneRestarts
<1> QED BY <1>1, TypeCorrect, PTL DEF Spec, TombstonesStand
-----------------------------------------------------------------------------
(***************************************************************************)
(* What a request that is under way knows, and what stays true while       *)
(* others go on.                                                           *)
(***************************************************************************)
\* A run's files are among those it cites, and nothing lands before it is over.
Uploads ==
  \A r \in Runs :
    /\ pending[r] \subseteq Cites[r] /\ landed[r] \subseteq Cites[r]
    /\ r \notin over => pending[r] = {} /\ landed[r] = {}

\* A request was sent for a run that was over; it has looked only since; what it is
\* about to remove or to check is its run's; a tombstone was asked for.
Requested ==
  /\ \A q \in Requests :
       /\ req[q].stage # "unsent" => About[q] \in over
       /\ req[q].stage \in {"unsent", "looked"} => req[q].saw = Runs
       /\ req[q].stage \in {"checking", "removing"} =>
            req[q].saw \subseteq over /\ req[q].todo \subseteq Cites[About[q]]
       /\ req[q].stage = "removing" => req[q].ref \in req[q].todo
  /\ \A r \in Runs : Forgotten(r) => Asked(r)

\* A file is about to be removed: whoever else cites it was asked to be forgotten, or was
\* not over when the request looked.
Condemned ==
  \A q \in Requests : req[q].stage = "removing" =>
    \A r \in Runs : req[q].ref \in Cites[r] /\ ~Asked(r) => r \notin req[q].saw

IInv == TypeOK /\ Uploads /\ Requested /\ Condemned /\ SharedEvidenceStays

LEMMA RequestsGoOn ==
  ASSUME TypeOK, [Next]_vars
  PROVE  /\ over \subseteq over'
         /\ \A q \in Requests : req[q].stage # "unsent" => req'[q].stage # "unsent"
         /\ \A r \in Runs : Asked(r) => Asked(r)'
<1>1. over \subseteq over'
  BY DEF Next, Steps, vars, Ship, Upload, UploadUnanswered, UploadGivenUp, LookForTombstone,
         ReadRefs, CheckRef, RemoveFile, WriteTombstone, PlaneRestarts
<1>2. \A q \in Requests : req[q].stage # "unsent" => req'[q].stage # "unsent"
  <2>1. ASSUME NEW q \in Requests, Steps(q)
        PROVE  \A p \in Requests : req[p].stage # "unsent" => req'[p].stage # "unsent"
    <3>1. req' = [req EXCEPT ![q] = req'[q]] /\ req'[q].stage # "unsent"
      BY <2>1, LookMoves, ReadMoves, CheckMoves, RemoveMoves, WriteMoves DEF Steps, Moves
    <3> QED BY <3>1 DEF TypeOK
  <2>2. CASE PlaneRestarts
    BY <2>2, RestartMoves DEF Working
  <2>3. CASE UNCHANGED req
    BY <2>3
  <2> QED BY <2>1, <2>2, <2>3 DEF Next, vars, Ship, Upload, UploadUnanswered, UploadGivenUp
<1> QED BY <1>1, <1>2 DEF Asked

LEMMA UploadsStep == TypeOK /\ Uploads /\ [Next]_vars => Uploads'
<1>. SUFFICES ASSUME TypeOK, Uploads, [Next]_vars PROVE Uploads'
  OBVIOUS
<1>1. ASSUME NEW r \in Runs, Ship(r) PROVE Uploads'
  BY <1>1, ForgetAssumption DEF TypeOK, Uploads, Ship
<1>2. ASSUME NEW r \in Runs, NEW ref \in Refs,
             Upload(r, ref) \/ UploadUnanswered(r, ref) \/ UploadGivenUp(r, ref)
      PROVE Uploads'
  BY <1>2 DEF TypeOK, Uploads, Upload, UploadUnanswered, UploadGivenUp
<1>3. CASE UNCHANGED <<over, pending, landed>>
  BY <1>3 DEF Uploads
<1> QED BY <1>1, <1>2, <1>3 DEF Next, Steps, vars, LookForTombstone, ReadRefs, CheckRef,
          RemoveFile, WriteTombstone, PlaneRestarts

LEMMA RequestedStep == TypeOK /\ Requested /\ [Next]_vars => Requested'
<1>. SUFFICES ASSUME TypeOK, Requested, [Next]_vars PROVE Requested'
  OBVIOUS
<1>. DEFINE Sound(q) ==
       /\ req[q].stage # "unsent" => About[q] \in over
       /\ req[q].stage \in {"unsent", "looked"} => req[q].saw = Runs
       /\ req[q].stage \in {"checking", "removing"} =>
            req[q].saw \subseteq over /\ req[q].todo \subseteq Cites[About[q]]
       /\ req[q].stage = "removing" => req[q].ref \in req[q].todo
<1>1. \A q \in Requests : Sound(q)'
  <2>. TAKE q \in Requests
  <2>0. Sound(q) /\ over \subseteq over'
    BY RequestsGoOn DEF Requested
  <2>1. ASSUME NEW p \in Requests, Steps(p), p # q PROVE Sound(q)'
    <3>1. req'[q] = req[q]
      BY <2>1, LookMoves, ReadMoves, CheckMoves, RemoveMoves, WriteMoves DEF Steps, Moves, TypeOK
    <3> QED BY <2>0, <3>1
  <2>2. CASE LookForTombstone(q)
    <3>1. /\ req'[q].stage \in {"answered", "looked"}
          /\ req'[q].saw = req[q].saw /\ req[q].stage = "unsent" /\ About[q] \in over
      BY <2>2, LookMoves DEF Moves, LookForTombstone
    <3> QED BY <2>0, <3>1
  <2>3. CASE ReadRefs(q)
    <3>1. /\ req'[q].stage = "checking" /\ req'[q].todo = Cites[About[q]]
          /\ req'[q].saw = over /\ req[q].stage = "looked"
      BY <2>3, ReadMoves DEF Moves, ReadRefs
    <3> QED BY <2>0, <3>1
  <2>4. CASE CheckRef(q)
    <3>1. /\ req'[q].stage \in {"checking", "removing"} /\ req'[q].todo \subseteq req[q].todo
          /\ req'[q].saw = req[q].saw /\ req[q].stage = "checking"
          /\ req'[q].stage = "removing" => req'[q].ref \in req'[q].todo
      BY <2>4, CheckMoves DEF Moves, CheckRef
    <3> QED BY <2>0, <3>1
  <2>5. CASE RemoveFile(q)
    <3>1. /\ req'[q].stage = "checking" /\ req'[q].todo \subseteq req[q].todo
          /\ req'[q].saw = req[q].saw /\ req[q].stage = "removing"
      BY <2>5, RemoveMoves DEF Moves, RemoveFile
    <3> QED BY <2>0, <3>1
  <2>6. CASE WriteTombstone(q)
    <3>1. req'[q].stage = "answered" /\ req[q].stage = "checking"
      BY <2>6, WriteMoves DEF Moves, WriteTombstone
    <3> QED BY <2>0, <3>1
  <2>7. CASE PlaneRestarts
    <3>1. \/ req'[q].stage = "lost" /\ req[q].stage # "unsent"
          \/ ~Working(q) /\ req'[q].stage = req[q].stage /\ req'[q].saw = req[q].saw
      BY <2>7, RestartMoves DEF Working
    <3> QED BY <2>0, <3>1 DEF Working
  <2>8. CASE UNCHANGED req
    BY <2>0, <2>8
  <2> QED BY <2>1, <2>2, <2>3, <2>4, <2>5, <2>6, <2>7, <2>8, WhoMoves DEF Steps
<1>2. \A r \in Runs : Forgotten(r)' => Asked(r)'
  <2>. TAKE r \in Runs
  <2>1. ASSUME NEW q \in Requests, WriteTombstone(q), About[q] = r PROVE Asked(r)'
    <3>1. req'[q].stage = "answered"
      BY <2>1, WriteMoves DEF Moves
    <3> QED BY <2>1, <3>1 DEF Asked
  <2>2. ASSUME NEW q \in Requests, WriteTombstone(q), About[q] # r
        PROVE  forgotten'[r] = forgotten[r]
    BY <2>2 DEF WriteTombstone, TypeOK
  <2>3. CASE forgotten'[r] = forgotten[r]
    BY <2>3, RequestsGoOn DEF Requested, Forgotten
  <2>4. \/ forgotten' = forgotten
        \/ \E q \in Requests : WriteTombstone(q)
    BY DEF Next, Steps, vars, Ship, Upload, UploadUnanswered, UploadGivenUp, LookForTombstone,
           ReadRefs, CheckRef, RemoveFile, PlaneRestarts
  <2> QED BY <2>1, <2>2, <2>3, <2>4
<1> QED BY <1>1, <1>2 DEF Requested

LEMMA CondemnedStep == TypeOK /\ Requested /\ Condemned /\ [Next]_vars => Condemned'
<1>. SUFFICES ASSUME TypeOK, Requested, Condemned, [Next]_vars,
                     NEW q \in Requests, req'[q].stage = "removing",
                     NEW r \in Runs, req'[q].ref \in Cites[r], ~Asked(r)'
              PROVE  r \notin req'[q].saw
  BY DEF Condemned
<1>0. ~Asked(r)
  BY RequestsGoOn
<1>1. CASE CheckRef(q)
  <2>1. /\ ~StillCited(q, req'[q].ref) /\ req'[q].saw = req[q].saw
        /\ req[q].stage = "checking"
    BY <1>1, CheckMoves DEF Moves, CheckRef
  <2>2. r # About[q]
    BY <1>0, <2>1 DEF Asked
  <2>3. r \notin over
    BY <1>0, <2>1, <2>2 DEF StillCited, Requested
  <2> QED BY <2>1, <2>3 DEF Requested
<1>2. CASE req'[q] = req[q]
  BY <1>0, <1>2 DEF Condemned
<1>3. ASSUME NEW p \in Requests, Steps(p), p # q PROVE req'[q] = req[q]
  BY <1>3, LookMoves, ReadMoves, CheckMoves, RemoveMoves, WriteMoves DEF Steps, Moves, TypeOK
<1>4. ~LookForTombstone(q) /\ ~ReadRefs(q) /\ ~RemoveFile(q) /\ ~WriteTombstone(q)
  BY LookMoves, ReadMoves, RemoveMoves, WriteMoves DEF Moves
<1>5. CASE PlaneRestarts
  BY <1>5, RestartMoves DEF Working
<1> QED BY <1>1, <1>2, <1>3, <1>4, <1>5, WhoMoves DEF Steps

LEMMA SharedStep ==
  IInv /\ [Next]_vars => SharedEvidenceStays'
<1>. SUFFICES ASSUME IInv, [Next]_vars, NEW r \in Runs, NEW ref \in Refs,
                     ref \in landed'[r] \ stored', ~Asked(r)'
              PROVE  \E q \in Requests : ref \in Cites[About[q]] /\ r \notin req'[q].saw
  BY DEF SharedEvidenceStays
<1>. USE DEF IInv
<1>0. ~Asked(r)
  BY RequestsGoOn
\* Whoever had not seen r go over has still not.
<1>1. ASSUME NEW q \in Requests, r \notin req[q].saw PROVE r \notin req'[q].saw
  <2>1. req[q].stage \notin {"unsent", "looked"}
    BY <1>1 DEF Requested
  <2>2. CASE PlaneRestarts
    BY <1>1, <2>2, RestartMoves
  <2>3. ASSUME NEW p \in Requests, Steps(p) PROVE req'[q].saw = req[q].saw
    <3>1. CASE p # q
      BY <2>3, <3>1, LookMoves, ReadMoves, CheckMoves, RemoveMoves, WriteMoves DEF Steps, Moves, TypeOK
    <3>2. CASE p = q
      <4>1. ~ReadRefs(q)
        BY <2>1 DEF ReadRefs
      <4> QED BY <2>3, <3>2, <4>1, LookMoves, CheckMoves, RemoveMoves, WriteMoves DEF Steps, Moves
    <3> QED BY <3>1, <3>2
  <2>4. CASE UNCHANGED req
    BY <1>1, <2>4
  <2> QED BY <1>1, <2>2, <2>3, <2>4, WhoMoves
<1>2. CASE ref \in landed[r] \ stored
  BY <1>0, <1>1, <1>2 DEF SharedEvidenceStays
<1>3. ASSUME NEW q \in Requests, RemoveFile(q), ref \in landed[r], ref \in stored
      PROVE  \E p \in Requests : ref \in Cites[About[p]] /\ r \notin req'[p].saw
  <2>1. ref = req[q].ref /\ req[q].stage = "removing"
    BY <1>3 DEF RemoveFile
  <2>2. r \notin req[q].saw
    BY <1>0, <1>3, <2>1 DEF Condemned, Uploads
  <2>3. ref \in Cites[About[q]]
    BY <2>1 DEF Requested
  <2> QED BY <1>1, <2>2, <2>3
<1>4. CASE ~\E q \in Requests : RemoveFile(q)
  <2>1. ASSUME NEW s \in Runs, NEW f \in Refs, Upload(s, f)
        PROVE  stored \subseteq stored' /\ ref \in landed[r] \cup stored'
    BY <2>1 DEF TypeOK, Upload
  <2>2. CASE landed' = landed /\ stored \subseteq stored'
    BY <1>2, <2>2
  <2>3. \/ \E s \in Runs, f \in Refs : Upload(s, f)
        \/ landed' = landed /\ stored \subseteq stored'
    BY <1>4 DEF Next, Steps, vars, Ship, UploadUnanswered, UploadGivenUp,
           LookForTombstone, ReadRefs, CheckRef, WriteTombstone, PlaneRestarts
  <2> QED BY <1>2, <2>1, <2>2, <2>3
<1>5. ASSUME NEW q \in Requests, RemoveFile(q) PROVE landed' = landed
  BY <1>5 DEF RemoveFile
<1> QED BY <1>2, <1>3, <1>4, <1>5

LEMMA Invariant == Spec => []IInv
<1>1. Init => IInv
  <2>. SUFFICES ASSUME Init PROVE IInv
    OBVIOUS
  <2>1. TypeOK
    BY ForgetAssumption DEF Init, TypeOK, Stages
  <2>2. Uploads /\ Requested /\ Condemned /\ SharedEvidenceStays
    BY ForgetAssumption DEF Init, Uploads, Requested, Condemned, SharedEvidenceStays, Forgotten
  <2> QED BY <2>1, <2>2 DEF IInv
<1>2. IInv /\ [Next]_vars => IInv'
  BY TypeStep, UploadsStep, RequestedStep, CondemnedStep, SharedStep DEF IInv
<1> QED BY <1>1, <1>2, PTL DEF Spec

(* forget.ts, "still somebody's evidence": no interleaving of requests, uploads and
   restarts takes bytes that had landed for a run nobody asked to forget, unless it was
   not over yet when a request for another run that cites them read what to destroy. *)
THEOREM EvidenceOfOthersStays == Spec => []SharedEvidenceStays
BY Invariant, PTL DEF IInv
-----------------------------------------------------------------------------
(***************************************************************************)
(* A request that has the plane for itself.                                *)
(***************************************************************************)
\* Nothing is on its way to the disk for a run that is being forgotten, or was.
Settled ==
  /\ \A p, q \in Requests : Working(p) /\ Working(q) => p = q
  /\ \A r \in Runs : Forgotten(r) => pending[r] = {}
  /\ \A q \in Requests : Working(q) => pending[About[q]] = {}

\* A file the request is done with is gone, or is somebody else's.
Cleared ==
  \A q \in Requests, ref \in Refs :
    req[q].stage \in {"checking", "removing"} /\ ref \in Cites[About[q]] \ req[q].todo =>
      ref \notin stored \/ StillCited(q, ref)

QInv == IInv /\ (quiet => Settled /\ Cleared /\ ForgottenBytesAreGone)

\* While a request is under way nobody else is, and nothing ships or lands.
LEMMA NothingElse ==
  ASSUME IInv, quiet, Settled, NEW q \in Requests, Working(q), [Next]_vars
  PROVE  \/ Steps(q)
         \/ PlaneRestarts
         \/ /\ UNCHANGED <<quiet, over, stored, forgotten, req>>
            /\ \A r \in Runs : pending'[r] \subseteq pending[r]
<1>1. ASSUME NEW p \in Requests, Steps(p) PROVE p = q
  BY <1>1 DEF Settled, Steps, LookForTombstone, Undisturbed, ReadRefs, CheckRef, RemoveFile,
              WriteTombstone, Working
<1>2. ASSUME NEW r \in Runs, NEW ref \in Refs
      PROVE  ~Ship(r) /\ ~Upload(r, ref) /\ ~UploadUnanswered(r, ref)
  BY DEF Ship, Upload, UploadUnanswered, Undisturbed
<1>3. ASSUME NEW r \in Runs PROVE ~Ship(r)
  BY DEF Ship, Undisturbed
<1>4. ASSUME NEW s \in Runs, NEW ref \in Refs, UploadGivenUp(s, ref)
      PROVE  /\ UNCHANGED <<quiet, over, stored, forgotten, req>>
             /\ \A r \in Runs : pending'[r] \subseteq pending[r]
  BY <1>4 DEF UploadGivenUp, IInv, TypeOK
<1>5. CASE UNCHANGED vars
  BY <1>5 DEF vars
<1> QED BY <1>1, <1>2, <1>3, <1>4, <1>5 DEF Next

LEMMA QuietStays == [Next]_vars => quiet' = quiet
BY DEF Next, Steps, vars, Ship, Upload, UploadUnanswered, UploadGivenUp, LookForTombstone,
       ReadRefs, CheckRef, RemoveFile, WriteTombstone, PlaneRestarts

LEMMA SettledStep == QInv /\ quiet /\ [Next]_vars => Settled'
<1>. SUFFICES ASSUME QInv, quiet, [Next]_vars PROVE Settled'
  OBVIOUS
<1>. USE DEF QInv, IInv
<1>1. \A p, q \in Requests : Working(p)' /\ Working(q)' => p = q
  <2>. SUFFICES ASSUME NEW p \in Requests, NEW q \in Requests, Working(p)', Working(q)' PROVE p = q
    OBVIOUS
  <2>1. ASSUME NEW s \in Requests, Steps(s) PROVE p = q
    <3>1. \A t \in Requests : t # s => req'[t] = req[t]
      BY <2>1, LookMoves, ReadMoves, CheckMoves, RemoveMoves, WriteMoves DEF Steps, Moves, TypeOK
    <3>2. \A t \in Requests : Working(t) => t = s
      BY <2>1 DEF Settled, Steps, LookForTombstone, Undisturbed, ReadRefs, CheckRef, RemoveFile,
                  WriteTombstone, Working
    <3> QED BY <3>1, <3>2 DEF Working
  <2>2. CASE PlaneRestarts
    BY <2>2, RestartMoves DEF Working
  <2>3. CASE UNCHANGED req
    BY <2>3 DEF Settled, Working
  <2> QED BY <2>1, <2>2, <2>3, WhoMoves
<1>2. ASSUME NEW r \in Runs, r \in over PROVE pending'[r] \subseteq pending[r]
  <2>1. ASSUME NEW s \in Runs, Ship(s) PROVE pending'[r] \subseteq pending[r]
    BY <1>2, <2>1 DEF TypeOK, Ship
  <2>2. ASSUME NEW s \in Runs, NEW f \in Refs,
               Upload(s, f) \/ UploadUnanswered(s, f) \/ UploadGivenUp(s, f)
        PROVE  pending'[r] \subseteq pending[r]
    <3>1. \/ pending' = [pending EXCEPT ![s] = @ \ {f}]
          \/ pending' = pending
      BY <2>2 DEF Upload, UploadUnanswered, UploadGivenUp
    <3> QED BY <3>1 DEF TypeOK
  <2>3. CASE UNCHANGED pending
    BY <2>3
  <2> QED BY <2>1, <2>2, <2>3 DEF Next, Steps, vars, LookForTombstone, ReadRefs, CheckRef,
              RemoveFile, WriteTombstone, PlaneRestarts
<1>3. ASSUME NEW q \in Requests, Working(q)' PROVE pending'[About[q]] = {}
  <2>1. About[q] \in Runs
    BY ForgetAssumption
  <2>2. CASE Working(q)
    BY <1>2, <2>1, <2>2 DEF Settled, Requested, Working
  <2>3. CASE LookForTombstone(q)
    BY <2>3 DEF LookForTombstone
  <2>4. CASE ~Working(q) /\ ~LookForTombstone(q)
    <3>1. ASSUME NEW s \in Requests, Steps(s), s # q PROVE req'[q] = req[q]
      BY <3>1, LookMoves, ReadMoves, CheckMoves, RemoveMoves, WriteMoves DEF Steps, Moves, TypeOK
    <3>2. ~Steps(q)
      BY <2>4 DEF Steps, ReadRefs, CheckRef, RemoveFile, WriteTombstone, Working
    <3>3. CASE PlaneRestarts
      BY <1>3, <3>3, RestartMoves DEF Working
    <3>4. CASE req'[q] = req[q]
      BY <1>3, <2>4, <3>4 DEF Working
    <3> QED BY <3>1, <3>2, <3>3, <3>4, WhoMoves
  <2> QED BY <2>2, <2>3, <2>4
<1>4. ASSUME NEW r \in Runs, Forgotten(r)' PROVE pending'[r] = {}
  <2>1. CASE Forgotten(r)
    BY <1>2, <2>1 DEF Settled, Requested, Asked
  <2>2. ASSUME NEW q \in Requests, WriteTombstone(q), About[q] = r PROVE pending'[r] = {}
    BY <2>2 DEF WriteTombstone, Settled, Working
  <2>3. ASSUME NEW q \in Requests, WriteTombstone(q), About[q] # r
        PROVE  forgotten'[r] = forgotten[r]
    BY <2>3 DEF WriteTombstone, TypeOK
  <2>4. \/ forgotten' = forgotten
        \/ \E q \in Requests : WriteTombstone(q)
    BY DEF Next, Steps, vars, Ship, Upload, UploadUnanswered, UploadGivenUp, LookForTombstone,
           ReadRefs, CheckRef, RemoveFile, PlaneRestarts
  <2> QED BY <1>4, <2>1, <2>2, <2>3, <2>4 DEF Forgotten
<1> QED BY <1>1, <1>3, <1>4 DEF Settled

LEMMA ClearedStep == QInv /\ quiet /\ [Next]_vars => Cleared'
<1>. SUFFICES ASSUME QInv, quiet, [Next]_vars, NEW q \in Requests, NEW ref \in Refs,
                     req'[q].stage \in {"checking", "removing"},
                     ref \in Cites[About[q]] \ req'[q].todo
              PROVE  ref \notin stored' \/ StillCited(q, ref)'
  BY DEF Cleared
<1>. USE DEF QInv, IInv
<1>1. CASE ReadRefs(q)
  BY <1>1, ReadMoves DEF Moves
<1>2. CASE CheckRef(q)
  <2>1. PICK f \in req[q].todo :
          \/ StillCited(q, f) /\ req'[q].todo = req[q].todo \ {f}
          \/ req'[q].todo = req[q].todo
    BY <1>2, CheckMoves DEF Moves
  <2>2. UNCHANGED <<over, stored, forgotten>> /\ req[q].stage = "checking"
    BY <1>2 DEF CheckRef
  <2>3. StillCited(q, ref)' <=> StillCited(q, ref)
    BY <2>2 DEF StillCited, Forgotten
  <2> QED BY <2>1, <2>2, <2>3 DEF Cleared
<1>3. CASE RemoveFile(q)
  <2>1. /\ req'[q].todo = req[q].todo \ {req[q].ref} /\ req[q].stage = "removing"
        /\ stored' = stored \ {req[q].ref} /\ UNCHANGED <<over, forgotten>>
    BY <1>3, RemoveMoves DEF Moves, RemoveFile
  <2>2. StillCited(q, ref)' <=> StillCited(q, ref)
    BY <2>1 DEF StillCited, Forgotten
  <2> QED BY <2>1, <2>2 DEF Cleared
<1>4. CASE LookForTombstone(q) \/ WriteTombstone(q) \/ PlaneRestarts
  BY <1>4, LookMoves, WriteMoves, RestartMoves DEF Moves, Working
<1>5. CASE UNCHANGED <<over, stored, forgotten, req>>
  BY <1>5 DEF Cleared, StillCited, Forgotten
<1>6. CASE Working(q)
  BY <1>1, <1>2, <1>3, <1>4, <1>5, <1>6, NothingElse DEF Steps
<1>7. CASE ~Working(q)
  <2>1. ASSUME NEW s \in Requests, Steps(s), s # q PROVE req'[q] = req[q]
    BY <2>1, LookMoves, ReadMoves, CheckMoves, RemoveMoves, WriteMoves DEF Steps, Moves, TypeOK
  <2>2. req'[q] # req[q]
    BY <1>7 DEF Working
  <2>3. CASE Steps(q)
    BY <1>1, <1>2, <1>3, <1>4, <2>3 DEF Steps
  <2> QED BY <1>4, <2>1, <2>2, <2>3, WhoMoves
<1> QED BY <1>6, <1>7

LEMMA GoneStep == QInv /\ quiet /\ [Next]_vars => ForgottenBytesAreGone'
<1>. SUFFICES ASSUME QInv, quiet, [Next]_vars, NEW ref \in stored'
              PROVE  \E r \in over' : ref \in Cites[r] /\ ~(Forgotten(r)' /\ pending'[r] = {})
  BY DEF ForgottenBytesAreGone
<1>. USE DEF QInv, IInv
<1>1. CASE ref \in stored /\ UNCHANGED forgotten
  <2>1. PICK r \in over : ref \in Cites[r] /\ ~Forgotten(r)
    BY <1>1 DEF ForgottenBytesAreGone, Settled, TypeOK
  <2> QED BY <1>1, <2>1, RequestsGoOn DEF Forgotten
<1>2. ASSUME NEW q \in Requests, WriteTombstone(q)
      PROVE  \E r \in over' : ref \in Cites[r] /\ ~(Forgotten(r)' /\ pending'[r] = {})
  <2>1. /\ req[q].stage = "checking" /\ req[q].todo = {}
        /\ UNCHANGED <<over, stored>> /\ About[q] \in Runs
        /\ \A r \in Runs : r # About[q] => forgotten'[r] = forgotten[r]
    BY <1>2, ForgetAssumption DEF WriteTombstone, TypeOK
  <2>2. PICK r \in over : ref \in Cites[r] /\ ~Forgotten(r)
    BY <2>1 DEF ForgottenBytesAreGone, Settled, TypeOK
  <2>3. CASE r # About[q]
    BY <2>1, <2>2, <2>3 DEF Forgotten, TypeOK
  <2>4. CASE r = About[q]
    <3>1. ref \in Refs /\ ref \in Cites[About[q]] \ req[q].todo
      BY <2>1, <2>2, <2>4 DEF TypeOK
    <3>2. StillCited(q, ref)
      BY <2>1, <3>1 DEF Cleared
    <3> QED BY <2>1, <3>2 DEF StillCited, Forgotten, TypeOK
  <2> QED BY <2>3, <2>4
<1>3. ASSUME NEW r \in Runs, NEW f \in Refs, Upload(r, f) \/ UploadUnanswered(r, f),
             ref \notin stored
      PROVE  \E s \in over' : ref \in Cites[s] /\ ~(Forgotten(s)' /\ pending'[s] = {})
  <2>1. ref = f /\ f \in pending[r] /\ UNCHANGED <<over, forgotten>>
    BY <1>3 DEF Upload, UploadUnanswered
  <2>2. r \in over /\ ref \in Cites[r] /\ ~Forgotten(r)
    BY <2>1 DEF Uploads, Settled
  <2> QED BY <2>1, <2>2 DEF Forgotten
<1>4. \/ stored' \subseteq stored
      \/ \E r \in Runs, f \in Refs : Upload(r, f) \/ UploadUnanswered(r, f)
  BY DEF Next, Steps, vars, Ship, UploadGivenUp, LookForTombstone, ReadRefs, CheckRef,
         RemoveFile, WriteTombstone, PlaneRestarts
<1>5. \/ UNCHANGED forgotten
      \/ \E q \in Requests : WriteTombstone(q)
  BY DEF Next, Steps, vars, Ship, Upload, UploadUnanswered, UploadGivenUp, LookForTombstone,
         ReadRefs, CheckRef, RemoveFile, PlaneRestarts
<1> QED BY <1>1, <1>2, <1>3, <1>4, <1>5

(* forget.ts, "the bytes go": when requests have the plane for themselves, the file of a
   ref goes with the last run that cites it - a request that kept a shared file leaves it to
   a later one - and a restart in between only leaves the run unforgotten. *)
THEOREM BytesGoWithTheLastRun == Spec => []ForgottenBytesAreGone
<1>1. Init => QInv
  <2>. SUFFICES ASSUME Init PROVE QInv
    OBVIOUS
  <2>1. TypeOK
    BY ForgetAssumption DEF Init, TypeOK, Stages
  <2>2. Uploads /\ Requested /\ Condemned /\ SharedEvidenceStays
    BY ForgetAssumption DEF Init, Uploads, Requested, Condemned, SharedEvidenceStays, Forgotten
  <2>3. Settled /\ Cleared /\ ForgottenBytesAreGone
    BY ForgetAssumption DEF Init, Settled, Cleared, ForgottenBytesAreGone, Forgotten, Working
  <2> QED BY <2>1, <2>2, <2>3 DEF QInv, IInv
<1>2. QInv /\ [Next]_vars => QInv'
  BY TypeStep, UploadsStep, RequestedStep, CondemnedStep, SharedStep, QuietStays,
     SettledStep, ClearedStep, GoneStep DEF QInv, IInv
<1>3. QInv => ForgottenBytesAreGone
  BY DEF QInv, ForgottenBytesAreGone
<1> QED BY <1>1, <1>2, <1>3, PTL DEF Spec
=============================================================================
