----------------------------- MODULE FoldProofs -----------------------------
(***************************************************************************)
(* Proofs about the fold, for every log whoever wrote it, and about the    *)
(* claims made of it.                                                      *)
(*                                                                         *)
(* The fold is a recursion over the log.  That a set of naturals with 0    *)
(* and with the successor of each of its elements holds every natural is   *)
(* proved first, from the library's theorem on well-founded orders; the    *)
(* rest are inductions with such sets.                                     *)
(***************************************************************************)
EXTENDS FoldLaws, FiniteSetTheorems, SequenceTheorems, WellFoundedInduction, TLAPS

-----------------------------------------------------------------------------
(***************************************************************************)
(* Induction and recursion over the positions of a log.                    *)
(***************************************************************************)
LEMMA LeastNatural ==
  ASSUME NEW T, T \subseteq Nat, T # {}
  PROVE  \E x \in T : \A y \in T : x <= y
<1> DEFINE R == {pair \in Nat \X Nat : pair[1] < pair[2]}
<1>1. IsWellFoundedOn(R, Nat)
  BY NatLessThanWellFounded DEF OpToRel
<1>2. \E x \in T : \A y \in T : <<y, x>> \notin R
  <2> HIDE DEF R
  <2> QED BY <1>1, WFMin
<1>3. PICK x \in T : \A y \in T : <<y, x>> \notin R
  BY <1>2
<1>4. \A y \in T : x \in Nat /\ y \in Nat /\ ~(y < x)
  BY <1>3
<1> QED BY <1>4

LEMMA EveryNatural ==
  ASSUME NEW S, 0 \in S, \A k \in Nat : k \in S => k + 1 \in S
  PROVE  \A k \in Nat : k \in S
<1> SUFFICES ASSUME Nat \ S # {} PROVE FALSE
  OBVIOUS
<1>1. PICK x \in Nat \ S : \A y \in Nat \ S : x <= y
  BY LeastNatural
<1>2. x # 0 /\ x - 1 \in Nat
  BY <1>1
<1>3. x - 1 \in S
  BY <1>1, <1>2
<1> QED BY <1>1, <1>2, <1>3

\* The latest of a set of positions, and the earliest.
LEMMA LatestIs ==
  ASSUME NEW T, NEW N \in Nat, T \subseteq 1..N, T # {}
  PROVE  Latest(T) \in T /\ \A j \in T : j <= Latest(T)
<1>1. \E i \in T : \A j \in T : j <= i
  <2> DEFINE U == {N - j : j \in T}
  <2>1. U \subseteq Nat /\ U # {}
    <3>1. \A j \in T : j \in 1..N
      OBVIOUS
    <3>2. \A j \in T : N - j \in Nat
      BY <3>1
    <3> QED BY <3>2
  <2>2. PICK u \in U : \A v \in U : u <= v
    BY <2>1, LeastNatural
  <2>3. PICK i \in T : u = N - i
    BY <2>2
  <2>4. \A j \in T : j <= i
    <3> SUFFICES ASSUME NEW j \in T PROVE j <= i
      OBVIOUS
    <3>1. N - j \in U
      OBVIOUS
    <3>2. u <= N - j
      BY <2>2, <3>1
    <3> QED BY <2>3, <3>2
  <2> QED BY <2>3, <2>4
<1> QED BY <1>1 DEF Latest

LEMMA EarliestIs ==
  ASSUME NEW T, NEW N \in Nat, T \subseteq 1..N, T # {}
  PROVE  Earliest(T) \in T /\ \A j \in T : Earliest(T) <= j
<1>1. T \subseteq Nat
  OBVIOUS
<1>2. \E i \in T : \A j \in T : i <= j
  BY <1>1, LeastNatural
<1> QED BY <1>2 DEF Earliest

\* The states a log leads through, from one event to the next.
LEMMA StatesFollow ==
  ASSUME NEW l, Len(l) \in Nat
  PROVE  /\ States(l)[0] = InitialState
         /\ \A i \in 1..Len(l) : States(l)[i] = Apply(States(l)[i - 1], l[i])
<1> DEFINE Made(st, i) == CHOOSE next \in {Apply(s, l[i]) : s \in {st}} : TRUE
           Solves(f, k) == f = [i \in 0..k |-> IF i = 0 THEN InitialState ELSE Made(f[i - 1], i)]
           S == {k \in Nat : \E f : Solves(f, k)}
<1>1. \A st, i : Made(st, i) = Apply(st, l[i])
  OBVIOUS
<1>2. Len(l) \in S
  <2> HIDE DEF Made
  <2>1. 0 \in S
    <3>1. Solves([i \in 0..0 |-> InitialState], 0)
      OBVIOUS
    <3> QED BY <3>1
  <2>2. ASSUME NEW k \in Nat, k \in S PROVE k + 1 \in S
    <3>1. PICK f : Solves(f, k)
      BY <2>2
    <3> DEFINE g == [i \in 0..(k + 1) |-> IF i = k + 1 THEN Made(f[k], k + 1) ELSE f[i]]
    <3>2. Solves(g, k + 1)
      BY <3>1
    <3> HIDE DEF g
    <3> QED BY <3>2
  <2> HIDE DEF S
  <2> QED BY <2>1, <2>2, EveryNatural
<1>3. Solves(States(l), Len(l))
  BY <1>2 DEF States
<1> HIDE DEF Made
<1> QED BY <1>1, <1>3

LEMMA WindowsFollow ==
  ASSUME NEW l, Len(l) \in Nat
  PROVE  /\ Windows(l)[0] = OpenWindow
         /\ \A i \in 1..Len(l) : Windows(l)[i] = WindowStep(Windows(l)[i - 1], l[i])
<1> DEFINE Solves(f, k) ==
             f = [i \in 0..k |-> IF i = 0 THEN OpenWindow ELSE WindowStep(f[i - 1], l[i])]
           S == {k \in Nat : \E f : Solves(f, k)}
<1>1. Len(l) \in S
  <2>1. 0 \in S
    <3>1. Solves([i \in 0..0 |-> OpenWindow], 0)
      OBVIOUS
    <3> QED BY <3>1
  <2>2. ASSUME NEW k \in Nat, k \in S PROVE k + 1 \in S
    <3>1. PICK f : Solves(f, k)
      BY <2>2
    <3> DEFINE g == [i \in 0..(k + 1) |-> IF i = k + 1 THEN WindowStep(f[k], l[k + 1]) ELSE f[i]]
    <3>2. Solves(g, k + 1)
      BY <3>1
    <3> HIDE DEF g
    <3> QED BY <3>2
  <2> HIDE DEF S
  <2> QED BY <2>1, <2>2, EveryNatural
<1>2. Solves(Windows(l), Len(l))
  BY <1>1 DEF Windows
<1> QED BY <1>2

-----------------------------------------------------------------------------
(***************************************************************************)
(* Lists.                                                                  *)
(***************************************************************************)
Values(s) == {s[i] : i \in DOMAIN s}
IsList(s) == s \in Seq(Values(s))

LEMMA EmptyIsList == IsList(<<>>) /\ Values(<<>>) = {} /\ Len(<<>>) = 0
BY DEF IsList, Values

LEMMA SequencesAreLists ==
  ASSUME NEW S, NEW s \in Seq(S)
  PROVE  IsList(s)
<1>1. s \in [1..Len(s) -> Values(s)] /\ Len(s) \in Nat
  BY LenProperties DEF Values
<1> QED BY <1>1, SeqDef DEF IsList

LEMMA AppendList ==
  ASSUME NEW s, IsList(s), NEW x
  PROVE  /\ Len(s) \in Nat /\ DOMAIN s = 1..Len(s)
         /\ IsList(Append(s, x)) /\ Len(Append(s, x)) = Len(s) + 1
         /\ DOMAIN Append(s, x) = 1..(Len(s) + 1)
         /\ \A i \in 1..Len(s) : Append(s, x)[i] = s[i]
         /\ Append(s, x)[Len(s) + 1] = x
         /\ Values(Append(s, x)) = Values(s) \cup {x}
<1> DEFINE S == Values(s) \cup {x}
           t == Append(s, x)
<1>1. s \in Seq(S) /\ x \in S
  BY SeqMonotonic DEF IsList
<1> HIDE DEF S
<1>2. /\ Len(s) \in Nat /\ DOMAIN s = 1..Len(s)
      /\ t \in Seq(S) /\ Len(t) = Len(s) + 1
      /\ \A i \in 1..Len(s) : t[i] = s[i]
      /\ t[Len(s) + 1] = x
  BY <1>1, LenProperties, AppendProperties
<1>3. DOMAIN t = 1..(Len(s) + 1)
  BY <1>2, LenProperties
<1> HIDE DEF t
<1>4. Values(t) = Values(s) \cup {x}
  <2>1. ASSUME NEW v \in Values(t) PROVE v \in Values(s) \cup {x}
    <3>1. PICK i \in 1..(Len(s) + 1) : v = t[i]
      BY <1>3 DEF Values
    <3>2. CASE i = Len(s) + 1
      BY <1>2, <3>1, <3>2
    <3>3. CASE i # Len(s) + 1
      <4>1. i \in 1..Len(s)
        BY <1>2, <3>3
      <4> QED BY <1>2, <3>1, <4>1 DEF Values
    <3> QED BY <3>2, <3>3
  <2>2. ASSUME NEW v \in Values(s) PROVE v \in Values(t)
    <3>1. PICK i \in 1..Len(s) : v = s[i]
      BY <1>2 DEF Values
    <3>2. i \in DOMAIN t /\ t[i] = v
      BY <1>2, <1>3, <3>1
    <3> QED BY <3>2 DEF Values
  <2>3. x \in Values(t)
    <3>1. Len(s) + 1 \in DOMAIN t
      BY <1>2, <1>3
    <3> QED BY <1>2, <3>1 DEF Values
  <2> QED BY <2>1, <2>2, <2>3
<1>5. IsList(t)
  BY <1>2, SequencesAreLists
<1> QED BY <1>2, <1>3, <1>4, <1>5 DEF t

-----------------------------------------------------------------------------
(***************************************************************************)
(* What the log says when it grows by one event.                           *)
(***************************************************************************)
\* The attempt of whatever comes next.
Current(l) == AttemptAt(l, Len(l) + 1)

LEMMA PositionsIn ==
  ASSUME NEW l, IsList(l), NEW type
  PROVE  Len(l) \in Nat /\ DOMAIN l = 1..Len(l) /\ Positions(l, type) \subseteq 1..Len(l)
<1>1. Len(l) \in Nat /\ DOMAIN l = 1..Len(l)
  BY AppendList
<1> QED BY <1>1 DEF Positions

LEMMA PositionsGrow ==
  ASSUME NEW l, IsList(l), NEW e, NEW type
  PROVE  /\ Closed(l) => Positions(Append(l, e), type) = Positions(l, type)
         /\ ~Closed(l) => Positions(Append(l, e), type) =
                            Positions(l, type) \cup (IF e.type = type THEN {Len(l) + 1} ELSE {})
<1> DEFINE m == Append(l, e)
<1>1. /\ Len(l) \in Nat /\ DOMAIN l = 1..Len(l) /\ DOMAIN m = 1..(Len(l) + 1)
      /\ \A i \in 1..Len(l) : m[i] = l[i]
      /\ m[Len(l) + 1] = e
  BY AppendList
<1> HIDE DEF m
<1>2. ASSUME NEW i \in 1..Len(l) PROVE Counts(m, i) <=> Counts(l, i)
  <2>1. \A j \in 1..(i - 1) : j \in 1..Len(l)
    BY <1>1
  <2> QED BY <1>1, <2>1 DEF Counts
<1>3. \A i \in 1..Len(l) : i \in Positions(m, type) <=> i \in Positions(l, type)
  BY <1>1, <1>2 DEF Positions
<1>4. Counts(m, Len(l) + 1) <=> ~Closed(l)
  <2>1. Counts(m, Len(l) + 1) <=> \A j \in 1..Len(l) : l[j].type # "RUN_ENDED"
    BY <1>1 DEF Counts
  <2>2. ASSUME NEW j \in 1..Len(l), l[j].type = "RUN_ENDED" PROVE Closed(l)
    <3> DEFINE ends == {k \in 1..Len(l) : l[k].type = "RUN_ENDED"}
    <3>1. ends # {} /\ ends \subseteq 1..Len(l)
      BY <2>2
    <3>2. \A k : k \in ends <=> k \in 1..Len(l) /\ l[k].type = "RUN_ENDED"
      OBVIOUS
    <3> HIDE DEF ends
    <3>3. PICK first \in ends : \A k \in ends : first <= k
      BY <1>1, <3>1, EarliestIs
    <3>4. first \in 1..Len(l) /\ l[first].type = "RUN_ENDED"
      BY <3>2
    <3>5. ASSUME NEW k \in 1..(first - 1) PROVE l[k].type # "RUN_ENDED"
      <4>1. k \in 1..Len(l) /\ ~(first <= k)
        BY <1>1, <3>4
      <4> QED BY <3>2, <3>3, <4>1
    <3>6. first \in Positions(l, "RUN_ENDED")
      BY <1>1, <3>4, <3>5 DEF Positions, Counts
    <3> QED BY <3>6 DEF Closed
  <2>3. ASSUME Closed(l) PROVE \E j \in 1..Len(l) : l[j].type = "RUN_ENDED"
    BY <1>1, <2>3 DEF Closed, Positions
  <2> QED BY <2>1, <2>2, <2>3
<1>5. Len(l) + 1 \in Positions(m, type) <=> ~Closed(l) /\ e.type = type
  BY <1>1, <1>4 DEF Positions
<1>6. Positions(m, type) \subseteq 1..(Len(l) + 1) /\ Positions(l, type) \subseteq 1..Len(l)
  BY <1>1 DEF Positions
<1>7. \A i \in 1..(Len(l) + 1) : i \in 1..Len(l) \/ i = Len(l) + 1
  BY <1>1
<1>8. \A i : i \in Positions(m, type) <=>
               i \in Positions(l, type) \/ (i = Len(l) + 1 /\ ~Closed(l) /\ e.type = type)
  BY <1>1, <1>3, <1>5, <1>6, <1>7
<1> QED BY <1>8 DEF m

LEMMA AttemptsStay ==
  ASSUME NEW l, IsList(l), NEW e
  PROVE  \A i \in 1..(Len(l) + 1) : AttemptAt(Append(l, e), i) = AttemptAt(l, i)
<1> SUFFICES ASSUME NEW i \in 1..(Len(l) + 1) PROVE AttemptAt(Append(l, e), i) = AttemptAt(l, i)
  OBVIOUS
<1> DEFINE m == Append(l, e)
           declared == {j \in Positions(l, "ATTEMPT_STARTED") : j < i}
<1>1. Len(l) \in Nat /\ \A j \in 1..Len(l) : m[j] = l[j]
  BY AppendList
<1>2. Positions(l, "ATTEMPT_STARTED") \subseteq 1..Len(l)
  BY PositionsIn
<1>3. {j \in Positions(m, "ATTEMPT_STARTED") : j < i} = declared
  BY <1>1, PositionsGrow
<1>4. declared # {} => Latest(declared) \in 1..Len(l)
  <2>1. declared \subseteq 1..Len(l)
    BY <1>2
  <2> HIDE DEF declared
  <2> QED BY <1>1, <2>1, LatestIs
<1> HIDE DEF m
<1>5. AttemptAt(m, i) = IF declared = {} THEN 0 ELSE m[Latest(declared)].n
  BY <1>3 DEF AttemptAt
<1>6. AttemptAt(l, i) = IF declared = {} THEN 0 ELSE l[Latest(declared)].n
  BY DEF AttemptAt
<1> HIDE DEF declared
<1> QED BY <1>1, <1>4, <1>5, <1>6 DEF m

LEMMA WithinGrows ==
  ASSUME NEW l, IsList(l), NEW e, NEW type, NEW a
  PROVE  Within(Append(l, e), type, a) =
           Within(l, type, a) \cup
             (IF ~Closed(l) /\ e.type = type /\ Current(l) = a THEN {Len(l) + 1} ELSE {})
<1>1. Len(l) \in Nat /\ Positions(l, type) \subseteq 1..Len(l)
  BY PositionsIn
<1>2. /\ \A i \in 1..Len(l) : AttemptAt(Append(l, e), i) = AttemptAt(l, i)
      /\ AttemptAt(Append(l, e), Len(l) + 1) = Current(l)
  BY <1>1, AttemptsStay DEF Current
<1>3. Positions(Append(l, e), type) =
        Positions(l, type) \cup (IF ~Closed(l) /\ e.type = type THEN {Len(l) + 1} ELSE {})
  BY PositionsGrow
<1> QED BY <1>1, <1>2, <1>3 DEF Within

LEMMA CurrentGrows ==
  ASSUME NEW l, IsList(l), NEW e
  PROVE  Current(Append(l, e)) =
           IF ~Closed(l) /\ e.type = "ATTEMPT_STARTED" THEN e.n ELSE Current(l)
<1> DEFINE m == Append(l, e)
           before == Positions(l, "ATTEMPT_STARTED")
           after == Positions(m, "ATTEMPT_STARTED")
<1>1. /\ Len(l) \in Nat /\ Len(m) = Len(l) + 1 /\ m[Len(l) + 1] = e
      /\ \A i \in 1..Len(l) : m[i] = l[i]
  BY AppendList
<1>2. before \subseteq 1..Len(l)
  BY PositionsIn
<1>3. after = before \cup
        (IF ~Closed(l) /\ e.type = "ATTEMPT_STARTED" THEN {Len(l) + 1} ELSE {})
  BY PositionsGrow
<1>4. {j \in before : j < Len(l) + 1} = before /\ {j \in after : j < Len(m) + 1} = after
  BY <1>1, <1>2, <1>3
<1>5. Current(l) = IF before = {} THEN 0 ELSE l[Latest(before)].n
  BY <1>4 DEF Current, AttemptAt
<1> HIDE DEF m
<1>6. Current(m) = IF after = {} THEN 0 ELSE m[Latest(after)].n
  BY <1>4 DEF Current, AttemptAt
<1> HIDE DEF before, after
<1>7. CASE ~Closed(l) /\ e.type = "ATTEMPT_STARTED"
  <2>1. after = before \cup {Len(l) + 1}
    BY <1>3, <1>7
  <2>2. \A j \in after : j \in 1..(Len(l) + 1)
    BY <1>1, <1>2, <2>1
  <2>3. Len(l) + 1 \in Nat /\ after \subseteq 1..(Len(l) + 1) /\ Len(l) + 1 \in after /\ after # {}
    BY <1>1, <2>1, <2>2
  <2>4. Latest(after) \in after /\ \A j \in after : j <= Latest(after)
    BY <2>3, LatestIs
  <2>5. Latest(after) \in 1..(Len(l) + 1) /\ Len(l) + 1 <= Latest(after)
    BY <2>2, <2>3, <2>4
  <2>6. Latest(after) = Len(l) + 1
    BY <1>1, <2>5
  <2> QED BY <1>1, <1>6, <1>7, <2>3, <2>6 DEF m
<1>8. CASE ~(~Closed(l) /\ e.type = "ATTEMPT_STARTED")
  <2>1. after = before
    BY <1>3, <1>8
  <2>2. before # {} => Latest(before) \in 1..Len(l)
    BY <1>1, <1>2, LatestIs
  <2> QED BY <1>1, <1>5, <1>6, <1>8, <2>1, <2>2 DEF m
<1> QED BY <1>7, <1>8

\* What was there stays where it was and says what it said.
LEMMA OldPositions ==
  ASSUME NEW l, IsList(l), NEW e, NEW type
  PROVE  \A i \in Positions(l, type) :
           /\ i \in 1..Len(l) /\ i # Len(l) + 1
           /\ Append(l, e)[i] = l[i] /\ AttemptAt(Append(l, e), i) = AttemptAt(l, i)
<1>1. Len(l) \in Nat /\ Positions(l, type) \subseteq 1..Len(l)
  BY PositionsIn
<1>2. \A i \in 1..Len(l) : Append(l, e)[i] = l[i] /\ AttemptAt(Append(l, e), i) = AttemptAt(l, i)
  BY <1>1, AppendList, AttemptsStay
<1> QED BY <1>1, <1>2

LEMMA ClosedGrows ==
  ASSUME NEW l, IsList(l), NEW e
  PROVE  Closed(Append(l, e)) <=> Closed(l) \/ e.type = "RUN_ENDED"
<1>1. CASE Closed(l)
  BY <1>1, PositionsGrow DEF Closed
<1>2. CASE ~Closed(l)
  <2>1. Positions(Append(l, e), "RUN_ENDED") =
          Positions(l, "RUN_ENDED") \cup (IF e.type = "RUN_ENDED" THEN {Len(l) + 1} ELSE {})
    BY <1>2, PositionsGrow
  <2> QED BY <1>2, <2>1 DEF Closed
<1> QED BY <1>1, <1>2

LEMMA JudgedBytesGrow ==
  ASSUME NEW l, IsList(l), NEW e, NEW a
  PROVE  JudgedBytes(Append(l, e), a) =
           IF ~Closed(l) /\ e.type = "REPRO_REGISTERED" /\ Current(l) = a
             THEN e.bytes ELSE JudgedBytes(l, a)
<1> DEFINE m == Append(l, e)
           before == Within(l, "REPRO_REGISTERED", a)
           after == Within(m, "REPRO_REGISTERED", a)
           more == ~Closed(l) /\ e.type = "REPRO_REGISTERED" /\ Current(l) = a
<1>1. /\ Len(l) \in Nat /\ m[Len(l) + 1] = e
      /\ \A i \in 1..Len(l) : m[i] = l[i]
  BY AppendList
<1>2. before \subseteq 1..Len(l)
  BY PositionsIn DEF Within
<1>3. after = before \cup (IF more THEN {Len(l) + 1} ELSE {})
  BY WithinGrows
<1>4. JudgedBytes(l, a) = IF before = {} THEN NoBytes ELSE l[Latest(before)].bytes
  BY DEF JudgedBytes
<1> HIDE DEF m
<1>5. JudgedBytes(m, a) = IF after = {} THEN NoBytes ELSE m[Latest(after)].bytes
  BY DEF JudgedBytes
<1> HIDE DEF before, after, more
<1>6. CASE more
  <2>1. after = before \cup {Len(l) + 1}
    BY <1>3, <1>6
  <2>2. \A j \in after : j \in 1..(Len(l) + 1)
    BY <1>1, <1>2, <2>1
  <2>3. Len(l) + 1 \in Nat /\ after \subseteq 1..(Len(l) + 1) /\ Len(l) + 1 \in after /\ after # {}
    BY <1>1, <2>1, <2>2
  <2>4. Latest(after) \in after /\ \A j \in after : j <= Latest(after)
    BY <2>3, LatestIs
  <2>5. Latest(after) \in 1..(Len(l) + 1) /\ Len(l) + 1 <= Latest(after)
    BY <2>2, <2>3, <2>4
  <2>6. Latest(after) = Len(l) + 1
    BY <1>1, <2>5
  <2> QED BY <1>1, <1>5, <1>6, <2>3, <2>6 DEF m, more
<1>7. CASE ~more
  <2>1. after = before
    BY <1>3, <1>7
  <2>2. before # {} => Latest(before) \in 1..Len(l)
    BY <1>1, <1>2, LatestIs
  <2> QED BY <1>1, <1>4, <1>5, <1>7, <2>1, <2>2 DEF m, more
<1> QED BY <1>6, <1>7

LEMMA SeriesClosedGrows ==
  ASSUME NEW l, IsList(l), NEW e, NEW a
  PROVE  SeriesClosed(Append(l, e), a) <=>
           \/ SeriesClosed(l, a)
           \/ /\ ~Closed(l) /\ Current(l) = a
              /\ \/ e.type = "FIX_DIFF_OBSERVED"
                 \/ e.type = "VERIFICATION_ABORTED" /\ WitnessesCompletion(e, e)
<1> DEFINE m == Append(l, e)
           witness(k, i) == k[i].cause = "none" /\ k[i].phase \in {"diff", "cleanup"}
           diffs == Within(l, "FIX_DIFF_OBSERVED", a)
           aborts == Within(l, "VERIFICATION_ABORTED", a)
<1>1. /\ Within(m, "FIX_DIFF_OBSERVED", a) =
           diffs \cup (IF ~Closed(l) /\ e.type = "FIX_DIFF_OBSERVED" /\ Current(l) = a
                         THEN {Len(l) + 1} ELSE {})
      /\ Within(m, "VERIFICATION_ABORTED", a) =
           aborts \cup (IF ~Closed(l) /\ e.type = "VERIFICATION_ABORTED" /\ Current(l) = a
                          THEN {Len(l) + 1} ELSE {})
  BY WithinGrows
<1>2. m[Len(l) + 1] = e /\ \A i \in aborts : m[i] = l[i]
  BY AppendList, OldPositions DEF Within
<1>3. SeriesClosed(l, a) <=> diffs # {} \/ \E i \in aborts : witness(l, i)
  BY DEF SeriesClosed
<1> HIDE DEF m
<1>4. SeriesClosed(m, a) <=> \/ Within(m, "FIX_DIFF_OBSERVED", a) # {}
                             \/ \E i \in Within(m, "VERIFICATION_ABORTED", a) : witness(m, i)
  BY DEF SeriesClosed
<1>5. WitnessesCompletion(e, e) <=> witness(m, Len(l) + 1)
  BY <1>2 DEF WitnessesCompletion
<1>6. \A i \in aborts : witness(m, i) <=> witness(l, i)
  BY <1>2
<1> HIDE DEF witness, diffs, aborts
<1> QED BY <1>1, <1>3, <1>4, <1>5, <1>6 DEF m

\* The commit handed over last as a fix.
FixHandOvers(l) == {i \in Positions(l, "AGENT_HANDED_OVER") : l[i].kind # "repro"}
CommitHandedOver(l) ==
  IF FixHandOvers(l) = {} THEN NoCommit ELSE l[Latest(FixHandOvers(l))].commit

LEMMA CommitHandedOverGrows ==
  ASSUME NEW l, IsList(l), NEW e
  PROVE  CommitHandedOver(Append(l, e)) =
           IF ~Closed(l) /\ e.type = "AGENT_HANDED_OVER" /\ e.kind # "repro"
             THEN e.commit ELSE CommitHandedOver(l)
<1> DEFINE m == Append(l, e)
           before == FixHandOvers(l)
           after == FixHandOvers(m)
           more == ~Closed(l) /\ e.type = "AGENT_HANDED_OVER" /\ e.kind # "repro"
<1>1. /\ Len(l) \in Nat /\ m[Len(l) + 1] = e
      /\ \A i \in 1..Len(l) : m[i] = l[i]
  BY AppendList
<1>2. before \subseteq 1..Len(l)
  BY PositionsIn DEF FixHandOvers
<1>3. after = before \cup (IF more THEN {Len(l) + 1} ELSE {})
  <2>1. Positions(m, "AGENT_HANDED_OVER") =
          Positions(l, "AGENT_HANDED_OVER") \cup
            (IF ~Closed(l) /\ e.type = "AGENT_HANDED_OVER" THEN {Len(l) + 1} ELSE {})
    BY PositionsGrow
  <2>2. \A i \in Positions(l, "AGENT_HANDED_OVER") : m[i] = l[i]
    BY OldPositions
  <2> HIDE DEF m
  <2> QED BY <1>1, <2>1, <2>2 DEF FixHandOvers
<1>4. CommitHandedOver(l) = IF before = {} THEN NoCommit ELSE l[Latest(before)].commit
  BY DEF CommitHandedOver
<1> HIDE DEF m
<1>5. CommitHandedOver(m) = IF after = {} THEN NoCommit ELSE m[Latest(after)].commit
  BY DEF CommitHandedOver
<1> HIDE DEF before, after, more
<1>6. CASE more
  <2>1. after = before \cup {Len(l) + 1}
    BY <1>3, <1>6
  <2>2. \A j \in after : j \in 1..(Len(l) + 1)
    BY <1>1, <1>2, <2>1
  <2>3. Len(l) + 1 \in Nat /\ after \subseteq 1..(Len(l) + 1) /\ Len(l) + 1 \in after /\ after # {}
    BY <1>1, <2>1, <2>2
  <2>4. Latest(after) \in after /\ \A j \in after : j <= Latest(after)
    BY <2>3, LatestIs
  <2>5. Latest(after) \in 1..(Len(l) + 1) /\ Len(l) + 1 <= Latest(after)
    BY <2>2, <2>3, <2>4
  <2>6. Latest(after) = Len(l) + 1
    BY <1>1, <2>5
  <2> QED BY <1>1, <1>5, <1>6, <2>3, <2>6 DEF m, more
<1>7. CASE ~more
  <2>1. after = before
    BY <1>3, <1>7
  <2>2. before # {} => Latest(before) \in 1..Len(l)
    BY <1>1, <1>2, LatestIs
  <2> QED BY <1>1, <1>4, <1>5, <1>7, <2>1, <2>2 DEF m, more
<1> QED BY <1>6, <1>7

LEMMA AgentWroteGrows ==
  ASSUME NEW l, IsList(l), NEW e
  PROVE  AgentWrote(Append(l, e)) <=>
           \/ AgentWrote(l)
           \/ /\ ~Closed(l)
              /\ \/ e.type = "AGENT_HANDED_OVER" /\ e.kind # "fix"
                 \/ e.type = "TEST_RUN" /\ e.phase = "control"
<1> DEFINE m == Append(l, e)
           hands == Positions(l, "AGENT_HANDED_OVER")
           tests == Positions(l, "TEST_RUN")
<1>1. /\ Positions(m, "AGENT_HANDED_OVER") =
           hands \cup (IF ~Closed(l) /\ e.type = "AGENT_HANDED_OVER" THEN {Len(l) + 1} ELSE {})
      /\ Positions(m, "TEST_RUN") =
           tests \cup (IF ~Closed(l) /\ e.type = "TEST_RUN" THEN {Len(l) + 1} ELSE {})
  BY PositionsGrow
<1>2. m[Len(l) + 1] = e
  BY AppendList
<1>3. (\A i \in hands : m[i] = l[i]) /\ (\A i \in tests : m[i] = l[i])
  BY OldPositions
<1> HIDE DEF m
<1> QED BY <1>1, <1>2, <1>3 DEF AgentWrote, m

-----------------------------------------------------------------------------
(***************************************************************************)
(* The lists of the state.                                                 *)
(***************************************************************************)
LEMMA RegisteredBytesGrow ==
  ASSUME NEW regs, IsList(regs), NEW r, NEW a
  PROVE  RegisteredBytes(Append(regs, r), a) =
           IF r.attempt = a THEN r.bytes ELSE RegisteredBytes(regs, a)
<1> DEFINE m == Append(regs, r)
           before == {i \in DOMAIN regs : regs[i].attempt = a}
           after == {i \in DOMAIN m : m[i].attempt = a}
<1>1. /\ Len(regs) \in Nat /\ DOMAIN regs = 1..Len(regs) /\ DOMAIN m = 1..(Len(regs) + 1)
      /\ m[Len(regs) + 1] = r
      /\ \A i \in 1..Len(regs) : m[i] = regs[i]
  BY AppendList
<1>2. before \subseteq 1..Len(regs)
  BY <1>1
<1>3. RegisteredBytes(regs, a) = IF before = {} THEN NoBytes ELSE regs[Latest(before)].bytes
  BY DEF RegisteredBytes
<1> HIDE DEF m
<1>4. RegisteredBytes(m, a) = IF after = {} THEN NoBytes ELSE m[Latest(after)].bytes
  BY DEF RegisteredBytes
<1>5. \A i \in 1..(Len(regs) + 1) : i \in 1..Len(regs) \/ i = Len(regs) + 1
  BY <1>1
<1>6. after = before \cup (IF r.attempt = a THEN {Len(regs) + 1} ELSE {})
  <2>1. \A i \in 1..Len(regs) : i \in after <=> i \in before
    BY <1>1
  <2>2. Len(regs) + 1 \in after <=> r.attempt = a
    BY <1>1
  <2>3. after \subseteq 1..(Len(regs) + 1)
    BY <1>1
  <2>4. \A i : i \in after <=> i \in before \/ (i = Len(regs) + 1 /\ r.attempt = a)
    BY <1>2, <1>5, <2>1, <2>2, <2>3
  <2> HIDE DEF before, after
  <2> QED BY <2>4
<1> HIDE DEF before, after
<1>7. CASE r.attempt = a
  <2>1. after = before \cup {Len(regs) + 1}
    BY <1>6, <1>7
  <2>2. \A j \in after : j \in 1..(Len(regs) + 1)
    BY <1>1, <1>2, <2>1
  <2>3. /\ Len(regs) + 1 \in Nat /\ after \subseteq 1..(Len(regs) + 1)
        /\ Len(regs) + 1 \in after /\ after # {}
    BY <1>1, <2>1, <2>2
  <2>4. Latest(after) \in after /\ \A j \in after : j <= Latest(after)
    BY <2>3, LatestIs
  <2>5. Latest(after) \in 1..(Len(regs) + 1) /\ Len(regs) + 1 <= Latest(after)
    BY <2>2, <2>3, <2>4
  <2>6. Latest(after) = Len(regs) + 1
    BY <1>1, <2>5
  <2> QED BY <1>1, <1>4, <1>7, <2>3, <2>6 DEF m
<1>8. CASE r.attempt # a
  <2>1. after = before
    BY <1>6, <1>8
  <2>2. before # {} => Latest(before) \in 1..Len(regs)
    BY <1>1, <1>2, LatestIs
  <2> QED BY <1>1, <1>3, <1>4, <1>8, <2>1, <2>2 DEF m
<1> QED BY <1>7, <1>8

\* The verdict is a function of the lists.
LEMMA VerdictDependsOn ==
  ASSUME NEW s, NEW t,
         s.runs = t.runs, s.registrations = t.registrations, s.aborts = t.aborts,
         s.handovers = t.handovers, s.completed = t.completed
  PROVE  Demonstrated(s) = Demonstrated(t) /\ ReproducedAttempt(s) = ReproducedAttempt(t)
<1>1. \A run : Qualifies(s, run) <=> Qualifies(t, run)
  BY DEF Qualifies
<1>2. Demonstrated(s) = Demonstrated(t)
  BY <1>1 DEF Demonstrated
<1>3. \A a : Vouched(s, a) <=> Vouched(t, a)
  BY DEF Vouched
<1>4. ReproducedAttempt(s) = ReproducedAttempt(t)
  BY <1>2, <1>3 DEF ReproducedAttempt
<1> QED BY <1>2, <1>4

\* A state that has been judged as its lists are.
Judged(st) == st.shown = Demonstrated(st) /\ st.credited = ReproducedAttempt(st)

\* The fields that say what was recorded, and those that say how the run stands.
SameLists(s, t) ==
  /\ s.runs = t.runs /\ s.suites = t.suites /\ s.registrations = t.registrations
  /\ s.handovers = t.handovers /\ s.aborts = t.aborts /\ s.completed = t.completed
  /\ s.byAgent = t.byAgent /\ s.handedOver = t.handedOver
SameEnd(s, t) == s.ended = t.ended /\ s.pr = t.pr

LEMMA CreditedIsJudged ==
  ASSUME NEW st, DOMAIN st = DOMAIN InitialState
  PROVE  LET c == Credited(st) IN
         /\ DOMAIN c = DOMAIN st /\ Judged(c) /\ SameLists(c, st) /\ SameEnd(c, st)
         /\ c.attempt = st.attempt /\ c.handedOver = st.handedOver /\ c.status = st.status
<1> DEFINE c == Credited(st)
           credited == ReproducedAttempt(st)
           shown == Demonstrated(st)
<1>1. c = [st EXCEPT !.credited = credited, !.shown = shown]
  BY DEF Credited
<1> HIDE DEF c, credited, shown
<1>2. /\ DOMAIN c = DOMAIN st /\ SameLists(c, st) /\ SameEnd(c, st)
      /\ c.attempt = st.attempt /\ c.handedOver = st.handedOver /\ c.status = st.status
      /\ c.credited = credited /\ c.shown = shown
  BY <1>1 DEF SameLists, SameEnd, InitialState
<1>3. Demonstrated(c) = Demonstrated(st) /\ ReproducedAttempt(c) = ReproducedAttempt(st)
  BY <1>2, VerdictDependsOn DEF SameLists
<1> QED BY <1>2, <1>3 DEF Judged, c, credited, shown

LEMMA RegressedIsJudged ==
  ASSUME NEW st, DOMAIN st = DOMAIN InitialState, Judged(st)
  PROVE  LET c == Regressed(st) IN
         /\ DOMAIN c = DOMAIN st /\ Judged(c) /\ SameLists(c, st) /\ SameEnd(c, st)
         /\ c.attempt = st.attempt /\ c.handedOver = st.handedOver /\ c.status = st.status
<1> DEFINE c == Regressed(st)
           measured == RegressionOf(st.suites, IF st.credited # 0 THEN st.credited ELSE st.attempt)
<1>1. c = [st EXCEPT !.regression = measured]
  BY DEF Regressed
<1> HIDE DEF c, measured
<1>2. /\ DOMAIN c = DOMAIN st /\ SameLists(c, st) /\ SameEnd(c, st)
      /\ c.attempt = st.attempt /\ c.handedOver = st.handedOver /\ c.status = st.status
      /\ c.credited = st.credited /\ c.shown = st.shown
  BY <1>1 DEF SameLists, SameEnd, InitialState
<1>3. Demonstrated(c) = Demonstrated(st) /\ ReproducedAttempt(c) = ReproducedAttempt(st)
  BY <1>2, VerdictDependsOn DEF SameLists
<1> QED BY <1>2, <1>3 DEF Judged, c

LEMMA InitialIsJudged == Judged(InitialState)
<1>1. Demonstrated(InitialState) = {}
  BY DEF Demonstrated, InitialState
<1>2. ReproducedAttempt(InitialState) = 0
  BY DEF ReproducedAttempt, InitialState
<1> QED BY <1>1, <1>2 DEF Judged, InitialState

-----------------------------------------------------------------------------
(***************************************************************************)
(* What each event does to the lists.                                      *)
(***************************************************************************)
Steady(s, t) == DOMAIN s = DOMAIN InitialState /\ Judged(s) /\ SameEnd(s, t) /\ s.status = t.status

LEMMA RegisterDoes ==
  ASSUME NEW st, DOMAIN st = DOMAIN InitialState, NEW e
  PROVE  LET new == Register(st, e) IN
         /\ Steady(new, st) /\ new.attempt = st.attempt /\ new.handedOver = st.handedOver
         /\ new.registrations =
              Append(st.registrations, [attempt |-> st.attempt, bytes |-> e.bytes])
         /\ new.runs = st.runs /\ new.suites = st.suites /\ new.handovers = st.handovers
         /\ new.aborts = st.aborts /\ new.completed = st.completed /\ new.byAgent = st.byAgent
<1> DEFINE r == [attempt |-> st.attempt, bytes |-> e.bytes]
           noted == [st EXCEPT !.registrations = Append(@, r)]
<1>1. Register(st, e) = Credited(noted)
  BY DEF Register
<1> HIDE DEF r
<1>2. /\ DOMAIN noted = DOMAIN st /\ SameEnd(noted, st)
      /\ noted.attempt = st.attempt /\ noted.registrations = Append(st.registrations, r)
      /\ noted.handedOver = st.handedOver /\ noted.status = st.status
      /\ noted.runs = st.runs /\ noted.suites = st.suites /\ noted.handovers = st.handovers
      /\ noted.aborts = st.aborts /\ noted.completed = st.completed
      /\ noted.byAgent = st.byAgent
  BY DEF SameEnd, InitialState
<1> HIDE DEF noted
<1> QED BY <1>1, <1>2, CreditedIsJudged DEF Steady, SameEnd, SameLists, r

LEMMA HandOverDoes ==
  ASSUME NEW st, DOMAIN st = DOMAIN InitialState, NEW e
  PROVE  LET new == HandOver(st, e)
             kind == IF e.kind = "repro" THEN "repro" ELSE "fix" IN
         /\ Steady(new, st) /\ new.attempt = st.attempt
         /\ new.handedOver = (IF kind = "repro" THEN st.handedOver ELSE e.commit)
         /\ new.handovers = Append(st.handovers,
                              [attempt |-> st.attempt, kind |-> kind, commit |-> e.commit])
         /\ new.byAgent = Authored(st, e)
         /\ new.runs = st.runs /\ new.suites = st.suites /\ new.aborts = st.aborts
         /\ new.registrations = st.registrations /\ new.completed = st.completed
<1> DEFINE kind == IF e.kind = "repro" THEN "repro" ELSE "fix"
           h == [attempt |-> st.attempt, kind |-> kind, commit |-> e.commit]
           over == IF kind = "repro" THEN st.handedOver ELSE e.commit
           by == Authored(st, e)
           handed == HandedOver(st, e)
           noted == [handed EXCEPT !.byAgent = by]
<1>1. HandOver(st, e) = Credited(noted)
  BY DEF HandOver
<1>2. handed = [st EXCEPT !.handedOver = over, !.handovers = Append(@, h)]
  BY DEF HandedOver
<1> HIDE DEF h, over, by, handed
<1>3. /\ DOMAIN handed = DOMAIN st /\ SameEnd(handed, st)
      /\ handed.attempt = st.attempt /\ handed.handedOver = over /\ handed.status = st.status
      /\ handed.handovers = Append(st.handovers, h)
      /\ handed.runs = st.runs /\ handed.suites = st.suites /\ handed.aborts = st.aborts
      /\ handed.registrations = st.registrations /\ handed.completed = st.completed
  BY <1>2 DEF SameEnd, InitialState
<1>4. /\ DOMAIN noted = DOMAIN handed /\ SameEnd(noted, handed)
      /\ noted.attempt = handed.attempt /\ noted.handedOver = handed.handedOver
      /\ noted.status = handed.status
      /\ noted.handovers = handed.handovers /\ noted.byAgent = by
      /\ noted.runs = handed.runs /\ noted.suites = handed.suites
      /\ noted.aborts = handed.aborts
      /\ noted.registrations = handed.registrations /\ noted.completed = handed.completed
  BY <1>3 DEF SameEnd, InitialState
<1> HIDE DEF noted
<1> QED BY <1>1, <1>3, <1>4, CreditedIsJudged DEF Steady, SameEnd, SameLists, h, over, by

LEMMA TestRunDoes ==
  ASSUME NEW st, DOMAIN st = DOMAIN InitialState, NEW e
  PROVE  LET new == TestRun(st, e) IN
         /\ Steady(new, st) /\ new.attempt = st.attempt /\ new.handedOver = st.handedOver
         /\ new.runs = Append(st.runs,
              [attempt |-> st.attempt, phase |-> e.phase, commit |-> e.commit,
               result |-> e.result, matched |-> e.matched, bytes |-> e.bytes])
         /\ new.byAgent = (st.byAgent \/ e.phase = "control")
         /\ new.registrations = st.registrations /\ new.suites = st.suites
         /\ new.handovers = st.handovers /\ new.aborts = st.aborts
         /\ new.completed = st.completed
<1> DEFINE r == [attempt |-> st.attempt, phase |-> e.phase, commit |-> e.commit,
                 result |-> e.result, matched |-> e.matched, bytes |-> e.bytes]
           control == e.phase = "control"
           noted == [st EXCEPT !.runs = Append(@, r), !.byAgent = @ \/ control]
<1>1. TestRun(st, e) = Credited(noted)
  BY DEF TestRun
<1> HIDE DEF r, control
<1>2. /\ DOMAIN noted = DOMAIN st /\ SameEnd(noted, st)
      /\ noted.attempt = st.attempt /\ noted.runs = Append(st.runs, r)
      /\ noted.byAgent = (st.byAgent \/ control)
      /\ noted.handedOver = st.handedOver /\ noted.status = st.status
      /\ noted.registrations = st.registrations /\ noted.suites = st.suites
      /\ noted.handovers = st.handovers
      /\ noted.aborts = st.aborts /\ noted.completed = st.completed
  BY DEF SameEnd, InitialState
<1> HIDE DEF noted
<1> QED BY <1>1, <1>2, CreditedIsJudged DEF Steady, SameEnd, SameLists, r, control

LEMMA SuiteRunDoes ==
  ASSUME NEW st, DOMAIN st = DOMAIN InitialState, Judged(st), NEW e
  PROVE  LET new == SuiteRun(st, e) IN
         /\ Steady(new, st) /\ new.attempt = st.attempt /\ new.handedOver = st.handedOver
         /\ new.suites = Append(st.suites,
              [attempt |-> st.attempt, phase |-> e.phase, result |-> e.result])
         /\ new.registrations = st.registrations /\ new.runs = st.runs
         /\ new.handovers = st.handovers /\ new.aborts = st.aborts
         /\ new.completed = st.completed /\ new.byAgent = st.byAgent
<1> DEFINE r == [attempt |-> st.attempt, phase |-> e.phase, result |-> e.result]
           noted == [st EXCEPT !.suites = Append(@, r)]
<1>1. SuiteRun(st, e) = Regressed(noted)
  BY DEF SuiteRun
<1> HIDE DEF r
<1>2. /\ DOMAIN noted = DOMAIN st /\ SameEnd(noted, st)
      /\ noted.attempt = st.attempt /\ noted.suites = Append(st.suites, r)
      /\ noted.handedOver = st.handedOver /\ noted.status = st.status
      /\ noted.registrations = st.registrations /\ noted.runs = st.runs
      /\ noted.handovers = st.handovers
      /\ noted.aborts = st.aborts /\ noted.completed = st.completed
      /\ noted.byAgent = st.byAgent
      /\ noted.shown = st.shown /\ noted.credited = st.credited
  BY DEF SameEnd, InitialState
<1> HIDE DEF noted
<1>3. Judged(noted)
  BY <1>2, VerdictDependsOn DEF Judged
<1> QED BY <1>1, <1>2, <1>3, RegressedIsJudged DEF Steady, SameEnd, SameLists, r

LEMMA DiffObservedDoes ==
  ASSUME NEW st, DOMAIN st = DOMAIN InitialState, NEW e
  PROVE  LET new == DiffObserved(st, e) IN
         /\ Steady(new, st) /\ new.attempt = st.attempt /\ new.handedOver = st.handedOver
         /\ new.completed = st.completed \cup {st.attempt}
         /\ new.registrations = st.registrations /\ new.runs = st.runs
         /\ new.suites = st.suites /\ new.handovers = st.handovers
         /\ new.aborts = st.aborts /\ new.byAgent = st.byAgent
<1> DEFINE done == st.completed \cup {st.attempt}
           noted == [st EXCEPT !.completed = done]
           c == Credited(noted)
<1>1. DiffObserved(st, e) = Regressed(c)
  BY DEF DiffObserved
<1> HIDE DEF done
<1>2. /\ DOMAIN noted = DOMAIN st /\ SameEnd(noted, st)
      /\ noted.attempt = st.attempt /\ noted.completed = done
      /\ noted.handedOver = st.handedOver /\ noted.status = st.status
      /\ noted.registrations = st.registrations /\ noted.runs = st.runs
      /\ noted.suites = st.suites /\ noted.handovers = st.handovers
      /\ noted.aborts = st.aborts /\ noted.byAgent = st.byAgent
  BY DEF SameEnd, InitialState
<1> HIDE DEF noted
<1>3. /\ DOMAIN c = DOMAIN noted /\ Judged(c) /\ SameLists(c, noted) /\ SameEnd(c, noted)
      /\ c.attempt = noted.attempt /\ c.handedOver = noted.handedOver /\ c.status = noted.status
  BY <1>2, CreditedIsJudged
<1> HIDE DEF c
<1> QED BY <1>1, <1>2, <1>3, RegressedIsJudged DEF Steady, SameEnd, SameLists, done

LEMMA AbortDoes ==
  ASSUME NEW st, DOMAIN st = DOMAIN InitialState, NEW e
  PROVE  LET new == Abort(st, e) IN
         /\ Steady(new, st) /\ new.attempt = st.attempt /\ new.handedOver = st.handedOver
         /\ new.aborts = Append(st.aborts,
              [attempt |-> st.attempt, phase |-> e.phase, cause |-> e.cause])
         /\ new.completed = (IF WitnessesCompletion(st, e) THEN st.completed \cup {st.attempt}
                             ELSE st.completed)
         /\ new.registrations = st.registrations /\ new.runs = st.runs
         /\ new.suites = st.suites /\ new.handovers = st.handovers
         /\ new.byAgent = st.byAgent
<1> DEFINE r == [attempt |-> st.attempt, phase |-> e.phase, cause |-> e.cause]
           done == IF WitnessesCompletion(st, e) THEN st.completed \cup {st.attempt}
                   ELSE st.completed
           noted == [st EXCEPT !.aborts = Append(@, r), !.completed = done]
<1>1. Abort(st, e) = Credited(noted)
  BY DEF Abort
<1> HIDE DEF r, done
<1>2. /\ DOMAIN noted = DOMAIN st /\ SameEnd(noted, st)
      /\ noted.attempt = st.attempt /\ noted.completed = done
      /\ noted.aborts = Append(st.aborts, r)
      /\ noted.handedOver = st.handedOver /\ noted.status = st.status
      /\ noted.registrations = st.registrations /\ noted.runs = st.runs
      /\ noted.suites = st.suites /\ noted.handovers = st.handovers
      /\ noted.byAgent = st.byAgent
  BY DEF SameEnd, InitialState
<1> HIDE DEF noted
<1> QED BY <1>1, <1>2, CreditedIsJudged DEF Steady, SameEnd, SameLists, r, done

\* The events that touch no list.
LEMMA StandingDoes ==
  ASSUME NEW st, DOMAIN st = DOMAIN InitialState, Judged(st), NEW e, NEW new,
         \/ new = [st EXCEPT !.status = "attempting", !.attempt = e.n]
         \/ new = [st EXCEPT !.status = "requested"]
         \/ new = [st EXCEPT !.status = "sandbox_ready"]
         \/ new = [st EXCEPT !.status = "pr_opened", !.pr = TRUE]
         \/ new = End(st, e)
         \/ new = [st EXCEPT !.lastSeq = e.seq]
         \/ new = [st EXCEPT !.lastSeq = e.seq, !.afterEnd = @ + 1]
  PROVE  DOMAIN new = DOMAIN st /\ Judged(new) /\ SameLists(new, st)
<1> DEFINE said == CASE st.pr -> "pr_opened"
                     [] ~st.pr /\ e.reason = "error" -> "errored"
                     [] ~st.pr /\ e.reason = "blocked"
                          /\ (\E i \in DOMAIN st.aborts : st.aborts[i].cause = "missing_env")
                          /\ st.runs = <<>> /\ st.registrations = <<>> -> "blocked"
                     [] OTHER -> "unresolved"
<1>1. End(st, e) = [st EXCEPT !.ended = e.reason, !.status = said]
  BY DEF End
<1> HIDE DEF said
<1>2. /\ DOMAIN new = DOMAIN st /\ SameLists(new, st)
      /\ new.shown = st.shown /\ new.credited = st.credited
  <2> USE DEF SameLists, InitialState
  <2>1. CASE new = [st EXCEPT !.status = "attempting", !.attempt = e.n]
    BY <2>1
  <2>2. CASE new = [st EXCEPT !.status = "requested"]
    BY <2>2
  <2>3. CASE new = [st EXCEPT !.status = "sandbox_ready"]
    BY <2>3
  <2>4. CASE new = [st EXCEPT !.status = "pr_opened", !.pr = TRUE]
    BY <2>4
  <2>5. CASE new = End(st, e)
    BY <1>1, <2>5
  <2>6. CASE new = [st EXCEPT !.lastSeq = e.seq]
    BY <2>6
  <2>7. CASE new = [st EXCEPT !.lastSeq = e.seq, !.afterEnd = @ + 1]
    BY <2>7
  <2> QED BY <2>1, <2>2, <2>3, <2>4, <2>5, <2>6, <2>7
<1>3. Demonstrated(new) = Demonstrated(st) /\ ReproducedAttempt(new) = ReproducedAttempt(st)
  BY <1>2, VerdictDependsOn DEF SameLists
<1> QED BY <1>2, <1>3 DEF Judged

-----------------------------------------------------------------------------
(***************************************************************************)
(* The state against the log.                                              *)
(***************************************************************************)
\* What the state keeps of an event.
RunAt(l, i) ==
  [attempt |-> AttemptAt(l, i), phase |-> l[i].phase, commit |-> l[i].commit,
   result |-> l[i].result, matched |-> l[i].matched, bytes |-> l[i].bytes]
SuiteAt(l, i) == [attempt |-> AttemptAt(l, i), phase |-> l[i].phase, result |-> l[i].result]
AbortAt(l, i) == [attempt |-> AttemptAt(l, i), phase |-> l[i].phase, cause |-> l[i].cause]
HandOverAt(l, i) ==
  [attempt |-> AttemptAt(l, i), kind |-> IF l[i].kind = "repro" THEN "repro" ELSE "fix",
   commit |-> l[i].commit]

\* What the lists of a log's runs, suites, aborts and handovers hold, in any order.
RunsIn(l) == {RunAt(l, i) : i \in Positions(l, "TEST_RUN")}
SuitesIn(l) == {SuiteAt(l, i) : i \in Positions(l, "SUITE_RUN")}
AbortsIn(l) == {AbortAt(l, i) : i \in Positions(l, "VERIFICATION_ABORTED")}
HandOversIn(l) == {HandOverAt(l, i) : i \in Positions(l, "AGENT_HANDED_OVER")}

AreLists(st) ==
  /\ IsList(st.runs) /\ IsList(st.suites) /\ IsList(st.aborts) /\ IsList(st.handovers)
  /\ IsList(st.registrations)

\* The state holds what the log says, and has been judged since.
Listed(l, st) ==
  /\ DOMAIN st = DOMAIN InitialState
  /\ Judged(st)
  /\ AreLists(st)
  /\ st.attempt = Current(l)
  /\ Values(st.runs) = RunsIn(l)
  /\ Values(st.suites) = SuitesIn(l)
  /\ Values(st.aborts) = AbortsIn(l)
  /\ Values(st.handovers) = HandOversIn(l)
  /\ \A a : RegisteredBytes(st.registrations, a) = JudgedBytes(l, a)
  /\ \A a : a \in st.completed <=> SeriesClosed(l, a)
  /\ st.byAgent <=> AgentWrote(l)
  /\ st.handedOver = CommitHandedOver(l)

\* Two events that say the same, whatever their numbers.
SameNews(e, f) ==
  /\ e.type = f.type
  /\ e.type = "ATTEMPT_STARTED" => e.n = f.n
  /\ e.type = "REPRO_REGISTERED" => e.bytes = f.bytes
  /\ e.type = "AGENT_HANDED_OVER" => e.kind = f.kind /\ e.commit = f.commit
  /\ e.type = "TEST_RUN" =>
       /\ e.phase = f.phase /\ e.commit = f.commit /\ e.result = f.result
       /\ e.matched = f.matched /\ e.bytes = f.bytes
  /\ e.type = "SUITE_RUN" => e.phase = f.phase /\ e.result = f.result
  /\ e.type = "VERIFICATION_ABORTED" => e.phase = f.phase /\ e.cause = f.cause
  /\ e.type = "RUN_ENDED" => e.reason = f.reason

Grown(set, more, x) == set \cup (IF more THEN {x} ELSE {})

LEMMA ListsGrow ==
  ASSUME NEW l, IsList(l), NEW f
  PROVE  LET m == Append(l, f) IN
         /\ RunsIn(m) = Grown(RunsIn(l), ~Closed(l) /\ f.type = "TEST_RUN",
              [attempt |-> Current(l), phase |-> f.phase, commit |-> f.commit,
               result |-> f.result, matched |-> f.matched, bytes |-> f.bytes])
         /\ SuitesIn(m) = Grown(SuitesIn(l), ~Closed(l) /\ f.type = "SUITE_RUN",
              [attempt |-> Current(l), phase |-> f.phase, result |-> f.result])
         /\ AbortsIn(m) = Grown(AbortsIn(l), ~Closed(l) /\ f.type = "VERIFICATION_ABORTED",
              [attempt |-> Current(l), phase |-> f.phase, cause |-> f.cause])
         /\ HandOversIn(m) = Grown(HandOversIn(l), ~Closed(l) /\ f.type = "AGENT_HANDED_OVER",
              [attempt |-> Current(l), kind |-> IF f.kind = "repro" THEN "repro" ELSE "fix",
               commit |-> f.commit])
<1> DEFINE m == Append(l, f)
           here == Len(l) + 1
<1>1. Len(l) \in Nat /\ m[here] = f /\ AttemptAt(m, here) = Current(l)
  <2>1. Len(l) \in Nat /\ m[here] = f
    BY AppendList
  <2>2. here \in 1..here
    BY <2>1
  <2> QED BY <2>1, <2>2, AttemptsStay DEF Current
<1> HIDE DEF here
<1>2. ASSUME NEW type
      PROVE  /\ Positions(m, type) = Grown(Positions(l, type), ~Closed(l) /\ f.type = type, here)
             /\ \A i \in Positions(l, type) : m[i] = l[i] /\ AttemptAt(m, i) = AttemptAt(l, i)
  BY PositionsGrow, OldPositions DEF Grown, here
<1> HIDE DEF m
<1>3. RunsIn(m) = Grown(RunsIn(l), ~Closed(l) /\ f.type = "TEST_RUN", RunAt(m, here))
  <2>1. \A i \in Positions(l, "TEST_RUN") : RunAt(m, i) = RunAt(l, i)
    BY <1>2 DEF RunAt
  <2> QED BY <1>2, <2>1 DEF RunsIn, Grown
<1>4. SuitesIn(m) = Grown(SuitesIn(l), ~Closed(l) /\ f.type = "SUITE_RUN", SuiteAt(m, here))
  <2>1. \A i \in Positions(l, "SUITE_RUN") : SuiteAt(m, i) = SuiteAt(l, i)
    BY <1>2 DEF SuiteAt
  <2> QED BY <1>2, <2>1 DEF SuitesIn, Grown
<1>5. AbortsIn(m) = Grown(AbortsIn(l), ~Closed(l) /\ f.type = "VERIFICATION_ABORTED",
                          AbortAt(m, here))
  <2>1. \A i \in Positions(l, "VERIFICATION_ABORTED") : AbortAt(m, i) = AbortAt(l, i)
    BY <1>2 DEF AbortAt
  <2> QED BY <1>2, <2>1 DEF AbortsIn, Grown
<1>6. HandOversIn(m) = Grown(HandOversIn(l), ~Closed(l) /\ f.type = "AGENT_HANDED_OVER",
                             HandOverAt(m, here))
  <2>1. \A i \in Positions(l, "AGENT_HANDED_OVER") : HandOverAt(m, i) = HandOverAt(l, i)
    BY <1>2 DEF HandOverAt
  <2> QED BY <1>2, <2>1 DEF HandOversIn, Grown
<1>7. /\ RunAt(m, here) = [attempt |-> Current(l), phase |-> f.phase, commit |-> f.commit,
                           result |-> f.result, matched |-> f.matched, bytes |-> f.bytes]
      /\ SuiteAt(m, here) = [attempt |-> Current(l), phase |-> f.phase, result |-> f.result]
      /\ AbortAt(m, here) = [attempt |-> Current(l), phase |-> f.phase, cause |-> f.cause]
      /\ HandOverAt(m, here) =
           [attempt |-> Current(l), kind |-> IF f.kind = "repro" THEN "repro" ELSE "fix",
            commit |-> f.commit]
  BY <1>1 DEF RunAt, SuiteAt, AbortAt, HandOverAt
<1> QED BY <1>3, <1>4, <1>5, <1>6, <1>7 DEF m

\* What a step of the fold does that touches no list, on a log that says no more.
LEMMA ListedStays ==
  ASSUME NEW l, NEW st, Listed(l, st), NEW new,
         DOMAIN new = DOMAIN InitialState, Judged(new), SameLists(new, st),
         NEW m, new.attempt = Current(m),
         RunsIn(m) = RunsIn(l), SuitesIn(m) = SuitesIn(l), AbortsIn(m) = AbortsIn(l),
         HandOversIn(m) = HandOversIn(l),
         \A a : JudgedBytes(m, a) = JudgedBytes(l, a),
         \A a : SeriesClosed(m, a) <=> SeriesClosed(l, a),
         AgentWrote(m) <=> AgentWrote(l), CommitHandedOver(m) = CommitHandedOver(l)
  PROVE  Listed(m, new)
BY DEF Listed, SameLists, AreLists

Faithful(l, st) == Listed(l, st) /\ (st.ended = "no" <=> ~Closed(l))

\* An event nothing is kept of: no list grows.
LEMMA LogSaysNoMore ==
  ASSUME NEW l, IsList(l), NEW f,
         \/ Closed(l)
         \/ f.type \notin {"TEST_RUN", "SUITE_RUN", "VERIFICATION_ABORTED", "AGENT_HANDED_OVER",
                           "REPRO_REGISTERED", "FIX_DIFF_OBSERVED"}
  PROVE  LET m == Append(l, f) IN
         /\ RunsIn(m) = RunsIn(l) /\ SuitesIn(m) = SuitesIn(l) /\ AbortsIn(m) = AbortsIn(l)
         /\ HandOversIn(m) = HandOversIn(l)
         /\ \A a : JudgedBytes(m, a) = JudgedBytes(l, a)
         /\ \A a : SeriesClosed(m, a) <=> SeriesClosed(l, a)
         /\ AgentWrote(m) <=> AgentWrote(l)
         /\ CommitHandedOver(m) = CommitHandedOver(l)
<1>1. \A a : JudgedBytes(Append(l, f), a) = JudgedBytes(l, a)
  BY JudgedBytesGrow
<1>2. \A a : SeriesClosed(Append(l, f), a) <=> SeriesClosed(l, a)
  BY SeriesClosedGrows
<1>3. AgentWrote(Append(l, f)) <=> AgentWrote(l)
  BY AgentWroteGrows
<1>4. /\ RunsIn(Append(l, f)) = RunsIn(l) /\ SuitesIn(Append(l, f)) = SuitesIn(l)
      /\ AbortsIn(Append(l, f)) = AbortsIn(l) /\ HandOversIn(Append(l, f)) = HandOversIn(l)
  BY ListsGrow DEF Grown
<1>5. CommitHandedOver(Append(l, f)) = CommitHandedOver(l)
  BY CommitHandedOverGrows
<1> QED BY <1>1, <1>2, <1>3, <1>4, <1>5

LEMMA InterpretIsFaithful ==
  ASSUME NEW l, IsList(l), NEW st, Listed(l, st), NEW e, NEW f, SameNews(e, f), ~Closed(l)
  PROVE  Listed(Append(l, f), Interpret(st, e))
<1> DEFINE m == Append(l, f)
           new == Interpret(st, e)
<1>1. /\ DOMAIN st = DOMAIN InitialState /\ Judged(st) /\ st.attempt = Current(l)
      /\ e.type = f.type
  BY DEF Listed, SameNews
<1>2. Current(m) = IF f.type = "ATTEMPT_STARTED" THEN f.n ELSE Current(l)
  BY CurrentGrows
<1>3. /\ \A a : JudgedBytes(m, a) = IF f.type = "REPRO_REGISTERED" /\ Current(l) = a
                                      THEN f.bytes ELSE JudgedBytes(l, a)
      /\ \A a : SeriesClosed(m, a) <=>
           \/ SeriesClosed(l, a)
           \/ /\ Current(l) = a
              /\ \/ f.type = "FIX_DIFF_OBSERVED"
                 \/ f.type = "VERIFICATION_ABORTED" /\ WitnessesCompletion(f, f)
      /\ AgentWrote(m) <=> \/ AgentWrote(l)
                           \/ f.type = "AGENT_HANDED_OVER" /\ f.kind # "fix"
                           \/ f.type = "TEST_RUN" /\ f.phase = "control"
      /\ CommitHandedOver(m) = IF f.type = "AGENT_HANDED_OVER" /\ f.kind # "repro"
                                 THEN f.commit ELSE CommitHandedOver(l)
  BY JudgedBytesGrow, SeriesClosedGrows, AgentWroteGrows, CommitHandedOverGrows
<1>4. /\ RunsIn(m) = Grown(RunsIn(l), f.type = "TEST_RUN",
           [attempt |-> Current(l), phase |-> f.phase, commit |-> f.commit,
            result |-> f.result, matched |-> f.matched, bytes |-> f.bytes])
      /\ SuitesIn(m) = Grown(SuitesIn(l), f.type = "SUITE_RUN",
           [attempt |-> Current(l), phase |-> f.phase, result |-> f.result])
      /\ AbortsIn(m) = Grown(AbortsIn(l), f.type = "VERIFICATION_ABORTED",
           [attempt |-> Current(l), phase |-> f.phase, cause |-> f.cause])
      /\ HandOversIn(m) = Grown(HandOversIn(l), f.type = "AGENT_HANDED_OVER",
           [attempt |-> Current(l), kind |-> IF f.kind = "repro" THEN "repro" ELSE "fix",
            commit |-> f.commit])
  BY ListsGrow
<1> HIDE DEF m
<1>5. CASE f.type \notin {"TEST_RUN", "SUITE_RUN", "VERIFICATION_ABORTED", "AGENT_HANDED_OVER",
                          "REPRO_REGISTERED", "FIX_DIFF_OBSERVED"}
  <2>1. DOMAIN new = DOMAIN st /\ Judged(new) /\ SameLists(new, st)
    <3>1. CASE f.type = "ATTEMPT_STARTED"
      <4>1. new = [st EXCEPT !.status = "attempting", !.attempt = e.n]
        BY <1>1, <3>1 DEF Interpret
      <4> HIDE DEF new
      <4> QED BY <1>1, <4>1, StandingDoes
    <3>2. CASE f.type = "RUN_REQUESTED"
      <4>1. new = [st EXCEPT !.status = "requested"]
        BY <1>1, <3>2 DEF Interpret
      <4> HIDE DEF new
      <4> QED BY <1>1, <4>1, StandingDoes
    <3>3. CASE f.type = "SANDBOX_CREATED"
      <4>1. new = [st EXCEPT !.status = "sandbox_ready"]
        BY <1>1, <3>3 DEF Interpret
      <4> HIDE DEF new
      <4> QED BY <1>1, <4>1, StandingDoes
    <3>4. CASE f.type = "PR_OPENED"
      <4>1. new = [st EXCEPT !.status = "pr_opened", !.pr = TRUE]
        BY <1>1, <3>4 DEF Interpret
      <4> HIDE DEF new
      <4> QED BY <1>1, <4>1, StandingDoes
    <3>5. CASE f.type = "RUN_ENDED"
      <4>1. new = End(st, e)
        BY <1>1, <3>5 DEF Interpret
      <4> HIDE DEF new
      <4> QED BY <1>1, <4>1, StandingDoes
    <3>6. CASE f.type \notin {"ATTEMPT_STARTED", "RUN_REQUESTED", "SANDBOX_CREATED", "PR_OPENED",
                              "RUN_ENDED"}
      <4>1. new = st
        BY <1>1, <1>5, <3>6 DEF Interpret
      <4> QED BY <1>1, <4>1 DEF SameLists
    <3> QED BY <3>1, <3>2, <3>3, <3>4, <3>5, <3>6
  <2>2. new.attempt = Current(m)
    <3>1. CASE f.type = "ATTEMPT_STARTED"
      BY <1>1, <1>2, <3>1 DEF Interpret, InitialState, SameNews
    <3>2. CASE f.type # "ATTEMPT_STARTED"
      BY <1>1, <1>2, <1>5, <3>2 DEF Interpret, InitialState, End
    <3> QED BY <3>1, <3>2
  <2> HIDE DEF new
  <2>3. /\ RunsIn(m) = RunsIn(l) /\ SuitesIn(m) = SuitesIn(l) /\ AbortsIn(m) = AbortsIn(l)
        /\ HandOversIn(m) = HandOversIn(l)
        /\ \A a : JudgedBytes(m, a) = JudgedBytes(l, a)
        /\ \A a : SeriesClosed(m, a) <=> SeriesClosed(l, a)
        /\ AgentWrote(m) <=> AgentWrote(l)
        /\ CommitHandedOver(m) = CommitHandedOver(l)
    BY <1>5, LogSaysNoMore DEF m
  <2> QED BY <1>1, <2>1, <2>2, <2>3, ListedStays DEF m, new
<1>6. CASE f.type = "REPRO_REGISTERED"
  <2> DEFINE r == [attempt |-> st.attempt, bytes |-> e.bytes]
  <2>1. new = Register(st, e)
    BY <1>1, <1>6 DEF Interpret
  <2> HIDE DEF new
  <2>2. /\ Steady(new, st) /\ new.attempt = st.attempt
        /\ new.registrations = Append(st.registrations, r)
        /\ new.runs = st.runs /\ new.suites = st.suites /\ new.handovers = st.handovers
        /\ new.aborts = st.aborts /\ new.completed = st.completed /\ new.byAgent = st.byAgent
        /\ new.handedOver = st.handedOver
    BY <1>1, <2>1, RegisterDoes
  <2>3. /\ IsList(new.registrations)
        /\ \A a : RegisteredBytes(new.registrations, a) =
                    IF st.attempt = a THEN e.bytes ELSE RegisteredBytes(st.registrations, a)
    BY <2>2, AppendList, RegisteredBytesGrow DEF Listed, AreLists
  <2>4. e.bytes = f.bytes
    BY <1>1, <1>6 DEF SameNews
  <2> QED BY <1>1, <1>2, <1>3, <1>4, <1>6, <2>2, <2>3, <2>4
          DEF Listed, AreLists, Steady, Grown, m, new
<1>7. CASE f.type = "AGENT_HANDED_OVER"
  <2> DEFINE kind == IF e.kind = "repro" THEN "repro" ELSE "fix"
             h == [attempt |-> st.attempt, kind |-> kind, commit |-> e.commit]
  <2>1. new = HandOver(st, e)
    BY <1>1, <1>7 DEF Interpret
  <2> HIDE DEF new
  <2>2. /\ Steady(new, st) /\ new.attempt = st.attempt
        /\ new.handovers = Append(st.handovers, h)
        /\ new.byAgent = Authored(st, e)
        /\ new.runs = st.runs /\ new.suites = st.suites /\ new.aborts = st.aborts
        /\ new.registrations = st.registrations /\ new.completed = st.completed
        /\ new.handedOver = (IF kind = "repro" THEN st.handedOver ELSE e.commit)
    BY <1>1, <2>1, HandOverDoes
  <2>3. IsList(new.handovers) /\ Values(new.handovers) = Values(st.handovers) \cup {h}
    BY <2>2, AppendList DEF Listed, AreLists
  <2>4. e.kind = f.kind /\ e.commit = f.commit
    BY <1>1, <1>7 DEF SameNews
  <2>5. h = [attempt |-> Current(l), kind |-> IF f.kind = "repro" THEN "repro" ELSE "fix",
             commit |-> f.commit]
    BY <1>1, <2>4
  <2>6. new.byAgent <=> AgentWrote(m)
    BY <1>3, <1>7, <2>2, <2>4 DEF Listed, Authored
  <2>7. new.handedOver = CommitHandedOver(m)
    BY <1>3, <1>7, <2>2, <2>4 DEF Listed
  <2> HIDE DEF h, kind
  <2> QED BY <1>1, <1>2, <1>3, <1>4, <1>7, <2>2, <2>3, <2>5, <2>6, <2>7
          DEF Listed, AreLists, Steady, Grown, m, new
<1>8. CASE f.type = "TEST_RUN"
  <2> DEFINE r == [attempt |-> st.attempt, phase |-> e.phase, commit |-> e.commit,
                   result |-> e.result, matched |-> e.matched, bytes |-> e.bytes]
  <2>1. new = TestRun(st, e)
    BY <1>1, <1>8 DEF Interpret
  <2> HIDE DEF new
  <2>2. /\ Steady(new, st) /\ new.attempt = st.attempt
        /\ new.runs = Append(st.runs, r)
        /\ new.byAgent = (st.byAgent \/ e.phase = "control")
        /\ new.registrations = st.registrations /\ new.suites = st.suites
        /\ new.handovers = st.handovers /\ new.aborts = st.aborts
        /\ new.completed = st.completed
        /\ new.handedOver = st.handedOver
    BY <1>1, <2>1, TestRunDoes
  <2>3. IsList(new.runs) /\ Values(new.runs) = Values(st.runs) \cup {r}
    BY <2>2, AppendList DEF Listed, AreLists
  <2>4. /\ e.phase = f.phase /\ e.commit = f.commit /\ e.result = f.result
        /\ e.matched = f.matched /\ e.bytes = f.bytes
    BY <1>1, <1>8 DEF SameNews
  <2>5. r = [attempt |-> Current(l), phase |-> f.phase, commit |-> f.commit,
             result |-> f.result, matched |-> f.matched, bytes |-> f.bytes]
    BY <1>1, <2>4
  <2>6. new.byAgent <=> AgentWrote(m)
    BY <1>3, <1>8, <2>2, <2>4 DEF Listed
  <2> HIDE DEF r
  <2> QED BY <1>1, <1>2, <1>3, <1>4, <1>8, <2>2, <2>3, <2>5, <2>6
          DEF Listed, AreLists, Steady, Grown, m, new
<1>9. CASE f.type = "SUITE_RUN"
  <2> DEFINE r == [attempt |-> st.attempt, phase |-> e.phase, result |-> e.result]
  <2>1. new = SuiteRun(st, e)
    BY <1>1, <1>9 DEF Interpret
  <2> HIDE DEF new
  <2>2. /\ Steady(new, st) /\ new.attempt = st.attempt
        /\ new.suites = Append(st.suites, r)
        /\ new.registrations = st.registrations /\ new.runs = st.runs
        /\ new.handovers = st.handovers /\ new.aborts = st.aborts
        /\ new.completed = st.completed /\ new.byAgent = st.byAgent
        /\ new.handedOver = st.handedOver
    BY <1>1, <2>1, SuiteRunDoes
  <2>3. IsList(new.suites) /\ Values(new.suites) = Values(st.suites) \cup {r}
    BY <2>2, AppendList DEF Listed, AreLists
  <2>4. r = [attempt |-> Current(l), phase |-> f.phase, result |-> f.result]
    BY <1>1, <1>9 DEF SameNews
  <2> HIDE DEF r
  <2> QED BY <1>1, <1>2, <1>3, <1>4, <1>9, <2>2, <2>3, <2>4
          DEF Listed, AreLists, Steady, Grown, m, new
<1>10. CASE f.type = "FIX_DIFF_OBSERVED"
  <2>1. new = DiffObserved(st, e)
    BY <1>1, <1>10 DEF Interpret
  <2> HIDE DEF new
  <2>2. /\ Steady(new, st) /\ new.attempt = st.attempt
        /\ new.completed = st.completed \cup {st.attempt}
        /\ new.registrations = st.registrations /\ new.runs = st.runs
        /\ new.suites = st.suites /\ new.handovers = st.handovers
        /\ new.aborts = st.aborts /\ new.byAgent = st.byAgent
        /\ new.handedOver = st.handedOver
    BY <1>1, <2>1, DiffObservedDoes
  <2> QED BY <1>1, <1>2, <1>3, <1>4, <1>10, <2>2
          DEF Listed, AreLists, Steady, Grown, m, new
<1>11. CASE f.type = "VERIFICATION_ABORTED"
  <2> DEFINE r == [attempt |-> st.attempt, phase |-> e.phase, cause |-> e.cause]
  <2>1. new = Abort(st, e)
    BY <1>1, <1>11 DEF Interpret
  <2> HIDE DEF new
  <2>2. /\ Steady(new, st) /\ new.attempt = st.attempt
        /\ new.aborts = Append(st.aborts, r)
        /\ new.completed = (IF WitnessesCompletion(st, e) THEN st.completed \cup {st.attempt}
                            ELSE st.completed)
        /\ new.registrations = st.registrations /\ new.runs = st.runs
        /\ new.suites = st.suites /\ new.handovers = st.handovers
        /\ new.byAgent = st.byAgent
        /\ new.handedOver = st.handedOver
    BY <1>1, <2>1, AbortDoes
  <2>3. IsList(new.aborts) /\ Values(new.aborts) = Values(st.aborts) \cup {r}
    BY <2>2, AppendList DEF Listed, AreLists
  <2>4. e.phase = f.phase /\ e.cause = f.cause
    BY <1>1, <1>11 DEF SameNews
  <2>5. /\ r = [attempt |-> Current(l), phase |-> f.phase, cause |-> f.cause]
        /\ WitnessesCompletion(st, e) <=> WitnessesCompletion(f, f)
    BY <1>1, <2>4 DEF WitnessesCompletion
  <2>6. \A a : a \in new.completed <=> SeriesClosed(m, a)
    BY <1>1, <1>3, <1>11, <2>2, <2>5 DEF Listed
  <2> HIDE DEF r
  <2> QED BY <1>1, <1>2, <1>3, <1>4, <1>11, <2>2, <2>3, <2>5, <2>6
          DEF Listed, AreLists, Steady, Grown, m, new
<1> QED BY <1>5, <1>6, <1>7, <1>8, <1>9, <1>10, <1>11 DEF m

LEMMA InterpretEnds ==
  ASSUME NEW st, DOMAIN st = DOMAIN InitialState, Judged(st), NEW e
  PROVE  Interpret(st, e).ended = IF e.type = "RUN_ENDED" THEN e.reason ELSE st.ended
<1>1. CASE e.type = "RUN_ENDED"
  BY <1>1 DEF Interpret, End, InitialState
<1>2. CASE e.type \in {"RUN_REQUESTED", "SANDBOX_CREATED", "ATTEMPT_STARTED", "PR_OPENED"}
  BY <1>2 DEF Interpret, InitialState
<1>3. CASE e.type \in {"REPRO_REGISTERED", "AGENT_HANDED_OVER", "TEST_RUN", "SUITE_RUN",
                       "FIX_DIFF_OBSERVED", "VERIFICATION_ABORTED"}
  <2>1. Register(st, e).ended = st.ended
    BY RegisterDoes DEF Steady, SameEnd
  <2>2. HandOver(st, e).ended = st.ended
    BY HandOverDoes DEF Steady, SameEnd
  <2>3. TestRun(st, e).ended = st.ended
    BY TestRunDoes DEF Steady, SameEnd
  <2>4. SuiteRun(st, e).ended = st.ended
    BY SuiteRunDoes DEF Steady, SameEnd
  <2>5. DiffObserved(st, e).ended = st.ended
    BY DiffObservedDoes DEF Steady, SameEnd
  <2>6. Abort(st, e).ended = st.ended
    BY AbortDoes DEF Steady, SameEnd
  <2> QED BY <1>3, <2>1, <2>2, <2>3, <2>4, <2>5, <2>6 DEF Interpret
<1>4. CASE e.type \notin {"RUN_ENDED", "RUN_REQUESTED", "SANDBOX_CREATED", "ATTEMPT_STARTED",
                          "PR_OPENED", "REPRO_REGISTERED", "AGENT_HANDED_OVER", "TEST_RUN",
                          "SUITE_RUN", "FIX_DIFF_OBSERVED", "VERIFICATION_ABORTED"}
  BY <1>4 DEF Interpret
<1> QED BY <1>1, <1>2, <1>3, <1>4

LEMMA ApplyIsFaithful ==
  ASSUME NEW l, IsList(l), NEW st, Faithful(l, st), NEW e, NEW f, SameNews(e, f),
         f.type = "RUN_ENDED" => f.reason # "no"
  PROVE  Faithful(Append(l, f), Apply(st, e))
<1> DEFINE next == [st EXCEPT !.lastSeq = e.seq]
           m == Append(l, f)
<1>1. DOMAIN st = DOMAIN InitialState /\ Judged(st) /\ Listed(l, st)
  BY DEF Faithful, Listed
<1>2. /\ DOMAIN next = DOMAIN st /\ Judged(next) /\ SameLists(next, st)
      /\ next.attempt = st.attempt /\ next.ended = st.ended
  <2>1. next.attempt = st.attempt /\ next.ended = st.ended
    BY <1>1 DEF InitialState
  <2>2. next = [st EXCEPT !.lastSeq = e.seq]
    OBVIOUS
  <2> HIDE DEF next
  <2> QED BY <1>1, <2>1, <2>2, StandingDoes
<1>3. Apply(st, e) = IF st.ended # "no" THEN [st EXCEPT !.lastSeq = e.seq, !.afterEnd = @ + 1]
                     ELSE Interpret(next, e)
  BY <1>1 DEF Apply, InitialState
<1> HIDE DEF next
<1>4. CASE Closed(l)
  <2> DEFINE new == [st EXCEPT !.lastSeq = e.seq, !.afterEnd = @ + 1]
  <2>1. st.ended # "no" /\ Apply(st, e) = new
    BY <1>3, <1>4 DEF Faithful
  <2>2. DOMAIN new = DOMAIN st /\ new.attempt = st.attempt /\ new.ended = st.ended
    BY <1>1 DEF InitialState
  <2>3. Judged(new) /\ SameLists(new, st)
    <3>1. new = [st EXCEPT !.lastSeq = e.seq, !.afterEnd = @ + 1]
      OBVIOUS
    <3> HIDE DEF new
    <3> QED BY <1>1, <3>1, StandingDoes
  <2>4. Current(m) = Current(l) /\ Closed(m)
    BY <1>4, CurrentGrows, ClosedGrows
  <2>5. /\ RunsIn(m) = RunsIn(l) /\ SuitesIn(m) = SuitesIn(l) /\ AbortsIn(m) = AbortsIn(l)
        /\ HandOversIn(m) = HandOversIn(l)
        /\ \A a : JudgedBytes(m, a) = JudgedBytes(l, a)
        /\ \A a : SeriesClosed(m, a) <=> SeriesClosed(l, a)
        /\ AgentWrote(m) <=> AgentWrote(l)
        /\ CommitHandedOver(m) = CommitHandedOver(l)
    BY <1>4, LogSaysNoMore
  <2> HIDE DEF new, m
  <2>6. new.attempt = Current(m)
    BY <1>1, <2>2, <2>4 DEF Listed
  <2>7. Listed(m, new)
    BY <1>1, <2>2, <2>3, <2>5, <2>6, ListedStays
  <2> QED BY <2>1, <2>2, <2>4, <2>7 DEF Faithful, m
<1>5. CASE ~Closed(l)
  <2>1. st.ended = "no" /\ Apply(st, e) = Interpret(next, e)
    BY <1>3, <1>5 DEF Faithful
  <2>2. Listed(l, next)
    BY <1>1, <1>2 DEF Listed, SameLists, AreLists
  <2>3. Listed(m, Interpret(next, e))
    BY <1>5, <2>2, InterpretIsFaithful
  <2>4. Interpret(next, e).ended = IF e.type = "RUN_ENDED" THEN e.reason ELSE "no"
    BY <1>1, <1>2, <2>1, InterpretEnds
  <2>5. Closed(m) <=> f.type = "RUN_ENDED"
    BY <1>5, ClosedGrows
  <2>6. e.type = f.type /\ (e.type = "RUN_ENDED" => e.reason = f.reason)
    BY DEF SameNews
  <2> HIDE DEF m
  <2> QED BY <2>1, <2>3, <2>4, <2>5, <2>6 DEF Faithful, m
<1> QED BY <1>4, <1>5

-----------------------------------------------------------------------------
(***************************************************************************)
(* The fold of a whole log.                                                *)
(***************************************************************************)
LEMMA PrefixesGrow ==
  ASSUME NEW l, IsList(l)
  PROVE  /\ SubSeq(l, 1, 0) = <<>> /\ SubSeq(l, 1, Len(l)) = l
         /\ \A k \in 0..Len(l) : IsList(SubSeq(l, 1, k)) /\ Len(SubSeq(l, 1, k)) = k
         /\ \A k \in Nat : k + 1 \in 1..Len(l) =>
              SubSeq(l, 1, k + 1) = Append(SubSeq(l, 1, k), l[k + 1])
<1>1. Len(l) \in Nat /\ DOMAIN l = 1..Len(l) /\ l \in Seq(Values(l))
  BY AppendList DEF IsList
<1>2. ASSUME NEW k \in 0..Len(l)
      PROVE  IsList(SubSeq(l, 1, k)) /\ Len(SubSeq(l, 1, k)) = k
  <2>1. SubSeq(l, 1, k) \in Seq(Values(l)) /\ Len(SubSeq(l, 1, k)) = k
    BY <1>1, <1>2, SubSeqProperties
  <2> QED BY <2>1, SequencesAreLists
<1>3. SubSeq(l, 1, 0) = <<>>
  BY <1>1
<1>4. SubSeq(l, 1, Len(l)) = l
  BY <1>1
<1>5. ASSUME NEW k \in Nat, k + 1 \in 1..Len(l)
      PROVE  SubSeq(l, 1, k + 1) = Append(SubSeq(l, 1, k), l[k + 1])
  BY <1>1, <1>5
<1> QED BY <1>2, <1>3, <1>4, <1>5

\* A log's events, each with a reason if it is an end.
Reasoned(l) == \A i \in DOMAIN l : l[i].type = "RUN_ENDED" => l[i].reason # "no"

LEMMA EmptyLogSaysNothing ==
  /\ Current(<<>>) = 0 /\ ~Closed(<<>>) /\ ~AgentWrote(<<>>)
  /\ RunsIn(<<>>) = {} /\ SuitesIn(<<>>) = {} /\ AbortsIn(<<>>) = {} /\ HandOversIn(<<>>) = {}
  /\ \A a : JudgedBytes(<<>>, a) = NoBytes /\ ~SeriesClosed(<<>>, a)
  /\ CommitHandedOver(<<>>) = NoCommit
<1>1. \A type : Positions(<<>>, type) = {}
  BY DEF Positions
<1>2. \A type, a : Within(<<>>, type, a) = {}
  BY <1>1 DEF Within
<1> QED BY <1>1, <1>2 DEF Current, AttemptAt, Closed, AgentWrote, RunsIn, SuitesIn, AbortsIn,
                          HandOversIn, JudgedBytes, SeriesClosed, CommitHandedOver,
                          FixHandOvers

LEMMA EmptyIsFaithful == Faithful(<<>>, InitialState)
<1> DEFINE st == InitialState
<1>1. /\ st.runs = <<>> /\ st.suites = <<>> /\ st.aborts = <<>> /\ st.handovers = <<>>
      /\ st.registrations = <<>> /\ st.attempt = 0 /\ st.completed = {}
      /\ st.byAgent = FALSE /\ st.ended = "no" /\ st.handedOver = NoCommit
  BY DEF InitialState
<1>2. \A a : RegisteredBytes(<<>>, a) = NoBytes
  BY DEF RegisteredBytes
<1> HIDE DEF st
<1>3. Judged(st)
  BY InitialIsJudged DEF st
<1> QED BY <1>1, <1>2, <1>3, EmptyIsList, EmptyLogSaysNothing DEF Faithful, Listed, AreLists, st

\* By induction over the prefixes of the log.
LEMMA StatesAreFaithful ==
  ASSUME NEW l, IsList(l), Reasoned(l)
  PROVE  \A k \in 0..Len(l) : Faithful(SubSeq(l, 1, k), States(l)[k])
<1> DEFINE S == {k \in Nat : k \in 0..Len(l) => Faithful(SubSeq(l, 1, k), States(l)[k])}
<1>1. Len(l) \in Nat /\ DOMAIN l = 1..Len(l)
  BY AppendList
<1>2. /\ States(l)[0] = InitialState
      /\ \A i \in 1..Len(l) : States(l)[i] = Apply(States(l)[i - 1], l[i])
  BY <1>1, StatesFollow
<1>3. 0 \in S
  BY <1>2, PrefixesGrow, EmptyIsFaithful
<1>4. ASSUME NEW k \in Nat, k \in S PROVE k + 1 \in S
  <2> SUFFICES ASSUME k + 1 \in 1..Len(l)
               PROVE  Faithful(SubSeq(l, 1, k + 1), States(l)[k + 1])
    BY <1>1
  <2> DEFINE p == SubSeq(l, 1, k)
  <2>1. k \in 0..Len(l) /\ (k + 1) - 1 = k
    BY <1>1
  <2>2. Faithful(p, States(l)[k]) /\ IsList(p)
    BY <1>4, <2>1, PrefixesGrow
  <2>3. SubSeq(l, 1, k + 1) = Append(p, l[k + 1])
    BY PrefixesGrow
  <2>4. States(l)[k + 1] = Apply(States(l)[k], l[k + 1])
    BY <1>2, <2>1
  <2>5. l[k + 1].type = "RUN_ENDED" => l[k + 1].reason # "no"
    BY <1>1 DEF Reasoned
  <2>6. SameNews(l[k + 1], l[k + 1])
    BY DEF SameNews
  <2> HIDE DEF p
  <2> QED BY <2>2, <2>3, <2>4, <2>5, <2>6, ApplyIsFaithful
<1> HIDE DEF S
<1>5. \A k \in Nat : k \in S
  BY <1>3, <1>4, EveryNatural
<1> QED BY <1>1, <1>5 DEF S

LEMMA FoldIsFaithful ==
  ASSUME NEW l, IsList(l), Reasoned(l)
  PROVE  Faithful(l, FoldOf(l))
<1>1. Len(l) \in 0..Len(l) /\ SubSeq(l, 1, Len(l)) = l
  BY AppendList, PrefixesGrow
<1> QED BY <1>1, StatesAreFaithful DEF FoldOf

-----------------------------------------------------------------------------
(***************************************************************************)
(* The verdict, read off the log.                                          *)
(***************************************************************************)
LEMMA AttemptsAreDeclared ==
  ASSUME NEW l, IsList(l), NEW i, AttemptAt(l, i) # 0
  PROVE  AttemptAt(l, i) \in Attempts(l)
<1> DEFINE declared == {j \in Positions(l, "ATTEMPT_STARTED") : j < i}
<1>1. Len(l) \in Nat /\ declared \subseteq 1..Len(l)
  BY PositionsIn
<1>2. declared # {} => Latest(declared) \in declared
  <2> HIDE DEF declared
  <2> QED BY <1>1, LatestIs
<1>3. AttemptAt(l, i) = IF declared = {} THEN 0 ELSE l[Latest(declared)].n
  BY DEF AttemptAt
<1> QED BY <1>2, <1>3 DEF Attempts

\* The state's runs of an attempt in a phase are the log's tests of it.
LEMMA RunsAreTests ==
  ASSUME NEW l, NEW st, Listed(l, st), NEW a, NEW phase
  PROVE  /\ RunsOf(st.runs, a, phase) \subseteq DOMAIN st.runs
         /\ \A i \in RunsOf(st.runs, a, phase) :
              \E j \in TestsOf(l, a, phase) : st.runs[i] = RunAt(l, j)
         /\ \A j \in TestsOf(l, a, phase) :
              \E i \in RunsOf(st.runs, a, phase) : st.runs[i] = RunAt(l, j)
<1>1. Values(st.runs) = RunsIn(l)
  BY DEF Listed
<1>2. \A j : RunAt(l, j).attempt = AttemptAt(l, j) /\ RunAt(l, j).phase = l[j].phase
  BY DEF RunAt
<1>3. ASSUME NEW i \in RunsOf(st.runs, a, phase)
      PROVE  \E j \in TestsOf(l, a, phase) : st.runs[i] = RunAt(l, j)
  <2>1. i \in DOMAIN st.runs /\ st.runs[i].attempt = a /\ st.runs[i].phase = phase
    BY DEF RunsOf
  <2>2. st.runs[i] \in RunsIn(l)
    BY <1>1, <2>1 DEF Values
  <2>3. PICK j \in Positions(l, "TEST_RUN") : st.runs[i] = RunAt(l, j)
    BY <2>2 DEF RunsIn
  <2>4. j \in TestsOf(l, a, phase)
    BY <1>2, <2>1, <2>3 DEF TestsOf, Within
  <2> QED BY <2>3, <2>4
<1>4. ASSUME NEW j \in TestsOf(l, a, phase)
      PROVE  \E i \in RunsOf(st.runs, a, phase) : st.runs[i] = RunAt(l, j)
  <2>1. j \in Positions(l, "TEST_RUN") /\ AttemptAt(l, j) = a /\ l[j].phase = phase
    BY DEF TestsOf, Within
  <2>2. RunAt(l, j) \in Values(st.runs)
    BY <1>1, <2>1 DEF RunsIn
  <2>3. PICK i \in DOMAIN st.runs : st.runs[i] = RunAt(l, j)
    BY <2>2 DEF Values
  <2>4. i \in RunsOf(st.runs, a, phase)
    BY <1>2, <2>1, <2>3 DEF RunsOf
  <2> QED BY <2>3, <2>4
<1> QED BY <1>3, <1>4 DEF RunsOf

LEMMA AbortsAreRecorded ==
  ASSUME NEW l, NEW st, Listed(l, st), NEW a
  PROVE  /\ \A i \in DOMAIN st.aborts : st.aborts[i].attempt = a =>
              \E j \in Within(l, "VERIFICATION_ABORTED", a) :
                st.aborts[i].phase = l[j].phase /\ st.aborts[i].cause = l[j].cause
         /\ \A j \in Within(l, "VERIFICATION_ABORTED", a) :
              \E i \in DOMAIN st.aborts :
                /\ st.aborts[i].attempt = a
                /\ st.aborts[i].phase = l[j].phase /\ st.aborts[i].cause = l[j].cause
<1>1. Values(st.aborts) = AbortsIn(l)
  BY DEF Listed
<1>2. \A j : /\ AbortAt(l, j).attempt = AttemptAt(l, j) /\ AbortAt(l, j).phase = l[j].phase
             /\ AbortAt(l, j).cause = l[j].cause
  BY DEF AbortAt
<1>3. \A i \in DOMAIN st.aborts : \E j \in Positions(l, "VERIFICATION_ABORTED") :
        st.aborts[i] = AbortAt(l, j)
  BY <1>1 DEF Values, AbortsIn
<1>4. \A j \in Positions(l, "VERIFICATION_ABORTED") : \E i \in DOMAIN st.aborts :
        st.aborts[i] = AbortAt(l, j)
  <2>1. \A j \in Positions(l, "VERIFICATION_ABORTED") : AbortAt(l, j) \in Values(st.aborts)
    BY <1>1 DEF AbortsIn
  <2> QED BY <2>1 DEF Values
<1> QED BY <1>2, <1>3, <1>4 DEF Within

LEMMA HandOversAreRecorded ==
  ASSUME NEW l, NEW st, Listed(l, st)
  PROVE  /\ \A h \in DOMAIN st.handovers : \E j \in Positions(l, "AGENT_HANDED_OVER") :
              /\ st.handovers[h].attempt = AttemptAt(l, j)
              /\ st.handovers[h].kind = "fix" <=> l[j].kind # "repro"
              /\ st.handovers[h].commit = l[j].commit
         /\ \A j \in Positions(l, "AGENT_HANDED_OVER") : \E h \in DOMAIN st.handovers :
              /\ st.handovers[h].attempt = AttemptAt(l, j)
              /\ st.handovers[h].kind = "fix" <=> l[j].kind # "repro"
              /\ st.handovers[h].commit = l[j].commit
<1>1. Values(st.handovers) = HandOversIn(l)
  BY DEF Listed
<1>2. \A j : /\ HandOverAt(l, j).attempt = AttemptAt(l, j)
             /\ HandOverAt(l, j).kind = "fix" <=> l[j].kind # "repro"
             /\ HandOverAt(l, j).commit = l[j].commit
  BY DEF HandOverAt
<1>3. \A h \in DOMAIN st.handovers : \E j \in Positions(l, "AGENT_HANDED_OVER") :
        st.handovers[h] = HandOverAt(l, j)
  BY <1>1 DEF Values, HandOversIn
<1>4. \A j \in Positions(l, "AGENT_HANDED_OVER") : \E h \in DOMAIN st.handovers :
        st.handovers[h] = HandOverAt(l, j)
  <2>1. \A j \in Positions(l, "AGENT_HANDED_OVER") : HandOverAt(l, j) \in Values(st.handovers)
    BY <1>1 DEF HandOversIn
  <2> QED BY <2>1 DEF Values
<1> QED BY <1>2, <1>3, <1>4

LEMMA ShownIsLogged ==
  ASSUME NEW l, IsList(l), NEW st, Listed(l, st), NEW a
  PROVE  a \in Demonstrated(st) <=> a \in Attempts(l) /\ ShownIn(l, a)
<1>1. RegisteredBytes(st.registrations, a) = JudgedBytes(l, a)
  BY DEF Listed
<1>2. a \in Truncated(st.aborts) <=> BaseCutShort(l, a)
  BY AbortsAreRecorded DEF Truncated, BaseCutShort
<1>3. ASSUME NEW i \in RunsOf(st.runs, a, "base"), NEW j, st.runs[i] = RunAt(l, j)
      PROVE  Qualifies(st, st.runs[i]) <=>
               /\ a # 0 /\ ~BaseCutShort(l, a) /\ JudgedBytes(l, a) # NoBytes
               /\ Ran(l, j, a, "failed") /\ l[j].matched
  <2>1. st.runs[i].attempt = a
    BY DEF RunsOf
  <2>2. /\ st.runs[i].result = l[j].result /\ st.runs[i].matched = l[j].matched
        /\ st.runs[i].bytes = l[j].bytes
    BY <1>3 DEF RunAt
  <2> QED BY <1>1, <1>2, <2>1, <2>2 DEF Qualifies, Ran, Intact
<1>4. ASSUME a \in Demonstrated(st) PROVE a \in Attempts(l) /\ ShownIn(l, a)
  <2>1. /\ RunsOf(st.runs, a, "base") # {}
        /\ \A i \in RunsOf(st.runs, a, "base") : Qualifies(st, st.runs[i])
    BY <1>4 DEF Demonstrated
  <2>2. PICK i0 \in RunsOf(st.runs, a, "base") : TRUE
    BY <2>1
  <2>3. PICK j0 \in TestsOf(l, a, "base") : st.runs[i0] = RunAt(l, j0)
    BY RunsAreTests
  <2>4. a # 0 /\ ~BaseCutShort(l, a) /\ JudgedBytes(l, a) # NoBytes
    BY <1>3, <2>1, <2>3
  <2>5. \A j \in TestsOf(l, a, "base") : Ran(l, j, a, "failed") /\ l[j].matched
    BY <1>3, <2>1, RunsAreTests
  <2>6. AttemptAt(l, j0) = a
    BY DEF TestsOf, Within
  <2>7. a \in Attempts(l)
    BY <2>4, <2>6, AttemptsAreDeclared
  <2> QED BY <2>3, <2>4, <2>5, <2>7 DEF ShownIn
<1>5. ASSUME a \in Attempts(l), ShownIn(l, a) PROVE a \in Demonstrated(st)
  <2>1. a # 0
    BY <1>5 DEF Attempts
  <2>2. PICK j0 \in TestsOf(l, a, "base") : TRUE
    BY <1>5 DEF ShownIn
  <2>3. PICK i0 \in RunsOf(st.runs, a, "base") : st.runs[i0] = RunAt(l, j0)
    BY RunsAreTests
  <2>4. i0 \in DOMAIN st.runs /\ st.runs[i0].attempt = a
    BY DEF RunsOf
  <2>5. \A i \in RunsOf(st.runs, a, "base") : Qualifies(st, st.runs[i])
    <3> SUFFICES ASSUME NEW i \in RunsOf(st.runs, a, "base") PROVE Qualifies(st, st.runs[i])
      OBVIOUS
    <3>1. PICK j \in TestsOf(l, a, "base") : st.runs[i] = RunAt(l, j)
      BY RunsAreTests
    <3> QED BY <1>3, <1>5, <2>1, <3>1 DEF ShownIn
  <2> QED BY <2>3, <2>4, <2>5 DEF Demonstrated
<1> QED BY <1>4, <1>5

LEMMA VouchedIsLogged ==
  ASSUME NEW l, IsList(l), NEW st, Listed(l, st), NEW a
  PROVE  Vouched(st, a) <=> FixedIn(l, a)
<1> DEFINE fixes == RunsOf(st.runs, a, "fix")
           tests == TestsOf(l, a, "fix")
           hands == Within(l, "AGENT_HANDED_OVER", a) \cup Within(l, "AGENT_HANDED_OVER", 0)
           on(c) == \A j \in tests : l[j].commit = c
<1>1. /\ RegisteredBytes(st.registrations, a) = JudgedBytes(l, a)
      /\ a \in st.completed <=> SeriesClosed(l, a)
  BY DEF Listed
<1>2. a \in CutShort(st.aborts) <=>
        \E i \in Within(l, "VERIFICATION_ABORTED", a) : l[i].phase = "fix"
  BY AbortsAreRecorded DEF CutShort
<1>3. /\ \A i \in fixes : \E j \in tests : st.runs[i] = RunAt(l, j)
      /\ \A j \in tests : \E i \in fixes : st.runs[i] = RunAt(l, j)
  BY RunsAreTests
<1>4. \A j : /\ RunAt(l, j).commit = l[j].commit /\ RunAt(l, j).result = l[j].result
             /\ RunAt(l, j).bytes = l[j].bytes
  BY DEF RunAt
<1> HIDE DEF fixes, tests
<1>5. fixes # {} <=> tests # {}
  BY <1>3
<1>6. (\A i \in fixes : /\ st.runs[i].result = "passed"
                        /\ Intact(st.runs[i], RegisteredBytes(st.registrations, a)))
        <=> \A j \in tests : Ran(l, j, a, "passed")
  BY <1>1, <1>3, <1>4 DEF Intact, Ran
<1>7. \A c : (\A i \in fixes : st.runs[i].commit = c) <=> on(c)
  BY <1>3, <1>4
<1>8. (\A h \in DOMAIN st.handovers :
         st.handovers[h].kind = "fix" /\ st.handovers[h].attempt \in {a, 0}
           => \A i \in fixes : st.runs[i].commit = st.handovers[h].commit)
        <=> \A h \in hands : l[h].kind # "repro" => on(l[h].commit)
  <2> HIDE DEF on
  <2>1. \A j : j \in hands <=> /\ j \in Positions(l, "AGENT_HANDED_OVER")
                             /\ AttemptAt(l, j) \in {a, 0}
    BY DEF Within
  <2> HIDE DEF hands
  <2>2. ASSUME NEW h \in DOMAIN st.handovers, st.handovers[h].kind = "fix",
               st.handovers[h].attempt \in {a, 0},
               \A k \in hands : l[k].kind # "repro" => on(l[k].commit)
        PROVE  on(st.handovers[h].commit)
    <3>1. PICK j \in Positions(l, "AGENT_HANDED_OVER") :
            /\ st.handovers[h].attempt = AttemptAt(l, j)
            /\ st.handovers[h].kind = "fix" <=> l[j].kind # "repro"
            /\ st.handovers[h].commit = l[j].commit
      BY HandOversAreRecorded
    <3> QED BY <2>1, <2>2, <3>1
  <2>3. ASSUME NEW j \in hands, l[j].kind # "repro",
               \A h \in DOMAIN st.handovers :
                 st.handovers[h].kind = "fix" /\ st.handovers[h].attempt \in {a, 0}
                   => on(st.handovers[h].commit)
        PROVE  on(l[j].commit)
    <3>1. j \in Positions(l, "AGENT_HANDED_OVER") /\ AttemptAt(l, j) \in {a, 0}
      BY <2>1
    <3>2. PICK h \in DOMAIN st.handovers :
            /\ st.handovers[h].attempt = AttemptAt(l, j)
            /\ st.handovers[h].kind = "fix" <=> l[j].kind # "repro"
            /\ st.handovers[h].commit = l[j].commit
      BY <3>1, HandOversAreRecorded
    <3> QED BY <2>3, <3>1, <3>2
  <2> QED BY <1>7, <2>2, <2>3
<1> QED BY <1>1, <1>2, <1>5, <1>6, <1>8 DEF Vouched, FixedIn, fixes, tests

\* What fold.ts says of a log is what the log says.
LEMMA VerdictIsLogged ==
  ASSUME NEW l, IsList(l), NEW st, Listed(l, st)
  PROVE  /\ st.shown = {a \in Attempts(l) : ShownIn(l, a)}
         /\ st.credited # 0 => /\ st.credited \in Attempts(l)
                               /\ ShownIn(l, st.credited) /\ FixedIn(l, st.credited)
         /\ (\E a \in Attempts(l) : ShownIn(l, a) /\ FixedIn(l, a)) => st.credited # 0
<1> DEFINE earned == {i \in DOMAIN st.runs : /\ st.runs[i].phase = "base"
                                             /\ st.runs[i].attempt \in Demonstrated(st)
                                             /\ Vouched(st, st.runs[i].attempt)}
           first == Earliest(earned)
<1>1. st.shown = Demonstrated(st) /\ st.credited = ReproducedAttempt(st)
  BY DEF Listed, Judged
<1>2. Len(st.runs) \in Nat /\ DOMAIN st.runs = 1..Len(st.runs)
  BY AppendList DEF Listed, AreLists
<1>3. st.credited = IF earned = {} THEN 0 ELSE st.runs[first].attempt
  BY <1>1 DEF ReproducedAttempt
<1>4. earned # {} => first \in earned
  <2>1. earned \subseteq 1..Len(st.runs)
    BY <1>2
  <2> HIDE DEF earned
  <2> QED BY <1>2, <2>1, EarliestIs
<1>5. ASSUME earned # {}
      PROVE  /\ st.runs[first].attempt \in Attempts(l) /\ st.runs[first].attempt # 0
             /\ ShownIn(l, st.runs[first].attempt) /\ FixedIn(l, st.runs[first].attempt)
  <2> DEFINE a == st.runs[first].attempt
  <2>1. a \in Demonstrated(st) /\ Vouched(st, a)
    BY <1>4, <1>5
  <2> HIDE DEF a
  <2>2. a \in Attempts(l) /\ ShownIn(l, a) /\ FixedIn(l, a)
    BY <2>1, ShownIsLogged, VouchedIsLogged
  <2> QED BY <2>2 DEF Attempts, a
<1>6. ASSUME NEW a \in Attempts(l), ShownIn(l, a), FixedIn(l, a) PROVE earned # {}
  <2>1. a \in Demonstrated(st) /\ Vouched(st, a)
    BY <1>6, ShownIsLogged, VouchedIsLogged
  <2>2. PICK j \in TestsOf(l, a, "base") : TRUE
    BY <1>6 DEF ShownIn
  <2>3. PICK i \in RunsOf(st.runs, a, "base") : st.runs[i] = RunAt(l, j)
    BY RunsAreTests
  <2>4. i \in DOMAIN st.runs /\ st.runs[i].attempt = a /\ st.runs[i].phase = "base"
    BY DEF RunsOf
  <2> QED BY <2>1, <2>4
<1> HIDE DEF earned, first
<1>7. st.shown = {a \in Attempts(l) : ShownIn(l, a)}
  BY <1>1, ShownIsLogged
<1> QED BY <1>3, <1>5, <1>6, <1>7

-----------------------------------------------------------------------------
(***************************************************************************)
(* The laws of the fold.  The state of the machine is faithful to its log. *)
(***************************************************************************)
Lawful ==
  /\ scenario \in Scenarios
  /\ IsList(written)
  /\ Faithful(written, folded)

LEMMA NumberingSaysTheSame ==
  ASSUME NEW s \in Scenarios
  PROVE  LET l == NumberedFrom(s.opening, 0) IN IsList(l) /\ Reasoned(l)
<1> DEFINE o == s.opening
           l == NumberedFrom(o, 0)
<1>1. /\ IsList(o)
      /\ \A i \in DOMAIN o : Happening(o[i])
  BY ScenariosAssumption DEF IsList, Values
<1>2. Len(o) \in Nat /\ DOMAIN o = 1..Len(o)
  BY <1>1, AppendList
<1> HIDE DEF o
<1>3. l = [i \in 1..Len(o) |-> [o[i] EXCEPT !.seq = 0 + i]]
  BY <1>2 DEF NumberedFrom
<1>4. l \in Seq({l[i] : i \in 1..Len(o)})
  <2>1. l \in [1..Len(o) -> {l[i] : i \in 1..Len(o)}]
    BY <1>3
  <2> QED BY <1>2, <2>1, SeqDef
<1>5. Reasoned(l)
  BY <1>1, <1>2, <1>3 DEF Reasoned, Happening
<1> HIDE DEF l
<1>6. IsList(l)
  BY <1>4, SequencesAreLists
<1> QED BY <1>5, <1>6 DEF l, o

LEMMA LawsBegin == LawInit => Lawful
<1> SUFFICES ASSUME LawInit PROVE Lawful
  OBVIOUS
<1>1. scenario \in Scenarios /\ IsList(written) /\ Reasoned(written) /\ folded = FoldOf(written)
  BY NumberingSaysTheSame DEF LawInit
<1> QED BY <1>1, FoldIsFaithful DEF Lawful

LEMMA LawsKeep == Lawful /\ [LawNext]_lawVars => Lawful'
<1> SUFFICES ASSUME Lawful, [LawNext]_lawVars PROVE Lawful'
  OBVIOUS
<1>1. CASE LawNext
  <2>1. PICK e \in scenario.alphabet : Write(e)
    BY <1>1 DEF LawNext
  <2> DEFINE f == [e EXCEPT !.seq = Len(written) + 1]
  <2>2. scenario' = scenario /\ written' = Append(written, f)
        /\ folded' = Apply(folded, written'[Len(written')])
    BY <2>1 DEF Write
  <2>3. f.type = "RUN_ENDED" => f.reason # "no"
    BY ScenariosAssumption DEF Lawful, Happening
  <2> HIDE DEF f
  <2>4. IsList(written') /\ written'[Len(written')] = f
    BY <2>2, AppendList DEF Lawful
  <2>5. SameNews(f, f)
    BY DEF SameNews
  <2>6. Faithful(written', folded')
    BY <2>2, <2>3, <2>4, <2>5, ApplyIsFaithful DEF Lawful
  <2> QED BY <2>2, <2>4, <2>6 DEF Lawful
<1>2. CASE UNCHANGED lawVars
  BY <1>2 DEF Lawful, lawVars
<1> QED BY <1>1, <1>2

LEMMA LawsHold == LawSpec => []Lawful
<1>1. LawInit => Lawful
  BY LawsBegin
<1>2. Lawful /\ [LawNext]_lawVars => Lawful'
  BY LawsKeep
<1> QED BY <1>1, <1>2, PTL DEF LawSpec

(* fold.ts, credited(): on every stream of events whatsoever, in any order and
   any number, the attempts the incremental fold calls shown are those whose
   events show the bug, and it credits one exactly when some attempt's events
   show the bug and the fix. *)
THEOREM FoldDecidesByTheLog == LawSpec => []VerdictIsTheLogs
<1>1. Lawful => VerdictIsTheLogs
  <2> SUFFICES ASSUME Lawful PROVE VerdictIsTheLogs
    OBVIOUS
  <2> QED BY VerdictIsLogged DEF Lawful, Faithful, VerdictIsTheLogs
<1> QED BY <1>1, LawsHold, PTL

-----------------------------------------------------------------------------
(***************************************************************************)
(* The claim that every agent was sealed before it spoke.                  *)
(***************************************************************************)
Seal(l, i) == l[i].type = "SANDBOX_SEALED" /\ l[i].phase = "agent"
Word(l, i) == l[i].type = "AGENT_MESSAGE"
Done(l, i) == l[i].type = "AGENT_FINISHED"

\* No agent finished between the two positions, or from the one up to the event k.
SameAgent(l, i, j) == \A f \in DOMAIN l : i < f /\ f < j => ~Done(l, f)
StillOpen(l, i, k) == \A f \in 1..k : i < f => ~Done(l, f)

SealedFirst(l, m) == \E s \in DOMAIN l : Seal(l, s) /\ s < m /\ SameAgent(l, s, m)

\* Up to k: no seal leaked or came late, and each agent that finished was sealed first.
Clean(l, k) ==
  /\ \A s \in 1..k : Seal(l, s) => /\ ~l[s].reached
                                   /\ \A m \in 1..k : Word(l, m) /\ m < s => ~SameAgent(l, m, s)
  /\ \A m \in 1..k : Word(l, m) /\ ~StillOpen(l, m, k) => SealedFirst(l, m)

\* The window after k events.
WindowSays(l, k, w) ==
  /\ DOMAIN w = {"sealed", "spoke", "any", "broken"}
  /\ w.any <=> \E s \in 1..k : Seal(l, s)
  /\ w.spoke <=> \E m \in 1..k : Word(l, m) /\ StillOpen(l, m, k)
  /\ ~w.broken <=> Clean(l, k)
  /\ Clean(l, k) => (w.sealed <=> \E s \in 1..k : Seal(l, s) /\ StillOpen(l, s, k))

\* In a clean window the words that were spoken are sealed exactly if the window is.
LEMMA WindowIsSealed ==
  ASSUME NEW l, NEW k \in Nat, 1..k \subseteq DOMAIN l, DOMAIN l \subseteq Nat \ {0}, Clean(l, k),
         NEW m \in 1..k, Word(l, m), StillOpen(l, m, k)
  PROVE  SealedFirst(l, m) <=> \E s \in 1..k : Seal(l, s) /\ StillOpen(l, s, k)
<1>1. ASSUME SealedFirst(l, m) PROVE \E s \in 1..k : Seal(l, s) /\ StillOpen(l, s, k)
  <2>1. PICK s \in DOMAIN l : Seal(l, s) /\ s < m /\ SameAgent(l, s, m)
    BY <1>1 DEF SealedFirst
  <2>2. s \in 1..k
    BY <2>1
  <2>3. ASSUME NEW f \in 1..k, s < f PROVE ~Done(l, f)
    <3>1. CASE f < m
      BY <2>1, <2>3, <3>1 DEF SameAgent
    <3>2. CASE f = m
      BY <3>2 DEF Done, Word
    <3>3. CASE m < f
      BY <3>3 DEF StillOpen
    <3> QED BY <2>2, <3>1, <3>2, <3>3
  <2> QED BY <2>1, <2>2, <2>3 DEF StillOpen
<1>2. ASSUME NEW s \in 1..k, Seal(l, s), StillOpen(l, s, k) PROVE SealedFirst(l, m)
  <2>1. s # m
    BY <1>2 DEF Seal, Word
  <2>2. ~(m < s)
    <3>1. m < s => SameAgent(l, m, s)
      <4> SUFFICES ASSUME m < s, NEW f \in DOMAIN l, m < f, f < s PROVE ~Done(l, f)
        BY DEF SameAgent
      <4>1. f \in 1..k
        OBVIOUS
      <4> QED BY <4>1 DEF StillOpen
    <3> QED BY <1>2, <3>1 DEF Clean
  <2>3. SameAgent(l, s, m)
    <3> SUFFICES ASSUME NEW f \in DOMAIN l, s < f, f < m PROVE ~Done(l, f)
      BY DEF SameAgent
    <3>1. f \in 1..k
      OBVIOUS
    <3> QED BY <1>2, <3>1 DEF StillOpen
  <2> QED BY <1>2, <2>1, <2>2, <2>3 DEF SealedFirst
<1> QED BY <1>1, <1>2

\* One event more.
LEMMA WindowGrows ==
  ASSUME NEW l, NEW k \in Nat, 1..(k + 1) \subseteq DOMAIN l, DOMAIN l \subseteq Nat \ {0},
         NEW w, WindowSays(l, k, w)
  PROVE  WindowSays(l, k + 1, WindowStep(w, l[k + 1]))
<1> DEFINE here == k + 1
           e == l[here]
           v == WindowStep(w, e)
<1>1. /\ here \in Nat \ {0} /\ here \in 1..here /\ 1..k \subseteq 1..here /\ 1..k \subseteq DOMAIN l
      /\ \A i \in 1..here : i \in 1..k \/ i = here
      /\ \A i \in 1..k : i < here /\ ~(here < i) /\ i # here
  OBVIOUS
<1>2. /\ \A i \in 1..k : StillOpen(l, i, here) <=> StillOpen(l, i, k) /\ ~Done(l, here)
      /\ StillOpen(l, here, here)
      /\ \A i \in 1..k : StillOpen(l, i, k) <=> SameAgent(l, i, here)
  <2>1. \A i \in 1..k : StillOpen(l, i, here) <=> StillOpen(l, i, k) /\ ~Done(l, here)
    BY <1>1 DEF StillOpen
  <2>2. StillOpen(l, here, here)
    BY <1>1 DEF StillOpen
  <2>3. ASSUME NEW i \in 1..k PROVE StillOpen(l, i, k) <=> SameAgent(l, i, here)
    <3>1. \A f \in DOMAIN l : i < f /\ f < here => f \in 1..k
      OBVIOUS
    <3> QED BY <1>1, <3>1 DEF StillOpen, SameAgent
  <2> QED BY <2>1, <2>2, <2>3
<1> HIDE DEF here
<1>3. Clean(l, here) <=>
        /\ Clean(l, k)
        /\ Seal(l, here) =>
             ~e.reached /\ ~\E m \in 1..k : Word(l, m) /\ StillOpen(l, m, k)
        /\ Done(l, here) => \A m \in 1..k : Word(l, m) /\ StillOpen(l, m, k) => SealedFirst(l, m)
  <2>1. (\A s \in 1..here : Seal(l, s) =>
            ~l[s].reached /\ \A m \in 1..here : Word(l, m) /\ m < s => ~SameAgent(l, m, s))
          <=> /\ \A s \in 1..k : Seal(l, s) =>
                   ~l[s].reached /\ \A m \in 1..k : Word(l, m) /\ m < s => ~SameAgent(l, m, s)
              /\ Seal(l, here) => /\ ~l[here].reached
                                  /\ \A m \in 1..k : Word(l, m) => ~SameAgent(l, m, here)
    <3>1. ASSUME NEW s \in 1..k
          PROVE  (\A m \in 1..here : Word(l, m) /\ m < s => ~SameAgent(l, m, s))
                   <=> \A m \in 1..k : Word(l, m) /\ m < s => ~SameAgent(l, m, s)
      BY <1>1
    <3>2. (\A m \in 1..here : Word(l, m) /\ m < here => ~SameAgent(l, m, here))
            <=> \A m \in 1..k : Word(l, m) => ~SameAgent(l, m, here)
      BY <1>1
    <3> QED BY <1>1, <3>1, <3>2
  <2>2. (\A m \in 1..here : Word(l, m) /\ ~StillOpen(l, m, here) => SealedFirst(l, m))
          <=> /\ \A m \in 1..k : Word(l, m) /\ ~StillOpen(l, m, k) => SealedFirst(l, m)
              /\ Done(l, here) =>
                   \A m \in 1..k : Word(l, m) /\ StillOpen(l, m, k) => SealedFirst(l, m)
    BY <1>1, <1>2
  <2> QED BY <1>2, <2>1, <2>2 DEF Clean
<1>4. /\ DOMAIN w = {"sealed", "spoke", "any", "broken"}
      /\ w.any <=> \E s \in 1..k : Seal(l, s)
      /\ w.spoke <=> \E m \in 1..k : Word(l, m) /\ StillOpen(l, m, k)
      /\ ~w.broken <=> Clean(l, k)
      /\ Clean(l, k) => (w.sealed <=> \E s \in 1..k : Seal(l, s) /\ StillOpen(l, s, k))
  BY DEF WindowSays
<1>5. CASE Seal(l, here)
  <2>1. ~Word(l, here) /\ ~Done(l, here)
    BY <1>5 DEF Seal, Word, Done
  <2>2. v = IF w.spoke \/ e.reached THEN [w EXCEPT !.any = TRUE, !.broken = TRUE]
            ELSE [w EXCEPT !.any = TRUE, !.sealed = TRUE]
    BY <1>5 DEF WindowStep, Seal
  <2>3. CASE w.spoke \/ e.reached
    <3>1. /\ DOMAIN v = DOMAIN w /\ v.any /\ v.broken /\ v.spoke = w.spoke
      BY <1>4, <2>2, <2>3
    <3> HIDE DEF v
    <3>2. ~Clean(l, here)
      BY <1>3, <1>4, <1>5, <2>3
    <3> QED BY <1>1, <1>2, <1>4, <1>5, <2>1, <3>1, <3>2 DEF WindowSays, v, here
  <2>4. CASE ~(w.spoke \/ e.reached)
    <3>1. /\ DOMAIN v = DOMAIN w /\ v.any /\ v.sealed /\ v.spoke = w.spoke /\ v.broken = w.broken
      BY <1>4, <2>2, <2>4
    <3> HIDE DEF v
    <3>2. Clean(l, here) <=> Clean(l, k)
      BY <1>3, <1>4, <2>1, <2>4
    <3> QED BY <1>1, <1>2, <1>4, <1>5, <2>1, <3>1, <3>2 DEF WindowSays, v, here
  <2> QED BY <2>3, <2>4
<1>6. CASE Word(l, here)
  <2>1. ~Seal(l, here) /\ ~Done(l, here)
    BY <1>6 DEF Seal, Word, Done
  <2>2. v = [w EXCEPT !.spoke = TRUE]
    BY <1>6 DEF WindowStep, Word
  <2>3. /\ DOMAIN v = DOMAIN w /\ v.spoke
        /\ v.any = w.any /\ v.sealed = w.sealed /\ v.broken = w.broken
    BY <1>4, <2>2
  <2> HIDE DEF v
  <2>4. Clean(l, here) <=> Clean(l, k)
    BY <1>3, <2>1
  <2> QED BY <1>1, <1>2, <1>4, <1>6, <2>1, <2>3, <2>4 DEF WindowSays, v, here
<1>7. CASE Done(l, here)
  <2>1. ~Seal(l, here) /\ ~Word(l, here)
    BY <1>7 DEF Seal, Word, Done
  <2>2. v = [w EXCEPT !.sealed = FALSE, !.spoke = FALSE, !.broken = @ \/ (w.spoke /\ ~w.sealed)]
    BY <1>7 DEF WindowStep, Done
  <2>3. /\ DOMAIN v = DOMAIN w /\ ~v.spoke /\ ~v.sealed
        /\ v.any = w.any /\ v.broken = (w.broken \/ (w.spoke /\ ~w.sealed))
    BY <1>4, <2>2
  <2> HIDE DEF v
  <2>4. Clean(l, here) <=> ~v.broken
    <3>1. ASSUME Clean(l, k)
          PROVE  (w.spoke => w.sealed) <=>
                   \A m \in 1..k : Word(l, m) /\ StillOpen(l, m, k) => SealedFirst(l, m)
      <4>1. \A m \in 1..k : Word(l, m) /\ StillOpen(l, m, k) => (SealedFirst(l, m) <=> w.sealed)
        BY <1>1, <1>4, <3>1, WindowIsSealed
      <4> QED BY <1>4, <4>1
    <3> QED BY <1>3, <1>4, <1>7, <2>1, <2>3, <3>1
  <2>5. \A i \in 1..here : (Seal(l, i) \/ Word(l, i)) => ~StillOpen(l, i, here)
    BY <1>1, <1>2, <1>7, <2>1
  <2> QED BY <1>1, <1>4, <2>1, <2>3, <2>4, <2>5 DEF WindowSays, v, here
<1>8. CASE ~Seal(l, here) /\ ~Word(l, here) /\ ~Done(l, here)
  <2>1. v = w
    BY <1>8 DEF WindowStep, Seal, Word, Done
  <2>2. Clean(l, here) <=> Clean(l, k)
    BY <1>3, <1>8
  <2> HIDE DEF v
  <2> QED BY <1>1, <1>2, <1>4, <1>8, <2>1, <2>2 DEF WindowSays, v, here
<1> QED BY <1>5, <1>6, <1>7, <1>8

LEMMA WindowsSay ==
  ASSUME NEW l, IsList(l)
  PROVE  WindowSays(l, Len(l), Windows(l)[Len(l)])
<1> DEFINE S == {k \in Nat : k \in 0..Len(l) => WindowSays(l, k, Windows(l)[k])}
<1>1. Len(l) \in Nat /\ DOMAIN l = 1..Len(l)
  BY AppendList
<1>2. /\ Windows(l)[0] = OpenWindow
      /\ \A i \in 1..Len(l) : Windows(l)[i] = WindowStep(Windows(l)[i - 1], l[i])
  BY <1>1, WindowsFollow
<1>3. 0 \in S
  BY <1>2 DEF WindowSays, OpenWindow, Clean
<1>4. ASSUME NEW k \in Nat, k \in S PROVE k + 1 \in S
  <2> SUFFICES ASSUME k + 1 \in 1..Len(l) PROVE WindowSays(l, k + 1, Windows(l)[k + 1])
    BY <1>1
  <2>1. k \in 0..Len(l) /\ (k + 1) - 1 = k /\ 1..(k + 1) \subseteq DOMAIN l
    BY <1>1
  <2>2. WindowSays(l, k, Windows(l)[k])
    BY <1>4, <2>1
  <2>3. Windows(l)[k + 1] = WindowStep(Windows(l)[k], l[k + 1])
    BY <1>2, <2>1
  <2>4. DOMAIN l \subseteq Nat \ {0}
    BY <1>1
  <2> QED BY <2>1, <2>2, <2>3, <2>4, WindowGrows
<1> HIDE DEF S
<1>5. \A k \in Nat : k \in S
  BY <1>3, <1>4, EveryNatural
<1> QED BY <1>1, <1>5 DEF S

(* fold.ts, sealedBeforeEveryAgent: the engine says of a run that every agent
   was sealed before it spoke exactly when the log says so, of every log. *)
THEOREM SealClaimsAreTrue == LawSpec => []SealClaimIsTrue
<1>1. Lawful => SealClaimIsTrue
  <2> SUFFICES ASSUME Lawful PROVE SealClaimIsTrue
    OBVIOUS
  <2> DEFINE l == written
             N == Len(l)
             w == Windows(l)[N]
  <2>1. IsList(l) /\ N \in Nat /\ DOMAIN l = 1..N
    BY AppendList DEF Lawful
  <2>2. WindowSays(l, N, w)
    BY <2>1, WindowsSay
  <2>3. SealedBeforeEveryAgent(l) <=> w.any /\ ~(w.broken \/ (w.spoke /\ ~w.sealed))
    BY DEF SealedBeforeEveryAgent
  <2> HIDE DEF l, N, w
  <2>4. DOMAIN l \subseteq Nat \ {0}
    BY <2>1
  <2>5. w.any <=> \E s \in DOMAIN l : Seal(l, s)
    BY <2>1, <2>2 DEF WindowSays
  <2>6. ASSUME Clean(l, N)
        PROVE  (w.spoke => w.sealed) <=>
                 \A m \in DOMAIN l : Word(l, m) /\ StillOpen(l, m, N) => SealedFirst(l, m)
    <3>1. \A m \in DOMAIN l : Word(l, m) /\ StillOpen(l, m, N) => (SealedFirst(l, m) <=> w.sealed)
      BY <2>1, <2>2, <2>4, <2>6, WindowIsSealed DEF WindowSays
    <3> QED BY <2>1, <2>2, <3>1 DEF WindowSays
  <2>7. SealedBeforeEveryAgent(l) <=>
          /\ \E s \in DOMAIN l : Seal(l, s)
          /\ \A s \in DOMAIN l : Seal(l, s) => ~l[s].reached
          /\ \A m \in DOMAIN l : Word(l, m) => SealedFirst(l, m)
          /\ \A m, s \in DOMAIN l : Word(l, m) /\ Seal(l, s) /\ m < s => ~SameAgent(l, m, s)
    <3>1. ~w.broken <=> Clean(l, N)
      BY <2>2 DEF WindowSays
    <3> QED BY <2>1, <2>3, <2>5, <2>6, <3>1 DEF Clean
  <2> QED BY <2>7 DEF SealClaimIsTrue, Seal, Word, Done, SealedFirst, SameAgent, l
<1> QED BY <1>1, LawsHold, PTL

-----------------------------------------------------------------------------
(***************************************************************************)
(* What is claimed of a run on the strength of its log.                    *)
(***************************************************************************)
LEMMA ScoreIsBounded ==
  ASSUME NEW l, IsList(l), NEW st, Listed(l, st), NEW a, ShownIn(l, a), FixedIn(l, a)
  PROVE  Score(st, a) \in 63..Ceiling
<1> DEFINE fixes == RunsOf(st.runs, a, "fix")
           reruns == IF Cardinality(fixes) > 4 THEN 3
                     ELSE IF fixes = {} THEN 0 ELSE Cardinality(fixes) - 1
           wrote == RegisteredBytes(st.registrations, a) \in Applied
           quiet == fixes # {} /\ \A i \in fixes : ~st.runs[i].matched
           whole == ~\E i \in DOMAIN st.aborts :
                       st.aborts[i].attempt = a /\ st.aborts[i].phase \in {"base", "fix"}
<1>1. fixes # {} /\ IsFiniteSet(fixes)
  <2>1. Len(st.runs) \in Nat /\ DOMAIN st.runs = 1..Len(st.runs)
    BY AppendList DEF Listed, AreLists
  <2>2. fixes \subseteq 1..Len(st.runs) /\ fixes # {}
    BY <2>1, RunsAreTests DEF FixedIn
  <2> HIDE DEF fixes
  <2>3. IsFiniteSet(1..Len(st.runs))
    <3>1. 1 \in Int /\ Len(st.runs) \in Int
      BY <2>1
    <3> QED BY <3>1, FS_Interval
  <2> QED BY <2>2, <2>3, FS_Subset
<1>2. Cardinality(fixes) \in Nat /\ Cardinality(fixes) # 0
  <2> HIDE DEF fixes
  <2> QED BY <1>1, FS_CardinalityType, FS_EmptySet
<1>3. whole
  BY AbortsAreRecorded DEF ShownIn, BaseCutShort, FixedIn
<1>4. Score(st, a) = 45 + 5 * reruns + 7 + (IF wrote THEN 15 ELSE 8) + (IF quiet THEN 8 ELSE 0)
                       + (IF st.regression = "clean" THEN 10 ELSE 0) + (IF whole THEN 3 ELSE 0)
  BY DEF Score
<1> HIDE DEF fixes, wrote, quiet, whole
<1>5. reruns \in 0..3
  BY <1>1, <1>2
<1> HIDE DEF reruns
<1> QED BY <1>3, <1>4, <1>5 DEF Ceiling

(* confidence.ts, report.ts: whatever the stream, a tier better than 3 rests on
   an attempt whose events show the bug and the fix, and scores between 63 and
   the ceiling; Tier 1 with an agent's hand in it is the repository's own test
   run by its own command; and the comment says that the bug reproduced only
   when an attempt showed it. *)
THEOREM NoClaimIsUnearned == LawSpec => []ClaimsAreEarned
<1>1. Lawful => ClaimsAreEarned
  <2> SUFFICES ASSUME Lawful PROVE ClaimsAreEarned
    OBVIOUS
  <2> DEFINE l == written
             st == folded
             a == st.credited
             said == ConfidenceOf(st)
  <2>1. IsList(l) /\ Listed(l, st)
    BY DEF Lawful, Faithful
  <2> HIDE DEF l, st
  <2>2. /\ st.shown = {b \in Attempts(l) : ShownIn(l, b)}
        /\ a # 0 => ShownIn(l, a) /\ FixedIn(l, a)
    BY <2>1, VerdictIsLogged
  <2>3. said.tier # 3 => ShownIn(l, a) /\ FixedIn(l, a) /\ said.score \in 63..Ceiling
    <3>1. CASE a = 0
      BY <3>1 DEF ConfidenceOf
    <3>2. CASE a # 0
      <4>1. Score(st, a) \in 63..Ceiling
        BY <2>1, <2>2, <3>2, ScoreIsBounded
      <4>2. said.score = Score(st, a)
        BY <3>2 DEF ConfidenceOf
      <4> QED BY <2>2, <3>2, <4>1, <4>2
    <3> QED BY <3>1, <3>2
  <2>4. said.tier = 1 /\ AgentWrote(l) =>
          /\ JudgedBytes(l, a) \in Tracked
          /\ \E i \in Within(l, "SUITE_RUN", a) : l[i].phase = "base"
    <3> SUFFICES ASSUME said.tier = 1, AgentWrote(l)
                 PROVE  /\ JudgedBytes(l, a) \in Tracked
                        /\ \E i \in Within(l, "SUITE_RUN", a) : l[i].phase = "base"
      OBVIOUS
    <3>1. st.byAgent
      BY <2>1 DEF Listed
    <3>2. FromRepository(st, a)
      BY <3>1 DEF ConfidenceOf
    <3>3. JudgedBytes(l, a) \in Tracked
      BY <2>1, <3>2 DEF FromRepository, Listed
    <3>4. PICK i \in DOMAIN st.suites : st.suites[i].attempt = a /\ st.suites[i].phase = "base"
      BY <3>2 DEF FromRepository
    <3>5. st.suites[i] \in SuitesIn(l)
      BY <2>1, <3>4 DEF Listed, Values
    <3>6. PICK j \in Positions(l, "SUITE_RUN") : st.suites[i] = SuiteAt(l, j)
      BY <3>5 DEF SuitesIn
    <3>7. AttemptAt(l, j) = a /\ l[j].phase = "base"
      BY <3>4, <3>6 DEF SuiteAt
    <3> QED BY <3>3, <3>6, <3>7 DEF Within
  <2>5. Comment(st) = "reproduced, and no fix held" => \E b \in Attempts(l) : ShownIn(l, b)
    <3> SUFFICES ASSUME st.shown = {} PROVE Comment(st) # "reproduced, and no fix held"
      BY <2>2
    <3> QED BY DEF Comment
  <2> QED BY <2>3, <2>4, <2>5 DEF ClaimsAreEarned, l, st
<1> QED BY <1>1, LawsHold, PTL
=============================================================================
