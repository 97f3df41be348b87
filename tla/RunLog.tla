------------------------------- MODULE RunLog -------------------------------
(***************************************************************************)
(* What the event log promises to everybody who reads it, whatever happens *)
(* between the plane and the runners (ADR-0001, ADR-0009, ADR-0019):       *)
(*                                                                         *)
(*   - an event once recorded is never changed and never removed;          *)
(*   - a run is recorded from seq 1 on, without gaps, so that fold() can   *)
(*     take it;                                                            *)
(*   - all the runners that recorded events of one run and have not been   *)
(*     revoked are one and the same runner.                                *)
(*                                                                         *)
(* Dispatch implements this specification.                                 *)
(***************************************************************************)
EXTENDS Integers

CONSTANTS Runs, Runners, Machines, TokenOf, MaxSeq, NoEvent

VARIABLES log, revoked

Slots == 1..MaxSeq

Authors(r) == {TokenOf[log[r][s]] : s \in {i \in Slots : log[r][i] # NoEvent}}

Record(r, s, m) ==
  /\ log[r][s] = NoEvent
  /\ \A i \in Slots : i < s => log[r][i] # NoEvent
  /\ TokenOf[m] \in revoked \/ Authors(r) \subseteq revoked \cup {TokenOf[m]}
  /\ log' = [log EXCEPT ![r][s] = m]
  /\ UNCHANGED revoked

Revoke(t) ==
  /\ revoked' = revoked \cup {t}
  /\ UNCHANGED log

LogInit ==
  /\ log = [r \in Runs |-> [s \in Slots |-> NoEvent]]
  /\ revoked = {}

LogNext ==
  \/ \E r \in Runs, s \in Slots, m \in Machines : Record(r, s, m)
  \/ \E t \in Runners : Revoke(t)

LogSpec == LogInit /\ [][LogNext]_<<log, revoked>>
=============================================================================
