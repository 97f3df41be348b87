------------------------------ MODULE EventFeed ------------------------------
(***************************************************************************)
(* What a subscriber of one run's event stream relies on (ADR-0005): the   *)
(* events it is given are those of the log, from the first, in order, each *)
(* once, however often the connection under it is replaced.                *)
(*                                                                         *)
(* LiveView implements this specification.                                 *)
(***************************************************************************)
EXTENDS Integers, Sequences

VARIABLES published,  \* events in the log
          given       \* seqs handed to the subscriber, oldest first

Publish == published' = published + 1 /\ UNCHANGED given

Give ==
  /\ Len(given) < published
  /\ given' = Append(given, Len(given) + 1)
  /\ UNCHANGED published

\* A subscriber that starts over is given everything again.
StartOver == given' = <<>> /\ UNCHANGED published

FeedInit == published \in Nat /\ given = <<>>
FeedNext == Publish \/ Give \/ StartOver
FeedSpec == FeedInit /\ [][FeedNext]_<<published, given>>
=============================================================================
