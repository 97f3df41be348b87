---------------------------- MODULE MCOnboarding ----------------------------
(* Instance of Onboarding: two approvals while onboarding, two presses of Start after. *)
EXTENDS Onboarding

CONSTANTS empty, real

MCCommands == {empty, real}
MCNeedy == {real}
MCRequests == {1, 2}
MCBounds == [new |-> [approvals |-> 2, drafts |-> 1, starts |-> 0, changes |-> 0],
             old |-> [approvals |-> 0, drafts |-> 0, starts |-> 2, changes |-> 2]]
=============================================================================
