----------------------------- MODULE MCSIPCore -----------------------------
(* Instances of SIPCore for TLC. *)
EXTENDS SIPCore, TLC

\* Users and calls are interchangeable in every safety property.
Symmetry == Permutations(Users) \cup Permutations(Calls)

\* A command waits unread until TakeCommands, so when it arrives before that
\* makes no difference to anything else: let it arrive just before.
CommandsArriveInTime == pendingCommands' = pendingCommands \/ pc = "commands"

=============================================================================
