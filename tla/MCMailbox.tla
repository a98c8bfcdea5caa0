------------------------------ MODULE MCMailbox ------------------------------
(***************************************************************************)
(* Instances of Mailbox for TLC, together with the mailbox it implements.  *)
(***************************************************************************)
EXTENDS Mailbox, TLC

Symmetry == Permutations(Receivers) \cup Permutations(Messages)
              \cup Permutations(Exits)
=============================================================================
