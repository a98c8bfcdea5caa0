----------------------------- MODULE MCNodeStart ------------------------------
(***************************************************************************)
(* Instances of NodeStart for TLC.                                         *)
(***************************************************************************)
EXTENDS NodeStart, TLC

OwnName  == <<97, 98>>
PeerName == <<99>>

ThreadSymmetry == Permutations(Threads)
=============================================================================
