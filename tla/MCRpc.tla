------------------------------- MODULE MCRpc ----------------------------------
(***************************************************************************)
(* Instances of Rpc for TLC.                                               *)
(***************************************************************************)
EXTENDS Rpc, TLC

AnswersAndStrays == Calls \cup Strays
=============================================================================
