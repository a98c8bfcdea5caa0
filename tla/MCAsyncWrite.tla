---------------------------- MODULE MCAsyncWrite -----------------------------
(***************************************************************************)
(* Instances of AsyncWrite for TLC.                                        *)
(***************************************************************************)
EXTENDS AsyncWrite
=============================================================================
