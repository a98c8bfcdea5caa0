--------------------------- MODULE MCRemoteLinks ------------------------------
(***************************************************************************)
(* Instances of RemoteLinks for TLC: one mailbox on the first node, one or *)
(* two on the second.                                                      *)
(***************************************************************************)
EXTENDS RemoteLinks, TLC

CONSTANTS na, nb, a1, b1, b2

Home == [b \in Boxes |-> IF b = a1 THEN na ELSE nb]

\* The two mailboxes of the second node may be exchanged.
Exchange == Permutations({b1, b2})
=============================================================================
