---------------------------- MODULE MCNodeLinks ------------------------------
(***************************************************************************)
(* Instances of NodeLinks for TLC: three mailboxes, of which the first two *)
(* are registered, under names of their own or under the same name.        *)
(***************************************************************************)
EXTENDS NodeLinks, TLC

CONSTANTS b1, b2, b3, n1, n2

OwnNames  == [b \in Boxes |-> IF b = b1 THEN n1 ELSE
                              IF b = b2 /\ n2 \in Names THEN n2 ELSE NoName]
SameName  == [b \in Boxes |-> IF b \in {b1, b2} THEN n1 ELSE NoName]
Nameless  == [b \in Boxes |-> NoName]
=============================================================================
