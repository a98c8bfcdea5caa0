---------------------------- MODULE MCHandshake ------------------------------
(***************************************************************************)
(* Instances of Handshake for TLC: the kinds of peers and the cookies.     *)
(***************************************************************************)
EXTENDS Handshake

TwoCookies == {"qwerty", "azerty"}
AnyPeer    == {"tinch", "erlang", "refusing", "lenient"}
=============================================================================
