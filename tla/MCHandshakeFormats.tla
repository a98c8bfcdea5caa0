------------------------- MODULE MCHandshakeFormats ---------------------------
(***************************************************************************)
(* Instances of HandshakeFormats for TLC: a short and a longer name, flags *)
(* with and without the highest bit, versions around the supported one.    *)
(***************************************************************************)
EXTENDS HandshakeFormats, TLC

MCNames      == {<<120>>, <<120, 121, 64, 122>>}
MCStatuses   == Ok \cup {<<110, 111, 107>>}
MCFlags      == {capabilities, <<0, 0, 0, 4>>, <<129, 0, 5, 4>>}
MCChallenges == {<<0, 1, 2, 3>>, <<255, 0, 0, 17>>}
Good         == [i \in 1..16 |-> 200 + i]
Bad          == [i \in 1..16 |-> 200]
MCDigests    == {Good, Bad}

\* A tag that is not known, an empty message, and a name that is cut short.
MCForeign    == {Word(3) \o <<78, 0, 1>>, Word(0), Word(3) \o <<name_tag, 0, 5>>}
=============================================================================
