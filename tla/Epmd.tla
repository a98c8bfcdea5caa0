--------------------------------- MODULE Epmd ---------------------------------
(***************************************************************************)
(* The requests to EPMD, the Erlang port mapper, and its answers, byte for *)
(* byte (impl/epmd_protocol.h, impl/epmd_requestor.cpp).  The daemon       *)
(* itself is external: it is modelled from the protocol the requests       *)
(* follow.                                                                 *)
(***************************************************************************)
EXTENDS Naturals, Sequences

max_word == 65535

Byte == 0..255
Word == 0..max_word

big_word(x)    == <<(x \div 256) % 256, x % 256>>
word_at(m, i)  == m[i] * 256 + m[i + 1]

-----------------------------------------------------------------------------
msg_length(node_name) == 13 + Len(node_name)

alive2_req(node_name, port) ==
  big_word(msg_length(node_name)) \o <<120>>
    \o big_word(port) \o <<72, 0>>            \* a hidden node, TCP/IPv4
    \o big_word(5) \o big_word(5)             \* the versions supported
    \o big_word(Len(node_name)) \o node_name
    \o big_word(0)                            \* no extra information

port_please2_req(peer_node) ==
  big_word(1 + Len(peer_node)) \o <<122>> \o peer_node

(***************************************************************************)
(* A response is read with one read_some into a buffer of zeros, so that   *)
(* what did not arrive yet is parsed as zeros.                             *)
(***************************************************************************)
Zeros(k)         == [i \in 1..k |-> 0]
ReadInto(size, bytes) == bytes \o Zeros(size - Len(bytes))

alive2_resp(msg) == [result |-> msg[2], creation |-> word_at(msg, 3)]

port2_resp_result(msg) == [result |-> msg[2], port |-> word_at(msg, 3)]

-----------------------------------------------------------------------------
(***************************************************************************)
(* EPMD: what it takes from an ALIVE2_REQ, or nothing if the request is    *)
(* not as long as it says or its parts do not add up; the node that a      *)
(* PORT_PLEASE2_REQ asks for; and its answers, as far as they are parsed.  *)
(***************************************************************************)
NotRegistered == [name |-> <<>>, port |-> 0, creation |-> 0]

epmd_reads(m) ==
  LET size == word_at(m, 12) IN
    IF Len(m) = 2 + word_at(m, 1) /\ m[3] = 120 /\ Len(m) = 15 + size
      THEN [name |-> SubSeq(m, 14, 13 + size), port |-> word_at(m, 4),
            creation |-> 0]
      ELSE NotRegistered

epmd_looks_up(m) == IF m[3] = 122 THEN SubSeq(m, 4, 2 + word_at(m, 1)) ELSE <<>>

ALIVE2_RESP(result, creation) == <<121, result>> \o big_word(creation)

PORT2_RESP(port) == <<119, 0>> \o big_word(port)

PORT2_REFUSED == <<119, 1>>
=============================================================================
