-------------------------------- MODULE Lexer --------------------------------
(***************************************************************************)
(* msg_lexer (impl/utils.cpp): the bytes of one direction of a connection, *)
(* read in pieces of any length, are cut into the messages that were       *)
(* written.  A message begins with a field that tells its length;          *)
(* msg_lexer_handshake and msg_lexer_connected differ in that field alone. *)
(*                                                                         *)
(* HandshakeFormats and MessagePath extend this module: what they write is *)
(* written here, and their reads take messages from the lexer.             *)
(***************************************************************************)
EXTENDS Integers, Sequences, SequencesExt

CONSTANTS
  length_field,   \* how many bytes the length field has
  Size(_),        \* the size it tells of the message, the field included
  Messages        \* messages that other nodes write

VARIABLES
  network,        \* written and not yet read
  incomplete,     \* msg_lexer::incomplete
  msgs,           \* msg_lexer::msgs
  built,          \* history: the messages written, in order
  taken           \* history: how many messages were taken from the lexer

lexer_vars == <<network, incomplete, msgs, built, taken>>

(***************************************************************************)
(* A message that tells its own length.                                    *)
(***************************************************************************)
Framed(m) == Len(m) >= length_field /\ Size(SubSeq(m, 1, length_field)) = Len(m)

ASSUME LexerAssumption ==
  /\ length_field \in Nat \ {0}
  /\ \A m \in Messages : m \in Seq(ToSet(m)) /\ Framed(m)

LexerInit ==
  /\ network = <<>> /\ incomplete = <<>> /\ msgs = <<>>
  /\ built = <<>> /\ taken = 0

-----------------------------------------------------------------------------
(***************************************************************************)
(* The other node writes a message; the write queue is the subject of      *)
(* AsyncWrite.                                                             *)
(***************************************************************************)
write(m) ==
  /\ built' = Append(built, m)
  /\ network' = network \o m
  /\ UNCHANGED <<incomplete, msgs, taken>>

(***************************************************************************)
(* read_msg_size: 0 if the size is not yet there.                          *)
(***************************************************************************)
read_msg_size(s) ==
  IF Len(s) < length_field THEN 0 ELSE Size(SubSeq(s, 1, length_field))

\* Mutant: of messages that arrive together only the first is taken out.
handle_new_condition_once(s) ==
  LET n == read_msg_size(s) IN
    IF n \in 1..Len(s)
      THEN [whole |-> <<SubSeq(s, 1, n)>>, rest |-> SubSeq(s, n + 1, Len(s))]
      ELSE [whole |-> <<>>, rest |-> s]

(***************************************************************************)
(* handle_new_condition: the whole messages of s and what remains.         *)
(***************************************************************************)
handle_new_condition(s) ==
  LET cut[i \in 0..Len(s)] ==        \* the same for what follows the first i
        LET rest == SubSeq(s, i + 1, Len(s))
            n    == read_msg_size(rest)
        IN  IF n \in 1..Len(rest)
              THEN [whole |-> <<SubSeq(s, i + 1, i + n)>> \o cut[i + n].whole,
                    rest  |-> cut[i + n].rest]
              ELSE [whole |-> <<>>, rest |-> rest]
  IN  cut[0]

(***************************************************************************)
(* A read of k bytes: add puts them behind those that are incomplete.      *)
(* Then n messages are taken by next_message.                              *)
(***************************************************************************)
add(k) == handle_new_condition(incomplete \o SubSeq(network, 1, k))

read(k, added, n) ==
  LET all == msgs \o added.whole IN
    /\ network' = SubSeq(network, k + 1, Len(network))
    /\ incomplete' = added.rest
    /\ msgs' = SubSeq(all, n + 1, Len(all))
    /\ taken' = taken + n
    /\ UNCHANGED built

-----------------------------------------------------------------------------
(***************************************************************************)
(* The lexer by itself: any messages are written, reads bring any part of  *)
(* them and are followed by any number of calls of next_message.           *)
(***************************************************************************)
LexerNext ==
  \/ \E m \in Messages : write(m)
  \/ \E k \in 1..Len(network) :
       \E n \in 0..Len(msgs \o add(k).whole) : read(k, add(k), n)

LexerSpec == LexerInit /\ [][LexerNext]_lexer_vars

(***************************************************************************)
(* msg_lexer: at any time the messages in the lexer, what is incomplete    *)
(* and what is still in the network are, in this order, exactly the        *)
(* messages that were built and not yet taken, cut where they were glued   *)
(* together; and what is called incomplete is not a whole message.         *)
(***************************************************************************)
Framing ==
  LET cut == taken + Len(msgs) IN
    /\ cut <= Len(built)
    /\ msgs = SubSeq(built, taken + 1, cut)
    /\ incomplete \o network = FlattenSeq(SubSeq(built, cut + 1, Len(built)))
    /\ incomplete # <<>> => Len(incomplete) < Len(built[cut + 1])
=============================================================================
