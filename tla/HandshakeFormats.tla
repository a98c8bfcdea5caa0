-------------------------- MODULE HandshakeFormats ----------------------------
(***************************************************************************)
(* The messages of the handshake, byte for byte (impl/handshake_grammar.h):*)
(* what the generators write, and what the parsers make of it in each of   *)
(* the states that wait for a message (impl/node_connection_state.cpp).    *)
(* Between them is the lexer with the length field of two bytes            *)
(* (msg_lexer_handshake, impl/utils.cpp), see Lexer.                       *)
(*                                                                         *)
(* One node reads, as caller (A) or as called (B); what it writes itself   *)
(* in between is left out, and so are time and failures of the connection, *)
(* which are in Handshake.  Characters and dwords that are only passed on  *)
(* are sequences of bytes.                                                 *)
(***************************************************************************)
EXTENDS Lexer

CONSTANTS
  Names,          \* node names
  Statuses,       \* what the called node may answer to a name
  Versions,       \* versions of the protocol other nodes speak
  Flags,          \* capability flags of other nodes, four bytes
  Challenges,     \* four bytes
  Digests,        \* sixteen bytes
  own_digest      \* the digest expected of the other node

(***************************************************************************)
(* The numbers of constants.cpp.                                           *)
(***************************************************************************)
supported_version == 5
capabilities      == <<0, 0, 5, 4>>     \* 4, 0x100 and 0x400

Word(x)   == <<(x \div 256) % 256, x % 256>>
UWord(b)  == b[1] * 256 + b[2]

(***************************************************************************)
(* msg_lexer_handshake::read_msg_size, on a whole length field.            *)
(***************************************************************************)
HandshakeSize(field) == 2 + UWord(field)

(***************************************************************************)
(* An unsigned dword assigned to an int.                                   *)
(***************************************************************************)
SignedDword(b) ==
  (IF b[1] >= 128 THEN b[1] - 256 ELSE b[1]) * 16777216
    + b[2] * 65536 + b[3] * 256 + b[4]

name_tag   == 110      \* 'n', also of a challenge
status_tag == 115      \* 's'
reply_tag  == 114      \* 'r'
ack_tag    == 97       \* 'a'

read_buffer_size == 128

Byte     == 0..255
max_word == 65535

\* Sizes are written in two bytes: the largest are of a challenge and a status.
ASSUME FormatAssumption ==
  /\ length_field = 2 /\ \A m \in Byte \X Byte : Size(m) = HandshakeSize(m)
  /\ Versions \subseteq 0..max_word
  /\ \A x \in Names : x \in Seq(Byte) /\ x # <<>> /\ Len(x) + 11 <= max_word
  /\ \A x \in Statuses : x \in Seq(Byte) /\ x # <<>> /\ Len(x) + 1 <= max_word
  /\ \A f \in Flags \cup Challenges : f \in Seq(Byte) /\ Len(f) = 4
  /\ \A d \in Digests : d \in Seq(Byte) /\ Len(d) = 16
  /\ own_digest \in Digests

-----------------------------------------------------------------------------
(***************************************************************************)
(* The generators.  send_name and send_challenge_g write the version and   *)
(* the flags of this library; other nodes write their own.                 *)
(***************************************************************************)
NameMsg(version, flags, name) ==
  Word(Len(name) + 7) \o <<name_tag>> \o Word(version) \o flags \o name

send_name(name) == NameMsg(supported_version, capabilities, name)

receive_status_g(status) == Word(Len(status) + 1) \o <<status_tag>> \o status

\* Mutant: the challenge is not counted in the length.
send_challenge_short(challenge, name) ==
  Word(Len(name) + 7) \o <<name_tag>> \o Word(supported_version) \o capabilities
    \o challenge \o name

send_challenge_g(challenge, name) ==
  Word(Len(name) + 11) \o <<name_tag>> \o Word(supported_version) \o capabilities
    \o challenge \o name

challenge_reply(challenge, digest) ==
  Word(5 + 16) \o <<reply_tag>> \o challenge \o digest

send_challenge_ack_g(digest) == Word(1 + 16) \o <<ack_tag>> \o digest

-----------------------------------------------------------------------------
(***************************************************************************)
(* The parsers.  A parser that fails throws; bytes behind what it parses   *)
(* are not looked at.  From(m, i): the rest of m, of which +char_ needs at *)
(* least one.                                                              *)
(***************************************************************************)
From(m, i)    == SubSeq(m, i, Len(m))
Tagged(m, t)  == Len(m) >= 3 /\ m[3] = t
SizeIs(m, x)  == Len(m) >= 2 /\ UWord(m) = x
Failure       == [kind |-> "failure"]

send_name_p(m) ==
  IF Tagged(m, name_tag) /\ Len(m) > 9
    THEN [kind |-> "name", version0 |-> UWord(SubSeq(m, 4, 5)),
          version1 |-> SignedDword(SubSeq(m, 6, 9)), name |-> From(m, 10)]
    ELSE Failure

receive_status(m) ==
  IF Tagged(m, status_tag) /\ Len(m) > 3
    THEN [kind |-> "status", status |-> From(m, 4)]
    ELSE Failure

recv_challenge(m) ==
  IF Tagged(m, name_tag) /\ Len(m) > 13
    THEN [kind |-> "challenge", challenge |-> SubSeq(m, 10, 13),
          name |-> From(m, 14)]
    ELSE Failure

challenge_reply_p(m) ==
  IF SizeIs(m, 5 + 16) /\ Tagged(m, reply_tag) /\ Len(m) >= 23
    THEN [kind |-> "reply", challenge |-> SubSeq(m, 4, 7),
          digest |-> SubSeq(m, 8, 23)]
    ELSE Failure

recv_challenge_ack_p(m) ==
  IF SizeIs(m, 1 + 16) /\ Tagged(m, ack_tag) /\ Len(m) >= 19
    THEN [kind |-> "ack", digest |-> SubSeq(m, 4, 19)]
    ELSE Failure

-----------------------------------------------------------------------------
VARIABLES
  state,        \* the message the node waits for, or how the handshake ended
  sent,         \* history: the messages the other node sent
  parsed        \* history: what the parsers made of them

vars == <<lexer_vars, state, sent, parsed>>

Waiting == {"name", "reply", "status", "challenge", "ack"}

Script == [A |-> <<"status", "challenge", "ack">>, B |-> <<"name", "reply">>]

Init ==
  /\ state \in {"name", "status"}
  /\ LexerInit /\ sent = <<>> /\ parsed = <<>>

(***************************************************************************)
(* The node called waits for a name and a reply, the caller for the rest.  *)
(***************************************************************************)
Role == IF state \in {"name", "reply"} THEN "B"
        ELSE IF state \in Waiting THEN "A" ELSE "none"

-----------------------------------------------------------------------------
(***************************************************************************)
(* The other node.  It sends the messages of its part in turn, each when   *)
(* this node waits for it; the challenge follows the status at once.  Some *)
(* message may be one that this node does not expect there.                *)
(***************************************************************************)
Turn(kind) == state = kind \/ (kind = "challenge" /\ state = "status")

Due == Role # "none" /\ Len(sent) < Len(Script[Role])
       /\ Turn(Script[Role][Len(sent) + 1])

DueKind == Script[Role][Len(sent) + 1]

Sends(record, bytes) ==
  /\ sent' = Append(sent, record)
  /\ write(bytes)
  /\ UNCHANGED <<state, parsed>>

peer_sends_name ==
  \E v \in Versions, f \in Flags, x \in Names :
    Sends([kind |-> "name", version0 |-> v, version1 |-> SignedDword(f), name |-> x],
          NameMsg(v, f, x))

peer_sends_own_name ==
  \E x \in Names :
    Sends([kind |-> "name", version0 |-> supported_version,
           version1 |-> SignedDword(capabilities), name |-> x], send_name(x))

peer_sends_status ==
  \E x \in Statuses : Sends([kind |-> "status", status |-> x], receive_status_g(x))

peer_sends_challenge ==
  \E c \in Challenges, x \in Names :
    Sends([kind |-> "challenge", challenge |-> c, name |-> x],
          send_challenge_g(c, x))

peer_sends_reply ==
  \E c \in Challenges, d \in Digests :
    Sends([kind |-> "reply", challenge |-> c, digest |-> d], challenge_reply(c, d))

peer_sends_ack ==
  \E d \in Digests : Sends([kind |-> "ack", digest |-> d], send_challenge_ack_g(d))

peer_sends_foreign ==
  \E m \in Messages : Sends([kind |-> "foreign"], m)

-----------------------------------------------------------------------------
(***************************************************************************)
(* supported_version: the range is parsed from the version and the flags.  *)
(***************************************************************************)
\* Mutant: the bound is exclusive.
supports_below(x) ==
  supported_version > x.version0 /\ supported_version <= x.version1

supports(x) ==
  supported_version >= x.version0 /\ supported_version <= x.version1

ok              == <<111, 107>>
ok_simultaneous == ok \o <<95, 115, 105, 109, 117, 108, 116, 97, 110, 101, 111, 117, 115>>
Ok              == {ok, ok_simultaneous}

(***************************************************************************)
(* What each state does with the message it waited for.  A parse failure   *)
(* and a wrong acknowledgement are thrown to the recovery point of the I/O *)
(* thread: nothing is read any more and nothing reported.                  *)
(***************************************************************************)
Parse(s, m) ==
  CASE s = "name"      -> send_name_p(m)
    [] s = "status"    -> receive_status(m)
    [] s = "challenge" -> recv_challenge(m)
    [] s = "reply"     -> challenge_reply_p(m)
    [] s = "ack"       -> recv_challenge_ack_p(m)

(***************************************************************************)
(* The messages of other handshakes are refused in every state.            *)
(***************************************************************************)
ASSUME ForeignAssumption ==
  \A m \in Messages :
    m \in Seq(Byte) /\ \A s \in Waiting : Parse(s, m) = Failure

After(x) ==
  CASE x = Failure          -> "stalled"
    [] x.kind = "name"      -> IF supports(x) THEN "reply" ELSE "failed"
    [] x.kind = "status"    -> IF x.status \in Ok THEN "challenge" ELSE "failed"
    [] x.kind = "challenge" -> "ack"
    [] x.kind = "reply"     -> IF x.digest = own_digest THEN "connected" ELSE "failed"
    [] x.kind = "ack"       -> IF x.digest = own_digest THEN "connected" ELSE "stalled"

(***************************************************************************)
(* receive_challenge: a challenge that came with the status is in the      *)
(* lexer already and is handled without another read.  Any other message   *)
(* that came too early waits for the next read.                            *)
(***************************************************************************)
receive_challenge(x, rest) ==
  IF After(x) = "challenge" /\ rest # <<>>
    THEN <<x, Parse("challenge", Head(rest))>>
    ELSE <<x>>

(***************************************************************************)
(* A read of any size.  Once there is a whole message the first is         *)
(* handled; otherwise the next read is triggered.                          *)
(***************************************************************************)
checked_read ==
  /\ state \in Waiting
  /\ \E k \in {i \in 1..Len(network) : i <= read_buffer_size} :
       LET added == add(k)
           all   == msgs \o added.whole
           xs    == receive_challenge(Parse(state, Head(all)), Tail(all))
       IN  IF all # <<>>
             THEN /\ read(k, added, Len(xs))
                  /\ parsed' = parsed \o xs
                  /\ state' = After(Last(xs))
             ELSE read(k, added, 0) /\ UNCHANGED <<state, parsed>>
  /\ UNCHANGED sent

-----------------------------------------------------------------------------
Next ==
  \/ Due /\ DueKind = "name" /\ peer_sends_own_name
  \/ Due /\ DueKind = "name" /\ peer_sends_name
  \/ Due /\ DueKind = "status" /\ peer_sends_status
  \/ Due /\ DueKind \in {"challenge", "name", "status"} /\ peer_sends_challenge
  \/ Due /\ DueKind = "reply" /\ peer_sends_reply
  \/ Due /\ DueKind \in {"ack", "reply", "challenge"} /\ peer_sends_ack
  \/ Due /\ DueKind = "challenge" /\ peer_sends_own_name
  \/ Due /\ peer_sends_foreign
  \/ checked_read

Spec == Init /\ [][Next]_vars

-----------------------------------------------------------------------------
(***************************************************************************)
(* Whether the other node's i-th message was the one due.                  *)
(***************************************************************************)
InPlace(i) ==
  \E r \in {"A", "B"} :
    i \in DOMAIN Script[r] /\ sent[i].kind = Script[r][i]

(***************************************************************************)
(* What the other node writes is what this node reads, for every way the   *)
(* stream is cut into reads: the parser of the message that is awaited     *)
(* restores what its generator was given, and a message out of place is    *)
(* not taken for the awaited one but refused.  Only a name and a challenge *)
(* are alike, as they have the same tag: one may be taken for the other.   *)
(***************************************************************************)
ParsedAsSent ==
  \A i \in DOMAIN parsed :
    /\ i \in DOMAIN sent
    /\ IF InPlace(i)
         THEN parsed[i] = sent[i]
         ELSE \/ parsed[i] = Failure
              \/ {parsed[i].kind, sent[i].kind} = {"name", "challenge"}

(***************************************************************************)
(* A node that speaks the supported version and follows the handshake is   *)
(* not turned away and does not stop this one: the handshake ends without  *)
(* a connection only after a message out of place, a version or flags out  *)
(* of range (the flags are taken for the upper end of the range, and as a  *)
(* signed number), a status other than ok, or a wrong digest.              *)
(***************************************************************************)
TurnedAwayForCause ==
  state \in {"failed", "stalled"} =>
    LET m == sent[Len(parsed)] IN
      \/ ~InPlace(Len(parsed))
      \/ m.kind = "name" /\ (m.version0 > 5 \/ m.version1 < 5)
      \/ m.kind = "status" /\ m.status \notin Ok
      \/ m.kind \in {"reply", "ack"} /\ m.digest # own_digest
=============================================================================
