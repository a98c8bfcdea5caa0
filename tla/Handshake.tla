------------------------------ MODULE Handshake ------------------------------
(***************************************************************************)
(* One connection between two nodes, from the originator's first message   *)
(* to the exchange of data (impl/node_connection.cpp and the states of     *)
(* impl/node_connection_state.cpp).  A calls, B has accepted the socket.   *)
(*                                                                         *)
(* A state writes its messages, and the callback of the last write moves   *)
(* to the next state, which asks for a read; the callback of a read takes  *)
(* one message out of the connection's lexer.  One read may bring several  *)
(* messages.  The handshake and the connected phase frame messages         *)
(* differently and have a lexer each.                                      *)
(*                                                                         *)
(* The callbacks of one connection run in its node's io_service thread,    *)
(* one at a time, so each is one action; the two nodes, their clients and  *)
(* the network interleave, and a message may reach the other node before   *)
(* the callback of its write has run.  Clients send in threads of their    *)
(* own and fill the write queue without a lock: a client's call takes two  *)
(* steps, and from the first access of the queue that falls in between     *)
(* what the node writes is undefined (AsyncWrite models the queue itself). *)
(* Messages are whole here: splitting the byte stream into messages is not *)
(* the subject of this module.                                             *)
(***************************************************************************)
EXTENDS Naturals, Sequences, SequencesExt

CONSTANTS
  Cookies,      \* the cookies a node may have been given
  Peers,        \* what B may be: "tinch", or a node of another kind
                \*   "erlang"   closes the connection when it refuses A's
                \*              digest, and sends ticks once connected
                \*   "refusing" answers with a status that is not ok
                \*   "lenient"  does not verify A's digest
  Versions,     \* whether A's protocol version is one B supports: the answers
  MayBreak,     \* whether the network connection may be lost
  MaxData       \* bound on the messages each node sends once connected

Node == {"A", "B"}
Other(n) == IF n = "A" THEN "B" ELSE "A"

ASSUME HandshakeAssumption ==
  /\ Peers \subseteq {"tinch", "erlang", "refusing", "lenient"}
  /\ Versions \subseteq BOOLEAN /\ MayBreak \in BOOLEAN
  /\ MaxData \in Nat

VARIABLES
  cookie,           \* the cookie of each node
  peer,             \* what B is
  supported,        \* whether A's version is supported by B
  state,            \* the connection_state of each end
  started,          \* A's client has started the handshake
  write_queue,      \* the messages each end has asked to write
  writing,          \* the write at the front of each queue: "none", "started"
                    \* or "done" (transmitted, its callback still to run)
  network,          \* the messages on their way to each end
  reading,          \* whether a read is outstanding at each end
  handshake_msgs,   \* the lexer in use during the handshake
  connected_msgs,   \* the lexer in use afterwards
  signals,          \* the calls of the handshake_success signal
  broken,           \* the network connection is lost
  sending,          \* the clients of each node that are inside trigger_write
  raced,            \* the queue was used while one of them was inside
  sent,             \* history: what each end has sent once connected
  dispatched        \* history: what each end has dispatched once connected

setting == <<cookie, peer, supported>>
writes  == <<write_queue, writing>>
lexers  == <<handshake_msgs, connected_msgs>>
access  == <<sending, raced>>
history == <<sent, dispatched>>
vars    == <<setting, state, started, writes, network, reading, lexers,
             signals, broken, access, history>>

(***************************************************************************)
(* A digest is a hash of a challenge and a cookie, told apart from every   *)
(* other; the challenge of a node is named by the node.                    *)
(***************************************************************************)
calculate_digest(challenge, c) == <<challenge, c>>

Msg(kind)  == [kind |-> kind]
status_msg == [kind |-> "status", ok |-> peer # "refusing"]
reply_msg  == [kind |-> "reply", digest |-> calculate_digest("B", cookie["A"])]
ack_msg    == [kind |-> "ack", digest |-> calculate_digest("A", cookie["B"])]
Data(i)    == [kind |-> "data", number |-> i]
tick       == Msg("tick")

HandshakeStates == {"connected_tcp", "waiting_for_status",
                    "receiving_challenge", "sending_challenge_reply",
                    "receiving_challenge_ack", "sending_status",
                    "waiting_for_challenge_reply", "sending_challenge_ack"}

Init ==
  /\ cookie \in [Node -> Cookies] /\ peer \in Peers /\ supported \in Versions
  /\ state = [n \in Node |-> "connected_tcp"]
  /\ started = FALSE
  /\ write_queue = [n \in Node |-> <<>>]
  /\ writing = [n \in Node |-> "none"]
  /\ network = [n \in Node |-> <<>>]
  /\ reading = [n \in Node |-> n = "B"]
  /\ handshake_msgs = [n \in Node |-> <<>>]
  /\ connected_msgs = [n \in Node |-> <<>>]
  /\ signals = [n \in Node |-> <<>>]
  /\ broken = FALSE
  /\ sending = [n \in Node |-> 0] /\ raced = [n \in Node |-> FALSE]
  /\ sent = [n \in Node |-> <<>>]
  /\ dispatched = [n \in Node |-> <<>>]

-----------------------------------------------------------------------------
Set(f, n, x) == [f EXCEPT ![n] = x]

(***************************************************************************)
(* Messages are queued for writing; the first one of an empty queue is     *)
(* handed to the network at once.  (A test, a push and the start of the    *)
(* write: one step for the io_service thread, Overlapped for the others.)  *)
(***************************************************************************)
trigger_write(n, msgs) ==
  /\ write_queue' = [write_queue EXCEPT ![n] = @ \o msgs]
  /\ writing' = [writing EXCEPT ![n] =
                   IF write_queue[n] = <<>> THEN "started" ELSE @]

(***************************************************************************)
(* The queue of n is used while c clients are inside trigger_write.        *)
(***************************************************************************)
Overlapped(n, c) == raced' = [raced EXCEPT ![n] = @ \/ c > 0]

Signal(n, success) == signals' = [signals EXCEPT ![n] = Append(@, success)]

(***************************************************************************)
(* The connection starts over in its initial state and tells the node's    *)
(* connector.  The socket stays open.                                      *)
(***************************************************************************)
report_failure(n) ==
  /\ state' = Set(state, n, "connected_tcp")
  /\ Signal(n, FALSE)

(***************************************************************************)
(* handshake_complete: the other lexer is used from now on, and the        *)
(* connector is told.                                                      *)
(***************************************************************************)
handshake_complete(n) == Signal(n, TRUE)

make_transition_to_connected(n) ==
  /\ state' = Set(state, n, "connected")
  /\ handshake_complete(n)
  /\ reading' = Set(reading, n, TRUE)

(***************************************************************************)
(* The client's thread starts the handshake: the name is written.          *)
(***************************************************************************)
initiate_handshake ==
  /\ ~started /\ started' = TRUE
  /\ trigger_write("A", <<Msg("name")>>)
  /\ UNCHANGED <<setting, state, network, reading, lexers, signals, broken,
                 access, history>>

-----------------------------------------------------------------------------
(***************************************************************************)
(* The network accepts the message at the front of the queue; after a race *)
(* it may be anything: the message once more, another one, freed memory.   *)
(***************************************************************************)
garbled == Msg("garbled")

transmitted(n) ==
  /\ writing[n] = "started" /\ ~broken
  /\ writing' = Set(writing, n, "done")
  /\ \E m \in {Head(write_queue[n])} \cup {g \in {garbled} : raced[n]} :
       network' = [network EXCEPT ![Other(n)] = Append(@, m)]
  /\ UNCHANGED <<setting, state, started, write_queue, reading, lexers,
                 signals, broken, access, history>>

(***************************************************************************)
(* A state whose last message has been written: the next state, which      *)
(* reads.                                                                  *)
(***************************************************************************)
NextState == [name      |-> "waiting_for_status",
              challenge |-> "waiting_for_challenge_reply",
              reply     |-> "receiving_challenge_ack"]

change_state(n, kind) ==
  \/ /\ kind = "ack"
     /\ make_transition_to_connected(n)
  \/ /\ kind \in DOMAIN NextState
     /\ state' = Set(state, n, NextState[kind])
     /\ reading' = Set(reading, n, TRUE)
     /\ UNCHANGED signals
  \/ /\ kind \in {"status", "data", "tick"}
     /\ UNCHANGED <<state, reading, signals>>

(***************************************************************************)
(* The completion of a write: the next one starts and the callback runs.   *)
(***************************************************************************)
checked_write(n) ==
  /\ writing[n] = "done"
  /\ write_queue' = [write_queue EXCEPT ![n] = Tail(@)]
  /\ writing' = Set(writing, n, IF Tail(write_queue[n]) = <<>>
                                  THEN "none" ELSE "started")
  /\ change_state(n, Head(write_queue[n]).kind)
  /\ Overlapped(n, sending[n])
  /\ UNCHANGED <<setting, started, network, lexers, broken, sending, history>>

-----------------------------------------------------------------------------
(***************************************************************************)
(* A read completes with the first k messages of the network.  During the  *)
(* handshake they go to the handshake lexer, of which the callback takes   *)
(* the first.                                                              *)
(***************************************************************************)
ReadInto(n, k) == handshake_msgs[n] \o SubSeq(network[n], 1, k)

Reads(n, s, k) ==
  /\ reading[n] /\ state[n] = s
  /\ network' = [network EXCEPT ![n] = SubSeq(@, k + 1, Len(@))]
  /\ UNCHANGED <<setting, started, connected_msgs, access, history>>

LexerKeeps(n, rest) == handshake_msgs' = Set(handshake_msgs, n, rest)

StopsReading(n) == reading' = Set(reading, n, FALSE)

\* Mutant: the acceptor is not told that B gave up.
give_up_silently ==
  /\ state' = Set(state, "B", "connected_tcp")
  /\ UNCHANGED signals
  /\ broken' = (broken \/ peer # "tinch")

(***************************************************************************)
(* B refuses A's version or digest.  A tinch++ node keeps the socket, an   *)
(* Erlang node closes it.                                                  *)
(***************************************************************************)
give_up ==
  /\ report_failure("B")
  /\ broken' = (broken \/ peer # "tinch")

(***************************************************************************)
(* B reads A's name, and writes its status and its challenge (no challenge *)
(* follows a status that refuses).                                         *)
(***************************************************************************)
sending_status ==
  /\ state' = Set(state, "B", "sending_status")
  /\ trigger_write("B", IF peer = "refusing" THEN <<status_msg>>
                        ELSE <<status_msg, Msg("challenge")>>)
  /\ UNCHANGED signals

name_read(k) ==
  /\ Reads("B", "connected_tcp", k)
  /\ LexerKeeps("B", Tail(ReadInto("B", k)))
  /\ StopsReading("B")
  /\ \/ supported /\ sending_status /\ UNCHANGED broken
     \/ ~supported /\ give_up /\ UNCHANGED writes

(***************************************************************************)
(* A answers the challenge.                                                *)
(***************************************************************************)
sending_challenge_reply ==
  /\ state' = Set(state, "A", "sending_challenge_reply")
  /\ StopsReading("A")
  /\ trigger_write("A", <<reply_msg>>)
  /\ UNCHANGED signals

\* Mutant: the challenge is waited for although it came with the status.
challenge_expected(rest) ==
  /\ LexerKeeps("A", rest)
  /\ state' = Set(state, "A", "receiving_challenge")
  /\ UNCHANGED <<reading, writes, signals>>

(***************************************************************************)
(* A has read the status: the challenge may be in the lexer already.       *)
(***************************************************************************)
receive_challenge(rest) ==
  \/ /\ rest # <<>>
     /\ LexerKeeps("A", Tail(rest))
     /\ sending_challenge_reply
  \/ /\ rest = <<>>
     /\ LexerKeeps("A", rest)
     /\ state' = Set(state, "A", "receiving_challenge")
     /\ UNCHANGED <<reading, writes, signals>>

status_read(k) ==
  /\ Reads("A", "waiting_for_status", k)
  /\ \/ /\ Head(ReadInto("A", k)).ok
        /\ receive_challenge(Tail(ReadInto("A", k)))
     \/ /\ ~Head(ReadInto("A", k)).ok
        /\ LexerKeeps("A", Tail(ReadInto("A", k)))
        /\ StopsReading("A")
        /\ report_failure("A")
        /\ UNCHANGED writes
  /\ UNCHANGED broken

challenge_read(k) ==
  /\ Reads("A", "receiving_challenge", k)
  /\ LexerKeeps("A", Tail(ReadInto("A", k)))
  /\ sending_challenge_reply
  /\ UNCHANGED broken

\* Mutant: B does not compare the digests.
any_digest(m) == TRUE

(***************************************************************************)
(* B: A's digest of B's challenge.                                         *)
(***************************************************************************)
is_correct_digest(m) == m.digest = calculate_digest("B", cookie["B"])

reply_received(k) ==
  /\ Reads("B", "waiting_for_challenge_reply", k)
  /\ LexerKeeps("B", Tail(ReadInto("B", k)))
  /\ StopsReading("B")
  /\ LET correct == peer = "lenient"
                      \/ is_correct_digest(Head(ReadInto("B", k))) IN
       \/ /\ correct
          /\ state' = Set(state, "B", "sending_challenge_ack")
          /\ trigger_write("B", <<ack_msg>>)
          /\ UNCHANGED <<signals, broken>>
       \/ ~correct /\ give_up /\ UNCHANGED writes

(***************************************************************************)
(* A: B's digest of A's challenge.                                         *)
(***************************************************************************)
is_correct(m) == m.digest = calculate_digest("A", cookie["A"])

(***************************************************************************)
(* A reads B's acknowledgement.  A wrong digest is thrown to the           *)
(* io_service loop, which prints it: nothing is read or signalled any      *)
(* more.                                                                   *)
(***************************************************************************)
challenge_ack_read(k) ==
  /\ Reads("A", "receiving_challenge_ack", k)
  /\ LexerKeeps("A", Tail(ReadInto("A", k)))
  /\ \/ /\ is_correct(Head(ReadInto("A", k)))
        /\ make_transition_to_connected("A")
     \/ /\ ~is_correct(Head(ReadInto("A", k)))
        /\ StopsReading("A")
        /\ UNCHANGED <<state, signals>>
  /\ UNCHANGED <<writes, broken>>

-----------------------------------------------------------------------------
\* Mutant: the newest message of the lexer is handled.
newest_message(msgs) == [msg |-> Last(msgs), left |-> Front(msgs)]

(***************************************************************************)
(* The oldest message of a lexer, and what the lexer keeps.                *)
(***************************************************************************)
next_message(msgs) == [msg |-> Head(msgs), left |-> Tail(msgs)]

Sends(n, m) ==
  /\ sent' = [sent EXCEPT ![n] = Append(@, m)]
  /\ trigger_write(n, <<m>>)

(***************************************************************************)
(* A tick is answered with the same message; an Erlang node, which ticks   *)
(* of its own accord, does not answer.                                     *)
(***************************************************************************)
Answers(n, m) ==
  \/ /\ m = tick /\ (n = "A" \/ peer = "tinch")
     /\ Sends(n, tick) /\ Overlapped(n, sending[n])
  \/ /\ ~(m = tick /\ (n = "A" \/ peer = "tinch"))
     /\ UNCHANGED <<sent, writes, raced>>

(***************************************************************************)
(* Connected: a read brings k messages to the lexer, one of which is       *)
(* handled, and the next read is asked for.                                *)
(***************************************************************************)
msg_received(n, k) ==
  /\ reading[n] /\ state[n] = "connected"
  /\ LET next == next_message(connected_msgs[n] \o SubSeq(network[n], 1, k)) IN
       /\ dispatched' = [dispatched EXCEPT ![n] = Append(@, next.msg)]
       /\ connected_msgs' = Set(connected_msgs, n, next.left)
       /\ Answers(n, next.msg)
  /\ network' = [network EXCEPT ![n] = SubSeq(@, k + 1, Len(@))]
  /\ UNCHANGED <<setting, state, started, reading, handshake_msgs, signals,
                 broken, sending>>

(***************************************************************************)
(* A client sends through the connection, which the connector gives out    *)
(* once it has been told of the success; the connection stays in its       *)
(* connected state when the network fails.  An Erlang peer may send a      *)
(* tick.                                                                   *)
(***************************************************************************)
send(n) ==
  /\ state[n] = "connected"
  /\ Len(sent[n]) + sending[n] < MaxData
  /\ sending' = [sending EXCEPT ![n] = @ + 1]
  /\ Overlapped(n, sending[n])
  /\ UNCHANGED <<setting, state, started, writes, network, reading, lexers,
                 signals, broken, history>>

send_returns(n) ==
  /\ sending[n] > 0
  /\ sending' = [sending EXCEPT ![n] = @ - 1]
  /\ \E m \in {Data(Len(sent[n]) + 1)}
                \cup (IF n = "B" /\ peer = "erlang" THEN {tick} ELSE {}) :
       Sends(n, m)
  /\ UNCHANGED <<setting, state, started, network, reading, lexers, signals,
                 broken, raced, dispatched>>

-----------------------------------------------------------------------------
(***************************************************************************)
(* The connection is lost, with what was on its way.                       *)
(***************************************************************************)
connection_lost ==
  /\ MayBreak /\ ~broken /\ started
  /\ broken' = TRUE
  /\ network' = [n \in Node |-> <<>>]
  /\ UNCHANGED <<setting, state, started, writes, reading, lexers, signals,
                 access, history>>

\* Mutant: the connected state reports a failure like the others.
handle_io_error_reported(n) == report_failure(n)

(***************************************************************************)
(* An operation fails.  A connected state throws, which leaves it as it is *)
(* (the node drops the connection); a state of the handshake reports a     *)
(* failure.                                                                *)
(***************************************************************************)
handle_io_error(n) ==
  \/ state[n] = "connected" /\ UNCHANGED <<state, signals>>
  \/ state[n] # "connected" /\ report_failure(n)

\* A read fails once all that arrived has been read.
read_error(n) ==
  /\ broken /\ reading[n] /\ network[n] = <<>>
  /\ StopsReading(n)
  /\ handle_io_error(n)
  /\ UNCHANGED <<setting, started, writes, network, lexers, broken, access,
                 history>>

\* A write fails: the message stays in the queue, and no other write starts.
write_error(n) ==
  /\ broken /\ writing[n] = "started"
  /\ writing' = Set(writing, n, "none")
  /\ handle_io_error(n)
  /\ UNCHANGED <<setting, started, write_queue, network, reading, lexers,
                 broken, access, history>>

-----------------------------------------------------------------------------
Ks(n) == 1..Len(network[n])

Next ==
  \/ initiate_handshake
  \/ \E n \in Node : transmitted(n)
  \/ \E n \in Node : checked_write(n)
  \/ \E k \in Ks("B") : name_read(k)
  \/ \E k \in Ks("A") : status_read(k)
  \/ \E k \in Ks("A") : challenge_read(k)
  \/ \E k \in Ks("B") : reply_received(k)
  \/ \E k \in Ks("A") : challenge_ack_read(k)
  \/ \E n \in Node : \E k \in Ks(n) : msg_received(n, k)
  \/ \E n \in Node : send(n)
  \/ \E n \in Node : send_returns(n)
  \/ connection_lost
  \/ \E n \in Node : read_error(n)
  \/ \E n \in Node : write_error(n)

Spec == Init /\ [][Next]_vars

(***************************************************************************)
(* Each node's io_service thread runs its callbacks, and the network       *)
(* carries what is written and reports a lost connection.  Nobody is       *)
(* obliged to connect or to send, and the connection need not be lost.     *)
(***************************************************************************)
Fairness ==
  /\ \A n \in Node :
       /\ WF_vars(transmitted(n)) /\ WF_vars(checked_write(n))
       /\ WF_vars(read_error(n)) /\ WF_vars(write_error(n))
       /\ WF_vars(\E k \in Ks(n) : msg_received(n, k))
  /\ WF_vars(\E k \in Ks("B") : name_read(k) \/ reply_received(k))
  /\ WF_vars(\E k \in Ks("A") : \/ status_read(k) \/ challenge_read(k)
                                \/ challenge_ack_read(k))

FairSpec == Spec /\ Fairness

-----------------------------------------------------------------------------
(***************************************************************************)
(* Type correctness of the two ends.                                       *)
(***************************************************************************)
TypeOK ==
  /\ cookie \in [Node -> Cookies] /\ peer \in Peers /\ supported \in Versions
  /\ state \in [Node -> HandshakeStates \cup {"connected"}]
  /\ started \in BOOLEAN /\ broken \in BOOLEAN
  /\ reading \in [Node -> BOOLEAN]
  /\ writing \in [Node -> {"none", "started", "done"}]
  /\ signals \in [Node -> Seq(BOOLEAN)]
  /\ \A n \in Node :
       \A q \in {write_queue[n], network[n], handshake_msgs[n],
                 connected_msgs[n]} :
         \A i \in DOMAIN q :
           q[i].kind \in {"name", "status", "challenge", "reply", "ack",
                          "data", "tick", "garbled"}
  /\ sending \in [Node -> Nat] /\ raced \in [Node -> BOOLEAN]

(***************************************************************************)
(* A tinch++ node is connected only to a node that proved knowledge of its *)
(* cookie: the digest it checked was of its own challenge and cookie, so   *)
(* neither end connects when the cookies differ.                           *)
(***************************************************************************)
Trust ==
  /\ state["A"] = "connected" => cookie["A"] = cookie["B"]
  /\ state["B"] = "connected" /\ peer # "lenient" => cookie["A"] = cookie["B"]

(***************************************************************************)
(* The two ends agree: when the originator is connected, the other end is  *)
(* too, or has only the callback of its acknowledgement's write to run.    *)
(* A lost connection does not change that: the originator never takes a    *)
(* connection for established that the other end has given up.             *)
(***************************************************************************)
Agreement ==
  state["A"] = "connected" =>
    \/ state["B"] = "connected"
    \/ state["B"] = "sending_challenge_ack" /\ writing["B"] = "done"

(***************************************************************************)
(* The connector of each node is told the outcome of an attempt at most    *)
(* once: its slot for the result is shared by all attempts, and a second   *)
(* signal would be taken for the outcome of another one.                   *)
(***************************************************************************)
SignalledOnce == \A n \in Node : Len(signals[n]) <= 1

GapFree(n) ==
  raced[Other(n)] \/ IsPrefix(dispatched[n], sent[Other(n)])

(***************************************************************************)
(* What the end that was called handles is, in order and without a gap,    *)
(* what the caller sent, however reads bring messages together and however *)
(* the callbacks, the network and the clients of both nodes interleave, as *)
(* long as no client was inside trigger_write while the caller's queue was *)
(* used by somebody else.                                                  *)
(***************************************************************************)
CallerToCalled == GapFree("B")

(***************************************************************************)
(* What the caller handles is, in order and without a gap, what the other  *)
(* end sent.                                                               *)
(***************************************************************************)
CalledToCaller == GapFree("A")

(***************************************************************************)
(* An attempt comes to an end: the client that started it is told          *)
(* (node_connection_state.cpp: on a failure "the node_connector will react *)
(* to that and terminate the connection attempt").                         *)
(***************************************************************************)
AttemptResolved == started ~> signals["A"] # <<>>

Fit == supported /\ cookie["A"] = cookie["B"]

(***************************************************************************)
(* An attempt comes to an end when the two nodes fit, wherever the         *)
(* connection is lost and whatever reads bring together, and when the      *)
(* other node closes the connection on a failure, as Erlang nodes do.      *)
(***************************************************************************)
AttemptEnds ==
  started /\ (Fit \/ peer \in {"erlang", "refusing"}) ~> signals["A"] # <<>>

(***************************************************************************)
(* A tinch++ node that was called goes back to accepting connections: an   *)
(* attempt that was started ends for it too, whatever the cookies and the  *)
(* version.  The caller is a tinch++ node: one that connects and then says *)
(* nothing, or sends what does not parse, stops the accept loop.           *)
(***************************************************************************)
AcceptorFreed == started /\ peer = "tinch" ~> signals["B"] # <<>>

(***************************************************************************)
(* What is sent over a connection that is not lost is handled at the other *)
(* end (utils.h: "We need a way to split concatenated messages").          *)
(***************************************************************************)
SentIsDispatched ==
  \A i \in 1..MaxData :
    Len(sent["A"]) >= i ~> (Len(dispatched["B"]) >= i \/ broken)
=============================================================================
