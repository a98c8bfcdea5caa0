--------------------------- MODULE HandshakeProofs ----------------------------
(***************************************************************************)
(* Proofs about Handshake, for any cookies, any kind of peer and any number *)
(* of messages: what the two ends know of each other when the connection is *)
(* lost at any point and messages overtake the callbacks of their writes.   *)
(***************************************************************************)
EXTENDS Handshake, SequenceTheorems, TLAPS

Message ==
  [kind : {"name", "challenge", "tick", "garbled"}]
    \cup [kind : {"status"}, ok : BOOLEAN]
    \cup [kind : {"reply", "ack"}, digest : Node \X Cookies]
    \cup [kind : {"data"}, number : Nat]

(***************************************************************************)
(* The types of the state, and the queues as lists of messages.            *)
(***************************************************************************)
Typed ==
  /\ cookie \in [Node -> Cookies] /\ peer \in Peers /\ supported \in Versions
  /\ state \in [Node -> HandshakeStates \cup {"connected"}]
  /\ started \in BOOLEAN /\ broken \in BOOLEAN
  /\ reading \in [Node -> BOOLEAN]
  /\ writing \in [Node -> {"none", "started", "done"}]
  /\ signals \in [Node -> Seq(BOOLEAN)]
  /\ write_queue \in [Node -> Seq(Message)]
  /\ network \in [Node -> Seq(Message)]
  /\ handshake_msgs \in [Node -> Seq(Message)]
  /\ connected_msgs \in [Node -> Seq(Message)]
  /\ sent \in [Node -> Seq(Message)]
  /\ dispatched \in [Node -> Seq(Message)]

-----------------------------------------------------------------------------
(***************************************************************************)
(* One end.  During the handshake an end is either writing the messages of *)
(* its state, or reading, or has nothing outstanding any more; it has not  *)
(* signalled.  A connected end has signalled once, and writes only data.   *)
(* An end that failed has signalled once, and is back in its first state.  *)
(***************************************************************************)
Quiet(n)     == writing[n] = "none" /\ write_queue[n] = <<>>
Writes(n, q) == writing[n] \in {"started", "done"} /\ write_queue[n] = q

Silent(n)    == Len(signals[n]) = 0
Signalled(n) == Len(signals[n]) = 1

Failed(n) ==
  /\ state[n] = "connected_tcp" /\ Signalled(n)
  /\ writing[n] = "none" /\ ~reading[n]

Connected(n) ==
  /\ state[n] = "connected" /\ Signalled(n)
  /\ writing[n] # "none" => write_queue[n] # <<>>
  /\ \A i \in DOMAIN write_queue[n] : write_queue[n][i].kind \in {"data", "tick"}

Reading(n) == Quiet(n) /\ reading[n] /\ handshake_msgs[n] = <<>>

Busy(n, q) == Writes(n, q) /\ ~reading[n] /\ handshake_msgs[n] = <<>>

EndA ==
  \/ /\ state["A"] = "connected_tcp" /\ Silent("A")
     /\ \/ /\ ~started /\ Quiet("A") /\ ~reading["A"]
           /\ handshake_msgs["A"] = <<>>
        \/ started /\ Busy("A", <<Msg("name")>>)
  \/ /\ state["A"] \in {"waiting_for_status", "receiving_challenge"}
     /\ started /\ Silent("A") /\ Reading("A")
  \/ /\ state["A"] = "sending_challenge_reply"
     /\ started /\ Silent("A") /\ Busy("A", <<reply_msg>>)
  \/ /\ state["A"] = "receiving_challenge_ack"
     /\ started /\ Silent("A")
     /\ Reading("A") \/ (Quiet("A") /\ ~reading["A"])
  \/ started /\ Connected("A")
  \/ started /\ Failed("A")

EndB ==
  \/ state["B"] = "connected_tcp" /\ Silent("B") /\ Reading("B")
  \/ /\ state["B"] = "sending_status" /\ Silent("B")
     /\ \/ /\ peer = "refusing"
           /\ \/ Busy("B", <<status_msg>>)
              \/ Quiet("B") /\ ~reading["B"]
        \/ /\ peer # "refusing"
           /\ \/ Busy("B", <<status_msg, Msg("challenge")>>)
              \/ Busy("B", <<Msg("challenge")>>)
  \/ /\ state["B"] = "waiting_for_challenge_reply" /\ peer # "refusing"
     /\ Silent("B") /\ Reading("B")
  \/ /\ state["B"] = "sending_challenge_ack" /\ peer # "refusing"
     /\ Silent("B") /\ Busy("B", <<ack_msg>>)
  \/ Connected("B") /\ peer # "refusing"
  \/ Failed("B")

-----------------------------------------------------------------------------
(***************************************************************************)
(* How many messages of the handshake each end has handed to the network,  *)
(* and how many it has taken from it.                                      *)
(***************************************************************************)
Past(n, i) == IF writing[n] = "done" THEN i + 1 ELSE i

HandedA ==
  CASE state["A"] = "connected_tcp" -> Past("A", 0)
    [] state["A"] \in {"waiting_for_status", "receiving_challenge"} -> 1
    [] state["A"] = "sending_challenge_reply" -> Past("A", 1)
    [] OTHER -> 2

HandedB ==
  CASE state["B"] = "connected_tcp" -> 0
    [] state["B"] = "sending_status" ->
         IF write_queue["B"] = <<>> THEN 1
         ELSE IF write_queue["B"][1].kind = "status" THEN Past("B", 0)
         ELSE Past("B", 1)
    [] state["B"] = "waiting_for_challenge_reply" -> 2
    [] state["B"] = "sending_challenge_ack" -> Past("B", 2)
    [] OTHER -> 3

TakenA ==
  CASE state["A"] \in {"connected_tcp", "waiting_for_status"} -> 0
    [] state["A"] = "receiving_challenge" -> 1
    [] OTHER -> 2

TakenB == IF state["B"] = "connected_tcp" THEN 0 ELSE 1

\* The messages of the handshake to each end, in order.
IsToA(i, m) == /\ i = 1 => m = status_msg
               /\ i = 2 => m = Msg("challenge")
               /\ i = 3 => m = ack_msg
IsToB(i, m) == /\ i = 1 => m = Msg("name")
               /\ i = 2 => m = reply_msg

\* B has sent its acknowledgement, and cannot fail any more.
Acked ==
  \/ state["B"] = "connected"
  \/ state["B"] = "sending_challenge_ack" /\ writing["B"] = "done"

\* An end that has messages of the handshake still to take.
AwaitsA ==
  /\ ~Failed("A") /\ state["A"] # "connected"
  /\ ~(state["A"] = "receiving_challenge_ack" /\ ~reading["A"])
AwaitsB ==
  /\ ~Failed("B")
  /\ state["B"] \in {"connected_tcp", "sending_status",
                     "waiting_for_challenge_reply"}

(***************************************************************************)
(* The two ends.  What is on its way to an end is what it is to take next, *)
(* in order; unless something failed nothing is missing.  Past the last    *)
(* message of the handshake each end knows that the other sent its own.    *)
(***************************************************************************)
ToA ==
  AwaitsA =>
    LET n == Len(network["A"]) IN
      /\ \A i \in 1..n : IsToA(TakenA + i, network["A"][i])
      /\ TakenA + n >= 3 => Acked
      /\ ~broken /\ ~Failed("B") =>
           IF Acked THEN TakenA + n >= 3 ELSE TakenA + n = HandedB

ToB ==
  AwaitsB =>
    LET n == Len(network["B"]) IN
      /\ \A i \in 1..n : IsToB(TakenB + i, network["B"][i])
      /\ ~broken /\ ~Failed("A") => TakenB + n = HandedA

Ends ==
  /\ broken => network["B"] = <<>> \/ Failed("B")
  /\ Failed("A") => broken \/ (peer = "refusing" /\ state["B"] = "sending_status")
  /\ Failed("B") => broken \/ peer = "tinch"
  /\ ~AwaitsA /\ ~Failed("A") => Acked
  /\ ~AwaitsB /\ ~Failed("B") => Failed("A") \/ HandedA = 2
  /\ ~AwaitsB /\ ~Failed("B") /\ peer # "lenient" => cookie["A"] = cookie["B"]
  /\ state["A"] = "connected" => cookie["A"] = cookie["B"]

\* A client sends, and can disturb another, only through a connected end.
Access ==
  /\ sending \in [Node -> Nat] /\ raced \in [Node -> BOOLEAN]
  /\ \A n \in Node : sending[n] > 0 \/ raced[n] => state[n] = "connected"

IInv == Typed /\ Access /\ EndA /\ EndB /\ ToA /\ ToB /\ Ends

-----------------------------------------------------------------------------
(***************************************************************************)
(* Lists: what is left when the first k elements are taken, the elements   *)
(* taken after what a lexer h held, and short lists.                       *)
(***************************************************************************)
LEMMA LenZero ==
  ASSUME NEW S, NEW s \in Seq(S)
  PROVE  s = <<>> <=> Len(s) = 0
<1>1. s # <<>> => Len(s) \in Nat \ {0}
  BY EmptySeq
<1> QED BY <1>1

LEMMA RestFacts ==
  ASSUME NEW S, NEW s \in Seq(S), NEW k \in 1..Len(s)
  PROVE  /\ SubSeq(s, k + 1, Len(s)) \in Seq(S)
         /\ Len(SubSeq(s, k + 1, Len(s))) = Len(s) - k
         /\ \A i \in 1..(Len(s) - k) : SubSeq(s, k + 1, Len(s))[i] = s[k + i]
<1>1. Len(s) \in Nat /\ k \in Nat /\ k >= 1 /\ k <= Len(s)
  BY LenProperties
<1>2. \A i \in (k + 1)..Len(s) : s[i] \in S
  BY <1>1, ElementOfSeq
<1> DEFINE r == SubSeq(s, k + 1, Len(s))
<1>3. /\ r \in Seq(S)
      /\ Len(r) = IF k + 1 <= Len(s) THEN Len(s) - (k + 1) + 1 ELSE 0
      /\ \A i \in 1..(Len(s) - (k + 1) + 1) : r[i] = s[(k + 1) + i - 1]
  BY <1>1, <1>2, SubSeqProperties
<1> QED BY <1>1, <1>3

LEMMA ReadFacts ==
  ASSUME NEW S, NEW h \in Seq(S), NEW s \in Seq(S), NEW k \in 1..Len(s)
  PROVE  /\ h \o SubSeq(s, 1, k) \in Seq(S)
         /\ Len(h \o SubSeq(s, 1, k)) = Len(h) + k
         /\ \A i \in 1..(Len(h) + k) :
              (h \o SubSeq(s, 1, k))[i] = IF i <= Len(h) THEN h[i] ELSE s[i - Len(h)]
<1>1. Len(s) \in Nat /\ Len(h) \in Nat /\ k \in Nat /\ k >= 1 /\ k <= Len(s)
  BY LenProperties
<1>2. \A i \in 1..k : s[i] \in S
  BY <1>1, ElementOfSeq
<1> DEFINE t == SubSeq(s, 1, k)
<1>3. t \in Seq(S) /\ Len(t) = k /\ \A i \in 1..k : t[i] = s[i]
  BY <1>1, <1>2, SubSeqProperties
<1> HIDE DEF t
<1>4. /\ h \o t \in Seq(S) /\ Len(h \o t) = Len(h) + k
      /\ \A i \in 1..(Len(h) + k) :
           (h \o t)[i] = IF i <= Len(h) THEN h[i] ELSE t[i - Len(h)]
  BY <1>1, <1>3, ConcatProperties
<1>5. \A i \in 1..(Len(h) + k) : ~(i <= Len(h)) => t[i - Len(h)] = s[i - Len(h)]
  BY <1>1, <1>3
<1>6. /\ h \o t \in Seq(S) /\ Len(h \o t) = Len(h) + k
      /\ \A i \in 1..(Len(h) + k) :
           (h \o t)[i] = IF i <= Len(h) THEN h[i] ELSE s[i - Len(h)]
  BY <1>4, <1>5
<1> QED BY <1>6 DEF t

(***************************************************************************)
(* The first element of a list, and the others.                            *)
(***************************************************************************)
LEMMA FrontFacts ==
  ASSUME NEW S, NEW r \in Seq(S), Len(r) >= 1
  PROVE  /\ Head(r) = r[1] /\ Head(r) \in S
         /\ Tail(r) \in Seq(S) /\ Len(Tail(r)) = Len(r) - 1
         /\ \A i \in 1..(Len(r) - 1) : Tail(r)[i] = r[i + 1]
         /\ Tail(r) = <<>> <=> Len(r) = 1
<1>1. r # <<>> /\ Len(r) \in Nat
  BY LenProperties, EmptySeq
<1>2. /\ Head(r) = r[1] /\ Head(r) \in S
      /\ Tail(r) \in Seq(S) /\ Len(Tail(r)) = Len(r) - 1
      /\ \A i \in 1..Len(Tail(r)) : Tail(r)[i] = r[i + 1]
  BY <1>1, HeadTailProperties
<1> DEFINE q == Tail(r)
<1>3. q \in Seq(S) /\ Len(q) = Len(r) - 1
  BY <1>2
<1> HIDE DEF q
<1>4. q = <<>> <=> Len(r) = 1
  BY <1>1, <1>3, LenZero
<1> QED BY <1>2, <1>4 DEF q

LEMMA ShortFacts ==
  ASSUME NEW S, NEW x \in S, NEW y \in S
  PROVE  /\ <<x>> \in Seq(S) /\ <<x>> # <<>> /\ Head(<<x>>) = x /\ Tail(<<x>>) = <<>>
         /\ <<x, y>> \in Seq(S) /\ <<x, y>> # <<>> /\ Head(<<x, y>>) = x
         /\ Tail(<<x, y>>) = <<y>> /\ <<y>> # <<>>
         /\ <<x>>[1] = x /\ <<x, y>>[1] = x
         /\ <<>> \o <<x>> = <<x>> /\ <<>> \o <<x, y>> = <<x, y>>
<1>1. <<x>> \in Seq(S) /\ <<x, y>> \in Seq(S) /\ <<y>> \in Seq(S) /\ <<>> \in Seq(S)
  OBVIOUS
<1>2. <<>> \o <<x>> = <<x>> /\ <<>> \o <<x, y>> = <<x, y>>
  BY <1>1, ConcatEmptySeq
<1>3. Tail(<<x>>) = <<>> /\ Tail(<<x, y>>) = <<y>>
  OBVIOUS
<1> QED BY <1>1, <1>2, <1>3

-----------------------------------------------------------------------------
(***************************************************************************)
(* What the operations that the actions are made of do.                    *)
(***************************************************************************)
LEMMA MessageFacts ==
  ASSUME Typed
  PROVE  /\ Msg("name") \in Message /\ Msg("challenge") \in Message
         /\ tick \in Message /\ tick.kind = "tick" /\ garbled \in Message
         /\ Msg("name").kind = "name" /\ Msg("challenge").kind = "challenge"
         /\ status_msg \in Message /\ status_msg.kind = "status"
         /\ status_msg.ok <=> peer # "refusing"
         /\ reply_msg \in Message /\ reply_msg.kind = "reply"
         /\ reply_msg.digest = <<"B", cookie["A"]>>
         /\ ack_msg \in Message /\ ack_msg.kind = "ack"
         /\ ack_msg.digest = <<"A", cookie["B"]>>
         /\ \A i \in Nat : Data(i) \in Message /\ Data(i).kind = "data"
<1>1. cookie["A"] \in Cookies /\ cookie["B"] \in Cookies
  BY DEF Typed, Node
<1> QED BY <1>1 DEF Message, Msg, tick, garbled, status_msg, reply_msg, ack_msg, Data,
           calculate_digest, Node

LEMMA WriteFacts ==
  ASSUME Typed, NEW n \in Node, NEW msgs \in Seq(Message), trigger_write(n, msgs)
  PROVE  /\ write_queue' \in [Node -> Seq(Message)]
         /\ writing' \in [Node -> {"none", "started", "done"}]
         /\ write_queue'[n] = write_queue[n] \o msgs
         /\ writing'[n] = IF write_queue[n] = <<>> THEN "started" ELSE writing[n]
         /\ \A m \in Node \ {n} : /\ write_queue'[m] = write_queue[m]
                                  /\ writing'[m] = writing[m]
<1>1. write_queue[n] \o msgs \in Seq(Message)
  BY ConcatProperties DEF Typed
<1> QED BY <1>1 DEF Typed, trigger_write

LEMMA SignalFacts ==
  ASSUME Typed, NEW n \in Node, NEW b \in BOOLEAN, Signal(n, b)
  PROVE  /\ signals' \in [Node -> Seq(BOOLEAN)]
         /\ Len(signals'[n]) = Len(signals[n]) + 1
         /\ \A m \in Node \ {n} : signals'[m] = signals[m]
<1>1. signals[n] \in Seq(BOOLEAN)
  BY DEF Typed
<1>2. /\ Append(signals[n], b) \in Seq(BOOLEAN)
      /\ Len(Append(signals[n], b)) = Len(signals[n]) + 1
  BY <1>1, AppendProperties
<1> QED BY <1>2 DEF Typed, Signal

LEMMA NetworkFacts ==
  ASSUME Typed, NEW n \in Node, NEW k \in Ks(n),
         network' = [network EXCEPT ![n] = SubSeq(@, k + 1, Len(@))]
  PROVE  /\ network' \in [Node -> Seq(Message)]
         /\ Len(network'[n]) = Len(network[n]) - k
         /\ \A i \in 1..(Len(network[n]) - k) : network'[n][i] = network[n][k + i]
         /\ \A m \in Node \ {n} : network'[m] = network[m]
<1>1. network[n] \in Seq(Message) /\ k \in 1..Len(network[n])
  BY DEF Typed, Ks
<1> DEFINE r == SubSeq(network[n], k + 1, Len(network[n]))
<1>2. /\ r \in Seq(Message) /\ Len(r) = Len(network[n]) - k
      /\ \A i \in 1..(Len(network[n]) - k) : r[i] = network[n][k + i]
  BY <1>1, RestFacts
<1>3. network' = [network EXCEPT ![n] = r]
  OBVIOUS
<1> HIDE DEF r
<1>4. network \in [Node -> Seq(Message)]
  BY DEF Typed
<1>5. /\ network'[n] = r /\ network' \in [Node -> Seq(Message)]
      /\ \A m \in Node \ {n} : network'[m] = network[m]
  BY ONLY n \in Node, <1>2, <1>3, <1>4
<1> QED BY ONLY <1>2, <1>5

LEMMA LexerFacts ==
  ASSUME Typed, NEW n \in Node, NEW k \in Ks(n)
  PROVE  /\ Len(network[n]) \in Nat /\ k \in Nat /\ 1 <= k /\ k <= Len(network[n])
         /\ Head(ReadInto(n, k)) \in Message
         /\ Tail(ReadInto(n, k)) \in Seq(Message)
         /\ handshake_msgs[n] = <<>> =>
              /\ Head(ReadInto(n, k)) = network[n][1]
              /\ Tail(ReadInto(n, k)) = <<>> <=> k = 1
              /\ k = 2 => Tail(Tail(ReadInto(n, k))) = <<>>
              /\ k > 1 => Tail(Tail(ReadInto(n, k))) \in Seq(Message)
<1>1. /\ network[n] \in Seq(Message) /\ k \in 1..Len(network[n])
      /\ handshake_msgs[n] \in Seq(Message)
  BY DEF Typed, Ks
<1>2. /\ Len(network[n]) \in Nat /\ k \in Nat /\ 1 <= k /\ k <= Len(network[n])
      /\ Len(handshake_msgs[n]) \in Nat
  BY <1>1, LenProperties
<1> DEFINE h == handshake_msgs[n]
           r == ReadInto(n, k)
<1>3. /\ r \in Seq(Message) /\ Len(r) = Len(h) + k
      /\ \A i \in 1..(Len(h) + k) :
           r[i] = IF i <= Len(h) THEN h[i] ELSE network[n][i - Len(h)]
  BY <1>1, ReadFacts DEF ReadInto
<1>4. h = <<>> <=> Len(h) = 0
  BY <1>1, LenZero
<1> HIDE DEF h, r
<1>5. Len(h) \in Nat
  BY <1>2 DEF h
<1>6. /\ Head(r) = r[1] /\ Head(r) \in Message
      /\ Tail(r) \in Seq(Message) /\ Len(Tail(r)) = Len(r) - 1
      /\ Tail(r) = <<>> <=> Len(r) = 1
  <2>1. r \in Seq(Message) /\ Len(r) >= 1
    BY <1>2, <1>3, <1>5
  <2> QED BY <2>1, FrontFacts
<1>7. h = <<>> => r[1] = network[n][1]
  BY <1>2, <1>3, <1>4
<1> DEFINE q == Tail(r)
<1>8. q \in Seq(Message) /\ Len(q) = Len(r) - 1
  BY <1>6
<1> HIDE DEF q
<1>9. Len(q) >= 1 => Tail(q) \in Seq(Message) /\ (Tail(q) = <<>> <=> Len(q) = 1)
  BY <1>8, FrontFacts
<1>10. h = <<>> => /\ k = 2 => Tail(q) = <<>>
                   /\ k > 1 => Tail(q) \in Seq(Message)
  BY <1>2, <1>3, <1>4, <1>8, <1>9
<1>11. /\ Head(r) \in Message /\ q \in Seq(Message)
       /\ h = <<>> => /\ Head(r) = network[n][1]
                      /\ q = <<>> <=> k = 1
  BY ONLY <1>2, <1>3, <1>4, <1>6, <1>7 DEF q
<1> QED BY ONLY <1>2, <1>10, <1>11 DEF h, r, q

(***************************************************************************)
(* An end that has a write under way has a message to write.               *)
(***************************************************************************)
LEMMA QueueFacts ==
  ASSUME Typed, EndA, EndB, NEW n \in Node, writing[n] # "none"
  PROVE  /\ Len(write_queue[n]) \in Nat /\ Len(write_queue[n]) >= 1
         /\ Head(write_queue[n]) = write_queue[n][1]
         /\ Head(write_queue[n]) \in Message
         /\ Tail(write_queue[n]) \in Seq(Message)
         /\ Len(Tail(write_queue[n])) = Len(write_queue[n]) - 1
         /\ \A i \in 1..(Len(write_queue[n]) - 1) :
              Tail(write_queue[n])[i] = write_queue[n][i + 1]
         /\ Tail(write_queue[n]) = <<>> <=> Len(write_queue[n]) = 1
<1>1. write_queue[n] \in Seq(Message) /\ n \in {"A", "B"}
  BY DEF Typed, Node
<1>2. write_queue[n] # <<>>
  <2>1. \A x, y : <<x>> # <<>> /\ <<x, y>> # <<>>
    OBVIOUS
  <2>2. CASE n = "A"
    BY <2>1, <2>2 DEF EndA, Failed, Connected, Reading, Busy, Quiet, Writes
  <2>3. CASE n = "B"
    BY <2>1, <2>3 DEF EndB, Failed, Connected, Reading, Busy, Quiet, Writes
  <2> QED BY <1>1, <2>2, <2>3
<1>3. Len(write_queue[n]) \in Nat /\ Len(write_queue[n]) >= 1
  BY <1>1, <1>2, EmptySeq
<1> QED BY <1>1, <1>3, FrontFacts

-----------------------------------------------------------------------------
LEMMA TypedStep ==
  ASSUME Typed, EndA, EndB, [Next]_vars
  PROVE  Typed'
<1>1. /\ Msg("name") \in Message /\ Msg("challenge") \in Message
      /\ tick \in Message /\ status_msg \in Message /\ reply_msg \in Message
      /\ ack_msg \in Message /\ garbled \in Message
      /\ \A i \in Nat : Data(i) \in Message
  BY MessageFacts
<1>2. "A" \in Node /\ "B" \in Node /\ \A n \in Node : Other(n) \in Node
  BY DEF Node, Other
<1>3. \A x, y \in Message : <<x>> \in Seq(Message) /\ <<x, y>> \in Seq(Message)
  OBVIOUS
<1>4. ASSUME NEW n \in Node, NEW s \in HandshakeStates \cup {"connected"}
      PROVE  Set(state, n, s) \in [Node -> HandshakeStates \cup {"connected"}]
  BY DEF Typed, Set
<1>5. ASSUME NEW n \in Node, NEW b \in BOOLEAN
      PROVE  Set(reading, n, b) \in [Node -> BOOLEAN]
  BY DEF Typed, Set
<1>6. ASSUME NEW n \in Node, report_failure(n)
      PROVE  /\ state' \in [Node -> HandshakeStates \cup {"connected"}]
             /\ signals' \in [Node -> Seq(BOOLEAN)]
  BY <1>4, <1>6, SignalFacts DEF report_failure, HandshakeStates
<1>7. ASSUME NEW n \in Node, make_transition_to_connected(n)
      PROVE  /\ state' \in [Node -> HandshakeStates \cup {"connected"}]
             /\ signals' \in [Node -> Seq(BOOLEAN)]
             /\ reading' \in [Node -> BOOLEAN]
  BY <1>4, <1>5, <1>7, SignalFacts DEF make_transition_to_connected, handshake_complete
<1>8. ASSUME NEW n \in Node, NEW msgs \in Seq(Message), trigger_write(n, msgs)
      PROVE  /\ write_queue' \in [Node -> Seq(Message)]
             /\ writing' \in [Node -> {"none", "started", "done"}]
  BY <1>8, WriteFacts
<1>9. ASSUME NEW n \in Node, NEW q \in Seq(Message), LexerKeeps(n, q)
      PROVE  handshake_msgs' \in [Node -> Seq(Message)]
  BY <1>9 DEF Typed, LexerKeeps, Set
<1>10. ASSUME NEW n \in Node, NEW k \in Ks(n),
              network' = [network EXCEPT ![n] = SubSeq(@, k + 1, Len(@))]
       PROVE  network' \in [Node -> Seq(Message)]
  BY <1>10, NetworkFacts
<1>11. CASE initiate_handshake
  <2>1. /\ write_queue' \in [Node -> Seq(Message)]
        /\ writing' \in [Node -> {"none", "started", "done"}]
    BY <1>1, <1>2, <1>3, <1>8, <1>11 DEF initiate_handshake
  <2> QED BY <1>11, <2>1 DEF initiate_handshake, Typed, setting, lexers, history
<1>12. ASSUME NEW n \in Node, transmitted(n)
       PROVE  Typed'
  <2>1. Head(write_queue[n]) \in Message
    BY <1>12, QueueFacts DEF transmitted
  <2>2. PICK m \in Message : network' = [network EXCEPT ![Other(n)] = Append(@, m)]
    BY <1>1, <1>12, <2>1 DEF transmitted
  <2>3. Append(network[Other(n)], m) \in Seq(Message)
    BY <1>2, AppendProperties DEF Typed
  <2>4. network' \in [Node -> Seq(Message)]
    BY <1>2, <2>2, <2>3 DEF Typed
  <2>5. writing' \in [Node -> {"none", "started", "done"}]
    BY <1>12 DEF transmitted, Typed, Set
  <2> QED BY <1>12, <2>4, <2>5 DEF transmitted, Typed, setting, lexers, history
<1>13. ASSUME NEW n \in Node, checked_write(n)
       PROVE  Typed'
  <2>1. Tail(write_queue[n]) \in Seq(Message)
    BY <1>13, QueueFacts DEF checked_write
  <2>2. write_queue' \in [Node -> Seq(Message)]
    BY <1>13, <2>1 DEF checked_write, Typed
  <2>3. writing' \in [Node -> {"none", "started", "done"}]
    BY <1>13 DEF checked_write, Typed, Set
  <2>4. change_state(n, Head(write_queue[n]).kind)
    BY <1>13 DEF checked_write
  <2>5. \A k \in DOMAIN NextState : NextState[k] \in HandshakeStates
    BY DEF NextState, HandshakeStates
  <2>6. /\ state' \in [Node -> HandshakeStates \cup {"connected"}]
        /\ signals' \in [Node -> Seq(BOOLEAN)]
        /\ reading' \in [Node -> BOOLEAN]
    <3> DEFINE kind == Head(write_queue[n]).kind
    <3>1. CASE make_transition_to_connected(n)
      BY <1>7, <3>1
    <3>2. CASE /\ kind \in DOMAIN NextState
               /\ state' = Set(state, n, NextState[kind])
               /\ reading' = Set(reading, n, TRUE)
               /\ UNCHANGED signals
      <4>1. NextState[kind] \in HandshakeStates
        BY <2>5, <3>2
      <4> HIDE DEF kind
      <4> QED BY <1>4, <1>5, <3>2, <4>1 DEF Typed
    <3>3. CASE UNCHANGED <<state, reading, signals>>
      BY <3>3 DEF Typed
    <3> QED BY <2>4, <3>1, <3>2, <3>3 DEF change_state
  <2> QED BY <1>13, <2>2, <2>3, <2>6 DEF checked_write, Typed, setting, lexers, history
<1>14. ASSUME NEW n \in Node, NEW k \in Ks(n), NEW s, Reads(n, s, k),
              handshake_msgs' \in [Node -> Seq(Message)],
              state' \in [Node -> HandshakeStates \cup {"connected"}],
              signals' \in [Node -> Seq(BOOLEAN)],
              reading' \in [Node -> BOOLEAN], broken' \in BOOLEAN,
              write_queue' \in [Node -> Seq(Message)],
              writing' \in [Node -> {"none", "started", "done"}]
       PROVE  Typed'
  BY <1>10, <1>14 DEF Reads, Typed, setting, history
<1>15. ASSUME NEW n \in Node, NEW k \in Ks(n)
       PROVE  /\ Tail(ReadInto(n, k)) \in Seq(Message)
              /\ Head(ReadInto(n, k)) \in Message
  BY LexerFacts
<1>16. ASSUME NEW n \in Node, StopsReading(n)
       PROVE  reading' \in [Node -> BOOLEAN]
  BY <1>5, <1>16 DEF StopsReading
<1>17. ASSUME give_up
       PROVE  /\ state' \in [Node -> HandshakeStates \cup {"connected"}]
              /\ signals' \in [Node -> Seq(BOOLEAN)]
              /\ broken' \in BOOLEAN
  BY <1>2, <1>6, <1>17 DEF give_up, Typed
<1>18. ASSUME NEW k \in Ks("B"), name_read(k)
       PROVE  Typed'
  <2>1. /\ Reads("B", "connected_tcp", k) /\ LexerKeeps("B", Tail(ReadInto("B", k)))
        /\ StopsReading("B")
    BY <1>18 DEF name_read
  <2>2. handshake_msgs' \in [Node -> Seq(Message)] /\ reading' \in [Node -> BOOLEAN]
    BY <1>2, <1>9, <1>15, <1>16, <2>1
  <2>3. CASE sending_status /\ UNCHANGED broken
    <3>1. /\ state' \in [Node -> HandshakeStates \cup {"connected"}]
          /\ signals' \in [Node -> Seq(BOOLEAN)]
      BY <1>2, <1>4, <2>3 DEF sending_status, HandshakeStates, Typed
    <3>2. /\ write_queue' \in [Node -> Seq(Message)]
          /\ writing' \in [Node -> {"none", "started", "done"}]
      BY <1>1, <1>2, <1>3, <1>8, <2>3 DEF sending_status
    <3> QED BY <1>2, <1>14, <2>1, <2>2, <2>3, <3>1, <3>2 DEF Typed
  <2>4. CASE give_up /\ UNCHANGED writes
    BY <1>2, <1>14, <1>17, <2>1, <2>2, <2>4 DEF Typed, writes
  <2> QED BY <1>18, <2>3, <2>4 DEF name_read
<1>19. ASSUME sending_challenge_reply
       PROVE  /\ state' \in [Node -> HandshakeStates \cup {"connected"}]
              /\ signals' \in [Node -> Seq(BOOLEAN)]
              /\ reading' \in [Node -> BOOLEAN]
              /\ write_queue' \in [Node -> Seq(Message)]
              /\ writing' \in [Node -> {"none", "started", "done"}]
  <2>1. /\ write_queue' \in [Node -> Seq(Message)]
        /\ writing' \in [Node -> {"none", "started", "done"}]
    BY <1>1, <1>2, <1>3, <1>8, <1>19 DEF sending_challenge_reply
  <2> QED BY <1>2, <1>4, <1>16, <1>19, <2>1
             DEF sending_challenge_reply, HandshakeStates, Typed
<1>20. ASSUME NEW k \in Ks("A"), status_read(k)
       PROVE  Typed'
  <2>1. Reads("A", "waiting_for_status", k) /\ broken' = broken
    BY <1>20 DEF status_read
  <2> DEFINE q == Tail(ReadInto("A", k))
  <2>2. q \in Seq(Message)
    BY <1>2, <1>15
  <2> HIDE DEF q
  <2>3. CASE q # <<>> /\ LexerKeeps("A", Tail(q)) /\ sending_challenge_reply
    <3>1. Tail(q) \in Seq(Message)
      BY <2>2, <2>3, HeadTailProperties
    <3>2. handshake_msgs' \in [Node -> Seq(Message)]
      BY <1>2, <1>9, <2>3, <3>1
    <3> QED BY <1>2, <1>14, <1>19, <2>1, <2>3, <3>2 DEF Typed
  <2>4. CASE /\ LexerKeeps("A", q) /\ state' = Set(state, "A", "receiving_challenge")
             /\ UNCHANGED <<reading, writes, signals>>
    <3>1. handshake_msgs' \in [Node -> Seq(Message)]
      BY <1>2, <1>9, <2>2, <2>4
    <3>2. state' \in [Node -> HandshakeStates \cup {"connected"}]
      BY <1>2, <1>4, <2>4 DEF HandshakeStates
    <3> QED BY <1>2, <1>14, <2>1, <2>4, <3>1, <3>2 DEF Typed, writes
  <2>5. CASE /\ LexerKeeps("A", q) /\ StopsReading("A") /\ report_failure("A")
             /\ UNCHANGED writes
    <3>1. handshake_msgs' \in [Node -> Seq(Message)]
      BY <1>2, <1>9, <2>2, <2>5
    <3> QED BY <1>2, <1>6, <1>14, <1>16, <2>1, <2>5, <3>1 DEF Typed, writes
  <2> QED BY <1>20, <2>3, <2>4, <2>5 DEF status_read, receive_challenge, q
<1>21. ASSUME NEW k \in Ks("A"), challenge_read(k)
       PROVE  Typed'
  <2>1. /\ Reads("A", "receiving_challenge", k) /\ broken' = broken
        /\ LexerKeeps("A", Tail(ReadInto("A", k))) /\ sending_challenge_reply
    BY <1>21 DEF challenge_read
  <2>2. handshake_msgs' \in [Node -> Seq(Message)]
    BY <1>2, <1>9, <1>15, <2>1
  <2> QED BY <1>2, <1>14, <1>19, <2>1, <2>2 DEF Typed
<1>22. ASSUME NEW k \in Ks("B"), reply_received(k)
       PROVE  Typed'
  <2>1. /\ Reads("B", "waiting_for_challenge_reply", k)
        /\ LexerKeeps("B", Tail(ReadInto("B", k))) /\ StopsReading("B")
    BY <1>22 DEF reply_received
  <2>2. handshake_msgs' \in [Node -> Seq(Message)] /\ reading' \in [Node -> BOOLEAN]
    BY <1>2, <1>9, <1>15, <1>16, <2>1
  <2>3. CASE /\ state' = Set(state, "B", "sending_challenge_ack")
             /\ trigger_write("B", <<ack_msg>>) /\ UNCHANGED <<signals, broken>>
    <3>1. state' \in [Node -> HandshakeStates \cup {"connected"}]
      BY <1>2, <1>4, <2>3 DEF HandshakeStates
    <3>2. /\ write_queue' \in [Node -> Seq(Message)]
          /\ writing' \in [Node -> {"none", "started", "done"}]
      BY <1>1, <1>2, <1>3, <1>8, <2>3
    <3> QED BY <1>2, <1>14, <2>1, <2>2, <2>3, <3>1, <3>2 DEF Typed
  <2>4. CASE give_up /\ UNCHANGED writes
    BY <1>2, <1>14, <1>17, <2>1, <2>2, <2>4 DEF Typed, writes
  <2> QED BY <1>22, <2>3, <2>4 DEF reply_received
<1>23. ASSUME NEW k \in Ks("A"), challenge_ack_read(k)
       PROVE  Typed'
  <2>1. /\ Reads("A", "receiving_challenge_ack", k)
        /\ LexerKeeps("A", Tail(ReadInto("A", k))) /\ UNCHANGED <<writes, broken>>
        /\ \/ make_transition_to_connected("A")
           \/ StopsReading("A") /\ UNCHANGED <<state, signals>>
    BY <1>23 DEF challenge_ack_read
  <2>2. handshake_msgs' \in [Node -> Seq(Message)]
    BY <1>2, <1>9, <1>15, <2>1
  <2>3. /\ state' \in [Node -> HandshakeStates \cup {"connected"}]
        /\ signals' \in [Node -> Seq(BOOLEAN)]
        /\ reading' \in [Node -> BOOLEAN]
    BY <1>2, <1>7, <1>16, <2>1 DEF Typed
  <2> QED BY <1>2, <1>14, <2>1, <2>2, <2>3 DEF Typed, writes
<1>24. ASSUME NEW n \in Node, NEW m \in Message, Sends(n, m)
       PROVE  /\ sent' \in [Node -> Seq(Message)]
              /\ write_queue' \in [Node -> Seq(Message)]
              /\ writing' \in [Node -> {"none", "started", "done"}]
  <2>1. Append(sent[n], m) \in Seq(Message)
    BY AppendProperties DEF Typed
  <2>2. sent' \in [Node -> Seq(Message)]
    BY <1>24, <2>1 DEF Sends, Typed
  <2> QED BY <1>3, <1>8, <1>24, <2>2 DEF Sends
<1>25. ASSUME NEW n \in Node, NEW k \in Ks(n), msg_received(n, k)
       PROVE  Typed'
  <2> DEFINE r == connected_msgs[n] \o SubSeq(network[n], 1, k)
  <2>1. r \in Seq(Message) /\ Len(r) >= 1
    <3>1. /\ network[n] \in Seq(Message) /\ k \in 1..Len(network[n])
          /\ connected_msgs[n] \in Seq(Message)
      BY DEF Typed, Ks
    <3>2. r \in Seq(Message) /\ Len(r) = Len(connected_msgs[n]) + k
      BY <3>1, ReadFacts
    <3>3. Len(connected_msgs[n]) \in Nat /\ k >= 1 /\ k \in Nat
      BY <3>1, LenProperties
    <3> QED BY <3>2, <3>3
  <2>2. /\ dispatched' = [dispatched EXCEPT ![n] = Append(@, Head(r))]
        /\ connected_msgs' = Set(connected_msgs, n, Tail(r))
        /\ Answers(n, Head(r))
        /\ network' = [network EXCEPT ![n] = SubSeq(@, k + 1, Len(@))]
        /\ UNCHANGED <<setting, state, started, reading, handshake_msgs, signals,
                       broken>>
    BY <1>25 DEF msg_received, next_message
  <2> HIDE DEF r
  <2>3. Head(r) \in Message /\ Tail(r) \in Seq(Message)
    BY <2>1, FrontFacts
  <2>4. connected_msgs' \in [Node -> Seq(Message)]
    BY <2>2, <2>3 DEF Typed, Set
  <2>5. Append(dispatched[n], Head(r)) \in Seq(Message)
    BY <2>3, AppendProperties DEF Typed
  <2>6. dispatched' \in [Node -> Seq(Message)]
    BY <2>2, <2>5 DEF Typed
  <2>7. /\ sent' \in [Node -> Seq(Message)]
        /\ write_queue' \in [Node -> Seq(Message)]
        /\ writing' \in [Node -> {"none", "started", "done"}]
    BY <1>1, <1>24, <2>2 DEF Answers, Typed, writes
  <2> QED BY <1>10, <2>2, <2>4, <2>6, <2>7 DEF Typed, setting
<1>26. ASSUME NEW n \in Node, send_returns(n)
       PROVE  Typed'
  <2>1. Len(sent[n]) + 1 \in Nat
    BY LenProperties DEF Typed
  <2>2. PICK m \in Message : Sends(n, m)
    BY <1>1, <1>26, <2>1 DEF send_returns
  <2>3. /\ sent' \in [Node -> Seq(Message)]
        /\ write_queue' \in [Node -> Seq(Message)]
        /\ writing' \in [Node -> {"none", "started", "done"}]
    BY <1>24, <2>2
  <2> QED BY <1>26, <2>3 DEF send_returns, Typed, setting, lexers
<1>27. CASE connection_lost
  <2>1. network' \in [Node -> Seq(Message)]
    BY <1>27 DEF connection_lost
  <2> QED BY <1>27, <2>1 DEF connection_lost, Typed, setting, lexers, history, writes
<1>28. ASSUME NEW n \in Node, handle_io_error(n)
       PROVE  /\ state' \in [Node -> HandshakeStates \cup {"connected"}]
              /\ signals' \in [Node -> Seq(BOOLEAN)]
  BY <1>6, <1>28 DEF handle_io_error, Typed
<1>29. ASSUME NEW n \in Node, read_error(n)
       PROVE  Typed'
  BY <1>16, <1>28, <1>29 DEF read_error, Typed, setting, lexers, history, writes
<1>30. ASSUME NEW n \in Node, write_error(n)
       PROVE  Typed'
  <2>1. writing' \in [Node -> {"none", "started", "done"}]
    BY <1>30 DEF write_error, Typed, Set
  <2> QED BY <1>28, <1>30, <2>1 DEF write_error, Typed, setting, lexers, history
<1>31. CASE UNCHANGED vars \/ \E n \in Node : send(n)
  BY <1>31 DEF vars, send, Typed, setting, lexers, history, writes
<1> QED BY <1>11, <1>12, <1>13, <1>18, <1>20, <1>21, <1>22, <1>23, <1>25,
           <1>26, <1>27, <1>29, <1>30, <1>31 DEF Next

(***************************************************************************)
(* A connected end stays connected, and only what it does gives a client   *)
(* access to its queue.                                                    *)
(***************************************************************************)
LEMMA StaysConnected ==
  ASSUME Typed, EndA, EndB, [Next]_vars, NEW n \in Node, state[n] = "connected"
  PROVE  state'[n] = "connected"
<1>1. state \in [Node -> HandshakeStates \cup {"connected"}]
  BY DEF Typed
<1>2. ASSUME NEW m \in Node, NEW x, state' = Set(state, m, x), state[m] # "connected"
      PROVE  state'[n] = "connected"
  BY <1>1, <1>2 DEF Set
<1>3. ASSUME NEW m \in Node, checked_write(m)
      PROVE  state'[n] = "connected"
  <2>1. /\ writing[m] = "done" /\ change_state(m, Head(write_queue[m]).kind)
    BY <1>3 DEF checked_write
  <2>2. state' = state \/ \E x : state' = Set(state, m, x)
    BY <2>1 DEF change_state, make_transition_to_connected
  <2>3. CASE m # n
    BY <1>1, <2>2, <2>3 DEF Set
  <2>4. CASE m = n
    <3>1. Connected(n)
      BY DEF EndA, EndB, Failed, Node
    <3>2. /\ Head(write_queue[n]) = write_queue[n][1]
          /\ Len(write_queue[n]) \in Nat /\ Len(write_queue[n]) >= 1
      BY <2>1, <2>4, QueueFacts
    <3>3. 1 \in DOMAIN write_queue[n]
      BY <3>2, LenProperties DEF Typed
    <3>4. Head(write_queue[n]).kind \in {"data", "tick"}
      BY <3>1, <3>2, <3>3 DEF Connected
    <3>5. state' = state
      BY <2>1, <2>4, <3>4 DEF change_state, NextState
    <3> QED BY <3>5
  <2> QED BY <2>3, <2>4
<1>4. ASSUME NEW k \in Ks("B"), name_read(k) \/ reply_received(k)
      PROVE  state'[n] = "connected"
  <2>1. /\ state["B"] # "connected"
        /\ \E x : state' = Set(state, "B", x)
    BY <1>4 DEF name_read, reply_received, Reads, sending_status, give_up,
                report_failure
  <2> QED BY <1>2, <2>1 DEF Node
<1>5. ASSUME NEW k \in Ks("A"),
             status_read(k) \/ challenge_read(k) \/ challenge_ack_read(k)
      PROVE  state'[n] = "connected"
  <2>1. /\ state["A"] # "connected"
        /\ state' = state \/ \E x : state' = Set(state, "A", x)
    BY <1>5 DEF status_read, challenge_read, challenge_ack_read, Reads,
                receive_challenge, sending_challenge_reply, report_failure,
                make_transition_to_connected
  <2> QED BY <1>2, <2>1 DEF Node
<1>6. ASSUME NEW m \in Node, read_error(m) \/ write_error(m)
      PROVE  state'[n] = "connected"
  <2>1. \/ state' = state
        \/ state[m] # "connected" /\ state' = Set(state, m, "connected_tcp")
    BY <1>6 DEF read_error, write_error, handle_io_error, report_failure
  <2> QED BY <1>2, <2>1
<1>7. CASE \/ initiate_handshake \/ connection_lost \/ UNCHANGED vars
           \/ \E m \in Node : transmitted(m) \/ send(m) \/ send_returns(m)
           \/ \E m \in Node : \E k \in Ks(m) : msg_received(m, k)
  BY <1>7 DEF initiate_handshake, connection_lost, vars, transmitted, send,
              send_returns, msg_received
<1> QED BY <1>3, <1>4, <1>5, <1>6, <1>7 DEF Next

AccessOf(n) ==
  /\ state[n] = "connected"
  /\ \/ sending' = sending
     \/ sending' = [sending EXCEPT ![n] = @ + 1]
     \/ sending[n] > 0 /\ sending' = [sending EXCEPT ![n] = @ - 1]
  /\ raced' = raced \/ raced' = [raced EXCEPT ![n] = TRUE]

LEMMA AccessSteps ==
  ASSUME Typed, Access, [Next]_vars
  PROVE  UNCHANGED access \/ \E n \in Node : AccessOf(n)
<1>1. ASSUME NEW n \in Node, Overlapped(n, sending[n])
      PROVE  \/ raced' = raced
             \/ sending[n] > 0 /\ raced' = [raced EXCEPT ![n] = TRUE]
  <2>1. sending[n] > 0 => raced' = [raced EXCEPT ![n] = TRUE]
    BY <1>1 DEF Overlapped, Access
  <2>2. ~(sending[n] > 0) => raced' = raced
    BY <1>1 DEF Overlapped, Access
  <2> QED BY <2>1, <2>2
<1>2. ASSUME NEW n \in Node, checked_write(n)
      PROVE  UNCHANGED access \/ AccessOf(n)
  <2>1. sending' = sending /\ Overlapped(n, sending[n])
    BY <1>2 DEF checked_write
  <2>2. sending[n] > 0 => state[n] = "connected"
    BY DEF Access
  <2> QED BY <1>1, <2>1, <2>2 DEF access, AccessOf
<1>3. ASSUME NEW n \in Node, NEW k \in Ks(n), msg_received(n, k)
      PROVE  AccessOf(n)
  <2>1. /\ state[n] = "connected" /\ sending' = sending
        /\ raced' = raced \/ Overlapped(n, sending[n])
    BY <1>3 DEF msg_received, Answers
  <2> QED BY <1>1, <2>1 DEF AccessOf
<1>4. ASSUME NEW n \in Node, send(n)
      PROVE  AccessOf(n)
  BY <1>1, <1>4 DEF send, AccessOf
<1>5. ASSUME NEW n \in Node, send_returns(n)
      PROVE  AccessOf(n)
  BY <1>5 DEF send_returns, Access, AccessOf
<1>6. CASE \/ initiate_handshake \/ connection_lost \/ UNCHANGED vars
           \/ \E n \in Node : transmitted(n) \/ read_error(n) \/ write_error(n)
  BY <1>6 DEF initiate_handshake, connection_lost, vars, transmitted, read_error,
              write_error
<1>7. CASE \/ \E k \in Ks("B") : name_read(k) \/ reply_received(k)
           \/ \E k \in Ks("A") : \/ status_read(k) \/ challenge_read(k)
                                 \/ challenge_ack_read(k)
  BY <1>7 DEF name_read, reply_received, status_read, challenge_read,
              challenge_ack_read, Reads
<1>8. CASE Next
  <2>1. CASE \E n \in Node : checked_write(n)
    BY <1>2, <2>1
  <2>2. CASE \E n \in Node : \E k \in Ks(n) : msg_received(n, k)
    BY <1>3, <2>2
  <2>3. CASE \E n \in Node : send(n) \/ send_returns(n)
    BY <1>4, <1>5, <2>3
  <2> QED BY <1>6, <1>7, <1>8, <2>1, <2>2, <2>3 DEF Next
<1> QED BY <1>6, <1>8

LEMMA StaysRaced ==
  ASSUME Typed, Access, [Next]_vars, NEW n \in Node, raced[n]
  PROVE  raced'[n]
<1>1. raced' = raced \/ \E m \in Node : raced' = [raced EXCEPT ![m] = TRUE]
  BY AccessSteps DEF access, AccessOf
<1> QED BY <1>1 DEF Access

LEMMA AccessStep ==
  ASSUME Typed, Access, EndA, EndB, [Next]_vars
  PROVE  Access'
<1>1. \A m \in Node : state[m] = "connected" => state'[m] = "connected"
  BY StaysConnected
<1>2. CASE UNCHANGED access
  BY <1>1, <1>2 DEF access, Access
<1>3. ASSUME NEW n \in Node, AccessOf(n)
      PROVE  Access'
  <2>1. /\ sending' \in [Node -> Nat]
        /\ \A m \in Node \ {n} : sending'[m] = sending[m]
    BY <1>3 DEF Access, AccessOf
  <2>2. /\ raced' \in [Node -> BOOLEAN]
        /\ \A m \in Node \ {n} : raced'[m] = raced[m]
    BY <1>3 DEF Access, AccessOf
  <2> QED BY <1>1, <1>3, <2>1, <2>2 DEF Access, AccessOf
<1> QED BY <1>2, <1>3, AccessSteps

-----------------------------------------------------------------------------
(***************************************************************************)
(* A step that leaves the variables of one end alone leaves what is said   *)
(* of that end alone.                                                      *)
(***************************************************************************)
SameAt(n) ==
  /\ state'[n] = state[n] /\ writing'[n] = writing[n]
  /\ write_queue'[n] = write_queue[n] /\ reading'[n] = reading[n]
  /\ handshake_msgs'[n] = handshake_msgs[n] /\ signals'[n] = signals[n]

LEMMA FrameA ==
  ASSUME SameAt("A"), UNCHANGED setting, started' = started
  PROVE  /\ EndA' <=> EndA
         /\ AwaitsA' <=> AwaitsA
         /\ Failed("A")' <=> Failed("A")
         /\ HandedA' = HandedA /\ TakenA' = TakenA
         /\ state'["A"] = state["A"]
<1> USE DEF SameAt, setting
<1>1. Failed("A")' <=> Failed("A")
  BY DEF Failed, Signalled
<1>2. HandedA' = HandedA /\ TakenA' = TakenA
  BY DEF HandedA, TakenA, Past
<1>3. AwaitsA' <=> AwaitsA
  BY <1>1 DEF AwaitsA
<1>4. EndA' <=> EndA
  BY <1>1 DEF EndA, Silent, Signalled, Quiet, Writes, Busy, Reading, Connected,
     Msg, reply_msg, calculate_digest
<1> QED BY <1>1, <1>2, <1>3, <1>4

LEMMA FrameB ==
  ASSUME SameAt("B"), UNCHANGED setting
  PROVE  /\ EndB' <=> EndB
         /\ AwaitsB' <=> AwaitsB
         /\ Acked' <=> Acked
         /\ Failed("B")' <=> Failed("B")
         /\ HandedB' = HandedB /\ TakenB' = TakenB
         /\ state'["B"] = state["B"]
<1> USE DEF SameAt, setting
<1>1. Failed("B")' <=> Failed("B")
  BY DEF Failed, Signalled
<1>2. HandedB' = HandedB /\ TakenB' = TakenB
  BY DEF HandedB, TakenB, Past
<1>3. (AwaitsB' <=> AwaitsB) /\ (Acked' <=> Acked)
  BY <1>1 DEF AwaitsB, Acked
<1>4. EndB' <=> EndB
  BY <1>1 DEF EndB, Silent, Signalled, Quiet, Writes, Busy, Reading, Connected,
     Msg, status_msg, ack_msg, calculate_digest
<1> QED BY <1>1, <1>2, <1>3, <1>4

(***************************************************************************)
(* The messages of the handshake stay what they are.                       *)
(***************************************************************************)
LEMMA FrameMessages ==
  ASSUME UNCHANGED setting
  PROVE  /\ status_msg' = status_msg /\ reply_msg' = reply_msg /\ ack_msg' = ack_msg
         /\ \A i, m : (IsToA(i, m)' <=> IsToA(i, m)) /\ (IsToB(i, m)' <=> IsToB(i, m))
BY DEF setting, status_msg, reply_msg, ack_msg, calculate_digest, IsToA, IsToB, Msg

LEMMA InitiateStep ==
  ASSUME IInv, initiate_handshake
  PROVE  (EndA /\ EndB /\ ToA /\ ToB /\ Ends)'
<1>1. Typed /\ EndA /\ EndB /\ ToA /\ ToB /\ Ends
  BY DEF IInv
<1>2. /\ ~started /\ started' = TRUE /\ trigger_write("A", <<Msg("name")>>)
      /\ UNCHANGED <<setting, state, network, reading, lexers, signals, broken>>
  BY DEF initiate_handshake
<1>3. /\ state["A"] = "connected_tcp" /\ Silent("A") /\ Quiet("A")
      /\ ~reading["A"] /\ handshake_msgs["A"] = <<>>
  BY <1>1, <1>2 DEF EndA
<1>4. /\ "A" \in Node /\ "B" \in Node /\ "A" # "B"
      /\ <<Msg("name")>> \in Seq(Message) /\ <<>> \o <<Msg("name")>> = <<Msg("name")>>
  BY <1>1, MessageFacts, ShortFacts DEF Node
<1>5. /\ write_queue'["A"] = <<Msg("name")>> /\ writing'["A"] = "started"
      /\ write_queue'["B"] = write_queue["B"] /\ writing'["B"] = writing["B"]
  BY <1>1, <1>2, <1>3, <1>4, WriteFacts DEF Quiet
<1>6. SameAt("B")
  BY <1>2, <1>5 DEF SameAt, lexers
<1>7. /\ EndB' /\ (AwaitsB' <=> AwaitsB) /\ (Acked' <=> Acked)
      /\ (Failed("B")' <=> Failed("B")) /\ HandedB' = HandedB /\ TakenB' = TakenB
      /\ state'["B"] = state["B"]
  BY <1>1, <1>2, <1>6, FrameB
<1>8. EndA'
  BY <1>2, <1>3, <1>5 DEF EndA, Silent, Busy, Writes, Msg, lexers
<1>9. /\ AwaitsA /\ ~Failed("A") /\ TakenA = 0 /\ HandedA = 0
      /\ AwaitsA' /\ ~Failed("A")' /\ TakenA' = 0 /\ HandedA' = 0
      /\ state'["A"] = "connected_tcp"
  BY <1>2, <1>3, <1>5 DEF AwaitsA, Failed, Signalled, Silent, TakenA, HandedA,
     Past, Quiet
<1>10. \A i, m : (IsToA(i, m)' <=> IsToA(i, m)) /\ (IsToB(i, m)' <=> IsToB(i, m))
  BY <1>2, FrameMessages
<1>11. network' = network /\ broken' = broken /\ cookie' = cookie /\ peer' = peer
  BY <1>2 DEF setting
<1>12. ToA' /\ ToB'
  BY <1>1, <1>7, <1>9, <1>10, <1>11 DEF ToA, ToB
<1>13. Ends'
  BY <1>1, <1>7, <1>9, <1>11 DEF Ends
<1> QED BY <1>7, <1>8, <1>12, <1>13

(***************************************************************************)
(* A hands a message to the network: it becomes the last of those on their *)
(* way to B.                                                               *)
(***************************************************************************)
LEMMA TransmittedAStep ==
  ASSUME IInv, transmitted("A")
  PROVE  (EndA /\ EndB /\ ToA /\ ToB /\ Ends)'
<1>1. Typed /\ EndA /\ EndB /\ ToA /\ ToB /\ Ends
  BY DEF IInv
<1>2. /\ writing["A"] = "started" /\ ~broken
      /\ writing' = Set(writing, "A", "done")
      /\ UNCHANGED <<setting, state, started, write_queue, reading, lexers,
                     signals, broken>>
  BY DEF transmitted
<1>3. "A" \in Node /\ "B" \in Node /\ network["B"] \in Seq(Message)
  BY <1>1 DEF Node, Typed
<1>4. /\ Head(write_queue["A"]) = write_queue["A"][1]
      /\ Head(write_queue["A"]) \in Message
      /\ Msg("name").kind = "name" /\ reply_msg.kind = "reply"
  BY <1>1, <1>2, <1>3, QueueFacts, MessageFacts
<1> PICK m \in Message :
      /\ network' = [network EXCEPT !["B"] = Append(@, m)]
      /\ state["A"] # "connected" => m = Head(write_queue["A"])
  <2>1. garbled \in Message
    BY <1>1, MessageFacts
  <2>2. raced["A"] => state["A"] = "connected"
    BY <1>3 DEF IInv, Access
  <2>3. PICK m \in {Head(write_queue["A"])} \cup {g \in {garbled} : raced["A"]} :
          network' = [network EXCEPT !["B"] = Append(@, m)]
    BY DEF transmitted, Other
  <2> QED BY <1>4, <2>1, <2>2, <2>3
<1> DEFINE n == Len(network["B"])
<1>5. /\ n \in Nat /\ Len(network'["B"]) = n + 1
      /\ \A i \in 1..n : network'["B"][i] = network["B"][i]
      /\ network'["B"][n + 1] = m
      /\ network'["A"] = network["A"]
  <2>1. /\ Len(Append(network["B"], m)) = n + 1 /\ n \in Nat
        /\ \A i \in 1..n : Append(network["B"], m)[i] = network["B"][i]
        /\ Append(network["B"], m)[n + 1] = m
    BY <1>3, <1>4, AppendProperties, LenProperties
  <2> QED BY <1>1, <1>2, <1>3, <2>1 DEF Typed
<1>6. writing'["A"] = "done" /\ writing'["B"] = writing["B"]
  BY <1>1, <1>2, <1>3 DEF Typed, Set
<1> HIDE DEF n
<1>7. SameAt("B")
  BY <1>2, <1>6 DEF SameAt, lexers
<1>8. /\ EndB' /\ (AwaitsB' <=> AwaitsB) /\ (Acked' <=> Acked)
      /\ (Failed("B")' <=> Failed("B")) /\ HandedB' = HandedB /\ TakenB' = TakenB
      /\ state'["B"] = state["B"]
  BY <1>1, <1>2, <1>7, FrameB
<1>9. \A i, x : (IsToA(i, x)' <=> IsToA(i, x)) /\ (IsToB(i, x)' <=> IsToB(i, x))
  BY <1>2, FrameMessages
<1>10. /\ broken' = broken /\ cookie' = cookie /\ peer' = peer
       /\ state' = state /\ reply_msg' = reply_msg
  BY <1>2, FrameMessages DEF setting
<1>11. EndA'
  <2>1. /\ Failed("A") <=> FALSE
        /\ Connected("A") => Connected("A")'
        /\ \A q : Busy("A", q) => Busy("A", q)'
        /\ Silent("A") => Silent("A")'
        /\ ~Reading("A") /\ ~Quiet("A")
    BY <1>2, <1>6 DEF Failed, Connected, Signalled, Busy, Writes, Reading,
       Quiet, Silent, lexers
  <2>2. Msg("name")' = Msg("name")
    BY DEF Msg
  <2> QED BY <1>1, <1>2, <1>10, <2>1, <2>2 DEF EndA
<1>12. ~Failed("A") /\ ~Failed("A")' /\ (AwaitsA' <=> AwaitsA) /\ TakenA' = TakenA
  BY <1>2, <1>6 DEF Failed, AwaitsA, TakenA
<1>13. \/ /\ m = Msg("name") /\ HandedA = 0 /\ HandedA' = 1 /\ AwaitsA
          /\ ~AwaitsB => Failed("B")
       \/ /\ m = reply_msg /\ HandedA = 1 /\ HandedA' = 2 /\ AwaitsA
          /\ ~AwaitsB => Failed("B")
       \/ Connected("A") /\ HandedA = 2 /\ HandedA' = 2 /\ ~AwaitsA /\ ~AwaitsB
  <2>1. CASE state["A"] = "connected_tcp"
    <3>1. Busy("A", <<Msg("name")>>)
      BY <1>1, <1>2, <1>12, <2>1 DEF EndA, Connected, Quiet
    <3>2. m = Msg("name")
      BY <1>4, <2>1, <3>1 DEF Busy, Writes
    <3>3. HandedA = 0 /\ HandedA' = 1 /\ AwaitsA
      BY <1>2, <1>6, <1>12, <2>1 DEF HandedA, Past, AwaitsA
    <3> QED BY <1>1, <1>12, <3>2, <3>3 DEF Ends
  <2>2. CASE state["A"] = "sending_challenge_reply"
    <3>1. Busy("A", <<reply_msg>>)
      BY <1>1, <1>2, <1>12, <2>2 DEF EndA, Connected, Quiet
    <3>2. m = reply_msg
      BY <1>4, <2>2, <3>1 DEF Busy, Writes
    <3>3. HandedA = 1 /\ HandedA' = 2 /\ AwaitsA
      BY <1>2, <1>6, <1>12, <2>2 DEF HandedA, Past, AwaitsA
    <3> QED BY <1>1, <1>12, <3>2, <3>3 DEF Ends
  <2>3. CASE Connected("A")
    <3>1. HandedA = 2 /\ HandedA' = 2 /\ ~AwaitsA
      BY <1>2, <2>3 DEF HandedA, AwaitsA, Connected
    <3>2. ~AwaitsB
      BY <1>1, <1>12, <3>1 DEF Ends, Acked, AwaitsB
    <3> QED BY <2>3, <3>1, <3>2
  <2> QED BY <1>1, <1>2, <1>12, <2>1, <2>2, <2>3 DEF EndA, Reading, Quiet
<1>14. ToA'
  BY <1>1, <1>5, <1>8, <1>9, <1>10, <1>12 DEF ToA
<1>15. ToB'
  <2>1. SUFFICES ASSUME AwaitsB
                 PROVE  /\ \A i \in 1..(n + 1) : IsToB(TakenB + i, network'["B"][i])
                        /\ TakenB + (n + 1) = HandedA'
    BY <1>5, <1>8, <1>9 DEF ToB
  <2>2. TakenB + n = HandedA
    BY <1>1, <1>2, <1>12, <2>1 DEF ToB, n
  <2>3. TakenB \in Nat
    BY DEF TakenB
  <2>4. IsToB(TakenB + (n + 1), m)
    BY <1>5, <1>13, <2>1, <2>2, <2>3 DEF IsToB
  <2>5. \A i \in 1..n : IsToB(TakenB + i, network["B"][i])
    BY <1>1, <2>1 DEF ToB, n
  <2>6. TakenB + (n + 1) = HandedA'
    BY <1>5, <1>13, <2>1, <2>2, <2>3
  <2> QED BY <1>5, <2>4, <2>5, <2>6
<1>16. Ends'
  BY <1>1, <1>2, <1>8, <1>10, <1>12, <1>13 DEF Ends
<1> QED BY <1>8, <1>11, <1>14, <1>15, <1>16

(***************************************************************************)
(* B hands a message to the network: it becomes the last of those on their *)
(* way to A.                                                               *)
(***************************************************************************)
LEMMA TransmittedBStep ==
  ASSUME IInv, transmitted("B")
  PROVE  (EndA /\ EndB /\ ToA /\ ToB /\ Ends)'
<1>1. Typed /\ EndA /\ EndB /\ ToA /\ ToB /\ Ends
  BY DEF IInv
<1>2. /\ writing["B"] = "started" /\ ~broken
      /\ writing' = Set(writing, "B", "done")
      /\ UNCHANGED <<setting, state, started, write_queue, reading, lexers,
                     signals, broken>>
  BY DEF transmitted
<1>3. "A" \in Node /\ "B" \in Node /\ network["A"] \in Seq(Message)
  BY <1>1 DEF Node, Typed
<1>4. /\ Head(write_queue["B"]) = write_queue["B"][1]
      /\ Head(write_queue["B"]) \in Message
      /\ write_queue["B"] # <<>>
      /\ status_msg.kind = "status" /\ Msg("challenge").kind = "challenge"
  BY <1>1, <1>2, <1>3, QueueFacts, MessageFacts
<1> PICK m \in Message :
      /\ network' = [network EXCEPT !["A"] = Append(@, m)]
      /\ state["B"] # "connected" => m = Head(write_queue["B"])
  <2>1. garbled \in Message
    BY <1>1, MessageFacts
  <2>2. raced["B"] => state["B"] = "connected"
    BY <1>3 DEF IInv, Access
  <2>3. PICK m \in {Head(write_queue["B"])} \cup {g \in {garbled} : raced["B"]} :
          network' = [network EXCEPT !["A"] = Append(@, m)]
    BY DEF transmitted, Other
  <2> QED BY <1>4, <2>1, <2>2, <2>3
<1> DEFINE n == Len(network["A"])
<1>5. /\ n \in Nat /\ Len(network'["A"]) = n + 1
      /\ \A i \in 1..n : network'["A"][i] = network["A"][i]
      /\ network'["A"][n + 1] = m
      /\ network'["B"] = network["B"]
  <2>1. /\ Len(Append(network["A"], m)) = n + 1 /\ n \in Nat
        /\ \A i \in 1..n : Append(network["A"], m)[i] = network["A"][i]
        /\ Append(network["A"], m)[n + 1] = m
    BY <1>3, <1>4, AppendProperties, LenProperties
  <2> QED BY <1>1, <1>2, <1>3, <2>1 DEF Typed
<1>6. writing'["B"] = "done" /\ writing'["A"] = writing["A"]
  BY <1>1, <1>2, <1>3 DEF Typed, Set
<1> HIDE DEF n
<1>7. SameAt("A")
  BY <1>2, <1>6 DEF SameAt, lexers
<1>8. /\ EndA' /\ (AwaitsA' <=> AwaitsA) /\ (Failed("A")' <=> Failed("A"))
      /\ HandedA' = HandedA /\ TakenA' = TakenA
  BY <1>1, <1>2, <1>7, FrameA
<1>9. \A i, x : (IsToA(i, x)' <=> IsToA(i, x)) /\ (IsToB(i, x)' <=> IsToB(i, x))
  BY <1>2, FrameMessages
<1>10. /\ broken' = broken /\ cookie' = cookie /\ peer' = peer
       /\ state' = state /\ ack_msg' = ack_msg /\ status_msg' = status_msg
  BY <1>2, FrameMessages DEF setting
<1>11. EndB'
  <2>1. /\ Failed("B") <=> FALSE
        /\ Connected("B") => Connected("B")'
        /\ \A q : Busy("B", q) => Busy("B", q)'
        /\ Silent("B") => Silent("B")'
        /\ ~Reading("B") /\ ~Quiet("B")
    BY <1>2, <1>6 DEF Failed, Connected, Signalled, Busy, Writes, Reading,
       Quiet, Silent, lexers
  <2>2. Msg("challenge")' = Msg("challenge")
    BY DEF Msg
  <2> QED BY <1>1, <1>2, <1>10, <2>1, <2>2 DEF EndB
<1>12. ~Failed("B") /\ ~Failed("B")' /\ (AwaitsB' <=> AwaitsB) /\ TakenB' = TakenB
  BY <1>2, <1>6 DEF Failed, AwaitsB, TakenB
<1>13. \/ m = status_msg /\ ~Acked /\ ~Acked' /\ HandedB = 0 /\ HandedB' = 1
       \/ m = Msg("challenge") /\ ~Acked /\ ~Acked' /\ HandedB = 1 /\ HandedB' = 2
       \/ m = ack_msg /\ ~Acked /\ Acked' /\ HandedB = 2
       \/ Acked /\ Acked'
  <2>1. CASE state["B"] = "sending_status"
    <3>1. ~Acked /\ ~Acked'
      BY <1>2, <2>1 DEF Acked
    <3>2. \/ Busy("B", <<status_msg>>)
          \/ Busy("B", <<status_msg, Msg("challenge")>>)
          \/ Busy("B", <<Msg("challenge")>>)
      BY <1>1, <1>2, <1>12, <2>1 DEF EndB, Connected, Quiet
    <3>3. m = status_msg \/ m = Msg("challenge")
      BY <1>4, <2>1, <3>2 DEF Busy, Writes
    <3>4. CASE m = status_msg
      <4>1. HandedB = 0 /\ HandedB' = 1
        BY <1>2, <1>4, <1>6, <2>1, <3>4 DEF HandedB, Past
      <4> QED BY <3>1, <3>4, <4>1
    <3>5. CASE m = Msg("challenge")
      <4>1. HandedB = 1 /\ HandedB' = 2
        BY <1>2, <1>4, <1>6, <2>1, <3>5 DEF HandedB, Past
      <4> QED BY <3>1, <3>5, <4>1
    <3> QED BY <3>3, <3>4, <3>5
  <2>2. CASE state["B"] = "sending_challenge_ack"
    <3>1. Busy("B", <<ack_msg>>)
      BY <1>1, <1>2, <1>12, <2>2 DEF EndB, Connected, Quiet
    <3>2. m = ack_msg
      BY <1>4, <2>2, <3>1 DEF Busy, Writes
    <3>3. ~Acked /\ Acked' /\ HandedB = 2
      BY <1>2, <1>6, <2>2 DEF HandedB, Past, Acked
    <3> QED BY <3>2, <3>3
  <2>3. CASE Connected("B")
    BY <1>2, <2>3 DEF Acked, Connected
  <2> QED BY <1>1, <1>2, <1>12, <2>1, <2>2, <2>3 DEF EndB, Reading, Quiet
<1>14. ToA'
  <2>1. SUFFICES ASSUME AwaitsA
                 PROVE  /\ \A i \in 1..(n + 1) : IsToA(TakenA + i, network'["A"][i])
                        /\ TakenA + (n + 1) >= 3 => Acked'
                        /\ IF Acked' THEN TakenA + (n + 1) >= 3
                                     ELSE TakenA + (n + 1) = HandedB'
    BY <1>5, <1>8, <1>9 DEF ToA
  <2>2. IF Acked THEN TakenA + n >= 3 ELSE TakenA + n = HandedB
    BY <1>1, <1>2, <1>12, <2>1 DEF ToA, n
  <2>3. TakenA \in Nat
    BY DEF TakenA
  <2>4. IsToA(TakenA + (n + 1), m)
    BY <1>5, <1>13, <2>2, <2>3 DEF IsToA
  <2>5. \A i \in 1..n : IsToA(TakenA + i, network["A"][i])
    BY <1>1, <2>1 DEF ToA, n
  <2>6. /\ TakenA + (n + 1) >= 3 => Acked'
        /\ IF Acked' THEN TakenA + (n + 1) >= 3
                     ELSE TakenA + (n + 1) = HandedB'
    BY <1>5, <1>13, <2>2, <2>3
  <2> QED BY <1>5, <2>4, <2>5, <2>6
<1>15. ToB'
  BY <1>1, <1>5, <1>8, <1>9, <1>10, <1>12 DEF ToB
<1>16. Ends'
  BY <1>1, <1>2, <1>8, <1>10, <1>12, <1>13 DEF Ends
<1> QED BY <1>8, <1>11, <1>14, <1>15, <1>16

(***************************************************************************)
(* What the callback of a write does, by the kind of the message written.  *)
(***************************************************************************)
LEMMA ChangeFacts ==
  ASSUME NEW n \in Node, NEW kind, change_state(n, kind)
  PROVE  /\ kind = "name" =>
              /\ state' = Set(state, n, "waiting_for_status")
              /\ reading' = Set(reading, n, TRUE) /\ signals' = signals
         /\ kind = "challenge" =>
              /\ state' = Set(state, n, "waiting_for_challenge_reply")
              /\ reading' = Set(reading, n, TRUE) /\ signals' = signals
         /\ kind = "reply" =>
              /\ state' = Set(state, n, "receiving_challenge_ack")
              /\ reading' = Set(reading, n, TRUE) /\ signals' = signals
         /\ kind = "ack" => make_transition_to_connected(n)
         /\ kind \in {"status", "data", "tick"} => UNCHANGED <<state, reading, signals>>
<1>1. /\ DOMAIN NextState = {"name", "challenge", "reply"}
      /\ NextState["name"] = "waiting_for_status"
      /\ NextState["challenge"] = "waiting_for_challenge_reply"
      /\ NextState["reply"] = "receiving_challenge_ack"
  BY DEF NextState
<1> QED BY <1>1 DEF change_state

(***************************************************************************)
(* The callback of a write of A: the number of messages handed over stays. *)
(***************************************************************************)
LEMMA CheckedWriteAStep ==
  ASSUME IInv, checked_write("A")
  PROVE  (EndA /\ EndB /\ ToA /\ ToB /\ Ends)'
<1>1. Typed /\ EndA /\ EndB /\ ToA /\ ToB /\ Ends
  BY DEF IInv
<1>2. /\ writing["A"] = "done"
      /\ write_queue' = [write_queue EXCEPT !["A"] = Tail(@)]
      /\ writing' = Set(writing, "A", IF Tail(write_queue["A"]) = <<>>
                                        THEN "none" ELSE "started")
      /\ change_state("A", Head(write_queue["A"]).kind)
      /\ UNCHANGED <<setting, started, network, lexers, broken>>
  BY DEF checked_write
<1>3. "A" \in Node /\ "B" \in Node /\ "A" # "B"
  BY DEF Node
<1>4. /\ write_queue["A"] \in Seq(Message) /\ Len(write_queue["A"]) \in Nat
      /\ Head(write_queue["A"]) = write_queue["A"][1]
      /\ Tail(write_queue["A"]) \in Seq(Message)
      /\ Len(Tail(write_queue["A"])) = Len(write_queue["A"]) - 1
      /\ \A i \in 1..(Len(write_queue["A"]) - 1) :
           Tail(write_queue["A"])[i] = write_queue["A"][i + 1]
      /\ DOMAIN write_queue["A"] = 1..Len(write_queue["A"])
      /\ DOMAIN Tail(write_queue["A"]) = 1..Len(Tail(write_queue["A"]))
      /\ Len(write_queue["A"]) >= 1
    <2>1. write_queue["A"] \in Seq(Message)
      BY <1>1, <1>3 DEF Typed
    <2>2. Tail(write_queue["A"]) \in Seq(Message)
      BY <1>1, <1>2, <1>3, QueueFacts
    <2> QED BY <1>1, <1>2, <1>3, <2>1, <2>2, QueueFacts, LenProperties
<1>5. /\ write_queue'["A"] = Tail(write_queue["A"])
      /\ write_queue'["B"] = write_queue["B"]
      /\ writing'["A"] = IF Tail(write_queue["A"]) = <<>> THEN "none" ELSE "started"
      /\ writing'["B"] = writing["B"]
  BY <1>1, <1>2, <1>3 DEF Typed, Set
<1>6. /\ Msg("name").kind = "name" /\ reply_msg.kind = "reply"
      /\ Tail(<<Msg("name")>>) = <<>> /\ Tail(<<reply_msg>>) = <<>>
  BY <1>1, MessageFacts, ShortFacts
<1> DEFINE m == Head(write_queue["A"])
<1>7. \/ /\ state["A"] = "connected_tcp" /\ Silent("A") /\ started
         /\ m.kind = "name" /\ Tail(write_queue["A"]) = <<>>
         /\ ~reading["A"] /\ handshake_msgs["A"] = <<>>
      \/ /\ state["A"] = "sending_challenge_reply" /\ Silent("A") /\ started
         /\ m.kind = "reply" /\ Tail(write_queue["A"]) = <<>>
         /\ ~reading["A"] /\ handshake_msgs["A"] = <<>>
      \/ Connected("A") /\ m.kind \in {"data", "tick"} /\ started
  <2>1. CASE Connected("A") /\ started
    BY <1>4, <2>1 DEF Connected
  <2>2. CASE state["A"] = "connected_tcp" /\ Silent("A") /\ started /\ Busy("A", <<Msg("name")>>)
    BY <1>4, <1>6, <2>2 DEF Busy, Writes
  <2>3. CASE state["A"] = "sending_challenge_reply" /\ Silent("A") /\ started /\ Busy("A", <<reply_msg>>)
    BY <1>4, <1>6, <2>3 DEF Busy, Writes
  <2> QED BY <1>1, <1>2, <2>1, <2>2, <2>3 DEF EndA, Failed, Reading, Quiet
<1> HIDE DEF m
<1>8. change_state("A", m.kind)
  BY <1>2 DEF m
<1>9. \/ /\ m.kind = "name" /\ state'["A"] = "waiting_for_status" /\ reading'["A"] = TRUE
         /\ state'["B"] = state["B"] /\ reading'["B"] = reading["B"] /\ signals' = signals
      \/ /\ m.kind = "reply" /\ state'["A"] = "receiving_challenge_ack" /\ reading'["A"] = TRUE
         /\ state'["B"] = state["B"] /\ reading'["B"] = reading["B"] /\ signals' = signals
      \/ m.kind \in {"data", "tick"} /\ UNCHANGED <<state, reading, signals>>
  <2>1. CASE m.kind = "name"
    <3>1. /\ state' = Set(state, "A", "waiting_for_status")
          /\ reading' = Set(reading, "A", TRUE) /\ signals' = signals
      BY <1>3, <1>8, <2>1, ChangeFacts
    <3> QED BY <1>1, <1>3, <2>1, <3>1 DEF Typed, Set
  <2>2. CASE m.kind = "reply"
    <3>1. /\ state' = Set(state, "A", "receiving_challenge_ack")
          /\ reading' = Set(reading, "A", TRUE) /\ signals' = signals
      BY <1>3, <1>8, <2>2, ChangeFacts
    <3> QED BY <1>1, <1>3, <2>2, <3>1 DEF Typed, Set
  <2>3. CASE m.kind \in {"data", "tick"}
    BY <1>3, <1>8, <2>3, ChangeFacts
  <2> QED BY <1>7, <2>1, <2>2, <2>3
<1>10. SameAt("B")
  BY <1>2, <1>5, <1>9 DEF SameAt, lexers
<1>11. /\ EndB' /\ (AwaitsB' <=> AwaitsB) /\ (Acked' <=> Acked)
       /\ (Failed("B")' <=> Failed("B")) /\ HandedB' = HandedB /\ TakenB' = TakenB
       /\ state'["B"] = state["B"]
  BY <1>1, <1>2, <1>10, FrameB
<1>12. \A i, x : (IsToA(i, x)' <=> IsToA(i, x)) /\ (IsToB(i, x)' <=> IsToB(i, x))
  BY <1>2, FrameMessages
<1>13. /\ broken' = broken /\ cookie' = cookie /\ peer' = peer /\ network' = network
       /\ started' = started /\ handshake_msgs' = handshake_msgs
  BY <1>2 DEF setting, lexers
<1>14. EndA'
  <2>1. CASE Connected("A") /\ m.kind \in {"data", "tick"} /\ started
    <3>1. state' = state /\ signals' = signals
      BY <1>9, <2>1
    <3>2. \A i \in DOMAIN write_queue["A"] : write_queue["A"][i].kind \in {"data", "tick"}
      BY <2>1 DEF Connected
    <3>3. \A i \in 1..(Len(write_queue["A"]) - 1) :
            Tail(write_queue["A"])[i].kind \in {"data", "tick"}
      BY <1>4, <3>2
    <3>4. \A i \in DOMAIN write_queue'["A"] : write_queue'["A"][i].kind \in {"data", "tick"}
      BY <1>4, <1>5, <3>3
    <3> QED BY <1>5, <1>13, <2>1, <3>1, <3>4 DEF EndA, Connected, Signalled
  <2> QED BY <1>5, <1>7, <1>9, <1>13, <2>1 DEF EndA, Reading, Quiet, Silent
<1>15. /\ HandedA' = HandedA /\ TakenA' = TakenA /\ (AwaitsA' <=> AwaitsA)
       /\ ~Failed("A") /\ ~Failed("A")'
       /\ state'["A"] = "connected" <=> state["A"] = "connected"
  <2>1. CASE state["A"] = "connected_tcp" /\ state'["A"] = "waiting_for_status"
    BY <1>2, <2>1 DEF HandedA, Past, TakenA, AwaitsA, Failed
  <2>2. CASE /\ state["A"] = "sending_challenge_reply" /\ reading'["A"]
             /\ state'["A"] = "receiving_challenge_ack"
    BY <1>2, <2>2 DEF HandedA, Past, TakenA, AwaitsA, Failed
  <2>3. CASE state["A"] = "connected" /\ state'["A"] = "connected"
    BY <2>3 DEF HandedA, Past, TakenA, AwaitsA, Failed
  <2> QED BY <1>7, <1>9, <2>1, <2>2, <2>3 DEF Connected
<1>16. ToA' /\ ToB'
  BY <1>1, <1>11, <1>12, <1>13, <1>15 DEF ToA, ToB
<1>17. Ends'
  BY <1>1, <1>11, <1>13, <1>15 DEF Ends
<1> QED BY <1>11, <1>14, <1>16, <1>17

(***************************************************************************)
(* The callback of a write of B.                                           *)
(***************************************************************************)
LEMMA CheckedWriteBStep ==
  ASSUME IInv, checked_write("B")
  PROVE  (EndA /\ EndB /\ ToA /\ ToB /\ Ends)'
<1>1. Typed /\ EndA /\ EndB /\ ToA /\ ToB /\ Ends
  BY DEF IInv
<1>2. /\ writing["B"] = "done"
      /\ write_queue' = [write_queue EXCEPT !["B"] = Tail(@)]
      /\ writing' = Set(writing, "B", IF Tail(write_queue["B"]) = <<>>
                                        THEN "none" ELSE "started")
      /\ change_state("B", Head(write_queue["B"]).kind)
      /\ UNCHANGED <<setting, started, network, lexers, broken>>
  BY DEF checked_write
<1>3. "A" \in Node /\ "B" \in Node /\ "A" # "B"
  BY DEF Node
<1>4. /\ write_queue["B"] \in Seq(Message) /\ Len(write_queue["B"]) \in Nat
      /\ Head(write_queue["B"]) = write_queue["B"][1]
      /\ Tail(write_queue["B"]) \in Seq(Message)
      /\ Len(Tail(write_queue["B"])) = Len(write_queue["B"]) - 1
      /\ \A i \in 1..(Len(write_queue["B"]) - 1) :
           Tail(write_queue["B"])[i] = write_queue["B"][i + 1]
      /\ DOMAIN write_queue["B"] = 1..Len(write_queue["B"])
      /\ DOMAIN Tail(write_queue["B"]) = 1..Len(Tail(write_queue["B"]))
      /\ Len(write_queue["B"]) >= 1
    <2>1. write_queue["B"] \in Seq(Message)
      BY <1>1, <1>3 DEF Typed
    <2>2. Tail(write_queue["B"]) \in Seq(Message)
      BY <1>1, <1>2, <1>3, QueueFacts
    <2> QED BY <1>1, <1>2, <1>3, <2>1, <2>2, QueueFacts, LenProperties
<1>5. /\ write_queue'["B"] = Tail(write_queue["B"])
      /\ write_queue'["A"] = write_queue["A"]
      /\ writing'["B"] = IF Tail(write_queue["B"]) = <<>> THEN "none" ELSE "started"
      /\ writing'["A"] = writing["A"]
  BY <1>1, <1>2, <1>3 DEF Typed, Set
<1>6. /\ status_msg.kind = "status" /\ Msg("challenge").kind = "challenge"
      /\ ack_msg.kind = "ack"
      /\ Tail(<<status_msg>>) = <<>> /\ Tail(<<Msg("challenge")>>) = <<>>
      /\ Tail(<<ack_msg>>) = <<>>
      /\ Tail(<<status_msg, Msg("challenge")>>) = <<Msg("challenge")>>
      /\ <<Msg("challenge")>> # <<>> /\ <<Msg("challenge")>>[1] = Msg("challenge")
  BY <1>1, MessageFacts, ShortFacts
<1> DEFINE m == Head(write_queue["B"])
           rest == Tail(write_queue["B"])
<1>7. \/ /\ state["B"] = "sending_status" /\ Silent("B") /\ m.kind = "status"
         /\ ~reading["B"] /\ peer = "refusing" /\ rest = <<>> 
      \/ /\ state["B"] = "sending_status" /\ Silent("B") /\ m.kind = "status"
         /\ ~reading["B"] /\ handshake_msgs["B"] = <<>>
         /\ peer # "refusing" /\ rest = <<Msg("challenge")>>
      \/ /\ state["B"] = "sending_status" /\ Silent("B") /\ m.kind = "challenge"
         /\ ~reading["B"] /\ handshake_msgs["B"] = <<>>
         /\ peer # "refusing" /\ rest = <<>>
      \/ /\ state["B"] = "sending_challenge_ack" /\ Silent("B") /\ m.kind = "ack"
         /\ peer # "refusing" /\ rest = <<>>
      \/ Connected("B") /\ m.kind \in {"data", "tick"} /\ peer # "refusing"
  <2>1. CASE Connected("B") /\ peer # "refusing"
    BY <1>4, <2>1 DEF Connected
  <2>2. CASE state["B"] = "sending_status" /\ Silent("B")
    <3>1. /\ ~reading["B"]
          /\ \/ peer = "refusing" /\ write_queue["B"] = <<status_msg>>
             \/ /\ peer # "refusing" /\ handshake_msgs["B"] = <<>>
                /\ \/ write_queue["B"] = <<status_msg, Msg("challenge")>>
                   \/ write_queue["B"] = <<Msg("challenge")>>
      BY <1>1, <1>2, <2>2 DEF EndB, Busy, Writes, Quiet, Connected, Failed, Reading
    <3>2. CASE peer = "refusing" /\ write_queue["B"] = <<status_msg>>
      BY <1>4, <1>6, <2>2, <3>1, <3>2
    <3>3. CASE /\ peer # "refusing" /\ handshake_msgs["B"] = <<>>
               /\ write_queue["B"] = <<status_msg, Msg("challenge")>>
      <4>1. m = status_msg /\ rest = <<Msg("challenge")>>
        BY <1>4, <1>6, <3>3
      <4> HIDE DEF m, rest
      <4> QED BY <1>6, <2>2, <3>1, <3>3, <4>1
    <3>4. CASE /\ peer # "refusing" /\ handshake_msgs["B"] = <<>>
               /\ write_queue["B"] = <<Msg("challenge")>>
      BY <1>4, <1>6, <2>2, <3>1, <3>4
    <3> QED BY <3>1, <3>2, <3>3, <3>4
  <2>3. CASE /\ state["B"] = "sending_challenge_ack" /\ Silent("B")
             /\ peer # "refusing" /\ Busy("B", <<ack_msg>>)
    BY <1>4, <1>6, <2>3 DEF Busy, Writes
  <2> QED BY <1>1, <1>2, <2>1, <2>2, <2>3 DEF EndB, Failed, Reading, Quiet
<1> HIDE DEF m, rest
<1>8. /\ change_state("B", m.kind) /\ write_queue'["B"] = rest
      /\ writing'["B"] = IF rest = <<>> THEN "none" ELSE "started"
      /\ m = write_queue["B"][1] /\ write_queue["B"] # <<>>
  <2>1. write_queue["B"] # <<>>
    BY <1>4
  <2> QED BY <1>2, <1>4, <1>5, <2>1 DEF m, rest
<1>9. \/ /\ m.kind = "challenge" /\ state'["B"] = "waiting_for_challenge_reply"
         /\ reading'["B"] = TRUE /\ signals' = signals
         /\ state'["A"] = state["A"] /\ reading'["A"] = reading["A"]
      \/ /\ m.kind = "ack" /\ state'["B"] = "connected"
         /\ state'["A"] = state["A"] /\ reading'["A"] = reading["A"]
         /\ Len(signals'["B"]) = Len(signals["B"]) + 1 /\ signals'["A"] = signals["A"]
      \/ m.kind \in {"status", "data", "tick"} /\ UNCHANGED <<state, reading, signals>>
  <2>1. CASE m.kind = "ack"
    <3>1. /\ state' = Set(state, "B", "connected") /\ Signal("B", TRUE)
          /\ reading' = Set(reading, "B", TRUE)
      BY <1>3, <1>8, <2>1, ChangeFacts DEF make_transition_to_connected, handshake_complete
    <3>2. Len(signals'["B"]) = Len(signals["B"]) + 1 /\ signals'["A"] = signals["A"]
      BY <1>1, <1>3, <3>1, SignalFacts
    <3> QED BY <1>1, <1>3, <2>1, <3>1, <3>2 DEF Typed, Set
  <2>2. CASE m.kind = "challenge"
    <3>1. /\ state' = Set(state, "B", "waiting_for_challenge_reply")
          /\ reading' = Set(reading, "B", TRUE) /\ signals' = signals
      BY <1>3, <1>8, <2>2, ChangeFacts
    <3> QED BY <1>1, <1>3, <2>2, <3>1 DEF Typed, Set
  <2>3. CASE m.kind \in {"status", "data", "tick"}
    BY <1>3, <1>8, <2>3, ChangeFacts
  <2> QED BY <1>7, <2>1, <2>2, <2>3
<1>10. SameAt("A")
  BY <1>2, <1>5, <1>9 DEF SameAt, lexers
<1>11. /\ EndA' /\ (AwaitsA' <=> AwaitsA) /\ (Failed("A")' <=> Failed("A"))
       /\ HandedA' = HandedA /\ TakenA' = TakenA /\ state'["A"] = state["A"]
  BY <1>1, <1>2, <1>10, FrameA
<1>12. \A i, x : (IsToA(i, x)' <=> IsToA(i, x)) /\ (IsToB(i, x)' <=> IsToB(i, x))
  BY <1>2, FrameMessages
<1>13. /\ broken' = broken /\ cookie' = cookie /\ peer' = peer /\ network' = network
       /\ handshake_msgs' = handshake_msgs
       /\ status_msg' = status_msg /\ ack_msg' = ack_msg
       /\ Msg("challenge")' = Msg("challenge")
  BY <1>2, FrameMessages DEF setting, lexers, Msg
<1>14. EndB'
  <2>1. CASE Connected("B") /\ m.kind \in {"data", "tick"} /\ peer # "refusing"
    <3>1. state' = state /\ signals' = signals
      BY <1>9, <2>1
    <3>2. \A i \in DOMAIN write_queue["B"] : write_queue["B"][i].kind \in {"data", "tick"}
      BY <2>1 DEF Connected
    <3>3. \A i \in 1..(Len(write_queue["B"]) - 1) :
            Tail(write_queue["B"])[i].kind \in {"data", "tick"}
      BY <1>4, <3>2
    <3>4. \A i \in DOMAIN write_queue'["B"] : write_queue'["B"][i].kind \in {"data", "tick"}
      BY <1>4, <1>5, <3>3
    <3> QED BY <1>5, <1>13, <2>1, <3>1, <3>4 DEF EndB, Connected, Signalled
  <2>2. CASE m.kind = "ack" /\ Silent("B") /\ peer # "refusing" /\ rest = <<>>
    <3>1. Len(signals'["B"]) = 1 /\ state'["B"] = "connected"
      BY <1>9, <2>2 DEF Silent
    <3>2. DOMAIN write_queue'["B"] = {} /\ writing'["B"] = "none"
      BY <1>8, <2>2
    <3> QED BY <1>13, <2>2, <3>1, <3>2 DEF EndB, Connected, Signalled
  <2>3. CASE m.kind = "challenge" /\ Silent("B") /\ peer # "refusing" /\ rest = <<>>
    BY <1>7, <1>8, <1>9, <1>13, <2>3 DEF EndB, Reading, Quiet, Silent
  <2>4. CASE state["B"] = "sending_status" /\ Silent("B") /\ m.kind = "status"
    BY <1>6, <1>7, <1>8, <1>9, <1>13, <2>4
       DEF EndB, Busy, Writes, Quiet, Silent
  <2> QED BY <1>7, <2>1, <2>2, <2>3, <2>4
<1>15. /\ HandedB' = HandedB /\ TakenB' = TakenB /\ (AwaitsB' <=> AwaitsB)
       /\ ~Failed("B") /\ ~Failed("B")' /\ (Acked' <=> Acked)
       /\ state["B"] = "sending_status" /\ peer = "refusing" => state'["B"] = "sending_status"
  <2>1. CASE state["B"] = "sending_status" /\ m.kind = "status"
    <3>1. state'["B"] = "sending_status"
      BY <1>9, <2>1
    <3>2. HandedB = 1
      BY <1>2, <1>8, <2>1 DEF HandedB, Past
    <3>3. rest = <<>> \/ rest = <<Msg("challenge")>>
      BY <1>7, <2>1 DEF Connected
    <3>4. CASE rest = <<>>
      BY <1>8, <2>1, <3>1, <3>2, <3>4 DEF HandedB, TakenB, AwaitsB, Failed, Acked
    <3>5. CASE rest = <<Msg("challenge")>>
      <4>1. /\ write_queue'["B"] # <<>> /\ write_queue'["B"][1].kind = "challenge"
            /\ writing'["B"] = "started"
        BY <1>6, <1>8, <3>5
      <4>2. HandedB' = 1
        BY <3>1, <4>1 DEF HandedB, Past
      <4> QED BY <2>1, <3>1, <3>2, <4>2 DEF TakenB, AwaitsB, Failed, Acked
    <3> QED BY <3>3, <3>4, <3>5
  <2>2. CASE /\ state["B"] = "sending_status" /\ m.kind = "challenge"
             /\ peer # "refusing"
    <3>1. state'["B"] = "waiting_for_challenge_reply"
      BY <1>9, <2>2
    <3>2. HandedB = 2 /\ HandedB' = 2
      BY <1>2, <1>8, <2>2, <3>1 DEF HandedB, Past
    <3> QED BY <2>2, <3>1, <3>2 DEF TakenB, AwaitsB, Failed, Acked
  <2>3. CASE state["B"] = "sending_challenge_ack" /\ m.kind = "ack"
    <3>1. state'["B"] = "connected"
      BY <1>9, <2>3
    <3> QED BY <1>2, <2>3, <3>1 DEF HandedB, Past, TakenB, AwaitsB, Failed, Acked
  <2>4. CASE state["B"] = "connected" /\ m.kind \in {"data", "tick"}
    <3>1. state'["B"] = "connected"
      BY <1>9, <2>4
    <3> QED BY <2>4, <3>1 DEF HandedB, Past, TakenB, AwaitsB, Failed, Acked
  <2> QED BY <1>7, <2>1, <2>2, <2>3, <2>4 DEF Connected
<1>16. ToA' /\ ToB'
  BY <1>1, <1>11, <1>12, <1>13, <1>15 DEF ToA, ToB
<1>17. Ends'
  BY <1>1, <1>11, <1>13, <1>15 DEF Ends
<1> QED BY <1>11, <1>14, <1>16, <1>17

(***************************************************************************)
(* B gives up: what is on its way to A stays, and nothing follows.         *)
(***************************************************************************)
LEMMA GiveUpStep ==
  ASSUME IInv, AwaitsB, Quiet("B"), Silent("B"), ~broken, ~Failed("A"),
         give_up, StopsReading("B"), UNCHANGED <<setting, started, writes>>,
         network'["A"] = network["A"],
         handshake_msgs'["A"] = handshake_msgs["A"]
  PROVE  (EndA /\ EndB /\ ToA /\ ToB /\ Ends)'
<1>1. Typed /\ EndA /\ EndB /\ ToA /\ ToB /\ Ends
  BY DEF IInv
<1>2. "A" \in Node /\ "B" \in Node /\ "A" # "B"
  BY DEF Node
<1>3. Signal("B", FALSE) /\ state' = Set(state, "B", "connected_tcp")
  BY DEF give_up, report_failure
<1>4. /\ state'["B"] = "connected_tcp" /\ state'["A"] = state["A"]
      /\ reading'["B"] = FALSE /\ reading'["A"] = reading["A"]
  BY <1>1, <1>2, <1>3 DEF StopsReading, Set, Typed
<1>5. Len(signals'["B"]) = 1 /\ signals'["A"] = signals["A"]
  <2>1. Len(signals'["B"]) = Len(signals["B"]) + 1 /\ signals'["A"] = signals["A"]
    BY <1>1, <1>2, <1>3, SignalFacts
  <2> QED BY <2>1 DEF Silent
<1>6. Failed("B")' /\ ~AwaitsB' /\ ~Acked'
  BY <1>4, <1>5 DEF Failed, Signalled, Quiet, writes, AwaitsB, Acked
<1>7. EndB'
  BY <1>6 DEF EndB
<1>8. SameAt("A")
  BY <1>4, <1>5 DEF SameAt, writes
<1>9. /\ EndA' /\ (AwaitsA' <=> AwaitsA) /\ (Failed("A")' <=> Failed("A"))
      /\ TakenA' = TakenA /\ state'["A"] = state["A"]
  BY <1>1, <1>8, FrameA
<1>10. \A i, x : (IsToA(i, x)' <=> IsToA(i, x))
  BY FrameMessages
<1>11. ~Acked /\ AwaitsA
  BY <1>1 DEF Acked, AwaitsB, Ends
<1>12. ToA'
  BY <1>1, <1>6, <1>9, <1>10, <1>11 DEF ToA
<1>13. ToB'
  BY <1>6 DEF ToB
<1>14. Ends'
  <2>1. broken' \/ peer' = "tinch"
    BY DEF give_up, setting
  <2>2. state["A"] # "connected"
    BY <1>11 DEF AwaitsA
  <2> QED BY <1>6, <1>9, <1>11, <2>1, <2>2 DEF Ends
<1> QED BY <1>7, <1>9, <1>12, <1>13, <1>14

(***************************************************************************)
(* B reads A's name, which is all that is on its way.                      *)
(***************************************************************************)
LEMMA NameReadStep ==
  ASSUME IInv, NEW k \in Ks("B"), name_read(k)
  PROVE  (EndA /\ EndB /\ ToA /\ ToB /\ Ends)'
<1>1. Typed /\ EndA /\ EndB /\ ToA /\ ToB /\ Ends
  BY DEF IInv
<1>2. /\ reading["B"] /\ state["B"] = "connected_tcp"
      /\ network' = [network EXCEPT !["B"] = SubSeq(@, k + 1, Len(@))]
      /\ UNCHANGED <<setting, started>>
      /\ handshake_msgs' = Set(handshake_msgs, "B", Tail(ReadInto("B", k)))
      /\ StopsReading("B")
      /\ \/ sending_status /\ UNCHANGED broken
         \/ give_up /\ UNCHANGED writes
  BY DEF name_read, Reads, LexerKeeps
<1>3. "A" \in Node /\ "B" \in Node /\ "A" # "B"
  BY DEF Node
<1>4. Silent("B") /\ Reading("B") /\ ~Failed("B") /\ AwaitsB
  BY <1>1, <1>2 DEF EndB, Failed, Connected, AwaitsB
<1>5. /\ Len(network["B"]) \in Nat /\ k \in Nat /\ 1 <= k /\ k <= Len(network["B"])
      /\ Tail(ReadInto("B", k)) = <<>> <=> k = 1
  BY <1>1, <1>3, <1>4, LexerFacts DEF Reading
<1>6. ~broken
  BY <1>1, <1>4, <1>5 DEF Ends
<1>7. ~Failed("A")
  BY <1>1, <1>2, <1>6 DEF Ends
<1>8. AwaitsA /\ ~Acked
  BY <1>1, <1>2, <1>7 DEF Ends, Acked
<1>9. TakenA = 0 /\ TakenA + Len(network["A"]) = 0 /\ Len(network["A"]) = 0
  <2>1. TakenA + Len(network["A"]) = HandedB /\ HandedB = 0
    BY <1>1, <1>2, <1>4, <1>6, <1>8 DEF ToA, HandedB
  <2>2. TakenA \in Nat /\ Len(network["A"]) \in Nat
    BY <1>1, <1>3, LenProperties DEF TakenA, Typed
  <2> QED BY <2>1, <2>2
<1>10. HandedA \in {0, 1}
  BY <1>1, <1>7, <1>8, <1>9 DEF HandedA, TakenA, Past, AwaitsA
<1>11. Len(network["B"]) = 1 /\ k = 1 /\ HandedA = 1
  <2>1. TakenB = 0
    BY <1>2 DEF TakenB
  <2>2. TakenB + Len(network["B"]) = HandedA
    BY <1>1, <1>4, <1>6, <1>7 DEF ToB
  <2>3. Len(network["B"]) = HandedA
    BY <1>5, <2>1, <2>2
  <2>4. Len(network["B"]) = 1
    BY <1>5, <1>10, <2>3
  <2> QED BY <1>5, <2>3, <2>4
<1>12. /\ Len(network'["B"]) = 0 /\ network'["A"] = network["A"]
       /\ handshake_msgs'["B"] = <<>> /\ handshake_msgs'["A"] = handshake_msgs["A"]
       /\ network'["B"] = <<>>
  <2>1. /\ Len(network'["B"]) = 0 /\ network'["A"] = network["A"]
        /\ network'["B"] \in Seq(Message)
    <3>1. /\ network' \in [Node -> Seq(Message)] /\ network'["A"] = network["A"]
          /\ Len(network'["B"]) = Len(network["B"]) - k
      BY <1>1, <1>2, <1>3, NetworkFacts
    <3> QED BY <1>3, <1>11, <3>1
  <2>2. network'["B"] = <<>>
    BY <2>1, LenZero
  <2>3. handshake_msgs'["B"] = <<>> /\ handshake_msgs'["A"] = handshake_msgs["A"]
    BY <1>1, <1>2, <1>3, <1>5, <1>11 DEF Typed, Set
  <2> QED BY <2>1, <2>2, <2>3
<1>13. CASE give_up /\ UNCHANGED writes
  BY <1>2, <1>4, <1>6, <1>7, <1>12, <1>13, GiveUpStep DEF Reading
<1>14. CASE sending_status /\ UNCHANGED broken
  <2> DEFINE msgs == IF peer = "refusing" THEN <<status_msg>>
                     ELSE <<status_msg, Msg("challenge")>>
  <2>1. /\ state' = Set(state, "B", "sending_status")
        /\ trigger_write("B", msgs) /\ signals' = signals
    BY <1>14 DEF sending_status
  <2>2. /\ msgs \in Seq(Message) /\ <<>> \o msgs = msgs
        /\ msgs # <<>> /\ msgs[1] = status_msg /\ status_msg.kind = "status"
    BY <1>1, MessageFacts, ShortFacts
  <2>3. /\ state'["B"] = "sending_status" /\ state'["A"] = state["A"]
        /\ reading'["B"] = FALSE /\ reading'["A"] = reading["A"]
    BY <1>1, <1>2, <1>3, <2>1 DEF StopsReading, Set, Typed
  <2> HIDE DEF msgs
  <2>4. /\ write_queue'["B"] = msgs /\ writing'["B"] = "started"
        /\ write_queue'["A"] = write_queue["A"] /\ writing'["A"] = writing["A"]
    <3>1. write_queue["B"] = <<>> /\ "A" \in Node \ {"B"} /\ "B" \in Node
      BY <1>4 DEF Reading, Quiet, Node
    <3>2. /\ write_queue'["B"] = write_queue["B"] \o msgs
          /\ writing'["B"] = IF write_queue["B"] = <<>> THEN "started" ELSE writing["B"]
          /\ \A l \in Node \ {"B"} : /\ write_queue'[l] = write_queue[l]
                                     /\ writing'[l] = writing[l]
      BY <1>1, <2>1, <2>2, <3>1, WriteFacts
    <3> QED BY ONLY <2>2, <3>1, <3>2
  <2>5. SameAt("A")
    BY <1>12, <2>1, <2>3, <2>4 DEF SameAt
  <2>6. /\ EndA' /\ (AwaitsA' <=> AwaitsA) /\ (Failed("A")' <=> Failed("A"))
        /\ TakenA' = TakenA /\ HandedA' = HandedA /\ state'["A"] = state["A"]
    BY <1>1, <1>2, <2>5, FrameA
  <2>7. EndB'
    <3>1. peer' = peer /\ status_msg' = status_msg /\ Msg("challenge")' = Msg("challenge")
      BY <1>2, FrameMessages DEF setting, Msg
    <3>2. Silent("B")' /\ ~reading'["B"] /\ handshake_msgs'["B"] = <<>>
      BY <1>4, <1>12, <2>1, <2>3 DEF Silent
    <3>3. CASE peer = "refusing"
      BY <2>3, <2>4, <3>1, <3>2, <3>3 DEF EndB, Busy, Writes, msgs
    <3>4. CASE peer # "refusing"
      BY <2>3, <2>4, <3>1, <3>2, <3>4 DEF EndB, Busy, Writes, msgs
    <3> QED BY <3>3, <3>4
  <2>8. /\ ~Failed("B")' /\ AwaitsB' /\ ~Acked' /\ TakenB' = 1 /\ HandedB' = 0
    BY <2>2, <2>3, <2>4 DEF Failed, AwaitsB, Acked, TakenB, HandedB, Past
  <2>9. broken' = broken /\ cookie' = cookie
    BY <1>2, <1>14 DEF setting
  <2>10. ToA'
    BY <1>9, <1>12, <2>6, <2>8, <2>9 DEF ToA
  <2>11. ToB'
    BY <1>11, <1>12, <2>6, <2>8, <2>9 DEF ToB
  <2>12. Ends'
    BY <1>6, <1>7, <1>8, <2>6, <2>8, <2>9 DEF Ends, AwaitsA
  <2> QED BY <2>6, <2>7, <2>10, <2>11, <2>12
<1> QED BY <1>2, <1>13, <1>14

(***************************************************************************)
(* Where A stands when it waits for the status or the challenge: B has not *)
(* acknowledged, so that no more than these two can be on their way.       *)
(***************************************************************************)
LEMMA WaitingFacts ==
  ASSUME IInv, state["A"] \in {"waiting_for_status", "receiving_challenge"}
  PROVE  /\ started /\ Silent("A") /\ Reading("A") /\ AwaitsA /\ ~Failed("A")
         /\ HandedA = 1 /\ ~Acked
         /\ Len(network["A"]) \in Nat /\ TakenA \in Nat
         /\ TakenA + Len(network["A"]) <= 2
         /\ \A i \in 1..Len(network["A"]) : IsToA(TakenA + i, network["A"][i])
<1>1. Typed /\ EndA /\ EndB /\ ToA /\ ToB /\ Ends
  BY DEF IInv
<1>2. started /\ Silent("A") /\ Reading("A")
  BY <1>1 DEF EndA, Connected, Failed
<1>3. AwaitsA /\ ~Failed("A") /\ HandedA = 1
  BY DEF AwaitsA, Failed, HandedA
<1>4. ~Acked
  <2>1. Acked => ~AwaitsB /\ ~Failed("B")
    BY DEF Acked, AwaitsB, Failed
  <2> QED BY <1>1, <1>3, <2>1 DEF Ends
<1>5. Len(network["A"]) \in Nat /\ TakenA \in Nat
  BY <1>1, LenProperties DEF Typed, Node, TakenA
<1>6. TakenA + Len(network["A"]) <= 2
  <2>1. ~(TakenA + Len(network["A"]) >= 3)
    BY <1>1, <1>3, <1>4 DEF ToA
  <2> QED BY <1>5, <2>1
<1>7. \A i \in 1..Len(network["A"]) : IsToA(TakenA + i, network["A"][i])
  BY <1>1, <1>3 DEF ToA
<1> QED BY <1>2, <1>3, <1>4, <1>5, <1>6, <1>7

(***************************************************************************)
(* A takes k messages of the handshake and goes on, with a reply to write  *)
(* if it has the challenge.                                                *)
(***************************************************************************)
LEMMA TakesStep ==
  ASSUME IInv, state["A"] \in {"waiting_for_status", "receiving_challenge"},
         NEW k \in Ks("A"),
         network' = [network EXCEPT !["A"] = SubSeq(@, k + 1, Len(@))],
         handshake_msgs'["B"] = handshake_msgs["B"],
         state'["B"] = state["B"], reading'["B"] = reading["B"],
         write_queue'["B"] = write_queue["B"], writing'["B"] = writing["B"],
         UNCHANGED <<setting, started, broken, signals>>, EndA',
         TakenA' = TakenA + k, HandedA' = 1, AwaitsA', ~Failed("A")',
         state'["A"] # "connected"
  PROVE  (EndA /\ EndB /\ ToA /\ ToB /\ Ends)'
<1>1. Typed /\ EndA /\ EndB /\ ToA /\ ToB /\ Ends
  BY DEF IInv
<1>2. /\ AwaitsA /\ ~Failed("A") /\ HandedA = 1 /\ ~Acked
      /\ Len(network["A"]) \in Nat /\ TakenA \in Nat
      /\ TakenA + Len(network["A"]) <= 2
      /\ \A i \in 1..Len(network["A"]) : IsToA(TakenA + i, network["A"][i])
  BY WaitingFacts
<1>3. "A" \in Node /\ "B" \in Node /\ "A" # "B"
  BY DEF Node
<1>4. k \in Nat /\ 1 <= k /\ k <= Len(network["A"])
  BY <1>1, <1>3, LexerFacts
<1>5. /\ network'["B"] = network["B"]
      /\ Len(network'["A"]) = Len(network["A"]) - k
      /\ \A i \in 1..(Len(network["A"]) - k) : network'["A"][i] = network["A"][k + i]
  BY <1>1, <1>3, NetworkFacts
<1>6. SameAt("B")
  BY DEF SameAt
<1>7. /\ EndB' /\ (AwaitsB' <=> AwaitsB) /\ (Acked' <=> Acked)
      /\ (Failed("B")' <=> Failed("B")) /\ HandedB' = HandedB /\ TakenB' = TakenB
  BY <1>1, <1>6, FrameB
<1>8. \A i, x : (IsToA(i, x)' <=> IsToA(i, x)) /\ (IsToB(i, x)' <=> IsToB(i, x))
  BY FrameMessages
<1>9. broken' = broken /\ cookie' = cookie /\ peer' = peer
  BY DEF setting
<1>10. ToA'
  <2>1. \A i \in 1..Len(network'["A"]) : IsToA(TakenA' + i, network'["A"][i])
    <3>1. SUFFICES ASSUME NEW i \in 1..(Len(network["A"]) - k)
                   PROVE  IsToA(TakenA + k + i, network["A"][k + i])
      BY <1>5
    <3>2. k + i \in 1..Len(network["A"]) /\ TakenA + k + i = TakenA + (k + i)
      BY <1>2, <1>4
    <3> QED BY <1>2, <3>2
  <2> DEFINE t == TakenA
             n == Len(network["A"])
             n1 == Len(network'["A"])
  <2>2. t \in Nat /\ n \in Nat /\ t + n <= 2 /\ n1 = n - k /\ t' = t + k
    BY <1>2, <1>5
  <2>3. ~broken /\ ~Failed("B") => t + n = HandedB
    BY <1>1, <1>2 DEF ToA
  <2>4. ToA' <=> (AwaitsA' =>
           /\ \A i \in 1..n1 : IsToA(TakenA + i, network["A"][i])'
           /\ t' + n1 >= 3 => Acked'
           /\ ~broken' /\ ~Failed("B")' =>
                IF Acked' THEN t' + n1 >= 3 ELSE t' + n1 = HandedB')
    BY DEF ToA
  <2> HIDE DEF t, n, n1
  <2>5. t' + n1 = t + n /\ ~(t' + n1 >= 3)
    BY <1>4, <2>2
  <2>6. \A i \in 1..n1 : IsToA(TakenA + i, network["A"][i])'
    BY <2>1, <1>8 DEF n1
  <2>7. ~Acked'
    BY <1>2, <1>7
  <2>8. ~broken' /\ ~Failed("B")' => t' + n1 = HandedB'
    <3> HAVE ~broken' /\ ~Failed("B")'
    <3>1. t + n = HandedB /\ HandedB' = HandedB
      BY <1>7, <1>9, <2>3
    <3> QED BY <2>5, <3>1
  <2> QED BY <2>4, <2>5, <2>6, <2>7, <2>8
<1>11. ToB'
  BY <1>1, <1>2, <1>5, <1>7, <1>8, <1>9 DEF ToB
<1>12. Ends'
  BY <1>1, <1>2, <1>5, <1>7, <1>9 DEF Ends
<1> QED BY <1>7, <1>10, <1>11, <1>12

(***************************************************************************)
(* A writes its answer to the challenge.                                   *)
(***************************************************************************)
LEMMA ReplyFacts ==
  ASSUME IInv, state["A"] \in {"waiting_for_status", "receiving_challenge"},
         sending_challenge_reply, UNCHANGED <<setting, started>>,
         handshake_msgs'["A"] = <<>>
  PROVE  /\ EndA' /\ TakenA' = 2 /\ HandedA' = 1 /\ AwaitsA' /\ ~Failed("A")'
         /\ state'["A"] # "connected"
         /\ state'["B"] = state["B"] /\ reading'["B"] = reading["B"]
         /\ write_queue'["B"] = write_queue["B"] /\ writing'["B"] = writing["B"]
<1>1. Typed /\ started /\ Silent("A") /\ Reading("A")
  BY WaitingFacts DEF IInv
<1>2. "A" \in Node /\ "B" \in Node /\ "A" # "B"
  BY DEF Node
<1>3. /\ state' = Set(state, "A", "sending_challenge_reply")
      /\ reading' = Set(reading, "A", FALSE)
      /\ trigger_write("A", <<reply_msg>>) /\ signals' = signals
  BY DEF sending_challenge_reply, StopsReading
<1>4. <<reply_msg>> \in Seq(Message) /\ <<>> \o <<reply_msg>> = <<reply_msg>>
  BY <1>1, MessageFacts, ShortFacts
<1>5. /\ write_queue'["A"] = <<reply_msg>> /\ writing'["A"] = "started"
      /\ write_queue'["B"] = write_queue["B"] /\ writing'["B"] = writing["B"]
  BY <1>1, <1>2, <1>3, <1>4, WriteFacts DEF Reading, Quiet
<1>6. /\ state'["A"] = "sending_challenge_reply" /\ state'["B"] = state["B"]
      /\ reading'["A"] = FALSE /\ reading'["B"] = reading["B"]
  BY <1>1, <1>2, <1>3 DEF Typed, Set
<1>7. reply_msg' = reply_msg
  BY FrameMessages
<1>8. EndA'
  BY <1>1, <1>3, <1>5, <1>6, <1>7 DEF EndA, Silent, Busy, Writes
<1>9. TakenA' = 2 /\ HandedA' = 1 /\ AwaitsA' /\ ~Failed("A")'
  BY <1>5, <1>6 DEF TakenA, HandedA, Past, AwaitsA, Failed
<1> QED BY <1>5, <1>6, <1>8, <1>9

LEMMA ChallengeReadStep ==
  ASSUME IInv, NEW k \in Ks("A"), challenge_read(k)
  PROVE  (EndA /\ EndB /\ ToA /\ ToB /\ Ends)'
<1>1. Typed /\ EndA /\ EndB /\ ToA /\ ToB /\ Ends
  BY DEF IInv
<1>2. /\ state["A"] = "receiving_challenge"
      /\ network' = [network EXCEPT !["A"] = SubSeq(@, k + 1, Len(@))]
      /\ UNCHANGED <<setting, started, broken>> /\ sending_challenge_reply
      /\ handshake_msgs' = Set(handshake_msgs, "A", Tail(ReadInto("A", k)))
  BY DEF challenge_read, Reads, LexerKeeps
<1>3. "A" \in Node /\ "B" \in Node /\ "A" # "B"
  BY DEF Node
<1>4. /\ Reading("A") /\ TakenA + Len(network["A"]) <= 2
      /\ Len(network["A"]) \in Nat
  BY <1>2, WaitingFacts
<1>5. TakenA = 1
  BY <1>2 DEF TakenA
<1>6. /\ k \in Nat /\ 1 <= k /\ k <= Len(network["A"])
      /\ Tail(ReadInto("A", k)) = <<>> <=> k = 1
  BY <1>1, <1>3, <1>4, LexerFacts DEF Reading
<1>7. k = 1
  BY <1>4, <1>5, <1>6
<1>8. handshake_msgs'["A"] = <<>> /\ handshake_msgs'["B"] = handshake_msgs["B"]
  BY <1>1, <1>2, <1>3, <1>6, <1>7 DEF Typed, Set
<1>9. /\ EndA' /\ TakenA' = 2 /\ HandedA' = 1 /\ AwaitsA' /\ ~Failed("A")'
      /\ state'["A"] # "connected"
      /\ state'["B"] = state["B"] /\ reading'["B"] = reading["B"]
      /\ write_queue'["B"] = write_queue["B"] /\ writing'["B"] = writing["B"]
  BY <1>2, <1>8, ReplyFacts
<1>10. TakenA' = TakenA + k /\ signals' = signals
  BY <1>2, <1>5, <1>7, <1>9 DEF sending_challenge_reply
<1> QED BY <1>2, <1>8, <1>9, <1>10, TakesStep

(***************************************************************************)
(* A reads the status, and the challenge if it came with it.               *)
(***************************************************************************)
LEMMA StatusReadStep ==
  ASSUME IInv, NEW k \in Ks("A"), status_read(k)
  PROVE  (EndA /\ EndB /\ ToA /\ ToB /\ Ends)'
<1>1. Typed /\ EndA /\ EndB /\ ToA /\ ToB /\ Ends
  BY DEF IInv
<1>2. /\ state["A"] = "waiting_for_status"
      /\ network' = [network EXCEPT !["A"] = SubSeq(@, k + 1, Len(@))]
      /\ UNCHANGED <<setting, started, broken>>
  BY DEF status_read, Reads
<1>3. "A" \in Node /\ "B" \in Node /\ "A" # "B"
  BY DEF Node
<1>4. /\ started /\ Silent("A") /\ Reading("A") /\ AwaitsA /\ ~Failed("A") /\ ~Acked
      /\ Len(network["A"]) \in Nat /\ TakenA + Len(network["A"]) <= 2
      /\ \A i \in 1..Len(network["A"]) : IsToA(TakenA + i, network["A"][i])
  BY <1>2, WaitingFacts
<1>5. TakenA = 0
  BY <1>2 DEF TakenA
<1> DEFINE q == Tail(ReadInto("A", k))
<1>6. /\ k \in Nat /\ 1 <= k /\ k <= Len(network["A"])
      /\ Head(ReadInto("A", k)) = network["A"][1]
      /\ q = <<>> <=> k = 1
      /\ k = 2 => Tail(q) = <<>>
  BY <1>1, <1>3, <1>4, LexerFacts DEF Reading
<1>7. k \in {1, 2}
  BY <1>4, <1>5, <1>6
<1>8. Head(ReadInto("A", k)) = status_msg /\ (status_msg.ok <=> peer # "refusing")
  <2>1. IsToA(1, network["A"][1])
    BY <1>4, <1>5, <1>6
  <2> QED BY <1>1, <1>6, <2>1, MessageFacts DEF IsToA
<1> HIDE DEF q
<1>9. CASE q # <<>> /\ LexerKeeps("A", Tail(q)) /\ sending_challenge_reply
  <2>1. k = 2
    BY <1>6, <1>7, <1>9
  <2>2. handshake_msgs'["A"] = <<>> /\ handshake_msgs'["B"] = handshake_msgs["B"]
    BY <1>1, <1>3, <1>6, <1>9, <2>1 DEF LexerKeeps, Typed, Set
  <2>3. /\ EndA' /\ TakenA' = 2 /\ HandedA' = 1 /\ AwaitsA' /\ ~Failed("A")'
        /\ state'["A"] # "connected"
        /\ state'["B"] = state["B"] /\ reading'["B"] = reading["B"]
        /\ write_queue'["B"] = write_queue["B"] /\ writing'["B"] = writing["B"]
    BY <1>2, <1>9, <2>2, ReplyFacts
  <2>4. TakenA' = TakenA + k /\ signals' = signals
    BY <1>5, <1>9, <2>1, <2>3 DEF sending_challenge_reply
  <2> QED BY <1>2, <2>2, <2>3, <2>4, TakesStep
<1>10. CASE /\ q = <<>> /\ LexerKeeps("A", q)
            /\ state' = Set(state, "A", "receiving_challenge")
            /\ UNCHANGED <<reading, writes, signals>>
  <2>1. k = 1
    BY <1>6, <1>10
  <2>2. /\ handshake_msgs'["A"] = <<>> /\ handshake_msgs'["B"] = handshake_msgs["B"]
        /\ state'["A"] = "receiving_challenge" /\ state'["B"] = state["B"]
    BY <1>1, <1>3, <1>10 DEF LexerKeeps, Typed, Set
  <2>3. reading' = reading /\ write_queue' = write_queue /\ writing' = writing
        /\ signals' = signals
    BY <1>10 DEF writes
  <2>4. EndA'
    BY <1>2, <1>4, <2>2, <2>3 DEF EndA, Silent, Reading, Quiet
  <2>5. /\ TakenA' = 1 /\ HandedA' = 1 /\ AwaitsA' /\ ~Failed("A")'
        /\ state'["A"] # "connected"
    BY <2>2 DEF TakenA, HandedA, AwaitsA, Failed
  <2>6. TakenA' = TakenA + k
    BY <1>5, <2>1, <2>5
  <2> QED BY <1>2, <2>2, <2>3, <2>4, <2>5, <2>6, TakesStep
<1>11. CASE /\ ~Head(ReadInto("A", k)).ok /\ LexerKeeps("A", q)
            /\ StopsReading("A") /\ report_failure("A") /\ UNCHANGED writes
  <2>1. peer = "refusing"
    BY <1>8, <1>11
  <2>2. Signal("A", FALSE) /\ state' = Set(state, "A", "connected_tcp")
    BY <1>11 DEF report_failure
  <2>3. /\ state'["A"] = "connected_tcp" /\ state'["B"] = state["B"]
        /\ reading'["A"] = FALSE /\ reading'["B"] = reading["B"]
        /\ handshake_msgs'["B"] = handshake_msgs["B"]
    BY <1>1, <1>3, <1>11, <2>2 DEF StopsReading, LexerKeeps, Set, Typed
  <2>4. Len(signals'["A"]) = Len(signals["A"]) + 1 /\ signals'["B"] = signals["B"]
    BY <1>1, <1>3, <2>2, SignalFacts
  <2>5. writing'["A"] = "none" /\ write_queue' = write_queue /\ writing' = writing
    BY <1>4, <1>11 DEF writes, Reading, Quiet
  <2>6. Failed("A")' /\ ~AwaitsA'
    BY <1>4, <2>3, <2>4, <2>5 DEF Failed, AwaitsA, Signalled, Silent
  <2>7. EndA'
    BY <1>2, <1>4, <2>6 DEF EndA
  <2>8. SameAt("B")
    BY <2>3, <2>4, <2>5 DEF SameAt
  <2>9. /\ EndB' /\ (AwaitsB' <=> AwaitsB) /\ (Acked' <=> Acked)
        /\ (Failed("B")' <=> Failed("B")) /\ HandedB' = HandedB /\ TakenB' = TakenB
    BY <1>1, <1>2, <2>8, FrameB
  <2>10. /\ broken' = broken /\ cookie' = cookie /\ peer' = peer
         /\ \A i, x : (IsToB(i, x)' <=> IsToB(i, x))
    BY <1>2, FrameMessages DEF setting
  <2>11. network'["B"] = network["B"]
    BY <1>1, <1>2, <1>3, NetworkFacts
  <2>12. broken \/ state["B"] = "sending_status"
    <3>1. SUFFICES ASSUME ~broken PROVE state["B"] = "sending_status"
      OBVIOUS
    <3>2. ~Failed("B")
      BY <1>1, <2>1, <3>1 DEF Ends
    <3>3. Len(network["A"]) = HandedB
      BY <1>1, <1>4, <1>5, <3>1, <3>2 DEF ToA
    <3>4. state["B"] # "connected_tcp"
      BY <1>6, <3>3 DEF HandedB
    <3> QED BY <1>1, <2>1, <3>2, <3>4 DEF EndB
  <2>13. ToA' /\ ToB'
    BY <1>1, <2>6, <2>9, <2>10, <2>11 DEF ToA, ToB
  <2>14. Ends'
    BY <1>1, <2>1, <2>3, <2>6, <2>9, <2>10, <2>11, <2>12 DEF Ends
  <2> QED BY <2>7, <2>9, <2>13, <2>14
<1> QED BY <1>9, <1>10, <1>11 DEF status_read, receive_challenge, q

(***************************************************************************)
(* B reads A's reply, which is all that is on its way, and compares the    *)
(* digest with the one of its own cookie.                                  *)
(***************************************************************************)
LEMMA ReplyReceivedStep ==
  ASSUME IInv, NEW k \in Ks("B"), reply_received(k)
  PROVE  (EndA /\ EndB /\ ToA /\ ToB /\ Ends)'
<1>1. Typed /\ EndA /\ EndB /\ ToA /\ ToB /\ Ends
  BY DEF IInv
<1> DEFINE m == Head(ReadInto("B", k))
           q == Tail(ReadInto("B", k))
           correct == peer = "lenient" \/ is_correct_digest(m)
<1>2. /\ reading["B"] /\ state["B"] = "waiting_for_challenge_reply"
      /\ network' = [network EXCEPT !["B"] = SubSeq(@, k + 1, Len(@))]
      /\ UNCHANGED <<setting, started>>
      /\ handshake_msgs' = Set(handshake_msgs, "B", q)
      /\ StopsReading("B")
      /\ \/ /\ correct
            /\ state' = Set(state, "B", "sending_challenge_ack")
            /\ trigger_write("B", <<ack_msg>>)
            /\ UNCHANGED <<signals, broken>>
         \/ give_up /\ UNCHANGED writes
  BY DEF reply_received, Reads, LexerKeeps
<1>3. "A" \in Node /\ "B" \in Node /\ "A" # "B"
  BY DEF Node
<1>4. Silent("B") /\ Reading("B") /\ ~Failed("B") /\ AwaitsB /\ peer # "refusing"
  BY <1>1, <1>2 DEF EndB, Failed, Connected, AwaitsB
<1>5. /\ Len(network["B"]) \in Nat /\ k \in Nat /\ 1 <= k /\ k <= Len(network["B"])
      /\ m = network["B"][1] /\ (q = <<>> <=> k = 1)
  BY <1>1, <1>3, <1>4, LexerFacts DEF Reading
<1> HIDE DEF m, q
<1>6. ~broken
  BY <1>1, <1>4, <1>5 DEF Ends
<1>7. ~Failed("A")
  BY <1>1, <1>2, <1>6 DEF Ends
<1>8. AwaitsA /\ ~Acked
  BY <1>1, <1>2, <1>7 DEF Ends, Acked
<1>9. HandedA \in {0, 1, 2}
  BY <1>1 DEF HandedA, Past
<1>10. Len(network["B"]) = 1 /\ k = 1 /\ HandedA = 2 /\ m = reply_msg
  <2>1. TakenB = 1
    BY <1>2 DEF TakenB
  <2>2. /\ TakenB + Len(network["B"]) = HandedA
        /\ \A i \in 1..Len(network["B"]) : IsToB(TakenB + i, network["B"][i])
    BY <1>1, <1>4, <1>6, <1>7 DEF ToB
  <2>3. 1 + Len(network["B"]) = HandedA
    BY <2>1, <2>2
  <2>4. Len(network["B"]) = 1 /\ k = 1 /\ HandedA = 2
    <3> DEFINE n == Len(network["B"])
    <3>1. n \in Nat /\ k \in Nat /\ 1 <= k /\ k <= n /\ 1 + n \in {0, 1, 2}
      BY <1>5, <1>9, <2>3
    <3> HIDE DEF n
    <3>2. n = 1 /\ k = 1
      BY <3>1
    <3> QED BY <2>3, <3>2 DEF n
  <2>5. IsToB(2, network["B"][1])
    BY <2>1, <2>2, <2>4
  <2> QED BY <1>5, <2>4, <2>5 DEF IsToB
<1>11. /\ network'["A"] = network["A"] /\ network'["B"] = <<>>
       /\ handshake_msgs'["B"] = <<>> /\ handshake_msgs'["A"] = handshake_msgs["A"]
  <2>1. /\ Len(network'["B"]) = 0 /\ network'["A"] = network["A"]
        /\ network'["B"] \in Seq(Message)
    <3>1. /\ network' \in [Node -> Seq(Message)] /\ network'["A"] = network["A"]
          /\ Len(network'["B"]) = Len(network["B"]) - k
      BY <1>1, <1>2, <1>3, NetworkFacts
    <3> QED BY <1>3, <1>10, <3>1
  <2>2. network'["B"] = <<>>
    BY <2>1, LenZero
  <2>3. handshake_msgs'["B"] = <<>> /\ handshake_msgs'["A"] = handshake_msgs["A"]
    BY <1>1, <1>2, <1>3, <1>5, <1>10 DEF Typed, Set
  <2> QED BY <2>1, <2>2, <2>3
<1>12. CASE give_up /\ UNCHANGED writes
  BY <1>2, <1>4, <1>6, <1>7, <1>11, <1>12, GiveUpStep DEF Reading
<1>13. CASE /\ correct
            /\ state' = Set(state, "B", "sending_challenge_ack")
            /\ trigger_write("B", <<ack_msg>>)
            /\ UNCHANGED <<signals, broken>>
  <2>1. /\ <<ack_msg>> \in Seq(Message) /\ <<>> \o <<ack_msg>> = <<ack_msg>>
        /\ reply_msg.digest = <<"B", cookie["A"]>>
    BY <1>1, MessageFacts, ShortFacts
  <2>2. /\ state'["B"] = "sending_challenge_ack" /\ state'["A"] = state["A"]
        /\ reading'["B"] = FALSE /\ reading'["A"] = reading["A"]
    BY <1>1, <1>2, <1>3, <1>13 DEF StopsReading, Set, Typed
  <2>3. /\ write_queue'["B"] = <<ack_msg>> /\ writing'["B"] = "started"
        /\ write_queue'["A"] = write_queue["A"] /\ writing'["A"] = writing["A"]
    <3>1. write_queue["B"] = <<>> /\ "A" \in Node \ {"B"} /\ "B" \in Node
      BY <1>4 DEF Reading, Quiet, Node
    <3>2. /\ write_queue'["B"] = write_queue["B"] \o <<ack_msg>>
          /\ writing'["B"] = IF write_queue["B"] = <<>> THEN "started" ELSE writing["B"]
          /\ \A l \in Node \ {"B"} : /\ write_queue'[l] = write_queue[l]
                                     /\ writing'[l] = writing[l]
      BY <1>1, <1>13, <2>1, <3>1, WriteFacts
    <3> QED BY ONLY <2>1, <3>1, <3>2
  <2>4. SameAt("A")
    BY <1>11, <1>13, <2>2, <2>3 DEF SameAt
  <2>5. /\ EndA' /\ (AwaitsA' <=> AwaitsA) /\ (Failed("A")' <=> Failed("A"))
        /\ TakenA' = TakenA /\ HandedA' = HandedA /\ state'["A"] = state["A"]
    BY <1>1, <1>2, <2>4, FrameA
  <2>6. /\ broken' = broken /\ cookie' = cookie /\ peer' = peer /\ ack_msg' = ack_msg
        /\ \A i, x : IsToA(i, x)' <=> IsToA(i, x)
    BY <1>2, <1>13, FrameMessages DEF setting
  <2>7. EndB'
    BY <1>4, <1>11, <1>13, <2>2, <2>3, <2>6 DEF EndB, Busy, Writes, Silent
  <2>8. ~Failed("B")' /\ ~AwaitsB' /\ ~Acked' /\ HandedB' = 2 /\ HandedB = 2
    BY <1>2, <2>2, <2>3 DEF Failed, AwaitsB, Acked, HandedB, Past
  <2>9. peer # "lenient" => cookie["A"] = cookie["B"]
    BY <1>10, <1>13, <2>1 DEF is_correct_digest, calculate_digest
  <2>10. ToA'
    BY <1>1, <1>4, <1>8, <1>11, <2>5, <2>6, <2>8 DEF ToA
  <2>11. ToB'
    BY <2>8 DEF ToB
  <2>12. Ends'
    BY <1>6, <1>7, <1>8, <1>10, <2>5, <2>6, <2>8, <2>9 DEF Ends, AwaitsA
  <2> QED BY <2>5, <2>7, <2>10, <2>11, <2>12
<1> QED BY <1>2, <1>12, <1>13

(***************************************************************************)
(* A reads B's acknowledgement: connected, or nothing outstanding any more. *)
(***************************************************************************)
LEMMA ChallengeAckReadStep ==
  ASSUME IInv, NEW k \in Ks("A"), challenge_ack_read(k)
  PROVE  (EndA /\ EndB /\ ToA /\ ToB /\ Ends)'
<1>1. Typed /\ EndA /\ EndB /\ ToA /\ ToB /\ Ends
  BY DEF IInv
<1> DEFINE m == Head(ReadInto("A", k))
<1>2. /\ reading["A"] /\ state["A"] = "receiving_challenge_ack"
      /\ network' = [network EXCEPT !["A"] = SubSeq(@, k + 1, Len(@))]
      /\ UNCHANGED <<setting, started, writes, broken>>
      /\ \/ is_correct(m) /\ make_transition_to_connected("A")
         \/ StopsReading("A") /\ UNCHANGED <<state, signals>>
      /\ handshake_msgs' = Set(handshake_msgs, "A", Tail(ReadInto("A", k)))
  BY DEF challenge_ack_read, Reads, LexerKeeps
<1>3. "A" \in Node /\ "B" \in Node /\ "A" # "B"
  BY DEF Node
<1>4. started /\ Silent("A") /\ Reading("A") /\ ~Failed("A") /\ AwaitsA
  BY <1>1, <1>2 DEF EndA, Failed, Connected, AwaitsA
<1>5. /\ Len(network["A"]) \in Nat /\ k \in Nat /\ 1 <= k /\ k <= Len(network["A"])
      /\ m = network["A"][1]
  BY <1>1, <1>3, <1>4, LexerFacts DEF Reading
<1> HIDE DEF m
<1>6. TakenA = 2 /\ HandedA = 2
  BY <1>2 DEF TakenA, HandedA
<1>7. Acked /\ m = ack_msg
  <2>1. /\ \A i \in 1..Len(network["A"]) : IsToA(TakenA + i, network["A"][i])
        /\ TakenA + Len(network["A"]) >= 3 => Acked
    BY <1>1, <1>4 DEF ToA
  <2>2. IsToA(3, network["A"][1])
    BY <1>5, <1>6, <2>1
  <2>3. Acked
    BY <1>5, <1>6, <2>1
  <2> QED BY <1>5, <2>2, <2>3 DEF IsToA
<1>8. /\ network'["B"] = network["B"] /\ handshake_msgs'["B"] = handshake_msgs["B"]
      /\ write_queue' = write_queue /\ writing' = writing
  <2>1. network'["B"] = network["B"]
    BY <1>1, <1>2, <1>3, NetworkFacts
  <2> QED BY <1>1, <1>2, <1>3, <2>1 DEF Typed, Set, writes
<1>9. broken' = broken /\ cookie' = cookie /\ peer' = peer /\ started' = started
  BY <1>2 DEF setting
<1>10. /\ state'["B"] = state["B"] /\ reading'["B"] = reading["B"]
       /\ signals'["B"] = signals["B"]
       /\ \/ /\ is_correct(m) /\ state'["A"] = "connected"
             /\ Len(signals'["A"]) = 1
          \/ /\ state'["A"] = "receiving_challenge_ack" /\ ~reading'["A"]
             /\ signals'["A"] = signals["A"]
  <2>1. CASE is_correct(m) /\ make_transition_to_connected("A")
    <3>1. /\ Signal("A", TRUE) /\ state' = Set(state, "A", "connected")
          /\ reading' = Set(reading, "A", TRUE)
      BY <2>1 DEF make_transition_to_connected, handshake_complete
    <3>2. Len(signals'["A"]) = Len(signals["A"]) + 1 /\ signals'["B"] = signals["B"]
      BY <1>1, <1>3, <3>1, SignalFacts
    <3>3. Len(signals'["A"]) = 1
      BY <1>4, <3>2 DEF Silent
    <3> QED BY <1>1, <1>3, <2>1, <3>1, <3>2, <3>3 DEF Set, Typed
  <2>2. CASE StopsReading("A") /\ UNCHANGED <<state, signals>>
    BY <1>1, <1>2, <1>3, <2>2 DEF StopsReading, Set, Typed
  <2> QED BY <1>2, <2>1, <2>2
<1>11. EndA' /\ ~AwaitsA' /\ ~Failed("A")' /\ HandedA' = 2
  <2>1. Quiet("A")' /\ started'
    BY <1>4, <1>8, <1>9 DEF Reading, Quiet
  <2>2. CASE state'["A"] = "connected" /\ Len(signals'["A"]) = 1
    <3>1. Connected("A")'
      BY <2>1, <2>2 DEF Connected, Quiet, Signalled
    <3> QED BY <2>1, <2>2, <3>1 DEF EndA, AwaitsA, Failed, HandedA
  <2>3. CASE /\ state'["A"] = "receiving_challenge_ack" /\ ~reading'["A"]
             /\ signals'["A"] = signals["A"]
    BY <1>4, <2>1, <2>3 DEF EndA, AwaitsA, Failed, HandedA, Silent
  <2> QED BY <1>10, <2>2, <2>3
<1>12. SameAt("B")
  BY <1>8, <1>10 DEF SameAt
<1>13. /\ EndB' /\ (AwaitsB' <=> AwaitsB) /\ (Acked' <=> Acked)
       /\ (Failed("B")' <=> Failed("B")) /\ TakenB' = TakenB
  BY <1>1, <1>2, <1>12, FrameB
<1>14. state'["A"] = "connected" => cookie["A"] = cookie["B"]
  <2>1. ack_msg.digest = <<"A", cookie["B"]>>
    BY <1>1, MessageFacts
  <2> QED BY <1>7, <1>10, <2>1 DEF is_correct, calculate_digest
<1>15. \A i, x : IsToB(i, x)' <=> IsToB(i, x)
  BY <1>2, FrameMessages
<1>16. ToA'
  BY <1>11 DEF ToA
<1>17. ToB'
  BY <1>1, <1>4, <1>6, <1>8, <1>9, <1>11, <1>13, <1>15 DEF ToB
<1>18. Ends'
  BY <1>1, <1>7, <1>8, <1>9, <1>11, <1>13, <1>14 DEF Ends
<1> QED BY <1>11, <1>13, <1>16, <1>17, <1>18

-----------------------------------------------------------------------------
(***************************************************************************)
(* A connected end queues one more message.                                *)
(***************************************************************************)
LEMMA DataFacts ==
  ASSUME Typed, NEW n \in Node, Connected(n), NEW m \in Message,
         m.kind \in {"data", "tick"}, trigger_write(n, <<m>>),
         UNCHANGED <<state, signals>>
  PROVE  Connected(n)'
<1> DEFINE q == write_queue[n]
<1>1. q \in Seq(Message) /\ <<m>> \in Seq(Message)
  BY DEF Typed
<1>2. write_queue'[n] = q \o <<m>>
  BY <1>1, WriteFacts
<1>3. \A i \in DOMAIN q : q[i].kind \in {"data", "tick"}
  BY DEF Connected
<1> HIDE DEF q
<1>4. Len(q) \in Nat /\ DOMAIN q = 1..Len(q) /\ Len(<<m>>) = 1 /\ <<m>>[1] = m
  BY <1>1, LenProperties
<1> DEFINE r == q \o <<m>>
<1>5. /\ r \in Seq(Message) /\ Len(r) = Len(q) + Len(<<m>>)
      /\ \A i \in 1..Len(r) : r[i] = IF i <= Len(q) THEN q[i] ELSE <<m>>[i - Len(q)]
  BY <1>1, ConcatProperties
<1> HIDE DEF r
<1>6. r # <<>> /\ DOMAIN r = 1..(Len(q) + 1)
  BY <1>4, <1>5, LenProperties, LenZero
<1>7. \A i \in 1..(Len(q) + 1) : r[i].kind \in {"data", "tick"}
  <2> TAKE i \in 1..(Len(q) + 1)
  <2>1. CASE i <= Len(q)
    BY <1>3, <1>4, <1>5, <2>1
  <2>2. CASE ~(i <= Len(q))
    <3>1. i - Len(q) = 1
      BY <1>4, <2>2
    <3> QED BY <1>4, <1>5, <2>2, <3>1
  <2> QED BY <2>1, <2>2
<1>8. write_queue'[n] = r
  BY <1>2 DEF r
<1> QED BY <1>6, <1>7, <1>8 DEF Connected, Signalled

(***************************************************************************)
(* What a connected end does is nothing to the handshake any more.         *)
(***************************************************************************)
LEMMA ConnectedStep ==
  ASSUME IInv, NEW n \in Node, state[n] = "connected", Connected(n)',
         UNCHANGED <<setting, started, state, handshake_msgs, signals, broken>>,
         \A m \in Node \ {n} : /\ write_queue'[m] = write_queue[m]
                               /\ writing'[m] = writing[m]
                               /\ reading'[m] = reading[m]
                               /\ network'[m] = network[m],
         broken /\ network["B"] = <<>> => network'["B"] = <<>>
  PROVE  (EndA /\ EndB /\ ToA /\ ToB /\ Ends)'
<1>1. Typed /\ EndA /\ EndB /\ ToA /\ ToB /\ Ends
  BY DEF IInv
<1>2. /\ broken' = broken /\ cookie' = cookie /\ peer' = peer
      /\ \A i, x : (IsToA(i, x)' <=> IsToA(i, x)) /\ (IsToB(i, x)' <=> IsToB(i, x))
  BY FrameMessages DEF setting
<1>3. CASE n = "A"
  <2>1. SameAt("B") /\ network'["B"] = network["B"]
    BY <1>3 DEF SameAt, Node
  <2>2. /\ EndB' /\ (AwaitsB' <=> AwaitsB) /\ (Acked' <=> Acked)
        /\ (Failed("B")' <=> Failed("B")) /\ TakenB' = TakenB /\ state' = state
    BY <1>1, <2>1, FrameB
  <2>3. EndA'
    BY <1>1, <1>3 DEF EndA, Failed
  <2>4. /\ ~AwaitsA /\ ~AwaitsA' /\ ~Failed("A") /\ ~Failed("A")'
        /\ HandedA = 2 /\ HandedA' = 2
    BY <1>3 DEF AwaitsA, Failed, HandedA
  <2>5. ToA' /\ ToB'
    BY <1>1, <1>2, <2>1, <2>2, <2>4 DEF ToA, ToB
  <2>6. Ends'
    BY <1>1, <1>2, <2>1, <2>2, <2>4 DEF Ends
  <2> QED BY <2>2, <2>3, <2>5, <2>6
<1>4. CASE n = "B"
  <2>1. SameAt("A") /\ network'["A"] = network["A"]
    BY <1>4 DEF SameAt, Node
  <2>2. /\ EndA' /\ (AwaitsA' <=> AwaitsA) /\ (Failed("A")' <=> Failed("A"))
        /\ TakenA' = TakenA /\ HandedA' = HandedA /\ state' = state
    BY <1>1, <2>1, FrameA
  <2>3. EndB'
    BY <1>1, <1>2, <1>4 DEF EndB, Failed
  <2>4. /\ ~AwaitsB /\ ~AwaitsB' /\ ~Failed("B") /\ ~Failed("B")' /\ Acked /\ Acked'
    BY <1>4 DEF AwaitsB, Failed, Acked
  <2>5. ToA' /\ ToB'
    BY <1>1, <1>2, <2>1, <2>2, <2>4 DEF ToA, ToB
  <2>6. Ends'
    <3>1. broken' => network'["B"] = <<>>
      BY <1>1, <1>2, <2>4 DEF Ends
    <3> QED BY <1>1, <1>2, <2>1, <2>2, <2>4, <3>1 DEF Ends
  <2> QED BY <2>2, <2>3, <2>5, <2>6
<1> QED BY <1>3, <1>4 DEF Node

LEMMA SendStep ==
  ASSUME IInv, NEW n \in Node, send_returns(n)
  PROVE  (EndA /\ EndB /\ ToA /\ ToB /\ Ends)'
<1>1. Typed /\ EndA /\ EndB
  BY DEF IInv
<1>2. PICK m \in {Data(Len(sent[n]) + 1)}
                   \cup (IF n = "B" /\ peer = "erlang" THEN {tick} ELSE {}) :
        trigger_write(n, <<m>>)
  BY DEF send_returns, Sends
<1>3. /\ state[n] = "connected"
      /\ UNCHANGED <<setting, started, state, handshake_msgs, signals, broken,
                     reading, network>>
  BY DEF send_returns, lexers, IInv, Access
<1>4. m \in Message /\ m.kind \in {"data", "tick"}
  <2>1. Len(sent[n]) + 1 \in Nat
    BY <1>1, LenProperties DEF Typed
  <2> QED BY <1>1, <2>1, MessageFacts
<1>5. Connected(n)
  BY <1>1, <1>3 DEF EndA, EndB, Failed, Node
<1>6. Connected(n)'
  BY <1>1, <1>2, <1>3, <1>4, <1>5, DataFacts
<1>7. \A l \in Node \ {n} : write_queue'[l] = write_queue[l] /\ writing'[l] = writing[l]
  <2>1. <<m>> \in Seq(Message)
    BY <1>4
  <2> QED BY <1>1, <1>2, <2>1, WriteFacts
<1> QED BY <1>3, <1>6, <1>7, ConnectedStep

LEMMA MsgReceivedStep ==
  ASSUME IInv, NEW n \in Node, NEW k \in Ks(n), msg_received(n, k)
  PROVE  (EndA /\ EndB /\ ToA /\ ToB /\ Ends)'
<1>1. Typed /\ EndA /\ EndB /\ Ends
  BY DEF IInv
<1>2. /\ state[n] = "connected"
      /\ UNCHANGED <<setting, started, state, handshake_msgs, signals, broken, reading>>
      /\ network' = [network EXCEPT ![n] = SubSeq(@, k + 1, Len(@))]
      /\ trigger_write(n, <<tick>>) \/ UNCHANGED writes
  BY DEF msg_received, Answers, Sends
<1>3. Connected(n)
  BY <1>1, <1>2 DEF EndA, EndB, Failed, Node
<1>4. /\ Connected(n)'
      /\ \A l \in Node \ {n} : write_queue'[l] = write_queue[l] /\ writing'[l] = writing[l]
  <2>1. CASE UNCHANGED writes
    BY <1>2, <1>3, <2>1 DEF Connected, Signalled, writes
  <2>2. CASE trigger_write(n, <<tick>>)
    <3>1. tick \in Message /\ tick.kind \in {"data", "tick"} /\ <<tick>> \in Seq(Message)
      BY <1>1, MessageFacts
    <3>2. Connected(n)'
      BY <1>1, <1>2, <1>3, <2>2, <3>1, DataFacts
    <3> QED BY <1>1, <2>2, <3>1, <3>2, WriteFacts
  <2> QED BY <1>2, <2>1, <2>2
<1>5. \A l \in Node \ {n} : network'[l] = network[l]
  BY <1>1, <1>2, NetworkFacts
<1>6. broken /\ network["B"] = <<>> => network'["B"] = <<>>
  <2>1. n = "B" => network["B"] # <<>>
    <3>1. Len(network[n]) \in Nat /\ k \in Nat /\ 1 <= k /\ k <= Len(network[n])
      BY <1>1, LexerFacts
    <3> QED BY <3>1
  <2>2. n # "B" => network'["B"] = network["B"]
    BY <1>5 DEF Node
  <2> QED BY <2>1, <2>2
<1> QED BY <1>2, <1>4, <1>5, <1>6, ConnectedStep

-----------------------------------------------------------------------------
(***************************************************************************)
(* The connection is lost with what was on its way, and an end that meets  *)
(* the error in the handshake fails.                                       *)
(***************************************************************************)
LEMMA ConnectionLostStep ==
  ASSUME IInv, connection_lost
  PROVE  (EndA /\ EndB /\ ToA /\ ToB /\ Ends)'
<1>1. Typed /\ EndA /\ EndB /\ ToA /\ ToB /\ Ends
  BY DEF IInv
<1>2. /\ broken' = TRUE /\ network' = [n \in Node |-> <<>>] /\ "A" \in Node /\ "B" \in Node
      /\ UNCHANGED <<setting, started, state, write_queue, writing, reading,
                     handshake_msgs, signals>>
  BY DEF connection_lost, writes, lexers, Node
<1>3. SameAt("A") /\ SameAt("B") /\ cookie' = cookie
  BY <1>2 DEF SameAt, setting
<1>4. /\ EndA' /\ (AwaitsA' <=> AwaitsA) /\ (Failed("A")' <=> Failed("A"))
      /\ TakenA' = TakenA /\ HandedA' = HandedA /\ state' = state
  BY <1>1, <1>2, <1>3, FrameA
<1>5. /\ EndB' /\ (AwaitsB' <=> AwaitsB) /\ (Acked' <=> Acked)
      /\ (Failed("B")' <=> Failed("B")) /\ TakenB' = TakenB
  BY <1>1, <1>2, <1>3, FrameB
<1>6. network'["A"] = <<>> /\ network'["B"] = <<>>
  BY <1>2
<1>7. Len(network'["A"]) = 0 /\ Len(network'["B"]) = 0
  BY <1>6
<1>8. TakenA \in {0, 1, 2} /\ ~(TakenA + 0 >= 3)
  BY DEF TakenA
<1>9. ToA' /\ ToB'
  <2>1. \A i \in 1..0 : FALSE
    OBVIOUS
  <2> QED BY <1>2, <1>4, <1>7, <1>8, <2>1 DEF ToA, ToB
<1>10. Ends'
  BY <1>1, <1>2, <1>3, <1>4, <1>5, <1>6 DEF Ends, setting
<1> QED BY <1>4, <1>5, <1>9, <1>10

LEMMA FailStep ==
  ASSUME IInv, NEW n \in Node, broken, Failed(n)',
         n = "A" => started, n = "B" => ~Acked,
         UNCHANGED <<setting, started, network, handshake_msgs, broken>>,
         \A m \in Node \ {n} : /\ write_queue'[m] = write_queue[m]
                               /\ writing'[m] = writing[m]
                               /\ reading'[m] = reading[m]
                               /\ state'[m] = state[m]
                               /\ signals'[m] = signals[m]
  PROVE  (EndA /\ EndB /\ ToA /\ ToB /\ Ends)'
<1>1. Typed /\ EndA /\ EndB /\ ToA /\ ToB /\ Ends
  BY DEF IInv
<1>2. /\ broken' /\ cookie' = cookie /\ peer' = peer
      /\ \A i, x : (IsToA(i, x)' <=> IsToA(i, x)) /\ (IsToB(i, x)' <=> IsToB(i, x))
  BY FrameMessages DEF setting
<1>3. CASE n = "A"
  <2>1. SameAt("B")
    BY <1>3 DEF SameAt, Node
  <2>2. /\ EndB' /\ (AwaitsB' <=> AwaitsB) /\ (Acked' <=> Acked)
        /\ (Failed("B")' <=> Failed("B")) /\ TakenB' = TakenB
    BY <1>1, <2>1, FrameB
  <2>3. EndA' /\ ~AwaitsA' /\ state'["A"] = "connected_tcp"
    BY <1>3 DEF EndA, AwaitsA, Failed
  <2>4. ToA' /\ ToB'
    BY <1>1, <1>2, <2>2, <2>3 DEF ToA, ToB
  <2>5. Ends'
    BY <1>1, <1>2, <1>3, <2>2, <2>3 DEF Ends
  <2> QED BY <2>2, <2>3, <2>4, <2>5
<1>4. CASE n = "B"
  <2>1. SameAt("A")
    BY <1>4 DEF SameAt, Node
  <2>2. /\ EndA' /\ (AwaitsA' <=> AwaitsA) /\ (Failed("A")' <=> Failed("A"))
        /\ TakenA' = TakenA /\ HandedA' = HandedA /\ state'["A"] = state["A"]
    BY <1>1, <2>1, FrameA
  <2>3. EndB' /\ ~AwaitsB'
    BY <1>4 DEF EndB, AwaitsB
  <2>4. ~Acked /\ ~Acked'
    BY <1>4 DEF Acked, Failed
  <2>5. ToA' /\ ToB'
    BY <1>1, <1>2, <2>2, <2>3, <2>4 DEF ToA, ToB
  <2>6. Ends'
    BY <1>1, <1>2, <1>4, <2>2, <2>3, <2>4 DEF Ends
  <2> QED BY <2>2, <2>3, <2>5, <2>6
<1> QED BY <1>3, <1>4 DEF Node

(***************************************************************************)
(* What an end is doing when one of its operations fails.                  *)
(***************************************************************************)
LEMMA ErrorFacts ==
  ASSUME IInv, NEW n \in Node, state[n] # "connected",
         reading[n] \/ writing[n] = "started"
  PROVE  /\ Silent(n) /\ (n = "A" => started) /\ (n = "B" => ~Acked)
         /\ reading[n] => writing[n] = "none"
         /\ writing[n] = "started" => ~reading[n]
<1>1. EndA /\ EndB
  BY DEF IInv
<1>2. CASE n = "A"
  BY <1>1, <1>2 DEF EndA, Failed, Connected, Reading, Quiet, Busy, Writes
<1>3. CASE n = "B"
  BY <1>1, <1>3 DEF EndB, Failed, Connected, Reading, Quiet, Busy, Writes, Acked
<1> QED BY <1>2, <1>3 DEF Node

LEMMA IoErrorStep ==
  ASSUME IInv, NEW n \in Node, read_error(n) \/ write_error(n)
  PROVE  (EndA /\ EndB /\ ToA /\ ToB /\ Ends)'
<1>1. Typed /\ EndA /\ EndB
  BY DEF IInv
<1>2. /\ broken /\ handle_io_error(n)
      /\ UNCHANGED <<setting, started, write_queue, network, handshake_msgs, broken>>
      /\ \/ reading[n] /\ StopsReading(n) /\ writing' = writing
         \/ /\ writing[n] = "started" /\ writing' = Set(writing, n, "none")
            /\ reading' = reading
  BY DEF read_error, write_error, writes, lexers
<1>3. /\ \A m \in Node \ {n} : writing'[m] = writing[m] /\ reading'[m] = reading[m]
      /\ \/ reading[n] /\ ~reading'[n] /\ writing'[n] = writing[n]
         \/ writing[n] = "started" /\ writing'[n] = "none" /\ reading'[n] = reading[n]
  BY <1>1, <1>2 DEF StopsReading, Set, Typed
<1>4. CASE state[n] = "connected" /\ UNCHANGED <<state, signals>>
  <2>1. Connected(n)
    BY <1>1, <1>4 DEF EndA, EndB, Failed, Node
  <2>2. Connected(n)'
    BY <1>2, <1>3, <1>4, <2>1 DEF Connected, Signalled
  <2> QED BY <1>2, <1>3, <1>4, <2>2, ConnectedStep
<1>5. CASE state[n] # "connected" /\ report_failure(n)
  <2>1. /\ Silent(n) /\ (n = "A" => started) /\ (n = "B" => ~Acked)
        /\ reading[n] => writing[n] = "none"
        /\ writing[n] = "started" => ~reading[n]
    BY <1>2, <1>5, ErrorFacts
  <2>2. Signal(n, FALSE) /\ state' = Set(state, n, "connected_tcp")
    BY <1>5 DEF report_failure
  <2>3. /\ Len(signals'[n]) = Len(signals[n]) + 1
        /\ \A m \in Node \ {n} : signals'[m] = signals[m]
    BY <1>1, <2>2, SignalFacts
  <2>4. state'[n] = "connected_tcp" /\ \A m \in Node \ {n} : state'[m] = state[m]
    BY <1>1, <2>2 DEF Set, Typed
  <2>5. Len(signals'[n]) = 1
    BY <2>1, <2>3 DEF Silent
  <2>6. Failed(n)'
    BY <1>3, <2>1, <2>4, <2>5 DEF Failed, Signalled
  <2> QED BY <1>2, <1>3, <2>1, <2>3, <2>4, <2>6, FailStep
<1> QED BY <1>2, <1>4, <1>5 DEF handle_io_error

-----------------------------------------------------------------------------
LEMMA IInvInitially ==
  ASSUME Init
  PROVE  IInv
<1>1. Typed
  <2>1. /\ [n \in Node |-> <<>>] \in [Node -> Seq(Message)]
        /\ [n \in Node |-> <<>>] \in [Node -> Seq(BOOLEAN)]
    OBVIOUS
  <2>2. [n \in Node |-> n = "B"] \in [Node -> BOOLEAN]
    OBVIOUS
  <2>3. /\ state \in [Node -> HandshakeStates \cup {"connected"}]
        /\ writing \in [Node -> {"none", "started", "done"}]
    BY DEF Init, HandshakeStates
  <2>4. reading \in [Node -> BOOLEAN]
    BY <2>2, Zenon DEF Init
  <2> QED BY <2>1, <2>3, <2>4 DEF Init, Typed
<1>2. \A f : f = [n \in Node |-> <<>>] => f["A"] = <<>> /\ f["B"] = <<>>
  BY DEF Node
<1>3. /\ state["A"] = "connected_tcp" /\ state["B"] = "connected_tcp"
      /\ writing["A"] = "none" /\ writing["B"] = "none"
      /\ ~reading["A"] /\ reading["B"] /\ ~started /\ ~broken
  BY DEF Init, Node
<1>4. /\ write_queue["A"] = <<>> /\ write_queue["B"] = <<>>
      /\ network["A"] = <<>> /\ network["B"] = <<>>
      /\ handshake_msgs["A"] = <<>> /\ handshake_msgs["B"] = <<>>
      /\ signals["A"] = <<>> /\ signals["B"] = <<>>
  BY <1>2 DEF Init
<1>5. Silent("A") /\ Silent("B") /\ Len(network["A"]) = 0 /\ Len(network["B"]) = 0
  BY <1>4 DEF Silent
<1>6. EndA /\ EndB
  BY <1>3, <1>4, <1>5 DEF EndA, EndB, Reading, Quiet
<1>7. /\ ~Failed("A") /\ ~Failed("B") /\ AwaitsA /\ AwaitsB /\ ~Acked
      /\ HandedA = 0 /\ HandedB = 0 /\ TakenA = 0 /\ TakenB = 0
  BY <1>3, <1>5 DEF Failed, AwaitsA, AwaitsB, Acked, HandedA, HandedB, TakenA,
     TakenB, Past, Signalled, Silent
<1>8. ToA /\ ToB
  <2>1. \A i \in 1..0 : FALSE
    OBVIOUS
  <2> QED BY <1>5, <1>7, <2>1 DEF ToA, ToB
<1>9. Ends
  BY <1>3, <1>7 DEF Ends
<1>10. Access
  BY DEF Init, Access
<1> QED BY <1>1, <1>6, <1>8, <1>9, <1>10 DEF IInv

LEMMA IInvStep ==
  ASSUME IInv, [Next]_vars
  PROVE  IInv'
<1>1. Typed /\ EndA /\ EndB /\ ToA /\ ToB /\ Ends
  BY DEF IInv
<1>2. Typed'
  BY <1>1, TypedStep
<1> SUFFICES (EndA /\ EndB /\ ToA /\ ToB /\ Ends)'
  BY <1>2, AccessStep DEF IInv
<1>3. CASE initiate_handshake
  BY <1>3, InitiateStep
<1>4. ASSUME NEW n \in Node, transmitted(n)
      PROVE  (EndA /\ EndB /\ ToA /\ ToB /\ Ends)'
  BY <1>4, TransmittedAStep, TransmittedBStep DEF Node
<1>5. ASSUME NEW n \in Node, checked_write(n)
      PROVE  (EndA /\ EndB /\ ToA /\ ToB /\ Ends)'
  BY <1>5, CheckedWriteAStep, CheckedWriteBStep DEF Node
<1>6. ASSUME NEW k \in Ks("B"), name_read(k) \/ reply_received(k)
      PROVE  (EndA /\ EndB /\ ToA /\ ToB /\ Ends)'
  BY <1>6, NameReadStep, ReplyReceivedStep
<1>7. ASSUME NEW k \in Ks("A"), status_read(k) \/ challenge_read(k)
      PROVE  (EndA /\ EndB /\ ToA /\ ToB /\ Ends)'
  BY <1>7, StatusReadStep, ChallengeReadStep
<1>8. ASSUME NEW k \in Ks("A"), challenge_ack_read(k)
      PROVE  (EndA /\ EndB /\ ToA /\ ToB /\ Ends)'
  BY <1>8, ChallengeAckReadStep
<1>9. ASSUME NEW n \in Node, NEW k \in Ks(n), msg_received(n, k)
      PROVE  (EndA /\ EndB /\ ToA /\ ToB /\ Ends)'
  BY <1>9, MsgReceivedStep
<1>10. ASSUME NEW n \in Node, send_returns(n)
       PROVE  (EndA /\ EndB /\ ToA /\ ToB /\ Ends)'
  BY <1>10, SendStep
<1>11. CASE connection_lost
  BY <1>11, ConnectionLostStep
<1>12. ASSUME NEW n \in Node, read_error(n) \/ write_error(n)
       PROVE  (EndA /\ EndB /\ ToA /\ ToB /\ Ends)'
  BY <1>12, IoErrorStep
<1>13. CASE UNCHANGED vars \/ \E n \in Node : send(n)
  <2>1. /\ UNCHANGED <<setting, started, state, write_queue, writing, reading,
                       handshake_msgs, signals, network, broken>>
        /\ UNCHANGED cookie
    BY <1>13 DEF vars, send, writes, lexers, setting
  <2>2. SameAt("A") /\ SameAt("B")
    BY <2>1 DEF SameAt
  <2>3. /\ EndA' /\ (AwaitsA' <=> AwaitsA) /\ (Failed("A")' <=> Failed("A"))
        /\ TakenA' = TakenA /\ HandedA' = HandedA
    BY <1>1, <2>1, <2>2, FrameA
  <2>4. /\ EndB' /\ (AwaitsB' <=> AwaitsB) /\ (Acked' <=> Acked)
        /\ (Failed("B")' <=> Failed("B")) /\ TakenB' = TakenB /\ HandedB' = HandedB
    BY <1>1, <2>1, <2>2, FrameB
  <2>5. \A i, x : (IsToA(i, x)' <=> IsToA(i, x)) /\ (IsToB(i, x)' <=> IsToB(i, x))
    BY <2>1, FrameMessages
  <2>6. ToA' /\ ToB'
    BY <1>1, <2>1, <2>3, <2>4, <2>5 DEF ToA, ToB
  <2>7. Ends'
    BY <1>1, <2>1, <2>3, <2>4 DEF Ends, setting
  <2> QED BY <2>3, <2>4, <2>6, <2>7
<1>14. CASE Next
  BY <1>3, <1>4, <1>5, <1>6, <1>7, <1>8, <1>9, <1>10, <1>11, <1>12, <1>13, <1>14
     DEF Next
<1> QED BY <1>13, <1>14

LEMMA IInvAlways == Spec => []IInv
<1>1. Init => IInv
  BY IInvInitially
<1>2. IInv /\ [Next]_vars => IInv'
  BY IInvStep
<1> QED BY <1>1, <1>2, PTL DEF Spec

(***************************************************************************)
(* The types of the two ends' state, and the kinds of the messages in the  *)
(* queues, the network and the lexers.                                     *)
(***************************************************************************)
THEOREM TypeCorrect == Spec => []TypeOK
<1>1. IInv => TypeOK
  <2> HAVE IInv
  <2>1. Typed
    BY DEF IInv
  <2>2. \A m \in Message : m.kind \in {"name", "status", "challenge", "reply",
                                       "ack", "data", "tick", "garbled"}
    BY DEF Message
  <2>3. \A q \in Seq(Message) : \A i \in DOMAIN q : q[i] \in Message
    OBVIOUS
  <2>4. \A n \in Node : {write_queue[n], network[n], handshake_msgs[n],
                         connected_msgs[n]} \subseteq Seq(Message)
    BY <2>1 DEF Typed
  <2>5. sending \in [Node -> Nat] /\ raced \in [Node -> BOOLEAN]
    BY DEF IInv, Access
  <2> QED BY <2>1, <2>2, <2>3, <2>4, <2>5 DEF TypeOK, Typed
<1> QED BY <1>1, IInvAlways, PTL

(***************************************************************************)
(* However the steps of the two ends and of the network interleave, and    *)
(* wherever the connection is lost, an end that checks the digest it gets  *)
(* is connected only when the cookies of the two nodes are the same        *)
(* (node_connection_state.cpp: waiting_for_challenge_reply,                *)
(* receiving_challenge_ack).                                               *)
(***************************************************************************)
THEOREM TrustAlways == Spec => []Trust
<1>1. IInv => Trust
  BY DEF IInv, Ends, Trust, AwaitsB, Failed
<1> QED BY <1>1, IInvAlways, PTL

(***************************************************************************)
(* The caller takes the connection for established only when the other end *)
(* has acknowledged: that end is connected, or has only the callback of    *)
(* the acknowledgement's write to run (sending_challenge_ack).             *)
(***************************************************************************)
THEOREM AgreementAlways == Spec => []Agreement
<1>1. IInv => Agreement
  BY DEF IInv, Ends, Agreement, AwaitsA, Failed, Acked
<1> QED BY <1>1, IInvAlways, PTL

(***************************************************************************)
(* Neither end signals the outcome of its handshake twice: an end that has *)
(* reported a failure has no operation outstanding whose callback could    *)
(* report again (connection_state::handle_io_error, report_failure).       *)
(***************************************************************************)
THEOREM SignalledOnceAlways == Spec => []SignalledOnce
<1>1. IInv => SignalledOnce
  <2>1. ASSUME IInv PROVE Len(signals["A"]) <= 1 /\ Len(signals["B"]) <= 1
    <3>1. EndA /\ EndB
      BY <2>1 DEF IInv
    <3>2. Silent("A") \/ Signalled("A")
      BY <3>1 DEF EndA, Connected, Failed
    <3>3. Silent("B") \/ Signalled("B")
      BY <3>1 DEF EndB, Connected, Failed
    <3> QED BY <3>2, <3>3 DEF Silent, Signalled
  <2> QED BY <2>1 DEF SignalledOnce, Node
<1> QED BY <1>1, IInvAlways, PTL

-----------------------------------------------------------------------------
(***************************************************************************)
(* From the caller to the called.  What A has sent is what B has handled,  *)
(* what B's lexer holds, what is on its way and what is still to be        *)
(* written, in this order; once the connection is lost, the end of it is   *)
(* missing.  Before A is connected it has sent nothing, and once B has     *)
(* read the last message of the handshake nothing of it is left on the     *)
(* way, so that B takes none for data.                                     *)
(***************************************************************************)
Unwritten ==
  IF writing["A"] = "done" THEN Tail(write_queue["A"]) ELSE write_queue["A"]

Arrived == dispatched["B"] \o connected_msgs["B"]

NothingYet ==
  state["A"] # "connected" =>
    /\ sent["A"] = <<>> /\ Arrived = <<>>
    /\ state["B"] \in {"sending_challenge_ack", "connected"} =>
         network["B"] = <<>>

NothingRead == state["B"] # "connected" => Arrived = <<>>

Carried ==
  state["A"] = "connected" =>
    \E rest \in Seq(Message) :
      /\ sent["A"] = Arrived \o rest
      /\ ~broken => rest = network["B"] \o Unwritten

Flow == NothingYet /\ NothingRead /\ Carried

(***************************************************************************)
(* The lists of Flow: a message goes from the queue to the network, a read *)
(* takes the first k and the first of them is handled, and a message is    *)
(* added at the end.                                                       *)
(***************************************************************************)
LEMMA FirstAndRest ==
  ASSUME NEW S, NEW q \in Seq(S), q # <<>>
  PROVE  Head(q) \in S /\ Tail(q) \in Seq(S) /\ q = <<Head(q)>> \o Tail(q)
<1>1. /\ Head(q) \in S /\ Head(q) = q[1] /\ Tail(q) \in Seq(S)
      /\ Tail(q) = SubSeq(q, 2, Len(q)) /\ Len(q) \in Nat \ {0}
  BY HeadTailProperties, TailIsSubSeq, EmptySeq
<1>2. 1 \in 1..Len(q) /\ Len(q) \in 1..Len(q)
  BY <1>1
<1>3. SubSeq(q, 1, Len(q)) = <<q[1]>> \o SubSeq(q, 1 + 1, Len(q))
  BY <1>2, SubSeqRecursiveFirst
<1>4. SubSeq(q, 1, Len(q)) = q
  BY SubSeqFull
<1> QED BY <1>1, <1>3, <1>4

LEMMA HandedOver ==
  ASSUME NEW S, NEW s \in Seq(S), NEW q \in Seq(S), q # <<>>
  PROVE  s \o q = Append(s, Head(q)) \o Tail(q)
<1> DEFINE h == Head(q)
           t == Tail(q)
<1>1. h \in S /\ t \in Seq(S) /\ q = <<h>> \o t
  BY FirstAndRest
<1> HIDE DEF h, t
<1>2. <<h>> \in Seq(S)
  BY <1>1
<1>3. (s \o <<h>>) \o t = s \o (<<h>> \o t)
  BY <1>1, <1>2, ConcatAssociative
<1>4. Append(s, h) = s \o <<h>>
  BY <1>1, AppendIsConcat
<1> QED BY <1>1, <1>3, <1>4 DEF h, t

\* Opaque to the provers, which otherwise rewrite the lists of a lemma.
Joined(s, t)  == s \o t
Added(s, m)   == Append(s, m)
Read(c, s, k) == c \o SubSeq(s, 1, k)
Rest(s, k)    == SubSeq(s, k + 1, Len(s))
Moved(d, r)   == Append(d, Head(r)) \o Tail(r)

LEMMA JoinedFacts ==
  ASSUME NEW S, NEW s \in Seq(S), NEW t \in Seq(S), NEW u \in Seq(S)
  PROVE  /\ Joined(s, t) \in Seq(S)
         /\ Joined(Joined(s, t), u) = Joined(s, Joined(t, u))
<1>1. s \o t \in Seq(S)
  BY ConcatProperties
<1>2. (s \o t) \o u = s \o (t \o u)
  BY ConcatAssociative, SMTT(40)
<1> QED BY <1>1, <1>2 DEF Joined

LEMMA AddedFacts ==
  ASSUME NEW S, NEW s \in Seq(S), NEW t \in Seq(S), NEW m \in S
  PROVE  /\ Added(t, m) \in Seq(S)
         /\ Added(Joined(s, t), m) = Joined(s, Added(t, m))
<1>1. <<m>> \in Seq(S) /\ s \o t \in Seq(S)
  BY ConcatProperties
<1>2. Append(s \o t, m) = (s \o t) \o <<m>> /\ Append(t, m) = t \o <<m>>
  BY <1>1, AppendIsConcat
<1>3. (s \o t) \o <<m>> = s \o (t \o <<m>>)
  BY <1>1, ConcatAssociative
<1>4. Append(t, m) \in Seq(S)
  BY AppendProperties
<1> QED BY <1>2, <1>3, <1>4 DEF Added, Joined

LEMMA PassedOn ==
  ASSUME NEW S, NEW d \in Seq(S), NEW c \in Seq(S), NEW s \in Seq(S), NEW u \in Seq(S),
         NEW k \in 1..Len(s)
  PROVE  /\ Joined(Rest(s, k), u) \in Seq(S)
         /\ Joined(Joined(d, c), Joined(s, u)) =
              Joined(Moved(d, Read(c, s, k)), Joined(Rest(s, k), u))
<1> DEFINE a == SubSeq(s, 1, k)
           b == Rest(s, k)
           r == Read(c, s, k)
<1>1. r \in Seq(S) /\ Len(r) = Len(c) + k
  BY ReadFacts DEF Read
<1>2. b \in Seq(S)
  BY RestFacts DEF Rest
<1>3. Len(s) \in Nat /\ Len(c) \in Nat /\ k \in Nat /\ k >= 1 /\ k <= Len(s)
  BY LenProperties
<1>4. a \in Seq(S)
  <2>1. \A i \in 1..k : s[i] \in S
    BY <1>3, ElementOfSeq
  <2> QED BY <1>3, <2>1, SubSeqProperties
<1>5. s = Joined(a, b)
  <2>1. 1 \in 1..(Len(s) + 1) /\ k \in (1 - 1)..Len(s) /\ Len(s) \in k..Len(s)
    BY <1>3
  <2>2. SubSeq(s, 1, k) \o SubSeq(s, k + 1, Len(s)) = SubSeq(s, 1, Len(s))
    BY <2>1, ConcatAdjacentSubSeq
  <2> QED BY <2>2, SubSeqFull DEF Joined, Rest
<1>6. r = Joined(c, a)
  BY DEF Read, Joined
<1>7. Moved(d, r) = Joined(d, r)
  <2> HIDE DEF r
  <2>1. r # <<>>
    BY <1>1, <1>3, EmptySeq
  <2>2. d \o r = Append(d, Head(r)) \o Tail(r)
    BY <1>1, <2>1, HandedOver
  <2> QED BY <2>2 DEF Moved, Joined
<1> HIDE DEF a, b, r
<1>8. Joined(Joined(d, c), Joined(s, u)) = Joined(Joined(d, c), Joined(a, Joined(b, u)))
  BY <1>2, <1>4, <1>5, JoinedFacts
<1>9. Joined(Joined(d, c), Joined(a, Joined(b, u))) = Joined(Joined(Joined(d, c), a), Joined(b, u))
  <2>1. Joined(d, c) \in Seq(S) /\ Joined(b, u) \in Seq(S)
    BY <1>2, JoinedFacts
  <2> QED BY <1>4, <2>1, JoinedFacts
<1>10. Joined(Joined(d, c), a) = Joined(d, r)
  BY <1>4, <1>6, JoinedFacts
<1>11. Joined(b, u) \in Seq(S)
  BY <1>2, JoinedFacts
<1>12. /\ Joined(b, u) \in Seq(S)
       /\ Joined(Joined(d, c), Joined(s, u)) = Joined(Moved(d, r), Joined(b, u))
  BY <1>7, <1>8, <1>9, <1>10, <1>11
<1> QED BY <1>12 DEF b, r

LEMMA AddedLast ==
  ASSUME NEW S, NEW s \in Seq(S), NEW t \in Seq(S), NEW m \in S
  PROVE  /\ Append(s \o t, m) = s \o Append(t, m)
         /\ Append(t, m) \in Seq(S) /\ Append(t, m) = t \o <<m>>
         /\ t # <<>> => Tail(t \o <<m>>) = Append(Tail(t), m)
<1>1. <<m>> \in Seq(S) /\ s \o t \in Seq(S)
  BY ConcatProperties
<1>2. Append(s \o t, m) = (s \o t) \o <<m>> /\ Append(t, m) = t \o <<m>>
  BY <1>1, AppendIsConcat
<1>3. (s \o t) \o <<m>> = s \o (t \o <<m>>)
  BY <1>1, ConcatAssociative
<1>4. Append(t, m) \in Seq(S)
  BY AppendProperties
<1>5. Tail(Append(t, m)) = IF t = <<>> THEN <<>> ELSE Append(Tail(t), m)
  BY HeadTailAppend
<1> QED BY <1>2, <1>3, <1>4, <1>5

LEMMA BeginsWith ==
  ASSUME NEW S, NEW s \in Seq(S), NEW r \in Seq(S), NEW d \in Seq(S), NEW c \in Seq(S),
         s = (d \o c) \o r
  PROVE  IsPrefix(d, s)
<1> DEFINE t == c \o r
<1>1. t \in Seq(S) /\ s = d \o t
  <2>1. /\ Joined(c, r) \in Seq(S)
        /\ Joined(Joined(d, c), r) = Joined(d, Joined(c, r))
    BY JoinedFacts
  <2> QED BY <2>1 DEF Joined
<1> HIDE DEF t
<1>2. Len(d) \in Nat /\ Len(t) \in Nat /\ Len(s) = Len(d) + Len(t)
  BY <1>1, ConcatProperties, LenProperties
<1>3. SubSeq(d, 1, Len(d)) = SubSeq(d \o t, 1, Len(d))
  <2>1. CASE Len(d) = 0
    <3>1. SubSeq(d, 1, 0) = <<>> /\ SubSeq(d \o t, 1, 0) = <<>>
      BY SubSeqEmpty
    <3> QED BY <2>1, <3>1
  <2>2. CASE Len(d) # 0
    <3>1. 1 \in 1..Len(d) /\ Len(d) \in 1..Len(d)
      BY <1>2, <2>2
    <3> QED BY <1>1, <3>1, SubSeqOfConcat1
  <2> QED BY <2>1, <2>2
<1> QED BY <1>1, <1>2, <1>3 DEF IsPrefix

-----------------------------------------------------------------------------
(***************************************************************************)
(* A step that handles and sends nothing keeps the flow when it keeps what *)
(* is under way between two connected ends.                                *)
(***************************************************************************)
LEMMA FlowKept ==
  ASSUME Flow,
         sent'["A"] = sent["A"], dispatched'["B"] = dispatched["B"],
         connected_msgs'["B"] = connected_msgs["B"],
         state["A"] = "connected" <=> state'["A"] = "connected",
         state["B"] = "connected" => state'["B"] = "connected",
         state["A"] # "connected" /\ state'["B"] \in {"sending_challenge_ack", "connected"}
           => network'["B"] = <<>>,
         state["A"] = "connected" =>
           broken' \/ (~broken /\ network'["B"] \o Unwritten' = network["B"] \o Unwritten)
  PROVE  Flow'
<1>1. Arrived' = Arrived
  BY DEF Arrived
<1>2. NothingYet'
  BY <1>1 DEF Flow, NothingYet
<1>3. NothingRead'
  BY <1>1 DEF Flow, NothingRead
<1>4. Carried'
  <2> SUFFICES ASSUME state'["A"] = "connected"
               PROVE  \E rest \in Seq(Message) :
                        /\ sent'["A"] = Arrived' \o rest
                        /\ ~broken' => rest = network'["B"] \o Unwritten'
    BY DEF Carried
  <2>1. PICK rest \in Seq(Message) :
               /\ sent["A"] = Arrived \o rest
               /\ ~broken => rest = network["B"] \o Unwritten
    BY DEF Flow, Carried
  <2>2. sent'["A"] = Arrived' \o rest
    BY <1>1, <2>1
  <2>3. ~broken' => rest = network'["B"] \o Unwritten'
    BY <2>1
  <2> QED BY <2>2, <2>3
<1> QED BY <1>2, <1>3, <1>4 DEF Flow

(***************************************************************************)
(* When A is connected, B has read the whole handshake, and has not failed *)
(* (Agreement).                                                            *)
(***************************************************************************)
LEMMA CallerConnected ==
  ASSUME IInv, state["A"] = "connected"
  PROVE  /\ state["B"] \in {"sending_challenge_ack", "connected"}
         /\ broken => network["B"] = <<>>
         /\ Connected("A")
<1>1. Acked
  BY DEF IInv, Ends, AwaitsA, Failed
<1>2. ~Failed("B")
  BY <1>1 DEF Acked, Failed
<1>3. Connected("A")
  BY DEF IInv, EndA, Failed
<1> QED BY <1>1, <1>2, <1>3 DEF IInv, Ends, Acked

LEMMA UnwrittenTyped ==
  ASSUME IInv
  PROVE  Unwritten \in Seq(Message) /\ Arrived \in Seq(Message)
         /\ network["B"] \in Seq(Message) /\ write_queue["A"] \in Seq(Message)
         /\ sent["A"] \in Seq(Message)
<1>1. Typed /\ EndA /\ EndB
  BY DEF IInv
<1>2. /\ write_queue["A"] \in Seq(Message) /\ network["B"] \in Seq(Message)
      /\ dispatched["B"] \in Seq(Message) /\ connected_msgs["B"] \in Seq(Message)
      /\ sent["A"] \in Seq(Message)
  BY <1>1 DEF Typed, Node
<1>3. Arrived \in Seq(Message)
  BY <1>2, ConcatProperties DEF Arrived
<1>4. writing["A"] # "none" => Tail(write_queue["A"]) \in Seq(Message)
  BY <1>1, QueueFacts DEF Node
<1> QED BY <1>2, <1>3, <1>4 DEF Unwritten

(***************************************************************************)
(* A connected A sends a message.                                          *)
(***************************************************************************)
LEMMA SendsFlow ==
  ASSUME IInv, Flow, state["A"] = "connected", NEW m \in Message, Sends("A", m),
         state' = state, broken' = broken, network'["B"] = network["B"],
         dispatched'["B"] = dispatched["B"], connected_msgs'["B"] = connected_msgs["B"]
  PROVE  Flow'
<1>1. /\ Unwritten \in Seq(Message) /\ Arrived \in Seq(Message)
      /\ network["B"] \in Seq(Message) /\ write_queue["A"] \in Seq(Message)
      /\ sent["A"] \in Seq(Message)
  BY UnwrittenTyped
<1>2. Typed /\ EndA /\ EndB
  BY DEF IInv
<1>3. Arrived' = Arrived
  BY DEF Arrived
<1>4. Unwritten' = Append(Unwritten, m)
  <2>1. <<m>> \in Seq(Message) /\ "A" \in Node
    BY DEF Node
  <2>2. /\ write_queue'["A"] = write_queue["A"] \o <<m>>
        /\ writing'["A"] = IF write_queue["A"] = <<>> THEN "started" ELSE writing["A"]
    BY <1>2, <2>1, WriteFacts DEF Sends
  <2>3. writing["A"] # "none" => write_queue["A"] # <<>>
    BY CallerConnected DEF Connected
  <2>4. /\ Append(write_queue["A"], m) = write_queue["A"] \o <<m>>
        /\ write_queue["A"] # <<>> =>
             Tail(write_queue["A"] \o <<m>>) = Append(Tail(write_queue["A"]), m)
    <3> DEFINE q == write_queue["A"]
    <3>1. q \in Seq(Message)
      BY <1>1
    <3> HIDE DEF q
    <3>2. Append(q, m) = q \o <<m>> /\ (q # <<>> => Tail(q \o <<m>>) = Append(Tail(q), m))
      BY <3>1, AddedLast
    <3> QED BY <3>2 DEF q
  <2> QED BY <2>2, <2>3, <2>4 DEF Unwritten
<1>5. sent'["A"] = Append(sent["A"], m)
  BY <1>2 DEF Sends, Typed, Node
<1>6. PICK rest \in Seq(Message) :
             /\ sent["A"] = Arrived \o rest
             /\ ~broken => rest = network["B"] \o Unwritten
  BY DEF Flow, Carried
<1>7. /\ Append(rest, m) \in Seq(Message)
      /\ sent'["A"] = Arrived \o Append(rest, m)
  <2> DEFINE a == Arrived
  <2>1. a \in Seq(Message) /\ sent'["A"] = Append(a \o rest, m)
    BY <1>1, <1>5, <1>6
  <2> HIDE DEF a
  <2>2. /\ Added(rest, m) \in Seq(Message)
        /\ Added(Joined(a, rest), m) = Joined(a, Added(rest, m))
    BY <2>1, AddedFacts
  <2> QED BY <2>1, <2>2 DEF Added, Joined, a
<1>8. ~broken' => Append(rest, m) = network'["B"] \o Unwritten'
  <2> DEFINE n == network["B"]
             u == Unwritten
  <2>1. n \in Seq(Message) /\ u \in Seq(Message)
    BY <1>1
  <2>2. ~broken' => rest = n \o u /\ network'["B"] \o Unwritten' = n \o Append(u, m)
    BY <1>4, <1>6
  <2> HIDE DEF n, u
  <2>3. Append(n \o u, m) = n \o Append(u, m)
    <3>1. Added(Joined(n, u), m) = Joined(n, Added(u, m))
      BY <2>1, AddedFacts
    <3> QED BY <3>1 DEF Added, Joined
  <2> QED BY <2>2, <2>3
<1>9. Carried'
  BY <1>3, <1>7, <1>8 DEF Carried
<1> QED BY <1>3, <1>9 DEF Flow, NothingYet, NothingRead

(***************************************************************************)
(* B reads and handles the oldest message.                                 *)
(***************************************************************************)
LEMMA HandlesFlow ==
  ASSUME IInv, Flow, NEW k \in Ks("B"), msg_received("B", k)
  PROVE  Flow'
<1>1. /\ Unwritten \in Seq(Message) /\ Arrived \in Seq(Message)
      /\ network["B"] \in Seq(Message) /\ sent["A"] \in Seq(Message)
  BY UnwrittenTyped
<1>2. Typed /\ k \in 1..Len(network["B"]) /\ network["B"] # <<>>
  BY LexerFacts DEF IInv, Ks, Node
<1>3. state["A"] = "connected" /\ ~broken /\ state["B"] = "connected"
  BY <1>2, CallerConnected DEF Flow, NothingYet, msg_received
<1> DEFINE d == dispatched["B"]
           c == connected_msgs["B"]
           s == network["B"]
           r == c \o SubSeq(s, 1, k)
<1>4. d \in Seq(Message) /\ c \in Seq(Message)
  BY <1>2 DEF Typed, Node
<1>5. /\ dispatched'["B"] = Append(d, Head(r))
      /\ connected_msgs'["B"] = Tail(r)
      /\ network'["B"] = SubSeq(s, k + 1, Len(s))
      /\ state' = state /\ broken' = broken
  BY <1>2 DEF msg_received, next_message, Set, Typed, Node
<1>6. sent'["A"] = sent["A"] /\ Unwritten' = Unwritten
  <2>1. Sends("B", tick) \/ UNCHANGED <<sent, writes>>
    BY DEF msg_received, Answers
  <2>2. ASSUME Sends("B", tick)
        PROVE  /\ sent'["A"] = sent["A"] /\ writing'["A"] = writing["A"]
               /\ write_queue'["A"] = write_queue["A"]
    BY <1>2, <2>2 DEF Sends, trigger_write, Typed, Node
  <2> QED BY <2>1, <2>2 DEF Unwritten, writes
<1> DEFINE u == Unwritten
           b == SubSeq(s, k + 1, Len(s))
<1>7. sent["A"] = (d \o c) \o (s \o u)
  BY <1>3 DEF Flow, Carried, Arrived
<1>8. sent'["A"] = (d \o c) \o (s \o u)
  BY <1>6, <1>7
<1>9. /\ Arrived' = Append(d, Head(r)) \o Tail(r)
      /\ network'["B"] \o Unwritten' = b \o u
  BY <1>5, <1>6 DEF Arrived
<1>10. s \in Seq(Message) /\ u \in Seq(Message) /\ k \in 1..Len(s)
  BY <1>1, <1>2
<1>11. /\ b \o u \in Seq(Message)
       /\ (d \o c) \o (s \o u) = (Append(d, Head(r)) \o Tail(r)) \o (b \o u)
  <2> HIDE DEF d, c, s, u
  <2>1. /\ Joined(Rest(s, k), u) \in Seq(Message)
        /\ Joined(Joined(d, c), Joined(s, u)) =
             Joined(Moved(d, Read(c, s, k)), Joined(Rest(s, k), u))
    BY <1>4, <1>10, PassedOn
  <2> QED BY <2>1 DEF Joined, Rest, Moved, Read
<1>12. /\ network'["B"] \o Unwritten' \in Seq(Message)
       /\ sent'["A"] = Arrived' \o (network'["B"] \o Unwritten')
  <2> HIDE DEF d, c, s, u, r, b
  <2> QED BY <1>8, <1>9, <1>11
<1>13. Carried'
  BY <1>12 DEF Carried
<1> QED BY <1>3, <1>5, <1>13 DEF Flow, NothingYet, NothingRead

(***************************************************************************)
(* The steps of the handshake.                                             *)
(***************************************************************************)
LEMMA TransmittedFlow ==
  ASSUME IInv, Flow, ~raced["A"], NEW n \in Node, transmitted(n)
  PROVE  Flow'
<1>1. Typed /\ EndA /\ EndB /\ Ends
  BY DEF IInv
<1>2. /\ sent' = sent /\ dispatched' = dispatched /\ connected_msgs' = connected_msgs
      /\ state' = state /\ broken' = broken /\ ~broken /\ write_queue' = write_queue
      /\ writing[n] = "started" /\ writing' = Set(writing, n, "done")
      /\ n = "A" => network' = [network EXCEPT !["B"] = Append(@, Head(write_queue["A"]))]
      /\ n = "B" => \E m : network' = [network EXCEPT !["A"] = Append(@, m)]
  BY DEF transmitted, lexers, history, Other
<1>3. CASE n = "B"
  <2>1. network'["B"] = network["B"] /\ writing'["A"] = writing["A"]
    BY <1>1, <1>2, <1>3 DEF Set, Typed, Node
  <2>2. Unwritten' = Unwritten
    BY <1>2, <2>1 DEF Unwritten
  <2> QED BY <1>2, <2>1, <2>2, FlowKept DEF Flow, NothingYet
<1>4. CASE n = "A"
  <2>1. /\ network'["B"] = Append(network["B"], Head(write_queue["A"]))
        /\ writing'["A"] = "done" /\ writing["A"] = "started"
    BY <1>1, <1>2, <1>4 DEF Set, Typed, Node
  <2>2. CASE state["A"] # "connected"
    <3>1. state["B"] \notin {"sending_challenge_ack", "connected"}
      <4> SUFFICES ASSUME state["B"] \in {"sending_challenge_ack", "connected"}
                   PROVE  FALSE
        OBVIOUS
      <4>1. ~AwaitsB /\ ~Failed("B")
        BY DEF AwaitsB, Failed
      <4>2. ~Failed("A")
        BY <2>1 DEF Failed
      <4>3. HandedA = 2
        BY <1>1, <4>1, <4>2 DEF Ends
      <4>4. CASE state["A"] \in {"connected_tcp", "sending_challenge_reply"}
        BY <2>1, <4>3, <4>4 DEF HandedA, Past
      <4>5. CASE state["A"] \notin {"connected_tcp", "sending_challenge_reply"}
        BY <1>1, <2>1, <2>2, <4>5 DEF EndA, Reading, Quiet, Connected, Failed
      <4> QED BY <4>4, <4>5
    <3> QED BY <1>2, <2>2, <3>1, FlowKept
  <2>3. CASE state["A"] = "connected"
    <3> DEFINE q == write_queue["A"]
               s == network["B"]
    <3>1. s \in Seq(Message) /\ q \in Seq(Message)
      BY UnwrittenTyped
    <3>2. q # <<>>
      BY <2>1, <2>3, CallerConnected DEF Connected
    <3>3. /\ network'["B"] \o Unwritten' = Append(s, Head(q)) \o Tail(q)
          /\ network["B"] \o Unwritten = s \o q
      BY <1>2, <2>1 DEF Unwritten
    <3> HIDE DEF q, s
    <3>4. s \o q = Append(s, Head(q)) \o Tail(q)
      BY <3>1, <3>2, HandedOver
    <3>5. network'["B"] \o Unwritten' = network["B"] \o Unwritten
      BY <3>3, <3>4
    <3> QED BY <1>2, <2>3, <3>5, FlowKept
  <2> QED BY <2>2, <2>3
<1> QED BY <1>3, <1>4 DEF Node

LEMMA CheckedWriteFlow ==
  ASSUME IInv, Flow, NEW n \in Node, checked_write(n)
  PROVE  Flow'
<1>1. Typed /\ EndA /\ EndB
  BY DEF IInv
<1>2. /\ sent' = sent /\ dispatched' = dispatched /\ connected_msgs' = connected_msgs
      /\ network' = network /\ broken' = broken /\ writing[n] = "done"
      /\ write_queue' = [write_queue EXCEPT ![n] = Tail(@)]
      /\ writing' = Set(writing, n, IF Tail(write_queue[n]) = <<>>
                                      THEN "none" ELSE "started")
      /\ change_state(n, Head(write_queue[n]).kind)
  BY DEF checked_write, lexers, history
<1>3. /\ Head(write_queue[n]) = write_queue[n][1]
      /\ 1 \in DOMAIN write_queue[n]
  <2>1. /\ Len(write_queue[n]) \in Nat /\ Len(write_queue[n]) >= 1
        /\ Head(write_queue[n]) = write_queue[n][1]
    BY <1>1, <1>2, QueueFacts
  <2>2. DOMAIN write_queue[n] = 1..Len(write_queue[n])
    BY <1>1, LenProperties DEF Typed
  <2> QED BY <2>1, <2>2
<1> DEFINE kind == Head(write_queue[n]).kind
<1>4. state[n] = "connected" => state' = state
  <2> SUFFICES ASSUME state[n] = "connected" PROVE state' = state
    OBVIOUS
  <2>1. Connected(n)
    BY <1>1 DEF EndA, EndB, Failed, Node
  <2>2. kind \in {"data", "tick"}
    BY <1>3, <2>1 DEF Connected
  <2> QED BY <1>2, <2>2 DEF change_state, NextState
<1>5. \A m \in Node \ {n} : state'[m] = state[m]
  BY <1>1, <1>2 DEF change_state, make_transition_to_connected, Set, Typed
<1>6. state'[n] \in {state[n], "connected", "waiting_for_status",
                     "waiting_for_challenge_reply", "receiving_challenge_ack"}
      /\ (state'[n] = "connected" => state[n] = "connected" \/ kind = "ack")
  BY <1>1, <1>2 DEF change_state, make_transition_to_connected, Set, Typed, NextState
<1>7. CASE n = "A"
  <2>1. state'["B"] = state["B"]
    BY <1>5, <1>7 DEF Node
  <2>2. state["A"] # "connected" => kind # "ack"
    BY <1>1, <1>2, <1>3, <1>7, MessageFacts
       DEF EndA, Busy, Reading, Quiet, Writes, Connected, Failed
  <2>3. state["A"] = "connected" <=> state'["A"] = "connected"
    BY <1>4, <1>6, <1>7, <2>2
  <2>4. CASE state["A"] # "connected"
    BY <1>2, <2>1, <2>3, <2>4, FlowKept DEF Flow, NothingYet
  <2>5. CASE state["A"] = "connected"
    <3>1. Unwritten' = Unwritten
      BY <1>1, <1>2, <1>7 DEF Unwritten, Set, Typed, Node
    <3> QED BY <1>2, <2>1, <2>3, <2>5, <3>1, CallerConnected, FlowKept DEF Flow, Carried
  <2> QED BY <2>4, <2>5
<1>8. CASE n = "B"
  <2>1. state'["A"] = state["A"]
    BY <1>5, <1>8 DEF Node
  <2>2. Unwritten' = Unwritten
    BY <1>1, <1>2, <1>8 DEF Unwritten, Set, Typed, Node
  <2>3. kind = "ack" => state["B"] = "sending_challenge_ack"
    <3>1. CASE Connected("B")
      BY <1>3, <1>8, <3>1 DEF Connected
    <3>2. CASE state["B"] = "sending_status"
      <4>1. \/ write_queue["B"] = <<status_msg>>
            \/ write_queue["B"] = <<status_msg, Msg("challenge")>>
            \/ write_queue["B"] = <<Msg("challenge")>>
        BY <1>1, <1>2, <1>8, <3>2 DEF EndB, Busy, Writes, Quiet, Connected, Failed
      <4>2. write_queue["B"][1] \in {status_msg, Msg("challenge")}
        BY <4>1
      <4>3. status_msg.kind = "status" /\ Msg("challenge").kind = "challenge"
        BY <1>1, MessageFacts
      <4> QED BY <1>3, <1>8, <4>2, <4>3
    <3>3. writing["B"] = "done"
      BY <1>2, <1>8
    <3>4. \/ Connected("B") \/ state["B"] = "sending_status"
          \/ state["B"] = "sending_challenge_ack"
      BY <1>1, <3>3 DEF EndB, Reading, Quiet, Failed
    <3> QED BY <3>1, <3>2, <3>4
  <2>4. state["A"] # "connected" /\ state'["B"] \in {"sending_challenge_ack", "connected"}
          => network'["B"] = <<>>
    BY <1>2, <1>6, <1>8, <2>3 DEF Flow, NothingYet
  <2> QED BY <1>2, <1>4, <1>8, <2>1, <2>2, <2>4, FlowKept
<1> QED BY <1>7, <1>8 DEF Node

LEMMA ReplyFlow ==
  ASSUME IInv, Flow, NEW k \in Ks("B"), reply_received(k)
  PROVE  Flow'
<1>1. Typed /\ EndA /\ EndB /\ ToB /\ Ends
  BY DEF IInv
<1>2. /\ state["B"] = "waiting_for_challenge_reply" /\ state'["A"] = state["A"]
      /\ sent' = sent /\ dispatched' = dispatched /\ connected_msgs' = connected_msgs
      /\ network' = [network EXCEPT !["B"] = SubSeq(@, k + 1, Len(@))]
  BY <1>1 DEF reply_received, Reads, history, give_up, report_failure, Set, Typed, Node
<1>3. state["A"] # "connected"
  BY <1>2, CallerConnected
<1>4. /\ Len(network["B"]) \in Nat /\ k \in Nat /\ 1 <= k /\ k <= Len(network["B"])
      /\ network["B"] # <<>>
  BY <1>1, LexerFacts DEF Node
<1>5. AwaitsB /\ ~Failed("B") /\ TakenB = 1
  BY <1>2 DEF AwaitsB, Failed, TakenB
<1>6. ~broken /\ ~Failed("A")
  BY <1>1, <1>2, <1>4, <1>5 DEF Ends
<1>7. Len(network["B"]) <= 1
  <2>1. 1 + Len(network["B"]) = HandedA
    BY <1>1, <1>5, <1>6 DEF ToB
  <2>2. HandedA \in {0, 1, 2}
    BY DEF HandedA, Past
  <2> QED BY <1>4, <2>1, <2>2
<1>8. network'["B"] = <<>>
  <2>1. network' \in [Node -> Seq(Message)] /\ Len(network'["B"]) = Len(network["B"]) - k
    BY <1>1, <1>2, NetworkFacts DEF Node
  <2>2. Len(network'["B"]) = 0 /\ network'["B"] \in Seq(Message)
    BY <1>4, <1>7, <2>1 DEF Node
  <2> QED BY <2>2, LenZero
<1> QED BY <1>2, <1>3, <1>8, FlowKept

LEMMA ReadsFlow ==
  ASSUME IInv, Flow,
         \/ \E k \in Ks("B") : name_read(k)
         \/ \E k \in Ks("A") : status_read(k) \/ challenge_read(k)
  PROVE  Flow'
<1>1. Typed
  BY DEF IInv
<1>2. sent' = sent /\ dispatched' = dispatched /\ connected_msgs' = connected_msgs
  BY DEF name_read, status_read, challenge_read, Reads, history
<1>3. ASSUME NEW k \in Ks("B"), name_read(k)
      PROVE  Flow'
  <2>1. /\ state["B"] = "connected_tcp" /\ state'["A"] = state["A"]
        /\ state'["B"] \in {"connected_tcp", "sending_status"}
    BY <1>1, <1>3 DEF name_read, Reads, sending_status, give_up, report_failure,
                      Set, Typed, Node
  <2>2. state["A"] # "connected"
    BY <2>1, CallerConnected
  <2> QED BY <1>2, <2>1, <2>2, FlowKept
<1>4. ASSUME NEW k \in Ks("A"), status_read(k) \/ challenge_read(k)
      PROVE  Flow'
  <2>1. /\ state["A"] \in {"waiting_for_status", "receiving_challenge"}
        /\ network' = [network EXCEPT !["A"] = SubSeq(@, k + 1, Len(@))]
    BY <1>4 DEF status_read, challenge_read, Reads
  <2>2. /\ state'["B"] = state["B"]
        /\ state'["A"] \in {"connected_tcp", "receiving_challenge",
                            "sending_challenge_reply"}
    BY <1>1, <1>4 DEF status_read, challenge_read, receive_challenge,
                      sending_challenge_reply, report_failure, Set, Typed, Node
  <2>3. network'["B"] = network["B"]
    BY <1>1, <2>1 DEF Typed, Node
  <2> QED BY <1>2, <2>1, <2>2, <2>3, FlowKept DEF Flow, NothingYet
<1> QED BY <1>3, <1>4

LEMMA ChallengeAckFlow ==
  ASSUME IInv, Flow, NEW k \in Ks("A"), challenge_ack_read(k)
  PROVE  Flow'
<1>1. Typed /\ EndA /\ ToA
  BY DEF IInv
<1>2. /\ state["A"] = "receiving_challenge_ack" /\ reading["A"]
      /\ sent' = sent /\ dispatched' = dispatched /\ connected_msgs' = connected_msgs
      /\ broken' = broken /\ UNCHANGED <<write_queue, writing>>
      /\ network' = [network EXCEPT !["A"] = SubSeq(@, k + 1, Len(@))]
      /\ state' = Set(state, "A", "connected") \/ state' = state
  BY DEF challenge_ack_read, Reads, history, make_transition_to_connected, writes
<1>3. network'["B"] = network["B"] /\ state'["B"] = state["B"]
  BY <1>1, <1>2 DEF Set, Typed, Node
<1>4. CASE state' = state
  BY <1>2, <1>3, <1>4, FlowKept DEF Flow, NothingYet
<1>5. CASE state' = Set(state, "A", "connected")
  <2>1. Acked
    <3>1. AwaitsA /\ TakenA = 2
      BY <1>2 DEF AwaitsA, Failed, TakenA
    <3>2. /\ Len(network["A"]) \in Nat /\ 1 <= Len(network["A"])
      BY <1>1, LexerFacts DEF Node
    <3> QED BY <1>1, <3>1, <3>2 DEF ToA
  <2>2. network["B"] = <<>> /\ sent["A"] = <<>> /\ Arrived = <<>>
    BY <1>2, <2>1 DEF Acked, Flow, NothingYet
  <2>3. Unwritten' = <<>>
    BY <1>1, <1>2 DEF EndA, Connected, Failed, Reading, Quiet, Unwritten
  <2>4. Arrived' = <<>> /\ sent'["A"] = <<>> /\ network'["B"] = <<>>
    BY <1>2, <1>3, <2>2 DEF Arrived
  <2>5. <<>> \in Seq(Message) /\ <<>> \o <<>> = <<>>
    OBVIOUS
  <2>6. Carried'
    BY <2>3, <2>4, <2>5 DEF Carried
  <2>7. state'["A"] = "connected"
    BY <1>1, <1>5 DEF Set, Typed, Node
  <2> QED BY <2>4, <2>6, <2>7 DEF Flow, NothingYet, NothingRead
<1> QED BY <1>2, <1>4, <1>5

LEMMA IoErrorFlow ==
  ASSUME IInv, Flow, NEW n \in Node, read_error(n) \/ write_error(n)
  PROVE  Flow'
<1>1. Typed
  BY DEF IInv
<1>2. /\ sent' = sent /\ dispatched' = dispatched /\ connected_msgs' = connected_msgs
      /\ broken' = broken /\ broken /\ network' = network
      /\ handle_io_error(n)
  BY DEF read_error, write_error, lexers, history
<1>3. /\ state'["A"] \in {state["A"], "connected_tcp"}
      /\ state'["B"] \in {state["B"], "connected_tcp"}
      /\ state["A"] = "connected" => state'["A"] = "connected"
      /\ state["B"] = "connected" => state'["B"] = "connected"
  BY <1>1, <1>2 DEF handle_io_error, report_failure, Set, Typed, Node
<1>4. state["A"] # "connected" /\ state'["B"] \in {"sending_challenge_ack", "connected"}
        => network'["B"] = <<>>
  BY <1>2, <1>3 DEF Flow, NothingYet
<1> QED BY <1>2, <1>3, <1>4, FlowKept

LEMMA FlowStep ==
  ASSUME IInv, Flow, ~raced["A"], [Next]_vars
  PROVE  Flow'
<1>1. Typed /\ EndA
  BY DEF IInv
<1>2. CASE initiate_handshake
  <2>1. /\ sent' = sent /\ dispatched' = dispatched /\ connected_msgs' = connected_msgs
        /\ state' = state /\ network' = network /\ ~started
    BY <1>2 DEF initiate_handshake, lexers, history
  <2>2. state["A"] # "connected"
    BY <1>1, <2>1 DEF EndA
  <2> QED BY <2>1, <2>2, FlowKept DEF Flow, NothingYet
<1>3. ASSUME NEW n \in Node, NEW k \in Ks(n), msg_received(n, k)
      PROVE  Flow'
  <2>1. CASE n = "B"
    BY <1>3, <2>1, HandlesFlow
  <2>2. CASE n = "A"
    <3>1. /\ state["A"] = "connected" /\ state' = state /\ broken' = broken
          /\ Sends("A", tick) \/ UNCHANGED <<sent, writes>>
      BY <1>3, <2>2 DEF msg_received, Answers
    <3>2. /\ network'["B"] = network["B"] /\ dispatched'["B"] = dispatched["B"]
          /\ connected_msgs'["B"] = connected_msgs["B"]
      BY <1>1, <1>3, <2>2 DEF msg_received, Set, Typed, Node
    <3>3. CASE Sends("A", tick)
      <4>1. tick \in Message
        BY <1>1, MessageFacts
      <4> QED BY <3>1, <3>2, <3>3, <4>1, SendsFlow
    <3>4. CASE UNCHANGED <<sent, writes>>
      <4>1. Unwritten' = Unwritten
        BY <3>4 DEF Unwritten, writes
      <4> QED BY <3>1, <3>2, <3>4, <4>1, FlowKept
    <3> QED BY <3>1, <3>3, <3>4
  <2> QED BY <2>1, <2>2 DEF Node
<1>4. ASSUME NEW n \in Node, send_returns(n)
      PROVE  Flow'
  <2>1. PICK m \in {Data(Len(sent[n]) + 1)}
                     \cup (IF n = "B" /\ peer = "erlang" THEN {tick} ELSE {}) :
          Sends(n, m)
    BY <1>4 DEF send_returns
  <2>2. /\ state[n] = "connected" /\ state' = state /\ broken' = broken
        /\ network' = network /\ dispatched' = dispatched
        /\ connected_msgs' = connected_msgs
    BY <1>4 DEF send_returns, lexers, IInv, Access
  <2>3. m \in Message
    <3>1. Len(sent[n]) + 1 \in Nat
      BY <1>1, LenProperties DEF Typed
    <3> QED BY <1>1, <3>1, MessageFacts
  <2>4. CASE n = "A"
    BY <2>1, <2>2, <2>3, <2>4, SendsFlow
  <2>5. CASE n = "B"
    <3>1. /\ sent'["A"] = sent["A"] /\ writing'["A"] = writing["A"]
          /\ write_queue'["A"] = write_queue["A"]
      BY <1>1, <2>1, <2>5 DEF Sends, trigger_write, Typed, Node
    <3>2. Unwritten' = Unwritten
      BY <3>1 DEF Unwritten
    <3> QED BY <2>2, <3>1, <3>2, FlowKept DEF Flow, NothingYet
  <2> QED BY <2>4, <2>5 DEF Node
<1>5. CASE connection_lost
  <2>1. /\ sent' = sent /\ dispatched' = dispatched /\ connected_msgs' = connected_msgs
        /\ state' = state /\ broken' /\ network'["B"] = <<>>
    BY <1>5 DEF connection_lost, lexers, history, Node
  <2> QED BY <2>1, FlowKept
<1>6. CASE UNCHANGED vars \/ \E n \in Node : send(n)
  <2>1. /\ sent' = sent /\ dispatched' = dispatched /\ connected_msgs' = connected_msgs
        /\ state' = state /\ broken' = broken /\ network' = network
        /\ write_queue' = write_queue /\ writing' = writing
    BY <1>6 DEF vars, send, lexers, history, writes
  <2>2. Unwritten' = Unwritten
    BY <2>1 DEF Unwritten
  <2> QED BY <2>1, <2>2, FlowKept DEF Flow, NothingYet
<1>7. CASE Next
  BY <1>2, <1>3, <1>4, <1>5, <1>6, <1>7, TransmittedFlow, CheckedWriteFlow, ReplyFlow,
     ReadsFlow, ChallengeAckFlow, IoErrorFlow DEF Next
<1> QED BY <1>6, <1>7

(***************************************************************************)
(* What the end that was called dispatches is, in order and without a gap, *)
(* what the caller sent, however reads bring messages together and         *)
(* wherever the connection is lost (connected::msg_received, the write     *)
(* queue, and the change from the lexer of the handshake to the other one  *)
(* in handshake_complete), until the caller's write queue is used while a  *)
(* client is inside trigger_write.                                         *)
(***************************************************************************)
THEOREM CallerToCalledAlways == Spec => []CallerToCalled
<1>1. Init => Flow
  <2> HAVE Init
  <2>1. <<>> \o <<>> = <<>>
    OBVIOUS
  <2>2. /\ state["A"] = "connected_tcp" /\ state["B"] = "connected_tcp"
        /\ sent["A"] = <<>> /\ dispatched["B"] = <<>> /\ connected_msgs["B"] = <<>>
    BY DEF Init, Node
  <2>3. Arrived = <<>>
    BY <2>1, <2>2 DEF Arrived
  <2> QED BY <2>2, <2>3 DEF Flow, NothingYet, NothingRead, Carried
<1>2. IInv /\ (raced["A"] \/ Flow) /\ [Next]_vars => (raced["A"] \/ Flow)'
  <2> SUFFICES ASSUME IInv, raced["A"] \/ Flow, [Next]_vars, ~raced'["A"]
               PROVE  Flow'
    OBVIOUS
  <2>1. ~raced["A"]
    BY StaysRaced DEF IInv, Node
  <2> QED BY <2>1, FlowStep
<1>3. IInv /\ (raced["A"] \/ Flow) => CallerToCalled
  <2> SUFFICES ASSUME IInv, Flow PROVE IsPrefix(dispatched["B"], sent["A"])
    BY DEF CallerToCalled, GapFree, Other
  <2> DEFINE d == dispatched["B"]
             c == connected_msgs["B"]
             s == sent["A"]
  <2>1. d \in Seq(Message) /\ c \in Seq(Message) /\ s \in Seq(Message)
    BY DEF IInv, Typed, Node
  <2>2. \E rest \in Seq(Message) : s = (d \o c) \o rest
    <3>1. CASE state["A"] = "connected"
      BY <3>1 DEF Flow, Carried, Arrived
    <3>2. CASE state["A"] # "connected"
      <4>1. s = <<>> /\ d \o c = <<>>
        BY <3>2 DEF Flow, NothingYet, Arrived
      <4>2. <<>> \in Seq(Message) /\ <<>> \o <<>> = <<>>
        OBVIOUS
      <4> QED BY <4>1, <4>2
    <3> QED BY <3>1, <3>2
  <2> HIDE DEF d, c, s
  <2>3. IsPrefix(d, s)
    BY <2>1, <2>2, BeginsWith
  <2> QED BY <2>3 DEF d, s
<1> QED BY <1>1, <1>2, <1>3, IInvAlways, PTL DEF Spec
=============================================================================
