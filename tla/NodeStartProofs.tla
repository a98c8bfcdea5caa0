--------------------------- MODULE NodeStartProofs ----------------------------
(***************************************************************************)
(* Proofs about NodeStart, for any number of threads and mailboxes, any    *)
(* width of the counters, any name and ports: EPMD reads the requests as   *)
(* they were meant and the node its answers, so that a registration leaves *)
(* both with the same view; and a pid leads to the mailbox it was given    *)
(* to.                                                                     *)
(***************************************************************************)
EXTENDS NodeStart, SequenceTheorems, FiniteSetTheorems, TLAPS

(***************************************************************************)
(* The formats: bytes and words one after the other.                       *)
(***************************************************************************)
Bytes == Seq(Nat)

Follows(m, s, t) == m = s \o t

LEMMA Joined ==
  ASSUME NEW s \in Bytes, NEW t \in Bytes, NEW m, Follows(m, s, t)
  PROVE  /\ m \in Bytes
         /\ Len(s) \in Nat /\ Len(t) \in Nat /\ Len(m) = Len(s) + Len(t)
         /\ \A i \in 1..Len(s) : m[i] = s[i]
         /\ \A i \in 1..Len(t) : m[Len(s) + i] = t[i]
<1>0. s \in Seq(Nat) /\ t \in Seq(Nat)
  BY DEF Bytes
<1>1. /\ s \o t \in Seq(Nat) /\ Len(s \o t) = Len(s) + Len(t)
      /\ \A i \in 1..(Len(s) + Len(t)) :
           (s \o t)[i] = IF i <= Len(s) THEN s[i] ELSE t[i - Len(s)]
  BY <1>0, ConcatProperties
<1>2. Len(s) \in Nat /\ Len(t) \in Nat
  BY <1>0
<1>3. /\ m \in Bytes /\ Len(m) = Len(s) + Len(t)
      /\ \A i \in 1..(Len(s) + Len(t)) :
           m[i] = IF i <= Len(s) THEN s[i] ELSE t[i - Len(s)]
  BY <1>1 DEF Follows, Bytes
<1>4. /\ \A i \in 1..Len(s) : m[i] = s[i]
      /\ \A i \in 1..Len(t) : m[Len(s) + i] = t[i]
  BY <1>2, <1>3
<1> QED BY <1>2, <1>3, <1>4

LEMMA BigWord ==
  ASSUME NEW x \in Word
  PROVE  /\ big_word(x) \in Bytes /\ Len(big_word(x)) = 2
         /\ word_at(big_word(x), 1) = x
<1> DEFINE y == x \div 256
           z == x % 256
<1>1. y \in 0..255 /\ z \in 0..255 /\ y * 256 + z = x
  <2>0. max_word \in Nat /\ max_word < 256 * 256
    BY DEF max_word
  <2>1. x \in Nat /\ x < 256 * 256
    BY <2>0 DEF Word
  <2>2. y \in Int /\ z \in 0..255 /\ x = 256 * y + z
    BY <2>1, SMT
  <2> HIDE DEF y, z
  <2> QED BY <2>1, <2>2, SMT
<1>2. y % 256 = y
  <2> HIDE DEF y
  <2> QED BY <1>1, SMT
<1>3. big_word(x) = <<y, z>>
  BY <1>2 DEF big_word
<1> HIDE DEF y, z
<1>4. y \in Nat /\ z \in Nat
  BY <1>1
<1>5. <<y, z>> \in Bytes /\ Len(<<y, z>>) = 2 /\ <<y, z>>[1] = y /\ <<y, z>>[2] = z
  BY <1>4 DEF Bytes
<1> QED BY <1>1, <1>3, <1>4, <1>5 DEF word_at

LEMMA WordAfter ==
  ASSUME NEW s \in Bytes, NEW x \in Word, NEW m, Follows(m, s, big_word(x))
  PROVE  /\ m \in Bytes /\ Len(m) = Len(s) + 2 /\ Len(s) \in Nat
         /\ \A i \in 1..Len(s) : m[i] = s[i]
         /\ word_at(m, Len(s) + 1) = x
<1> DEFINE w == big_word(x)
<1>0. w \in Bytes
  BY BigWord
<1>1. Len(w) = 2 /\ word_at(w, 1) = x
  BY BigWord
<1>2. Follows(m, s, w)
  OBVIOUS
<1> HIDE DEF w
<1>3. /\ m \in Bytes /\ Len(m) = Len(s) + Len(w) /\ Len(s) \in Nat
      /\ \A i \in 1..Len(s) : m[i] = s[i]
      /\ \A i \in 1..Len(w) : m[Len(s) + i] = w[i]
  BY <1>0, <1>2, Joined
<1>4. m[Len(s) + 1] = w[1] /\ m[Len(s) + 2] = w[2]
  BY <1>1, <1>3
<1>5. (Len(s) + 1) + 1 = Len(s) + 2 /\ 1 + 1 = 2
  BY <1>3
<1>6. word_at(m, Len(s) + 1) = x
  BY <1>1, <1>4, <1>5 DEF word_at
<1> QED BY <1>1, <1>3, <1>6

(***************************************************************************)
(* The name of the node fits in a request.                                 *)
(***************************************************************************)
LEMMA NameFits ==
  /\ own_name \in Bytes /\ Len(own_name) \in Nat
  /\ msg_length(own_name) = 13 + Len(own_name)
  /\ msg_length(own_name) \in Word /\ Len(own_name) \in Word
  /\ own_port \in Word /\ 5 \in Word /\ 0 \in Word
<1>1. /\ own_name \in Seq(Byte) /\ msg_length(own_name) \in Word
      /\ own_port \in Word
  BY StartAssumption
<1>2. own_name \in Seq(Nat)
  <2>1. Byte \subseteq Nat
    BY DEF Byte
  <2>2. PICK k \in Nat : own_name \in [1..k -> Byte]
    BY <1>1, SeqDef
  <2>3. own_name \in [1..k -> Nat]
    BY <2>1, <2>2
  <2> QED BY <2>3, SeqDef
<1>3. own_name \in Bytes
  BY <1>2 DEF Bytes
<1>4. Len(own_name) \in Nat
  BY <1>2
<1>5. msg_length(own_name) = 13 + Len(own_name)
  BY DEF msg_length
<1> DEFINE k == Len(own_name)
           l == msg_length(own_name)
<1>6. k \in Nat /\ l = 13 + k /\ l \in Word
  BY <1>1, <1>4, <1>5
<1> HIDE DEF k, l
<1>7. k \in Word /\ 5 \in Word /\ 0 \in Word
  <2>1. max_word \in Nat /\ 5 <= max_word
    BY SMT DEF max_word
  <2> QED BY <1>6, <2>1 DEF Word
<1> QED BY <1>1, <1>3, <1>4, <1>5, <1>7 DEF k

(***************************************************************************)
(* EPMD takes from the request the name and the port that went into it.    *)
(***************************************************************************)
LEMMA Alive2Read ==
  epmd_reads(alive2_req(own_name, own_port)) =
    [name |-> own_name, port |-> own_port, creation |-> 0]
<1> DEFINE n  == Len(own_name)
           l  == msg_length(own_name)
           c1 == <<120>>
           c2 == <<72, 0>>
           m0 == big_word(l)
           m1 == m0 \o c1
           m2 == m1 \o big_word(own_port)
           m3 == m2 \o c2
           m4 == m3 \o big_word(5)
           m5 == m4 \o big_word(5)
           m6 == m5 \o big_word(n)
           m7 == m6 \o own_name
           m8 == m7 \o big_word(0)
<1>1. /\ own_name \in Bytes /\ n \in Nat /\ l = 13 + n
      /\ l \in Word /\ n \in Word /\ own_port \in Word
      /\ 5 \in Word /\ 0 \in Word
  BY NameFits
<1>0. c1 \in Bytes /\ c2 \in Bytes
  BY DEF Bytes
<1>2. Len(c1) = 1 /\ c1[1] = 120 /\ Len(c2) = 2
  OBVIOUS
<1>3. /\ Follows(m1, m0, c1) /\ Follows(m2, m1, big_word(own_port))
      /\ Follows(m3, m2, c2) /\ Follows(m4, m3, big_word(5))
      /\ Follows(m5, m4, big_word(5)) /\ Follows(m6, m5, big_word(n))
      /\ Follows(m7, m6, own_name) /\ Follows(m8, m7, big_word(0))
  BY DEF Follows
<1>4. alive2_req(own_name, own_port) = m8
  BY DEF alive2_req
<1>5. Len(m0) = 2 /\ word_at(m0, 1) = l
  BY <1>1, BigWord
<1>5a. m0 \in Bytes
  BY <1>1, BigWord
<1>6. Len(own_name) = n
  OBVIOUS
<1> HIDE DEF n, l, c1, c2, m0, m1, m2, m3, m4, m5, m6, m7, m8
<1>7a. m1 \in Bytes
  BY <1>0, <1>3, <1>5a, Joined
<1>7. Len(m1) = 3 /\ word_at(m1, 1) = l /\ m1[3] = 120
  <2>1. /\ Len(m1) = Len(m0) + Len(c1)
        /\ \A i \in 1..Len(m0) : m1[i] = m0[i]
        /\ \A i \in 1..Len(c1) : m1[Len(m0) + i] = c1[i]
    BY <1>0, <1>3, <1>5a, Joined
  <2>2. /\ Len(m1) = 3 /\ m1[1] = m0[1]
        /\ m1[1 + 1] = m0[1 + 1] /\ m1[3] = 120
    BY <1>2, <1>5, <2>1
  <2> QED BY <1>5, <2>2 DEF word_at
<1>8a. m2 \in Bytes
  BY <1>1, <1>3, <1>7a, WordAfter
<1>8. /\ Len(m2) = 5 /\ \A i \in 1..3 : m2[i] = m1[i]
      /\ word_at(m2, 4) = own_port
  <2>1. /\ Len(m2) = Len(m1) + 2
        /\ \A i \in 1..Len(m1) : m2[i] = m1[i]
        /\ word_at(m2, Len(m1) + 1) = own_port
    BY <1>1, <1>3, <1>7a, WordAfter
  <2> QED BY <1>7, <2>1
<1>9a. m3 \in Bytes
  BY <1>0, <1>3, <1>8a, Joined
<1>9. Len(m3) = 7 /\ \A i \in 1..5 : m3[i] = m2[i]
  <2>1. /\ Len(m3) = Len(m2) + Len(c2)
        /\ \A i \in 1..Len(m2) : m3[i] = m2[i]
    BY <1>0, <1>3, <1>8a, Joined
  <2> QED BY <1>2, <1>8, <2>1
<1>10a. m4 \in Bytes
  BY <1>1, <1>3, <1>9a, WordAfter
<1>10. Len(m4) = 9 /\ \A i \in 1..7 : m4[i] = m3[i]
  <2>1. /\ Len(m4) = Len(m3) + 2
        /\ \A i \in 1..Len(m3) : m4[i] = m3[i]
    BY <1>1, <1>3, <1>9a, WordAfter
  <2> QED BY <1>9, <2>1
<1>11a. m5 \in Bytes
  BY <1>1, <1>3, <1>10a, WordAfter
<1>11. Len(m5) = 11 /\ \A i \in 1..9 : m5[i] = m4[i]
  <2>1. /\ Len(m5) = Len(m4) + 2
        /\ \A i \in 1..Len(m4) : m5[i] = m4[i]
    BY <1>1, <1>3, <1>10a, WordAfter
  <2> QED BY <1>10, <2>1
<1>12a. m6 \in Bytes
  BY <1>1, <1>3, <1>11a, WordAfter
<1>12. /\ Len(m6) = 13 /\ \A i \in 1..11 : m6[i] = m5[i]
       /\ word_at(m6, 12) = n
  <2>1. /\ Len(m6) = Len(m5) + 2
        /\ \A i \in 1..Len(m5) : m6[i] = m5[i]
        /\ word_at(m6, Len(m5) + 1) = n
    BY <1>1, <1>3, <1>11a, WordAfter
  <2> QED BY <1>11, <2>1
<1>13a. m7 \in Bytes
  BY <1>1, <1>3, <1>12a, Joined
<1>13. /\ Len(m7) = 13 + n /\ \A i \in 1..13 : m7[i] = m6[i]
       /\ \A i \in 1..n : m7[13 + i] = own_name[i]
  <2>1. /\ Len(m7) = Len(m6) + Len(own_name)
        /\ \A i \in 1..Len(m6) : m7[i] = m6[i]
        /\ \A i \in 1..Len(own_name) : m7[Len(m6) + i] = own_name[i]
    BY <1>1, <1>3, <1>12a, Joined
  <2> QED BY <1>6, <1>12, <2>1
<1>14a. m8 \in Bytes
  BY <1>1, <1>3, <1>13a, WordAfter
<1>14. /\ Len(m8) = 15 + n
       /\ \A i \in 1..(13 + n) : m8[i] = m7[i]
  <2>1. /\ Len(m8) = Len(m7) + 2
        /\ \A i \in 1..Len(m7) : m8[i] = m7[i]
    BY <1>1, <1>3, <1>13a, WordAfter
  <2> QED BY <1>1, <1>13, <2>1
<1>15. /\ m8[1] = m1[1] /\ m8[2] = m1[2] /\ m8[3] = m1[3]
       /\ m8[4] = m2[4] /\ m8[5] = m2[5] /\ m8[12] = m6[12] /\ m8[13] = m6[13]
  BY <1>1, <1>8, <1>9, <1>10, <1>11, <1>12, <1>13, <1>14
<1>16. /\ word_at(m8, 1) = l /\ m8[3] = 120 /\ word_at(m8, 4) = own_port
       /\ word_at(m8, 12) = n
  <2>1. 1 + 1 = 2 /\ 4 + 1 = 5 /\ 12 + 1 = 13
    OBVIOUS
  <2> QED BY <1>7, <1>8, <1>12, <1>15, <2>1 DEF word_at
<1>17. SubSeq(m8, 14, 13 + n) = own_name
  <2> DEFINE r == SubSeq(m8, 14, 13 + n)
  <2>1. \A i \in 14..(13 + n) : m8[i] \in Nat
    <3>1. m8 \in Seq(Nat)
      BY <1>14a DEF Bytes
    <3> QED BY <1>1, <1>14, <3>1
  <2>2. 14 \in Int /\ 13 + n \in Int
    BY <1>1
  <2>3. /\ r \in Seq(Nat)
        /\ Len(r) = IF 14 <= 13 + n THEN (13 + n) - 14 + 1 ELSE 0
        /\ \A i \in 1..((13 + n) - 14 + 1) : r[i] = m8[14 + i - 1]
    BY <2>1, <2>2, SubSeqProperties
  <2> HIDE DEF r
  <2>4. (13 + n) - 14 + 1 = n /\ \A i \in Nat : 14 + i - 1 = 13 + i
    BY <1>1
  <2>5. Len(r) = n /\ \A i \in 1..n : r[i] = m8[13 + i]
    BY <1>1, <2>3, <2>4
  <2>6. \A i \in 1..n : m8[13 + i] = own_name[i]
    <3>1. \A i \in 1..n : 13 + i \in 1..(13 + n)
      BY <1>1
    <3> QED BY <1>13, <1>14, <3>1
  <2>7. own_name \in Seq(Nat) /\ Len(own_name) = Len(r)
    BY <1>1, <1>6, <2>5 DEF Bytes
  <2>8. \A i \in 1..Len(r) : r[i] = own_name[i]
    BY <2>5, <2>6
  <2>9. r = own_name
    BY <2>3, <2>7, <2>8, SeqEqual
  <2> QED BY <2>9 DEF r
<1>18. Len(m8) = 2 + word_at(m8, 1) /\ Len(m8) = 15 + word_at(m8, 12)
  BY <1>1, <1>14, <1>16
<1> QED BY <1>4, <1>16, <1>17, <1>18 DEF epmd_reads

(***************************************************************************)
(* What the node reads of an answer, if it reads it whole.                 *)
(***************************************************************************)
LEMMA AnswerRead ==
  ASSUME NEW a \in Nat, NEW r \in Nat, NEW x \in Word, NEW k \in Nat, k >= 4,
         NEW m, Follows(m, <<a, r>>, big_word(x))
  PROVE  /\ Len(m) = 4
         /\ ReadInto(k, m)[2] = r /\ word_at(ReadInto(k, m), 3) = x
<1> DEFINE s == <<a, r>>
           z == Zeros(k - Len(m))
           f == ReadInto(k, m)
<1>1. s \in Bytes /\ Len(s) = 2 /\ s[2] = r
  BY DEF Bytes
<1>2. Follows(m, s, big_word(x)) /\ Follows(f, m, z)
  BY DEF Follows, ReadInto
<1> HIDE DEF s
<1>3. /\ m \in Bytes /\ Len(m) = Len(s) + 2
      /\ \A i \in 1..Len(s) : m[i] = s[i]
      /\ word_at(m, Len(s) + 1) = x
  BY <1>1, <1>2, WordAfter
<1>4. m \in Bytes /\ Len(m) = 4 /\ m[2] = r /\ word_at(m, 3) = x
  BY <1>1, <1>3
<1>5. z \in Bytes
  <2>1. k - Len(m) \in Nat
    BY <1>4
  <2> DEFINE j == k - Len(m)
  <2> HIDE DEF j
  <2>2. j \in Nat => [i \in 1..j |-> 0] \in Seq(Nat)
    OBVIOUS
  <2> QED BY <2>1, <2>2 DEF Zeros, Bytes, j
<1> HIDE DEF z, f
<1>6. \A i \in 1..4 : f[i] = m[i]
  <2>1. m \in Bytes
    BY <1>4
  <2>2. \A i \in 1..Len(m) : f[i] = m[i]
    BY <1>2, <1>5, <2>1, Joined
  <2> QED BY <1>4, <2>2
<1>7. f[2] = m[2] /\ f[3] = m[3] /\ f[3 + 1] = m[3 + 1]
  BY <1>6
<1>8. f[2] = r /\ word_at(f, 3) = x
  BY <1>4, <1>7 DEF word_at
<1> QED BY <1>4, <1>8 DEF f

(***************************************************************************)
(* EPMD's answers, read whole.                                             *)
(***************************************************************************)
LEMMA Alive2RespRead ==
  ASSUME NEW r \in {0, 1}, NEW c \in Word
  PROVE  alive2_resp(ReadInto(16, ALIVE2_RESP(r, c))) = [result |-> r, creation |-> c]
<1> DEFINE m == ALIVE2_RESP(r, c)
<1>1. Follows(m, <<121, r>>, big_word(c))
  BY DEF ALIVE2_RESP, Follows
<1>2. 121 \in Nat /\ r \in Nat /\ 16 \in Nat /\ 16 >= 4
  OBVIOUS
<1> HIDE DEF m
<1>3. ReadInto(16, m)[2] = r /\ word_at(ReadInto(16, m), 3) = c
  BY <1>1, <1>2, AnswerRead
<1>4. alive2_resp(ReadInto(16, m)) = [result |-> r, creation |-> c]
  BY <1>3 DEF alive2_resp
<1> QED BY <1>4 DEF m

LEMMA PortRespRead ==
  ASSUME NEW p \in Word
  PROVE  port2_resp_result(ReadInto(128, PORT2_RESP(p))) = [result |-> 0, port |-> p]
<1> DEFINE m == PORT2_RESP(p)
<1>1. Follows(m, <<119, 0>>, big_word(p))
  BY DEF PORT2_RESP, Follows
<1>2. 119 \in Nat /\ 0 \in Nat /\ 128 \in Nat /\ 128 >= 4
  OBVIOUS
<1> HIDE DEF m
<1>3. ReadInto(128, m)[2] = 0 /\ word_at(ReadInto(128, m), 3) = p
  BY <1>1, <1>2, AnswerRead
<1>4. port2_resp_result(ReadInto(128, m)) = [result |-> 0, port |-> p]
  BY <1>3 DEF port2_resp_result
<1> QED BY <1>4 DEF m

LEMMA RefusalRead == port2_resp_result(ReadInto(128, PORT2_REFUSED)).result = 1
<1> DEFINE m == PORT2_REFUSED
           z == Zeros(128 - Len(m))
           f == ReadInto(128, m)
<1>1. m \in Bytes /\ m[2] = 1
  BY DEF PORT2_REFUSED, Bytes
<1>2. Len(m) = 2
  BY DEF PORT2_REFUSED
<1>3. z \in Bytes
  <2>1. 128 - Len(m) = 126
    BY <1>2
  <2>2. \A j \in Nat : [i \in 1..j |-> 0] \in Seq(Nat)
    OBVIOUS
  <2> QED BY <2>1, <2>2 DEF Zeros, Bytes
<1>4. Follows(f, m, z)
  BY DEF Follows, ReadInto
<1> HIDE DEF f, m, z
<1>5. m \in Bytes
  BY <1>1
<1>6. \A i \in 1..Len(m) : f[i] = m[i]
  BY <1>3, <1>4, <1>5, Joined
<1>7. f[2] = 1
  BY <1>1, <1>2, <1>6
<1> QED BY <1>7 DEF port2_resp_result, f, m

-----------------------------------------------------------------------------
(***************************************************************************)
(* Registration and lookups at EPMD.                                       *)
(***************************************************************************)
Busy     == Publishing \cup Asking
Entry(c) == [name |-> own_name, port |-> own_port, creation |-> c]

(***************************************************************************)
(* What a thread's connection to EPMD holds.                               *)
(***************************************************************************)
Requested(t) ==
  At(t, "requested") => socket[t] = alive2_req(own_name, own_port)

Answered(t) ==
  At(t, "answered") =>
    \/ socket[t] = ALIVE2_RESP(1, 0)
    \/ \E c \in Creations :
         socket[t] = ALIVE2_RESP(0, c) /\ registered = Entry(c)

Accepted(t) == At(t, "accept") /\ ~cut => registered = Entry(creation)

Answers(t) ==
  At(t, "told") => socket[t] \in {PORT2_RESP(peer_port), PORT2_REFUSED}

Thread(t) == Requested(t) /\ Answered(t) /\ Accepted(t) /\ Answers(t)

OnePublisher ==
  \A t, u \in Threads :
    job[t].step \in Publishing /\ job[u].step \in Publishing => t = u

WhenDone ==
  published = "done" =>
    /\ accepting
    /\ \A t \in Threads : job[t].step \notin Publishing
    /\ ~cut => registered = Entry(creation)

Agreed ==
  /\ job = [t \in Threads |-> job[t]] /\ socket = [t \in Threads |-> socket[t]]
  /\ cut \in BOOLEAN
  /\ OnePublisher /\ WhenDone
  /\ \A t \in Threads : Thread(t)
  /\ ~cut => ports \subseteq {peer_port}

LEMMA BusySteps ==
  /\ "connected" \in Busy /\ "requested" \in Busy /\ "answered" \in Busy
  /\ "accept" \in Busy /\ "asked" \in Busy /\ "told" \in Busy
  /\ "idle" \notin Busy /\ "increment" \notin Busy /\ "wrap" \notin Busy
  /\ "insert" \notin Busy
  /\ "connected" \in Publishing /\ "requested" \in Publishing
  /\ "answered" \in Publishing /\ "accept" \in Publishing
  /\ "asked" \notin Publishing /\ "told" \notin Publishing
  /\ "idle" \notin Publishing /\ "asked" \in Asking /\ "told" \in Asking
  /\ "connected" \notin Asking /\ "requested" \notin Asking
  /\ "answered" \notin Asking /\ "accept" \notin Asking
  /\ Publishing \subseteq Busy
BY DEF Busy, Publishing, Asking

LEMMA Moves ==
  ASSUME job = [t \in Threads |-> job[t]], NEW t \in Threads, NEW s, NEW b,
         Goto(t, s, b)
  PROVE  /\ job' = [u \in Threads |-> job'[u]]
         /\ job'[t].step = s /\ job'[t].box = b
         /\ \A u \in Threads \ {t} : job'[u] = job[u]
BY DEF Goto

(***************************************************************************)
(* A step that makes no thread busy with EPMD.                             *)
(***************************************************************************)
LEMMA QuietStep ==
  ASSUME Agreed, UNCHANGED <<epmd, creation>>,
         job' = [u \in Threads |-> job'[u]],
         \A u \in Threads : job'[u].step \in Busy => job'[u].step = job[u].step
  PROVE  Agreed'
<1>1. OnePublisher'
  BY BusySteps DEF Agreed, OnePublisher
<1>2. WhenDone'
  BY BusySteps DEF Agreed, WhenDone, epmd
<1>3. ASSUME NEW u \in Threads PROVE Thread(u)'
  <2>1. Thread(u)
    BY DEF Agreed
  <2>2. /\ At(u, "requested")' => At(u, "requested")
        /\ At(u, "answered")' => At(u, "answered")
        /\ At(u, "accept")' => At(u, "accept")
        /\ At(u, "told")' => At(u, "told")
    BY BusySteps DEF At
  <2> QED BY <2>1, <2>2 DEF Thread, Requested, Answered, Accepted, Answers, epmd
<1> QED BY <1>1, <1>2, <1>3 DEF Agreed, epmd

(***************************************************************************)
(* The other threads, in a step of t.                                      *)
(***************************************************************************)
LEMMA OthersKept ==
  ASSUME Agreed, NEW t \in Threads, cut => cut',
         \A u \in Threads \ {t} : job'[u] = job[u] /\ socket'[u] = socket[u],
         \/ UNCHANGED <<registered, creation>>
         \/ \A u \in Threads \ {t} : job[u].step \notin Publishing
  PROVE  \A u \in Threads \ {t} : Thread(u)'
<1> SUFFICES ASSUME NEW u \in Threads \ {t} PROVE Thread(u)'
  OBVIOUS
<1>1. Thread(u) /\ job'[u] = job[u] /\ socket'[u] = socket[u]
  BY DEF Agreed
<1>2. \A s : At(u, s)' <=> At(u, s)
  BY <1>1 DEF At
<1>3. Requested(u)' /\ Answers(u)'
  BY <1>1, <1>2 DEF Thread, Requested, Answers
<1>4. Answered(u)' /\ Accepted(u)'
  <2>1. CASE UNCHANGED <<registered, creation>>
    BY <1>1, <1>2, <2>1 DEF Thread, Answered, Accepted
  <2>2. CASE job[u].step \notin Publishing
    <3>1. ~At(u, "answered") /\ ~At(u, "accept")
      BY <2>2, BusySteps DEF At
    <3> QED BY <1>2, <3>1 DEF Answered, Accepted
  <2> QED BY <2>1, <2>2
<1> QED BY <1>3, <1>4 DEF Thread

LEMMA SocketMoves ==
  ASSUME socket = [t \in Threads |-> socket[t]], NEW t \in Threads, NEW m,
         socket' = [socket EXCEPT ![t] = m]
  PROVE  /\ socket' = [u \in Threads |-> socket'[u]] /\ socket'[t] = m
         /\ \A u \in Threads \ {t} : socket'[u] = socket[u]
OBVIOUS

LEMMA Throws ==
  ASSUME Agreed, NEW t \in Threads, throws(t)
  PROVE  /\ job' = [u \in Threads |-> job'[u]]
         /\ socket' = [u \in Threads |-> socket'[u]]
         /\ job'[t].step = "idle" /\ job'[t].box = NoBox
         /\ \A u \in Threads \ {t} : job'[u] = job[u] /\ socket'[u] = socket[u]
         /\ job[t].step \notin Asking => published' = "failed"
         /\ job[t].step \in Asking => published' = published
<1>1. /\ job = [u \in Threads |-> job[u]] /\ socket = [u \in Threads |-> socket[u]]
  BY DEF Agreed
<1>2. job' = [job EXCEPT ![t] = Resting] /\ socket' = [socket EXCEPT ![t] = <<>>]
  BY DEF throws
<1>3. Resting.step = "idle" /\ Resting.box = NoBox
  BY DEF Resting
<1>4. /\ job' = [u \in Threads |-> job'[u]] /\ job'[t] = Resting
      /\ \A u \in Threads \ {t} : job'[u] = job[u]
  BY <1>1, <1>2
<1>5. /\ socket' = [u \in Threads |-> socket'[u]]
      /\ \A u \in Threads \ {t} : socket'[u] = socket[u]
  BY <1>1, <1>2, SocketMoves
<1> QED BY <1>3, <1>4, <1>5 DEF throws

LEMMA IdleThread ==
  ASSUME NEW t, job'[t].step = "idle"
  PROVE  Thread(t)' /\ job'[t].step \notin Publishing
BY BusySteps DEF Thread, Requested, Answered, Accepted, Answers, At

(***************************************************************************)
(* The publisher stays alone when a thread that is no publisher does not   *)
(* become one, or when no other is.                                        *)
(***************************************************************************)
LEMMA PublisherKept ==
  ASSUME OnePublisher, NEW t \in Threads,
         \A u \in Threads \ {t} : job'[u] = job[u],
         \/ job'[t].step \notin Publishing
         \/ \A u \in Threads \ {t} : job[u].step \notin Publishing
  PROVE  OnePublisher'
BY DEF OnePublisher

LEMMA AloneIn ==
  ASSUME Agreed, NEW t \in Threads, job[t].step \in Publishing
  PROVE  /\ \A u \in Threads \ {t} : job[u].step \notin Publishing
         /\ published # "done"
BY DEF Agreed, OnePublisher, WhenDone

LEMMA AgreedInitially == Init => Agreed
<1> SUFFICES ASSUME Init PROVE Agreed
  OBVIOUS
<1>1. /\ job = [t \in Threads |-> Resting] /\ socket = [t \in Threads |-> <<>>]
      /\ published = "never" /\ ports = {} /\ cut = FALSE
  BY DEF Init
<1>2. /\ job = [t \in Threads |-> job[t]] /\ socket = [t \in Threads |-> socket[t]]
      /\ \A t \in Threads : job[t].step = "idle"
  BY <1>1 DEF Resting
<1>3. OnePublisher /\ WhenDone
  BY <1>1, <1>2, BusySteps DEF OnePublisher, WhenDone
<1>4. \A t \in Threads : Thread(t)
  BY <1>2 DEF Thread, Requested, Answered, Accepted, Answers, At
<1> QED BY <1>1, <1>2, <1>3, <1>4 DEF Agreed

(***************************************************************************)
(* One lemma for each action that has to do with EPMD.                     *)
(***************************************************************************)
LEMMA ConnectAgrees ==
  ASSUME Agreed, NEW t \in Threads, epmd_connect(t) PROVE Agreed'
<1>1. /\ At(t, "idle") /\ \A u \in Threads : job[u].step \notin Publishing
      /\ UNCHANGED <<creation, accepting, ports, cut>>
      /\ \/ Goto(t, "connected", NoBox) /\ published' = "begun" /\ UNCHANGED socket
         \/ throws(t)
  BY DEF epmd_connect, pids
<1>2. /\ job' = [u \in Threads |-> job'[u]] /\ socket' = [u \in Threads |-> socket'[u]]
      /\ \A u \in Threads \ {t} : job'[u] = job[u] /\ socket'[u] = socket[u]
      /\ job'[t].step \in {"idle", "connected"} /\ published' # "done"
  <2>1. CASE Goto(t, "connected", NoBox) /\ published' = "begun" /\ UNCHANGED socket
    BY <2>1, Moves DEF Agreed
  <2>2. CASE throws(t)
    BY <1>1, <2>2, Throws, BusySteps DEF At, Asking
  <2> QED BY <1>1, <2>1, <2>2
<1>3. OnePublisher'
  BY <1>1, <1>2, PublisherKept DEF Agreed
<1>4. WhenDone'
  BY <1>2 DEF WhenDone
<1>5. Thread(t)'
  BY <1>2 DEF Thread, Requested, Answered, Accepted, Answers, At
<1>6. \A u \in Threads \ {t} : Thread(u)'
  BY <1>1, <1>2, OthersKept
<1> QED BY <1>1, <1>2, <1>3, <1>4, <1>5, <1>6 DEF Agreed

LEMMA RequestAgrees ==
  ASSUME Agreed, NEW t \in Threads, alive2_request(t) PROVE Agreed'
<1>1. /\ At(t, "connected")
      /\ UNCHANGED <<creation, registered, accepting, ports, cut>>
      /\ \/ /\ socket' = [socket EXCEPT ![t] = alive2_req(own_name, own_port)]
            /\ Goto(t, "requested", NoBox) /\ UNCHANGED published
         \/ throws(t)
  BY DEF alive2_request, pids
<1>0. job[t].step \in Publishing /\ job[t].step \notin Asking
  BY <1>1, BusySteps DEF At
<1>2. /\ \A u \in Threads \ {t} : job[u].step \notin Publishing
      /\ published # "done"
  BY <1>0, AloneIn
<1>3. /\ job' = [u \in Threads |-> job'[u]] /\ socket' = [u \in Threads |-> socket'[u]]
      /\ \A u \in Threads \ {t} : job'[u] = job[u] /\ socket'[u] = socket[u]
      /\ published' # "done"
      /\ \/ job'[t].step = "idle"
         \/ job'[t].step = "requested" /\ socket'[t] = alive2_req(own_name, own_port)
  <2>1. CASE /\ socket' = [socket EXCEPT ![t] = alive2_req(own_name, own_port)]
             /\ Goto(t, "requested", NoBox) /\ UNCHANGED published
    <3>1. /\ job' = [u \in Threads |-> job'[u]] /\ job'[t].step = "requested"
          /\ \A u \in Threads \ {t} : job'[u] = job[u]
      BY <2>1, Moves DEF Agreed
    <3>2. /\ socket' = [u \in Threads |-> socket'[u]]
          /\ socket'[t] = alive2_req(own_name, own_port)
          /\ \A u \in Threads \ {t} : socket'[u] = socket[u]
      BY <2>1, SocketMoves DEF Agreed
    <3> QED BY <1>2, <2>1, <3>1, <3>2
  <2>2. CASE throws(t)
    BY <1>0, <2>2, Throws
  <2> QED BY <1>1, <2>1, <2>2
<1>4. OnePublisher'
  BY <1>2, <1>3, PublisherKept DEF Agreed
<1>5. WhenDone'
  BY <1>3 DEF WhenDone
<1>6. Thread(t)'
  BY <1>3 DEF Thread, Requested, Answered, Accepted, Answers, At
<1>7. \A u \in Threads \ {t} : Thread(u)'
  BY <1>1, <1>3, OthersKept
<1> QED BY <1>1, <1>3, <1>4, <1>5, <1>6, <1>7 DEF Agreed

LEMMA RegistersAgrees ==
  ASSUME Agreed, NEW t \in Threads, epmd_registers(t) PROVE Agreed'
<1> DEFINE node == epmd_reads(socket[t])
<1>1. /\ At(t, "requested") /\ Goto(t, "answered", NoBox)
      /\ UNCHANGED <<creation, accepting, published, ports, cut>>
  BY DEF epmd_registers, pids
<1>0. job[t].step \in Publishing
  BY <1>1, BusySteps DEF At
<1>2. /\ \A u \in Threads \ {t} : job[u].step \notin Publishing
      /\ published # "done"
  BY <1>0, AloneIn
<1>3. node = [name |-> own_name, port |-> own_port, creation |-> 0]
  BY <1>1, Alive2Read DEF Agreed, Thread, Requested
<1>4. \/ \E c \in Creations :
           /\ registered' = [node EXCEPT !.creation = c]
           /\ socket' = [socket EXCEPT ![t] = ALIVE2_RESP(0, c)]
      \/ socket' = [socket EXCEPT ![t] = ALIVE2_RESP(1, 0)]
  BY DEF epmd_registers
<1> HIDE DEF node
<1>5. /\ socket' = [u \in Threads |-> socket'[u]]
      /\ \A u \in Threads \ {t} : socket'[u] = socket[u]
      /\ \/ socket'[t] = ALIVE2_RESP(1, 0)
         \/ \E c \in Creations :
              socket'[t] = ALIVE2_RESP(0, c) /\ registered' = Entry(c)
  <2>1. CASE socket' = [socket EXCEPT ![t] = ALIVE2_RESP(1, 0)]
    BY <2>1, SocketMoves DEF Agreed
  <2>2. ASSUME NEW c \in Creations,
               registered' = [node EXCEPT !.creation = c],
               socket' = [socket EXCEPT ![t] = ALIVE2_RESP(0, c)]
        PROVE  /\ socket' = [u \in Threads |-> socket'[u]]
               /\ \A u \in Threads \ {t} : socket'[u] = socket[u]
               /\ socket'[t] = ALIVE2_RESP(0, c) /\ registered' = Entry(c)
    <3>1. registered' = Entry(c)
      BY <1>3, <2>2 DEF Entry
    <3>2. /\ socket' = [u \in Threads |-> socket'[u]]
          /\ socket'[t] = ALIVE2_RESP(0, c)
          /\ \A u \in Threads \ {t} : socket'[u] = socket[u]
      BY <2>2, SocketMoves DEF Agreed
    <3> QED BY <3>1, <3>2
  <2> QED BY <1>4, <2>1, <2>2
<1>6. /\ job' = [u \in Threads |-> job'[u]] /\ job'[t].step = "answered"
      /\ \A u \in Threads \ {t} : job'[u] = job[u]
  BY <1>1, Moves DEF Agreed
<1>7. OnePublisher'
  BY <1>2, <1>6, PublisherKept DEF Agreed
<1>8. WhenDone'
  BY <1>1, <1>2 DEF WhenDone
<1>9. Thread(t)'
  BY <1>5, <1>6 DEF Thread, Requested, Answered, Accepted, Answers, At
<1>10. \A u \in Threads \ {t} : Thread(u)'
  BY <1>1, <1>2, <1>5, <1>6, OthersKept
<1> QED BY <1>1, <1>5, <1>6, <1>7, <1>8, <1>9, <1>10 DEF Agreed

\* Whether an answer was read in part is remembered.
LEMMA CutKept ==
  ASSUME Agreed, NEW t \in Threads, NEW m, Cuts(t, m)
  PROVE  cut' \in BOOLEAN /\ (cut => cut')
<1>1. cut \in BOOLEAN
  BY DEF Agreed
<1>2. cut' = (cut \/ m # socket[t])
  BY DEF Cuts
<1> QED BY <1>1, <1>2, Zenon

LEMMA ResponseAgrees ==
  ASSUME Agreed, NEW t \in Threads, receive_alive_response(t) PROVE Agreed'
<1> DEFINE resp(m) == alive2_resp(ReadInto(16, m))
<1>1. /\ At(t, "answered") /\ UNCHANGED <<registered, accepting, ports>>
      /\ \/ \E m \in Parts(t) :
              /\ Cuts(t, m)
              /\ \/ /\ resp(m).result = 0 /\ creation' = resp(m).creation
                    /\ Goto(t, "accept", NoBox) /\ UNCHANGED <<socket, published>>
                 \/ throws(t) /\ UNCHANGED creation
         \/ throws(t) /\ UNCHANGED <<creation, cut>>
  BY DEF receive_alive_response
<1>0. job[t].step \in Publishing /\ job[t].step \notin Asking
  BY <1>1, BusySteps DEF At
<1>2. /\ \A u \in Threads \ {t} : job[u].step \notin Publishing
      /\ published # "done"
  BY <1>0, AloneIn
<1>3. cut' \in BOOLEAN /\ (cut => cut')
  <2> HIDE DEF resp
  <2>1. CASE \E m \in Parts(t) : Cuts(t, m)
    BY <2>1, CutKept
  <2>2. CASE UNCHANGED cut
    BY <2>2 DEF Agreed
  <2> QED BY <1>1, <2>1, <2>2
<1>4. ASSUME throws(t) PROVE Agreed'
  <2>1. /\ job' = [u \in Threads |-> job'[u]] /\ socket' = [u \in Threads |-> socket'[u]]
        /\ \A u \in Threads \ {t} : job'[u] = job[u] /\ socket'[u] = socket[u]
        /\ published' = "failed" /\ job'[t].step = "idle"
    BY <1>0, <1>4, Throws
  <2>2. OnePublisher' /\ WhenDone'
    BY <1>2, <2>1, PublisherKept DEF Agreed, WhenDone
  <2>3. Thread(t)'
    BY <2>1, IdleThread
  <2>4. \A u \in Threads \ {t} : Thread(u)'
    BY <1>2, <1>3, <2>1, OthersKept
  <2> QED BY <1>1, <1>3, <2>1, <2>2, <2>3, <2>4 DEF Agreed
<1>5. ASSUME NEW m \in Parts(t), Cuts(t, m), resp(m).result = 0,
             creation' = resp(m).creation, Goto(t, "accept", NoBox),
             UNCHANGED <<socket, published>>
      PROVE  Agreed'
  <2>1. /\ job' = [u \in Threads |-> job'[u]] /\ job'[t].step = "accept"
        /\ \A u \in Threads \ {t} : job'[u] = job[u]
    BY <1>5, Moves DEF Agreed
  <2>2. OnePublisher' /\ WhenDone'
    BY <1>2, <1>5, <2>1, PublisherKept DEF Agreed, WhenDone
  <2>3. ~cut' => registered' = Entry(creation')
    <3> SUFFICES ASSUME ~cut' PROVE registered = Entry(creation')
      BY <1>1
    <3>1. m = socket[t]
      BY <1>5 DEF Cuts
    <3>2. CASE socket[t] = ALIVE2_RESP(1, 0)
      <4>1. 1 \in {0, 1} /\ 0 \in Word
        BY NameFits
      <4>2. resp(socket[t]) = [result |-> 1, creation |-> 0]
        BY <3>2, <4>1, Alive2RespRead
      <4>3. resp(m).result = 1
        BY <3>1, <4>2
      <4> QED BY <1>5, <4>3
    <3>3. ASSUME NEW c \in Creations, socket[t] = ALIVE2_RESP(0, c),
                 registered = Entry(c)
          PROVE  registered = Entry(creation')
      <4>1. 0 \in {0, 1} /\ c \in Word
        BY StartAssumption
      <4>2. resp(socket[t]) = [result |-> 0, creation |-> c]
        BY <3>3, <4>1, Alive2RespRead
      <4>3. creation' = c
        BY <1>5, <3>1, <4>2
      <4> QED BY <3>3, <4>3
    <3> QED BY <1>1, <3>2, <3>3 DEF Agreed, Thread, Answered
  <2>4. Thread(t)'
    BY <2>1, <2>3 DEF Thread, Requested, Answered, Accepted, Answers, At
  <2>5. \A u \in Threads \ {t} : Thread(u)'
    BY <1>2, <1>3, <1>5, <2>1, OthersKept
  <2> QED BY <1>1, <1>3, <1>5, <2>1, <2>2, <2>4, <2>5 DEF Agreed
<1> QED BY <1>1, <1>4, <1>5

LEMMA AcceptAgrees ==
  ASSUME Agreed, NEW t \in Threads, start_accept_incoming(t) PROVE Agreed'
<1>1. /\ At(t, "accept") /\ UNCHANGED <<creation, registered, ports, cut>>
      /\ \/ /\ accepting' = TRUE /\ Goto(t, "idle", NoBox) /\ published' = "done"
            /\ socket' = [socket EXCEPT ![t] = <<>>]
         \/ throws(t) /\ UNCHANGED accepting
  BY DEF start_accept_incoming, pids
<1>0. job[t].step \in Publishing /\ job[t].step \notin Asking
  BY <1>1, BusySteps DEF At
<1>2. \A u \in Threads \ {t} : job[u].step \notin Publishing
  BY <1>0, AloneIn
<1>3. ~cut => registered = Entry(creation)
  BY <1>1 DEF Agreed, Thread, Accepted
<1>4. /\ job' = [u \in Threads |-> job'[u]] /\ socket' = [u \in Threads |-> socket'[u]]
      /\ \A u \in Threads \ {t} : job'[u] = job[u] /\ socket'[u] = socket[u]
      /\ job'[t].step = "idle" /\ (published' = "done" => accepting')
  <2>1. CASE /\ accepting' = TRUE /\ Goto(t, "idle", NoBox) /\ published' = "done"
             /\ socket' = [socket EXCEPT ![t] = <<>>]
    <3>1. /\ job' = [u \in Threads |-> job'[u]] /\ job'[t].step = "idle"
          /\ \A u \in Threads \ {t} : job'[u] = job[u]
      BY <2>1, Moves DEF Agreed
    <3>2. /\ socket' = [u \in Threads |-> socket'[u]]
          /\ \A u \in Threads \ {t} : socket'[u] = socket[u]
      BY <2>1, SocketMoves DEF Agreed
    <3> QED BY <2>1, <3>1, <3>2
  <2>2. CASE throws(t)
    BY <1>0, <2>2, Throws
  <2> QED BY <1>1, <2>1, <2>2
<1>5. Thread(t)' /\ job'[t].step \notin Publishing
  BY <1>4, IdleThread
<1>6. OnePublisher'
  BY <1>2, <1>4, PublisherKept DEF Agreed
<1>7. WhenDone'
  BY <1>1, <1>2, <1>3, <1>4, <1>5 DEF WhenDone
<1>8. \A u \in Threads \ {t} : Thread(u)'
  BY <1>1, <1>4, OthersKept
<1> QED BY <1>1, <1>4, <1>5, <1>6, <1>7, <1>8 DEF Agreed

(***************************************************************************)
(* A thread that asks for a port leaves the registration alone.            *)
(***************************************************************************)
LEMMA AskingStep ==
  ASSUME Agreed, NEW t \in Threads, job[t].step \notin Publishing,
         job'[t].step \notin Publishing,
         job' = [u \in Threads |-> job'[u]], socket' = [u \in Threads |-> socket'[u]],
         \A u \in Threads \ {t} : job'[u] = job[u] /\ socket'[u] = socket[u],
         UNCHANGED <<creation, registered, accepting, published>>,
         cut' \in BOOLEAN, cut => cut', Answers(t)',
         ~cut' => ports' \subseteq {peer_port}
  PROVE  Agreed'
<1>1. OnePublisher'
  BY PublisherKept DEF Agreed
<1>2. WhenDone'
  BY DEF Agreed, WhenDone
<1>3. Thread(t)'
  BY BusySteps DEF Thread, Requested, Answered, Accepted, At
<1>4. \A u \in Threads \ {t} : Thread(u)'
  BY OthersKept
<1> QED BY <1>1, <1>2, <1>3, <1>4 DEF Agreed

LEMMA PortAskedAgrees ==
  ASSUME Agreed, NEW t \in Threads, port_please2_request(t) PROVE Agreed'
<1>1. /\ At(t, "idle")
      /\ UNCHANGED <<creation, registered, accepting, published, ports, cut>>
      /\ \/ /\ socket' = [socket EXCEPT ![t] = port_please2_req(peer_name)]
            /\ Goto(t, "asked", NoBox)
         \/ UNCHANGED <<socket, job>>
  BY DEF port_please2_request, pids
<1>2. /\ job' = [u \in Threads |-> job'[u]] /\ socket' = [u \in Threads |-> socket'[u]]
      /\ \A u \in Threads \ {t} : job'[u] = job[u] /\ socket'[u] = socket[u]
      /\ job'[t].step \in {"idle", "asked"}
  <2>1. CASE /\ socket' = [socket EXCEPT ![t] = port_please2_req(peer_name)]
             /\ Goto(t, "asked", NoBox)
    <3>1. /\ job' = [u \in Threads |-> job'[u]] /\ job'[t].step = "asked"
          /\ \A u \in Threads \ {t} : job'[u] = job[u]
      BY <2>1, Moves DEF Agreed
    <3>2. /\ socket' = [u \in Threads |-> socket'[u]]
          /\ \A u \in Threads \ {t} : socket'[u] = socket[u]
      BY <2>1, SocketMoves DEF Agreed
    <3> QED BY <3>1, <3>2
  <2>2. CASE UNCHANGED <<socket, job>>
    BY <1>1, <2>2 DEF Agreed, At
  <2> QED BY <1>1, <2>1, <2>2
<1>3. job[t].step \notin Publishing /\ job'[t].step \notin Publishing
  BY <1>1, <1>2, BusySteps DEF At
<1>4. Answers(t)'
  BY <1>2 DEF Answers, At
<1>5. cut' \in BOOLEAN /\ (cut => cut') /\ (~cut' => ports' \subseteq {peer_port})
  BY <1>1 DEF Agreed
<1> QED BY <1>1, <1>2, <1>3, <1>4, <1>5, AskingStep

LEMMA TellsAgrees ==
  ASSUME Agreed, NEW t \in Threads, epmd_tells(t) PROVE Agreed'
<1>1. /\ At(t, "asked") /\ Goto(t, "told", NoBox)
      /\ UNCHANGED <<creation, registered, accepting, published, ports, cut>>
      /\ \/ socket' = [socket EXCEPT ![t] = PORT2_RESP(peer_port)]
         \/ socket' = [socket EXCEPT ![t] = PORT2_REFUSED]
  BY DEF epmd_tells, pids
<1>2. /\ job' = [u \in Threads |-> job'[u]] /\ job'[t].step = "told"
      /\ \A u \in Threads \ {t} : job'[u] = job[u]
  BY <1>1, Moves DEF Agreed
<1>3. /\ socket' = [u \in Threads |-> socket'[u]]
      /\ socket'[t] \in {PORT2_RESP(peer_port), PORT2_REFUSED}
      /\ \A u \in Threads \ {t} : socket'[u] = socket[u]
  BY <1>1, SocketMoves DEF Agreed
<1>4. job[t].step \notin Publishing /\ job'[t].step \notin Publishing
  BY <1>1, <1>2, BusySteps DEF At
<1>5. Answers(t)'
  BY <1>3 DEF Answers
<1>6. cut' \in BOOLEAN /\ (cut => cut') /\ (~cut' => ports' \subseteq {peer_port})
  BY <1>1 DEF Agreed
<1> QED BY <1>1, <1>2, <1>3, <1>4, <1>5, <1>6, AskingStep

LEMMA PortToldAgrees ==
  ASSUME Agreed, NEW t \in Threads, receive_port_resp(t) PROVE Agreed'
<1> DEFINE resp(m) == port2_resp_result(ReadInto(128, m))
<1>1. /\ At(t, "told") /\ throws(t) /\ UNCHANGED <<creation, registered, accepting>>
      /\ \/ \E m \in Parts(t) :
              /\ Cuts(t, m)
              /\ ports' = IF resp(m).result = 0 THEN ports \cup {resp(m).port}
                                                ELSE ports
         \/ UNCHANGED <<ports, cut>>
  BY DEF receive_port_resp, pids
<1>2. job[t].step \in Asking /\ job[t].step \notin Publishing
  BY <1>1, BusySteps DEF At
<1>3. /\ job' = [u \in Threads |-> job'[u]] /\ socket' = [u \in Threads |-> socket'[u]]
      /\ \A u \in Threads \ {t} : job'[u] = job[u] /\ socket'[u] = socket[u]
      /\ job'[t].step = "idle" /\ published' = published
  BY <1>1, <1>2, Throws
<1>4. Answers(t)' /\ job'[t].step \notin Publishing
  BY <1>3, IdleThread DEF Thread
<1>5. cut' \in BOOLEAN /\ (cut => cut')
  <2> HIDE DEF resp
  <2>1. CASE \E m \in Parts(t) : Cuts(t, m)
    BY <2>1, CutKept
  <2>2. CASE UNCHANGED cut
    BY <2>2 DEF Agreed
  <2> QED BY <1>1, <2>1, <2>2
<1>6. ~cut' => ports' \subseteq {peer_port}
  <2> SUFFICES ASSUME ~cut' PROVE ports' \subseteq {peer_port}
    OBVIOUS
  <2>1. ports \subseteq {peer_port}
    BY <1>5 DEF Agreed
  <2>2. CASE UNCHANGED <<ports, cut>>
    BY <2>1, <2>2
  <2>3. ASSUME NEW m \in Parts(t), Cuts(t, m),
               ports' = IF resp(m).result = 0 THEN ports \cup {resp(m).port}
                                              ELSE ports
        PROVE  ports' \subseteq {peer_port}
    <3>1. m = socket[t]
      BY <2>3 DEF Cuts
    <3>2. socket[t] \in {PORT2_RESP(peer_port), PORT2_REFUSED}
      BY <1>1 DEF Agreed, Thread, Answers
    <3>3. peer_port \in Word
      BY StartAssumption
    <3>4. CASE socket[t] = PORT2_RESP(peer_port)
      <4>1. resp(socket[t]) = [result |-> 0, port |-> peer_port]
        BY <3>3, <3>4, PortRespRead
      <4>2. resp(m).port = peer_port
        BY <3>1, <4>1
      <4> HIDE DEF resp
      <4> QED BY <2>1, <2>3, <4>2
    <3>5. CASE socket[t] = PORT2_REFUSED
      <4>1. resp(m).result = 1
        BY <3>1, <3>5, RefusalRead
      <4> HIDE DEF resp
      <4> QED BY <2>1, <2>3, <4>1
    <3> QED BY <3>2, <3>4, <3>5
  <2> QED BY <1>1, <2>2, <2>3
<1> QED BY <1>1, <1>2, <1>3, <1>4, <1>5, <1>6, AskingStep

(***************************************************************************)
(* The other actions: mailboxes are created and closed.                    *)
(***************************************************************************)
LEMMA MailboxesAgree ==
  ASSUME Agreed, NEW t \in Threads,
         \/ make_pid(t) \/ increment(t) \/ wrap(t) \/ create_mailbox(t)
         \/ \E b \in Boxes : close_mailbox(t, b)
  PROVE  Agreed'
<1>0. job = [u \in Threads |-> job[u]]
  BY DEF Agreed
<1>1. UNCHANGED <<epmd, creation>>
  BY DEF make_pid, increment, wrap, create_mailbox, close_mailbox, pids
<1>2. \/ UNCHANGED job
      \/ \E s \in {"increment", "wrap", "insert", "idle"} : \E b : Goto(t, s, b)
  <2>1. CASE make_pid(t) \/ increment(t) \/ wrap(t)
    BY <2>1 DEF make_pid, increment, wrap
  <2>2. CASE create_mailbox(t)
    BY <2>2 DEF create_mailbox
  <2>3. CASE \E b \in Boxes : close_mailbox(t, b)
    BY <2>3 DEF close_mailbox
  <2> QED BY <2>1, <2>2, <2>3
<1>3. /\ job' = [u \in Threads |-> job'[u]]
      /\ \A u \in Threads : job'[u].step \in Busy => job'[u].step = job[u].step
  <2>1. CASE UNCHANGED job
    BY <1>0, <2>1
  <2>2. ASSUME NEW s \in {"increment", "wrap", "insert", "idle"}, NEW b, Goto(t, s, b)
        PROVE  /\ job' = [u \in Threads |-> job'[u]]
               /\ \A u \in Threads : job'[u].step \in Busy => job'[u].step = job[u].step
    <3>1. /\ job' = [u \in Threads |-> job'[u]] /\ job'[t].step = s
          /\ \A u \in Threads \ {t} : job'[u] = job[u]
      BY <1>0, <2>2, Moves
    <3> QED BY <3>1, BusySteps
  <2> QED BY <1>2, <2>1, <2>2
<1> QED BY <1>1, <1>3, QuietStep

LEMMA AgreedStep == Agreed /\ [Next]_vars => Agreed'
<1> SUFFICES ASSUME Agreed, [Next]_vars PROVE Agreed'
  OBVIOUS
<1>1. CASE UNCHANGED vars
  <2>1. UNCHANGED <<epmd, creation, job>>
    BY <1>1 DEF vars, pids
  <2>2. job' = [u \in Threads |-> job'[u]]
    BY <2>1 DEF Agreed
  <2> QED BY <2>1, <2>2, QuietStep
<1>2. ASSUME NEW t \in Threads,
             \/ make_pid(t) \/ increment(t) \/ wrap(t) \/ create_mailbox(t)
             \/ \E b \in Boxes : close_mailbox(t, b)
             \/ epmd_connect(t) \/ alive2_request(t) \/ epmd_registers(t)
             \/ receive_alive_response(t) \/ start_accept_incoming(t)
             \/ port_please2_request(t) \/ epmd_tells(t) \/ receive_port_resp(t)
      PROVE  Agreed'
  BY <1>2, MailboxesAgree, ConnectAgrees, RequestAgrees, RegistersAgrees,
     ResponseAgrees, AcceptAgrees, PortAskedAgrees, TellsAgrees, PortToldAgrees
<1> QED BY <1>1, <1>2 DEF Next

LEMMA AgreedAlways == Spec => []Agreed
BY AgreedInitially, AgreedStep, PTL DEF Spec

(***************************************************************************)
(* Unless an answer is read in part, EPMD and the node agree: on what a    *)
(* request asks for, on the port the node listens on and the creation      *)
(* number its pids carry once publish_port has returned, and on the port   *)
(* of another node (actual_node.cpp, publish_port; epmd_requestor.cpp).    *)
(***************************************************************************)
THEOREM EpmdAlwaysAgrees == Spec => []EpmdAgrees
<1>1. Agreed => EpmdAgrees
  <2> SUFFICES ASSUME Agreed PROVE EpmdAgrees
    OBVIOUS
  <2>1. ASSUME NEW t \in Threads, At(t, "requested")
        PROVE  /\ epmd_reads(socket[t]).name = own_name
               /\ epmd_reads(socket[t]).port = own_port
    BY <2>1, Alive2Read DEF Agreed, Thread, Requested
  <2> QED BY <2>1 DEF EpmdAgrees, Agreed, WhenDone, Entry
<1> QED BY <1>1, AgreedAlways, PTL

-----------------------------------------------------------------------------
(***************************************************************************)
(* Pids and the map of mailboxes.  As long as no two calls of make_pid     *)
(* have overlapped, the counters are the digits of the number of mailboxes *)
(* begun, and so are the numbers in a mailbox's pid: b mailboxes bring     *)
(* them to id i and serial s.                                              *)
(***************************************************************************)
Span == max_pid_id + 1

Numbered(b, i, s) ==
  /\ i \in 0..max_pid_id /\ s \in 0..max_serial
  /\ \E q \in Nat : b = i + Span * s + Period * q

Counting(t) == job[t].step \in {"increment", "wrap"}

Counters ==
  /\ \A t, u \in Threads : Counting(t) /\ Counting(u) => t = u
  /\ \A t \in Threads :
       /\ At(t, "increment") => Numbered(made, pid_id, serial)
       /\ At(t, "wrap") => pid_id = Span /\ Numbered(made, max_pid_id, serial)
  /\ (\A t \in Threads : ~Counting(t)) => Numbered(made + 1, pid_id, serial)

PidsNumbered ==
  \A b \in 1..made : Numbered(b, pid_of[b].id, pid_of[b].serial)

(***************************************************************************)
(* The map holds the mailboxes that are open, at most two, in an order     *)
(* that operator< agrees with.                                             *)
(***************************************************************************)
File(b)     == [key |-> pid_of[b], box |-> b]
Below(p, q) == Less(p, q) /\ ~Less(q, p)

HoldsNone == tree = <<>> /\ open = {}
HoldsOne(b) == b \in 1..made /\ tree = <<File(b)>> /\ open = {b}
HoldsTwo(b, c) ==
  /\ b \in 1..made /\ c \in 1..made /\ b # c
  /\ tree = <<File(b), File(c)>> /\ open = {b, c}
  /\ \/ left = TRUE /\ Below(pid_of[c], pid_of[b])
     \/ left = FALSE /\ Below(pid_of[b], pid_of[c])

Held ==
  \/ HoldsNone
  \/ \E b \in 1..made : HoldsOne(b)
  \/ \E b, c \in 1..made : HoldsTwo(b, c)

(***************************************************************************)
(* The mailboxes that are being created: not in the map yet, and few       *)
(* enough that the map will have room for them.                            *)
(***************************************************************************)
Creators == {u \in Threads : job[u].step \in Creating}

Begun ==
  /\ \A t \in Creators : job[t].box \in 1..made /\ job[t].box \notin open
  /\ \A t, u \in Creators : job[t].box = job[u].box => t = u
  /\ IsFiniteSet(Creators) /\ Len(tree) + Cardinality(Creators) <= MaxEntries

Filed ==
  /\ job = [t \in Threads |-> job[t]]
  /\ made \in Nat /\ asked \in Nat
  /\ pid_of = [b \in Boxes |-> pid_of[b]]
  /\ raced \in BOOLEAN /\ muddled \in BOOLEAN
  /\ ~raced => Counters /\ PidsNumbered
  /\ muddled /\ ~raced => made > max_pid_id
  /\ ~raced /\ ~muddled => Held /\ Begun


(***************************************************************************)
(* Arithmetic of the two counters.                                         *)
(***************************************************************************)
LEMMA Spans ==
  /\ max_pid_id \in Nat \ {0} /\ max_serial \in Nat
  /\ Span \in Nat \ {0} /\ Period \in Nat \ {0} /\ Period = Span * max_serial + Span
<1>1. max_pid_id \in Nat \ {0} /\ max_serial \in Nat
  BY StartAssumption
<1>2. Span \in Nat \ {0} /\ Period = Span * max_serial + Span
  BY <1>1 DEF Span, Period
<1>3. Span * max_serial \in Nat
  BY <1>1, <1>2
<1> QED BY <1>1, <1>2, <1>3

LEMMA FirstNumber == Numbered(1, 1, 0)
<1>1. 1 = 1 + Span * 0 + Period * 0
  BY Spans
<1> QED BY <1>1, Spans DEF Numbered

LEMMA NextNumber ==
  ASSUME NEW b \in Nat, NEW i, NEW s, Numbered(b, i, s)
  PROVE  /\ i < max_pid_id => Numbered(b + 1, i + 1, s)
         /\ i = max_pid_id /\ s < max_serial => Numbered(b + 1, 0, s + 1)
         /\ i = max_pid_id /\ s = max_serial => Numbered(b + 1, 0, 0)
<1>1. PICK q \in Nat : b = i + Span * s + Period * q
  BY DEF Numbered
<1>2. i \in 0..max_pid_id /\ s \in 0..max_serial
  BY DEF Numbered
<1>3. Span * s \in Nat /\ Period * q \in Nat
  BY <1>1, <1>2, Spans
<1>4. ASSUME i < max_pid_id PROVE Numbered(b + 1, i + 1, s)
  <2>1. b + 1 = (i + 1) + Span * s + Period * q
    BY <1>1, <1>2, <1>3, Spans
  <2> QED BY <1>2, <1>4, <2>1, Spans DEF Numbered
<1>5. ASSUME i = max_pid_id, s < max_serial PROVE Numbered(b + 1, 0, s + 1)
  <2>1. Span * (s + 1) = Span * s + Span
    BY <1>2, Spans
  <2>2. b + 1 = 0 + Span * (s + 1) + Period * q
    BY <1>1, <1>2, <1>3, <1>5, <2>1, Spans DEF Span
  <2> QED BY <1>2, <1>5, <2>2, Spans DEF Numbered
<1>6. ASSUME i = max_pid_id, s = max_serial PROVE Numbered(b + 1, 0, 0)
  <2>1. Period * (q + 1) = Period * q + Period
    BY <1>2, Spans
  <2>2. Span * 0 = 0
    BY Spans
  <2>3. b + 1 = 0 + Span * 0 + Period * (q + 1)
    BY <1>1, <1>2, <1>3, <1>6, <2>1, <2>2, Spans DEF Span
  <2>4. 0 \in 0..max_pid_id /\ 0 \in 0..max_serial /\ q + 1 \in Nat
    BY Spans
  <2> QED BY <2>3, <2>4, Zenon DEF Numbered
<1> QED BY <1>4, <1>5, <1>6

(***************************************************************************)
(* The same numbers are given again after a whole number of Periods only.  *)
(***************************************************************************)
LEMMA Multiple ==
  ASSUME NEW m \in Nat \ {0}, NEW k \in Int PROVE (m * k) % m = 0
OBVIOUS

LEMMA SameNumbersApart ==
  ASSUME NEW b \in Nat, NEW c \in Nat, NEW i, NEW s,
         Numbered(b, i, s), Numbered(c, i, s)
  PROVE  (c - b) % Period = 0
<1>1. PICK q \in Nat : b = i + Span * s + Period * q
  BY DEF Numbered
<1>2. PICK r \in Nat : c = i + Span * s + Period * r
  BY DEF Numbered
<1>3. i \in Nat /\ s \in Nat
  BY Spans DEF Numbered
<1>4. Span * s \in Nat /\ Period * q \in Nat /\ Period * r \in Nat
  BY <1>1, <1>2, <1>3, Spans
<1>5. Period * (r - q) = Period * r - Period * q
  BY <1>1, <1>2, Spans
<1>6. c - b = Period * (r - q)
  BY <1>1, <1>2, <1>3, <1>4, <1>5
<1>7. r - q \in Int
  OBVIOUS
<1>8. (Period * (r - q)) % Period = 0
  BY <1>7, Spans, Multiple
<1> QED BY <1>6, <1>8, Zenon

(***************************************************************************)
(* Until the id has wrapped around it counts the mailboxes.                *)
(***************************************************************************)
LEMMA FirstRound ==
  ASSUME NEW b \in Nat, b <= max_pid_id, NEW i, NEW s, Numbered(b, i, s)
  PROVE  i = b /\ s = 0
<1>1. PICK q \in Nat : b = i + Span * s + Period * q
  BY DEF Numbered
<1>2. i \in Nat /\ s \in Nat
  BY Spans DEF Numbered
<1>3. Span * s \in Nat /\ Period * q \in Nat
  BY <1>1, <1>2, Spans
<1>4. b < Span /\ Span <= Period
  BY Spans DEF Span
<1>5. s = 0
  <2> SUFFICES ASSUME s # 0 PROVE FALSE
    OBVIOUS
  <2>1. Span * s = Span * (s - 1) + Span /\ Span * (s - 1) \in Nat
    BY <1>2, Spans
  <2> QED BY <1>1, <1>2, <1>3, <1>4, <2>1, Spans
<1>6. q = 0
  <2> SUFFICES ASSUME q # 0 PROVE FALSE
    OBVIOUS
  <2>1. Period * q = Period * (q - 1) + Period /\ Period * (q - 1) \in Nat
    BY <1>1, Spans
  <2> QED BY <1>1, <1>2, <1>3, <1>4, <2>1, Spans
<1>7. Span * 0 = 0 /\ Period * 0 = 0
  BY Spans
<1> QED BY <1>1, <1>2, <1>5, <1>6, <1>7

(***************************************************************************)
(* operator<, on keys made of numbers.                                     *)
(***************************************************************************)
Numbers(p) == p.id \in Nat /\ p.serial \in Nat

LEMMA LessFacts ==
  ASSUME NEW p, NEW q, Numbers(p), Numbers(q)
  PROVE  /\ ~Less(p, p)
         /\ ~Less(p, q) /\ ~Less(q, p) <=> SameNumbers(p, q)
         /\ Less(p, q) /\ Less(q, p) <=> Unordered(p, q) \/ Unordered(q, p)
<1>1. p.id \in Nat /\ p.serial \in Nat /\ q.id \in Nat /\ q.serial \in Nat
  BY DEF Numbers
<1> QED BY <1>1 DEF Less, SameNumbers, Unordered

(***************************************************************************)
(* What find does with a map of no, one and two entries.                   *)
(***************************************************************************)
LEMMA FindNone == ASSUME NEW p, tree = <<>> PROVE find(p) = 0
BY DEF find, Candidate

LEMMA FindOne ==
  ASSUME NEW p, NEW b, tree = <<File(b)>>
  PROVE  find(p) = IF Less(pid_of[b], p) \/ Less(p, pid_of[b]) THEN 0 ELSE 1
<1>1. Key(1) = pid_of[b] /\ Len(tree) = 1 /\ tree # <<>>
  BY DEF Key, File
<1>2. Less(pid_of[b], p) => Candidate(p) = 0
  BY <1>1 DEF Candidate
<1>3. ~Less(pid_of[b], p) => Candidate(p) = 1
  BY <1>1 DEF Candidate
<1> QED BY <1>1, <1>2, <1>3 DEF find

LEMMA TwoEntries ==
  ASSUME NEW b, NEW c, tree = <<File(b), File(c)>>
  PROVE  /\ Key(1) = pid_of[b] /\ Key(2) = pid_of[c]
         /\ Len(tree) = 2 /\ tree # <<>>
BY DEF Key, File

LEMMA FindLeft ==
  ASSUME NEW p, NEW b, NEW c, tree = <<File(b), File(c)>>, left = TRUE
  PROVE  find(p) = IF Less(pid_of[b], p) THEN 0
                   ELSE IF Less(pid_of[c], p)
                        THEN IF Less(p, pid_of[b]) THEN 0 ELSE 1
                        ELSE IF Less(p, pid_of[c]) THEN 0 ELSE 2
<1>1. /\ Key(1) = pid_of[b] /\ Key(2) = pid_of[c] /\ Len(tree) = 2 /\ tree # <<>>
  BY TwoEntries
<1>2. Less(pid_of[b], p) => Candidate(p) = 0
  BY <1>1 DEF Candidate
<1>3. ~Less(pid_of[b], p) /\ Less(pid_of[c], p) => Candidate(p) = 1
  BY <1>1 DEF Candidate
<1>4. ~Less(pid_of[b], p) /\ ~Less(pid_of[c], p) => Candidate(p) = 2
  BY <1>1 DEF Candidate
<1> QED BY <1>1, <1>2, <1>3, <1>4 DEF find

LEMMA FindRight ==
  ASSUME NEW p, NEW b, NEW c, tree = <<File(b), File(c)>>, left = FALSE
  PROVE  find(p) = IF Less(pid_of[b], p)
                   THEN IF Less(pid_of[c], p) \/ Less(p, pid_of[c]) THEN 0 ELSE 2
                   ELSE IF Less(p, pid_of[b]) THEN 0 ELSE 1
<1>1. /\ Key(1) = pid_of[b] /\ Key(2) = pid_of[c] /\ Len(tree) = 2 /\ tree # <<>>
  BY TwoEntries
<1>2. Less(pid_of[b], p) /\ Less(pid_of[c], p) => Candidate(p) = 0
  BY <1>1 DEF Candidate
<1>3. Less(pid_of[b], p) /\ ~Less(pid_of[c], p) => Candidate(p) = 2
  BY <1>1 DEF Candidate
<1>4. ~Less(pid_of[b], p) => Candidate(p) = 1
  BY <1>1 DEF Candidate
<1> QED BY <1>1, <1>2, <1>3, <1>4 DEF find

(***************************************************************************)
(* A search that ends at an entry has found the numbers looked for, and an *)
(* entry's own numbers lead to it.                                         *)
(***************************************************************************)
LEMMA FindInTwo ==
  ASSUME NEW b, NEW c, HoldsTwo(b, c), Numbers(pid_of[b]), Numbers(pid_of[c])
  PROVE  /\ find(pid_of[b]) = 1 /\ find(pid_of[c]) = 2
         /\ \A p : Numbers(p) =>
              /\ find(p) \in {0, 1, 2}
              /\ find(p) = 1 => SameNumbers(p, pid_of[b])
              /\ find(p) = 2 => SameNumbers(p, pid_of[c])
<1>1. tree = <<File(b), File(c)>>
  BY DEF HoldsTwo
<1>2. ~Less(pid_of[b], pid_of[b]) /\ ~Less(pid_of[c], pid_of[c])
  BY LessFacts
<1>3. CASE left = TRUE /\ Below(pid_of[c], pid_of[b])
  <2>1. find(pid_of[b]) = 1 /\ find(pid_of[c]) = 2
    BY <1>1, <1>2, <1>3, FindLeft DEF Below
  <2>2. ASSUME NEW p, Numbers(p)
        PROVE  /\ find(p) \in {0, 1, 2}
               /\ find(p) = 1 => SameNumbers(p, pid_of[b])
               /\ find(p) = 2 => SameNumbers(p, pid_of[c])
    <3>1. /\ ~Less(p, pid_of[b]) /\ ~Less(pid_of[b], p) => SameNumbers(p, pid_of[b])
          /\ ~Less(p, pid_of[c]) /\ ~Less(pid_of[c], p) => SameNumbers(p, pid_of[c])
      BY <2>2, LessFacts
    <3> QED BY <1>1, <1>3, <3>1, FindLeft
  <2> QED BY <2>1, <2>2
<1>4. CASE left = FALSE /\ Below(pid_of[b], pid_of[c])
  <2>1. find(pid_of[b]) = 1 /\ find(pid_of[c]) = 2
    BY <1>1, <1>2, <1>4, FindRight DEF Below
  <2>2. ASSUME NEW p, Numbers(p)
        PROVE  /\ find(p) \in {0, 1, 2}
               /\ find(p) = 1 => SameNumbers(p, pid_of[b])
               /\ find(p) = 2 => SameNumbers(p, pid_of[c])
    <3>1. /\ ~Less(p, pid_of[b]) /\ ~Less(pid_of[b], p) => SameNumbers(p, pid_of[b])
          /\ ~Less(p, pid_of[c]) /\ ~Less(pid_of[c], p) => SameNumbers(p, pid_of[c])
      BY <2>2, LessFacts
    <3>2. find(p) = IF Less(pid_of[b], p)
                    THEN IF Less(pid_of[c], p) \/ Less(p, pid_of[c]) THEN 0 ELSE 2
                    ELSE IF Less(p, pid_of[b]) THEN 0 ELSE 1
      BY <1>1, <1>4, FindRight
    <3> QED BY <3>1, <3>2
  <2> QED BY <2>1, <2>2
<1> QED BY <1>3, <1>4 DEF HoldsTwo

LEMMA FindInOne ==
  ASSUME NEW b, HoldsOne(b), Numbers(pid_of[b])
  PROVE  /\ find(pid_of[b]) = 1
         /\ \A p : Numbers(p) =>
              find(p) \in {0, 1} /\ (find(p) = 1 => SameNumbers(p, pid_of[b]))
<1>1. tree = <<File(b)>>
  BY DEF HoldsOne
<1>2. ~Less(pid_of[b], pid_of[b])
  BY LessFacts
<1>3. ASSUME NEW p, Numbers(p)
      PROVE  find(p) \in {0, 1} /\ (find(p) = 1 => SameNumbers(p, pid_of[b]))
  <2>1. ~Less(p, pid_of[b]) /\ ~Less(pid_of[b], p) => SameNumbers(p, pid_of[b])
    BY <1>3, LessFacts
  <2> QED BY <1>1, <2>1, FindOne
<1> QED BY <1>1, <1>2, <1>3, FindOne

LEMMA PidNumbers ==
  ASSUME PidsNumbered, NEW b \in 1..made PROVE Numbers(pid_of[b])
<1>1. Numbered(b, pid_of[b].id, pid_of[b].serial)
  BY DEF PidsNumbered
<1> QED BY <1>1, Spans DEF Numbered, Numbers

LEMMA SamePids ==
  ASSUME PidsNumbered, made \in Nat, NEW b \in 1..made, NEW c \in 1..made,
         SameNumbers(pid_of[b], pid_of[c])
  PROVE  (c - b) % Period = 0
<1>1. /\ Numbered(b, pid_of[b].id, pid_of[b].serial)
      /\ Numbered(c, pid_of[c].id, pid_of[c].serial)
  BY DEF PidsNumbered
<1>2. Numbered(c, pid_of[b].id, pid_of[b].serial)
  BY <1>1, Zenon DEF SameNumbers
<1>3. b \in Nat /\ c \in Nat
  OBVIOUS
<1> QED BY <1>1, <1>2, <1>3, SameNumbersApart

(***************************************************************************)
(* What the map holds.                                                     *)
(***************************************************************************)
LEMMA HeldFacts ==
  ASSUME Held, made \in Nat
  PROVE  /\ Len(tree) \in 0..2 /\ open \subseteq 1..made
         /\ \A i \in 1..Len(tree) :
              \E c \in open : Key(i) = pid_of[c] /\ tree[i].box = c
<1>1. CASE HoldsNone
  BY <1>1 DEF HoldsNone
<1>2. ASSUME NEW b \in 1..made, HoldsOne(b)
      PROVE  /\ Len(tree) \in 0..2 /\ open \subseteq 1..made
             /\ \A i \in 1..Len(tree) :
                  \E c \in open : Key(i) = pid_of[c] /\ tree[i].box = c
  <2>1. /\ Len(tree) = 1 /\ tree[1] = File(b) /\ open = {b}
    BY <1>2 DEF HoldsOne
  <2>2. Key(1) = pid_of[b] /\ tree[1].box = b
    BY <2>1 DEF Key, File
  <2> QED BY <2>1, <2>2
<1>3. ASSUME NEW b \in 1..made, NEW c \in 1..made, HoldsTwo(b, c)
      PROVE  /\ Len(tree) \in 0..2 /\ open \subseteq 1..made
             /\ \A i \in 1..Len(tree) :
                  \E d \in open : Key(i) = pid_of[d] /\ tree[i].box = d
  <2>1. /\ Len(tree) = 2 /\ tree[1] = File(b) /\ tree[2] = File(c) /\ open = {b, c}
    BY <1>3 DEF HoldsTwo
  <2>2. Key(1) = pid_of[b] /\ tree[1].box = b /\ Key(2) = pid_of[c] /\ tree[2].box = c
    BY <2>1 DEF Key, File
  <2>3. \A i \in 1..Len(tree) : i = 1 \/ i = 2
    BY <2>1
  <2> QED BY <2>1, <2>2, <2>3
<1> QED BY <1>1, <1>2, <1>3 DEF Held

LEMMA FiledFinds == Filed => PidFindsMailbox
<1> SUFFICES ASSUME Filed PROVE PidFindsMailbox
  OBVIOUS
<1> DEFINE Found(b) ==
      \/ Lookup(pid_of[b]) = b /\ b \in open
      \/ Lookup(pid_of[b]) = NoBox /\ b \notin open
      \/ /\ Lookup(pid_of[b]) # NoBox /\ b \notin open
         /\ (Lookup(pid_of[b]) - b) % Period = 0
<1>1. ASSUME ~muddled, ~raced, NEW b \in 1..made PROVE Found(b)
  <2>0. PidsNumbered /\ Held /\ made \in Nat
    BY <1>1 DEF Filed
  <2>1. CASE HoldsNone
    <3>1. find(pid_of[b]) = 0 /\ b \notin open
      BY <2>1, FindNone DEF HoldsNone
    <3> QED BY <3>1 DEF Lookup
  <2>2. ASSUME NEW c \in 1..made, HoldsOne(c) PROVE Found(b)
    <3>1. Numbers(pid_of[b]) /\ Numbers(pid_of[c])
      BY <2>0, PidNumbers
    <3>2. /\ find(pid_of[c]) = 1 /\ find(pid_of[b]) \in {0, 1}
          /\ find(pid_of[b]) = 1 => SameNumbers(pid_of[b], pid_of[c])
      BY <2>2, <3>1, FindInOne
    <3>3. tree[1].box = c /\ open = {c} /\ c # NoBox
      BY <2>2 DEF HoldsOne, File, NoBox
    <3>4. CASE b = c
      <4>1. Lookup(pid_of[b]) = b /\ b \in open
        BY <3>2, <3>3, <3>4 DEF Lookup
      <4> QED BY <4>1
    <3>5. CASE b # c /\ find(pid_of[b]) = 0
      <4>1. Lookup(pid_of[b]) = NoBox /\ b \notin open
        BY <3>3, <3>5 DEF Lookup
      <4> QED BY <4>1
    <3>6. CASE b # c /\ find(pid_of[b]) = 1
      <4>1. Lookup(pid_of[b]) = c /\ b \notin open
        BY <3>3, <3>6 DEF Lookup
      <4>2. (c - b) % Period = 0
        BY <2>0, <3>2, <3>6, SamePids
      <4> QED BY <3>3, <4>1, <4>2
    <3> QED BY <3>2, <3>4, <3>5, <3>6
  <2>3. ASSUME NEW c \in 1..made, NEW d \in 1..made, HoldsTwo(c, d) PROVE Found(b)
    <3>1. Numbers(pid_of[b]) /\ Numbers(pid_of[c]) /\ Numbers(pid_of[d])
      BY <2>0, PidNumbers
    <3>2. /\ find(pid_of[c]) = 1 /\ find(pid_of[d]) = 2
          /\ find(pid_of[b]) \in {0, 1, 2}
          /\ find(pid_of[b]) = 1 => SameNumbers(pid_of[b], pid_of[c])
          /\ find(pid_of[b]) = 2 => SameNumbers(pid_of[b], pid_of[d])
      BY <2>3, <3>1, FindInTwo
    <3>3. /\ tree[1].box = c /\ tree[2].box = d /\ open = {c, d}
          /\ c # NoBox /\ d # NoBox
      BY <2>3 DEF HoldsTwo, File, NoBox
    <3>4. CASE b = c
      <4>1. Lookup(pid_of[b]) = b /\ b \in open
        BY <3>2, <3>3, <3>4 DEF Lookup
      <4> QED BY <4>1
    <3>5. CASE b = d
      <4>1. Lookup(pid_of[b]) = b /\ b \in open
        BY <3>2, <3>3, <3>5 DEF Lookup
      <4> QED BY <4>1
    <3>6. CASE b # c /\ b # d /\ find(pid_of[b]) = 0
      <4>1. Lookup(pid_of[b]) = NoBox /\ b \notin open
        BY <3>3, <3>6 DEF Lookup
      <4> QED BY <4>1
    <3>7. CASE b # c /\ b # d /\ find(pid_of[b]) = 1
      <4>1. Lookup(pid_of[b]) = c /\ b \notin open
        BY <3>3, <3>7 DEF Lookup
      <4>2. (c - b) % Period = 0
        BY <2>0, <3>2, <3>7, SamePids
      <4> QED BY <3>3, <4>1, <4>2
    <3>8. CASE b # c /\ b # d /\ find(pid_of[b]) = 2
      <4>1. Lookup(pid_of[b]) = d /\ b \notin open
        BY <3>3, <3>8 DEF Lookup
      <4>2. (d - b) % Period = 0
        BY <2>0, <3>2, <3>8, SamePids
      <4> QED BY <3>3, <4>1, <4>2
    <3> QED BY <3>2, <3>4, <3>5, <3>6, <3>7, <3>8
  <2> QED BY <2>0, <2>1, <2>2, <2>3 DEF Held
<1>2. muddled /\ ~raced => made > max_pid_id
  BY DEF Filed
<1> QED BY <1>1, <1>2 DEF PidFindsMailbox

LEMMA StepsApart ==
  /\ "increment" \in Creating /\ "wrap" \in Creating /\ "insert" \in Creating
  /\ "idle" \notin Creating /\ "connected" \notin Creating
  /\ "requested" \notin Creating /\ "answered" \notin Creating
  /\ "accept" \notin Creating /\ "asked" \notin Creating /\ "told" \notin Creating
  /\ {"increment", "wrap"} \subseteq Creating
BY DEF Creating

LEMMA FiledInitially == Init => Filed
<1> SUFFICES ASSUME Init PROVE Filed
  OBVIOUS
<1>1. /\ job = [t \in Threads |-> job[t]] /\ \A t \in Threads : job[t].step = "idle"
  BY DEF Init, Resting
<1>2. /\ made = 0 /\ asked = 0 /\ pid_id = 1 /\ serial = 0
      /\ pid_of = [b \in Boxes |-> pid_of[b]]
      /\ raced = FALSE /\ muddled = FALSE /\ HoldsNone
  BY DEF Init, HoldsNone
<1>3. Counters /\ PidsNumbered
  <2>1. Numbered(made + 1, pid_id, serial)
    BY <1>2, FirstNumber
  <2>2. \A t \in Threads : ~Counting(t) /\ ~At(t, "increment") /\ ~At(t, "wrap")
    BY <1>1 DEF Counting, At
  <2> QED BY <1>2, <2>1, <2>2 DEF Counters, PidsNumbered
<1>4. Begun
  <2>1. Creators = {}
    BY <1>1, StepsApart DEF Creators
  <2>2. IsFiniteSet({}) /\ Cardinality({}) = 0
    BY FS_EmptySet
  <2>3. Len(tree) = 0
    BY <1>2 DEF HoldsNone
  <2> QED BY <2>1, <2>2, <2>3 DEF Begun, MaxEntries
<1> QED BY <1>1, <1>2, <1>3, <1>4 DEF Filed, Held

(***************************************************************************)
(* Steps that leave the map as it is.                                      *)
(***************************************************************************)
LEMMA HeldKept ==
  ASSUME Held, UNCHANGED <<tree, left, open>>, made \in Nat, made' \in Nat,
         made <= made', \A b \in 1..made : pid_of'[b] = pid_of[b]
  PROVE  Held'
<1>1. \A b \in 1..made : File(b)' = File(b) /\ b \in 1..made'
  BY DEF File
<1>2. \A p, q : Less(p, q)' <=> Less(p, q)
  BY DEF Less
<1>3. CASE HoldsNone
  BY <1>3 DEF HoldsNone, Held
<1>4. ASSUME NEW b \in 1..made, HoldsOne(b) PROVE Held'
  <2>1. HoldsOne(b)'
    BY <1>1, <1>4 DEF HoldsOne
  <2> QED BY <1>1, <2>1 DEF Held
<1>5. ASSUME NEW b \in 1..made, NEW c \in 1..made, HoldsTwo(b, c) PROVE Held'
  <2>1. tree' = <<File(b)', File(c)'>> /\ open' = {b, c} /\ b # c /\ left' = left
    BY <1>1, <1>5 DEF HoldsTwo
  <2>2. pid_of'[b] = pid_of[b] /\ pid_of'[c] = pid_of[c]
    OBVIOUS
  <2>3. \/ left = TRUE /\ Below(pid_of[c], pid_of[b])
        \/ left = FALSE /\ Below(pid_of[b], pid_of[c])
    BY <1>5 DEF HoldsTwo
  <2>4. HoldsTwo(b, c)'
    BY <1>1, <2>1, <2>2, <2>3 DEF HoldsTwo
  <2> QED BY <1>1, <2>4 DEF Held
<1> QED BY <1>3, <1>4, <1>5 DEF Held

LEMMA BegunKept ==
  ASSUME Begun, made \in Nat, made' \in Nat, made <= made',
         UNCHANGED <<tree, open>>,
         \A u \in Threads :
           /\ job'[u].step \in Creating <=> job[u].step \in Creating
           /\ job'[u].step \in Creating => job'[u].box = job[u].box
  PROVE  Begun'
<1>1. Creators' = Creators
  BY DEF Creators
<1>2. \A u \in Creators : job'[u].box = job[u].box
  BY DEF Creators
<1> QED BY <1>1, <1>2 DEF Begun

(***************************************************************************)
(* The steps of registration and of lookups at EPMD.                       *)
(***************************************************************************)
LEMMA ElsewhereFiled ==
  ASSUME Filed, UNCHANGED <<pid_id, serial, made, pid_of, raced, boxes>>,
         asked' \in Nat, job' = [u \in Threads |-> job'[u]],
         \A u \in Threads :
           \/ job'[u] = job[u]
           \/ job[u].step \notin Creating /\ job'[u].step \notin Creating
  PROVE  Filed'
<1>1. \A u \in Threads :
        /\ Counting(u)' <=> Counting(u)
        /\ At(u, "increment")' <=> At(u, "increment")
        /\ At(u, "wrap")' <=> At(u, "wrap")
  BY StepsApart DEF Counting, At
<1>2. UNCHANGED <<tree, left, open, muddled>>
  BY DEF boxes
<1>3. Counters => Counters'
  BY <1>1 DEF Counters
<1>4. PidsNumbered => PidsNumbered'
  BY DEF PidsNumbered
<1>5. ~raced /\ ~muddled => Held' /\ Begun'
  BY <1>2, HeldKept, BegunKept DEF Filed
<1> QED BY <1>2, <1>3, <1>4, <1>5 DEF Filed

LEMMA MovesElsewhere ==
  ASSUME Filed, NEW t \in Threads, NEW s, job[t].step \notin Creating,
         Goto(t, s, NoBox), s \notin Creating
  PROVE  /\ job' = [u \in Threads |-> job'[u]]
         /\ \A u \in Threads :
              \/ job'[u] = job[u]
              \/ job[u].step \notin Creating /\ job'[u].step \notin Creating
BY Moves DEF Filed

LEMMA RestsElsewhere ==
  ASSUME Filed, NEW t \in Threads, job[t].step \notin Creating, throws(t)
  PROVE  /\ job' = [u \in Threads |-> job'[u]]
         /\ \A u \in Threads :
              \/ job'[u] = job[u]
              \/ job[u].step \notin Creating /\ job'[u].step \notin Creating
<1>1. Goto(t, "idle", NoBox)
  BY DEF throws, Goto, Resting
<1> QED BY <1>1, StepsApart, MovesElsewhere

LEMMA EpmdFiled ==
  ASSUME Filed, NEW t \in Threads,
         \/ epmd_connect(t) \/ alive2_request(t) \/ epmd_registers(t)
         \/ receive_alive_response(t) \/ start_accept_incoming(t)
         \/ port_please2_request(t) \/ epmd_tells(t) \/ receive_port_resp(t)
  PROVE  Filed'
<1>0. asked \in Nat /\ job = [u \in Threads |-> job[u]]
  BY DEF Filed
<1>1. /\ UNCHANGED <<pid_id, serial, made, pid_of, raced, boxes>>
      /\ asked' = asked \/ asked' = asked + 1
  <2>1. CASE epmd_connect(t)
    BY <2>1 DEF epmd_connect, pids
  <2>2. CASE alive2_request(t)
    BY <2>2 DEF alive2_request, pids
  <2>3. CASE epmd_registers(t)
    BY <2>3 DEF epmd_registers, pids
  <2>4. CASE receive_alive_response(t)
    BY <2>4 DEF receive_alive_response
  <2>5. CASE start_accept_incoming(t)
    BY <2>5 DEF start_accept_incoming, pids
  <2>6. CASE port_please2_request(t)
    BY <2>6 DEF port_please2_request, pids
  <2>7. CASE epmd_tells(t)
    BY <2>7 DEF epmd_tells, pids
  <2>8. CASE receive_port_resp(t)
    BY <2>8 DEF receive_port_resp, pids
  <2> QED BY <2>1, <2>2, <2>3, <2>4, <2>5, <2>6, <2>7, <2>8
<1>2. /\ job[t].step \notin Creating
      /\ \/ throws(t) \/ UNCHANGED job
         \/ \E s \in {"connected", "requested", "answered", "accept", "idle",
                      "asked", "told"} : Goto(t, s, NoBox)
  <2>1. CASE epmd_connect(t)
    BY <2>1, StepsApart DEF epmd_connect, At
  <2>2. CASE alive2_request(t)
    BY <2>2, StepsApart DEF alive2_request, At
  <2>3. CASE epmd_registers(t)
    BY <2>3, StepsApart DEF epmd_registers, At
  <2>4. CASE receive_alive_response(t)
    <3>1. At(t, "answered") /\ (throws(t) \/ Goto(t, "accept", NoBox))
      BY <2>4 DEF receive_alive_response
    <3> QED BY <3>1, StepsApart DEF At
  <2>5. CASE start_accept_incoming(t)
    BY <2>5, StepsApart DEF start_accept_incoming, At
  <2>6. CASE port_please2_request(t)
    BY <2>6, StepsApart DEF port_please2_request, At
  <2>7. CASE epmd_tells(t)
    BY <2>7, StepsApart DEF epmd_tells, At
  <2>8. CASE receive_port_resp(t)
    <3>1. At(t, "told") /\ throws(t)
      BY <2>8 DEF receive_port_resp
    <3> QED BY <3>1, StepsApart DEF At
  <2> QED BY <2>1, <2>2, <2>3, <2>4, <2>5, <2>6, <2>7, <2>8
<1>3. asked' \in Nat
  BY <1>0, <1>1
<1>4. CASE throws(t)
  BY <1>1, <1>2, <1>3, <1>4, RestsElsewhere, ElsewhereFiled
<1>5. CASE UNCHANGED job
  BY <1>0, <1>1, <1>3, <1>5, ElsewhereFiled
<1>6. ASSUME NEW s \in {"connected", "requested", "answered", "accept", "idle",
                        "asked", "told"}, Goto(t, s, NoBox)
      PROVE  Filed'
  <2>1. s \notin Creating
    BY <1>6, StepsApart
  <2> QED BY <1>1, <1>2, <1>3, <1>6, <2>1, MovesElsewhere, ElsewhereFiled
<1> QED BY <1>2, <1>4, <1>5, <1>6

(***************************************************************************)
(* make_pid: the counters become the next mailbox's numbers.               *)
(***************************************************************************)
LEMMA MakePidFiled ==
  ASSUME Filed, NEW t \in Threads, make_pid(t) PROVE Filed'
<1>0. /\ made \in Nat /\ asked \in Nat /\ job = [u \in Threads |-> job[u]]
      /\ pid_of = [b \in Boxes |-> pid_of[b]]
      /\ raced \in BOOLEAN /\ muddled \in BOOLEAN
  BY DEF Filed
<1>1. /\ job[t].step = "idle" /\ made + 3 * asked < MaxSpent /\ Entries < MaxEntries
      /\ made' = made + 1
      /\ pid_of' = [pid_of EXCEPT ![made + 1] = Pid(pid_id, serial, creation)]
      /\ Goto(t, "increment", made + 1)
      /\ UNCHANGED <<pid_id, serial, tree, left, open, muddled, asked>>
  BY DEF make_pid, At, Spent, boxes, epmd
<1>2. raced' = (raced \/ \E u \in Threads : job[u].step \in {"increment", "wrap"})
  BY DEF make_pid
<1>3. raced' \in BOOLEAN /\ (~raced' => ~raced /\ \A u \in Threads : ~Counting(u))
  BY <1>0, <1>2, Zenon DEF Counting
<1>4. made + 1 \in Boxes /\ made' \in Nat
  BY <1>0, <1>1, StartAssumption DEF Boxes
<1>5. /\ pid_of' = [b \in Boxes |-> pid_of'[b]]
      /\ pid_of'[made + 1] = Pid(pid_id, serial, creation)
      /\ \A b \in Boxes \ {made + 1} : pid_of'[b] = pid_of[b]
  BY <1>0, <1>1, <1>4
<1>6. \A b \in 1..made : pid_of'[b] = pid_of[b]
  <2>1. 1..made \subseteq Boxes \ {made + 1}
    BY <1>0, <1>4, StartAssumption DEF Boxes
  <2> QED BY <1>5, <2>1
<1>7. /\ job' = [u \in Threads |-> job'[u]]
      /\ job'[t].step = "increment" /\ job'[t].box = made + 1
      /\ \A u \in Threads \ {t} : job'[u] = job[u]
  BY <1>0, <1>1, Moves
<1>8. ASSUME ~raced' PROVE Counters' /\ PidsNumbered'
  <2>1. Counters /\ PidsNumbered /\ \A u \in Threads : ~Counting(u)
    BY <1>3, <1>8 DEF Filed
  <2>2. Numbered(made + 1, pid_id, serial)
    BY <2>1 DEF Counters
  <2>3. Counters'
    <3>1. /\ Counting(t)' /\ ~At(t, "wrap")'
          /\ \A u \in Threads \ {t} :
               ~Counting(u)' /\ ~At(u, "increment")' /\ ~At(u, "wrap")'
      BY <1>7, <2>1 DEF Counting, At
    <3>2. Numbered(made, pid_id, serial)'
      BY <1>1, <2>2 DEF Numbered
    <3> QED BY <3>1, <3>2 DEF Counters
  <2>4. PidsNumbered'
    <3>1. \A b \in 1..made' : b = made + 1 \/ b \in 1..made
      BY <1>0, <1>1
    <3>2. \A b \in 1..made : Numbered(b, pid_of'[b].id, pid_of'[b].serial)
      BY <1>6, <2>1 DEF PidsNumbered
    <3>3. Numbered(made + 1, pid_of'[made + 1].id, pid_of'[made + 1].serial)
      BY <1>5, <2>2 DEF Pid
    <3>4. \A b \in 1..made' : Numbered(b, pid_of'[b].id, pid_of'[b].serial)
      BY <3>1, <3>2, <3>3
    <3> QED BY <3>4 DEF PidsNumbered, Numbered
  <2> QED BY <2>3, <2>4
<1>9. ASSUME ~raced', ~muddled' PROVE Held' /\ Begun'
  <2>1. Held /\ Begun
    BY <1>1, <1>3, <1>9 DEF Filed
  <2>2. Held'
    BY <1>0, <1>1, <1>4, <1>6, <2>1, HeldKept
  <2>3. open \subseteq 1..made /\ Len(tree) \in 0..2
    BY <1>0, <2>1, HeldFacts
  <2>4. Creators' = Creators \cup {t} /\ t \notin Creators
    BY <1>1, <1>7, StepsApart DEF Creators
  <2>5. /\ IsFiniteSet(Creators)
        /\ IsFiniteSet(Creators \cup {t})
        /\ Cardinality(Creators \cup {t}) = Cardinality(Creators) + 1
        /\ Cardinality(Creators) \in Nat
    BY <2>1, <2>4, FS_AddElement, FS_CardinalityType DEF Begun
  <2>6. Len(tree) + Cardinality(Creators) < MaxEntries
    BY <1>1 DEF Entries, Creators
  <2>7. \A u \in Creators : job'[u].box = job[u].box /\ job[u].box \in 1..made
    BY <1>7, <2>1, <2>4 DEF Begun, Creators
  <2>8. ASSUME NEW u \in Creators'
        PROVE  job'[u].box \in 1..made' /\ job'[u].box \notin open'
    <3>1. CASE u \in Creators
      <4>1. job[u].box \in 1..made /\ job[u].box \notin open
        BY <2>1, <3>1 DEF Begun
      <4>2. job'[u].box = job[u].box
        BY <2>7, <3>1
      <4> QED BY <1>0, <1>1, <4>1, <4>2
    <3>2. CASE u = t
      <4>1. made + 1 \notin 1..made /\ made + 1 \in 1..made'
        BY <1>0, <1>1
      <4> QED BY <1>1, <1>7, <2>3, <3>2, <4>1
    <3> QED BY <2>4, <3>1, <3>2
  <2>9. ASSUME NEW u \in Creators', NEW v \in Creators', job'[u].box = job'[v].box
        PROVE  u = v
    <3>1. made + 1 \notin 1..made
      BY <1>0
    <3>2. CASE u \in Creators /\ v \in Creators
      <4>1. job[u].box = job[v].box
        BY <2>7, <2>9, <3>2
      <4> QED BY <2>1, <3>2, <4>1 DEF Begun
    <3>3. u \in Creators => v # t
      BY <1>7, <2>7, <2>9, <3>1
    <3>4. v \in Creators => u # t
      BY <1>7, <2>7, <2>9, <3>1
    <3> QED BY <2>4, <3>2, <3>3, <3>4
  <2>10. IsFiniteSet(Creators') /\ Len(tree') + Cardinality(Creators') <= MaxEntries
    BY <1>1, <2>3, <2>4, <2>5, <2>6 DEF MaxEntries
  <2> QED BY <2>2, <2>8, <2>9, <2>10 DEF Begun
<1>10. muddled' /\ ~raced' => made' > max_pid_id
  BY <1>0, <1>1, <1>3, Spans DEF Filed
<1> QED BY <1>0, <1>1, <1>3, <1>4, <1>5, <1>7, <1>8, <1>9, <1>10 DEF Filed

(***************************************************************************)
(* increment and wrap: the counters move on, and only they.                *)
(***************************************************************************)
LEMMA CounterStep ==
  ASSUME Filed, NEW t \in Threads, Counting(t), NEW s \in Creating,
         Goto(t, s, job[t].box),
         UNCHANGED <<made, pid_of, raced, tree, left, open, muddled, asked>>,
         ~raced => Counters'
  PROVE  Filed'
<1>1. /\ job' = [u \in Threads |-> job'[u]]
      /\ job'[t].step = s /\ job'[t].box = job[t].box
      /\ \A u \in Threads \ {t} : job'[u] = job[u]
  BY Moves DEF Filed
<1>2. \A u \in Threads :
        /\ job'[u].step \in Creating <=> job[u].step \in Creating
        /\ job'[u].step \in Creating => job'[u].box = job[u].box
  BY <1>1, StepsApart DEF Counting
<1>3. ~raced /\ ~muddled => Held' /\ Begun'
  BY <1>2, HeldKept, BegunKept DEF Filed
<1>4. PidsNumbered => PidsNumbered'
  BY DEF PidsNumbered
<1> QED BY <1>1, <1>3, <1>4 DEF Filed

LEMMA IncrementFiled ==
  ASSUME Filed, NEW t \in Threads, increment(t) PROVE Filed'
<1> DEFINE next == IF pid_id + 1 > max_pid_id THEN "wrap" ELSE "insert"
<1>1. /\ At(t, "increment") /\ pid_id' = pid_id + 1 /\ serial' = serial
      /\ Goto(t, next, job[t].box)
      /\ UNCHANGED <<made, pid_of, raced, tree, left, open, muddled, asked>>
  BY DEF increment, boxes, epmd
<1>2. Counting(t) /\ next \in Creating
  BY <1>1, StepsApart DEF Counting, At
<1>3. ASSUME ~raced PROVE Counters'
  <2>1. /\ Counters /\ made \in Nat
    BY <1>3 DEF Filed
  <2>2. Numbered(made, pid_id, serial)
    BY <1>1, <2>1 DEF Counters
  <2>3. /\ job'[t].step = next /\ \A u \in Threads \ {t} : job'[u] = job[u]
    BY <1>1, Moves DEF Filed
  <2>4. \A u \in Threads \ {t} : ~Counting(u)'
    BY <1>2, <2>1, <2>3 DEF Counters, Counting
  <2>5. \A u \in Threads \ {t} : ~At(u, "increment")' /\ ~At(u, "wrap")'
    BY <2>4 DEF Counting, At
  <2>6. pid_id \in 0..max_pid_id
    BY <2>2 DEF Numbered
  <2>7. CASE pid_id < max_pid_id
    <3>1. next = "insert"
      BY <2>6, <2>7, Spans
    <3>2. ~Counting(t)' /\ ~At(t, "increment")' /\ ~At(t, "wrap")'
      BY <2>3, <3>1 DEF Counting, At
    <3>3. Numbered(made + 1, pid_id + 1, serial)
      BY <2>1, <2>2, <2>7, NextNumber
    <3>4. Numbered(made + 1, pid_id, serial)'
      BY <1>1, <3>3 DEF Numbered
    <3> QED BY <2>4, <2>5, <3>2, <3>4 DEF Counters
  <2>8. CASE pid_id = max_pid_id
    <3>1. next = "wrap"
      BY <2>6, <2>8, Spans
    <3>2. Counting(t)' /\ ~At(t, "increment")'
      BY <2>3, <3>1 DEF Counting, At
    <3>3. pid_id' = Span /\ Numbered(made, max_pid_id, serial)'
      BY <1>1, <2>2, <2>8 DEF Span, Numbered
    <3>4. Span' = Span
      BY DEF Span
    <3> QED BY <2>4, <2>5, <3>2, <3>3, <3>4 DEF Counters
  <2> QED BY <2>6, <2>7, <2>8, Spans
<1> QED BY <1>1, <1>2, <1>3, CounterStep

LEMMA WrapFiled ==
  ASSUME Filed, NEW t \in Threads, wrap(t) PROVE Filed'
<1>1. /\ At(t, "wrap") /\ pid_id' = 0
      /\ serial' = IF serial + 1 > max_serial THEN 0 ELSE serial + 1
      /\ Goto(t, "insert", job[t].box)
      /\ UNCHANGED <<made, pid_of, raced, tree, left, open, muddled, asked>>
  BY DEF wrap, boxes, epmd
<1>2. Counting(t) /\ "insert" \in Creating
  BY <1>1, StepsApart DEF Counting, At
<1>3. ASSUME ~raced PROVE Counters'
  <2>1. /\ Counters /\ made \in Nat
    BY <1>3 DEF Filed
  <2>2. Numbered(made, max_pid_id, serial)
    BY <1>1, <2>1 DEF Counters
  <2>3. /\ job'[t].step = "insert" /\ \A u \in Threads \ {t} : job'[u] = job[u]
    BY <1>1, Moves DEF Filed
  <2>4. \A u \in Threads : ~Counting(u)'
    BY <1>2, <2>1, <2>3 DEF Counters, Counting
  <2>5. \A u \in Threads : ~At(u, "increment")' /\ ~At(u, "wrap")'
    BY <2>4 DEF Counting, At
  <2>6. serial \in 0..max_serial
    BY <2>2 DEF Numbered
  <2>7. Numbered(made + 1, 0, serial')
    <3>1. CASE serial < max_serial
      <4>1. serial' = serial + 1
        BY <1>1, <2>6, <3>1, Spans
      <4>2. Numbered(made + 1, 0, serial + 1)
        BY <2>1, <2>2, <3>1, NextNumber
      <4> QED BY <4>1, <4>2
    <3>2. CASE serial = max_serial
      <4>1. serial' = 0
        BY <1>1, <2>6, <3>2, Spans
      <4>2. Numbered(made + 1, 0, 0)
        BY <2>1, <2>2, <3>2, NextNumber
      <4> QED BY <4>1, <4>2
    <3> QED BY <2>6, <3>1, <3>2, Spans
  <2>8. Numbered(made + 1, pid_id, serial)'
    BY <1>1, <2>7 DEF Numbered
  <2> QED BY <2>4, <2>5, <2>8 DEF Counters
<1> QED BY <1>1, <1>2, <1>3, CounterStep

(***************************************************************************)
(* create_mailbox: two mailboxes whose keys operator< can order.           *)
(***************************************************************************)
LEMMA Ordered ==
  ASSUME PidsNumbered, made \in Nat, NEW b \in 1..made, NEW c \in 1..made,
         ~Unordered(pid_of[b], pid_of[c]), ~Unordered(pid_of[c], pid_of[b]),
         ~(SameNumbers(pid_of[b], pid_of[c]) /\ (b - c) % Period = 0)
  PROVE  Below(pid_of[b], pid_of[c]) \/ Below(pid_of[c], pid_of[b])
<1>1. Numbers(pid_of[b]) /\ Numbers(pid_of[c])
  BY PidNumbers
<1>2. ~SameNumbers(pid_of[b], pid_of[c])
  <2> SUFFICES ASSUME SameNumbers(pid_of[b], pid_of[c]) PROVE FALSE
    OBVIOUS
  <2>1. SameNumbers(pid_of[c], pid_of[b])
    BY DEF SameNumbers
  <2>2. (b - c) % Period = 0
    BY <2>1, SamePids
  <2> QED BY <2>2
<1>3. /\ ~(Less(pid_of[b], pid_of[c]) /\ Less(pid_of[c], pid_of[b]))
      /\ Less(pid_of[b], pid_of[c]) \/ Less(pid_of[c], pid_of[b])
  BY <1>1, <1>2, LessFacts
<1> QED BY <1>3 DEF Below

LEMMA TwoInARow == ASSUME NEW x, NEW y PROVE Append(<<x>>, y) = <<x, y>>
<1>1. <<x>> \in Seq({x, y})
  OBVIOUS
<1>2. Append(<<x>>, y) \in Seq({x, y})
  BY <1>1
<1>3. /\ Len(Append(<<x>>, y)) = 2
      /\ Append(<<x>>, y)[1] = x /\ Append(<<x>>, y)[2] = y
  BY <1>1
<1> DEFINE w == Append(<<x>>, y)
<1>4. w = [i \in 1..2 |-> w[i]]
  BY <1>2, <1>3
<1>5. <<x, y>> = [i \in 1..2 |-> <<x, y>>[i]] /\ <<x, y>>[1] = x /\ <<x, y>>[2] = y
  OBVIOUS
<1>6. \A i \in 1..2 : w[i] = <<x, y>>[i]
  <2> HIDE DEF w
  <2>1. w[1] = x /\ w[2] = y
    BY <1>3 DEF w
  <2> QED BY <1>5, <2>1
<1> HIDE DEF w
<1>7. w = <<x, y>>
  BY <1>4, <1>5, <1>6
<1> QED BY <1>7 DEF w

LEMMA InsertIntoOne ==
  ASSUME NEW c, NEW b, tree = <<File(c)>>, insert(pid_of[b], b),
         \/ Below(pid_of[b], pid_of[c]) \/ Below(pid_of[c], pid_of[b])
  PROVE  /\ tree' = <<File(c), File(b)>>
         /\ \/ left' = TRUE /\ Below(pid_of[b], pid_of[c])
            \/ left' = FALSE /\ Below(pid_of[c], pid_of[b])
<1>1. Key(1) = pid_of[c] /\ tree # <<>>
  BY DEF Key, File
<1>2. /\ tree' = Append(tree, [key |-> pid_of[b], box |-> b])
      /\ left' = Less(pid_of[b], pid_of[c])
  BY <1>1 DEF insert, Below
<1>3. tree' = <<File(c), File(b)>>
  <2>1. tree' = Append(<<File(c)>>, File(b))
    BY <1>2 DEF File
  <2> QED BY <2>1, TwoInARow
<1>4. CASE Below(pid_of[b], pid_of[c])
  BY <1>2, <1>3, <1>4, Zenon DEF Below, Less
<1>5. CASE Below(pid_of[c], pid_of[b])
  BY <1>2, <1>3, <1>5, Zenon DEF Below, Less
<1> QED BY <1>4, <1>5

(***************************************************************************)
(* The map cannot be muddled before the id has wrapped around.             *)
(***************************************************************************)
LEMMA NotYetMuddled ==
  ASSUME PidsNumbered, Held, made \in Nat, made <= max_pid_id,
         NEW b \in 1..made, b \notin open
  PROVE  ~Muddles(pid_of[b], b)
<1>1. ASSUME NEW i \in 1..Len(tree)
      PROVE  /\ ~Unordered(pid_of[b], Key(i)) /\ ~Unordered(Key(i), pid_of[b])
             /\ ~SameNumbers(pid_of[b], Key(i))
  <2>1. PICK c \in open : Key(i) = pid_of[c]
    BY HeldFacts
  <2>2. c \in 1..made /\ c # b
    BY HeldFacts
  <2>3. /\ Numbered(b, pid_of[b].id, pid_of[b].serial)
        /\ Numbered(c, pid_of[c].id, pid_of[c].serial)
    BY <2>2 DEF PidsNumbered
  <2>4. b \in Nat /\ c \in Nat /\ b <= max_pid_id /\ c <= max_pid_id
    BY <2>2, Spans
  <2>5. pid_of[b].id = b /\ pid_of[b].serial = 0
    BY <2>3, <2>4, FirstRound
  <2>6. pid_of[c].id = c /\ pid_of[c].serial = 0
    BY <2>3, <2>4, FirstRound
  <2> QED BY <2>1, <2>2, <2>5, <2>6 DEF Unordered, SameNumbers
<1> QED BY <1>1 DEF Muddles

LEMMA CreateFiled ==
  ASSUME Filed, NEW t \in Threads, create_mailbox(t) PROVE Filed'
<1>b. PICK b : b = job[t].box
  OBVIOUS
<1>0. /\ made \in Nat /\ asked \in Nat /\ job = [u \in Threads |-> job[u]]
      /\ pid_of = [c \in Boxes |-> pid_of[c]]
      /\ raced \in BOOLEAN /\ muddled \in BOOLEAN
  BY DEF Filed
<1>1. /\ At(t, "insert") /\ insert(pid_of[b], b) /\ open' = open \cup {b}
      /\ Goto(t, "idle", NoBox)
      /\ UNCHANGED <<pid_id, serial, made, pid_of, raced, asked>>
  BY <1>b DEF create_mailbox, pids, epmd
<1>2. muddled' = (muddled \/ Muddles(pid_of[b], b))
  BY <1>b DEF create_mailbox
<1>3. /\ muddled' \in BOOLEAN
      /\ ~muddled' => ~muddled /\ ~Muddles(pid_of[b], b)
      /\ muddled' => muddled \/ Muddles(pid_of[b], b)
  BY <1>0, <1>2, Zenon
<1>4. /\ job' = [u \in Threads |-> job'[u]] /\ job'[t].step = "idle"
      /\ \A u \in Threads \ {t} : job'[u] = job[u]
  BY <1>0, <1>1, Moves
<1>5. Creators' = Creators \ {t} /\ t \in Creators
  BY <1>1, <1>4, StepsApart DEF Creators, At
<1>6. ASSUME ~raced PROVE Counters' /\ PidsNumbered'
  <2>1. Counters /\ PidsNumbered
    BY <1>6 DEF Filed
  <2>2. \A u \in Threads :
          /\ Counting(u)' <=> Counting(u)
          /\ At(u, "increment")' <=> At(u, "increment")
          /\ At(u, "wrap")' <=> At(u, "wrap")
    BY <1>1, <1>4 DEF Counting, At
  <2>3. Counters'
    BY <1>1, <2>1, <2>2 DEF Counters
  <2>4. PidsNumbered'
    BY <1>1, <2>1 DEF PidsNumbered
  <2> QED BY <2>3, <2>4
<1>7. ASSUME ~raced, muddled' PROVE made' > max_pid_id
  <2>1. CASE muddled
    BY <1>1, <1>7, <2>1 DEF Filed
  <2>2. CASE ~muddled
    <3>1. Held /\ Begun /\ PidsNumbered /\ Muddles(pid_of[b], b)
      BY <1>3, <1>7, <2>2 DEF Filed
    <3>2. b \in 1..made /\ b \notin open
      BY <1>b, <1>5, <3>1 DEF Begun
    <3>3. ~(made <= max_pid_id)
      BY <1>0, <3>1, <3>2, NotYetMuddled
    <3> QED BY <1>0, <1>1, <3>3, Spans
  <2> QED BY <1>0, <2>1, <2>2
<1>8. ASSUME ~raced, ~muddled' PROVE Held' /\ Begun'
  <2>1. Held /\ Begun /\ PidsNumbered /\ ~Muddles(pid_of[b], b)
    BY <1>3, <1>8 DEF Filed
  <2>2. b \in 1..made /\ b \notin open
    BY <1>b, <1>5, <2>1 DEF Begun
  <2>3. /\ IsFiniteSet(Creators') /\ Cardinality(Creators) \in Nat
        /\ Cardinality(Creators') = Cardinality(Creators) - 1
        /\ Cardinality(Creators') \in Nat
    BY <1>5, <2>1, FS_RemoveElement, FS_CardinalityType DEF Begun
  <2>4. Len(tree) \in 0..2 /\ Len(tree) + Cardinality(Creators) <= 2
    BY <1>0, <2>1, HeldFacts DEF Begun, MaxEntries
  <2>5. \A u \in Creators' :
          job'[u].box \in 1..made' /\ job'[u].box \notin open'
    BY <1>b, <1>1, <1>4, <1>5, <2>1 DEF Begun, Creators
  <2>6. \A u, v \in Creators' : job'[u].box = job'[v].box => u = v
    BY <1>4, <1>5, <2>1 DEF Begun, Creators
  <2>7. \A c : File(c)' = File(c)
    BY <1>1 DEF File
  <2>8. CASE HoldsNone
    <3>1. tree = <<>> /\ open = {}
      BY <2>8 DEF HoldsNone
    <3>2. tree' = <<File(b)>>
      BY <1>1, <3>1 DEF insert, File
    <3>3. HoldsOne(b)'
      BY <1>1, <2>2, <2>7, <3>1, <3>2 DEF HoldsOne
    <3>4. Len(tree') = 1 /\ Len(tree) = 0
      BY <3>1, <3>2
    <3>5. Held'
      BY <1>1, <2>2, <3>3 DEF Held
    <3>6. Len(tree') + Cardinality(Creators') <= MaxEntries
      BY <2>3, <2>4, <3>4 DEF MaxEntries
    <3> QED BY <2>3, <2>5, <2>6, <3>5, <3>6 DEF Begun
  <2>9. ASSUME NEW c \in 1..made, HoldsOne(c) PROVE Held' /\ Begun'
    <3>1. tree = <<File(c)>> /\ open = {c} /\ c # b
      BY <2>2, <2>9 DEF HoldsOne
    <3>2. Len(tree) = 1 /\ Key(1) = pid_of[c] /\ tree[1].box = c
      BY <3>1 DEF Key, File
    <3>3. Below(pid_of[b], pid_of[c]) \/ Below(pid_of[c], pid_of[b])
      <4>1. 1 \in 1..Len(tree)
        BY <3>2
      <4>2. /\ ~Unordered(pid_of[b], Key(1)) /\ ~Unordered(Key(1), pid_of[b])
            /\ ~(SameNumbers(pid_of[b], Key(1)) /\ (b - tree[1].box) % Period = 0)
        BY <2>1, <4>1, Zenon DEF Muddles
      <4>3. /\ ~Unordered(pid_of[b], pid_of[c]) /\ ~Unordered(pid_of[c], pid_of[b])
            /\ ~(SameNumbers(pid_of[b], pid_of[c]) /\ (b - c) % Period = 0)
        BY <3>2, <4>2, Zenon
      <4> QED BY <1>0, <2>1, <2>2, <4>3, Ordered
    <3>4. /\ tree' = <<File(c), File(b)>>
          /\ \/ left' = TRUE /\ Below(pid_of[b], pid_of[c])
             \/ left' = FALSE /\ Below(pid_of[c], pid_of[b])
      BY <1>1, <3>1, <3>3, InsertIntoOne
    <3>5. pid_of'[b] = pid_of[b] /\ pid_of'[c] = pid_of[c] /\ made' = made
      BY <1>1
    <3>6. HoldsTwo(c, b)'
      BY <1>1, <2>2, <2>7, <3>1, <3>4, <3>5 DEF HoldsTwo
    <3>7. Held'
      BY <2>2, <3>5, <3>6 DEF Held
    <3>8. Len(tree') = 2
      BY <3>4
    <3>9. Len(tree') + Cardinality(Creators') <= MaxEntries
      BY <2>3, <2>4, <3>2, <3>8 DEF MaxEntries
    <3> QED BY <2>3, <2>5, <2>6, <3>7, <3>9 DEF Begun
  <2>10. ASSUME NEW c \in 1..made, NEW d \in 1..made, HoldsTwo(c, d) PROVE FALSE
    <3>1. Len(tree) = 2
      BY <2>10 DEF HoldsTwo
    <3> QED BY <2>3, <2>4, <3>1
  <2> QED BY <2>1, <2>8, <2>9, <2>10 DEF Held
<1> QED BY <1>0, <1>1, <1>3, <1>4, <1>6, <1>7, <1>8 DEF Filed

(***************************************************************************)
(* close_mailbox: the entry found for a mailbox's pid is its own.          *)
(***************************************************************************)
LEMMA OneLeft ==
  ASSUME NEW x PROVE [k \in 1..2 - 1 |-> x] = <<x>>
<1>1. 1..2 - 1 = {1}
  OBVIOUS
<1>2. <<x>> = [k \in {1} |-> <<x>>[k]] /\ <<x>>[1] = x
  OBVIOUS
<1> QED BY <1>1, <1>2

LEMMA NoneLeft ==
  ASSUME NEW x PROVE [k \in 1..1 - 1 |-> x] = <<>>
<1>1. 1..1 - 1 = {}
  OBVIOUS
<1> QED BY <1>1

LEMMA CloseFiled ==
  ASSUME Filed, NEW t \in Threads, NEW b \in Boxes, close_mailbox(t, b)
  PROVE  Filed'
<1> DEFINE i == find(pid_of[b])
<1>0. /\ made \in Nat /\ asked \in Nat /\ job = [u \in Threads |-> job[u]]
      /\ pid_of = [c \in Boxes |-> pid_of[c]]
      /\ raced \in BOOLEAN /\ muddled \in BOOLEAN
  BY DEF Filed
<1>1. /\ b \in open /\ open' = open \ {b}
      /\ UNCHANGED <<pid_id, serial, made, pid_of, raced, muddled, asked, job>>
      /\ tree' = IF i = 0 THEN tree ELSE [k \in 1..Len(tree) - 1 |-> tree[3 - i]]
  BY DEF close_mailbox, erase, pids, epmd
<1>2. ASSUME ~raced PROVE Counters' /\ PidsNumbered'
  <2>1. Counters /\ PidsNumbered
    BY <1>2 DEF Filed
  <2>2. \A u \in Threads :
          /\ Counting(u)' <=> Counting(u)
          /\ At(u, "increment")' <=> At(u, "increment")
          /\ At(u, "wrap")' <=> At(u, "wrap")
    BY <1>1 DEF Counting, At
  <2> QED BY <1>1, <2>1, <2>2 DEF Counters, PidsNumbered
<1>3. ASSUME ~raced, ~muddled PROVE Held' /\ Begun'
  <2>1. Held /\ Begun /\ PidsNumbered
    BY <1>3 DEF Filed
  <2>2. Creators' = Creators
    BY <1>1 DEF Creators
  <2>3. /\ IsFiniteSet(Creators') /\ Cardinality(Creators') \in Nat
        /\ Len(tree) \in 0..2 /\ Len(tree) + Cardinality(Creators') <= MaxEntries
    BY <1>0, <2>1, <2>2, HeldFacts, FS_CardinalityType DEF Begun
  <2>4. /\ \A u \in Creators' :
             job'[u].box \in 1..made' /\ job'[u].box \notin open'
        /\ \A u, v \in Creators' : job'[u].box = job'[v].box => u = v
    BY <1>1, <2>1, <2>2 DEF Begun
  <2>5. ASSUME Held', Len(tree') \in Nat, Len(tree') <= Len(tree)
        PROVE  Held' /\ Begun'
    <3>1. Len(tree') + Cardinality(Creators') <= MaxEntries
      BY <2>3, <2>5 DEF MaxEntries
    <3> QED BY <2>3, <2>4, <2>5, <3>1 DEF Begun
  <2>6. \A c : File(c)' = File(c)
    BY <1>1 DEF File
  <2>7. \A c \in 1..made : Numbers(pid_of[c])
    BY <2>1, PidNumbers
  <2>8. CASE HoldsNone
    BY <1>1, <2>8 DEF HoldsNone
  <2>9. ASSUME NEW c \in 1..made, HoldsOne(c) PROVE Held' /\ Begun'
    <3>1. tree = <<File(c)>> /\ open = {c} /\ c = b /\ Len(tree) = 1
      BY <1>1, <2>9 DEF HoldsOne
    <3>2. i = 1
      BY <2>7, <2>9, <3>1, FindInOne
    <3> HIDE DEF i
    <3>3. tree' = <<>> /\ open' = {}
      BY <1>1, <3>1, <3>2, NoneLeft
    <3>4. Held' /\ Len(tree') = 0
      BY <3>3 DEF Held, HoldsNone
    <3> QED BY <2>5, <3>1, <3>4
  <2>10. ASSUME NEW c \in 1..made, NEW d \in 1..made, HoldsTwo(c, d)
         PROVE  Held' /\ Begun'
    <3>1. /\ tree = <<File(c), File(d)>> /\ open = {c, d} /\ c # d
          /\ Len(tree) = 2 /\ tree[1] = File(c) /\ tree[2] = File(d)
      BY <2>10 DEF HoldsTwo
    <3>2. find(pid_of[c]) = 1 /\ find(pid_of[d]) = 2
      BY <2>7, <2>10, FindInTwo
    <3>3. CASE b = c
      <4>1. i = 1
        BY <3>2, <3>3
      <4> HIDE DEF i
      <4>2. 3 - i = 2 /\ i # 0
        BY <4>1
      <4>3. tree' = [k \in 1..2 - 1 |-> tree[2]]
        BY <1>1, <3>1, <4>2
      <4>4. tree' = <<File(d)>>
        BY <3>1, <4>3, OneLeft
      <4>5. open' = {d}
        BY <1>1, <3>1, <3>3
      <4>6. HoldsOne(d)' /\ d \in 1..made'
        BY <1>1, <2>6, <4>4, <4>5 DEF HoldsOne
      <4>7. Held' /\ Len(tree') = 1
        BY <4>4, <4>6 DEF Held
      <4> QED BY <2>5, <3>1, <4>7
    <3>4. CASE b = d
      <4>1. i = 2
        BY <3>2, <3>4
      <4> HIDE DEF i
      <4>2. 3 - i = 1 /\ i # 0
        BY <4>1
      <4>3. tree' = [k \in 1..2 - 1 |-> tree[1]]
        BY <1>1, <3>1, <4>2
      <4>4. tree' = <<File(c)>>
        BY <3>1, <4>3, OneLeft
      <4>5. open' = {c}
        BY <1>1, <3>1, <3>4
      <4>6. HoldsOne(c)' /\ c \in 1..made'
        BY <1>1, <2>6, <4>4, <4>5 DEF HoldsOne
      <4>7. Held' /\ Len(tree') = 1
        BY <4>4, <4>6 DEF Held
      <4> QED BY <2>5, <3>1, <4>7
    <3> QED BY <1>1, <3>1, <3>3, <3>4
  <2> QED BY <2>1, <2>8, <2>9, <2>10 DEF Held
<1> HIDE DEF i
<1> QED BY <1>0, <1>1, <1>2, <1>3 DEF Filed

LEMMA FiledStep == Filed /\ [Next]_vars => Filed'
<1> SUFFICES ASSUME Filed, [Next]_vars PROVE Filed'
  OBVIOUS
<1>1. CASE UNCHANGED vars
  <2>1. /\ UNCHANGED <<pid_id, serial, made, pid_of, raced, boxes, asked, job>>
    BY <1>1 DEF vars, pids, epmd
  <2>2. asked' \in Nat /\ job' = [u \in Threads |-> job'[u]]
    BY <2>1 DEF Filed
  <2> QED BY <2>1, <2>2, ElsewhereFiled
<1>2. ASSUME NEW t \in Threads, make_pid(t) PROVE Filed'
  BY <1>2, MakePidFiled
<1>3. ASSUME NEW t \in Threads, increment(t) PROVE Filed'
  BY <1>3, IncrementFiled
<1>4. ASSUME NEW t \in Threads, wrap(t) PROVE Filed'
  BY <1>4, WrapFiled
<1>5. ASSUME NEW t \in Threads, create_mailbox(t) PROVE Filed'
  BY <1>5, CreateFiled
<1>6. ASSUME NEW t \in Threads, NEW b \in Boxes, close_mailbox(t, b) PROVE Filed'
  BY <1>6, CloseFiled
<1>7. ASSUME NEW t \in Threads,
             \/ epmd_connect(t) \/ alive2_request(t) \/ epmd_registers(t)
             \/ receive_alive_response(t) \/ start_accept_incoming(t)
             \/ port_please2_request(t) \/ epmd_tells(t) \/ receive_port_resp(t)
      PROVE  Filed'
  BY <1>7, EpmdFiled
<1> QED BY <1>1, <1>2, <1>3, <1>4, <1>5, <1>6, <1>7 DEF Next

LEMMA FiledAlways == Spec => []Filed
BY FiledInitially, FiledStep, PTL DEF Spec

(***************************************************************************)
(* A pid finds the mailbox it was given to while that is open, and no      *)
(* other that is not a whole number of Periods away, as long as no two     *)
(* calls of make_pid overlap and no two mailboxes are open together that   *)
(* operator< cannot order, which needs that the id has wrapped around      *)
(* (create_mailbox, close_mailbox and make_pid of impl/actual_node.cpp).   *)
(***************************************************************************)
THEOREM PidAlwaysFindsMailbox == Spec => []PidFindsMailbox
BY FiledAlways, FiledFinds, PTL
=============================================================================
