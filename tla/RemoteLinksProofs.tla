-------------------------- MODULE RemoteLinksProofs ---------------------------
(***************************************************************************)
(* Proofs about RemoteLinks, for any number of mailboxes, connections and  *)
(* calls: the end of a mailbox is not kept from the processes it is linked *)
(* to, except where a message is lost, and the end of a link is reported   *)
(* at most once for each time it was asked for.                            *)
(***************************************************************************)
EXTENDS RemoteLinks, SequenceTheorems, FiniteSetTheorems, TLAPS

-----------------------------------------------------------------------------
(***************************************************************************)
(* What is sent to a node is from the other one, and about its mailboxes.  *)
(***************************************************************************)
To(n) == [op : Ops, from : At(Peer(n)), to : At(n)]

(***************************************************************************)
(* A call under way is about one mailbox of its own node and mailboxes of  *)
(* the other; one that sends exits has closed its mailbox.                 *)
(***************************************************************************)
InOrder(n, j, C) ==
  \/ j = Resting
  \/ /\ j.step \in {"link", "store", "request", "exits"}
     /\ \E b \in At(n) : j.box = {b}
     /\ j.todo \subseteq At(Peer(n))
     /\ j.step = "exits" => j.box \subseteq C

Connected ==
  /\ entry \in [Nodes -> Conns \cup {NoConn}]
  /\ dialled \in Seq(Nodes) /\ Len(dialled) <= MaxConns
  /\ alive \subseteq DOMAIN dialled
  /\ ready \in SUBSET (Nodes \X Conns) /\ unnoticed \in SUBSET (Nodes \X Conns)

Addressed ==
  /\ held \in [Nodes -> Conns \cup {NoConn}]
  /\ stalled \in SUBSET (Nodes \X Conns)
  /\ wire  = [c \in Conns |-> [n \in Nodes |-> wire[c][n]]]
  /\ lexed = [c \in Conns |-> [n \in Nodes |-> lexed[c][n]]]
  /\ \A c \in Conns, n \in Nodes : /\ wire[c][n] \in Seq(To(n))
                                   /\ lexed[c][n] \in Seq(To(n))

Working ==
  /\ job \in [Nodes -> Job]
  /\ \A n \in Nodes : InOrder(n, job[n], closed)
  /\ mailboxes \subseteq Boxes /\ closed \subseteq Boxes
  /\ Boxes \ mailboxes \subseteq closed

Recorded ==
  /\ links \in [Nodes -> SUBSET Links] /\ unlinking \in [Nodes -> SUBSET Links]
  /\ calls \in 0..MaxCalls
  /\ reports \in [Boxes -> Seq(Boxes)]
  /\ owed \in SUBSET (Boxes \X Boxes)
  /\ asked \in [Links -> Nat]
  /\ crossed \subseteq Links /\ lost \subseteq Links /\ dead \subseteq Links

(***************************************************************************)
(* The types, as an inductive invariant.                                   *)
(***************************************************************************)
Typed == Connected /\ Addressed /\ Working /\ Recorded

(***************************************************************************)
(* The exit for p of the end of b is in a message or still to be sent.     *)
(***************************************************************************)
InTransit(c, n) == Range(wire[c][n]) \cup Range(lexed[c][n])

ToBeSent(p, b) ==
  \E n \in Nodes : job[n].step = "exits" /\ b \in job[n].box /\ p \in job[n].todo

Coming(p, b) ==
  \/ \E c \in Conns : Msg("exit2", b, p) \in InTransit(c, node_of[p])
  \/ ToBeSent(p, b)

Owing ==
  \A d \in owed : Coming(d[1], d[2]) \/ d[1] \in closed \/ {d[1], d[2]} \in lost
-----------------------------------------------------------------------------
(***************************************************************************)
(* Lists: what a read does to what is on the wire.                         *)
(***************************************************************************)
LEMMA ConcatRange ==
  ASSUME NEW S, NEW s \in Seq(S), NEW t \in Seq(S)
  PROVE  s \o t \in Seq(S) /\ Range(s \o t) = Range(s) \cup Range(t)
<1> DEFINE u == s \o t
<1>1. /\ Len(s) \in Nat /\ Len(t) \in Nat
      /\ DOMAIN s = 1..Len(s) /\ DOMAIN t = 1..Len(t)
  BY LenProperties
<1>2. /\ u \in Seq(S)
      /\ Len(u) = Len(s) + Len(t)
      /\ \A i \in 1..(Len(s) + Len(t)) :
           u[i] = IF i <= Len(s) THEN s[i] ELSE t[i - Len(s)]
  BY ConcatProperties
<1>3. DOMAIN u = 1..(Len(s) + Len(t))
  BY <1>2, LenProperties
<1> HIDE DEF u
<1>4. ASSUME NEW y \in Range(u) PROVE y \in Range(s) \cup Range(t)
  <2>1. PICK i \in 1..(Len(s) + Len(t)) : y = u[i]
    BY <1>3 DEF Range
  <2>2. CASE i <= Len(s)
    <3>1. i \in DOMAIN s /\ y = s[i]
      BY <1>1, <1>2, <2>1, <2>2
    <3> QED BY <3>1 DEF Range
  <2>3. CASE ~(i <= Len(s))
    <3>1. i - Len(s) \in DOMAIN t /\ y = t[i - Len(s)]
      BY <1>1, <1>2, <2>1, <2>3
    <3> QED BY <3>1 DEF Range
  <2> QED BY <2>2, <2>3
<1>5. ASSUME NEW y \in Range(s) PROVE y \in Range(u)
  <2>1. PICK i \in 1..Len(s) : y = s[i]
    BY <1>1 DEF Range
  <2>2. i \in DOMAIN u /\ u[i] = y
    BY <1>1, <1>2, <1>3, <2>1
  <2> QED BY <2>2 DEF Range
<1>6. ASSUME NEW y \in Range(t) PROVE y \in Range(u)
  <2>1. PICK i \in 1..Len(t) : y = t[i]
    BY <1>1 DEF Range
  <2>2. /\ Len(s) + i \in 1..(Len(s) + Len(t))
        /\ ~(Len(s) + i <= Len(s)) /\ (Len(s) + i) - Len(s) = i
    BY <1>1, <2>1
  <2>3. u[Len(s) + i] = t[i]
    BY <1>2, <2>2
  <2>4. Len(s) + i \in DOMAIN u /\ u[Len(s) + i] = y
    BY <1>3, <2>1, <2>2, <2>3
  <2> QED BY <2>4 DEF Range
<1>7. Range(u) = Range(s) \cup Range(t)
  BY <1>4, <1>5, <1>6
<1> QED BY <1>2, <1>7 DEF u

LEMMA EmptyRange ==
  ASSUME NEW S, NEW s \in Seq(S)
  PROVE  s = <<>> <=> Range(s) = {}
<1>1. Range(<<>>) = {}
  BY DEF Range
<1>2. ASSUME s # <<>> PROVE s[1] \in Range(s)
  BY <1>2, EmptySeq, LenProperties DEF Range
<1> QED BY <1>1, <1>2

LEMMA AppendRange ==
  ASSUME NEW S, NEW s \in Seq(S), NEW x \in S
  PROVE  Append(s, x) \in Seq(S) /\ Range(Append(s, x)) = Range(s) \cup {x}
<1> DEFINE o == <<x>>
<1>1. o \in Seq(S) /\ Append(s, x) = s \o o
  BY AppendIsConcat
<1>2. Range(o) = {x}
  BY DEF Range
<1> HIDE DEF o
<1>3. s \o o \in Seq(S) /\ Range(s \o o) = Range(s) \cup Range(o)
  BY <1>1, ConcatRange
<1> QED BY <1>1, <1>2, <1>3

LEMMA HeadRange ==
  ASSUME NEW S, NEW s \in Seq(S), s # <<>>
  PROVE  /\ Head(s) \in S /\ Tail(s) \in Seq(S)
         /\ Range(s) = {Head(s)} \cup Range(Tail(s))
<1>1. /\ Head(s) \in S /\ Tail(s) \in Seq(S) /\ <<Head(s)>> \in Seq(S)
  BY HeadTailProperties
<1>2. s = <<Head(s)>> \o Tail(s)
  <2>1. /\ Len(s) \in Nat \ {0} /\ Len(Tail(s)) = Len(s) - 1 /\ Head(s) = s[1]
        /\ \A i \in 1..Len(Tail(s)) : Tail(s)[i] = s[i + 1]
    BY EmptySeq, HeadTailProperties
  <2> DEFINE t == <<Head(s)>> \o Tail(s)
  <2>2. /\ t \in Seq(S) /\ Len(t) = 1 + Len(Tail(s))
        /\ \A i \in 1..(1 + Len(Tail(s))) :
             t[i] = IF i <= 1 THEN <<Head(s)>>[i] ELSE Tail(s)[i - 1]
    BY <1>1, ConcatProperties
  <2>3. \A i \in 1..Len(s) : s[i] = t[i]
    <3> HIDE DEF t
    <3> QED BY <2>1, <2>2
  <2> HIDE DEF t
  <2> QED BY <2>1, <2>2, <2>3, SeqEqual DEF t
<1>3. Range(<<Head(s)>>) = {Head(s)}
  BY DEF Range
<1> DEFINE o == <<Head(s)>>
           u == Tail(s)
<1>4. o \in Seq(S) /\ u \in Seq(S)
  BY <1>1
<1>5. Range(o) = {Head(s)} /\ s = o \o u
  BY <1>2, <1>3
<1> HIDE DEF o, u
<1>6. Range(o \o u) = Range(o) \cup Range(u)
  BY <1>4, ConcatRange
<1>7. Range(s) = {Head(s)} \cup Range(u)
  BY <1>5, <1>6
<1> QED BY <1>1, <1>7 DEF u

LEMMA SplitRange ==
  ASSUME NEW S, NEW s \in Seq(S), NEW k \in 1..Len(s)
  PROVE  /\ SubSeq(s, 1, k) \in Seq(S) /\ SubSeq(s, 1, k) # <<>>
         /\ SubSeq(s, k + 1, Len(s)) \in Seq(S)
         /\ Range(s) = Range(SubSeq(s, 1, k))
                         \cup Range(SubSeq(s, k + 1, Len(s)))
<1> DEFINE a == SubSeq(s, 1, k)
           z == SubSeq(s, k + 1, Len(s))
<1>1. Len(s) \in Nat /\ DOMAIN s = 1..Len(s) /\ \A i \in 1..Len(s) : s[i] \in S
  BY LenProperties, ElementOfSeq
<1>2. k \in Int /\ 1 \in Int /\ k + 1 \in Int /\ Len(s) \in Int
      /\ 1 <= k /\ k <= Len(s)
  BY <1>1
<1>3. a \in Seq(S) /\ Len(a) = k /\ \A i \in 1..k : a[i] = s[i]
  <2>1. \A i \in 1..k : s[i] \in S
    BY <1>1, <1>2
  <2>2. /\ a \in Seq(S) /\ Len(a) = (IF 1 <= k THEN k - 1 + 1 ELSE 0)
        /\ \A i \in 1..(k - 1 + 1) : a[i] = s[1 + i - 1]
    BY <1>2, <2>1, SubSeqProperties
  <2> HIDE DEF a
  <2> QED BY <1>2, <2>2
<1>4. /\ z \in Seq(S) /\ Len(z) = Len(s) - k
      /\ \A i \in 1..(Len(s) - k) : z[i] = s[k + i]
  <2>1. \A i \in (k + 1)..Len(s) : s[i] \in S
    BY <1>1, <1>2
  <2>2. /\ z \in Seq(S)
        /\ Len(z) = (IF k + 1 <= Len(s) THEN Len(s) - (k + 1) + 1 ELSE 0)
        /\ \A i \in 1..(Len(s) - (k + 1) + 1) : z[i] = s[(k + 1) + i - 1]
    BY <1>2, <2>1, SubSeqProperties
  <2> HIDE DEF z
  <2>3. ASSUME NEW l \in Nat, k <= l
        PROVE  /\ l - (k + 1) + 1 = l - k
               /\ (IF k + 1 <= l THEN l - (k + 1) + 1 ELSE 0) = l - k
    BY <1>2, <2>3
  <2>4. /\ Len(z) = Len(s) - k
        /\ Len(s) - (k + 1) + 1 = Len(s) - k
    BY <1>1, <1>2, <2>2, <2>3
  <2>5. ASSUME NEW i \in 1..(Len(s) - k) PROVE z[i] = s[k + i]
    <3>1. (k + 1) + i - 1 = k + i
      BY <1>1, <1>2
    <3>2. z[i] = s[(k + 1) + i - 1]
      BY <2>2, <2>4
    <3> QED BY <3>1, <3>2
  <2> QED BY <2>2, <2>4, <2>5
<1> HIDE DEF a, z
<1>5. DOMAIN a = 1..k /\ DOMAIN z = 1..(Len(s) - k)
  BY <1>3, <1>4, LenProperties
<1>6. a # <<>>
  BY <1>2, <1>3
<1>7. ASSUME NEW y \in Range(s) PROVE y \in Range(a) \cup Range(z)
  <2>1. PICK i \in 1..Len(s) : y = s[i]
    BY <1>1 DEF Range
  <2>2. CASE i <= k
    <3>1. i \in DOMAIN a /\ a[i] = y
      BY <1>1, <1>2, <1>3, <1>5, <2>1, <2>2
    <3> QED BY <3>1 DEF Range
  <2>3. CASE ~(i <= k)
    <3>1. i - k \in 1..(Len(s) - k) /\ k + (i - k) = i
      BY <1>1, <1>2, <2>1, <2>3
    <3>2. z[i - k] = y
      BY <1>4, <2>1, <3>1
    <3> QED BY <1>5, <3>1, <3>2 DEF Range
  <2> QED BY <2>2, <2>3
<1>8. ASSUME NEW y \in Range(a) \cup Range(z) PROVE y \in Range(s)
  <2>1. CASE y \in Range(a)
    <3>1. PICK i \in 1..k : y = a[i]
      BY <1>5, <2>1 DEF Range
    <3>2. i \in DOMAIN s /\ s[i] = y
      BY <1>1, <1>2, <1>3, <3>1
    <3> QED BY <3>2 DEF Range
  <2>2. CASE y \in Range(z)
    <3>1. PICK i \in 1..(Len(s) - k) : y = z[i]
      BY <1>5, <2>2 DEF Range
    <3>2. k + i \in DOMAIN s /\ s[k + i] = y
      BY <1>1, <1>2, <1>4, <3>1
    <3> QED BY <3>2 DEF Range
  <2> QED BY <2>1, <2>2
<1> QED BY <1>3, <1>4, <1>6, <1>7, <1>8 DEF a, z

-----------------------------------------------------------------------------
(***************************************************************************)
(* The two nodes, and the links between them.                              *)
(***************************************************************************)
LEMMA PeerFacts ==
  ASSUME NEW n \in Nodes
  PROVE  /\ Peer(n) \in Nodes /\ Peer(n) # n /\ Peer(Peer(n)) = n
         /\ \A m \in Nodes : m = n \/ m = Peer(n)
<1>1. PICK a \in Nodes, b \in Nodes : a # b /\ Nodes = {a, b}
  BY RemoteAssumption
<1>2. \A m \in Nodes : \E k \in Nodes : k # m
  BY <1>1
<1>3. \A m \in Nodes : Peer(m) \in Nodes /\ Peer(m) # m
  BY <1>2 DEF Peer
<1> QED BY <1>1, <1>3

LEMMA LinkFacts ==
  ASSUME NEW n \in Nodes, NEW b \in At(n), NEW p \in At(Peer(n))
  PROVE  /\ b \in Boxes /\ p \in Boxes /\ node_of[b] = n
         /\ node_of[p] = Peer(n) /\ {b, p} \in Links
<1>1. /\ b \in Boxes /\ p \in Boxes /\ node_of[b] = n
      /\ node_of[p] = Peer(n) /\ n # Peer(n)
  BY PeerFacts DEF At
<1> QED BY <1>1 DEF Links

LEMMA OtherFacts ==
  ASSUME NEW n \in Nodes, NEW b \in At(n), NEW e \in Links, b \in e
  PROVE  Other(e, b) \in At(Peer(n)) /\ e = {b, Other(e, b)}
<1>1. PICK x \in Boxes, y \in Boxes : e = {x, y} /\ node_of[x] # node_of[y]
  BY DEF Links
<1>2. PICK p \in Boxes : e = {b, p} /\ node_of[p] # node_of[b]
  BY <1>1
<1>3. Other(e, b) = p
  BY <1>2 DEF Other
<1>4. node_of[p] \in Nodes /\ node_of[b] = n
  BY RemoteAssumption DEF At
<1>5. node_of[p] = Peer(n)
  BY <1>2, <1>4, PeerFacts
<1> QED BY <1>2, <1>3, <1>5 DEF At
-----------------------------------------------------------------------------
(***************************************************************************)
(* The parts of the invariant that a step leaves as they are.              *)
(***************************************************************************)
LEMMA ConnectedKept ==
  ASSUME Connected, UNCHANGED connections
  PROVE  Connected'
BY DEF Connected, connections

LEMMA AddressedKept ==
  ASSUME Addressed, UNCHANGED <<queues, lexed>>
  PROVE  Addressed'
BY DEF Addressed, queues

LEMMA ConnFacts ==
  ASSUME Connected, NEW c \in alive
  PROVE  c \in Conns /\ c # NoConn
<1>1. Len(dialled) \in Nat /\ DOMAIN dialled = 1..Len(dialled)
      /\ Len(dialled) <= MaxConns /\ c \in DOMAIN dialled
  BY LenProperties DEF Connected
<1> QED BY <1>1, RemoteAssumption DEF Conns, NoConn

(***************************************************************************)
(* A request adds its message to the wire, or loses it.                    *)
(***************************************************************************)
LEMMA PostedFacts ==
  ASSUME Connected, Addressed, NEW n \in Nodes, NEW m \in To(Peer(n)),
         NEW more, Posted(n, m, more), UNCHANGED lexed
  PROVE  /\ Addressed'
         /\ \A c \in Conns, k \in Nodes :
              Range(wire[c][k]) \subseteq Range(wire'[c][k])
         /\ \/ \E c \in Conns : m \in Range(wire'[c][Peer(n)])
            \/ Link(m) \in lost'
         /\ lost \subseteq lost' /\ lost' \subseteq lost \cup {Link(m)}
         /\ crossed' \subseteq crossed \cup more \cup {Link(m)}
<1> DEFINE a == Conn(n)
           q == Peer(n)
<1>1. a \in Conns /\ q \in Nodes
  <2>1. a \in Conns \cup {NoConn}
    BY DEF Conn, Connected, Addressed
  <2>2. a # NoConn
    BY DEF Posted, Found
  <2> QED BY <2>1, <2>2, PeerFacts
<1>2. /\ held' \in [Nodes -> Conns \cup {NoConn}]
      /\ crossed' \subseteq crossed \cup more \cup {Link(m)}
  BY DEF Posted, Overtaking, Addressed
<1>3. CASE /\ wire' = [wire EXCEPT ![a][q] = Append(@, m)]
           /\ UNCHANGED <<stalled, lost>>
  <2> HIDE DEF a, q
  <2>3. /\ wire' = [c \in Conns |-> [k \in Nodes |-> wire'[c][k]]]
        /\ wire'[a][q] = Append(wire[a][q], m)
        /\ \A c \in Conns, k \in Nodes :
             c # a \/ k # q => wire'[c][k] = wire[c][k]
    BY <1>1, <1>3 DEF Addressed
  <2>4. /\ Append(wire[a][q], m) \in Seq(To(q))
        /\ Range(Append(wire[a][q], m)) = Range(wire[a][q]) \cup {m}
    <3>1. wire[a][q] \in Seq(To(q)) /\ m \in To(q)
      BY <1>1 DEF Addressed, q
    <3> QED BY <3>1, AppendRange
  <2>5. Addressed'
    BY <1>1, <1>2, <1>3, <2>3, <2>4 DEF Addressed
  <2>6. \A c \in Conns, k \in Nodes :
          Range(wire[c][k]) \subseteq Range(wire'[c][k])
    BY <1>1, <2>3, <2>4
  <2>7. \E c \in Conns : m \in Range(wire'[c][q])
    BY <1>1, <2>3, <2>4
  <2> QED BY <1>2, <1>3, <2>5, <2>6, <2>7 DEF q
<1>4. CASE /\ stalled' \subseteq stalled \cup {<<n, a>>}
           /\ lost' = lost \cup {Link(m)} /\ UNCHANGED wire
  <2> HIDE DEF a, q
  <2>1. Addressed'
    BY <1>1, <1>2, <1>4 DEF Addressed
  <2> QED BY <1>2, <1>4, <2>1
<1>5. \/ /\ wire' = [wire EXCEPT ![a][q] = Append(@, m)]
         /\ UNCHANGED <<stalled, lost>>
      \/ /\ stalled' \subseteq stalled \cup {<<n, a>>}
         /\ lost' = lost \cup {Link(m)} /\ UNCHANGED wire
  BY DEF Posted
<1> QED BY <1>3, <1>4, <1>5

(***************************************************************************)
(* A read takes the first message, and leaves the others.                  *)
(***************************************************************************)
LEMMA ReadFacts ==
  ASSUME Addressed, NEW n \in Nodes, NEW c \in Conns,
         NEW k \in 1..Len(wire[c][n]), NEW read, NEW m,
         read = lexed[c][n] \o SubSeq(wire[c][n], 1, k), m = Head(read),
         lexed' = [lexed EXCEPT ![c][n] = Tail(read)],
         wire' = [wire EXCEPT ![c][n] = SubSeq(@, k + 1, Len(@))],
         UNCHANGED <<held, stalled>>
  PROVE  /\ Addressed' /\ m \in To(n)
         /\ InTransit(c, n) = {m} \cup InTransit(c, n)'
         /\ \A d \in Conns, j \in Nodes :
              d # c \/ j # n => InTransit(d, j)' = InTransit(d, j)
<1> DEFINE w == wire[c][n]
           l == lexed[c][n]
           rest == SubSeq(w, k + 1, Len(w))
           part == SubSeq(w, 1, k)
<1>1. w \in Seq(To(n)) /\ l \in Seq(To(n))
  BY DEF Addressed
<1>2. /\ wire' = [wire EXCEPT ![c][n] = rest]
      /\ k \in 1..Len(w) /\ read = l \o part
  OBVIOUS
<1> HIDE DEF w, l
<1>3. /\ part \in Seq(To(n)) /\ part # <<>> /\ rest \in Seq(To(n))
      /\ Range(w) = Range(part) \cup Range(rest)
  BY <1>1, <1>2, SplitRange
<1> HIDE DEF rest, part
<1>4. read \in Seq(To(n)) /\ Range(read) = Range(l) \cup Range(part)
  <2>1. l \o part \in Seq(To(n)) /\ Range(l \o part) = Range(l) \cup Range(part)
    BY ONLY <1>1, <1>3, ConcatRange
  <2> QED BY ONLY <1>2, <2>1
<1>5. read # <<>>
  <2>1. Range(part) # {}
    BY <1>3, EmptyRange
  <2>2. Range(read) # {}
    BY <1>4, <2>1
  <2> QED BY <2>2 DEF Range
<1>6. /\ m \in To(n) /\ Tail(read) \in Seq(To(n))
      /\ Range(read) = {m} \cup Range(Tail(read))
  <2>1. /\ Head(read) \in To(n) /\ Tail(read) \in Seq(To(n))
        /\ Range(read) = {Head(read)} \cup Range(Tail(read))
    BY ONLY <1>4, <1>5, HeadRange
  <2> QED BY <2>1
<1>7. /\ wire'  = [d \in Conns |-> [j \in Nodes |-> wire'[d][j]]]
      /\ lexed' = [d \in Conns |-> [j \in Nodes |-> lexed'[d][j]]]
      /\ wire'[c][n] = rest /\ lexed'[c][n] = Tail(read)
      /\ \A d \in Conns, j \in Nodes :
           d # c \/ j # n => wire'[d][j] = wire[d][j] /\ lexed'[d][j] = lexed[d][j]
  <2> DEFINE x == Tail(read)
  <2>1. lexed' = [lexed EXCEPT ![c][n] = x]
    OBVIOUS
  <2> HIDE DEF x
  <2>2. /\ wire'  = [d \in Conns |-> [j \in Nodes |-> wire'[d][j]]]
        /\ wire'[c][n] = rest
        /\ \A d \in Conns, j \in Nodes :
             d # c \/ j # n => wire'[d][j] = wire[d][j]
    BY ONLY <1>2, Addressed, n \in Nodes, c \in Conns DEF Addressed
  <2>3. /\ lexed' = [d \in Conns |-> [j \in Nodes |-> lexed'[d][j]]]
        /\ lexed'[c][n] = x
        /\ \A d \in Conns, j \in Nodes :
             d # c \/ j # n => lexed'[d][j] = lexed[d][j]
    BY ONLY <2>1, Addressed, n \in Nodes, c \in Conns DEF Addressed
  <2> QED BY <2>2, <2>3 DEF x
<1>8. Addressed'
  <2>1. \A d \in Conns, j \in Nodes :
          wire'[d][j] \in Seq(To(j)) /\ lexed'[d][j] \in Seq(To(j))
    <3> SUFFICES ASSUME NEW d \in Conns, NEW j \in Nodes
                 PROVE  wire'[d][j] \in Seq(To(j)) /\ lexed'[d][j] \in Seq(To(j))
      OBVIOUS
    <3>1. CASE d = c /\ j = n
      BY <1>3, <1>6, <1>7, <3>1
    <3>2. CASE d # c \/ j # n
      BY <1>7, <3>2 DEF Addressed
    <3> QED BY <3>1, <3>2
  <2> QED BY <1>7, <2>1 DEF Addressed
<1>9. InTransit(c, n) = {m} \cup InTransit(c, n)'
  BY <1>3, <1>4, <1>6, <1>7 DEF InTransit, w, l
<1>10. \A d \in Conns, j \in Nodes :
         d # c \/ j # n => InTransit(d, j)' = InTransit(d, j)
  BY <1>7 DEF InTransit
<1> QED BY <1>6, <1>8, <1>9, <1>10
(***************************************************************************)
(* A node's thread goes on with its job or begins another.                 *)
(***************************************************************************)
LEMMA WorkingGoesOn ==
  ASSUME Working, NEW n \in Nodes, NEW j \in Job, InOrder(n, j, closed'),
         job' = [job EXCEPT ![n] = j], UNCHANGED mailboxes,
         closed \subseteq closed', closed' \subseteq Boxes
  PROVE  Working'
<1>1. job' \in [Nodes -> Job]
  BY DEF Working
<1>2. ASSUME NEW k \in Nodes PROVE InOrder(k, job'[k], closed')
  <2>1. CASE k = n
    BY <2>1 DEF Working
  <2>2. CASE k # n
    <3>1. job'[k] = job[k] /\ InOrder(k, job[k], closed)
      BY <2>2 DEF Working
    <3> QED BY <3>1 DEF InOrder
  <2> QED BY <2>1, <2>2
<1> QED BY <1>1, <1>2 DEF Working

LEMMA RestingFacts == Resting \in Job /\ \A n, C : InOrder(n, Resting, C)
BY DEF Resting, Job, Steps, InOrder

LEMMA DoingFacts ==
  ASSUME NEW n \in Nodes, NEW b \in At(n), NEW ps \in SUBSET At(Peer(n)),
         NEW s \in {"link", "store", "request", "exits"}, NEW C,
         s = "exits" => b \in C
  PROVE  Doing(s, b, ps) \in Job /\ InOrder(n, Doing(s, b, ps), C)
<1>1. b \in Boxes /\ ps \subseteq Boxes
  BY DEF At
<1>2. /\ Doing(s, b, ps).step = s /\ Doing(s, b, ps).box = {b}
      /\ Doing(s, b, ps).todo = ps
  BY DEF Doing
<1>3. Doing(s, b, ps) \in Job
  BY <1>1 DEF Doing, Job, Steps
<1>4. InOrder(n, Doing(s, b, ps), C)
  BY <1>2 DEF InOrder
<1> QED BY <1>3, <1>4

LEMMA TypedInitially == Init => Typed
<1> SUFFICES ASSUME Init PROVE Typed
  OBVIOUS
<1>1. Connected
  BY RemoteAssumption DEF Init, Connected
<1>2. Addressed
  BY DEF Init, Addressed
<1>3. Working
  BY RestingFacts DEF Init, Working
<1>4. Recorded
  BY RemoteAssumption DEF Init, Recorded
<1> QED BY <1>1, <1>2, <1>3, <1>4 DEF Typed

-----------------------------------------------------------------------------
(***************************************************************************)
(* Every action keeps the types.                                           *)
(***************************************************************************)
LEMMA ConnectTyped ==
  ASSUME Typed, NEW n \in Nodes, get_connection_to(n)
  PROVE  Typed'
<1> DEFINE c == Len(dialled) + 1
<1>1. /\ Len(dialled) \in Nat /\ DOMAIN dialled = 1..Len(dialled)
      /\ dialled \in Seq(Nodes) /\ Len(dialled) < MaxConns /\ MaxConns \in Nat
  BY LenProperties, RemoteAssumption DEF Typed, Connected, get_connection_to
<1>2. /\ dialled' = Append(dialled, n) /\ alive' = alive \cup {c}
      /\ UNCHANGED <<entry, ready, unnoticed>>
  BY DEF get_connection_to
<1>3. dialled' \in Seq(Nodes) /\ Len(dialled') = c
  BY <1>1, <1>2, AppendProperties
<1>4. DOMAIN dialled' = 1..c
  BY <1>3, LenProperties
<1>5. alive' \subseteq DOMAIN dialled' /\ Len(dialled') <= MaxConns
  BY <1>1, <1>2, <1>3, <1>4 DEF Typed, Connected
<1> HIDE DEF c
<1>6. Connected'
  BY <1>2, <1>3, <1>5 DEF Typed, Connected
<1>7. Addressed'
  BY AddressedKept DEF get_connection_to, Typed
<1>8. Working' /\ Recorded'
  BY DEF get_connection_to, Typed, Working, Recorded, history
<1> QED BY <1>6, <1>7, <1>8 DEF Typed

LEMMA AcceptTyped ==
  ASSUME Typed, NEW n \in Nodes, NEW c \in Conns, handshake_success_as_B(n, c)
  PROVE  Typed'
<1>1. Connected'
  BY DEF handshake_success_as_B, Inserted, Typed, Connected
<1>2. Addressed'
  BY AddressedKept DEF handshake_success_as_B, Typed
<1>3. Working' /\ Recorded'
  BY DEF handshake_success_as_B, Typed, Working, Recorded, history
<1> QED BY <1>1, <1>2, <1>3 DEF Typed

(***************************************************************************)
(* A list is the first of its members, if any, and the others.             *)
(***************************************************************************)
LEMMA CutRange ==
  ASSUME NEW S, NEW s \in Seq(S), NEW k \in 0..Len(s)
  PROVE  /\ SubSeq(s, k + 1, Len(s)) \in Seq(S)
         /\ SubSeq(s, 1, k) \in Seq(S)
         /\ Range(s) = Range(SubSeq(s, 1, k))
                         \cup Range(SubSeq(s, k + 1, Len(s)))
<1>1. CASE k = 0
  <2>1. SubSeq(s, 1, Len(s)) = s
    BY SubSeqFull
  <2>2. SubSeq(s, 1, 0) = <<>>
    BY SubSeqEmpty
  <2>3. Range(<<>>) = {} /\ <<>> \in Seq(S)
    BY DEF Range
  <2>4. /\ SubSeq(s, k + 1, Len(s)) = s /\ SubSeq(s, 1, k) = <<>>
    BY <1>1, <2>1, <2>2
  <2> HIDE DEF Range
  <2> QED BY ONLY <2>3, <2>4, s \in Seq(S)
<1>2. CASE k # 0
  <2>1. k \in 1..Len(s)
    BY <1>2, LenProperties
  <2> QED BY <2>1, SplitRange
<1> QED BY <1>1, <1>2

(***************************************************************************)
(* The acknowledgement is read, with the first messages behind it.         *)
(***************************************************************************)
LEMMA MadeFacts ==
  ASSUME Typed, NEW n \in Nodes, NEW c \in Conns,
         NEW k \in 0..Len(wire[c][n]), handshake_success(n, c, k)
  PROVE  /\ Addressed'
         /\ \A d \in Conns, j \in Nodes :
              d # c \/ j # n => InTransit(d, j)' = InTransit(d, j)
         /\ InTransit(c, n)' \subseteq InTransit(c, n)
         /\ \A m \in InTransit(c, n) : m \in InTransit(c, n)' \/ Link(m) \in lost'
         /\ lost \subseteq lost' /\ lost' \subseteq Links
<1> DEFINE w == wire[c][n]
           part == SubSeq(w, 1, k)
           rest == SubSeq(w, k + 1, Len(w))
<1>1. w \in Seq(To(n)) /\ Addressed /\ Connected /\ k \in 0..Len(w)
  BY DEF Typed, Addressed
<1>2. /\ held' = [held EXCEPT ![n] = c] /\ UNCHANGED <<stalled, lexed>>
      /\ wire' = [wire EXCEPT ![c][n] = rest]
      /\ lost' = lost \cup {e \in Links : About(e, part)}
  BY DEF handshake_success
<1>3. lost \subseteq lost' /\ lost' \subseteq Links
  BY <1>2 DEF Typed, Recorded
<1> HIDE DEF w
<1>4. /\ rest \in Seq(To(n)) /\ part \in Seq(To(n))
      /\ Range(w) = Range(part) \cup Range(rest)
  BY <1>1, CutRange
<1> HIDE DEF rest, part
<1>5. /\ wire'  = [d \in Conns |-> [j \in Nodes |-> wire'[d][j]]]
      /\ wire'[c][n] = rest
      /\ \A d \in Conns, j \in Nodes :
           d # c \/ j # n => wire'[d][j] = wire[d][j]
  BY ONLY <1>1, <1>2, n \in Nodes, c \in Conns DEF Addressed
<1>6. \A d \in Conns, j \in Nodes : wire'[d][j] \in Seq(To(j))
  <2> SUFFICES ASSUME NEW d \in Conns, NEW j \in Nodes
               PROVE  wire'[d][j] \in Seq(To(j))
    OBVIOUS
  <2>1. CASE d = c /\ j = n
    BY <1>4, <1>5, <2>1
  <2>2. CASE d # c \/ j # n
    BY <1>1, <1>5, <2>2 DEF Addressed
  <2> QED BY <2>1, <2>2
<1>7. held' \in [Nodes -> Conns \cup {NoConn}]
  BY <1>1, <1>2 DEF Addressed
<1>8. Addressed'
  <2>1. /\ lexed' = [d \in Conns |-> [j \in Nodes |-> lexed'[d][j]]]
        /\ \A d \in Conns, j \in Nodes : lexed'[d][j] \in Seq(To(j))
        /\ stalled' \in SUBSET (Nodes \X Conns)
    BY <1>1, <1>2 DEF Addressed
  <2> QED BY <1>5, <1>6, <1>7, <2>1 DEF Addressed
<1>9. ASSUME NEW m \in Range(part) PROVE Link(m) \in lost'
  <2>1. PICK i \in DOMAIN part : part[i] = m
    BY DEF Range
  <2>2. About(Link(m), part)
    BY <2>1 DEF About
  <2>3. m \in To(n)
    <3>1. DOMAIN part = 1..Len(part)
      BY <1>4, LenProperties
    <3> QED BY <1>4, <2>1, <3>1, ElementOfSeq
  <2>4. m.to \in At(n) /\ m.from \in At(Peer(n))
    BY <2>3 DEF To
  <2>5. {m.to, m.from} \in Links
    BY <2>4, LinkFacts
  <2>6. Link(m) \in Links
    BY <2>5 DEF Link
  <2> QED BY <1>2, <2>2, <2>6
<1>10. /\ InTransit(c, n) = Range(w) \cup Range(lexed[c][n])
       /\ InTransit(c, n)' = Range(rest) \cup Range(lexed[c][n])
  BY <1>2, <1>5 DEF InTransit, w
<1>11. \A d \in Conns, j \in Nodes :
         d # c \/ j # n => InTransit(d, j)' = InTransit(d, j)
  BY <1>2, <1>5 DEF InTransit
<1>12. /\ InTransit(c, n)' \subseteq InTransit(c, n)
       /\ \A m \in InTransit(c, n) : m \in InTransit(c, n)' \/ Link(m) \in lost'
  BY <1>4, <1>9, <1>10
<1> QED BY <1>3, <1>8, <1>11, <1>12

LEMMA MadeTyped ==
  ASSUME Typed, NEW n \in Nodes, NEW c \in Conns,
         NEW k \in 0..Len(wire[c][n]), handshake_success(n, c, k)
  PROVE  Typed'
<1>1. Connected'
  BY DEF handshake_success, Inserted, Typed, Connected
<1>2. Addressed' /\ lost' \subseteq Links
  BY MadeFacts
<1>3. Working' /\ Recorded'
  BY <1>2 DEF handshake_success, Typed, Working, Recorded
<1> QED BY <1>1, <1>2, <1>3 DEF Typed

LEMMA BreakTyped ==
  ASSUME Typed, NEW c \in Conns, connection_breaks(c)
  PROVE  Typed'
<1>1. Connected'
  BY DEF connection_breaks, Typed, Connected
<1>2. Addressed'
  <2>1. /\ wire' = [wire EXCEPT ![c] = [n \in Nodes |-> <<>>]]
        /\ lexed' = [lexed EXCEPT ![c] = [n \in Nodes |-> <<>>]]
    BY DEF connection_breaks
  <2>2. /\ wire' = [d \in Conns |-> [n \in Nodes |-> wire'[d][n]]]
        /\ \A d \in Conns, n \in Nodes :
             wire'[d][n] = IF d = c THEN <<>> ELSE wire[d][n]
    BY <2>1 DEF Typed, Addressed
  <2>3. /\ lexed' = [d \in Conns |-> [n \in Nodes |-> lexed'[d][n]]]
        /\ \A d \in Conns, n \in Nodes :
             lexed'[d][n] = IF d = c THEN <<>> ELSE lexed[d][n]
    BY <2>1 DEF Typed, Addressed
  <2>4. \A n \in Nodes : <<>> \in Seq(To(n))
    OBVIOUS
  <2>5. held' = held /\ stalled' \subseteq stalled
    BY DEF connection_breaks
  <2> QED BY <2>2, <2>3, <2>4, <2>5 DEF Typed, Addressed
<1>3. Working' /\ Recorded'
  BY DEF connection_breaks, Typed, Working, Recorded
<1> QED BY <1>1, <1>2, <1>3 DEF Typed

LEMMA DropTyped ==
  ASSUME Typed, NEW n \in Nodes, NEW c \in Conns, drop_connection_to(n, c)
  PROVE  Typed'
<1>1. Connected'
  BY DEF drop_connection_to, Typed, Connected
<1>2. Addressed'
  BY AddressedKept DEF drop_connection_to, Typed
<1>3. Working' /\ Recorded'
  BY DEF drop_connection_to, Typed, Working, Recorded, history
<1> QED BY <1>1, <1>2, <1>3 DEF Typed

LEMMA MsgTyped ==
  ASSUME NEW n \in Nodes, NEW b \in At(n), NEW p \in At(Peer(n)),
         NEW op \in Ops
  PROVE  /\ Msg(op, b, p) \in To(Peer(n)) /\ Link(Msg(op, b, p)) = {b, p}
         /\ {b, p} \in Links
BY PeerFacts, LinkFacts DEF Msg, To, Link

LEMMA LinkTyped ==
  ASSUME Typed, NEW n \in Nodes, NEW b \in Boxes, NEW p \in Boxes,
         link(n, b, p)
  PROVE  Typed'
<1>1. b \in At(n) /\ p \in At(Peer(n))
  BY DEF link
<1>2. Connected' /\ Addressed'
  BY ConnectedKept, AddressedKept DEF link, Typed
<1>3. Working'
  <2>1. /\ Doing("link", b, {p}) \in Job
        /\ InOrder(n, Doing("link", b, {p}), closed)
    BY <1>1, DoingFacts
  <2>2. /\ job' = [job EXCEPT ![n] = Doing("link", b, {p})]
        /\ UNCHANGED <<mailboxes, closed>>
    BY DEF link
  <2> QED BY <2>1, <2>2, WorkingGoesOn DEF Typed, Working
<1>4. Recorded'
  <2>1. calls' \in 0..MaxCalls
    BY RemoteAssumption DEF link, Calls, Typed, Recorded
  <2> QED BY <2>1 DEF link, Typed, Recorded, history
<1> QED BY <1>2, <1>3, <1>4 DEF Typed

LEMMA BusyFacts ==
  ASSUME Typed, NEW n \in Nodes, job[n].step # "idle"
  PROVE  /\ job[n].step \in {"link", "store", "request", "exits"}
         /\ \E b \in At(n) : job[n].box = {b}
         /\ job[n].box \subseteq At(n) /\ job[n].todo \subseteq At(Peer(n))
         /\ job[n].step = "exits" => job[n].box \subseteq closed
         /\ ~Idle(n)
<1>1. Resting.step = "idle"
  BY DEF Resting
<1> QED BY <1>1 DEF Typed, Working, InOrder, Idle

(***************************************************************************)
(* A job goes on with its next step, or with less to do.                   *)
(***************************************************************************)
LEMMA NextStepFacts ==
  ASSUME Typed, NEW n \in Nodes, job[n].step = "link",
         job' = [job EXCEPT ![n].step = "store"], UNCHANGED <<mailboxes, closed>>
  PROVE  /\ Working' /\ job'[n].step = "store"
         /\ job'[n].box = job[n].box /\ job'[n].todo = job[n].todo
<1> DEFINE j == [job[n] EXCEPT !.step = "store"]
<1>1. job[n] \in Job
  BY DEF Typed, Working
<1>2. /\ j \in Job /\ j.step = "store" /\ j.box = job[n].box
      /\ j.todo = job[n].todo
  BY <1>1 DEF Job, Steps
<1>3. job' = [job EXCEPT ![n] = j] /\ job'[n] = j
  BY DEF Typed, Working
<1> HIDE DEF j
<1>4. InOrder(n, j, closed)
  BY <1>2, BusyFacts DEF InOrder
<1> QED BY <1>2, <1>3, <1>4, WorkingGoesOn DEF Typed, Working

(***************************************************************************)
(* The request of a link is sent.                                          *)
(***************************************************************************)
LEMMA RequestLinkFacts ==
  ASSUME Typed, NEW n \in Nodes, request_link(n)
  PROVE  \E b \in At(n), p \in At(Peer(n)) :
           /\ job[n].box = {b} /\ p \in job[n].todo
           /\ Posted(n, Msg("link", b, p), Crossing(n, {b, p}))
           /\ asked' = [asked EXCEPT ![{b, p}] = @ + 1]
<1>1. job[n].step # "idle"
  BY DEF request_link
<1>2. PICK b \in At(n) : job[n].box = {b}
  BY <1>1, BusyFacts
<1>3. job[n].todo \subseteq At(Peer(n))
  BY <1>1, BusyFacts
<1> QED BY <1>2, <1>3 DEF request_link

LEMMA RequestLinkTyped ==
  ASSUME Typed, NEW n \in Nodes, request_link(n)
  PROVE  Typed'
<1>1. PICK b \in At(n), p \in At(Peer(n)) :
        /\ Posted(n, Msg("link", b, p), Crossing(n, {b, p}))
        /\ asked' = [asked EXCEPT ![{b, p}] = @ + 1]
  BY RequestLinkFacts
<1>2. /\ Msg("link", b, p) \in To(Peer(n)) /\ {b, p} \in Links
      /\ Link(Msg("link", b, p)) = {b, p}
  BY MsgTyped DEF Ops
<1>3. Connected' /\ UNCHANGED lexed
  BY ConnectedKept DEF request_link, Typed
<1>4. /\ Addressed' /\ lost' \subseteq lost \cup {{b, p}}
      /\ crossed' \subseteq crossed \cup Crossing(n, {b, p}) \cup {{b, p}}
  BY <1>1, <1>2, <1>3, PostedFacts DEF Typed
<1>5. Working'
  BY NextStepFacts DEF request_link
<1>6. Recorded'
  <2>1. lost' \subseteq Links /\ crossed' \subseteq Links
    BY <1>2, <1>4 DEF Crossing, Typed, Recorded
  <2>2. asked' \in [Links -> Nat]
    BY <1>1, <1>2 DEF Typed, Recorded
  <2> QED BY <2>1, <2>2 DEF request_link, Typed, Recorded
<1> QED BY <1>3, <1>4, <1>5, <1>6 DEF Typed

LEMMA StoreTyped ==
  ASSUME Typed, NEW n \in Nodes, store_link(n)
  PROVE  Typed'
<1>1. Connected' /\ Addressed'
  BY ConnectedKept, AddressedKept DEF store_link, Typed
<1>2. Working'
  <2>1. job' = [job EXCEPT ![n] = Resting] /\ UNCHANGED <<mailboxes, closed>>
    BY DEF store_link
  <2> QED BY <2>1, RestingFacts, WorkingGoesOn DEF Typed, Working
<1>3. Recorded'
  <2>1. links' \in [Nodes -> SUBSET Links]
    BY DEF store_link, Typed, Recorded, JobLinks
  <2> QED BY <2>1 DEF store_link, Typed, Recorded, history
<1> QED BY <1>1, <1>2, <1>3 DEF Typed

LEMMA UnlinkTyped ==
  ASSUME Typed, NEW n \in Nodes, NEW b \in Boxes, NEW p \in Boxes,
         unlink(n, b, p)
  PROVE  Typed'
<1>1. b \in At(n) /\ p \in At(Peer(n))
  BY DEF unlink
<1>2. Connected' /\ Addressed'
  BY ConnectedKept, AddressedKept DEF unlink, Typed
<1>3. Working'
  <2>1. /\ Doing("request", b, {p}) \in Job
        /\ InOrder(n, Doing("request", b, {p}), closed)
    BY <1>1, DoingFacts
  <2>2. /\ job' = [job EXCEPT ![n] = Doing("request", b, {p})]
        /\ UNCHANGED <<mailboxes, closed>>
    BY DEF unlink
  <2> QED BY <2>1, <2>2, WorkingGoesOn DEF Typed, Working
<1>4. Recorded'
  <2>1. calls' \in 0..MaxCalls
    BY RemoteAssumption DEF unlink, Calls, Typed, Recorded
  <2>2. links' \in [Nodes -> SUBSET Links]
    BY DEF unlink, Typed, Recorded
  <2>3. {b, p} \in Links
    BY <1>1, LinkFacts
  <2>4. crossed' \subseteq Links
    BY <2>3 DEF unlink, Crossing, Typed, Recorded
  <2> QED BY <2>1, <2>2, <2>4 DEF unlink, Typed, Recorded
<1> QED BY <1>2, <1>3, <1>4 DEF Typed

LEMMA RequestUnlinkTyped ==
  ASSUME Typed, NEW n \in Nodes, request_unlink(n)
  PROVE  Typed'
<1>1. PICK b \in job[n].box, p \in job[n].todo :
        Posted(n, Msg("unlink", b, p), {})
  BY DEF request_unlink
<1>2. b \in At(n) /\ p \in At(Peer(n)) /\ "unlink" \in Ops
  BY <1>1, BusyFacts DEF request_unlink, Ops
<1>3. /\ Msg("unlink", b, p) \in To(Peer(n)) /\ {b, p} \in Links
      /\ Link(Msg("unlink", b, p)) = {b, p}
  BY <1>2, MsgTyped
<1>4. Connected' /\ UNCHANGED lexed
  BY ConnectedKept DEF request_unlink, Typed
<1>5. /\ Addressed' /\ lost' \subseteq lost \cup {{b, p}}
      /\ crossed' \subseteq crossed \cup {{b, p}}
  BY <1>1, <1>3, <1>4, PostedFacts DEF Typed
<1>6. Working'
  <2>1. job' = [job EXCEPT ![n] = Resting] /\ UNCHANGED <<mailboxes, closed>>
    BY DEF request_unlink
  <2> QED BY <2>1, RestingFacts, WorkingGoesOn DEF Typed, Working
<1>7. Recorded'
  <2>1. lost' \subseteq Links /\ crossed' \subseteq Links
    BY <1>3, <1>5 DEF Typed, Recorded
  <2> QED BY <2>1 DEF request_unlink, Typed, Recorded
<1> QED BY <1>4, <1>5, <1>6, <1>7 DEF Typed

(***************************************************************************)
(* The processes a close has to tell are at the other ends of the links.   *)
(***************************************************************************)
LEMMA CloseFacts ==
  ASSUME Typed, NEW n \in Nodes, NEW b \in Boxes, close_links_for_local(n, b)
  PROVE  \E told \in SUBSET At(Peer(n)) :
           /\ job' = [job EXCEPT ![n] = Doing("exits", b, told)]
           /\ owed' = owed \cup {<<p, b>> : p \in told}
<1> DEFINE told == {Other(e, b) : e \in LinksOf(n, b)}
<1>1. b \in At(n)
  BY DEF close_links_for_local
<1>2. ASSUME NEW e \in LinksOf(n, b) PROVE Other(e, b) \in At(Peer(n))
  <2>1. e \in Links /\ b \in e
    BY DEF LinksOf, Typed, Recorded
  <2> QED BY <1>1, <2>1, OtherFacts
<1>3. told \in SUBSET At(Peer(n))
  BY <1>2
<1>4. /\ job' = [job EXCEPT ![n] = Doing("exits", b, told)]
      /\ owed' = owed \cup {<<p, b>> : p \in told}
  BY DEF close_links_for_local
<1> HIDE DEF told
<1> QED BY <1>3, <1>4

LEMMA CloseTyped ==
  ASSUME Typed, NEW n \in Nodes, NEW b \in Boxes, close_links_for_local(n, b)
  PROVE  Typed'
<1>1. b \in At(n) /\ closed' = closed \cup {b} /\ UNCHANGED mailboxes
  BY DEF close_links_for_local
<1>2. PICK told \in SUBSET At(Peer(n)) :
        /\ job' = [job EXCEPT ![n] = Doing("exits", b, told)]
        /\ owed' = owed \cup {<<p, b>> : p \in told}
  BY CloseFacts
<1>3. Connected' /\ Addressed'
  BY ConnectedKept, AddressedKept DEF close_links_for_local, Typed
<1>4. Working'
  <2>1. /\ Doing("exits", b, told) \in Job
        /\ InOrder(n, Doing("exits", b, told), closed')
    BY <1>1, DoingFacts
  <2>2. closed \subseteq closed' /\ closed' \subseteq Boxes
    BY <1>1 DEF Typed, Working
  <2> QED BY <1>1, <1>2, <2>1, <2>2, WorkingGoesOn DEF Typed
<1>5. Recorded'
  <2>1. calls' \in 0..MaxCalls
    BY RemoteAssumption DEF close_links_for_local, Calls, Typed, Recorded
  <2>2. links' \in [Nodes -> SUBSET Links]
    BY DEF close_links_for_local, Typed, Recorded
  <2>3. owed' \in SUBSET (Boxes \X Boxes)
    BY <1>2 DEF At, Typed, Recorded
  <2> QED BY <2>1, <2>2, <2>3 DEF close_links_for_local, Typed, Recorded
<1> QED BY <1>3, <1>4, <1>5 DEF Typed

(***************************************************************************)
(* An exit is sent.                                                        *)
(***************************************************************************)
LEMMA ExitFacts ==
  ASSUME Typed, NEW n \in Nodes, request_exit2(n)
  PROVE  \E b \in At(n), p \in At(Peer(n)) :
           /\ job[n].box = {b} /\ p \in job[n].todo
           /\ Posted(n, Msg("exit2", b, p), {})
           /\ job' = [job EXCEPT ![n].todo = @ \ {p}]
<1>1. job[n].step # "idle"
  BY DEF request_exit2
<1>2. PICK b \in At(n) : job[n].box = {b}
  BY <1>1, BusyFacts
<1>3. job[n].todo \subseteq At(Peer(n))
  BY <1>1, BusyFacts
<1> QED BY <1>2, <1>3 DEF request_exit2

LEMMA ExitTyped ==
  ASSUME Typed, NEW n \in Nodes, request_exit2(n)
  PROVE  Typed'
<1>1. PICK b \in At(n), p \in At(Peer(n)) :
           /\ Posted(n, Msg("exit2", b, p), {})
           /\ job' = [job EXCEPT ![n].todo = @ \ {p}]
  BY ExitFacts
<1>2. /\ Msg("exit2", b, p) \in To(Peer(n)) /\ {b, p} \in Links
      /\ Link(Msg("exit2", b, p)) = {b, p}
  BY MsgTyped DEF Ops
<1>3. Connected' /\ UNCHANGED <<lexed, mailboxes, closed>>
  BY ConnectedKept DEF request_exit2, Typed
<1>4. /\ Addressed' /\ lost' \subseteq lost \cup {{b, p}}
      /\ crossed' \subseteq crossed \cup {{b, p}}
  BY <1>1, <1>2, <1>3, PostedFacts DEF Typed
<1>5. Working'
  <2> DEFINE j == [job[n] EXCEPT !.todo = @ \ {p}]
  <2>1. job[n] \in Job /\ job[n].step = "exits"
    BY DEF Typed, Working, request_exit2
  <2>2. /\ j \in Job /\ j.step = job[n].step /\ j.box = job[n].box
        /\ j.todo = job[n].todo \ {p}
    BY <2>1 DEF Job
  <2>3. job' = [job EXCEPT ![n] = j]
    BY <1>1 DEF Typed, Working
  <2> HIDE DEF j
  <2>4. InOrder(n, j, closed)
    BY <2>1, <2>2, BusyFacts DEF InOrder
  <2> QED BY <1>3, <2>2, <2>3, <2>4, WorkingGoesOn DEF Typed, Working
<1>6. Recorded'
  <2>1. lost' \subseteq Links /\ crossed' \subseteq Links
    BY <1>2, <1>4 DEF Typed, Recorded
  <2> QED BY <2>1 DEF request_exit2, Typed, Recorded
<1> QED BY <1>3, <1>4, <1>5, <1>6 DEF Typed

LEMMA ThrowTyped ==
  ASSUME Typed, NEW n \in Nodes, throws(n)
  PROVE  Typed'
<1>1. Connected'
  <2>1. /\ UNCHANGED <<entry, dialled, ready, alive>>
        /\ unnoticed' \subseteq unnoticed
    BY DEF throws
  <2> QED BY <2>1 DEF Typed, Connected
<1>2. Addressed'
  BY AddressedKept DEF throws, Typed
<1>3. Working'
  <2>1. job' = [job EXCEPT ![n] = Resting] /\ UNCHANGED <<mailboxes, closed>>
    BY DEF throws
  <2> QED BY <2>1, RestingFacts, WorkingGoesOn DEF Typed, Working
<1>4. Recorded'
  <2>1. lost' \subseteq Links
    BY DEF throws, JobLinks, Typed, Recorded
  <2> QED BY <2>1 DEF throws, Typed, Recorded
<1> QED BY <1>1, <1>2, <1>3, <1>4 DEF Typed

LEMMA UnlinkExitedTyped ==
  ASSUME Typed, NEW n \in Nodes, unlink_exited(n)
  PROVE  Typed'
<1>1. Connected' /\ Addressed'
  BY ConnectedKept, AddressedKept DEF unlink_exited, Typed
<1>2. Working' /\ Recorded'
  BY DEF unlink_exited, Typed, Working, Recorded, history
<1> QED BY <1>1, <1>2 DEF Typed

LEMMA RemoveTyped ==
  ASSUME Typed, NEW n \in Nodes, remove(n)
  PROVE  Typed'
<1>1. Connected' /\ Addressed'
  BY ConnectedKept, AddressedKept DEF remove, Typed
<1>2. Working'
  <2>1. /\ job' = [job EXCEPT ![n] = Resting] /\ UNCHANGED closed
        /\ mailboxes' = mailboxes \ job[n].box /\ job[n].step = "exits"
    BY DEF remove
  <2>2. job[n].box \subseteq closed
    BY <2>1, BusyFacts
  <2>3. /\ job' \in [Nodes -> Job]
        /\ \A k \in Nodes : InOrder(k, job'[k], closed)
    BY <2>1, RestingFacts DEF Typed, Working
  <2>4. /\ mailboxes' \subseteq Boxes /\ closed' \subseteq Boxes
        /\ Boxes \ mailboxes' \subseteq closed'
    BY <2>1, <2>2 DEF Typed, Working
  <2> QED BY <2>1, <2>3, <2>4 DEF Working
<1>3. Recorded'
  BY DEF remove, Typed, Recorded, history
<1> QED BY <1>1, <1>2, <1>3 DEF Typed
(***************************************************************************)
(* A message is handled.                                                   *)
(***************************************************************************)
LEMMA ReceivedFacts ==
  ASSUME Typed, NEW n \in Nodes, NEW c \in Conns,
         NEW k \in 1..Len(wire[c][n]), msg_received(n, c, k)
  PROVE  \E m \in To(n) :
           /\ Addressed'
           /\ InTransit(c, n) = {m} \cup InTransit(c, n)'
           /\ \A d \in Conns, j \in Nodes :
                d # c \/ j # n => InTransit(d, j)' = InTransit(d, j)
           /\ incoming_link(n, m) \/ incoming_unlink(n, m) \/ incoming_exit2(n, m)
           /\ crossed' \subseteq crossed \cup JobLinks(n)
<1> DEFINE read == lexed[c][n] \o SubSeq(wire[c][n], 1, k)
           m == Head(read)
<1>1. /\ UNCHANGED <<held, stalled>>
      /\ lexed' = [lexed EXCEPT ![c][n] = Tail(read)]
      /\ wire' = [wire EXCEPT ![c][n] = SubSeq(@, k + 1, Len(@))]
      /\ incoming_link(n, m) \/ incoming_unlink(n, m) \/ incoming_exit2(n, m)
      /\ crossed' = IF Link(m) \in JobLinks(n) THEN crossed \cup {Link(m)}
                                                ELSE crossed
  BY DEF msg_received
<1>2. Addressed
  BY DEF Typed
<1>3. /\ Addressed' /\ m \in To(n)
      /\ InTransit(c, n) = {m} \cup InTransit(c, n)'
      /\ \A d \in Conns, j \in Nodes :
           d # c \/ j # n => InTransit(d, j)' = InTransit(d, j)
  BY <1>1, <1>2, ReadFacts
<1>4. crossed' \subseteq crossed \cup JobLinks(n)
  BY <1>1
<1> HIDE DEF m
<1> QED BY <1>1, <1>3, <1>4

LEMMA ReceivedTyped ==
  ASSUME Typed, NEW n \in Nodes, NEW c \in Conns,
         NEW k \in 1..Len(wire[c][n]), msg_received(n, c, k)
  PROVE  Typed'
<1>1. PICK m \in To(n) :
        /\ Addressed'
        /\ incoming_link(n, m) \/ incoming_unlink(n, m) \/ incoming_exit2(n, m)
        /\ crossed' \subseteq crossed \cup JobLinks(n)
  BY ReceivedFacts
<1>2. m.to \in At(n) /\ m.from \in At(Peer(n))
  BY DEF To
<1>3. Link(m) \in Links /\ m.to \in Boxes /\ m.from \in Boxes
  <2>1. {m.to, m.from} \in Links /\ m.to \in Boxes /\ m.from \in Boxes
    BY <1>2, LinkFacts
  <2> QED BY <2>1 DEF Link
<1>4. UNCHANGED connections /\ UNCHANGED <<mailboxes, job, calls, closed, asked, lost>>
  BY DEF msg_received
<1>5. Connected' /\ Working'
  BY <1>4, ConnectedKept DEF Typed, Working
<1>6. /\ links' \in [Nodes -> SUBSET Links] /\ dead' \subseteq Links
      /\ owed' \in SUBSET (Boxes \X Boxes)
      /\ unlinking' \in [Nodes -> SUBSET Links]
  <2>1. /\ links \in [Nodes -> SUBSET Links] /\ dead \subseteq Links
        /\ owed \in SUBSET (Boxes \X Boxes)
        /\ unlinking \in [Nodes -> SUBSET Links]
    BY DEF Typed, Recorded
  <2>2. CASE incoming_link(n, m)
    BY <1>3, <2>1, <2>2 DEF incoming_link
  <2>3. CASE incoming_unlink(n, m)
    BY <1>3, <2>1, <2>3 DEF incoming_unlink
  <2>4. CASE incoming_exit2(n, m)
    BY <1>3, <2>1, <2>4 DEF incoming_exit2
  <2> QED BY <1>1, <2>2, <2>3, <2>4
<1>7. reports' \in [Boxes -> Seq(Boxes)]
  <2>1. reports \in [Boxes -> Seq(Boxes)] /\ reports[m.to] \in Seq(Boxes)
    BY <1>3 DEF Typed, Recorded
  <2>2. Append(reports[m.to], m.from) \in Seq(Boxes)
    BY <1>3, <2>1, AppendProperties
  <2>3. \/ UNCHANGED reports
        \/ reports' = [reports EXCEPT ![m.to] = Append(reports[m.to], m.from)]
    BY <1>1 DEF incoming_link, incoming_unlink, incoming_exit2
  <2> QED BY <1>3, <2>1, <2>2, <2>3
<1>8. crossed' \subseteq Links
  BY <1>1 DEF JobLinks, Typed, Recorded
<1>9. Recorded'
  BY <1>4, <1>6, <1>7, <1>8 DEF Typed, Recorded
<1> QED BY <1>1, <1>5, <1>9 DEF Typed

LEMMA TypedStep == Typed /\ [Next]_vars => Typed'
<1> SUFFICES ASSUME Typed, [Next]_vars PROVE Typed'
  OBVIOUS
<1>1. ASSUME NEW n \in Nodes,
             \/ get_connection_to(n) \/ request_link(n) \/ store_link(n)
             \/ request_unlink(n) \/ request_exit2(n) \/ throws(n)
             \/ remove(n) \/ unlink_exited(n)
      PROVE  Typed'
  BY <1>1, ConnectTyped, RequestLinkTyped, StoreTyped, RequestUnlinkTyped,
     ExitTyped, ThrowTyped, RemoveTyped, UnlinkExitedTyped
<1>2. ASSUME NEW c \in Conns, connection_breaks(c) PROVE Typed'
  BY <1>2, BreakTyped
<1>3. ASSUME NEW n \in Nodes, NEW c \in Conns,
             drop_connection_to(n, c) \/ handshake_success_as_B(n, c)
      PROVE  Typed'
  BY <1>3, DropTyped, AcceptTyped
<1>4. ASSUME NEW n \in Nodes, NEW b \in Boxes, NEW p \in Boxes,
             link(n, b, p) \/ unlink(n, b, p)
      PROVE  Typed'
  BY <1>4, LinkTyped, UnlinkTyped
<1>5. ASSUME NEW n \in Nodes, NEW b \in Boxes, close_links_for_local(n, b)
      PROVE  Typed'
  BY <1>5, CloseTyped
<1>6. ASSUME NEW n \in Nodes, NEW c \in Conns,
             NEW k \in 1..Len(wire[c][n]), msg_received(n, c, k)
      PROVE  Typed'
  BY <1>6, ReceivedTyped
<1>8. ASSUME NEW n \in Nodes, NEW c \in Conns,
             NEW k \in 0..Len(wire[c][n]), handshake_success(n, c, k)
      PROVE  Typed'
  BY <1>8, MadeTyped
<1>7. CASE UNCHANGED vars
  <2>1. Connected' /\ Addressed'
    BY <1>7, ConnectedKept, AddressedKept DEF vars, Typed
  <2>2. Working' /\ Recorded'
    BY <1>7 DEF vars, history, Typed, Working, Recorded
  <2> QED BY <2>1, <2>2 DEF Typed
<1> QED BY <1>1, <1>2, <1>3, <1>4, <1>5, <1>6, <1>7, <1>8 DEF Next

LEMMA TypedAlways == Spec => []Typed
BY TypedInitially, TypedStep, PTL DEF Spec

(***************************************************************************)
(* Type correctness of both nodes' state, for any number of mailboxes,     *)
(* connections and calls.                                                  *)
(***************************************************************************)
THEOREM RemoteTypeCorrect == Spec => []TypeOK
<1>1. Typed => TypeOK
  <2> SUFFICES ASSUME Typed PROVE TypeOK
    OBVIOUS
  <2>1. \A n \in Nodes : To(n) \subseteq Message
    BY DEF To, Message, At
  <2>2. \A n \in Nodes : \A s \in Seq(To(n)) : s \in Seq(Message)
    <3> SUFFICES ASSUME NEW n \in Nodes, NEW s \in Seq(To(n))
                 PROVE  s \in Seq(Message)
      OBVIOUS
    <3> DEFINE T == To(n)
               M == Message
    <3>1. T \subseteq M /\ s \in Seq(T)
      BY <2>1
    <3> HIDE DEF T, M
    <3>2. s \in Seq(M)
      BY ONLY <3>1
    <3> QED BY <3>2 DEF M
  <2>3. \A c \in Conns, n \in Nodes :
          wire[c][n] \in Seq(Message) /\ lexed[c][n] \in Seq(Message)
    BY <2>2 DEF Typed, Addressed
  <2>4. /\ wire \in [Conns -> [Nodes -> Seq(Message)]]
        /\ lexed \in [Conns -> [Nodes -> Seq(Message)]]
    BY <2>3 DEF Typed, Addressed
  <2>5. held \in [Nodes -> Conns \cup {NoConn}] /\ stalled \in SUBSET (Nodes \X Conns)
    BY DEF Typed, Addressed
  <2> QED BY <2>4, <2>5 DEF Typed, Connected, Working, Recorded, TypeOK
<1> QED BY <1>1, TypedAlways, PTL
-----------------------------------------------------------------------------
(***************************************************************************)
(* Exits owed.                                                             *)
(***************************************************************************)

(***************************************************************************)
(* A step keeps the exits owed under way that drops an exit only when it   *)
(* is counted as lost, or told, or for a mailbox that is closed.           *)
(***************************************************************************)
LEMMA OwingKept ==
  ASSUME Owing, owed' \subseteq owed, closed \subseteq closed',
         lost \subseteq lost',
         \A p, b : <<p, b>> \in owed' /\ Coming(p, b) =>
           Coming(p, b)' \/ p \in closed' \/ {p, b} \in lost',
         owed \subseteq Boxes \X Boxes
  PROVE  Owing'
<1> SUFFICES ASSUME NEW d \in owed'
             PROVE  \/ Coming(d[1], d[2])' \/ d[1] \in closed'
                    \/ {d[1], d[2]} \in lost'
  BY DEF Owing
<1>1. d = <<d[1], d[2]>> /\ d \in owed
  OBVIOUS
<1>2. Coming(d[1], d[2]) \/ d[1] \in closed \/ {d[1], d[2]} \in lost
  BY <1>1 DEF Owing
<1> QED BY <1>1, <1>2

LEMMA JobsKept ==
  ASSUME Typed, NEW n \in Nodes, NEW j, job' = [job EXCEPT ![n] = j],
         job[n].step # "exits" \/ job[n].todo = {}
  PROVE  \A p, b : ToBeSent(p, b) => ToBeSent(p, b)'
<1>1. \A k \in Nodes \ {n} : job'[k] = job[k]
  BY DEF Typed, Working
<1> QED BY <1>1 DEF ToBeSent

LEMMA IdleFacts ==
  ASSUME NEW n \in Nodes, Idle(n)
  PROVE  job[n].step # "exits"
BY DEF Idle, Resting

LEMMA QuietStep ==
  ASSUME Typed, Owing, UNCHANGED <<owed, closed>>, lost \subseteq lost',
         \A c \in Conns, k \in Nodes : InTransit(c, k) \subseteq InTransit(c, k)',
         \A p, b : ToBeSent(p, b) => ToBeSent(p, b)'
  PROVE  Owing'
<1>1. ASSUME NEW p, NEW b, <<p, b>> \in owed, Coming(p, b)
      PROVE  Coming(p, b)'
  <2>1. p \in Boxes /\ node_of[p] \in Nodes
    BY <1>1, RemoteAssumption DEF Typed, Recorded
  <2> QED BY <1>1, <2>1 DEF Coming
<1>2. owed \subseteq Boxes \X Boxes
  BY DEF Typed, Recorded
<1> QED BY <1>1, <1>2, OwingKept

LEMMA PostedTransit ==
  ASSUME Typed, NEW n \in Nodes, NEW m \in To(Peer(n)), NEW more,
         Posted(n, m, more), UNCHANGED lexed
  PROVE  /\ \A c \in Conns, k \in Nodes :
              InTransit(c, k) \subseteq InTransit(c, k)'
         /\ \/ \E c \in Conns : m \in InTransit(c, Peer(n))'
            \/ Link(m) \in lost'
         /\ lost \subseteq lost'
BY PostedFacts DEF Typed, InTransit

(***************************************************************************)
(* A connection breaks: what was on it is lost.                            *)
(***************************************************************************)
LEMMA BreakOwing ==
  ASSUME Typed, Owing, NEW c \in Conns, connection_breaks(c)
  PROVE  Owing'
<1>1. /\ UNCHANGED <<owed, closed, job>>
      /\ wire' = [wire EXCEPT ![c] = [n \in Nodes |-> <<>>]]
      /\ lexed' = [lexed EXCEPT ![c] = [n \in Nodes |-> <<>>]]
      /\ lost' = lost \cup {e \in Links : \E n \in Nodes :
                               About(e, wire[c][n] \o lexed[c][n])}
  BY DEF connection_breaks
<1>2. \A d \in Conns \ {c}, n \in Nodes : InTransit(d, n)' = InTransit(d, n)
  <2>1. \A d \in Conns \ {c} : wire'[d] = wire[d] /\ lexed'[d] = lexed[d]
    BY <1>1 DEF Typed, Addressed
  <2> QED BY <2>1 DEF InTransit
<1>3. ASSUME NEW n \in Nodes, NEW m \in InTransit(c, n)
      PROVE  Link(m) \in lost'
  <2> DEFINE s == wire[c][n] \o lexed[c][n]
  <2>1. wire[c][n] \in Seq(To(n)) /\ lexed[c][n] \in Seq(To(n))
    BY DEF Typed, Addressed
  <2>2. s \in Seq(To(n)) /\ m \in Range(s)
    BY <2>1, ConcatRange DEF InTransit
  <2>3. PICK i \in DOMAIN s : s[i] = m
    BY <2>2 DEF Range
  <2>4. About(Link(m), s)
    BY <2>3 DEF About
  <2>5. m \in To(n)
    <3> HIDE DEF s
    <3>1. DOMAIN s = 1..Len(s)
      BY <2>2, LenProperties
    <3> QED BY <2>2, <2>3, <3>1, ElementOfSeq
  <2>6. m.to \in At(n) /\ m.from \in At(Peer(n))
    BY <2>5 DEF To
  <2>7. {m.to, m.from} \in Links
    BY <2>6, LinkFacts
  <2>8. Link(m) \in Links
    BY <2>7 DEF Link
  <2> QED BY <1>1, <2>4, <2>8
<1>4. ASSUME NEW p, NEW b, <<p, b>> \in owed, Coming(p, b)
      PROVE  Coming(p, b)' \/ {p, b} \in lost'
  <2>1. node_of[p] \in Nodes
    BY <1>4, RemoteAssumption DEF Typed, Recorded
  <2>2. CASE Msg("exit2", b, p) \in InTransit(c, node_of[p])
    <3>1. Link(Msg("exit2", b, p)) = {p, b}
      BY DEF Link, Msg
    <3> QED BY <1>3, <2>1, <2>2, <3>1
  <2>3. CASE ToBeSent(p, b)
    BY <1>1, <2>3 DEF ToBeSent, Coming
  <2>4. ASSUME NEW d \in Conns \ {c},
               Msg("exit2", b, p) \in InTransit(d, node_of[p])
        PROVE  Coming(p, b)'
    BY <1>2, <2>1, <2>4 DEF Coming
  <2> QED BY <1>4, <2>2, <2>3, <2>4 DEF Coming
<1>5. owed \subseteq Boxes \X Boxes /\ lost \subseteq lost'
  BY <1>1 DEF Typed, Recorded
<1> QED BY <1>1, <1>4, <1>5, OwingKept
(***************************************************************************)
(* The acknowledgement is read: what is read with it is lost.              *)
(***************************************************************************)
LEMMA MadeOwing ==
  ASSUME Typed, Owing, NEW n \in Nodes, NEW c \in Conns,
         NEW k \in 0..Len(wire[c][n]), handshake_success(n, c, k)
  PROVE  Owing'
<1>1. UNCHANGED <<owed, closed, job>>
  BY DEF handshake_success
<1>2. /\ \A d \in Conns, j \in Nodes :
           d # c \/ j # n => InTransit(d, j)' = InTransit(d, j)
      /\ \A m \in InTransit(c, n) : m \in InTransit(c, n)' \/ Link(m) \in lost'
      /\ lost \subseteq lost'
  BY MadeFacts
<1>3. ASSUME NEW p, NEW b, <<p, b>> \in owed, Coming(p, b)
      PROVE  Coming(p, b)' \/ {p, b} \in lost'
  <2>1. node_of[p] \in Nodes
    BY <1>3, RemoteAssumption DEF Typed, Recorded
  <2>2. CASE ToBeSent(p, b)
    BY <1>1, <2>2 DEF ToBeSent, Coming
  <2>3. ASSUME NEW d \in Conns, Msg("exit2", b, p) \in InTransit(d, node_of[p])
        PROVE  Coming(p, b)' \/ {p, b} \in lost'
    <3>1. Link(Msg("exit2", b, p)) = {p, b}
      BY DEF Link, Msg
    <3>2. \/ Msg("exit2", b, p) \in InTransit(d, node_of[p])'
          \/ Link(Msg("exit2", b, p)) \in lost'
      BY <1>2, <2>1, <2>3
    <3> QED BY <3>1, <3>2 DEF Coming
  <2> QED BY <1>3, <2>2, <2>3 DEF Coming
<1>4. owed \subseteq Boxes \X Boxes
  BY DEF Typed, Recorded
<1> QED BY <1>1, <1>2, <1>3, <1>4, OwingKept

(***************************************************************************)
(* The clients' calls, other than close.                                   *)
(***************************************************************************)
LEMMA RequestLinkOwing ==
  ASSUME Typed, Owing, NEW n \in Nodes, request_link(n)
  PROVE  Owing'
<1>1. PICK b \in At(n), p \in At(Peer(n)) :
        Posted(n, Msg("link", b, p), Crossing(n, {b, p}))
  BY RequestLinkFacts
<1>2. /\ job[n].step = "link" /\ UNCHANGED <<lexed, owed, closed>>
      /\ job' = [job EXCEPT ![n].step = "store"]
  BY DEF request_link
<1>3. Msg("link", b, p) \in To(Peer(n))
  BY MsgTyped DEF Ops
<1>4. /\ \A c \in Conns, k \in Nodes : InTransit(c, k) \subseteq InTransit(c, k)'
      /\ lost \subseteq lost'
  BY <1>1, <1>2, <1>3, PostedTransit
<1>5. \A x, y : ToBeSent(x, y) => ToBeSent(x, y)'
  <2>1. \A k \in Nodes \ {n} : job'[k] = job[k]
    BY <1>2 DEF Typed, Working
  <2> QED BY <1>2, <2>1 DEF ToBeSent
<1> QED BY <1>2, <1>4, <1>5, QuietStep

LEMMA StoreOwing ==
  ASSUME Typed, Owing, NEW n \in Nodes, NEW j,
         job' = [job EXCEPT ![n] = j],
         job[n].step # "exits" \/ job[n].todo = {},
         UNCHANGED <<wire, lexed, owed, closed>>, lost \subseteq lost'
  PROVE  Owing'
<1>1. \A c \in Conns, k \in Nodes : InTransit(c, k) \subseteq InTransit(c, k)'
  BY DEF InTransit
<1>2. \A x, y : ToBeSent(x, y) => ToBeSent(x, y)'
  BY JobsKept
<1> QED BY <1>1, <1>2, QuietStep

LEMMA RequestUnlinkOwing ==
  ASSUME Typed, Owing, NEW n \in Nodes, request_unlink(n)
  PROVE  Owing'
<1>1. PICK b \in job[n].box, p \in job[n].todo :
        Posted(n, Msg("unlink", b, p), {})
  BY DEF request_unlink
<1>2. /\ job[n].step = "request" /\ UNCHANGED <<lexed, owed, closed>>
      /\ job' = [job EXCEPT ![n] = Resting]
  BY DEF request_unlink
<1>3. b \in At(n) /\ p \in At(Peer(n)) /\ "unlink" \in Ops
  BY <1>1, <1>2, BusyFacts DEF Ops
<1>4. Msg("unlink", b, p) \in To(Peer(n))
  BY <1>3, MsgTyped
<1>5. /\ \A c \in Conns, k \in Nodes : InTransit(c, k) \subseteq InTransit(c, k)'
      /\ lost \subseteq lost'
  BY <1>1, <1>2, <1>4, PostedTransit
<1>6. \A x, y : ToBeSent(x, y) => ToBeSent(x, y)'
  BY <1>2, JobsKept
<1> QED BY <1>2, <1>5, <1>6, QuietStep

(***************************************************************************)
(* A close begins: every exit it owes is still to be sent.                 *)
(***************************************************************************)
LEMMA CloseOwing ==
  ASSUME Typed, Owing, NEW n \in Nodes, NEW b \in Boxes,
         close_links_for_local(n, b)
  PROVE  Owing'
<1>1. PICK told \in SUBSET At(Peer(n)) :
        /\ job' = [job EXCEPT ![n] = Doing("exits", b, told)]
        /\ owed' = owed \cup {<<p, b>> : p \in told}
  BY CloseFacts
<1>2. /\ Idle(n) /\ closed \subseteq closed' /\ UNCHANGED <<wire, lexed, lost>>
  BY DEF close_links_for_local, Calls, queues
<1>3. \A x, y : ToBeSent(x, y) => ToBeSent(x, y)'
  BY <1>1, <1>2, IdleFacts, JobsKept
<1>4. ASSUME NEW p \in told PROVE ToBeSent(p, b)'
  <2>1. job'[n] = Doing("exits", b, told)
    BY <1>1 DEF Typed, Working
  <2>2. job'[n].step = "exits" /\ b \in job'[n].box /\ p \in job'[n].todo
    BY <2>1 DEF Doing
  <2> QED BY <2>2 DEF ToBeSent
<1>5. \A x, y : Coming(x, y) => Coming(x, y)'
  BY <1>2, <1>3 DEF Coming, InTransit
<1>6. ASSUME NEW d \in owed'
      PROVE  \/ Coming(d[1], d[2])' \/ d[1] \in closed'
             \/ {d[1], d[2]} \in lost'
  <2>1. CASE d \in owed
    BY <1>2, <1>5, <2>1 DEF Owing
  <2>2. ASSUME NEW p \in told, d = <<p, b>> PROVE Coming(d[1], d[2])'
    BY <1>4, <2>2 DEF Coming
  <2> QED BY <1>1, <2>1, <2>2
<1> QED BY <1>6 DEF Owing

(***************************************************************************)
(* An exit is sent or lost.                                                *)
(***************************************************************************)
LEMMA ExitOwing ==
  ASSUME Typed, Owing, NEW n \in Nodes, request_exit2(n)
  PROVE  Owing'
<1>1. PICK b \in At(n), p \in At(Peer(n)) :
           /\ job[n].box = {b} /\ p \in job[n].todo
           /\ Posted(n, Msg("exit2", b, p), {})
           /\ job' = [job EXCEPT ![n].todo = @ \ {p}]
  BY ExitFacts
<1>2. UNCHANGED <<lexed, owed, closed>> /\ job[n].step = "exits"
  BY <1>1 DEF request_exit2
<1>3. /\ Msg("exit2", b, p) \in To(Peer(n)) /\ {b, p} \in Links
      /\ Link(Msg("exit2", b, p)) = {b, p}
  BY MsgTyped DEF Ops
<1>4. owed \subseteq Boxes \X Boxes /\ job \in [Nodes -> Job]
  BY DEF Typed, Recorded, Working
<1>5. /\ \A c \in Conns, k \in Nodes : InTransit(c, k) \subseteq InTransit(c, k)'
      /\ \/ \E c \in Conns : Msg("exit2", b, p) \in InTransit(c, Peer(n))'
         \/ {b, p} \in lost'
      /\ lost \subseteq lost'
  BY <1>1, <1>2, <1>3, PostedTransit
<1>6. ASSUME NEW x, NEW y, <<x, y>> \in owed, Coming(x, y)
      PROVE  Coming(x, y)' \/ {x, y} \in lost'
  <2>1. x \in Boxes /\ node_of[x] \in Nodes
    BY <1>4, <1>6, RemoteAssumption
  <2>2. ASSUME NEW c \in Conns, Msg("exit2", y, x) \in InTransit(c, node_of[x])
        PROVE  Coming(x, y)'
    BY <1>5, <2>1, <2>2 DEF Coming
  <2>3. ASSUME NEW k \in Nodes \ {n}, job[k].step = "exits", y \in job[k].box,
               x \in job[k].todo
        PROVE  Coming(x, y)'
    <3>1. job'[k] = job[k]
      BY <1>1, <1>4
    <3> QED BY <2>3, <3>1 DEF Coming, ToBeSent
  <2>4. ASSUME y = b, x \in job[n].todo
        PROVE  Coming(x, y)' \/ {x, y} \in lost'
    <3>1. CASE x # p
      <4>1. job[n] \in Job
        BY <1>4
      <4>2. /\ job'[n].step = "exits" /\ y \in job'[n].box
            /\ x \in job'[n].todo
        BY <1>1, <1>2, <1>4, <2>4, <3>1, <4>1 DEF Job
      <4> QED BY <4>2 DEF Coming, ToBeSent
    <3>2. CASE x = p
      <4>1. node_of[p] = Peer(n) /\ {x, y} = {b, p}
        BY <2>4, <3>2 DEF At
      <4> QED BY <1>5, <2>4, <3>2, <4>1 DEF Coming
    <3> QED BY <3>1, <3>2
  <2> QED BY <1>1, <1>6, <2>2, <2>3, <2>4 DEF Coming, ToBeSent
<1> QED BY <1>2, <1>4, <1>5, <1>6, OwingKept

(***************************************************************************)
(* A request that throws loses the rest of them.                           *)
(***************************************************************************)
LEMMA ThrowOwing ==
  ASSUME Typed, Owing, NEW n \in Nodes, throws(n)
  PROVE  Owing'
<1>1. /\ UNCHANGED <<wire, lexed, owed, closed>>
      /\ lost' = lost \cup JobLinks(n) /\ job' = [job EXCEPT ![n] = Resting]
  BY DEF throws, queues
<1>2. owed \subseteq Boxes \X Boxes /\ job \in [Nodes -> Job]
  BY DEF Typed, Recorded, Working
<1>3. ASSUME NEW x, NEW y, <<x, y>> \in owed, Coming(x, y)
      PROVE  Coming(x, y)' \/ {x, y} \in lost'
  <2>1. ASSUME NEW c \in Conns, Msg("exit2", y, x) \in InTransit(c, node_of[x])
        PROVE  Coming(x, y)'
    BY <1>1, <2>1 DEF Coming, InTransit
  <2>2. ASSUME NEW k \in Nodes \ {n}, job[k].step = "exits", y \in job[k].box,
               x \in job[k].todo
        PROVE  Coming(x, y)'
    <3>1. job'[k] = job[k]
      BY <1>1, <1>2
    <3> QED BY <2>2, <3>1 DEF Coming, ToBeSent
  <2>3. ASSUME job[n].step = "exits", y \in job[n].box, x \in job[n].todo
        PROVE  {x, y} \in lost'
    <3>1. y \in At(n) /\ x \in At(Peer(n)) /\ job[n].box = {y}
      BY <2>3, BusyFacts
    <3>2. {y, x} \in Links
      BY <3>1, LinkFacts
    <3>3. {y, x} \in JobLinks(n)
      BY <2>3, <3>1, <3>2 DEF JobLinks
    <3> QED BY <1>1, <3>3
  <2> QED BY <1>3, <2>1, <2>2, <2>3 DEF Coming, ToBeSent
<1> QED BY <1>1, <1>2, <1>3, OwingKept

(***************************************************************************)
(* A message is handled: an exit for a mailbox that is there is told, and  *)
(* a mailbox that is gone has been closed.                                 *)
(***************************************************************************)
LEMMA ReceivedOwing ==
  ASSUME Typed, Owing, NEW n \in Nodes, NEW c \in Conns,
         NEW k \in 1..Len(wire[c][n]), msg_received(n, c, k)
  PROVE  Owing'
<1>1. PICK m \in To(n) :
        /\ InTransit(c, n) = {m} \cup InTransit(c, n)'
        /\ \A d \in Conns, j \in Nodes :
             d # c \/ j # n => InTransit(d, j)' = InTransit(d, j)
        /\ incoming_link(n, m) \/ incoming_unlink(n, m) \/ incoming_exit2(n, m)
  BY ReceivedFacts
<1>2. UNCHANGED <<job, closed, lost, mailboxes>>
  BY DEF msg_received
<1>3. owed' \subseteq owed /\ owed \subseteq Boxes \X Boxes
  BY <1>1 DEF incoming_link, incoming_unlink, incoming_exit2, Typed, Recorded
<1>4. ASSUME NEW p, NEW b, <<p, b>> \in owed', Coming(p, b)
      PROVE  Coming(p, b)' \/ p \in closed'
  <2> DEFINE x == Msg("exit2", b, p)
  <2>1. p \in Boxes /\ node_of[p] \in Nodes
    BY <1>3, <1>4, RemoteAssumption
  <2>2. CASE ToBeSent(p, b)
    BY <1>2, <2>2 DEF ToBeSent, Coming
  <2>3. ASSUME NEW d \in Conns, x \in InTransit(d, node_of[p])'
        PROVE  Coming(p, b)'
    BY <2>3 DEF Coming
  <2>4. CASE x = m
    <3>1. m.op = "exit2" /\ m.to = p /\ m.from = b
      BY <2>4 DEF Msg
    <3>2. incoming_exit2(n, m)
      BY <1>1, <3>1 DEF incoming_link, incoming_unlink
    <3>3. p \notin mailboxes
      BY <1>4, <3>1, <3>2 DEF incoming_exit2
    <3> QED BY <1>2, <2>1, <3>3 DEF Typed, Working
  <2>5. CASE x # m
    <3>1. ASSUME NEW d \in Conns, x \in InTransit(d, node_of[p])
          PROVE  x \in InTransit(d, node_of[p])'
      BY <1>1, <2>1, <2>5, <3>1
    <3> QED BY <1>4, <2>2, <2>3, <3>1 DEF Coming
  <2> QED BY <2>4, <2>5
<1> QED BY <1>2, <1>3, <1>4, OwingKept

LEMMA OwingStep == Typed /\ Owing /\ [Next]_vars => Owing'
<1> SUFFICES ASSUME Typed, Owing, [Next]_vars PROVE Owing'
  OBVIOUS
<1>1. ASSUME UNCHANGED <<wire, lexed, job, owed, closed, lost>> PROVE Owing'
  BY <1>1 DEF Owing, Coming, InTransit, ToBeSent
<1>2. ASSUME NEW n \in Nodes, get_connection_to(n) \/ unlink_exited(n)
      PROVE  Owing'
  BY <1>1, <1>2 DEF get_connection_to, unlink_exited, history, queues
<1>3. ASSUME NEW n \in Nodes, NEW c \in Conns,
             drop_connection_to(n, c) \/ handshake_success_as_B(n, c)
      PROVE  Owing'
  BY <1>1, <1>3 DEF drop_connection_to, handshake_success_as_B, history, queues
<1>4. ASSUME NEW n \in Nodes, store_link(n) PROVE Owing'
  <2>1. /\ job[n].step # "exits" /\ job' = [job EXCEPT ![n] = Resting]
        /\ UNCHANGED <<wire, lexed, owed, closed, lost>>
    BY <1>4 DEF store_link, history, queues
  <2> QED BY <2>1, StoreOwing
<1>5. ASSUME NEW n \in Nodes, remove(n) PROVE Owing'
  <2>1. /\ job[n].todo = {} /\ job' = [job EXCEPT ![n] = Resting]
        /\ UNCHANGED <<wire, lexed, owed, closed, lost>>
    BY <1>5 DEF remove, history, queues
  <2> QED BY <2>1, StoreOwing
<1>6. ASSUME NEW n \in Nodes, NEW b \in Boxes, NEW p \in Boxes,
             unlink(n, b, p) \/ link(n, b, p)
      PROVE  Owing'
  <2>1. /\ Idle(n)
        /\ \/ job' = [job EXCEPT ![n] = Doing("request", b, {p})]
           \/ job' = [job EXCEPT ![n] = Doing("link", b, {p})]
        /\ UNCHANGED <<wire, lexed, owed, closed, lost>>
    BY <1>6 DEF unlink, link, Calls, queues, history
  <2> QED BY <2>1, IdleFacts, StoreOwing
<1>7. ASSUME NEW c \in Conns, connection_breaks(c) PROVE Owing'
  BY <1>7, BreakOwing
<1>8. ASSUME NEW n \in Nodes, NEW c \in Conns,
             NEW k \in 0..Len(wire[c][n]), handshake_success(n, c, k)
      PROVE  Owing'
  BY <1>8, MadeOwing
<1>9. ASSUME NEW n \in Nodes, request_link(n) \/ request_unlink(n)
             \/ request_exit2(n) \/ throws(n)
      PROVE  Owing'
  BY <1>9, RequestLinkOwing, RequestUnlinkOwing, ExitOwing, ThrowOwing
<1>10. ASSUME NEW n \in Nodes, NEW b \in Boxes, close_links_for_local(n, b)
       PROVE  Owing'
  BY <1>10, CloseOwing
<1>11. ASSUME NEW n \in Nodes, NEW c \in Conns,
              NEW k \in 1..Len(wire[c][n]), msg_received(n, c, k)
       PROVE  Owing'
  BY <1>11, ReceivedOwing
<1>12. CASE UNCHANGED vars
  BY <1>1, <1>12 DEF vars, history, queues
<1> QED BY <1>2, <1>3, <1>4, <1>5, <1>6, <1>7, <1>8, <1>9, <1>10, <1>11,
           <1>12 DEF Next

LEMMA ComingIsUnderWay ==
  ASSUME Typed, NEW p \in Boxes, NEW b, Coming(p, b)
  PROVE  ExitUnderWay(p, b)
<1> DEFINE n == node_of[p]
<1>1. n \in Nodes
  BY RemoteAssumption
<1>2. ASSUME NEW c \in Conns, Msg("exit2", b, p) \in InTransit(c, n)
      PROVE  ExitUnderWay(p, b)
  <2> DEFINE s == wire[c][n] \o lexed[c][n]
  <2>1. wire[c][n] \in Seq(To(n)) /\ lexed[c][n] \in Seq(To(n))
    BY <1>1 DEF Typed, Addressed
  <2>2. Msg("exit2", b, p) \in Range(s)
    BY <1>2, <2>1, ConcatRange DEF InTransit
  <2>3. PICK i \in DOMAIN s : s[i] = Msg("exit2", b, p)
    BY <2>2 DEF Range
  <2> QED BY <2>3 DEF ExitUnderWay
<1>3. ASSUME NEW k \in Nodes, job[k].step = "exits", b \in job[k].box,
             p \in job[k].todo
      PROVE  ExitUnderWay(p, b)
  <2>1. n = Peer(k)
    BY <1>3, BusyFacts DEF At
  <2>2. Peer(n) = k
    BY <2>1, PeerFacts
  <2> QED BY <1>3, <2>2 DEF ExitUnderWay
<1> QED BY <1>2, <1>3 DEF Coming, ToBeSent

(***************************************************************************)
(* The end of a mailbox is not kept from the processes it was linked to,   *)
(* for any number of mailboxes, connections and calls: each is told or an  *)
(* exit is under way to it, unless it has closed itself or a message about *)
(* the link was lost: with its connection, with the acknowledgement it was *)
(* read with, in a queue that stalled, or by a request that threw.         *)
(***************************************************************************)
THEOREM ExitNeverLost == Spec => []ExitNotLost
<1>1. Init => Owing
  BY DEF Init, Owing
<1>2. Typed /\ Owing => ExitNotLost
  <2> SUFFICES ASSUME Typed, Owing, NEW d \in owed
               PROVE  \/ ExitUnderWay(d[1], d[2]) \/ d[1] \in closed
                      \/ {d[1], d[2]} \in lost
    BY DEF ExitNotLost
  <2>1. d[1] \in Boxes
    BY DEF Typed, Recorded
  <2> QED BY <2>1, ComingIsUnderWay DEF Owing
<1> QED BY <1>1, <1>2, OwingStep, TypedAlways, PTL DEF Spec-----------------------------------------------------------------------------
(***************************************************************************)
(* Streams of messages: t is s with x added at the end, or s without its   *)
(* first message x.                                                        *)
(***************************************************************************)
Grown(t, s, x) ==
  /\ Len(t) = Len(s) + 1 /\ t[Len(s) + 1] = x
  /\ \A i \in 1..Len(s) : t[i] = s[i]

Shrunk(t, s, x) ==
  /\ Len(s) = Len(t) + 1 /\ s[1] = x
  /\ \A i \in 1..Len(t) : t[i] = s[i + 1]

(***************************************************************************)
(* The last message of s about the link e is one of the operations ops.    *)
(***************************************************************************)
Ends(s, e, ops) ==
  \E i \in DOMAIN s : /\ Link(s[i]) = e /\ s[i].op \in ops
                      /\ \A j \in DOMAIN s : j > i => Link(s[j]) # e

LEMMA GrownFacts ==
  ASSUME NEW S, NEW s \in Seq(S), NEW t \in Seq(S), NEW x, Grown(t, s, x)
  PROVE  /\ Range(t) = Range(s) \cup {x}
         /\ \A e : About(e, t) <=> About(e, s) \/ Link(x) = e
         /\ \A e, ops : Link(x) = e /\ x.op \in ops => Ends(t, e, ops)
         /\ \A e, ops : Link(x) # e /\ Ends(s, e, ops) => Ends(t, e, ops)
<1>1. /\ Len(s) \in Nat /\ DOMAIN s = 1..Len(s) /\ DOMAIN t = 1..(Len(s) + 1)
      /\ t[Len(s) + 1] = x /\ \A i \in DOMAIN s : t[i] = s[i]
  BY LenProperties DEF Grown
<1> DEFINE n == Len(s)
<1>2. /\ n \in Nat /\ DOMAIN s = 1..n /\ DOMAIN t = 1..(n + 1)
      /\ t[n + 1] = x /\ \A i \in 1..n : t[i] = s[i]
  BY <1>1
<1> HIDE DEF n
<1>3. DOMAIN t = DOMAIN s \cup {n + 1} /\ n + 1 \notin DOMAIN s
  BY <1>2
<1>4. Range(t) = Range(s) \cup {x}
  BY ONLY <1>2, <1>3 DEF Range
<1>5. ASSUME NEW e PROVE About(e, t) <=> About(e, s) \/ Link(x) = e
  BY ONLY <1>2, <1>3 DEF About
<1>6. ASSUME NEW e, NEW ops, Link(x) = e, x.op \in ops PROVE Ends(t, e, ops)
  <2>1. \A j \in DOMAIN t : ~(j > n + 1)
    BY <1>2
  <2> QED BY ONLY <1>2, <1>3, <1>6, <2>1 DEF Ends
<1>7. ASSUME NEW e, NEW ops, Link(x) # e, Ends(s, e, ops)
      PROVE  Ends(t, e, ops)
  <2>1. PICK i \in DOMAIN s :
          /\ Link(s[i]) = e /\ s[i].op \in ops
          /\ \A j \in DOMAIN s : j > i => Link(s[j]) # e
    BY <1>7 DEF Ends
  <2>2. i \in DOMAIN t /\ t[i] = s[i]
    BY <1>2, <1>3, <2>1
  <2>3. ASSUME NEW j \in DOMAIN t, j > i PROVE Link(t[j]) # e
    <3>1. CASE j = n + 1
      BY ONLY <1>2, <1>7, <3>1
    <3>2. CASE j \in DOMAIN s
      <4>1. t[j] = s[j]
        BY ONLY <1>2, <3>2
      <4> QED BY ONLY <2>1, <2>3, <3>2, <4>1
    <3> QED BY <1>3, <3>1, <3>2
  <2> QED BY ONLY <2>1, <2>2, <2>3 DEF Ends
<1> QED BY <1>4, <1>5, <1>6, <1>7

LEMMA ShrunkFacts ==
  ASSUME NEW S, NEW s \in Seq(S), NEW t \in Seq(S), NEW x, Shrunk(t, s, x)
  PROVE  /\ Range(s) = Range(t) \cup {x} /\ x \in S
         /\ \A e : About(e, s) <=> About(e, t) \/ Link(x) = e
         /\ \A e, ops : Ends(s, e, ops) =>
              Ends(t, e, ops) \/ (~About(e, t) /\ Link(x) = e /\ x.op \in ops)
<1> DEFINE n == Len(t)
<1>1. /\ n \in Nat /\ DOMAIN t = 1..n /\ DOMAIN s = 1..(n + 1)
      /\ s[1] = x /\ \A i \in 1..n : t[i] = s[i + 1]
  BY LenProperties DEF Shrunk
<1>2. x \in S
  <2>1. 1 \in 1..Len(s)
    BY <1>1, LenProperties
  <2> QED BY <1>1, <2>1, ElementOfSeq
<1> HIDE DEF n
<1>3. /\ 1 \in DOMAIN s
      /\ \A i \in DOMAIN t : i + 1 \in DOMAIN s
      /\ \A i \in DOMAIN s : i = 1 \/ (i - 1 \in DOMAIN t /\ t[i - 1] = s[i])
  BY <1>1
<1>4. Range(s) = Range(t) \cup {x}
  <2>1. ASSUME NEW y \in Range(s) PROVE y \in Range(t) \cup {x}
    <3>1. PICK i \in DOMAIN s : y = s[i]
      BY <2>1 DEF Range
    <3> QED BY ONLY <1>1, <1>3, <3>1 DEF Range
  <2>2. ASSUME NEW y \in Range(t) PROVE y \in Range(s)
    <3>1. PICK i \in DOMAIN t : y = t[i]
      BY <2>2 DEF Range
    <3>2. i + 1 \in DOMAIN s /\ s[i + 1] = y
      BY <1>1, <1>3, <3>1
    <3> QED BY <3>2 DEF Range
  <2>3. x \in Range(s)
    BY <1>1, <1>3 DEF Range
  <2> QED BY <2>1, <2>2, <2>3
<1>5. ASSUME NEW e PROVE About(e, s) <=> About(e, t) \/ Link(x) = e
  BY ONLY <1>1, <1>3 DEF About
<1>6. ASSUME NEW e, NEW ops, Ends(s, e, ops)
      PROVE  Ends(t, e, ops) \/ (~About(e, t) /\ Link(x) = e /\ x.op \in ops)
  <2>1. PICK i \in DOMAIN s :
          /\ Link(s[i]) = e /\ s[i].op \in ops
          /\ \A j \in DOMAIN s : j > i => Link(s[j]) # e
    BY <1>6 DEF Ends
  <2>2. ASSUME NEW j \in DOMAIN t, j + 1 > i PROVE Link(t[j]) # e
    BY ONLY <1>1, <1>3, <2>1, <2>2
  <2>3. CASE i = 1
    <3>1. \A j \in DOMAIN t : j + 1 > i
      BY <1>1, <2>3
    <3>2. ~About(e, t)
      BY ONLY <2>2, <3>1 DEF About
    <3> QED BY <1>1, <2>1, <2>3, <3>2
  <2>4. CASE i # 1
    <3>1. i - 1 \in DOMAIN t /\ t[i - 1] = s[i]
      BY <1>3, <2>4
    <3>2. \A j \in DOMAIN t : j > i - 1 => j + 1 > i
      BY <1>1, <2>1
    <3> QED BY ONLY <2>1, <2>2, <3>1, <3>2 DEF Ends
  <2> QED BY <2>3, <2>4
<1> QED BY <1>2, <1>4, <1>5, <1>6

LEMMA EndsFacts ==
  ASSUME NEW s, NEW e, NEW ops, Ends(s, e, ops)
  PROVE  About(e, s) /\ \A more : ops \subseteq more => Ends(s, e, more)
BY DEF Ends, About

(***************************************************************************)
(* A message put on the wire comes last, and a read takes the first one.   *)
(***************************************************************************)
LEMMA StreamGrown ==
  ASSUME NEW S, NEW l \in Seq(S), NEW w \in Seq(S), NEW x \in S
  PROVE  Grown(l \o Append(w, x), l \o w, x)
<1> DEFINE v == Append(w, x)
           s == l \o w
           t == l \o v
           p == Len(l)
           q == Len(w)
<1>1. v \in Seq(S) /\ Len(v) = q + 1 /\ v[q + 1] = x
      /\ \A i \in 1..q : v[i] = w[i]
  BY AppendProperties
<1>2. p \in Nat /\ q \in Nat
  BY LenProperties
<1>3. Len(s) = p + q
      /\ \A i \in 1..(p + q) : s[i] = IF i <= p THEN l[i] ELSE w[i - p]
  BY ConcatProperties
<1> HIDE DEF v
<1>4. Len(t) = p + Len(v)
      /\ \A i \in 1..(p + Len(v)) : t[i] = IF i <= p THEN l[i] ELSE v[i - p]
  BY <1>1, ConcatProperties
<1> HIDE DEF s, t, p, q
<1>5. Len(t) = (p + q) + 1
  BY <1>1, <1>2, <1>4
<1>6. t[(p + q) + 1] = x
  <2>1. (p + q) + 1 \in 1..(p + Len(v)) /\ ~((p + q) + 1 <= p)
        /\ ((p + q) + 1) - p = q + 1
    BY <1>1, <1>2
  <2> QED BY <1>1, <1>4, <2>1
<1>7. ASSUME NEW i \in 1..(p + q) PROVE t[i] = s[i]
  <2>1. i \in 1..(p + Len(v)) /\ (~(i <= p) => i - p \in 1..q)
    BY <1>1, <1>2
  <2> QED BY <1>1, <1>3, <1>4, <2>1
<1>8. Grown(t, s, x)
  BY <1>3, <1>5, <1>6, <1>7 DEF Grown
<1> QED BY <1>8 DEF s, t, v

LEMMA StreamShrunk ==
  ASSUME NEW S, NEW l \in Seq(S), NEW w \in Seq(S), NEW k \in 1..Len(w),
         NEW read, read = l \o SubSeq(w, 1, k)
  PROVE  Shrunk(Tail(read) \o SubSeq(w, k + 1, Len(w)), l \o w, Head(read))
<1> DEFINE a == SubSeq(w, 1, k)
           z == SubSeq(w, k + 1, Len(w))
           p == Len(l)
           q == Len(w)
           s == l \o w
           y == Tail(read)
           t == y \o z
<1>1. p \in Nat /\ q \in Nat /\ k \in Nat /\ 1 <= k /\ k <= q
      /\ \A i \in 1..q : w[i] \in S
  BY LenProperties, ElementOfSeq
<1>2. a \in Seq(S) /\ Len(a) = k /\ \A i \in 1..k : a[i] = w[i]
  <2>1. 1 \in Int /\ k \in Int /\ \A i \in 1..k : w[i] \in S
    BY <1>1
  <2>2. /\ a \in Seq(S) /\ Len(a) = (IF 1 <= k THEN k - 1 + 1 ELSE 0)
        /\ \A i \in 1..(k - 1 + 1) : a[i] = w[1 + i - 1]
    BY <2>1, SubSeqProperties
  <2> HIDE DEF a
  <2> QED BY <1>1, <2>2
<1>3. z \in Seq(S) /\ Len(z) = q - k /\ \A i \in 1..(q - k) : z[i] = w[k + i]
  <2>1. k + 1 \in Int /\ q \in Int /\ \A i \in (k + 1)..q : w[i] \in S
    BY <1>1
  <2>2. /\ z \in Seq(S) /\ Len(z) = (IF k + 1 <= q THEN q - (k + 1) + 1 ELSE 0)
        /\ \A i \in 1..(q - (k + 1) + 1) : z[i] = w[(k + 1) + i - 1]
    BY <2>1, SubSeqProperties
  <2> HIDE DEF z, q
  <2>3. q - (k + 1) + 1 = q - k /\ Len(z) = q - k
    BY <1>1, <2>2
  <2>4. ASSUME NEW i \in 1..(q - k) PROVE z[i] = w[k + i]
    <3>1. (k + 1) + i - 1 = k + i /\ i \in 1..(q - (k + 1) + 1)
      BY <1>1
    <3> QED BY <2>2, <3>1
  <2> QED BY <2>2, <2>3, <2>4
<1>4. Len(s) = p + q
      /\ \A i \in 1..(p + q) : s[i] = IF i <= p THEN l[i] ELSE w[i - p]
  BY ConcatProperties
<1> HIDE DEF a, z
<1>5. /\ read \in Seq(S) /\ Len(read) = p + k
      /\ \A i \in 1..(p + k) : read[i] = IF i <= p THEN l[i] ELSE a[i - p]
  <2>1. read = l \o a
    BY DEF a
  <2>2. /\ l \o a \in Seq(S) /\ Len(l \o a) = p + Len(a)
        /\ \A i \in 1..(p + Len(a)) :
             (l \o a)[i] = IF i <= p THEN l[i] ELSE a[i - p]
    BY <1>2, ConcatProperties
  <2> QED BY <1>2, <2>1, <2>2
<1>6. /\ Head(read) = read[1] /\ y \in Seq(S) /\ Len(y) = (p + k) - 1
      /\ \A i \in 1..((p + k) - 1) : y[i] = read[i + 1]
  <2>1. read # <<>>
    BY <1>1, <1>5, EmptySeq
  <2>2. y \in Seq(S) /\ Len(y) = Len(read) - 1
        /\ \A i \in 1..Len(y) : y[i] = read[i + 1]
    BY <1>5, <2>1, HeadTailProperties
  <2>3. Head(read) = read[1]
    BY <1>5, <2>1
  <2> HIDE DEF y
  <2> QED BY <1>5, <2>2, <2>3
<1> HIDE DEF y
<1>7. /\ Len(t) = Len(y) + Len(z)
      /\ \A i \in 1..(Len(y) + Len(z)) :
           t[i] = IF i <= Len(y) THEN y[i] ELSE z[i - Len(y)]
  BY <1>3, <1>6, ConcatProperties
<1> HIDE DEF p, q, s, t
<1>8. Len(t) = (p + q) - 1
  BY <1>1, <1>3, <1>6, <1>7
<1>9. s[1] = Head(read)
  <2>1. 1 \in 1..(p + q) /\ 1 \in 1..(p + k) /\ (~(1 <= p) => 1 - p \in 1..k)
    BY <1>1
  <2> QED BY <1>2, <1>4, <1>5, <1>6, <2>1
<1>10. ASSUME NEW i \in 1..((p + q) - 1) PROVE t[i] = s[i + 1]
  <2>1. i + 1 \in 1..(p + q) /\ i \in 1..(Len(y) + Len(z)) /\ i \in Nat
    <3>0. p \in Nat /\ q \in Nat /\ k \in Nat /\ Len(z) = q - k /\ Len(y) = (p + k) - 1
      BY <1>1, <1>3, <1>6
    <3>1. i \in Nat /\ i >= 1 /\ i + 1 <= p + q
      BY <3>0
    <3>2. Len(y) + Len(z) = (p + q) - 1
      BY <3>0
    <3> QED BY <3>0, <3>1, <3>2
  <2>2. CASE i <= (p + k) - 1
    <3>0. i \in 1..((p + k) - 1) /\ i <= Len(y)
      BY <1>1, <1>6, <2>1, <2>2
    <3>1. t[i] = read[i + 1]
      BY ONLY <1>6, <1>7, <2>1, <3>0
    <3>2. i + 1 \in 1..(p + k) /\ (~(i + 1 <= p) => (i + 1) - p \in 1..k)
      BY <1>1, <2>1, <2>2
    <3> QED BY <1>2, <1>4, <1>5, <2>1, <3>1, <3>2
  <2>3. CASE ~(i <= (p + k) - 1)
    <3>1. i - ((p + k) - 1) \in 1..(q - k) /\ ~(i + 1 <= p)
          /\ k + (i - ((p + k) - 1)) = (i + 1) - p
      BY <1>1, <2>1, <2>3
    <3>2. t[i] = z[i - ((p + k) - 1)]
      BY <1>6, <1>7, <2>1, <2>3
    <3>3. z[i - ((p + k) - 1)] = w[(i + 1) - p]
      BY ONLY <1>3, <3>1
    <3> QED BY <1>4, <2>1, <3>1, <3>2, <3>3
  <2> QED BY <2>2, <2>3
<1>11. Shrunk(t, s, Head(read))
  <2>1. Len(s) = Len(t) + 1
    BY <1>1, <1>4, <1>8
  <2> QED BY <1>8, <1>9, <1>10, <2>1 DEF Shrunk
<1> QED BY <1>11 DEF s, t, y, z
(***************************************************************************)
(* t is s without some of its messages, the others in order: h says where  *)
(* in s each message of t is.                                              *)
(***************************************************************************)
Thinned(t, s, h) ==
  /\ h \in [DOMAIN t -> DOMAIN s]
  /\ \A i \in DOMAIN t : t[i] = s[h[i]]
  /\ \A i, j \in DOMAIN t : i < j => h[i] < h[j]

(***************************************************************************)
(* What is left of a stream when its first messages were read already and  *)
(* the next k are dropped.                                                 *)
(***************************************************************************)
LEMMA StreamThinned ==
  ASSUME NEW S, NEW l \in Seq(S), NEW w \in Seq(S), NEW k \in 0..Len(w)
  PROVE  \E h : /\ Thinned(l \o SubSeq(w, k + 1, Len(w)), l \o w, h)
                /\ \A i \in DOMAIN (l \o w) :
                     \/ \E j \in DOMAIN (l \o SubSeq(w, k + 1, Len(w))) : i = h[j]
                     \/ (l \o w)[i] \in Range(SubSeq(w, 1, k))
<1> DEFINE z == SubSeq(w, k + 1, Len(w))
           a == SubSeq(w, 1, k)
           p == Len(l)
           q == Len(w)
           s == l \o w
           t == l \o z
<1>1. /\ p \in Nat /\ q \in Nat /\ k \in Nat /\ k <= q
      /\ \A i \in 1..q : w[i] \in S
  BY LenProperties, ElementOfSeq
<1>2. a \in Seq(S) /\ Len(a) = k /\ \A i \in 1..k : a[i] = w[i]
  <2>1. 1 \in Int /\ k \in Int /\ \A i \in 1..k : w[i] \in S
    BY <1>1
  <2>2. /\ a \in Seq(S) /\ Len(a) = (IF 1 <= k THEN k - 1 + 1 ELSE 0)
        /\ \A i \in 1..(k - 1 + 1) : a[i] = w[1 + i - 1]
    BY <2>1, SubSeqProperties
  <2> HIDE DEF a
  <2> QED BY <1>1, <2>2
<1>3. z \in Seq(S) /\ Len(z) = q - k /\ \A i \in 1..(q - k) : z[i] = w[k + i]
  <2>1. k + 1 \in Int /\ q \in Int /\ \A i \in (k + 1)..q : w[i] \in S
    BY <1>1
  <2>2. /\ z \in Seq(S) /\ Len(z) = (IF k + 1 <= q THEN q - (k + 1) + 1 ELSE 0)
        /\ \A i \in 1..(q - (k + 1) + 1) : z[i] = w[(k + 1) + i - 1]
    BY <2>1, SubSeqProperties
  <2> HIDE DEF z, q
  <2>3. q - (k + 1) + 1 = q - k /\ Len(z) = q - k
    BY <1>1, <2>2
  <2>4. ASSUME NEW i \in 1..(q - k) PROVE z[i] = w[k + i]
    <3>1. (k + 1) + i - 1 = k + i /\ i \in 1..(q - (k + 1) + 1)
      BY <1>1
    <3> QED BY <2>2, <3>1
  <2> QED BY <2>2, <2>3, <2>4
<1> HIDE DEF a, z
<1>4. /\ DOMAIN s = 1..(p + q)
      /\ \A i \in 1..(p + q) : s[i] = IF i <= p THEN l[i] ELSE w[i - p]
  <2>1. s \in Seq(S) /\ Len(s) = p + q
        /\ \A i \in 1..(p + q) : s[i] = IF i <= p THEN l[i] ELSE w[i - p]
    BY ConcatProperties
  <2> HIDE DEF s
  <2> QED BY <2>1, LenProperties
<1>5. /\ DOMAIN t = 1..(p + (q - k))
      /\ \A i \in 1..(p + (q - k)) : t[i] = IF i <= p THEN l[i] ELSE z[i - p]
  <2>1. t \in Seq(S) /\ Len(t) = p + Len(z)
        /\ \A i \in 1..(p + Len(z)) : t[i] = IF i <= p THEN l[i] ELSE z[i - p]
    BY <1>3, ConcatProperties
  <2> HIDE DEF t
  <2> QED BY <1>3, <2>1, LenProperties
<1>6. DOMAIN a = 1..k
  BY <1>2, LenProperties
<1> HIDE DEF s, t, p, q
<1> DEFINE h == [i \in 1..(p + (q - k)) |-> IF i <= p THEN i ELSE i + k]
<1>7. \A i \in 1..(p + (q - k)) : h[i] \in 1..(p + q)
  BY <1>1
<1>8. ASSUME NEW i \in 1..(p + (q - k)) PROVE t[i] = s[h[i]]
  <2>1. CASE i <= p
    BY <1>1, <1>4, <1>5, <2>1
  <2>2. CASE ~(i <= p)
    <3>1. /\ i - p \in 1..(q - k) /\ h[i] = i + k /\ ~(i + k <= p)
          /\ (i + k) - p = k + (i - p) /\ i + k \in 1..(p + q)
      BY <1>1, <2>2
    <3>2. t[i] = w[k + (i - p)]
      BY <1>3, <1>5, <2>2, <3>1
    <3>3. s[i + k] = w[(i + k) - p]
      BY <1>4, <3>1
    <3> QED BY <3>1, <3>2, <3>3
  <2> QED BY <2>1, <2>2
<1>9. \A i, j \in 1..(p + (q - k)) : i < j => h[i] < h[j]
  BY <1>1
<1>10. Thinned(t, s, h)
  <2>1. h \in [DOMAIN t -> DOMAIN s]
    BY <1>4, <1>5, <1>7
  <2> HIDE DEF h
  <2> QED BY <1>5, <1>8, <1>9, <2>1 DEF Thinned
<1>11. ASSUME NEW i \in DOMAIN s
       PROVE  (\E j \in DOMAIN t : i = h[j]) \/ s[i] \in Range(a)
  <2>1. CASE i <= p
    <3>1. i \in DOMAIN t /\ h[i] = i
      BY <1>1, <1>4, <1>5, <2>1
    <3> QED BY <3>1
  <2>2. CASE ~(i <= p) /\ i - p <= k
    <3>1. i - p \in DOMAIN a /\ a[i - p] = w[i - p] /\ s[i] = w[i - p]
      BY <1>1, <1>2, <1>4, <1>6, <2>2
    <3> QED BY <3>1 DEF Range
  <2>3. CASE ~(i <= p) /\ ~(i - p <= k)
    <3>1. i - k \in 1..(p + (q - k)) /\ ~(i - k <= p) /\ (i - k) + k = i
      BY <1>1, <1>4, <2>3
    <3>2. i - k \in DOMAIN t /\ h[i - k] = i
      BY <1>5, <3>1
    <3> QED BY <3>2
  <2> QED BY <2>1, <2>2, <2>3
<1> HIDE DEF h
<1>12. \E g : /\ Thinned(t, s, g)
              /\ \A i \in DOMAIN s : (\E j \in DOMAIN t : i = g[j]) \/ s[i] \in Range(a)
  BY <1>10, <1>11
<1> QED BY <1>12 DEF s, t, z, a

(***************************************************************************)
(* A link none of whose messages was dropped.                              *)
(***************************************************************************)
LEMMA ThinnedFacts ==
  ASSUME NEW S, NEW s \in Seq(S), NEW t \in Seq(S), NEW h, Thinned(t, s, h),
         NEW e, \A i \in DOMAIN s : (\E j \in DOMAIN t : i = h[j]) \/ Link(s[i]) # e
  PROVE  /\ About(e, t) <=> About(e, s)
         /\ \A ops : Ends(s, e, ops) => Ends(t, e, ops)
         /\ \A x \in Range(s) : Link(x) = e => x \in Range(t)
<1>1. /\ \A i \in DOMAIN t : h[i] \in DOMAIN s /\ t[i] = s[h[i]]
      /\ \A i, j \in DOMAIN t : i < j => h[i] < h[j]
  BY DEF Thinned
<1>2. DOMAIN s \subseteq Nat /\ DOMAIN t \subseteq Nat
  BY LenProperties
<1>3. About(e, t) <=> About(e, s)
  BY <1>1 DEF About
<1>4. ASSUME NEW ops, Ends(s, e, ops) PROVE Ends(t, e, ops)
  <2>1. PICK i \in DOMAIN s :
          /\ Link(s[i]) = e /\ s[i].op \in ops
          /\ \A j \in DOMAIN s : j > i => Link(s[j]) # e
    BY <1>4 DEF Ends
  <2>2. PICK y \in DOMAIN t : i = h[y]
    BY <2>1
  <2>3. ASSUME NEW j \in DOMAIN t, j > y PROVE Link(t[j]) # e
    <3>1. h[j] \in DOMAIN s /\ h[y] < h[j] /\ t[j] = s[h[j]]
      BY <1>1, <1>2, <2>3
    <3>2. h[j] > i
      BY <1>2, <2>2, <3>1
    <3> QED BY <2>1, <3>1, <3>2
  <2> QED BY <1>1, <2>1, <2>2, <2>3 DEF Ends
<1>5. ASSUME NEW x \in Range(s), Link(x) = e PROVE x \in Range(t)
  BY <1>1, <1>5 DEF Range
<1> QED BY <1>3, <1>4, <1>5
-----------------------------------------------------------------------------
(***************************************************************************)
(* What is under way to a node on a connection, in the order in which it   *)
(* will be handled.                                                        *)
(***************************************************************************)
Stream(c, n) == lexed[c][n] \o wire[c][n]

LEMMA StreamFacts ==
  ASSUME Typed, NEW c \in Conns, NEW n \in Nodes
  PROVE  /\ Stream(c, n) \in Seq(To(n)) /\ Range(Stream(c, n)) = InTransit(c, n)
         /\ \A e : About(e, wire[c][n] \o lexed[c][n]) <=> About(e, Stream(c, n))
<1> DEFINE w == wire[c][n]
           l == lexed[c][n]
<1>1. w \in Seq(To(n)) /\ l \in Seq(To(n))
  BY DEF Typed, Addressed
<1> HIDE DEF w, l
<1>2. /\ l \o w \in Seq(To(n)) /\ Range(l \o w) = Range(l) \cup Range(w)
      /\ w \o l \in Seq(To(n)) /\ Range(w \o l) = Range(w) \cup Range(l)
  BY <1>1, ConcatRange
<1>3. \A e, s : About(e, s) <=> \E m \in Range(s) : Link(m) = e
  BY DEF About, Range
<1>4. \A e : About(e, w \o l) <=> About(e, l \o w)
  BY <1>2, <1>3
<1> QED BY <1>2, <1>4 DEF Stream, InTransit, w, l

LEMMA StreamFactsNext ==
  ASSUME Addressed', NEW c \in Conns, NEW n \in Nodes
  PROVE  Stream(c, n)' \in Seq(To(n))
<1> DEFINE w == wire'[c][n]
           l == lexed'[c][n]
<1>1. w \in Seq(To(n)) /\ l \in Seq(To(n))
  BY DEF Addressed
<1> HIDE DEF w, l
<1>2. l \o w \in Seq(To(n))
  BY <1>1, ConcatProperties
<1> QED BY <1>2 DEF Stream, w, l

LEMMA StreamKept ==
  ASSUME UNCHANGED <<wire, lexed>>, NEW c, NEW n
  PROVE  Stream(c, n)' = Stream(c, n)
BY DEF Stream

(***************************************************************************)
(* A request is the last message on its connection, or is lost.            *)
(***************************************************************************)
LEMMA PostedStream ==
  ASSUME Typed, NEW n \in Nodes, NEW m \in To(Peer(n)), NEW more,
         Posted(n, m, more), UNCHANGED lexed
  PROVE  \/ /\ \A c \in Conns, j \in Nodes : Stream(c, j)' = Stream(c, j)
            /\ Link(m) \in lost'
         \/ \E a \in Conns :
              /\ a = Conn(n)
              /\ Grown(Stream(a, Peer(n))', Stream(a, Peer(n)), m)
              /\ \A c \in Conns, j \in Nodes :
                   c # a \/ j # Peer(n) => Stream(c, j)' = Stream(c, j)
<1> DEFINE q == Peer(n)
<1>1. q \in Nodes /\ \E a \in Conns : a = Conn(n)
  <2>1. Conn(n) \in Conns \cup {NoConn}
    BY DEF Conn, Typed, Connected, Addressed
  <2>2. Conn(n) # NoConn
    BY DEF Posted, Found
  <2> QED BY <2>1, <2>2, PeerFacts
<1>a. PICK a \in Conns : a = Conn(n)
  BY <1>1
<1>2. CASE wire' = [wire EXCEPT ![a][q] = Append(@, m)]
  <2> HIDE DEF q
  <2>1. /\ wire'[a][q] = Append(wire[a][q], m)
        /\ \A c \in Conns, j \in Nodes :
             c # a \/ j # q => wire'[c][j] = wire[c][j]
    BY <1>1, <1>2 DEF Typed, Addressed
  <2>2. lexed[a][q] \in Seq(To(q)) /\ wire[a][q] \in Seq(To(q)) /\ m \in To(q)
    BY <1>1 DEF Typed, Addressed, q
  <2>3. Grown(lexed[a][q] \o Append(wire[a][q], m), lexed[a][q] \o wire[a][q], m)
    BY <2>2, StreamGrown
  <2>4. Grown(Stream(a, q)', Stream(a, q), m)
    BY <2>1, <2>3 DEF Stream
  <2>5. \A c \in Conns, j \in Nodes :
          c # a \/ j # q => Stream(c, j)' = Stream(c, j)
    BY <2>1 DEF Stream
  <2> QED BY <1>a, <2>4, <2>5 DEF q
<1>3. CASE UNCHANGED wire /\ lost' = lost \cup {Link(m)}
  <2>1. \A c \in Conns, j \in Nodes : Stream(c, j)' = Stream(c, j)
    BY <1>3 DEF Stream
  <2> QED BY <1>3, <2>1
<1> QED BY <1>a, <1>2, <1>3 DEF Posted

(***************************************************************************)
(* A read takes the first message on its connection.                       *)
(***************************************************************************)
LEMMA ReadStream ==
  ASSUME Typed, NEW n \in Nodes, NEW c \in Conns,
         NEW k \in 1..Len(wire[c][n]), msg_received(n, c, k)
  PROVE  /\ Stream(c, n)' \in Seq(To(n))
         /\ \A d \in Conns, j \in Nodes :
              d # c \/ j # n => Stream(d, j)' = Stream(d, j)
         /\ \E m \in To(n) :
              /\ Shrunk(Stream(c, n)', Stream(c, n), m)
              /\ incoming_link(n, m) \/ incoming_unlink(n, m) \/ incoming_exit2(n, m)
              /\ crossed' = IF Link(m) \in JobLinks(n) THEN crossed \cup {Link(m)}
                                                        ELSE crossed
<1> DEFINE w == wire[c][n]
           l == lexed[c][n]
           read == l \o SubSeq(w, 1, k)
           y == Tail(read)
           z == SubSeq(w, k + 1, Len(w))
           m == Head(read)
<1>1. /\ k \in 1..Len(w)
      /\ lexed' = [lexed EXCEPT ![c][n] = y]
      /\ wire' = [wire EXCEPT ![c][n] = z]
      /\ incoming_link(n, m) \/ incoming_unlink(n, m) \/ incoming_exit2(n, m)
      /\ crossed' = IF Link(m) \in JobLinks(n) THEN crossed \cup {Link(m)}
                                                ELSE crossed
      /\ UNCHANGED <<held, stalled>>
  BY DEF msg_received
<1>2. w \in Seq(To(n)) /\ l \in Seq(To(n))
  BY DEF Typed, Addressed
<1>3. Shrunk(y \o z, l \o w, m)
  BY <1>1, <1>2, StreamShrunk
<1>4. Addressed' /\ m \in To(n)
  BY <1>1, ReadFacts DEF Typed
<1> HIDE DEF w, l, y, z, m, read
<1>5. /\ wire'[c][n] = z /\ lexed'[c][n] = y
      /\ \A d \in Conns, j \in Nodes :
           d # c \/ j # n => wire'[d][j] = wire[d][j] /\ lexed'[d][j] = lexed[d][j]
  BY <1>1 DEF Typed, Addressed
<1>6. /\ Shrunk(Stream(c, n)', Stream(c, n), m)
      /\ \A d \in Conns, j \in Nodes :
           d # c \/ j # n => Stream(d, j)' = Stream(d, j)
  BY <1>3, <1>5 DEF Stream, l, w
<1>7. Stream(c, n)' \in Seq(To(n))
  BY <1>4, StreamFactsNext
<1> QED BY <1>1, <1>4, <1>6, <1>7

(***************************************************************************)
(* A connection breaks, or its acknowledgement is read: a stream keeps the *)
(* messages that are not lost.                                             *)
(***************************************************************************)
Loses(c, n) ==
  \E h : /\ Thinned(Stream(c, n)', Stream(c, n), h)
         /\ \A i \in DOMAIN Stream(c, n) :
              \/ \E j \in DOMAIN Stream(c, n)' : i = h[j]
              \/ Link(Stream(c, n)[i]) \in lost'

LEMMA SameLoses ==
  ASSUME Typed, NEW c \in Conns, NEW n \in Nodes, Stream(c, n)' = Stream(c, n)
  PROVE  Loses(c, n)
<1> DEFINE s == Stream(c, n)
           h == [i \in DOMAIN s |-> i]
<1>1. Stream(c, n)' = s
  OBVIOUS
<1> HIDE DEF s
<1>2. Thinned(s, s, h)
  BY DEF Thinned
<1>3. \A i \in DOMAIN s : h[i] = i
  OBVIOUS
<1> HIDE DEF h
<1>4. \E g : /\ Thinned(s, s, g)
             /\ \A i \in DOMAIN s : (\E j \in DOMAIN s : i = g[j])
                                    \/ Link(s[i]) \in lost'
  BY <1>2, <1>3
<1> QED BY <1>1, <1>4 DEF Loses, s

LEMMA BreakStream ==
  ASSUME Typed, NEW c \in Conns, connection_breaks(c), NEW d \in Conns,
         NEW n \in Nodes
  PROVE  Loses(d, n)
<1>1. /\ wire' = [wire EXCEPT ![c] = [j \in Nodes |-> <<>>]]
      /\ lexed' = [lexed EXCEPT ![c] = [j \in Nodes |-> <<>>]]
      /\ lost' = lost \cup {e \in Links : \E j \in Nodes :
                               About(e, wire[c][j] \o lexed[c][j])}
  BY DEF connection_breaks
<1>2. CASE d # c
  <2>1. wire'[d] = wire[d] /\ lexed'[d] = lexed[d]
    BY <1>1, <1>2 DEF Typed, Addressed
  <2> QED BY <2>1, SameLoses DEF Stream
<1>3. CASE d = c
  <2>1. wire'[c][n] = <<>> /\ lexed'[c][n] = <<>>
    BY <1>1 DEF Typed, Addressed
  <2>2. Stream(c, n)' = <<>>
    BY <2>1 DEF Stream
  <2> DEFINE s == Stream(c, n)
  <2>3. s \in Seq(To(n)) /\ \A e : About(e, s) <=> About(e, wire[c][n] \o lexed[c][n])
    BY StreamFacts
  <2>4. ASSUME NEW i \in DOMAIN s PROVE Link(s[i]) \in lost'
    <3> HIDE DEF s
    <3>1. About(Link(s[i]), s)
      BY DEF About
    <3>2. s[i] \in To(n)
      <4>1. DOMAIN s = 1..Len(s)
        BY <2>3, LenProperties
      <4> QED BY <2>3, <4>1, ElementOfSeq
    <3>3. s[i].to \in At(n) /\ s[i].from \in At(Peer(n))
      BY <3>2 DEF To
    <3>4. {s[i].to, s[i].from} \in Links
      BY <3>3, LinkFacts
    <3>5. Link(s[i]) \in Links
      BY <3>4 DEF Link
    <3> QED BY <1>1, <2>3, <3>1, <3>5
  <2> HIDE DEF s
  <2>5. Thinned(<<>>, s, <<>>)
    BY DEF Thinned
  <2>6. \E h : /\ Thinned(<<>>, s, h)
               /\ \A i \in DOMAIN s : (\E j \in DOMAIN <<>> : i = h[j])
                                      \/ Link(s[i]) \in lost'
    BY <2>4, <2>5
  <2> QED BY <1>3, <2>2, <2>6 DEF Loses, s
<1> QED BY <1>2, <1>3

LEMMA MadeStream ==
  ASSUME Typed, NEW n \in Nodes, NEW c \in Conns,
         NEW k \in 0..Len(wire[c][n]), handshake_success(n, c, k),
         NEW d \in Conns, NEW j \in Nodes
  PROVE  Loses(d, j)
<1> DEFINE w == wire[c][n]
           l == lexed[c][n]
           part == SubSeq(w, 1, k)
           rest == SubSeq(w, k + 1, Len(w))
<1>1. /\ wire' = [wire EXCEPT ![c][n] = rest] /\ UNCHANGED lexed
      /\ lost' = lost \cup {e \in Links : About(e, part)}
  BY DEF handshake_success
<1>2. w \in Seq(To(n)) /\ l \in Seq(To(n)) /\ k \in 0..Len(w)
  BY DEF Typed, Addressed
<1> HIDE DEF w, l
<1>3. PICK h : /\ Thinned(l \o rest, l \o w, h)
               /\ \A i \in DOMAIN (l \o w) :
                    \/ \E y \in DOMAIN (l \o rest) : i = h[y]
                    \/ (l \o w)[i] \in Range(part)
  BY <1>2, StreamThinned
<1>4. part \in Seq(To(n))
  BY <1>2, CutRange
<1> HIDE DEF part, rest
<1>5. /\ wire'[c][n] = rest
      /\ \A x \in Conns, y \in Nodes : x # c \/ y # n => wire'[x][y] = wire[x][y]
  BY <1>1 DEF Typed, Addressed
<1>6. CASE d # c \/ j # n
  <2>1. Stream(d, j)' = Stream(d, j)
    BY <1>1, <1>5, <1>6 DEF Stream
  <2> QED BY <2>1, SameLoses
<1>7. CASE d = c /\ j = n
  <2>1. Stream(c, n) = l \o w /\ Stream(c, n)' = l \o rest
    BY <1>1, <1>5 DEF Stream, l, w
  <2>2. ASSUME NEW m \in Range(part) PROVE Link(m) \in lost'
    <3>1. PICK i \in DOMAIN part : part[i] = m
      BY DEF Range
    <3>2. About(Link(m), part)
      BY <3>1 DEF About
    <3>3. m \in To(n)
      <4>1. DOMAIN part = 1..Len(part)
        BY <1>4, LenProperties
      <4> QED BY <1>4, <3>1, <4>1, ElementOfSeq
    <3>4. m.to \in At(n) /\ m.from \in At(Peer(n))
      BY <3>3 DEF To
    <3>5. {m.to, m.from} \in Links
      BY <3>4, LinkFacts
    <3>6. Link(m) \in Links
      BY <3>5 DEF Link
    <3> QED BY <1>1, <3>2, <3>6
  <2> DEFINE s == l \o w
             t == l \o rest
  <2>3. Thinned(t, s, h) /\ \A i \in DOMAIN s : (\E y \in DOMAIN t : i = h[y])
                                               \/ s[i] \in Range(part)
    BY <1>3
  <2> HIDE DEF s, t
  <2>4. \A i \in DOMAIN s : (\E y \in DOMAIN t : i = h[y]) \/ Link(s[i]) \in lost'
    BY <2>2, <2>3
  <2>5. Stream(c, n) = s /\ Stream(c, n)' = t
    BY <2>1 DEF s, t
  <2> QED BY <1>7, <2>3, <2>4, <2>5 DEF Loses
<1> QED BY <1>6, <1>7
-----------------------------------------------------------------------------
(***************************************************************************)
(* A link or unlink under way is between one mailbox of its node that is   *)
(* not closed and one of the other node.                                   *)
(***************************************************************************)
Undertaken ==
  \A n \in Nodes :
    job[n].step \in {"link", "store", "request"} =>
      \E b \in At(n) \ closed, p \in At(Peer(n)) :
        job[n].box = {b} /\ job[n].todo = {p}

LEMMA UndertakenKept ==
  ASSUME Undertaken, UNCHANGED <<job, closed>>
  PROVE  Undertaken'
BY DEF Undertaken

LEMMA UndertakenGoesOn ==
  ASSUME Typed, Undertaken, NEW n \in Nodes, NEW j,
         job' = [job EXCEPT ![n] = j], UNCHANGED closed,
         j.step \in {"link", "store", "request"} =>
           \E b \in At(n) \ closed, p \in At(Peer(n)) :
             j.box = {b} /\ j.todo = {p}
  PROVE  Undertaken'
<1>1. job'[n] = j /\ \A k \in Nodes \ {n} : job'[k] = job[k]
  BY DEF Typed, Working
<1> QED BY <1>1 DEF Undertaken

LEMMA UndertakenStep == Typed /\ Undertaken /\ [Next]_vars => Undertaken'
<1> SUFFICES ASSUME Typed, Undertaken, [Next]_vars PROVE Undertaken'
  OBVIOUS
<1>1. Resting.step \notin {"link", "store", "request"}
  BY DEF Resting
<1>2. ASSUME NEW n \in Nodes, get_connection_to(n) \/ unlink_exited(n)
      PROVE  Undertaken'
  BY <1>2, UndertakenKept DEF get_connection_to, unlink_exited
<1>3. ASSUME NEW n \in Nodes, NEW c \in Conns, NEW k,
             \/ drop_connection_to(n, c) \/ handshake_success_as_B(n, c)
             \/ handshake_success(n, c, k) \/ msg_received(n, c, k)
      PROVE  Undertaken'
  <2>1. UNCHANGED <<job, closed>>
    BY <1>3 DEF drop_connection_to, handshake_success_as_B, handshake_success,
                msg_received
  <2> QED BY <2>1, UndertakenKept
<1>4. ASSUME NEW n \in Nodes, NEW b \in Boxes, NEW p \in Boxes,
             link(n, b, p) \/ unlink(n, b, p)
      PROVE  Undertaken'
  <2>1. PICK s \in {"link", "request"} : job' = [job EXCEPT ![n] = Doing(s, b, {p})]
    BY <1>4 DEF link, unlink
  <2>2. b \in At(n) \ closed /\ p \in At(Peer(n)) /\ UNCHANGED closed
    BY <1>4 DEF link, unlink
  <2>3. Doing(s, b, {p}).box = {b} /\ Doing(s, b, {p}).todo = {p}
    BY DEF Doing
  <2> QED BY <2>1, <2>2, <2>3, UndertakenGoesOn
<1>5. ASSUME NEW n \in Nodes,
             store_link(n) \/ request_unlink(n) \/ throws(n) \/ remove(n)
      PROVE  Undertaken'
  <2>1. job' = [job EXCEPT ![n] = Resting] /\ UNCHANGED closed
    BY <1>5 DEF store_link, request_unlink, throws, remove
  <2> QED BY <1>1, <2>1, UndertakenGoesOn
<1>6. ASSUME NEW n \in Nodes, request_link(n) PROVE Undertaken'
  <2> DEFINE j == [job[n] EXCEPT !.step = "store"]
  <2>1. job[n] \in Job /\ job[n].step = "link" /\ UNCHANGED closed
    BY <1>6 DEF request_link, Typed, Working
  <2>2. job' = [job EXCEPT ![n] = j]
    BY <1>6 DEF request_link, Typed, Working
  <2>3. j.box = job[n].box /\ j.todo = job[n].todo
    BY <2>1 DEF Job
  <2> HIDE DEF j
  <2>4. \E b \in At(n) \ closed, p \in At(Peer(n)) : j.box = {b} /\ j.todo = {p}
    BY <2>1, <2>3 DEF Undertaken
  <2> QED BY <2>1, <2>2, <2>4, UndertakenGoesOn
<1>7. ASSUME NEW n \in Nodes, request_exit2(n) PROVE Undertaken'
  <2>1. PICK p : job' = [job EXCEPT ![n].todo = @ \ {p}]
    BY <1>7 DEF request_exit2
  <2>2. UNCHANGED closed /\ job[n].step = "exits" /\ job[n] \in Job
    BY <1>7 DEF request_exit2, Typed, Working
  <2> DEFINE j == [job[n] EXCEPT !.todo = @ \ {p}]
  <2>3. job' = [job EXCEPT ![n] = j]
    BY <2>1 DEF Typed, Working
  <2>4. j.step = "exits"
    BY <2>2 DEF Job
  <2> HIDE DEF j
  <2> QED BY <2>2, <2>3, <2>4, UndertakenGoesOn
<1>8. ASSUME NEW n \in Nodes, NEW b \in Boxes, close_links_for_local(n, b)
      PROVE  Undertaken'
  <2>1. PICK told \in SUBSET At(Peer(n)) :
          job' = [job EXCEPT ![n] = Doing("exits", b, told)]
    BY <1>8, CloseFacts
  <2>2. b \in At(n) /\ closed' = closed \cup {b}
    BY <1>8 DEF close_links_for_local
  <2>3. ASSUME NEW k \in Nodes, job'[k].step \in {"link", "store", "request"}
        PROVE  \E a \in At(k) \ closed', p \in At(Peer(k)) :
                 job'[k].box = {a} /\ job'[k].todo = {p}
    <3>1. Doing("exits", b, told).step = "exits"
      BY DEF Doing
    <3>2. k # n /\ job'[k] = job[k]
      BY <2>1, <2>3, <3>1 DEF Typed, Working
    <3>3. b \notin At(k)
      BY <2>2, <3>2 DEF At
    <3> QED BY <2>2, <2>3, <3>2, <3>3 DEF Undertaken
  <2> QED BY <2>3 DEF Undertaken
<1>9. ASSUME NEW c \in Conns, connection_breaks(c) PROVE Undertaken'
  BY <1>9, UndertakenKept DEF connection_breaks
<1>10. CASE UNCHANGED vars
  BY <1>10, UndertakenKept DEF vars
<1> QED BY <1>2, <1>3, <1>4, <1>5, <1>6, <1>7, <1>8, <1>9, <1>10 DEF Next

LEMMA UndertakenAlways == Spec => [](Typed /\ Undertaken)
<1>1. Init => Undertaken
  BY DEF Init, Undertaken, Resting
<1> QED BY <1>1, TypedAlways, UndertakenStep, PTL DEF Spec
-----------------------------------------------------------------------------
(***************************************************************************)
(* The jobs: node n is about step s of a call between b and p.             *)
(***************************************************************************)
Busy(n, s, b, p) == job[n].step = s /\ b \in job[n].box /\ p \in job[n].todo

LEMMA JobFacts ==
  ASSUME Typed, NEW n \in Nodes, NEW b \in At(n), NEW p \in At(Peer(n)),
         NEW e, e = {b, p}
  PROVE  /\ e \in Links
         /\ e \in JobLinks(n) <=> \E s \in {"store", "request", "exits"} :
                                    Busy(n, s, b, p)
         /\ UnlinkPending(n, e) <=> Busy(n, "request", b, p)
         /\ Idle(n) => \A s : ~Busy(n, s, b, p)
<1>1. e \in Links /\ n # Peer(n) /\ node_of[b] = n /\ node_of[p] = Peer(n)
  BY LinkFacts, PeerFacts
<1>2. Idle(n) => job[n].box = {}
  BY DEF Idle, Resting
<1>3. job[n].step \in Steps
  BY DEF Typed, Working, Job
<1>4. ASSUME e \in JobLinks(n)
      PROVE  /\ b \in job[n].box /\ p \in job[n].todo
             /\ job[n].step \in {"store", "request", "exits"}
  <2>1. /\ job[n].step \notin {"idle", "link"}
        /\ job[n].box \subseteq e /\ e \cap job[n].todo # {}
    BY <1>4 DEF JobLinks
  <2>2. /\ \E a \in At(n) : job[n].box = {a}
        /\ job[n].todo \subseteq At(Peer(n))
    BY <2>1, BusyFacts
  <2>3. b \in job[n].box
    BY <1>1, <2>1, <2>2 DEF At
  <2>4. b \notin job[n].todo
    BY <1>1, <2>2 DEF At
  <2> QED BY <1>3, <2>1, <2>3, <2>4 DEF Steps
<1>5. ASSUME b \in job[n].box, p \in job[n].todo,
             job[n].step \in {"store", "request", "exits"}
      PROVE  e \in JobLinks(n)
  <2>1. job[n].box = {b}
    BY <1>5, BusyFacts
  <2> QED BY <1>1, <1>5, <2>1 DEF JobLinks
<1> QED BY <1>1, <1>2, <1>4, <1>5 DEF UnlinkPending, Busy

LEMMA JobBecomes ==
  ASSUME Typed, NEW k \in Nodes, NEW j, job' = [job EXCEPT ![k] = j]
  PROVE  job'[k] = j /\ \A n \in Nodes \ {k} : job'[n] = job[n]
BY DEF Typed, Working

LEMMA DoingBusy ==
  ASSUME NEW k, NEW s, NEW b, NEW ps, job'[k] = Doing(s, b, ps),
         NEW t, NEW x, NEW y
  PROVE  Busy(k, t, x, y)' <=> t = s /\ x = b /\ y \in ps
BY DEF Busy, Doing

LEMMA RestingBusy ==
  ASSUME NEW k, job'[k] = Resting, NEW t, NEW x, NEW y
  PROVE  ~Busy(k, t, x, y)'
BY DEF Busy, Resting

LEMMA SameBusy ==
  ASSUME NEW n, job'[n] = job[n], NEW t, NEW x, NEW y
  PROVE  Busy(n, t, x, y)' <=> Busy(n, t, x, y)
BY DEF Busy

(***************************************************************************)
(* The request of a link is sent: its job is to store the link now.        *)
(***************************************************************************)
LEMMA RequestLinkBusy ==
  ASSUME Typed, Undertaken, NEW n \in Nodes, request_link(n)
  PROVE  \E b \in At(n) \ closed, p \in At(Peer(n)) :
           /\ Posted(n, Msg("link", b, p), Crossing(n, {b, p}))
           /\ asked' = [asked EXCEPT ![{b, p}] = @ + 1]
           /\ \A k \in Nodes \ {n} : job'[k] = job[k]
           /\ \A s, x, y : Busy(n, s, x, y) <=> s = "link" /\ x = b /\ y = p
           /\ \A s, x, y : Busy(n, s, x, y)' <=> s = "store" /\ x = b /\ y = p
<1>1. job[n].step = "link" /\ job' = [job EXCEPT ![n].step = "store"]
      /\ UNCHANGED <<mailboxes, closed>>
  BY DEF request_link
<1>2. PICK b \in At(n) \ closed, p \in At(Peer(n)) :
        job[n].box = {b} /\ job[n].todo = {p}
  BY <1>1 DEF Undertaken
<1>3. job'[n].step = "store" /\ job'[n].box = {b} /\ job'[n].todo = {p}
  BY <1>1, <1>2, NextStepFacts
<1>4. \A k \in Nodes \ {n} : job'[k] = job[k]
  BY <1>1 DEF Typed, Working
<1>5. /\ Posted(n, Msg("link", b, p), Crossing(n, {b, p}))
      /\ asked' = [asked EXCEPT ![{b, p}] = @ + 1]
  BY <1>2 DEF request_link
<1>6. /\ \A s, x, y : Busy(n, s, x, y) <=> s = "link" /\ x = b /\ y = p
      /\ \A s, x, y : Busy(n, s, x, y)' <=> s = "store" /\ x = b /\ y = p
  BY <1>1, <1>2, <1>3 DEF Busy
<1> QED BY <1>4, <1>5, <1>6
-----------------------------------------------------------------------------
(***************************************************************************)
(* How often a message is in a list, and on all connections together: f    *)
(* gives the list of each connection.                                      *)
(***************************************************************************)
Places(s, x) == {i \in DOMAIN s : s[i] = x}
Times(s, x)  == Cardinality(Places(s, x))

Spots(f, x) == {s \in Conns \X Nat : s[2] \in Places(f[s[1]], x)}
Total(f, x)   == Cardinality(Spots(f, x))

LEMMA TimesFacts ==
  ASSUME NEW S, NEW s \in Seq(S), NEW x
  PROVE  /\ IsFiniteSet(Places(s, x)) /\ Times(s, x) \in Nat
         /\ x \in Range(s) => Times(s, x) >= 1
<1>1. IsFiniteSet(Places(s, x))
  <2>1. DOMAIN s = 1..Len(s) /\ Len(s) \in Nat
    BY LenProperties
  <2>2. IsFiniteSet(DOMAIN s)
    BY <2>1, FS_Interval
  <2>3. Places(s, x) \subseteq DOMAIN s
    BY DEF Places
  <2> QED BY <2>2, <2>3, FS_Subset
<1>2. Times(s, x) \in Nat
  BY <1>1, FS_CardinalityType DEF Times
<1>3. ASSUME x \in Range(s) PROVE Times(s, x) # 0
  <2>1. Places(s, x) # {}
    BY <1>3 DEF Places, Range
  <2> QED BY <1>1, <2>1, FS_EmptySet DEF Times
<1> QED BY <1>1, <1>2, <1>3

LEMMA TimesEmpty == ASSUME NEW x PROVE Times(<<>>, x) = 0
<1>1. Places(<<>>, x) = {}
  BY DEF Places
<1> QED BY <1>1, FS_EmptySet DEF Times

LEMMA TimesGrown ==
  ASSUME NEW S, NEW s \in Seq(S), NEW t \in Seq(S), NEW x, NEW y, Grown(t, s, y)
  PROVE  Times(t, x) = Times(s, x) + One(y = x)
<1> DEFINE n == Len(s)
<1>1. /\ n \in Nat /\ DOMAIN s = 1..n /\ DOMAIN t = 1..(n + 1)
      /\ t[n + 1] = y /\ \A i \in 1..n : t[i] = s[i]
  BY LenProperties DEF Grown
<1> HIDE DEF n
<1>2. DOMAIN t = DOMAIN s \cup {n + 1} /\ n + 1 \notin DOMAIN s
  BY <1>1
<1>3. IsFiniteSet(Places(s, x)) /\ Times(s, x) \in Nat
  BY TimesFacts
<1>4. CASE y = x
  <2>1. Places(t, x) = Places(s, x) \cup {n + 1} /\ n + 1 \notin Places(s, x)
    BY <1>1, <1>2, <1>4 DEF Places
  <2>2. Cardinality(Places(t, x)) = Cardinality(Places(s, x)) + 1
    BY <1>3, <2>1, FS_AddElement
  <2> QED BY <1>4, <2>2 DEF Times, One
<1>5. CASE y # x
  <2>1. Places(t, x) = Places(s, x)
    BY <1>1, <1>2, <1>5 DEF Places
  <2> QED BY <1>3, <1>5, <2>1 DEF Times, One
<1> QED BY <1>4, <1>5

LEMMA SpotsFacts ==
  ASSUME NEW S, NEW f \in [Conns -> Seq(S)], NEW x
  PROVE  /\ IsFiniteSet(Spots(f, x)) /\ Total(f, x) \in Nat
         /\ \A c \in Conns : x \in Range(f[c]) => Total(f, x) >= 1
<1> DEFINE P(c) == {s \in Spots(f, x) : s[1] = c}
           g == [c \in Conns |-> P(c)]
           T == {g[c] : c \in Conns}
<1>1. ASSUME NEW c \in Conns PROVE IsFiniteSet(P(c))
  <2> DEFINE A == Places(f[c], x)
             h == [i \in A |-> <<c, i>>]
  <2>1. IsFiniteSet(A) /\ A \subseteq Nat
    <3>1. f[c] \in Seq(S)
      OBVIOUS
    <3>2. IsFiniteSet(A)
      BY <3>1, TimesFacts
    <3>3. DOMAIN f[c] = 1..Len(f[c])
      BY <3>1, LenProperties
    <3> QED BY <3>2, <3>3 DEF Places
  <2>2. h \in Surjection(A, P(c))
    <3>1. \A i \in A : h[i] \in P(c)
      BY <2>1 DEF Spots
    <3>2. ASSUME NEW s \in P(c) PROVE \E i \in A : h[i] = s
      <4>1. s = <<c, s[2]>> /\ s[2] \in A
        BY DEF Spots
      <4> QED BY <4>1
    <3> QED BY <3>1, <3>2 DEF Surjection
  <2> HIDE DEF h, A, P
  <2> QED BY <2>1, <2>2, FS_Surjection
<1>2. IsFiniteSet(T)
  <2>1. IsFiniteSet(Conns)
    BY RemoteAssumption, FS_Interval DEF Conns
  <2>2. g \in Surjection(Conns, T)
    BY DEF Surjection
  <2> HIDE DEF g
  <2> QED BY <2>1, <2>2, FS_Surjection
<1>3. \A Z \in T : IsFiniteSet(Z)
  BY <1>1
<1>4. Spots(f, x) = UNION T
  BY DEF Spots
<1> HIDE DEF T
<1>5. IsFiniteSet(Spots(f, x))
  BY <1>2, <1>3, <1>4, FS_UNION
<1>6. Total(f, x) \in Nat
  BY <1>5, FS_CardinalityType DEF Total
<1>7. ASSUME NEW c \in Conns, x \in Range(f[c]) PROVE Total(f, x) # 0
  <2>1. PICK i \in DOMAIN f[c] : f[c][i] = x
    BY <1>7 DEF Range
  <2>2. f[c] \in Seq(S) /\ DOMAIN f[c] = 1..Len(f[c])
    BY LenProperties
  <2>3. <<c, i>> \in Spots(f, x)
    BY <2>1, <2>2 DEF Spots, Places
  <2> QED BY <1>5, <2>3, FS_EmptySet DEF Total
<1> QED BY <1>5, <1>6, <1>7

LEMMA AllGrown ==
  ASSUME NEW S, NEW f \in [Conns -> Seq(S)], NEW g \in [Conns -> Seq(S)],
         NEW c \in Conns, NEW x, NEW y, Grown(g[c], f[c], y),
         \A d \in Conns \ {c} : g[d] = f[d]
  PROVE  Total(g, x) <= Total(f, x) + One(y = x)
<1> DEFINE n == Len(f[c])
           z == <<c, n + 1>>
<1>1. /\ n \in Nat /\ DOMAIN f[c] = 1..n /\ DOMAIN g[c] = 1..(n + 1)
      /\ g[c][n + 1] = y /\ \A i \in 1..n : g[c][i] = f[c][i]
  <2>1. f[c] \in Seq(S) /\ g[c] \in Seq(S)
    OBVIOUS
  <2> QED BY <2>1, LenProperties DEF Grown
<1> HIDE DEF n
<1>2. z \in Conns \X Nat /\ z \notin Spots(f, x)
  BY <1>1 DEF Spots, Places
<1>3. IsFiniteSet(Spots(f, x)) /\ Total(f, x) \in Nat
  BY SpotsFacts
<1>4. Places(g[c], x) = Places(f[c], x) \cup (IF y = x THEN {n + 1} ELSE {})
  BY <1>1 DEF Places
<1>5. Spots(g, x) = Spots(f, x) \cup (IF y = x THEN {z} ELSE {})
  <2>1. ASSUME NEW s \in Conns \X Nat
        PROVE  s \in Spots(g, x) <=> s \in Spots(f, x) \/ (y = x /\ s = z)
    <3>1. CASE s[1] # c
      BY <3>1 DEF Spots
    <3>2. CASE s[1] = c
      <4>1. s[2] = n + 1 <=> s = z
        BY <1>1, <3>2
      <4> HIDE DEF z
      <4> QED BY <1>4, <3>2, <4>1 DEF Spots
    <3> QED BY <3>1, <3>2
  <2>2. Spots(g, x) \subseteq Conns \X Nat /\ Spots(f, x) \subseteq Conns \X Nat
    BY DEF Spots
  <2> HIDE DEF z
  <2> QED BY <1>2, <2>1, <2>2
<1> HIDE DEF z
<1>6. CASE y = x
  <2>1. Cardinality(Spots(f, x) \cup {z}) = Cardinality(Spots(f, x)) + 1
    BY <1>2, <1>3, FS_AddElement
  <2> QED BY <1>3, <1>5, <1>6, <2>1 DEF Total, One
<1>7. CASE y # x
  BY <1>3, <1>5, <1>7 DEF Total, One
<1> QED BY <1>6, <1>7

LEMMA AllShrunk ==
  ASSUME NEW S, NEW f \in [Conns -> Seq(S)], NEW g \in [Conns -> Seq(S)],
         NEW c \in Conns, NEW x, NEW y, Shrunk(g[c], f[c], y),
         \A d \in Conns \ {c} : g[d] = f[d]
  PROVE  Total(g, x) + One(y = x) <= Total(f, x)
<1> DEFINE n == Len(g[c])
           z == <<c, 1>>
           A == Spots(g, x)
           B == Spots(f, x)
           h == [s \in A |-> IF s[1] = c THEN <<c, s[2] + 1>> ELSE s]
<1>1. /\ n \in Nat /\ DOMAIN g[c] = 1..n /\ DOMAIN f[c] = 1..(n + 1)
      /\ f[c][1] = y /\ \A i \in 1..n : g[c][i] = f[c][i + 1]
  <2>1. f[c] \in Seq(S) /\ g[c] \in Seq(S)
    OBVIOUS
  <2> QED BY <2>1, LenProperties DEF Shrunk
<1> HIDE DEF n
<1>2. /\ IsFiniteSet(A) /\ IsFiniteSet(B)
      /\ Total(g, x) \in Nat /\ Total(f, x) \in Nat
      /\ Cardinality(A) = Total(g, x) /\ Cardinality(B) = Total(f, x)
  BY SpotsFacts DEF Total
<1>3. ASSUME NEW s \in A PROVE h[s] \in B \ {z}
  <2>1. s \in Conns \X Nat /\ s[2] \in Places(g[s[1]], x)
    BY DEF Spots
  <2>2. CASE s[1] # c
    <3>1. h[s] = s /\ s # z
      BY <2>2
    <3>2. s \in B
      BY <2>1, <2>2 DEF Spots
    <3> QED BY <3>1, <3>2
  <2>3. CASE s[1] = c
    <3>1. s[2] + 1 \in Places(f[c], x) /\ s[2] + 1 # 1 /\ s[2] + 1 \in Nat
      BY <1>1, <2>1, <2>3 DEF Places
    <3>2. h[s] = <<c, s[2] + 1>>
      BY <2>3
    <3>3. <<c, s[2] + 1>> \in B /\ <<c, s[2] + 1>> # z
      BY <3>1 DEF Spots
    <3> QED BY <3>2, <3>3
  <2> QED BY <2>2, <2>3
<1>4. ASSUME NEW s \in A, NEW t \in A, h[s] = h[t] PROVE s = t
  <2>1. /\ s \in Conns \X Nat /\ t \in Conns \X Nat
        /\ s = <<s[1], s[2]>> /\ t = <<t[1], t[2]>>
    BY DEF Spots
  <2>2. /\ h[s] = IF s[1] = c THEN <<c, s[2] + 1>> ELSE s
        /\ h[t] = IF t[1] = c THEN <<c, t[2] + 1>> ELSE t
    OBVIOUS
  <2>3. h[s][1] = s[1] /\ h[t][1] = t[1]
    BY <2>2
  <2>4. s[1] = t[1]
    BY <1>4, <2>3
  <2> HIDE DEF h
  <2>5. CASE s[1] = c
    <3>0. h[s] = <<c, s[2] + 1>> /\ h[t] = <<c, t[2] + 1>>
      BY <2>2, <2>4, <2>5
    <3>1. <<c, s[2] + 1>> = <<c, t[2] + 1>>
      BY <1>4, <3>0
    <3>2. s[2] = t[2]
      <4>1. s[2] \in Nat /\ t[2] \in Nat
        BY <2>1
      <4>2. s[2] + 1 = t[2] + 1
        BY <3>1
      <4> QED BY <4>1, <4>2
    <3> QED BY <2>1, <2>4, <3>2
  <2>6. CASE s[1] # c
    BY <1>4, <2>2, <2>4, <2>6
  <2> QED BY <2>5, <2>6
<1>5. y = x => z \in B
  BY <1>1 DEF Spots, Places
<1>6. h \in Injection(A, B \ {z})
  <2>1. h \in [A -> B \ {z}]
    BY <1>3
  <2>2. DOMAIN h = A
    OBVIOUS
  <2> HIDE DEF h
  <2> QED BY <1>4, <2>1, <2>2 DEF Injection, IsInjective
<1> HIDE DEF h, A, B, z
<1>7. IsFiniteSet(B \ {z})
  BY <1>2, FS_Subset
<1>8. Cardinality(A) <= Cardinality(B \ {z})
  BY <1>6, <1>7, FS_Injection
<1>9. CASE y = x
  <2>1. Cardinality(B \ {z}) = Cardinality(B) - 1
    BY <1>2, <1>5, <1>9, FS_RemoveElement
  <2> QED BY <1>2, <1>8, <1>9, <2>1 DEF One
<1>10. CASE y # x
  <2>1. Cardinality(B \ {z}) <= Cardinality(B) /\ Cardinality(B \ {z}) \in Nat
    BY <1>2, <1>7, FS_Subset, FS_CardinalityType
  <2> QED BY <1>2, <1>8, <1>10, <2>1 DEF One
<1> QED BY <1>9, <1>10

LEMMA AllThinned ==
  ASSUME NEW S, NEW f \in [Conns -> Seq(S)], NEW g \in [Conns -> Seq(S)], NEW x,
         \A c \in Conns : \E h : Thinned(g[c], f[c], h)
  PROVE  Total(g, x) <= Total(f, x)
<1> DEFINE H(c) == CHOOSE h : Thinned(g[c], f[c], h)
           A == Spots(g, x)
           B == Spots(f, x)
           j == [s \in A |-> <<s[1], H(s[1])[s[2]]>>]
<1>1. \A c \in Conns : Thinned(g[c], f[c], H(c))
  OBVIOUS
<1> HIDE DEF H
<1>2. \A c \in Conns : DOMAIN f[c] \subseteq Nat /\ DOMAIN g[c] \subseteq Nat
  BY LenProperties
<1>3. ASSUME NEW s \in A
      PROVE  /\ s[1] \in Conns /\ s[2] \in DOMAIN g[s[1]] /\ s = <<s[1], s[2]>>
             /\ j[s] = <<s[1], H(s[1])[s[2]]>> /\ j[s] \in B
  <2>1. /\ s[1] \in Conns /\ s[2] \in DOMAIN g[s[1]] /\ s = <<s[1], s[2]>>
        /\ g[s[1]][s[2]] = x
    BY DEF Spots, Places
  <2>2. /\ H(s[1])[s[2]] \in DOMAIN f[s[1]]
        /\ f[s[1]][H(s[1])[s[2]]] = x
    BY <1>1, <2>1 DEF Thinned
  <2>3. <<s[1], H(s[1])[s[2]]>> \in B
    BY <1>2, <2>1, <2>2 DEF Spots, Places
  <2> QED BY <2>1, <2>3
<1>4. DOMAIN j = A
  OBVIOUS
<1>5. j \in [A -> B]
  BY <1>3
<1> HIDE DEF j
<1>6. ASSUME NEW s \in A, NEW t \in A, j[s] = j[t] PROVE s = t
  <2> DEFINE c == s[1]
             k == H(c)
  <2>1. c \in Conns /\ s[2] \in DOMAIN g[c] /\ t[2] \in DOMAIN g[c]
        /\ k[s[2]] = k[t[2]] /\ t[1] = c /\ s = <<c, s[2]>> /\ t = <<c, t[2]>>
    BY <1>3, <1>6
  <2>2. \A u, v \in DOMAIN g[c] : u < v => k[u] < k[v]
    BY <1>1, <2>1 DEF Thinned
  <2>3. k[s[2]] \in Nat /\ k[t[2]] \in Nat /\ s[2] \in Nat /\ t[2] \in Nat
    BY <1>1, <1>2, <2>1 DEF Thinned
  <2> HIDE DEF k, c
  <2>4. ~(s[2] < t[2]) /\ ~(t[2] < s[2])
    BY <2>1, <2>2, <2>3
  <2>5. s[2] = t[2]
    BY <2>3, <2>4
  <2> QED BY <2>1, <2>5
<1>7. j \in Injection(A, B)
  BY <1>4, <1>5, <1>6 DEF Injection, IsInjective
<1>8. IsFiniteSet(B)
  BY SpotsFacts
<1> HIDE DEF A, B
<1>9. Cardinality(A) <= Cardinality(B)
  BY <1>7, <1>8, FS_Injection
<1> QED BY <1>9 DEF Total, A, B
-----------------------------------------------------------------------------
(***************************************************************************)
(* Where a request for the link between b of node n and p can be: with p,  *)
(* as a report of the end of b; in an exit or a request under way; with    *)
(* b's node, as the link, a link to be stored or an exit to be sent.  No   *)
(* step but the request of a link makes it more than it was.               *)
(***************************************************************************)
Streams(n)        == [c \in Conns |-> Stream(c, n)]
Counts(n, x)      == Total(Streams(n), x)
Reported(p, b)    == Times(reports[p], b)
Exits(n, b, p)    == Counts(n, Msg("exit2", b, p))
Asks(n, b, p)     == Counts(n, Msg("link", p, b))
Held(n, b, p)     == One(Busy(n, "exits", b, p)) + One({b, p} \in links[n])
                       + One(Busy(n, "store", b, p))

Ledger(n, b, p) ==
  Reported(p, b) + Exits(Peer(n), b, p) + Asks(n, b, p) + Held(n, b, p)

Counted ==
  \A n \in Nodes : \A b \in At(n), p \in At(Peer(n)) :
    Ledger(n, b, p) <= asked[{b, p}]

Accounted == Typed /\ Undertaken /\ Counted

NatLedger ==
  \A n \in Nodes : \A b \in At(n), p \in At(Peer(n)) :
    /\ Reported(p, b) \in Nat /\ Exits(Peer(n), b, p) \in Nat
    /\ Asks(n, b, p) \in Nat /\ Held(n, b, p) \in Nat
    /\ asked[{b, p}] \in Nat

LEMMA StreamsFacts ==
  ASSUME Typed, NEW n \in Nodes
  PROVE  Streams(n) \in [Conns -> Seq(To(n))] /\ \A x : Counts(n, x) \in Nat
<1>1. Streams(n) \in [Conns -> Seq(To(n))]
  BY StreamFacts DEF Streams
<1> QED BY <1>1, SpotsFacts DEF Counts

LEMMA StreamsFactsNext ==
  ASSUME Typed', NEW n \in Nodes
  PROVE  Streams(n)' \in [Conns -> Seq(To(n))] /\ \A x : Counts(n, x)' \in Nat
<1>1. Streams(n)' \in [Conns -> Seq(To(n))]
  <2>1. Addressed'
    BY DEF Typed
  <2>2. \A c \in Conns : Stream(c, n)' \in Seq(To(n))
    BY <2>1, StreamFactsNext
  <2> QED BY <2>2 DEF Streams
<1>2. \A x : Total(Streams(n)', x) \in Nat
  BY <1>1, SpotsFacts
<1> QED BY <1>1, <1>2 DEF Counts

LEMMA LedgerTypes == Typed => NatLedger
<1> SUFFICES ASSUME Typed, NEW n \in Nodes,
                    NEW b \in At(n), NEW p \in At(Peer(n))
             PROVE  /\ Reported(p, b) \in Nat /\ Exits(Peer(n), b, p) \in Nat
                    /\ Asks(n, b, p) \in Nat /\ Held(n, b, p) \in Nat
                    /\ asked[{b, p}] \in Nat
  BY DEF NatLedger
<1>1. \A x : Counts(n, x) \in Nat /\ Counts(Peer(n), x) \in Nat
  BY StreamsFacts, PeerFacts
<1>2. reports[p] \in Seq(Boxes) /\ asked[{b, p}] \in Nat
  BY LinkFacts DEF Typed, Recorded
<1>3. Reported(p, b) \in Nat
  BY <1>2, TimesFacts DEF Reported
<1>4. Exits(Peer(n), b, p) \in Nat /\ Asks(n, b, p) \in Nat
  BY <1>1 DEF Exits, Asks
<1>5. Held(n, b, p) \in Nat
  BY DEF Held, One
<1> QED BY <1>2, <1>3, <1>4, <1>5

(***************************************************************************)
(* A step that moves requests on, or asks for a link once more.            *)
(***************************************************************************)
MovedOn(n, b, p) ==
  Ledger(n, b, p)' + asked[{b, p}] <= Ledger(n, b, p) + asked'[{b, p}]

LEMMA CountedStep ==
  ASSUME Accounted, Typed',
         \A n \in Nodes : \A b \in At(n), p \in At(Peer(n)) : MovedOn(n, b, p)
  PROVE  Counted'
<1> SUFFICES ASSUME NEW n \in Nodes, NEW b \in At(n), NEW p \in At(Peer(n))
             PROVE  Ledger(n, b, p)' <= asked'[{b, p}]
  BY DEF Counted
<1>1. Ledger(n, b, p) <= asked[{b, p}] /\ MovedOn(n, b, p)
  BY DEF Accounted, Counted
<1>2. Ledger(n, b, p) \in Nat /\ asked[{b, p}] \in Nat
  BY LedgerTypes DEF Accounted, NatLedger, Ledger
<1>3. Ledger(n, b, p)' \in Nat /\ asked'[{b, p}] \in Nat
  <2>1. Typed' => NatLedger'
    BY LedgerTypes, PTL
  <2> QED BY <2>1 DEF NatLedger, Ledger
<1> QED BY <1>1, <1>2, <1>3 DEF MovedOn

LEMMA PostedTimes ==
  ASSUME Typed, Typed', NEW n \in Nodes, NEW x \in To(Peer(n)), NEW more,
         Posted(n, x, more), UNCHANGED lexed, NEW j \in Nodes, NEW y
  PROVE  /\ Counts(j, y) \in Nat /\ Counts(j, y)' \in Nat
         /\ \/ Counts(j, y)' <= Counts(j, y)
            \/ Counts(j, y)' <= Counts(j, y) + 1 /\ j = Peer(n) /\ x = y
<1>1. Streams(j) \in [Conns -> Seq(To(j))] /\ Counts(j, y) \in Nat
  BY StreamsFacts
<1>2. Streams(j)' \in [Conns -> Seq(To(j))] /\ Counts(j, y)' \in Nat
  BY StreamsFactsNext
<1>3. ASSUME \A c \in Conns : Stream(c, j)' = Stream(c, j)
      PROVE  Counts(j, y)' <= Counts(j, y)
  <2>1. Streams(j)' = Streams(j)
    BY <1>3 DEF Streams
  <2>2. Counts(j, y)' = Counts(j, y)
    BY <2>1 DEF Counts
  <2> QED BY <1>1, <2>2
<1>4. CASE \A c \in Conns, k \in Nodes : Stream(c, k)' = Stream(c, k)
  BY <1>1, <1>2, <1>3, <1>4
<1>5. ASSUME NEW a \in Conns, Grown(Stream(a, Peer(n))', Stream(a, Peer(n)), x),
             \A c \in Conns, k \in Nodes :
               c # a \/ k # Peer(n) => Stream(c, k)' = Stream(c, k)
      PROVE  \/ Counts(j, y)' <= Counts(j, y)
             \/ Counts(j, y)' <= Counts(j, y) + 1 /\ j = Peer(n) /\ x = y
  <2>1. CASE j # Peer(n)
    BY <1>3, <1>5, <2>1
  <2>2. CASE j = Peer(n)
    <3> DEFINE f == Streams(j)
               g == Streams(j)'
    <3>1. Grown(g[a], f[a], x) /\ \A d \in Conns \ {a} : g[d] = f[d]
      BY <1>5, <2>2 DEF Streams
    <3>2. f \in [Conns -> Seq(To(j))] /\ g \in [Conns -> Seq(To(j))]
      BY <1>1, <1>2
    <3>3. Counts(j, y) = Total(f, y) /\ Counts(j, y)' = Total(g, y)
      BY DEF Counts
    <3> HIDE DEF f, g
    <3>4. Total(g, y) <= Total(f, y) + One(x = y)
      BY <3>1, <3>2, AllGrown
    <3> QED BY <1>1, <1>2, <2>2, <3>3, <3>4 DEF One
  <2> QED BY <2>1, <2>2
<1>6. \/ \A c \in Conns, k \in Nodes : Stream(c, k)' = Stream(c, k)
      \/ \E a \in Conns :
           /\ Grown(Stream(a, Peer(n))', Stream(a, Peer(n)), x)
           /\ \A c \in Conns, k \in Nodes :
                c # a \/ k # Peer(n) => Stream(c, k)' = Stream(c, k)
  BY PostedStream
<1> QED BY <1>1, <1>2, <1>4, <1>5, <1>6

LEMMA CountsKept ==
  ASSUME UNCHANGED <<wire, lexed>>, NEW n, NEW x
  PROVE  Counts(n, x)' = Counts(n, x)
BY DEF Counts, Streams, Stream

LEMMA CountsLost ==
  ASSUME Typed, Typed', NEW n \in Nodes, \A c \in Conns : Loses(c, n), NEW x
  PROVE  Counts(n, x)' <= Counts(n, x)
<1> DEFINE f == Streams(n)
           g == Streams(n)'
<1>1. f \in [Conns -> Seq(To(n))] /\ g \in [Conns -> Seq(To(n))]
  BY StreamsFacts, StreamsFactsNext
<1>2. \A c \in Conns : f[c] = Stream(c, n) /\ g[c] = Stream(c, n)'
  BY DEF Streams
<1>3. Counts(n, x) = Total(f, x) /\ Counts(n, x)' = Total(g, x)
  BY DEF Counts
<1> HIDE DEF f, g
<1>4. \A c \in Conns : \E h : Thinned(g[c], f[c], h)
  BY <1>2 DEF Loses
<1>5. Total(g, x) <= Total(f, x)
  BY <1>1, <1>4, AllThinned
<1> QED BY <1>3, <1>5

LEMMA HeldKept ==
  ASSUME NEW n, NEW b, NEW p, job'[n] = job[n], links'[n] = links[n]
  PROVE  Held(n, b, p)' = Held(n, b, p)
BY DEF Held, Busy

(***************************************************************************)
(* Messages are neither sent nor handled, at most lost.                    *)
(***************************************************************************)
LEMMA LocalCounted ==
  ASSUME Accounted, Typed', UNCHANGED <<reports, asked>>,
         \A j \in Nodes : \A x : Counts(j, x)' <= Counts(j, x),
         \A n \in Nodes : \A b \in At(n), p \in At(Peer(n)) :
           Held(n, b, p)' <= Held(n, b, p)
  PROVE  Counted'
<1>1. NatLedger /\ NatLedger'
  <2>1. Typed' => NatLedger'
    BY LedgerTypes, PTL
  <2> QED BY <2>1, LedgerTypes DEF Accounted
<1>2. ASSUME NEW n \in Nodes, NEW b \in At(n), NEW p \in At(Peer(n))
      PROVE  MovedOn(n, b, p)
  <2>1. /\ Reported(p, b) \in Nat /\ Exits(Peer(n), b, p) \in Nat
        /\ Asks(n, b, p) \in Nat /\ Held(n, b, p) \in Nat
        /\ asked[{b, p}] \in Nat /\ Held(n, b, p)' \in Nat
    BY <1>1 DEF NatLedger
  <2>2. Reported(p, b)' = Reported(p, b) /\ Held(n, b, p)' <= Held(n, b, p)
    BY DEF Reported
  <2>3. /\ Exits(Peer(n), b, p)' <= Exits(Peer(n), b, p)
        /\ Exits(Peer(n), b, p)' \in Nat
    BY <1>1, PeerFacts DEF Exits, NatLedger
  <2>4. Asks(n, b, p)' <= Asks(n, b, p) /\ Asks(n, b, p)' \in Nat
    BY <1>1 DEF Asks, NatLedger
  <2>5. asked'[{b, p}] = asked[{b, p}]
    OBVIOUS
  <2>6. Ledger(n, b, p)' <= Ledger(n, b, p)
        /\ Ledger(n, b, p) \in Nat /\ Ledger(n, b, p)' \in Nat
    BY <2>1, <2>2, <2>3, <2>4 DEF Ledger
  <2> QED BY <2>1, <2>5, <2>6 DEF MovedOn
<1> QED BY <1>2, CountedStep

LEMMA ConnectionCounted ==
  ASSUME Accounted, Typed',
         \/ UNCHANGED vars
         \/ \E n \in Nodes : get_connection_to(n)
         \/ \E n \in Nodes, c \in Conns :
              drop_connection_to(n, c) \/ handshake_success_as_B(n, c)
         \/ \E n \in Nodes, c \in Conns :
              \E k \in 0..Len(wire[c][n]) : handshake_success(n, c, k)
         \/ \E c \in Conns : connection_breaks(c)
  PROVE  Counted'
<1>1. UNCHANGED <<links, job, reports, asked>>
  BY DEF get_connection_to, drop_connection_to, connection_breaks, vars, history,
         handshake_success, handshake_success_as_B
<1>2. Typed
  BY DEF Accounted
<1>3. ASSUME NEW j \in Nodes, NEW x PROVE Counts(j, x)' <= Counts(j, x)
  <2>1. ASSUME UNCHANGED <<wire, lexed>> PROVE Counts(j, x)' <= Counts(j, x)
    <3>1. Counts(j, x)' = Counts(j, x) /\ Counts(j, x) \in Nat
      BY <1>2, <2>1, CountsKept, StreamsFacts
    <3> QED BY <3>1
  <2>2. ASSUME \A c \in Conns : Loses(c, j) PROVE Counts(j, x)' <= Counts(j, x)
    BY <1>2, <2>2, CountsLost
  <2>3. ASSUME NEW c \in Conns, connection_breaks(c)
        PROVE  Counts(j, x)' <= Counts(j, x)
    BY <1>2, <2>2, <2>3, BreakStream
  <2>4. ASSUME NEW n \in Nodes, NEW c \in Conns, NEW k \in 0..Len(wire[c][n]),
               handshake_success(n, c, k)
        PROVE  Counts(j, x)' <= Counts(j, x)
    BY <1>2, <2>2, <2>4, MadeStream
  <2>5. ASSUME \/ UNCHANGED vars
               \/ \E n \in Nodes : get_connection_to(n)
               \/ \E n \in Nodes, c \in Conns :
                    drop_connection_to(n, c) \/ handshake_success_as_B(n, c)
        PROVE  UNCHANGED <<wire, lexed>>
    BY <2>5 DEF vars, queues, get_connection_to, drop_connection_to,
                handshake_success_as_B
  <2> QED BY <2>1, <2>3, <2>4, <2>5
<1>4. ASSUME NEW k \in Nodes, NEW b \in At(k), NEW p \in At(Peer(k))
      PROVE  Held(k, b, p)' <= Held(k, b, p)
  <2>1. Held(k, b, p)' = Held(k, b, p) /\ Held(k, b, p) \in Nat
    BY <1>1, <1>2, HeldKept, LedgerTypes DEF NatLedger
  <2> QED BY <2>1
<1> QED BY <1>1, <1>3, <1>4, LocalCounted

(***************************************************************************)
(* The steps of a client's thread that send nothing.                       *)
(***************************************************************************)
LEMMA QuietJobCounted ==
  ASSUME Accounted, Typed', NEW k \in Nodes, NEW a, NEW q,
         \/ link(k, a, q) \/ store_link(k) \/ unlink(k, a, q)
         \/ close_links_for_local(k, a) \/ throws(k) \/ remove(k)
         \/ unlink_exited(k)
  PROVE  Counted'
<1>1. /\ UNCHANGED <<reports, asked, wire, lexed>> /\ Typed
      /\ links \in [Nodes -> SUBSET Links] /\ job \in [Nodes -> Job]
  BY DEF link, store_link, unlink, close_links_for_local, throws, remove,
         unlink_exited, queues, history, Accounted, Typed, Recorded, Working
<1>2. ASSUME NEW j \in Nodes, NEW x PROVE Counts(j, x)' <= Counts(j, x)
  <2>1. Counts(j, x)' = Counts(j, x) /\ Counts(j, x) \in Nat
    BY <1>1, CountsKept, StreamsFacts
  <2> QED BY <2>1
<1>3. ASSUME NEW n \in Nodes \ {k} PROVE job'[n] = job[n] /\ links'[n] = links[n]
  BY <1>1, <1>3 DEF link, store_link, unlink, close_links_for_local, throws,
                    remove, unlink_exited
<1>4. ASSUME NEW b \in At(k), NEW p \in At(Peer(k))
      PROVE  Held(k, b, p)' <= Held(k, b, p)
  <2> DEFINE e == {b, p}
  <2>1. /\ e \in Links
        /\ e \in JobLinks(k) => b \in job[k].box /\ p \in job[k].todo
    BY <1>1, JobFacts DEF Busy
  <2>2. CASE store_link(k)
    <3>1. job'[k] = Resting /\ links'[k] = links[k] \cup JobLinks(k)
          /\ job[k].step = "store"
      BY <1>1, <2>2 DEF store_link
    <3>2. \A s : ~Busy(k, s, b, p)'
      BY <3>1, RestingBusy
    <3>3. e \in links'[k] => e \in links[k] \/ Busy(k, "store", b, p)
      BY <2>1, <3>1 DEF Busy
    <3> QED BY <3>2, <3>3 DEF Held, One
  <2>3. CASE unlink(k, a, q)
    <3>1. job'[k] = Doing("request", a, {q}) /\ links'[k] \subseteq links[k]
      BY <1>1, <2>3 DEF unlink
    <3>2. ~Busy(k, "exits", b, p)' /\ ~Busy(k, "store", b, p)'
      BY <3>1 DEF Busy, Doing
    <3> QED BY <3>1, <3>2 DEF Held, One
  <2>4. CASE close_links_for_local(k, a)
    <3>1. PICK told : told = {Other(f, a) : f \in LinksOf(k, a)}
      OBVIOUS
    <3>2. /\ job'[k] = Doing("exits", a, told) /\ a \in At(k)
          /\ links'[k] = links[k] \ LinksOf(k, a)
      BY <1>1, <2>4, <3>1 DEF close_links_for_local
    <3>3. ~Busy(k, "store", b, p)' /\ (Busy(k, "exits", b, p)' => b = a /\ p \in told)
      BY <3>2 DEF Busy, Doing
    <3>4. b = a /\ p \in told => e \in links[k]
      <4> SUFFICES ASSUME b = a, p \in told PROVE e \in links[k]
        OBVIOUS
      <4>1. PICK f \in LinksOf(k, a) : p = Other(f, a)
        BY <3>1
      <4>2. f \in Links /\ a \in f /\ f \in links[k]
        BY <1>1, <4>1 DEF LinksOf
      <4>3. f = {a, Other(f, a)}
        BY <3>2, <4>2, OtherFacts
      <4> QED BY <4>1, <4>2, <4>3
    <3>5. b = a => e \notin links'[k]
      BY <3>2 DEF LinksOf
    <3>6. e \in links'[k] => e \in links[k]
      BY <3>2
    <3> HIDE DEF e
    <3>7. One(Busy(k, "exits", b, p)') + One(e \in links'[k]) <= One(e \in links[k])
      BY <3>3, <3>4, <3>5, <3>6 DEF One
    <3> QED BY <3>3, <3>7 DEF Held, One, e
  <2>5. CASE throws(k) \/ remove(k)
    <3>1. job'[k] = Resting /\ links'[k] = links[k]
      BY <1>1, <2>5 DEF throws, remove
    <3>2. \A s : ~Busy(k, s, b, p)'
      BY <3>1, RestingBusy
    <3> QED BY <3>1, <3>2 DEF Held, One
  <2>6. CASE link(k, a, q)
    <3>1. job'[k] = Doing("link", a, {q}) /\ links'[k] = links[k]
      BY <1>1, <2>6 DEF link
    <3>2. ~Busy(k, "exits", b, p)' /\ ~Busy(k, "store", b, p)'
      BY <3>1 DEF Busy, Doing
    <3> QED BY <3>1, <3>2 DEF Held, One
  <2>7. CASE unlink_exited(k)
    <3>1. job'[k] = job[k] /\ links'[k] \subseteq links[k]
      BY <1>1, <2>7 DEF unlink_exited
    <3>2. \A s : Busy(k, s, b, p)' <=> Busy(k, s, b, p)
      BY <3>1, SameBusy
    <3> QED BY <3>1, <3>2 DEF Held, One
  <2> QED BY <2>2, <2>3, <2>4, <2>5, <2>6, <2>7
<1>5. ASSUME NEW n \in Nodes, NEW b \in At(n), NEW p \in At(Peer(n))
      PROVE  Held(n, b, p)' <= Held(n, b, p)
  <2>1. CASE n = k
    BY <1>4, <2>1
  <2>2. CASE n # k
    <3>1. Held(n, b, p)' = Held(n, b, p) /\ Held(n, b, p) \in Nat
      BY <1>3, <2>2, HeldKept, LedgerTypes DEF Accounted, NatLedger
    <3> QED BY <3>1
  <2> QED BY <2>1, <2>2
<1> QED BY <1>1, <1>2, <1>5, LocalCounted

(***************************************************************************)
(* The steps that send a message.                                          *)
(***************************************************************************)
LEMMA RequestLinkCounted ==
  ASSUME Accounted, Typed', NEW k \in Nodes, request_link(k)
  PROVE  Counted'
<1>1. PICK a \in At(k) \ closed, q \in At(Peer(k)) :
        /\ Posted(k, Msg("link", a, q), Crossing(k, {a, q}))
        /\ asked' = [asked EXCEPT ![{a, q}] = @ + 1]
        /\ \A n \in Nodes \ {k} : job'[n] = job[n]
        /\ \A s, x, y : Busy(k, s, x, y) <=> s = "link" /\ x = a /\ y = q
        /\ \A s, x, y : Busy(k, s, x, y)' <=> s = "store" /\ x = a /\ y = q
  BY RequestLinkBusy DEF Accounted
<1>2. /\ Typed /\ asked \in [Links -> Nat] /\ "link" \in Ops
      /\ Peer(k) \in Nodes /\ Peer(k) # k /\ Peer(Peer(k)) = k
      /\ UNCHANGED <<lexed, links, reports>>
  BY PeerFacts DEF Accounted, Typed, Recorded, Ops, request_link
<1> DEFINE x == Msg("link", a, q)
           more == Crossing(k, {a, q})
<1>3. x \in To(Peer(k)) /\ {a, q} \in Links /\ Posted(k, x, more)
  BY <1>1, <1>2, MsgTyped
<1>5. NatLedger
  BY <1>2, LedgerTypes
<1> HIDE DEF x, more
<1>6. ASSUME NEW n \in Nodes, NEW b \in At(n), NEW p \in At(Peer(n))
      PROVE  MovedOn(n, b, p)
  <2> DEFINE e == {b, p}
  <2>1. /\ Reported(p, b) \in Nat /\ Exits(Peer(n), b, p) \in Nat
        /\ Asks(n, b, p) \in Nat /\ Held(n, b, p) \in Nat
        /\ asked[e] \in Nat
    BY <1>5 DEF NatLedger
  <2>2. Reported(p, b)' = Reported(p, b)
    BY <1>2 DEF Reported
  <2>3. Exits(Peer(n), b, p)' <= Exits(Peer(n), b, p) /\ Exits(Peer(n), b, p)' \in Nat
    <3>1. x # Msg("exit2", b, p)
      BY DEF x, Msg
    <3> QED BY <1>2, <1>3, <3>1, PostedTimes, PeerFacts DEF Exits
  <2>4. /\ e \in Links
        /\ asked'[e] = IF e = {a, q} THEN asked[e] + 1 ELSE asked[e]
    <3>1. e \in Links
      BY LinkFacts
    <3> HIDE DEF e
    <3> QED BY <1>1, <1>2, <1>3, <3>1
  <2>5. CASE n = k
    <3>1. Asks(n, b, p)' <= Asks(n, b, p) /\ Asks(n, b, p)' \in Nat
      BY <1>2, <1>3, <2>5, PostedTimes DEF Asks
    <3>2. ~Busy(k, "exits", b, p) /\ ~Busy(k, "store", b, p)
      BY <1>1
    <3>3. /\ ~Busy(k, "exits", b, p)'
          /\ Busy(k, "store", b, p)' => b = a /\ p = q
      BY <1>1
    <3>4. Held(n, b, p)' = Held(n, b, p)
          \/ (Held(n, b, p)' = Held(n, b, p) + 1 /\ e = {a, q})
      BY <1>2, <2>5, <3>2, <3>3 DEF Held, One
    <3>5. Held(n, b, p)' + asked[e] <= Held(n, b, p) + asked'[e]
          /\ Held(n, b, p)' \in Nat /\ asked'[e] \in Nat
      <4> HIDE DEF e
      <4> QED BY <2>1, <2>4, <3>4
    <3> QED BY <2>1, <2>2, <2>3, <3>1, <3>5 DEF MovedOn, Ledger
  <2>6. CASE n # k
    <3>1. Held(n, b, p)' = Held(n, b, p)
      BY <1>1, <1>2, <2>6, HeldKept
    <3>2. /\ Asks(n, b, p)' \in Nat
          /\ \/ Asks(n, b, p)' <= Asks(n, b, p)
             \/ Asks(n, b, p)' <= Asks(n, b, p) + 1 /\ x = Msg("link", p, b)
      BY <1>2, <1>3, PostedTimes DEF Asks
    <3>3. x = Msg("link", p, b) => e = {a, q}
      BY DEF x, Msg
    <3>4. Asks(n, b, p)' + asked[e] <= Asks(n, b, p) + asked'[e]
          /\ Asks(n, b, p)' \in Nat /\ asked'[e] \in Nat
      <4> HIDE DEF e
      <4> QED BY <2>1, <2>4, <3>2, <3>3
    <3> QED BY <2>1, <2>2, <2>3, <3>1, <3>4 DEF MovedOn, Ledger
  <2> QED BY <2>5, <2>6
<1> QED BY <1>6, CountedStep

LEMMA RequestUnlinkCounted ==
  ASSUME Accounted, Typed', NEW k \in Nodes, request_unlink(k)
  PROVE  Counted'
<1>1. Typed /\ Undertaken /\ "unlink" \in Ops
  BY DEF Accounted, Ops
<1>2. PICK a \in At(k), q \in At(Peer(k)) : Posted(k, Msg("unlink", a, q), {})
  BY <1>1 DEF request_unlink, Undertaken
<1>3. /\ job' = [job EXCEPT ![k] = Resting]
      /\ UNCHANGED <<lexed, links, reports, asked>>
  BY DEF request_unlink
<1>4. PICK x \in To(Peer(k)) : x = Msg("unlink", a, q) /\ Posted(k, x, {})
  BY <1>1, <1>2, MsgTyped
<1>5. /\ job'[k] = Resting /\ \A n \in Nodes \ {k} : job'[n] = job[n]
  BY <1>1, <1>3, JobBecomes
<1>6. NatLedger
  BY <1>1, LedgerTypes
<1>7. ASSUME NEW n \in Nodes, NEW b \in At(n), NEW p \in At(Peer(n))
      PROVE  MovedOn(n, b, p)
  <2>1. /\ Reported(p, b) \in Nat /\ Exits(Peer(n), b, p) \in Nat
        /\ Asks(n, b, p) \in Nat /\ Held(n, b, p) \in Nat
        /\ asked[{b, p}] \in Nat
    BY <1>6 DEF NatLedger
  <2>2. Reported(p, b)' = Reported(p, b)
    BY <1>3 DEF Reported
  <2>3. x # Msg("exit2", b, p) /\ x # Msg("link", p, b)
    BY <1>4 DEF Msg
  <2>4. Exits(Peer(n), b, p)' <= Exits(Peer(n), b, p) /\ Exits(Peer(n), b, p)' \in Nat
    BY <1>1, <1>3, <1>4, <2>3, PostedTimes, PeerFacts DEF Exits
  <2>5. Asks(n, b, p)' <= Asks(n, b, p) /\ Asks(n, b, p)' \in Nat
    BY <1>1, <1>3, <1>4, <2>3, PostedTimes DEF Asks
  <2>6. Held(n, b, p)' \in Nat /\ Held(n, b, p)' <= Held(n, b, p)
    <3>1. CASE n = k
      BY <1>3, <1>5, <3>1, RestingBusy DEF Held, One
    <3>2. CASE n # k
      BY <1>3, <1>5, <2>1, <3>2, HeldKept
    <3> QED BY <3>1, <3>2
  <2> QED BY <1>3, <2>1, <2>2, <2>4, <2>5, <2>6 DEF MovedOn, Ledger
<1> QED BY <1>7, CountedStep

LEMMA ExitCounted ==
  ASSUME Accounted, Typed', NEW k \in Nodes, request_exit2(k)
  PROVE  Counted'
<1>1. Typed /\ "exit2" \in Ops
  BY DEF Accounted, Ops
<1>2. PICK a \in At(k), q \in At(Peer(k)) :
        /\ job[k].box = {a} /\ q \in job[k].todo
        /\ Posted(k, Msg("exit2", a, q), {})
        /\ job' = [job EXCEPT ![k].todo = @ \ {q}]
  BY <1>1, ExitFacts
<1>3. /\ job[k].step = "exits" /\ job[k] \in Job
      /\ UNCHANGED <<lexed, links, reports, asked>>
  BY <1>1 DEF request_exit2, Typed, Working
<1>4. PICK x \in To(Peer(k)) : x = Msg("exit2", a, q) /\ Posted(k, x, {})
  BY <1>1, <1>2, MsgTyped
<1>5. /\ job'[k].step = "exits" /\ job'[k].box = {a}
      /\ job'[k].todo = job[k].todo \ {q}
      /\ \A n \in Nodes \ {k} : job'[n] = job[n]
  BY <1>1, <1>2, <1>3 DEF Typed, Working, Job
<1>6. NatLedger
  BY <1>1, LedgerTypes
<1>7. ASSUME NEW n \in Nodes, NEW b \in At(n), NEW p \in At(Peer(n))
      PROVE  MovedOn(n, b, p)
  <2>1. /\ Reported(p, b) \in Nat /\ Exits(Peer(n), b, p) \in Nat
        /\ Asks(n, b, p) \in Nat /\ Held(n, b, p) \in Nat
        /\ asked[{b, p}] \in Nat
    BY <1>6 DEF NatLedger
  <2>2. Reported(p, b)' = Reported(p, b)
    BY <1>3 DEF Reported
  <2>3. Asks(n, b, p)' <= Asks(n, b, p) /\ Asks(n, b, p)' \in Nat
    <3>1. x # Msg("link", p, b)
      BY <1>4 DEF Msg
    <3> QED BY <1>1, <1>3, <1>4, <3>1, PostedTimes DEF Asks
  <2>4. /\ Exits(Peer(n), b, p)' \in Nat
        /\ \/ Exits(Peer(n), b, p)' <= Exits(Peer(n), b, p)
           \/ /\ Exits(Peer(n), b, p)' <= Exits(Peer(n), b, p) + 1
              /\ n = k /\ b = a /\ p = q
    <3>1. x = Msg("exit2", b, p) => b = a /\ p = q
      BY <1>4 DEF Msg
    <3>2. Peer(n) = Peer(k) => n = k
      BY PeerFacts
    <3> QED BY <1>1, <1>3, <1>4, <3>1, <3>2, PostedTimes, PeerFacts DEF Exits
  <2>5. CASE n = k
    <3>1. \A s : Busy(k, s, b, p)' <=> Busy(k, s, b, p) /\ p # q
      BY <1>2, <1>3, <1>5 DEF Busy
    <3>2. b = a /\ p = q => Busy(k, "exits", b, p)
      BY <1>2, <1>3 DEF Busy
    <3>3. /\ Held(n, b, p)' \in Nat /\ Held(n, b, p)' <= Held(n, b, p)
          /\ b = a /\ p = q => Held(n, b, p)' + 1 <= Held(n, b, p)
      BY <1>3, <2>5, <3>1, <3>2 DEF Held, One
    <3> QED BY <1>3, <2>1, <2>2, <2>3, <2>4, <3>3 DEF MovedOn, Ledger
  <2>6. CASE n # k
    <3>1. Held(n, b, p)' = Held(n, b, p)
      BY <1>3, <1>5, <2>6, HeldKept
    <3> QED BY <1>3, <2>1, <2>2, <2>3, <2>4, <2>6, <3>1 DEF MovedOn, Ledger
  <2> QED BY <2>5, <2>6
<1> QED BY <1>7, CountedStep

LEMMA AppendGrown ==
  ASSUME NEW S, NEW s \in Seq(S), NEW y \in S
  PROVE  Append(s, y) \in Seq(S) /\ Grown(Append(s, y), s, y)
BY AppendProperties DEF Grown

(***************************************************************************)
(* A report is added for an exit handled at the node of a living mailbox.  *)
(***************************************************************************)
LEMMA ReportedFacts ==
  ASSUME Typed, NEW k \in Nodes, NEW x \in To(k),
         incoming_link(k, x) \/ incoming_unlink(k, x) \/ incoming_exit2(k, x),
         NEW p \in Boxes, NEW b \in Boxes
  PROVE  /\ Reported(p, b) \in Nat
         /\ \/ Reported(p, b)' = Reported(p, b)
            \/ /\ Reported(p, b)' = Reported(p, b) + 1
               /\ x.op = "exit2" /\ x.to = p /\ x.from = b
<1>1. /\ reports \in [Boxes -> Seq(Boxes)] /\ reports[p] \in Seq(Boxes)
      /\ x.to \in Boxes /\ x.from \in Boxes
  BY DEF Typed, Recorded, To, At
<1>2. Reported(p, b) \in Nat
  BY <1>1, TimesFacts DEF Reported
<1>3. \/ reports'[p] = reports[p]
      \/ /\ reports'[p] = Append(reports[p], x.from)
         /\ x.op = "exit2" /\ x.to = p
  BY <1>1 DEF incoming_link, incoming_unlink, incoming_exit2
<1>4. CASE reports'[p] = reports[p]
  BY <1>2, <1>4 DEF Reported
<1>5. CASE /\ reports'[p] = Append(reports[p], x.from)
           /\ x.op = "exit2" /\ x.to = p
  <2>1. PICK s \in Seq(Boxes) : s = reports'[p] /\ Grown(s, reports[p], x.from)
    BY <1>1, <1>5, AppendGrown
  <2>2. Times(s, b) = Times(reports[p], b) + One(x.from = b)
    BY <1>1, <2>1, TimesGrown
  <2>3. Reported(p, b)' = Reported(p, b) + One(x.from = b)
    BY <2>1, <2>2 DEF Reported
  <2> QED BY <1>2, <1>5, <2>3 DEF One
<1> QED BY <1>2, <1>3, <1>4, <1>5

LEMMA ReceivedCounted ==
  ASSUME Accounted, Typed', NEW k \in Nodes, NEW c \in Conns,
         NEW j \in 1..Len(wire[c][k]), msg_received(k, c, j)
  PROVE  Counted'
<1>0. PICK m \in Nodes : m = Peer(k)
  BY PeerFacts
<1>1. Typed /\ links \in [Nodes -> SUBSET Links]
  BY DEF Accounted, Typed, Recorded
<1>2. /\ Stream(c, k)' \in Seq(To(k))
      /\ \A d \in Conns, n \in Nodes :
           d # c \/ n # k => Stream(d, n)' = Stream(d, n)
  BY <1>1, ReadStream
<1>3. PICK x \in To(k) :
        /\ Shrunk(Stream(c, k)', Stream(c, k), x)
        /\ incoming_link(k, x) \/ incoming_unlink(k, x) \/ incoming_exit2(k, x)
  BY <1>1, ReadStream
<1>4. UNCHANGED <<job, asked>>
  BY DEF msg_received
<1>5. m \in Nodes /\ m # k /\ Peer(m) = k
  BY <1>0, PeerFacts
<1>a. \A y : Counts(m, y)' = Counts(m, y)
  BY <1>2, <1>5 DEF Counts, Streams
<1>6. \A y : /\ Counts(k, y)' + One(x = y) <= Counts(k, y)
             /\ Counts(k, y)' \in Nat /\ Counts(k, y) \in Nat
  <2> DEFINE f == Streams(k)
             g == Streams(k)'
  <2>1. /\ f \in [Conns -> Seq(To(k))] /\ g \in [Conns -> Seq(To(k))]
        /\ \A y : Counts(k, y)' \in Nat /\ Counts(k, y) \in Nat
    BY <1>1, StreamsFacts, StreamsFactsNext
  <2>2. Shrunk(g[c], f[c], x) /\ \A d \in Conns \ {c} : g[d] = f[d]
    BY <1>2, <1>3 DEF Streams
  <2>3. \A y : Counts(k, y) = Total(f, y) /\ Counts(k, y)' = Total(g, y)
    BY DEF Counts
  <2> HIDE DEF f, g
  <2>4. \A y : Total(g, y) + One(x = y) <= Total(f, y)
    BY <2>1, <2>2, AllShrunk
  <2> QED BY <2>1, <2>3, <2>4
<1>7. \A y, z : x.from = y /\ x.to = z => x = Msg(x.op, y, z)
  BY DEF To, Msg
<1>8. /\ links'[m] = links[m]
      /\ \A e \in links'[k] : e \in links[k] \/ (x.op = "link" /\ e = Link(x))
  BY <1>1, <1>3, <1>5 DEF incoming_link, incoming_unlink, incoming_exit2
<1>9. NatLedger
  BY <1>1, LedgerTypes
<1>10. ASSUME NEW b \in At(k), NEW p \in At(m) PROVE MovedOn(k, b, p)
  <2>1. /\ Reported(p, b) \in Nat /\ Exits(m, b, p) \in Nat
        /\ Asks(k, b, p) \in Nat /\ Held(k, b, p) \in Nat
        /\ asked[{b, p}] \in Nat
    BY <1>0, <1>9 DEF NatLedger
  <2>2. b \in Boxes /\ p \in Boxes /\ x.to \in At(k) /\ x.from \in At(m)
    BY <1>0 DEF At, To
  <2>3. x.to # p /\ x.from # b
    BY <1>5, <2>2 DEF At
  <2>4. Reported(p, b)' = Reported(p, b)
    BY <1>1, <1>3, <2>2, <2>3, ReportedFacts
  <2>5. Exits(m, b, p)' = Exits(m, b, p)
    BY <1>a DEF Exits
  <2>6. /\ Asks(k, b, p)' + One(x = Msg("link", p, b)) <= Asks(k, b, p)
        /\ Asks(k, b, p)' \in Nat
    BY <1>6 DEF Asks
  <2>7. {b, p} \in links'[k] => {b, p} \in links[k] \/ x = Msg("link", p, b)
    <3> SUFFICES ASSUME x.op = "link", {b, p} = Link(x)
                 PROVE  x = Msg("link", p, b)
      BY <1>8
    <3>1. x.from = p /\ x.to = b
      BY <2>3 DEF Link
    <3> QED BY <1>7, <3>1
  <2>8. /\ Held(k, b, p)' <= Held(k, b, p) + One(x = Msg("link", p, b))
        /\ Held(k, b, p)' \in Nat /\ One(x = Msg("link", p, b)) \in Nat
    <3> DEFINE old == {b, p} \in links[k]
               new == {b, p} \in links'[k]
               req == x = Msg("link", p, b)
    <3>1. new => old \/ req
      BY <2>7
    <3>2. \A s : Busy(k, s, b, p)' <=> Busy(k, s, b, p)
      BY <1>4 DEF Busy
    <3>3. /\ Held(k, b, p) = One(Busy(k, "exits", b, p)) + One(old)
                               + One(Busy(k, "store", b, p))
          /\ Held(k, b, p)' = One(Busy(k, "exits", b, p)') + One(new)
                               + One(Busy(k, "store", b, p)')
      BY DEF Held
    <3> HIDE DEF old, new, req
    <3>4. /\ Held(k, b, p)' <= Held(k, b, p) + One(req)
          /\ Held(k, b, p)' \in Nat /\ One(req) \in Nat
      BY <3>1, <3>2, <3>3 DEF One
    <3> QED BY <3>4 DEF req
  <2> DEFINE r == Reported(p, b)    r1 == Reported(p, b)'
             e == Exits(m, b, p)    e1 == Exits(m, b, p)'
             a == Asks(k, b, p)     a1 == Asks(k, b, p)'
             h == Held(k, b, p)     h1 == Held(k, b, p)'
             o == One(x = Msg("link", p, b))
  <2>9. /\ r \in Nat /\ e \in Nat /\ a \in Nat /\ h \in Nat /\ o \in Nat
        /\ a1 \in Nat /\ h1 \in Nat /\ h1 <= h + o /\ a1 + o <= a
    BY <2>1, <2>6, <2>8
  <2>10. /\ r1 = r /\ e1 = e
         /\ Ledger(k, b, p) = r + e + a + h
         /\ Ledger(k, b, p)' = r1 + e1 + a1 + h1
    BY <1>0, <2>4, <2>5 DEF Ledger
  <2>11. asked' = asked
    BY <1>4
  <2> HIDE DEF r, e, a, h, r1, e1, a1, h1, o
  <2>12. /\ r + e + a1 + h1 <= r + e + a + h
         /\ r + e + a1 + h1 \in Nat /\ r + e + a + h \in Nat
    BY ONLY <2>9
  <2>13. /\ Ledger(k, b, p)' <= Ledger(k, b, p)
         /\ Ledger(k, b, p) \in Nat /\ Ledger(k, b, p)' \in Nat
    BY ONLY <2>10, <2>12
  <2> QED BY <2>1, <2>11, <2>13 DEF MovedOn
<1>11. ASSUME NEW b \in At(m), NEW p \in At(k) PROVE MovedOn(m, b, p)
  <2>1. /\ Reported(p, b) \in Nat /\ Exits(k, b, p) \in Nat
        /\ Asks(m, b, p) \in Nat /\ Held(m, b, p) \in Nat
        /\ asked[{b, p}] \in Nat
    BY <1>5, <1>9 DEF NatLedger
  <2>2. b \in Boxes /\ p \in Boxes
    BY DEF At
  <2>3. /\ Reported(p, b)' <= Reported(p, b) + One(x = Msg("exit2", b, p))
        /\ Reported(p, b)' \in Nat /\ One(x = Msg("exit2", b, p)) \in Nat
    <3>1. x.op = "exit2" /\ x.to = p /\ x.from = b => x = Msg("exit2", b, p)
      BY <1>7
    <3>2. \/ Reported(p, b)' = Reported(p, b)
          \/ Reported(p, b)' = Reported(p, b) + 1 /\ x = Msg("exit2", b, p)
      BY <1>1, <1>3, <2>2, <3>1, ReportedFacts
    <3> QED BY <2>1, <3>2 DEF One
  <2>4. /\ Exits(k, b, p)' + One(x = Msg("exit2", b, p)) <= Exits(k, b, p)
        /\ Exits(k, b, p)' \in Nat
    BY <1>6 DEF Exits
  <2>5. Asks(m, b, p)' = Asks(m, b, p)
    BY <1>a DEF Asks
  <2>6. Held(m, b, p)' = Held(m, b, p)
    BY <1>4, <1>8, HeldKept
  <2>7. asked' = asked
    BY <1>4
  <2> DEFINE r == Reported(p, b)    r1 == Reported(p, b)'
             e == Exits(k, b, p)    e1 == Exits(k, b, p)'
             a == Asks(m, b, p)     a1 == Asks(m, b, p)'
             h == Held(m, b, p)     h1 == Held(m, b, p)'
             o == One(x = Msg("exit2", b, p))
  <2>8. /\ r \in Nat /\ e \in Nat /\ a \in Nat /\ h \in Nat /\ o \in Nat
        /\ r1 \in Nat /\ e1 \in Nat /\ r1 <= r + o /\ e1 + o <= e
    BY <2>1, <2>3, <2>4
  <2>9. /\ a1 = a /\ h1 = h
        /\ Ledger(m, b, p) = r + e + a + h
        /\ Ledger(m, b, p)' = r1 + e1 + a1 + h1
    BY <1>5, <2>5, <2>6 DEF Ledger
  <2> HIDE DEF r, e, a, h, r1, e1, a1, h1, o
  <2>10. /\ r1 + e1 + a + h <= r + e + a + h
         /\ r1 + e1 + a + h \in Nat /\ r + e + a + h \in Nat
    BY ONLY <2>8
  <2>11. /\ Ledger(m, b, p)' <= Ledger(m, b, p)
         /\ Ledger(m, b, p) \in Nat /\ Ledger(m, b, p)' \in Nat
    BY ONLY <2>9, <2>10
  <2> QED BY <2>1, <2>7, <2>11 DEF MovedOn
<1>12. \A n \in Nodes : \A b \in At(n), p \in At(Peer(n)) : MovedOn(n, b, p)
  BY <1>0, <1>5, <1>10, <1>11, PeerFacts
<1> QED BY <1>12, CountedStep

LEMMA CountedNext ==
  ASSUME Accounted, Typed', [Next]_vars
  PROVE  Counted'
<1>1. ASSUME \/ UNCHANGED vars
             \/ \E n \in Nodes : get_connection_to(n)
             \/ \E n \in Nodes, c \in Conns :
                  drop_connection_to(n, c) \/ handshake_success_as_B(n, c)
             \/ \E n \in Nodes, c \in Conns :
                  \E k \in 0..Len(wire[c][n]) : handshake_success(n, c, k)
             \/ \E c \in Conns : connection_breaks(c)
      PROVE  Counted'
  BY <1>1, ConnectionCounted
<1>2. ASSUME NEW n \in Nodes, NEW b, NEW p,
             \/ link(n, b, p) \/ store_link(n) \/ unlink(n, b, p)
             \/ close_links_for_local(n, b) \/ throws(n) \/ remove(n)
             \/ unlink_exited(n)
      PROVE  Counted'
  BY <1>2, QuietJobCounted
<1>3. ASSUME NEW n \in Nodes, request_link(n) PROVE Counted'
  BY <1>3, RequestLinkCounted
<1>4. ASSUME NEW n \in Nodes, request_unlink(n) PROVE Counted'
  BY <1>4, RequestUnlinkCounted
<1>5. ASSUME NEW n \in Nodes, request_exit2(n) PROVE Counted'
  BY <1>5, ExitCounted
<1>6. ASSUME NEW n \in Nodes, NEW c \in Conns, NEW k \in 1..Len(wire[c][n]),
             msg_received(n, c, k)
      PROVE  Counted'
  BY <1>6, ReceivedCounted
<1> QED BY <1>1, <1>2, <1>3, <1>4, <1>5, <1>6 DEF Next

LEMMA CountedInitially == Init => Counted
<1> SUFFICES ASSUME Init, NEW n \in Nodes, NEW b \in At(n), NEW p \in At(Peer(n))
             PROVE  Ledger(n, b, p) <= asked[{b, p}]
  BY DEF Counted
<1>1. /\ links[n] = {} /\ job[n] = Resting /\ reports[p] = <<>>
      /\ asked[{b, p}] = 0
  BY LinkFacts DEF Init
<1>2. ASSUME NEW j \in Nodes, NEW x PROVE Counts(j, x) = 0
  <2>1. \A c \in Conns : Stream(c, j) = <<>>
    BY DEF Init, Stream
  <2>2. Spots(Streams(j), x) = {}
    BY <2>1 DEF Spots, Places, Streams
  <2> QED BY <2>2, FS_EmptySet DEF Counts, Total
<1>3. Reported(p, b) = 0 /\ Exits(Peer(n), b, p) = 0 /\ Asks(n, b, p) = 0
  BY <1>1, <1>2, TimesEmpty, PeerFacts DEF Reported, Exits, Asks
<1>4. Held(n, b, p) = 0
  BY <1>1 DEF Held, One, Busy, Resting
<1> QED BY <1>1, <1>3, <1>4 DEF Ledger

LEMMA AccountedAlways == Spec => []Accounted
<1>1. Init => Counted
  BY CountedInitially
<1>2. Typed /\ Undertaken /\ Counted /\ Typed' /\ [Next]_vars => Counted'
  BY CountedNext DEF Accounted
<1>3. Typed /\ Undertaken /\ Counted <=> Accounted
  BY DEF Accounted
<1> QED BY <1>1, <1>2, <1>3, UndertakenAlways, PTL DEF Spec

LEMMA AccountedReports == Accounted => ReportedPerLink
<1> SUFFICES ASSUME Accounted, NEW b \in Boxes, NEW p \in At(Peer(node_of[b]))
             PROVE  Count(reports[p], LAMBDA x : x = b) + One(ExitUnderWay(p, b))
                      + One({b, p} \in links[node_of[b]]) <= asked[{b, p}]
  BY DEF ReportedPerLink
<1> DEFINE n == node_of[b]
           m == Peer(n)
<1>1. /\ n \in Nodes /\ b \in At(n) /\ m \in Nodes /\ Peer(m) = n
      /\ p \in At(m) /\ node_of[p] = m
  BY RemoteAssumption, PeerFacts DEF At
<1>2. Ledger(n, b, p) <= asked[{b, p}]
  BY <1>1 DEF Accounted, Counted
<1>3. /\ Reported(p, b) \in Nat /\ Exits(m, b, p) \in Nat
      /\ Asks(n, b, p) \in Nat /\ asked[{b, p}] \in Nat
      /\ Held(n, b, p) \in Nat
  BY <1>1, LedgerTypes DEF Accounted, NatLedger
<1>4. Count(reports[p], LAMBDA x : x = b) = Reported(p, b)
  BY DEF Count, Reported, Times, Places
<1>5. ExitUnderWay(p, b) => Exits(m, b, p) >= 1 \/ Busy(n, "exits", b, p)
  <2> SUFFICES ASSUME ExitUnderWay(p, b), ~Busy(n, "exits", b, p)
               PROVE  Exits(m, b, p) >= 1
    OBVIOUS
  <2>1. PICK c \in Conns : \E i \in DOMAIN (wire[c][m] \o lexed[c][m]) :
          (wire[c][m] \o lexed[c][m])[i] = Msg("exit2", b, p)
    BY <1>1 DEF ExitUnderWay, Busy
  <2>2. Msg("exit2", b, p) \in Range(Stream(c, m))
    <3>1. \E i \in DOMAIN (wire[c][m] \o lexed[c][m]) :
            (wire[c][m] \o lexed[c][m])[i] = Msg("exit2", b, p)
      BY <2>1
    <3>2. Msg("exit2", b, p) \in Range(wire[c][m] \o lexed[c][m])
      BY <3>1 DEF Range
    <3>3. wire[c][m] \in Seq(To(m)) /\ lexed[c][m] \in Seq(To(m))
      BY <1>1 DEF Accounted, Typed, Addressed
    <3>4. Range(wire[c][m] \o lexed[c][m]) = InTransit(c, m)
      BY <3>3, ConcatRange DEF InTransit
    <3>5. Range(Stream(c, m)) = InTransit(c, m)
      BY <1>1, StreamFacts DEF Accounted
    <3> QED BY <3>2, <3>4, <3>5
  <2> DEFINE f == Streams(m)
             x == Msg("exit2", b, p)
  <2>3. f \in [Conns -> Seq(To(m))] /\ x \in Range(f[c]) /\ Exits(m, b, p) = Total(f, x)
    BY <1>1, <2>2, StreamsFacts DEF Accounted, Streams, Exits, Counts
  <2> HIDE DEF f, x
  <2> QED BY <2>3, SpotsFacts
<1> HIDE DEF n, m
<1>6. Reported(p, b) + One(ExitUnderWay(p, b)) + One({b, p} \in links[n])
        <= Ledger(n, b, p)
  <2> DEFINE e == One({b, p} \in links[n])
             s == One(Busy(n, "store", b, p))
             h == One(Busy(n, "exits", b, p))
             u == One(ExitUnderWay(p, b))
             r == Reported(p, b)
             x == Exits(m, b, p)
             q == Asks(n, b, p)
  <2>1. e \in Nat /\ s \in Nat /\ h \in Nat /\ u \in Nat
    BY DEF One
  <2>2. u <= x + h
    BY <1>3, <1>5 DEF One
  <2>3. Ledger(n, b, p) = r + x + q + (h + e + s)
    BY DEF Ledger, Held, m
  <2>4. r \in Nat /\ x \in Nat /\ q \in Nat
    BY <1>3
  <2> HIDE DEF e, s, h, u, r, x, q
  <2>5. r + u + e <= Ledger(n, b, p)
    BY <2>1, <2>2, <2>3, <2>4
  <2> QED BY <2>5 DEF e, u, r
<1>7. Ledger(n, b, p) \in Nat
  BY <1>3 DEF Ledger, m
<1> QED BY <1>2, <1>3, <1>4, <1>6, <1>7 DEF n, One

(***************************************************************************)
(* The end of a link is reported at most once to each of its ends for each *)
(* time the link was asked for: every request is in one place at a time,   *)
(* and only a client's link adds one.                                      *)
(***************************************************************************)
THEOREM ReportedOncePerLink == Spec => []ReportedPerLink
BY AccountedAlways, AccountedReports, PTL
=============================================================================
