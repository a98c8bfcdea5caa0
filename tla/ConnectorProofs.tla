--------------------------- MODULE ConnectorProofs ----------------------------
(***************************************************************************)
(* Proofs about Connector, for any number of clients, peers and            *)
(* connections.  Each invariant is proved from an inductive one that says  *)
(* where the connections in the map and in the clients' calls stand.       *)
(***************************************************************************)
EXTENDS Connector, SequenceTheorems, FiniteSetTheorems, TLAPS

Conn == [peer : Peers, side : {"A", "B"}, status : Statuses]

-----------------------------------------------------------------------------
(***************************************************************************)
(* What the two ways to change the list of connections do to it.           *)
(***************************************************************************)
LEMMA NewFacts ==
  ASSUME TypeOK, NEW p \in Peers, NEW s \in {"A", "B"}, New(p, s)
  PROVE  /\ conns' \in Seq(Conn)
         /\ Len(conns') = Len(conns) + 1
         /\ Len(conns') <= MaxConns
         /\ NewConn \in Conns
         /\ DOMAIN conns' = DOMAIN conns \cup {NewConn}
         /\ NewConn \notin DOMAIN conns
         /\ \A k \in DOMAIN conns : conns'[k] = conns[k]
         /\ conns'[NewConn].peer = p
         /\ conns'[NewConn].side = s
         /\ conns'[NewConn].status = "handshaking"
<1> DEFINE x == [peer |-> p, side |-> s, status |-> "handshaking"]
<1>1. x \in Conn
  BY DEF Conn, Statuses
<1>2. conns \in Seq(Conn) /\ Len(conns) \in Nat
  BY LenProperties DEF TypeOK, Conn
<1>3. conns' = Append(conns, x) /\ Len(conns) < MaxConns
  BY DEF New
<1> HIDE DEF x
<1>4. /\ conns' \in Seq(Conn)
      /\ Len(conns') = Len(conns) + 1
      /\ \A i \in 1..Len(conns) : conns'[i] = conns[i]
      /\ conns'[Len(conns) + 1] = x
  BY <1>1, <1>2, <1>3, AppendProperties
<1>5. DOMAIN conns = 1..Len(conns) /\ DOMAIN conns' = 1..(Len(conns) + 1)
  BY <1>2, <1>4, LenProperties
<1>6. MaxConns \in Nat
  BY MaxConnsAssumption
<1>7. conns'[NewConn] = x
  BY <1>4 DEF NewConn
<1> QED BY <1>2, <1>3, <1>4, <1>5, <1>6, <1>7 DEF NewConn, Conns, x

LEMMA StatusFacts ==
  ASSUME TypeOK, NEW k \in DOMAIN conns, NEW st \in Statuses, SetStatus(k, st)
  PROVE  /\ conns' \in Seq(Conn)
         /\ Len(conns') = Len(conns)
         /\ DOMAIN conns' = DOMAIN conns
         /\ \A j \in DOMAIN conns :
              /\ conns'[j].peer = conns[j].peer
              /\ conns'[j].side = conns[j].side
              /\ conns'[j].status = IF j = k THEN st ELSE conns[j].status
<1>1. conns \in Seq(Conn)
  BY DEF TypeOK, Conn
<1>2. /\ Len(conns) \in Nat
      /\ DOMAIN conns = 1..Len(conns)
      /\ \A j \in DOMAIN conns : conns[j] \in Conn
  BY <1>1, LenProperties, ElementOfSeq
<1> DEFINE x == [conns[k] EXCEPT !.status = st]
<1>3. /\ x \in Conn
      /\ x.peer = conns[k].peer /\ x.side = conns[k].side /\ x.status = st
  BY <1>2 DEF Conn
<1>4. conns' = [conns EXCEPT ![k] = x]
  BY DEF SetStatus
<1> HIDE DEF x
<1>5. /\ conns' \in Seq(Conn)
      /\ Len(conns') = Len(conns)
      /\ \A j \in 1..Len(conns) : conns'[j] = IF j = k THEN x ELSE conns[j]
  BY <1>1, <1>2, <1>3, <1>4, ExceptSeq
<1>6. DOMAIN conns' = DOMAIN conns
  BY <1>2, <1>5, LenProperties
<1> QED BY <1>2, <1>3, <1>5, <1>6

(***************************************************************************)
(* Every connection of the list is one, and has a number.                  *)
(***************************************************************************)
LEMMA ConnFacts ==
  ASSUME TypeOK
  PROVE  /\ DOMAIN conns \subseteq Conns
         /\ NoConn \notin DOMAIN conns
         /\ \A k \in DOMAIN conns : /\ conns[k].peer \in Peers
                                    /\ conns[k].side \in {"A", "B"}
                                    /\ conns[k].status \in Statuses
<1>1. conns \in Seq(Conn) /\ Len(conns) <= MaxConns
  BY DEF TypeOK, Conn
<1>2. /\ Len(conns) \in Nat
      /\ DOMAIN conns = 1..Len(conns)
      /\ \A j \in DOMAIN conns : conns[j] \in Conn
  BY <1>1, LenProperties, ElementOfSeq
<1> QED BY <1>1, <1>2, MaxConnsAssumption DEF Conn, Conns, NoConn

-----------------------------------------------------------------------------
(***************************************************************************)
(* The map holds connections that exist, under the names of their peers,   *)
(* and the I/O thread recovers from the error of one that does; a          *)
(* client in a call has a connection that this node made, one whose call   *)
(* returned has a connection, and one outside of calls has none.           *)
(***************************************************************************)
Bound ==
  /\ \A p \in Peers :
       LET k == node_connections[p] IN
         k # NoConn => k \in DOMAIN conns /\ conns[k].peer = p
  /\ recovering # NoConn => recovering \in DOMAIN conns
  /\ \A c \in Clients :
       /\ connection[c] # NoConn => connection[c] \in DOMAIN conns
       /\ InCall(c) => connection[c] # NoConn /\ conns[connection[c]].side = "A"
       /\ pc[c] = "idle" => connection[c] = NoConn
       /\ pc[c] = "returned" => connection[c] # NoConn

Typed == TypeOK /\ Bound

(***************************************************************************)
(* The waiting part of a call, where the connection k to the peer p exists *)
(* after the step: what becomes of the map, the slot and the client.       *)
(***************************************************************************)
LEMMA WaitFacts ==
  ASSUME TypeOK, NEW c \in Clients, NEW p \in Peers, NEW k \in Conns,
         wait_for_handshake_result(c, p, k)
  PROVE  /\ node_connections' \in [Peers -> Conns \cup {NoConn}]
         /\ handshake_done' \in {"none", "success", "failure"}
         /\ pc' \in [Clients -> PC]
         /\ \A q \in Peers : \/ node_connections'[q] = node_connections[q]
                             \/ /\ q = p /\ node_connections'[q] = k
                                /\ handshake_done = "success"
         /\ \A d \in Clients \ {c} : pc'[d] = pc[d]
         /\ handshake_done' = "none"
         /\ handshake_done = "none" => pc'[c] = "waiting"
         /\ handshake_done = "success" => pc'[c] = "returned"
         /\ handshake_done = "failure" => pc'[c] = "thrown"
BY DEF TypeOK, wait_for_handshake_result, take_outcome, insert, PC

LEMMA TypedStep ==
  ASSUME Typed, [Next]_vars
  PROVE  Typed'
<1>1. TypeOK /\ Bound
  BY DEF Typed
<1>2. /\ DOMAIN conns \subseteq Conns
      /\ NoConn \notin DOMAIN conns
      /\ \A k \in DOMAIN conns : /\ conns[k].peer \in Peers
                                 /\ conns[k].side \in {"A", "B"}
                                 /\ conns[k].status \in Statuses
  BY <1>1, ConnFacts
<1>3. \A c \in Clients : pc[c] \in PC
  BY <1>1 DEF TypeOK
<1> USE DEF Typed, accepting
<1>4. ASSUME NEW c \in Clients, NEW p \in Peers, get_existing_connection(c, p)
      PROVE  Typed'
  BY <1>1, <1>2, <1>4
     DEF get_existing_connection, TypeOK, Bound, InCall, PC
<1>5. ASSUME NEW c \in Clients, NEW p \in Peers,
             request_node_connection_throws(c, p)
      PROVE  Typed'
  BY <1>1, <1>2, <1>5
     DEF request_node_connection_throws, TypeOK, Bound, InCall, PC
<1>6. ASSUME NEW c \in Clients, NEW p \in Peers, make_new_connection(c, p)
      PROVE  Typed'
  <2>1. /\ New(p, "A") /\ wait_for_handshake_result(c, p, NewConn)
        /\ connection' = [connection EXCEPT ![c] = NewConn]
        /\ overlapped' \in BOOLEAN
        /\ UNCHANGED <<owed, accepts, aborted, starts, recovering>>
    BY <1>1, <1>6 DEF make_new_connection, TypeOK
  <2>2. /\ conns' \in Seq(Conn)
        /\ Len(conns') <= MaxConns
        /\ NewConn \in Conns
        /\ DOMAIN conns' = DOMAIN conns \cup {NewConn}
        /\ NewConn \notin DOMAIN conns
        /\ \A k \in DOMAIN conns : conns'[k] = conns[k]
        /\ conns'[NewConn].peer = p
        /\ conns'[NewConn].side = "A"
    BY <1>1, <2>1, NewFacts
  <2>3. /\ node_connections' \in [Peers -> Conns \cup {NoConn}]
        /\ handshake_done' \in {"none", "success", "failure"}
        /\ pc' \in [Clients -> PC]
        /\ \A q \in Peers : \/ node_connections'[q] = node_connections[q]
                            \/ q = p /\ node_connections'[q] = NewConn
        /\ \A d \in Clients \ {c} : pc'[d] = pc[d]
        /\ pc'[c] \in {"waiting", "returned", "thrown"}
    <3>1. handshake_done \in {"none", "success", "failure"}
      BY <1>1 DEF TypeOK
    <3> QED BY <1>1, <2>1, <2>2, <3>1, WaitFacts
  <2>4. TypeOK'
    BY <1>1, <2>1, <2>2, <2>3 DEF TypeOK, Conn
  <2>5. NewConn # NoConn
    BY <2>2 DEF Conns, NoConn
  <2>6. connection'[c] = NewConn /\ \A d \in Clients \ {c} : connection'[d] = connection[d]
    BY <1>1, <2>1 DEF TypeOK
  <2>7. Bound'
    BY <1>1, <2>1, <2>2, <2>3, <2>5, <2>6 DEF Bound, InCall
  <2> QED BY <2>4, <2>7
<1>7. ASSUME NEW c \in Clients, wake_up(c)
      PROVE  Typed'
  <2> DEFINE k == connection[c]
             p == conns[k].peer
  <2>1. /\ wait_for_handshake_result(c, p, k)
        /\ conns' = conns /\ connection' = connection
        /\ UNCHANGED <<owed, accepts, aborted, starts, recovering, overlapped>>
    BY <1>7 DEF wake_up
  <2>2. k \in DOMAIN conns /\ k \in Conns /\ p \in Peers
    BY <1>1, <1>2, <1>7 DEF wake_up, Bound, InCall
  <2>3. /\ node_connections' \in [Peers -> Conns \cup {NoConn}]
        /\ handshake_done' \in {"none", "success", "failure"}
        /\ pc' \in [Clients -> PC]
        /\ \A q \in Peers : \/ node_connections'[q] = node_connections[q]
                            \/ q = p /\ node_connections'[q] = k
        /\ \A d \in Clients \ {c} : pc'[d] = pc[d]
        /\ pc'[c] \in {"waiting", "returned", "thrown"}
    <3> HIDE DEF k, p
    <3>1. handshake_done \in {"none", "success", "failure"}
      BY <1>1 DEF TypeOK
    <3> QED BY <1>1, <2>1, <2>2, <3>1, WaitFacts
  <2>4. TypeOK'
    BY <1>1, <2>1, <2>3 DEF TypeOK
  <2>5. Bound'
    BY <1>1, <1>7, <2>1, <2>2, <2>3 DEF Bound, InCall, wake_up
  <2> QED BY <2>4, <2>5
<1>8. ASSUME NEW c \in Clients, spurious_wakeup(c)
      PROVE  Typed'
  BY <1>1, <1>8 DEF spurious_wakeup, TypeOK, Bound, InCall, PC
<1>9. ASSUME NEW c \in Clients, call_ends(c)
      PROVE  Typed'
  BY <1>1, <1>9 DEF call_ends, TypeOK, Bound, InCall, PC
<1>10. ASSUME NEW k \in DOMAIN conns, NEW st \in Statuses, SetStatus(k, st)
       PROVE  /\ conns' \in Seq(Conn)
              /\ Len(conns') <= MaxConns
              /\ DOMAIN conns' = DOMAIN conns
              /\ \A j \in DOMAIN conns : /\ conns'[j].peer = conns[j].peer
                                         /\ conns'[j].side = conns[j].side
  BY <1>1, <1>10, StatusFacts DEF TypeOK
<1>11. ASSUME NEW k \in DOMAIN conns, NEW r \in Results, handshake_success(k, r)
       PROVE  Typed'
  <2>1. SetStatus(k, r) /\ r \in Statuses
    BY <1>11 DEF handshake_success, Ends, Results, Statuses
  <2>2. /\ conns' \in Seq(Conn)
        /\ Len(conns') <= MaxConns
        /\ DOMAIN conns' = DOMAIN conns
        /\ \A j \in DOMAIN conns : /\ conns'[j].peer = conns[j].peer
                                   /\ conns'[j].side = conns[j].side
    BY <1>10, <2>1
  <2>3. TypeOK'
    BY <1>1, <1>11, <2>2 DEF TypeOK, Conn, handshake_success, Outcome, clients
  <2>4. Bound'
    BY <1>1, <1>11, <2>2 DEF Bound, InCall, handshake_success, clients
  <2> QED BY <2>3, <2>4
<1>12. CASE notify_one
  BY <1>1, <1>12 DEF notify_one, TypeOK, Bound, InCall, PC
<1>13. ASSUME NEW p \in Callers, handle_accept(p)
       PROVE  Typed'
  <2>1. /\ New(p, "B") /\ p \in Peers
        /\ accepts' = accepts - 1 /\ accepts > 0
        /\ UNCHANGED <<node_connections, handshake_done, owed, aborted, starts,
                       recovering, clients, overlapped>>
    BY <1>13, CallersAssumption DEF handle_accept
  <2>2. /\ conns' \in Seq(Conn)
        /\ Len(conns') <= MaxConns
        /\ DOMAIN conns' = DOMAIN conns \cup {NewConn}
        /\ \A k \in DOMAIN conns : conns'[k] = conns[k]
    BY <1>1, <2>1, NewFacts
  <2>3. TypeOK'
    BY <1>1, <2>1, <2>2 DEF TypeOK, Conn, clients
  <2>4. Bound'
    BY <1>1, <2>1, <2>2 DEF Bound, InCall, clients
  <2> QED BY <2>3, <2>4
<1>14. ASSUME NEW k \in DOMAIN conns, NEW r \in Results,
              handshake_success_as_B(k, r)
       PROVE  Typed'
  <2>1. SetStatus(k, r) /\ r \in Statuses
    BY <1>14 DEF handshake_success_as_B, Ends, Results, Statuses
  <2>2. /\ conns' \in Seq(Conn)
        /\ Len(conns') <= MaxConns
        /\ DOMAIN conns' = DOMAIN conns
        /\ \A j \in DOMAIN conns : /\ conns'[j].peer = conns[j].peer
                                   /\ conns'[j].side = conns[j].side
    BY <1>10, <2>1
  <2>3. /\ node_connections' \in [Peers -> Conns \cup {NoConn}]
        /\ \A q \in Peers : \/ node_connections'[q] = node_connections[q]
                            \/ q = conns[k].peer /\ node_connections'[q] = k
    BY <1>1, <1>2, <1>14 DEF handshake_success_as_B, insert, TypeOK
  <2>4. TypeOK'
    BY <1>1, <1>14, <2>2, <2>3 DEF TypeOK, Conn, handshake_success_as_B, clients
  <2>5. Bound'
    BY <1>1, <1>14, <2>2, <2>3 DEF Bound, InCall, handshake_success_as_B, clients
  <2> QED BY <2>4, <2>5
<1>a. ASSUME NEW n \in 0..accepts, start_accept_incoming(n)
      PROVE  Typed'
  <2>1. /\ accepts' \in Nat /\ aborted' \in Nat /\ starts' \in Nat
        /\ UNCHANGED <<node_connections, handshake_done, owed, conns, recovering,
                       pc, connection, overlapped>>
    BY <1>1, <1>a DEF start_accept_incoming, TypeOK, clients
  <2> QED BY <1>1, <2>1 DEF TypeOK, Bound, InCall
<1>b. CASE handle_accept_error
  <2>1. /\ accepts' \in Nat /\ aborted' \in Nat
        /\ UNCHANGED <<node_connections, handshake_done, owed, conns, starts,
                       recovering, pc, connection, overlapped>>
    BY <1>1, <1>b DEF handle_accept_error, TypeOK, clients
  <2> QED BY <1>1, <2>1 DEF TypeOK, Bound, InCall
<1>c. CASE drop_connection_to
  <2>1. /\ recovering' = NoConn
        /\ UNCHANGED <<handshake_done, owed, conns, accepts, aborted, starts, pc,
                       connection, overlapped>>
    BY <1>c DEF drop_connection_to, clients
  <2>2. /\ node_connections' \in [Peers -> Conns \cup {NoConn}]
        /\ \A q \in Peers : \/ node_connections'[q] = node_connections[q]
                            \/ node_connections'[q] = NoConn
    BY <1>1, <1>c DEF drop_connection_to, TypeOK
  <2> QED BY <1>1, <2>1, <2>2 DEF TypeOK, Bound, InCall
<1>15. ASSUME NEW k \in DOMAIN conns, io_error(k)
       PROVE  Typed'
  <2>1. SetStatus(k, "broken") /\ "broken" \in Statuses
    BY <1>15 DEF io_error, Statuses
  <2>2. /\ conns' \in Seq(Conn)
        /\ Len(conns') <= MaxConns
        /\ DOMAIN conns' = DOMAIN conns
        /\ \A j \in DOMAIN conns : /\ conns'[j].peer = conns[j].peer
                                   /\ conns'[j].side = conns[j].side
    BY <1>10, <2>1
  <2>3. TypeOK'
    BY <1>1, <1>2, <1>15, <2>2 DEF TypeOK, Conn, io_error, clients
  <2>4. Bound'
    BY <1>1, <1>15, <2>2 DEF Bound, InCall, io_error, clients
  <2> QED BY <2>3, <2>4
<1>16. CASE UNCHANGED vars
  BY <1>1, <1>16 DEF vars, clients, TypeOK, Bound, InCall
<1> HIDE DEF Typed
<1> QED BY <1>4, <1>5, <1>6, <1>7, <1>8, <1>9, <1>11, <1>12, <1>13, <1>14,
           <1>a, <1>b, <1>c, <1>15, <1>16 DEF Next

LEMMA TypedInit ==
  ASSUME Init
  PROVE  Typed
<1>1. conns = << >> /\ conns \in Seq(Conn) /\ Len(conns) = 0
  BY DEF Init
<1>2. /\ Len(conns) <= MaxConns /\ owed \in Nat
      /\ accepts \in Nat /\ aborted \in Nat /\ starts \in Nat
  BY <1>1, MaxConnsAssumption DEF Init
<1>3. TypeOK
  BY <1>1, <1>2 DEF Init, TypeOK, Conn, PC
<1>4. Bound
  BY DEF Init, Bound, InCall
<1> QED BY <1>3, <1>4 DEF Typed

(***************************************************************************)
(* The connector's state keeps its types: the map of connections, the slot *)
(* handshake_done and the clients in get_connection_to, whatever calls,    *)
(* accepted connections and I/O errors interleave.                         *)
(***************************************************************************)
THEOREM TypeCorrect == Spec => []TypeOK
<1>1. Init => Typed
  BY TypedInit
<1>2. Typed /\ [Next]_vars => Typed'
  BY TypedStep
<1>3. Typed => TypeOK
  BY DEF Typed
<1> QED BY <1>1, <1>2, <1>3, PTL DEF Spec

-----------------------------------------------------------------------------
(***************************************************************************)
(* The accept loops.  Accepted is finite, so that its elements can be      *)
(* counted; a step leaves the set alone, or moves one loop into it or out  *)
(* of it.                                                                  *)
(***************************************************************************)
LEMMA AcceptedFinite ==
  ASSUME TypeOK
  PROVE  IsFiniteSet(Accepted) /\ Cardinality(Accepted) \in Nat
<1>1. conns \in Seq(Conn)
  BY DEF TypeOK, Conn
<1>2. DOMAIN conns = 1..Len(conns) /\ Len(conns) \in Nat
  BY <1>1, LenProperties
<1>3. IsFiniteSet(1..Len(conns))
  BY <1>2, FS_Interval
<1>4. Accepted \subseteq 1..Len(conns)
  BY <1>2 DEF Accepted
<1>5. IsFiniteSet(Accepted)
  BY <1>3, <1>4, FS_Subset
<1> QED BY <1>5, FS_CardinalityType

LEMMA AcceptLoopsStep ==
  ASSUME Typed, AcceptLoops, [Next]_vars
  PROVE  AcceptLoops'
<1>1. /\ TypeOK
      /\ accepts + aborted + Cardinality(Accepted) = starts
  BY DEF Typed, AcceptLoops
<1>2. /\ IsFiniteSet(Accepted) /\ Cardinality(Accepted) \in Nat
      /\ accepts \in Nat /\ aborted \in Nat /\ starts \in Nat
  BY <1>1, AcceptedFinite DEF TypeOK
<1>3. ASSUME Accepted' = Accepted,
             accepts' + aborted' + Cardinality(Accepted) = starts'
      PROVE  AcceptLoops'
  BY <1>3 DEF AcceptLoops
<1>4. CASE UNCHANGED <<conns, accepts, aborted, starts>>
  <2>1. Accepted' = Accepted
    BY <1>4 DEF Accepted
  <2> QED BY <1>1, <1>3, <1>4, <2>1
<1>5. ASSUME NEW p \in Peers, NEW s \in {"A", "B"}, New(p, s)
      PROVE  /\ NewConn \notin Accepted
             /\ Accepted' = IF s = "B" THEN Accepted \cup {NewConn} ELSE Accepted
  <2>1. /\ DOMAIN conns' = DOMAIN conns \cup {NewConn}
        /\ NewConn \notin DOMAIN conns
        /\ \A k \in DOMAIN conns : conns'[k] = conns[k]
        /\ conns'[NewConn].side = s
        /\ conns'[NewConn].status = "handshaking"
    BY <1>1, <1>5, NewFacts
  <2> QED BY <2>1 DEF Accepted
<1>6. ASSUME NEW k \in DOMAIN conns, NEW st \in Statuses, SetStatus(k, st),
             st # "handshaking"
      PROVE  Accepted' = Accepted \ {k}
  <2>1. /\ DOMAIN conns' = DOMAIN conns
        /\ \A j \in DOMAIN conns :
              /\ conns'[j].side = conns[j].side
              /\ conns'[j].status = IF j = k THEN st ELSE conns[j].status
    BY <1>1, <1>6, StatusFacts
  <2> QED BY <1>6, <2>1 DEF Accepted
<1>7. ASSUME NEW c \in Clients, NEW p \in Peers, make_new_connection(c, p)
      PROVE  AcceptLoops'
  <2>1. New(p, "A") /\ UNCHANGED <<accepts, aborted, starts>>
    BY <1>7 DEF make_new_connection, accepting
  <2>2. Accepted' = Accepted
    BY <1>5, <2>1
  <2> QED BY <1>1, <1>3, <2>1, <2>2
<1>8. ASSUME NEW p \in Callers, handle_accept(p)
      PROVE  AcceptLoops'
  <2>1. /\ New(p, "B") /\ p \in Peers
        /\ accepts > 0 /\ accepts' = accepts - 1 /\ UNCHANGED <<aborted, starts>>
    BY <1>8, CallersAssumption DEF handle_accept
  <2>2. NewConn \notin Accepted /\ Accepted' = Accepted \cup {NewConn}
    BY <1>5, <2>1
  <2>3. Cardinality(Accepted') = Cardinality(Accepted) + 1
    BY <1>2, <2>2, FS_AddElement
  <2> QED BY <1>1, <1>2, <2>1, <2>3 DEF AcceptLoops
<1>9. ASSUME NEW k \in DOMAIN conns, NEW r \in Results, handshake_success(k, r)
      PROVE  AcceptLoops'
  <2>1. /\ SetStatus(k, r) /\ r \in Statuses /\ r # "handshaking"
        /\ conns[k].side = "A" /\ UNCHANGED <<accepts, aborted, starts>>
    BY <1>9 DEF handshake_success, Ends, Results, Statuses, accepting
  <2>2. Accepted' = Accepted
    <3>1. k \notin Accepted
      BY <2>1 DEF Accepted
    <3> QED BY <1>6, <2>1, <3>1
  <2> QED BY <1>1, <1>3, <2>1, <2>2
<1>10. ASSUME NEW k \in DOMAIN conns, NEW r \in Results,
              handshake_success_as_B(k, r)
       PROVE  AcceptLoops'
  <2>1. /\ SetStatus(k, r) /\ r \in Statuses /\ r # "handshaking"
        /\ k \in Accepted /\ accepts' = accepts + 1 /\ UNCHANGED <<aborted, starts>>
    BY <1>10 DEF handshake_success_as_B, Ends, Results, Statuses, Accepted
  <2>2. Accepted' = Accepted \ {k}
    BY <1>6, <2>1
  <2>3. Cardinality(Accepted') = Cardinality(Accepted) - 1
    BY <1>2, <2>1, <2>2, FS_RemoveElement
  <2> QED BY <1>1, <1>2, <2>1, <2>3 DEF AcceptLoops
<1>11. ASSUME NEW k \in DOMAIN conns, io_error(k)
       PROVE  AcceptLoops'
  <2>1. /\ SetStatus(k, "broken") /\ "broken" \in Statuses
        /\ k \notin Accepted /\ UNCHANGED <<accepts, aborted, starts>>
    BY <1>11 DEF io_error, Statuses, Accepted, accepting
  <2>2. Accepted' = Accepted
    BY <1>6, <2>1
  <2> QED BY <1>1, <1>3, <2>1, <2>2
<1>12. ASSUME NEW n \in 0..accepts, start_accept_incoming(n)
       PROVE  AcceptLoops'
  <2>1. /\ starts' = starts + 1 /\ aborted' = aborted + n
        /\ accepts' = (accepts - n) + 1 /\ conns' = conns
    BY <1>12 DEF start_accept_incoming
  <2>2. Accepted' = Accepted
    BY <2>1 DEF Accepted
  <2>3. accepts' + aborted' + Cardinality(Accepted) = starts'
    BY <1>1, <1>2, <2>1
  <2> QED BY <1>3, <2>2, <2>3
<1>13. CASE handle_accept_error
  <2>1. /\ aborted' = aborted - 1 /\ accepts' = accepts + 1
        /\ UNCHANGED <<starts, conns>>
    BY <1>13 DEF handle_accept_error
  <2>2. Accepted' = Accepted
    BY <2>1 DEF Accepted
  <2>3. accepts' + aborted' + Cardinality(Accepted) = starts'
    BY <1>1, <1>2, <2>1
  <2> QED BY <1>3, <2>2, <2>3
<1>14. CASE \/ \E c \in Clients, p \in Peers : \/ get_existing_connection(c, p)
                                               \/ request_node_connection_throws(c, p)
            \/ \E c \in Clients : wake_up(c) \/ spurious_wakeup(c) \/ call_ends(c)
            \/ notify_one \/ drop_connection_to \/ UNCHANGED vars
  BY <1>4, <1>14 DEF get_existing_connection, request_node_connection_throws,
     wake_up, spurious_wakeup, call_ends, notify_one, drop_connection_to, vars,
     accepting
<1> QED BY <1>7, <1>8, <1>9, <1>10, <1>11, <1>12, <1>13, <1>14 DEF Next

(***************************************************************************)
(* Each call of start_accept_incoming adds one accept loop, and neither    *)
(* failed accepts and handshakes nor the replacement of the acceptor end   *)
(* or double one, for any number of connections.                           *)
(***************************************************************************)
THEOREM AcceptLoopsAlways == Spec => []AcceptLoops
<1>1. Init => Typed /\ AcceptLoops
  <2> SUFFICES ASSUME Init PROVE Typed /\ AcceptLoops
    OBVIOUS
  <2>1. DOMAIN conns = {} /\ accepts = 0 /\ aborted = 0 /\ starts = 0
    BY DEF Init
  <2>2. Accepted = {}
    BY <2>1 DEF Accepted
  <2>3. Cardinality(Accepted) = 0
    BY <2>2, FS_EmptySet
  <2> QED BY <2>1, <2>3, TypedInit DEF AcceptLoops
<1>2. Typed /\ AcceptLoops /\ [Next]_vars => (Typed /\ AcceptLoops)'
  BY TypedStep, AcceptLoopsStep
<1> QED BY <1>1, <1>2, PTL DEF Spec

-----------------------------------------------------------------------------
LEMMA BrokenAcceptedStep ==
  ASSUME Typed, BrokenAcceptedDropped, [Next]_vars
  PROVE  BrokenAcceptedDropped'
<1>1. TypeOK /\ Bound /\ BrokenAcceptedDropped
  BY DEF Typed
<1>2. /\ DOMAIN conns \subseteq Conns
      /\ NoConn \notin DOMAIN conns
      /\ \A k \in DOMAIN conns : conns[k].peer \in Peers
  BY <1>1, ConnFacts
<1>3. handshake_done \in {"none", "success", "failure"}
  BY <1>1 DEF TypeOK
<1>4. CASE UNCHANGED <<conns, node_connections, recovering>>
  BY <1>1, <1>4 DEF BrokenAcceptedDropped
<1>5. ASSUME NEW c \in Clients, NEW p \in Peers, make_new_connection(c, p)
      PROVE  BrokenAcceptedDropped'
  <2>1. New(p, "A") /\ wait_for_handshake_result(c, p, NewConn) /\ UNCHANGED recovering
    BY <1>5 DEF make_new_connection
  <2>2. /\ NewConn \in Conns
        /\ \A k \in DOMAIN conns : conns'[k] = conns[k]
        /\ conns'[NewConn].side = "A"
    BY <1>1, <2>1, NewFacts
  <2>3. \A q \in Peers : \/ node_connections'[q] = node_connections[q]
                         \/ node_connections'[q] = NewConn
    BY <1>1, <1>3, <2>1, <2>2, WaitFacts
  <2> QED BY <1>1, <2>1, <2>2, <2>3 DEF BrokenAcceptedDropped, Bound
<1>6. ASSUME NEW c \in Clients, wake_up(c)
      PROVE  BrokenAcceptedDropped'
  <2> DEFINE k == connection[c]
             p == conns[k].peer
  <2>1. wait_for_handshake_result(c, p, k) /\ UNCHANGED <<conns, recovering>>
    BY <1>6 DEF wake_up
  <2>2. k \in Conns /\ p \in Peers /\ conns[k].side = "A"
    BY <1>1, <1>2, <1>6 DEF wake_up, Bound, InCall
  <2>3. \A q \in Peers : \/ node_connections'[q] = node_connections[q]
                         \/ node_connections'[q] = k
    <3> HIDE DEF k, p
    <3> QED BY <1>1, <1>3, <2>1, <2>2, WaitFacts
  <2> QED BY <1>1, <2>1, <2>2, <2>3 DEF BrokenAcceptedDropped
<1>7. ASSUME NEW k \in DOMAIN conns, NEW st \in Statuses, SetStatus(k, st)
      PROVE  \A j \in DOMAIN conns :
               /\ conns'[j].side = conns[j].side
               /\ conns'[j].status = IF j = k THEN st ELSE conns[j].status
  BY <1>1, <1>7, StatusFacts
<1>8. ASSUME NEW k \in DOMAIN conns, NEW r \in Results, handshake_success(k, r)
      PROVE  BrokenAcceptedDropped'
  <2>1. /\ SetStatus(k, r) /\ r \in Statuses /\ conns[k].side = "A"
        /\ UNCHANGED <<node_connections, recovering>>
    BY <1>8 DEF handshake_success, Ends, Results, Statuses
  <2> QED BY <1>1, <1>7, <2>1 DEF BrokenAcceptedDropped, Bound
<1>9. ASSUME NEW p \in Callers, handle_accept(p)
      PROVE  BrokenAcceptedDropped'
  <2>1. New(p, "B") /\ p \in Peers /\ UNCHANGED <<node_connections, recovering>>
    BY <1>9, CallersAssumption DEF handle_accept
  <2>2. \A k \in DOMAIN conns : conns'[k] = conns[k]
    BY <1>1, <2>1, NewFacts
  <2> QED BY <1>1, <2>1, <2>2 DEF BrokenAcceptedDropped, Bound
<1>10. ASSUME NEW k \in DOMAIN conns, NEW r \in Results,
              handshake_success_as_B(k, r)
       PROVE  BrokenAcceptedDropped'
  <2>1. /\ SetStatus(k, r) /\ r \in Statuses /\ r # "broken"
        /\ conns[k].side = "B" /\ conns[k].status = "handshaking"
        /\ UNCHANGED recovering
    BY <1>10 DEF handshake_success_as_B, Ends, Results, Statuses
  <2>2. \A q \in Peers : \/ node_connections'[q] = node_connections[q]
                         \/ node_connections'[q] = k /\ r = "connected"
    BY <1>1, <1>2, <1>10 DEF handshake_success_as_B, insert, TypeOK
  <2> QED BY <1>1, <1>7, <2>1, <2>2 DEF BrokenAcceptedDropped, Bound
<1>11. ASSUME NEW k \in DOMAIN conns, io_error(k)
       PROVE  BrokenAcceptedDropped'
  <2>1. /\ SetStatus(k, "broken") /\ "broken" \in Statuses
        /\ recovering = NoConn /\ recovering' = k
        /\ UNCHANGED node_connections
    BY <1>11 DEF io_error, Running, Statuses
  <2> QED BY <1>1, <1>2, <1>7, <2>1 DEF BrokenAcceptedDropped, Bound
<1>13. CASE drop_connection_to
  <2>1. /\ recovering \in DOMAIN conns /\ UNCHANGED conns
        /\ conns[recovering].peer \in Peers
    BY <1>1, <1>2, <1>13 DEF drop_connection_to, Bound
  <2>2. \A q \in Peers : \/ node_connections'[q] = NoConn
                         \/ /\ node_connections'[q] = node_connections[q]
                            /\ conns[recovering].side = "A" \/ q # conns[recovering].peer
    BY <1>1, <1>13, <2>1 DEF drop_connection_to, TypeOK
  <2> QED BY <1>1, <2>1, <2>2 DEF BrokenAcceptedDropped, Bound
<1>12. CASE \/ \E c \in Clients, p \in Peers : \/ get_existing_connection(c, p)
                                               \/ request_node_connection_throws(c, p)
            \/ \E c \in Clients : spurious_wakeup(c) \/ call_ends(c)
            \/ \E n \in 0..accepts : start_accept_incoming(n)
            \/ notify_one \/ handle_accept_error \/ UNCHANGED vars
  BY <1>4, <1>12 DEF get_existing_connection, request_node_connection_throws,
     spurious_wakeup, call_ends, notify_one, start_accept_incoming,
     handle_accept_error, vars
<1> QED BY <1>5, <1>6, <1>8, <1>9, <1>10, <1>11, <1>12, <1>13 DEF Next

(***************************************************************************)
(* get_connection_to returns an accepted connection that broke only while  *)
(* the I/O thread is between the exception and the lock: drop_connection_to*)
(* finds it by the name it was inserted under, and it is not put back.     *)
(***************************************************************************)
THEOREM BrokenAcceptedAlwaysDropped == Spec => []BrokenAcceptedDropped
<1>1. Init => Typed /\ BrokenAcceptedDropped
  <2>1. Init => BrokenAcceptedDropped
    BY DEF Init, BrokenAcceptedDropped
  <2> QED BY <2>1, TypedInit
<1>2. Typed /\ BrokenAcceptedDropped /\ [Next]_vars
        => (Typed /\ BrokenAcceptedDropped)'
  BY TypedStep, BrokenAcceptedStep
<1> QED BY <1>1, <1>2, PTL DEF Spec

-----------------------------------------------------------------------------
(***************************************************************************)
(* Why a client gets its own outcome while calls do not overlap: at most   *)
(* one client is in a call, a handshake under way that this node started   *)
(* is that client's, and the slot, when it holds an outcome, holds the one *)
(* of its connection.  What is in the map has got through its handshake.   *)
(***************************************************************************)
OneCall ==
  /\ \A c, d \in Clients : InCall(c) /\ InCall(d) => c = d
  /\ handshake_done # "none" => \E c \in Clients : InCall(c)

SlotIsTheCallers ==
  \A c \in Clients :
    InCall(c) => /\ handshake_done = "success" => Status(c) \in {"connected", "broken"}
                 /\ handshake_done = "failure" => Status(c) = "failed"

HandshakeIsTheCallers ==
  \A k \in DOMAIN conns :
    conns[k].side = "A" /\ conns[k].status = "handshaking" =>
      \E c \in Clients : InCall(c) /\ connection[c] = k

MapEstablished ==
  \A p \in Peers :
    LET k == node_connections[p] IN
      k # NoConn => conns[k].status \in {"connected", "broken"}

Alone == OneCall /\ SlotIsTheCallers /\ HandshakeIsTheCallers /\ MapEstablished /\ OwnOutcome

Solitary == ~overlapped => Alone

LEMMA SolitaryStep ==
  ASSUME Typed, Solitary, [Next]_vars
  PROVE  Solitary'
<1>1. TypeOK /\ Bound
  BY DEF Typed
<1>2. /\ DOMAIN conns \subseteq Conns
      /\ NoConn \notin DOMAIN conns
      /\ \A k \in DOMAIN conns : conns[k].peer \in Peers
  BY <1>1, ConnFacts
<1>3. /\ pc \in [Clients -> PC]
      /\ handshake_done \in {"none", "success", "failure"}
      /\ node_connections \in [Peers -> Conns \cup {NoConn}]
      /\ connection \in [Clients -> Conns \cup {NoConn}]
  BY <1>1 DEF TypeOK
<1>4. SUFFICES ASSUME ~overlapped' PROVE Alone'
  BY DEF Solitary
<1>5. ~overlapped
  BY <1>4 DEF Next, get_existing_connection, request_node_connection_throws,
     make_new_connection, wake_up, spurious_wakeup, call_ends, notify_one,
     handshake_success, handle_accept, handshake_success_as_B, io_error,
     start_accept_incoming, handle_accept_error, drop_connection_to, vars
<1>6. OneCall /\ SlotIsTheCallers /\ HandshakeIsTheCallers /\ MapEstablished /\ OwnOutcome
  BY <1>5 DEF Solitary, Alone
<1>7. ASSUME NEW c \in Clients, NEW p \in Peers, get_existing_connection(c, p)
      PROVE  Alone'
  <2>1. /\ pc' = [pc EXCEPT ![c] = "returned"] /\ pc[c] = "idle"
        /\ connection' = [connection EXCEPT ![c] = node_connections[p]]
        /\ node_connections[p] # NoConn
        /\ UNCHANGED <<node_connections, handshake_done, conns>>
    BY <1>7 DEF get_existing_connection
  <2>2. /\ \A d \in Clients : InCall(d)' <=> InCall(d)
        /\ \A d \in Clients \ {c} : connection'[d] = connection[d] /\ pc'[d] = pc[d]
        /\ ~InCall(c)
        /\ pc'[c] = "returned" /\ connection'[c] = node_connections[p]
    BY <1>3, <2>1 DEF InCall
  <2>3. (OneCall /\ SlotIsTheCallers /\ HandshakeIsTheCallers /\ MapEstablished)'
    BY <1>6, <2>1, <2>2
       DEF OneCall, SlotIsTheCallers, HandshakeIsTheCallers, MapEstablished, Status
  <2>4. OwnOutcome'
    BY <1>6, <2>1, <2>2 DEF OwnOutcome, MapEstablished, Status
  <2> QED BY <2>3, <2>4 DEF Alone
<1>8. ASSUME NEW c \in Clients, NEW p \in Peers, request_node_connection_throws(c, p)
      PROVE  Alone'
  <2>1. /\ pc' = [pc EXCEPT ![c] = "thrown"] /\ pc[c] = "idle"
        /\ UNCHANGED <<node_connections, handshake_done, conns, connection>>
        /\ connection[c] = NoConn
    BY <1>1, <1>8 DEF request_node_connection_throws, Bound
  <2>2. /\ \A d \in Clients : InCall(d)' <=> InCall(d)
        /\ \A d \in Clients \ {c} : pc'[d] = pc[d]
        /\ pc'[c] = "thrown"
    BY <1>3, <2>1 DEF InCall
  <2>3. (OneCall /\ SlotIsTheCallers /\ HandshakeIsTheCallers /\ MapEstablished)'
    BY <1>6, <2>1, <2>2
       DEF OneCall, SlotIsTheCallers, HandshakeIsTheCallers, MapEstablished, Status
  <2>4. OwnOutcome'
    BY <1>6, <2>1, <2>2 DEF OwnOutcome, Status
  <2> QED BY <2>3, <2>4 DEF Alone
<1>9. ASSUME NEW c \in Clients, NEW p \in Peers, make_new_connection(c, p)
      PROVE  Alone'
  <2>1. /\ New(p, "A") /\ wait_for_handshake_result(c, p, NewConn)
        /\ connection' = [connection EXCEPT ![c] = NewConn]
        /\ handshake_done = "none"
        /\ \A d \in Clients : ~InCall(d)
    BY <1>4, <1>9 DEF make_new_connection
  <2>2. /\ NewConn \in Conns
        /\ DOMAIN conns' = DOMAIN conns \cup {NewConn}
        /\ \A k \in DOMAIN conns : conns'[k] = conns[k]
    BY <1>1, <2>1, NewFacts
  <2>3. /\ handshake_done' = "none"
        /\ pc' = [pc EXCEPT ![c] = "waiting"]
        /\ node_connections' = node_connections
    BY <2>1 DEF wait_for_handshake_result
  <2>4. /\ \A d \in Clients \ {c} : /\ ~InCall(d)' /\ pc'[d] = pc[d]
                                    /\ connection'[d] = connection[d]
        /\ pc'[c] = "waiting" /\ InCall(c)' /\ connection'[c] = NewConn
    BY <1>3, <2>1, <2>3 DEF InCall
  <2>5. (OneCall /\ SlotIsTheCallers)'
    BY <2>3, <2>4 DEF OneCall, SlotIsTheCallers
  <2>6. HandshakeIsTheCallers'
    BY <1>6, <2>1, <2>2, <2>4 DEF HandshakeIsTheCallers
  <2>7. MapEstablished'
    BY <1>1, <1>6, <2>2, <2>3 DEF MapEstablished, Bound
  <2>8. OwnOutcome'
    BY <1>1, <1>6, <2>2, <2>4 DEF OwnOutcome, Bound, Status
  <2> QED BY <2>5, <2>6, <2>7, <2>8 DEF Alone
<1>10. ASSUME NEW c \in Clients, wake_up(c)
       PROVE  Alone'
  <2> DEFINE k == connection[c]
             p == conns[k].peer
  <2>1. /\ wait_for_handshake_result(c, p, k)
        /\ InCall(c) /\ conns' = conns /\ connection' = connection
    BY <1>10 DEF wake_up, InCall
  <2>2. k \in DOMAIN conns /\ k \in Conns /\ p \in Peers
    BY <1>1, <1>2, <2>1 DEF Bound
  <2>3. /\ \A q \in Peers : \/ node_connections'[q] = node_connections[q]
                            \/ node_connections'[q] = k /\ handshake_done = "success"
        /\ \A d \in Clients \ {c} : pc'[d] = pc[d]
        /\ handshake_done' = "none"
        /\ handshake_done = "none" => pc'[c] = "waiting"
        /\ handshake_done = "success" => pc'[c] = "returned"
        /\ handshake_done = "failure" => pc'[c] = "thrown"
    <3> HIDE DEF k, p
    <3> QED BY <1>1, <2>1, <2>2, WaitFacts
  <2>4. /\ handshake_done = "success" => conns[k].status \in {"connected", "broken"}
        /\ handshake_done = "failure" => conns[k].status = "failed"
    BY <1>6, <2>1 DEF SlotIsTheCallers, Status
  <2>5. \A d \in Clients : InCall(d)' => InCall(d)
    BY <2>1, <2>3 DEF InCall
  <2>6. (OneCall /\ SlotIsTheCallers)'
    BY <1>6, <2>3, <2>5 DEF OneCall, SlotIsTheCallers
  <2>7. HandshakeIsTheCallers'
    <3>1. SUFFICES ASSUME NEW j \in DOMAIN conns, conns[j].side = "A",
                          conns[j].status = "handshaking"
                   PROVE  \E d \in Clients : InCall(d)' /\ connection[d] = j
      BY <2>1 DEF HandshakeIsTheCallers
    <3>2. j = k
      BY <1>6, <2>1, <3>1 DEF HandshakeIsTheCallers, OneCall
    <3>3. handshake_done = "none"
      BY <1>3, <2>4, <3>1, <3>2
    <3> QED BY <2>3, <3>2, <3>3 DEF InCall
  <2>8. MapEstablished'
    BY <1>6, <2>1, <2>3, <2>4 DEF MapEstablished
  <2>9. OwnOutcome'
    BY <1>3, <1>6, <2>1, <2>3, <2>4 DEF OwnOutcome, Status
  <2> QED BY <2>6, <2>7, <2>8, <2>9 DEF Alone
<1>11. ASSUME NEW c \in Clients, spurious_wakeup(c)
       PROVE  Alone'
  <2>1. /\ pc' = [pc EXCEPT ![c] = "woken"] /\ pc[c] = "waiting"
        /\ UNCHANGED <<node_connections, handshake_done, conns, connection>>
    BY <1>11 DEF spurious_wakeup
  <2>2. /\ \A d \in Clients : InCall(d)' <=> InCall(d)
        /\ \A d \in Clients \ {c} : pc'[d] = pc[d]
        /\ pc'[c] = "woken"
    BY <1>3, <2>1 DEF InCall
  <2>3. (OneCall /\ SlotIsTheCallers /\ HandshakeIsTheCallers /\ MapEstablished)'
    BY <1>6, <2>1, <2>2
       DEF OneCall, SlotIsTheCallers, HandshakeIsTheCallers, MapEstablished, Status
  <2>4. OwnOutcome'
    BY <1>6, <2>1, <2>2 DEF OwnOutcome, Status
  <2> QED BY <2>3, <2>4 DEF Alone
<1>12. ASSUME NEW c \in Clients, call_ends(c)
       PROVE  Alone'
  <2>1. /\ pc' = [pc EXCEPT ![c] = "idle"] /\ ~InCall(c)
        /\ connection' = [connection EXCEPT ![c] = NoConn]
        /\ UNCHANGED <<node_connections, handshake_done, conns>>
    BY <1>12 DEF call_ends, InCall
  <2>2. /\ \A d \in Clients : InCall(d)' <=> InCall(d)
        /\ \A d \in Clients \ {c} : connection'[d] = connection[d] /\ pc'[d] = pc[d]
        /\ pc'[c] = "idle"
    BY <1>3, <2>1 DEF InCall
  <2>3. (OneCall /\ SlotIsTheCallers /\ HandshakeIsTheCallers /\ MapEstablished)'
    BY <1>6, <2>1, <2>2
       DEF OneCall, SlotIsTheCallers, HandshakeIsTheCallers, MapEstablished, Status
  <2>4. OwnOutcome'
    BY <1>6, <2>1, <2>2 DEF OwnOutcome, Status
  <2> QED BY <2>3, <2>4 DEF Alone
<1>13. CASE notify_one
  <2>1. UNCHANGED <<node_connections, handshake_done, conns, connection>>
    BY <1>13 DEF notify_one
  <2>2. /\ \A d \in Clients : InCall(d)' <=> InCall(d)
        /\ \A d \in Clients : pc'[d] = pc[d] \/ pc'[d] = "woken"
    BY <1>3, <1>13 DEF notify_one, InCall
  <2>3. (OneCall /\ SlotIsTheCallers /\ HandshakeIsTheCallers /\ MapEstablished)'
    BY <1>6, <2>1, <2>2
       DEF OneCall, SlotIsTheCallers, HandshakeIsTheCallers, MapEstablished, Status
  <2>4. OwnOutcome'
    BY <1>6, <2>1, <2>2 DEF OwnOutcome, Status
  <2> QED BY <2>3, <2>4 DEF Alone
<1>14. ASSUME NEW k \in DOMAIN conns, NEW st \in Statuses, SetStatus(k, st)
       PROVE  /\ DOMAIN conns' = DOMAIN conns
              /\ \A j \in DOMAIN conns :
                   /\ conns'[j].side = conns[j].side
                   /\ conns'[j].status = IF j = k THEN st ELSE conns[j].status
  BY <1>1, <1>14, StatusFacts
<1>15. ASSUME NEW k \in DOMAIN conns, NEW r \in Results, handshake_success(k, r)
       PROVE  Alone'
  <2>1. /\ SetStatus(k, r) /\ r \in {"connected", "failed"} /\ r \in Statuses
        /\ conns[k].side = "A" /\ conns[k].status = "handshaking"
        /\ handshake_done' = IF r = "connected" THEN "success" ELSE "failure"
        /\ UNCHANGED <<node_connections, pc, connection>>
    BY <1>15 DEF handshake_success, Ends, Results, Statuses, Outcome, clients
  <2>2. /\ DOMAIN conns' = DOMAIN conns
        /\ \A j \in DOMAIN conns :
             /\ conns'[j].side = conns[j].side
             /\ conns'[j].status = IF j = k THEN r ELSE conns[j].status
    BY <1>14, <2>1
  <2>3. PICK c \in Clients : InCall(c) /\ connection[c] = k
    BY <1>6, <2>1 DEF HandshakeIsTheCallers
  <2>4. \A d \in Clients : InCall(d)' <=> d = c
    BY <1>6, <2>1, <2>3 DEF InCall, OneCall
  <2>5. (OneCall /\ SlotIsTheCallers)'
    BY <2>1, <2>2, <2>3, <2>4 DEF OneCall, SlotIsTheCallers, Status
  <2>6. HandshakeIsTheCallers'
    BY <1>6, <2>1, <2>2 DEF HandshakeIsTheCallers, InCall
  <2>7. MapEstablished'
    BY <1>1, <1>6, <2>1, <2>2 DEF MapEstablished, Bound
  <2>8. OwnOutcome'
    BY <1>1, <1>6, <2>1, <2>2 DEF OwnOutcome, Bound, Status
  <2> QED BY <2>5, <2>6, <2>7, <2>8 DEF Alone
<1>16. ASSUME NEW p \in Callers, handle_accept(p)
       PROVE  Alone'
  <2>1. /\ New(p, "B") /\ p \in Peers
        /\ UNCHANGED <<node_connections, handshake_done, pc, connection>>
    BY <1>16, CallersAssumption DEF handle_accept, clients
  <2>2. /\ DOMAIN conns' = DOMAIN conns \cup {NewConn}
        /\ \A k \in DOMAIN conns : conns'[k] = conns[k]
        /\ conns'[NewConn].side = "B"
    BY <1>1, <2>1, NewFacts
  <2>3. (OneCall /\ HandshakeIsTheCallers)'
    BY <1>6, <2>1, <2>2 DEF OneCall, HandshakeIsTheCallers, InCall
  <2>4. (SlotIsTheCallers /\ MapEstablished /\ OwnOutcome)'
    BY <1>1, <1>6, <2>1, <2>2
       DEF SlotIsTheCallers, MapEstablished, OwnOutcome, InCall, Bound, Status
  <2> QED BY <2>3, <2>4 DEF Alone
<1>17. ASSUME NEW k \in DOMAIN conns, NEW r \in Results,
              handshake_success_as_B(k, r)
       PROVE  Alone'
  <2>1. /\ SetStatus(k, r) /\ r \in Statuses
        /\ conns[k].side = "B" /\ conns[k].status = "handshaking"
        /\ UNCHANGED <<handshake_done, pc, connection>>
    BY <1>17 DEF handshake_success_as_B, Ends, Results, Statuses, clients
  <2>2. /\ DOMAIN conns' = DOMAIN conns
        /\ \A j \in DOMAIN conns :
             /\ conns'[j].side = conns[j].side
             /\ conns'[j].status = IF j = k THEN r ELSE conns[j].status
    BY <1>14, <2>1
  <2>3. \A q \in Peers : \/ node_connections'[q] = node_connections[q]
                         \/ node_connections'[q] = k /\ r = "connected"
    BY <1>2, <1>3, <1>17 DEF handshake_success_as_B, insert
  <2>4. OneCall'
    BY <1>6, <2>1 DEF OneCall, InCall
  <2>5. HandshakeIsTheCallers'
    BY <1>6, <2>1, <2>2 DEF HandshakeIsTheCallers, InCall
  <2>6. SlotIsTheCallers'
    BY <1>1, <1>6, <2>1, <2>2 DEF SlotIsTheCallers, InCall, Bound, Status
  <2>7. MapEstablished'
    BY <1>1, <1>6, <2>1, <2>2, <2>3 DEF MapEstablished, Bound
  <2>8. OwnOutcome'
    BY <1>1, <1>6, <2>1, <2>2 DEF OwnOutcome, Bound, Status
  <2> QED BY <2>4, <2>5, <2>6, <2>7, <2>8 DEF Alone
<1>18. ASSUME NEW k \in DOMAIN conns, io_error(k)
       PROVE  Alone'
  <2>1. /\ SetStatus(k, "broken") /\ "broken" \in Statuses
        /\ conns[k].status \in {"connected", "broken"}
        /\ UNCHANGED <<node_connections, handshake_done, pc, connection>>
    BY <1>18 DEF io_error, Statuses, clients
  <2>2. /\ DOMAIN conns' = DOMAIN conns
        /\ \A j \in DOMAIN conns :
             /\ conns'[j].side = conns[j].side
             /\ conns'[j].status = IF j = k THEN "broken" ELSE conns[j].status
    BY <1>14, <2>1
  <2>4. OneCall'
    BY <1>6, <2>1 DEF OneCall, InCall
  <2>5. HandshakeIsTheCallers'
    BY <1>6, <2>1, <2>2 DEF HandshakeIsTheCallers, InCall
  <2>6. SlotIsTheCallers'
    BY <1>1, <1>6, <2>1, <2>2 DEF SlotIsTheCallers, InCall, Bound, Status
  <2>7. MapEstablished'
    BY <1>1, <1>6, <2>1, <2>2 DEF MapEstablished, Bound
  <2>8. OwnOutcome'
    BY <1>1, <1>6, <2>1, <2>2 DEF OwnOutcome, Bound, Status
  <2> QED BY <2>4, <2>5, <2>6, <2>7, <2>8 DEF Alone
<1>20. CASE drop_connection_to
  <2>1. UNCHANGED <<handshake_done, conns, pc, connection>>
    BY <1>20 DEF drop_connection_to, clients
  <2>2. \A q \in Peers : \/ node_connections'[q] = node_connections[q]
                         \/ node_connections'[q] = NoConn
    BY <1>3, <1>20 DEF drop_connection_to
  <2>3. MapEstablished'
    BY <1>6, <2>1, <2>2 DEF MapEstablished
  <2> QED BY <1>6, <2>1, <2>3 DEF Alone, OneCall, SlotIsTheCallers,
             HandshakeIsTheCallers, OwnOutcome, InCall, Status
<1>19. CASE \/ \E n \in 0..accepts : start_accept_incoming(n)
            \/ handle_accept_error \/ UNCHANGED vars
  BY <1>6, <1>19 DEF start_accept_incoming, handle_accept_error, vars, clients, Alone, OneCall, SlotIsTheCallers,
     HandshakeIsTheCallers, MapEstablished, OwnOutcome, InCall, Status
<1> QED BY <1>7, <1>8, <1>9, <1>10, <1>11, <1>12, <1>13, <1>15, <1>16, <1>17,
           <1>18, <1>19, <1>20 DEF Next

(***************************************************************************)
(* As long as no two calls of get_connection_to overlap, a client is       *)
(* returned a connection only when its handshake has succeeded, a call     *)
(* that made one throws only when its handshake has failed, and no outcome *)
(* stays behind in handshake_done, whatever connections are accepted or    *)
(* break meanwhile and however often the condition variable wakes up.      *)
(***************************************************************************)
THEOREM OwnOutcomeAlways == Spec => []OwnOutcomeAlone
<1>1. Init => Typed /\ Solitary
  <2>1. Init => DOMAIN conns = {} /\ \A c \in Clients : pc[c] = "idle"
    BY DEF Init
  <2>2. Init => OneCall /\ SlotIsTheCallers /\ OwnOutcome
    BY <2>1 DEF Init, OneCall, SlotIsTheCallers, OwnOutcome, InCall
  <2>3. Init => HandshakeIsTheCallers /\ MapEstablished
    BY <2>1 DEF Init, HandshakeIsTheCallers, MapEstablished
  <2> QED BY <2>2, <2>3, TypedInit DEF Solitary, Alone
<1>2. Typed /\ Solitary /\ [Next]_vars => (Typed /\ Solitary)'
  BY TypedStep, SolitaryStep
<1>3. Solitary => OwnOutcomeAlone
  BY DEF Solitary, Alone, OneCall, OwnOutcomeAlone
<1> QED BY <1>1, <1>2, <1>3, PTL DEF Spec
=============================================================================
