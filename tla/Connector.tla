------------------------------ MODULE Connector ------------------------------
(***************************************************************************)
(* The connections of one node (impl/node_connector.cpp, and the recovery  *)
(* point of run_async_io in impl/actual_node.cpp).                         *)
(*                                                                         *)
(* A client that wants a connection to a node takes the one in the map or  *)
(* makes a new one: it starts a handshake and waits, on a condition        *)
(* variable, for the outcome, which the io_service thread leaves in        *)
(* handshake_done.  There is one slot for all clients.  Connections made   *)
(* by other nodes are accepted one at a time by the io_service thread.     *)
(*                                                                         *)
(* node_connections_mutex is held from the look-up to the wait, and from   *)
(* waking up to the return, so each of these is one action; the insert of  *)
(* an accepted connection does not take it, and is taken to be atomic, as  *)
(* is the replacement of the acceptor.  The io_service thread does one     *)
(* thing at a time: it runs a handler, or is about to notify a client, or  *)
(* recovers from an I/O error.  How a handshake ends is the subject of     *)
(* Handshake: here it ends once, or never.                                 *)
(***************************************************************************)
EXTENDS Naturals, Sequences, FiniteSets

CONSTANTS
  Clients,   \* the application threads
  Peers,     \* the other nodes, by their full names
  Callers,   \* those that connect to this node
  MaxConns,  \* bound on the connections made and accepted
  MaxStarts  \* bound on the calls of start_accept_incoming

ASSUME MaxConnsAssumption == MaxConns \in Nat /\ MaxStarts \in Nat
ASSUME CallersAssumption == Callers \subseteq Peers

Conns  == 1..MaxConns   \* in the order they are made
NoConn == 0

VARIABLES
  node_connections,   \* the map of connections by full node name
  handshake_done,     \* the slot for the outcome: "none", "success", "failure"
  owed,               \* calls of notify_one that follow an unlock
  conns,              \* the connections made and accepted so far: the peer,
                      \* the side this node has ("A" made it, "B" accepted
                      \* it) and how far it is
  accepts,            \* the accepts outstanding
  aborted,            \* the handlers of accepts that were aborted with their
                      \* acceptor, queued in the io_service
  recovering,         \* the connection whose I/O error the io_service thread
                      \* has caught and not yet dealt with
  pc,                 \* where each client is in get_connection_to
  connection,         \* its connection: the new one, then the one returned
  starts,             \* history: the calls of start_accept_incoming
  overlapped          \* history: a call began while another one's outcome
                      \* was still to be taken

clients   == <<pc, connection>>
accepting == <<accepts, aborted, starts>>
vars      == <<node_connections, handshake_done, owed, conns, accepting,
               recovering, clients, overlapped>>

Statuses == {"handshaking", "connected", "failed", "broken"}
PC       == {"idle", "waiting", "woken", "returned", "thrown"}

Init ==
  /\ node_connections = [p \in Peers |-> NoConn]
  /\ handshake_done = "none"
  /\ owed = 0
  /\ conns = <<>>
  /\ accepts = 0 /\ aborted = 0 /\ starts = 0
  /\ recovering = NoConn
  /\ pc = [c \in Clients |-> "idle"]
  /\ connection = [c \in Clients |-> NoConn]
  /\ overlapped = FALSE

-----------------------------------------------------------------------------
New(p, s) ==
  /\ Len(conns) < MaxConns
  /\ conns' = Append(conns, [peer |-> p, side |-> s, status |-> "handshaking"])

NewConn == Len(conns) + 1

SetStatus(k, st) == conns' = [conns EXCEPT ![k].status = st]

(***************************************************************************)
(* An insert does not replace what is in the map.                          *)
(***************************************************************************)
insert(p, k) ==
  node_connections' = [node_connections EXCEPT ![p] =
                         IF @ = NoConn THEN k ELSE @]

\* Mutant: the outcome is left in the slot.
take_outcome_keeping(c, p, k) ==
  /\ UNCHANGED handshake_done
  /\ \/ /\ handshake_done = "success"
        /\ insert(p, k)
        /\ pc' = [pc EXCEPT ![c] = "returned"]
     \/ /\ handshake_done = "failure"
        /\ pc' = [pc EXCEPT ![c] = "thrown"]
        /\ UNCHANGED node_connections

(***************************************************************************)
(* The outcome is taken from the slot, and the call returns the connection *)
(* k to the node p or throws.                                              *)
(***************************************************************************)
take_outcome(c, p, k) ==
  /\ handshake_done' = "none"
  /\ \/ /\ handshake_done = "success"
        /\ insert(p, k)
        /\ pc' = [pc EXCEPT ![c] = "returned"]
     \/ /\ handshake_done = "failure"
        /\ pc' = [pc EXCEPT ![c] = "thrown"]
        /\ UNCHANGED node_connections

(***************************************************************************)
(* while(!handshake_done) handshake_cond.wait(lock)                        *)
(***************************************************************************)
wait_for_handshake_result(c, p, k) ==
  \/ handshake_done # "none" /\ take_outcome(c, p, k)
  \/ /\ handshake_done = "none"
     /\ pc' = [pc EXCEPT ![c] = "waiting"]
     /\ UNCHANGED <<handshake_done, node_connections>>

(***************************************************************************)
(* get_connection_to a node in the map.                                    *)
(***************************************************************************)
get_existing_connection(c, p) ==
  /\ pc[c] = "idle"
  /\ node_connections[p] # NoConn
  /\ connection' = [connection EXCEPT ![c] = node_connections[p]]
  /\ pc' = [pc EXCEPT ![c] = "returned"]
  /\ UNCHANGED <<node_connections, handshake_done, owed, conns, accepting,
                 recovering, overlapped>>

(***************************************************************************)
(* request_node_connection throws: the node is not known or not reached.   *)
(***************************************************************************)
request_node_connection_throws(c, p) ==
  /\ pc[c] = "idle"
  /\ node_connections[p] = NoConn
  /\ pc' = [pc EXCEPT ![c] = "thrown"]
  /\ UNCHANGED <<node_connections, handshake_done, owed, conns, accepting,
                 recovering, connection, overlapped>>

(***************************************************************************)
(* get_connection_to any other node: a connection is made, its handshake   *)
(* started, and the outcome waited for.                                    *)
(***************************************************************************)
InCall(c) == pc[c] \in {"waiting", "woken"}

make_new_connection(c, p) ==
  /\ pc[c] = "idle"
  /\ node_connections[p] = NoConn
  /\ New(p, "A")
  /\ connection' = [connection EXCEPT ![c] = NewConn]
  /\ wait_for_handshake_result(c, p, NewConn)
  /\ overlapped' = (overlapped \/ handshake_done # "none"
                               \/ \E d \in Clients : InCall(d))
  /\ UNCHANGED <<owed, accepting, recovering>>

wake_up(c) ==
  /\ pc[c] = "woken"
  /\ wait_for_handshake_result(c, conns[connection[c]].peer, connection[c])
  /\ UNCHANGED <<owed, conns, accepting, recovering, connection, overlapped>>

spurious_wakeup(c) ==
  /\ pc[c] = "waiting"
  /\ pc' = [pc EXCEPT ![c] = "woken"]
  /\ UNCHANGED <<node_connections, handshake_done, owed, conns, accepting,
                 recovering, connection, overlapped>>

call_ends(c) ==
  /\ pc[c] \in {"returned", "thrown"}
  /\ pc' = [pc EXCEPT ![c] = "idle"]
  /\ connection' = [connection EXCEPT ![c] = NoConn]
  /\ UNCHANGED <<node_connections, handshake_done, owed, conns, accepting,
                 recovering, overlapped>>

-----------------------------------------------------------------------------
(***************************************************************************)
(* The io_service thread, when it is not about to notify a client and has  *)
(* no I/O error to deal with.                                              *)
(***************************************************************************)
Running == owed = 0 /\ recovering = NoConn

(***************************************************************************)
(* The handshake of a connection made here ends: the slot is overwritten,  *)
(* and notify_one is called after the unlock.                              *)
(***************************************************************************)
Ends(k, s, result) ==
  /\ Running
  /\ conns[k].side = s /\ conns[k].status = "handshaking"
  /\ SetStatus(k, result)

Outcome(result) == IF result = "connected" THEN "success" ELSE "failure"

\* Mutant: the waiting client is not notified.
handshake_success_silently(k, result) ==
  /\ Ends(k, "A", result)
  /\ handshake_done' = Outcome(result)
  /\ UNCHANGED <<node_connections, owed, accepting, recovering, clients,
                 overlapped>>

handshake_success(k, result) ==
  /\ Ends(k, "A", result)
  /\ handshake_done' = Outcome(result)
  /\ owed' = owed + 1
  /\ UNCHANGED <<node_connections, accepting, recovering, clients, overlapped>>

notify_one ==
  /\ owed > 0
  /\ owed' = owed - 1
  /\ \/ \E c \in Clients :
          pc[c] = "waiting" /\ pc' = [pc EXCEPT ![c] = "woken"]
     \/ (\A c \in Clients : pc[c] # "waiting") /\ UNCHANGED pc
  /\ UNCHANGED <<node_connections, handshake_done, conns, accepting, recovering,
                 connection, overlapped>>

(***************************************************************************)
(* publish_port has the connector listen, in the application's thread.  If *)
(* it has done so before, the acceptor is replaced: of the accepts that    *)
(* were outstanding n are aborted, that is their handlers are queued with  *)
(* an error, and the rest had been completed before.  One more accept is   *)
(* triggered.                                                              *)
(***************************************************************************)
start_accept_incoming(n) ==
  /\ starts < MaxStarts
  /\ starts' = starts + 1
  /\ aborted' = aborted + n
  /\ accepts' = (accepts - n) + 1
  /\ UNCHANGED <<node_connections, handshake_done, owed, conns, recovering,
                 clients, overlapped>>

(***************************************************************************)
(* Another node connects: its handshake starts, and the next accept waits  *)
(* for its end.                                                            *)
(***************************************************************************)
handle_accept(p) ==
  /\ Running
  /\ accepts > 0 /\ accepts' = accepts - 1
  /\ New(p, "B")
  /\ UNCHANGED <<node_connections, handshake_done, owed, aborted, starts,
                 recovering, clients, overlapped>>

(***************************************************************************)
(* After an accept that failed the next one is triggered at once: the one  *)
(* that was aborted is outstanding again, at the new acceptor.             *)
(***************************************************************************)
handle_accept_error ==
  /\ Running
  /\ aborted > 0 /\ aborted' = aborted - 1
  /\ accepts' = accepts + 1
  /\ UNCHANGED <<node_connections, handshake_done, owed, conns, starts,
                 recovering, clients, overlapped>>

\* Mutant: the next accept is triggered only if the handshake succeeded.
handshake_success_as_B_if_succeeded(k, result) ==
  /\ Ends(k, "B", result)
  /\ \/ /\ result = "connected" /\ insert(conns[k].peer, k)
        /\ accepts' = accepts + 1
     \/ result = "failed" /\ UNCHANGED <<node_connections, accepts>>
  /\ UNCHANGED <<handshake_done, owed, aborted, starts, recovering, clients,
                 overlapped>>

handshake_success_as_B(k, result) ==
  /\ Ends(k, "B", result)
  /\ \/ result = "connected" /\ insert(conns[k].peer, k)
     \/ result = "failed" /\ UNCHANGED node_connections
  /\ accepts' = accepts + 1
  /\ UNCHANGED <<handshake_done, owed, aborted, starts, recovering, clients,
                 overlapped>>

(***************************************************************************)
(* An I/O error of an established connection is thrown out of              *)
(* io_service::run.  Reads and writes may both fail: a connection may have *)
(* several errors.                                                         *)
(***************************************************************************)
io_error(k) ==
  /\ Running
  /\ conns[k].status \in {"connected", "broken"}
  /\ SetStatus(k, "broken")
  /\ recovering' = k
  /\ UNCHANGED <<node_connections, handshake_done, owed, accepting, clients,
                 overlapped>>

\* Mutant: an accepted connection is dropped under the short name, too.
drop_by_short_name ==
  /\ recovering # NoConn
  /\ recovering' = NoConn
  /\ UNCHANGED <<node_connections, handshake_done, owed, conns, accepting,
                 clients, overlapped>>

(***************************************************************************)
(* The recovery point, once it has the lock: what is in the map under the  *)
(* name of the peer is erased, whichever connection that is.  An accepted  *)
(* connection has the full name of its peer; one made here has the short   *)
(* name, which is no key of the map.                                       *)
(***************************************************************************)
drop_connection_to ==
  /\ recovering # NoConn
  /\ recovering' = NoConn
  /\ \/ /\ conns[recovering].side = "B"
        /\ node_connections' =
             [node_connections EXCEPT ![conns[recovering].peer] = NoConn]
     \/ conns[recovering].side = "A" /\ UNCHANGED node_connections
  /\ UNCHANGED <<handshake_done, owed, conns, accepting, clients, overlapped>>

-----------------------------------------------------------------------------
Results == {"connected", "failed"}

Next ==
  \/ \E c \in Clients, p \in Peers : get_existing_connection(c, p)
  \/ \E c \in Clients, p \in Peers : request_node_connection_throws(c, p)
  \/ \E c \in Clients, p \in Peers : make_new_connection(c, p)
  \/ \E c \in Clients : wake_up(c)
  \/ \E c \in Clients : spurious_wakeup(c)
  \/ \E c \in Clients : call_ends(c)
  \/ \E k \in DOMAIN conns, r \in Results : handshake_success(k, r)
  \/ notify_one
  \/ \E n \in 0..accepts : start_accept_incoming(n)
  \/ \E p \in Callers : handle_accept(p)
  \/ handle_accept_error
  \/ \E k \in DOMAIN conns, r \in Results : handshake_success_as_B(k, r)
  \/ \E k \in DOMAIN conns : io_error(k)
  \/ drop_connection_to

Spec == Init /\ [][Next]_vars

(***************************************************************************)
(* A client that was woken runs, and the io_service thread goes on to      *)
(* notify.  No call, no end of a handshake, no connection of another node  *)
(* and no error is promised.                                               *)
(***************************************************************************)
Fairness ==
  /\ \A c \in Clients : WF_vars(wake_up(c))
  /\ WF_vars(notify_one)

FairSpec == Spec /\ Fairness

-----------------------------------------------------------------------------
(***************************************************************************)
(* Type correctness of the connector's state.                              *)
(***************************************************************************)
TypeOK ==
  /\ node_connections \in [Peers -> Conns \cup {NoConn}]
  /\ handshake_done \in {"none", "success", "failure"}
  /\ owed \in Nat
  /\ conns \in Seq([peer : Peers, side : {"A", "B"}, status : Statuses])
  /\ Len(conns) <= MaxConns
  /\ accepts \in Nat /\ aborted \in Nat /\ starts \in Nat
  /\ recovering \in Conns \cup {NoConn}
  /\ pc \in [Clients -> PC]
  /\ connection \in [Clients -> Conns \cup {NoConn}]
  /\ overlapped \in BOOLEAN

Status(c) == conns[connection[c]].status

(***************************************************************************)
(* A client gets its own outcome ("we must ensure that the node has        *)
(* finished its handshake procedure", make_new_connection): a connection   *)
(* is returned only when its handshake has succeeded, and a call that made *)
(* a connection throws only when its handshake has failed.                 *)
(***************************************************************************)
OwnOutcome ==
  \A c \in Clients :
    /\ pc[c] = "returned" => Status(c) \in {"connected", "broken"}
    /\ pc[c] = "thrown" /\ connection[c] # NoConn => Status(c) = "failed"

(***************************************************************************)
(* Clients get their own outcomes, and no outcome is left behind for a     *)
(* later call, as long as no two calls are made at the same time; accepted *)
(* connections, whose handshakes end meanwhile, do not disturb that.       *)
(***************************************************************************)
OwnOutcomeAlone ==
  ~overlapped =>
    /\ OwnOutcome
    /\ handshake_done # "none" => \E c \in Clients : InCall(c)

(***************************************************************************)
(* An accepted connection that broke is in the map, and is given out to    *)
(* clients, only until the recovery point of run_async_io has the lock: it *)
(* is found by the name it was inserted under, whatever calls, accepted    *)
(* connections and errors of other connections come in between.            *)
(***************************************************************************)
BrokenAcceptedDropped ==
  \A p \in Peers :
    LET k == node_connections[p] IN
      k # NoConn /\ conns[k].side = "B" /\ conns[k].status = "broken" =>
        recovering = k

(***************************************************************************)
(* Each call of start_accept_incoming adds one accept loop, and nothing    *)
(* else adds or ends one: every loop is in an accept, in the handler of    *)
(* one that was aborted, or in the handshake of a connection it accepted.  *)
(* So a node accepts as many connections at a time as it has published its *)
(* port, failed handshakes and replaced acceptors included, and a loop     *)
(* stops only in a handshake that never ends.                              *)
(***************************************************************************)
Accepted ==
  {k \in DOMAIN conns : conns[k].side = "B" /\ conns[k].status = "handshaking"}

AcceptLoops == accepts + aborted + Cardinality(Accepted) = starts

(***************************************************************************)
(* A call whose handshake has ended returns or throws, unless two calls    *)
(* were made at the same time: the second outcome overwrites the first.    *)
(* That the handshake ends is not promised (get_connection_to waits        *)
(* without a time-out).                                                    *)
(***************************************************************************)
CallEnds ==
  \A c \in Clients :
    InCall(c) /\ Status(c) # "handshaking" ~> ~InCall(c) \/ overlapped

(***************************************************************************)
(* However many calls overlap, an outcome that was signalled is taken: one *)
(* notification for each is enough to find a client that waits or is       *)
(* awake.                                                                  *)
(***************************************************************************)
OutcomeTaken == handshake_done # "none" ~> handshake_done = "none"
=============================================================================
