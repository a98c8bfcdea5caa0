----------------------------- MODULE RemoteLinks ------------------------------
(***************************************************************************)
(* Links between mailboxes of two tinch++ nodes: what the linker of each   *)
(* node holds, the control messages between them and the connections these *)
(* travel on (impl/link_policies.cpp, impl/linker.cpp, the incoming_* and  *)
(* close operations of impl/actual_node.cpp, impl/control_msgs_impl.cpp,   *)
(* run_async_io and the map of impl/node_connector.cpp).                   *)
(*                                                                         *)
(* Each node has one application thread and its I/O thread.  Both nodes    *)
(* may call at once and have several connections, and a node takes a       *)
(* connection for made at its own time (Handshake has the messages of the  *)
(* attempt, Connector the slot its outcome goes through).  Locks, owners   *)
(* and links inside a node are the subject of NodeLinks, which shows that  *)
(* a link is stored once: a linker is a set of links, each a set of two    *)
(* pids.                                                                   *)
(***************************************************************************)
EXTENDS Naturals, Sequences, SequencesExt, FiniteSets

CONSTANTS
  Nodes,        \* the two nodes
  Boxes,        \* mailboxes, by pid
  node_of,      \* the node of each mailbox
  MaxConns,     \* bound on the connections made
  MaxCalls      \* bound on link, unlink and close calls of the clients

ASSUME RemoteAssumption ==
  /\ \E m, n \in Nodes : m # n /\ Nodes = {m, n}
  /\ node_of \in [Boxes -> Nodes]
  /\ MaxConns \in Nat /\ MaxCalls \in Nat

Conns    == 1..MaxConns
NoConn   == 0
Peer(n)  == CHOOSE m \in Nodes : m # n
At(n)    == {b \in Boxes : node_of[b] = n}
Links    == {e \in SUBSET Boxes :
               \E b, p \in e : e = {b, p} /\ node_of[b] # node_of[p]}
Other(e, b) == CHOOSE p \in e : p # b

Ops      == {"link", "unlink", "exit2"}
Message  == [op : Ops, from : Boxes, to : Boxes]
Link(m)  == {m.from, m.to}

VARIABLES
  entry,        \* the connection each node's map holds for the other node
  held,         \* the one get_connection_to has just made for a request
  dialled,      \* the node that called, for each connection
  ready,        \* <<n, c>>: c is connected at node n
  alive,        \* the connections that are not broken
  unnoticed,    \* <<n, c>>: node n has yet to learn that c broke
  stalled,      \* <<n, c>>: c lives, but what n queues on it is not written
  wire,         \* per connection and receiving node: messages under way
  lexed,        \* the same: messages read and not handled
  links,        \* the linker's links on each node
  unlinking,    \* links whose exit is reported and which are still to remove
  mailboxes,    \* the mailboxes in the maps of their nodes
  job,          \* what each node's application thread is in the middle of
  calls,        \* calls the clients have made
  closed,       \* history: mailboxes whose close has begun
  reports,      \* history: the on_link_broken calls on each mailbox
  owed,         \* history: <<b, a>>: b is to be told of the end of a
  asked,        \* history: how often each link was asked for
  crossed,      \* history: links requests for which crossed or overtook
  lost,         \* history: links a message about which was lost
  dead          \* history: links asked for when the other end had closed

connections == <<entry, dialled, ready, alive, unnoticed>>
queues      == <<held, stalled, wire>>
history     == <<owed, asked, crossed, lost, dead>>
vars == <<connections, queues, lexed, links, unlinking, mailboxes, job, calls,
          closed, reports, history>>

(***************************************************************************)
(* The threads' jobs: a link whose request is still to be sent, or is sent *)
(* and the link not stored yet; an unlink whose request is still to be     *)
(* sent; a close that still has exits to send, or only the mailbox to      *)
(* remove.                                                                 *)
(***************************************************************************)
Steps   == {"idle", "link", "store", "request", "exits"}
Job     == [step : Steps, box : SUBSET Boxes, todo : SUBSET Boxes]
Resting == [step |-> "idle", box |-> {}, todo |-> {}]
Doing(s, b, ps) == [step |-> s, box |-> {b}, todo |-> ps]

Idle(n)  == job[n] = Resting
JobLinks(n) == {e \in Links : job[n].box \subseteq e /\ e \cap job[n].todo # {}
                              /\ job[n].step \notin {"idle", "link"}}

Init ==
  /\ entry = [n \in Nodes |-> NoConn] /\ held = [n \in Nodes |-> NoConn]
  /\ dialled = <<>> /\ ready = {} /\ alive = {} /\ unnoticed = {}
  /\ stalled = {}
  /\ wire  = [c \in Conns |-> [n \in Nodes |-> <<>>]]
  /\ lexed = [c \in Conns |-> [n \in Nodes |-> <<>>]]
  /\ links = [n \in Nodes |-> {}] /\ unlinking = [n \in Nodes |-> {}]
  /\ mailboxes = Boxes
  /\ job = [n \in Nodes |-> Resting]
  /\ calls = 0 /\ closed = {}
  /\ reports = [b \in Boxes |-> <<>>]
  /\ owed = {} /\ asked = [e \in Links |-> 0]
  /\ crossed = {} /\ lost = {} /\ dead = {}

-----------------------------------------------------------------------------
(***************************************************************************)
(* Connections.                                                            *)
(***************************************************************************)

Waiting(n) ==
  \E c \in DOMAIN dialled : /\ dialled[c] = n /\ <<n, c>> \notin ready
                            /\ c \in alive \/ <<n, c>> \in unnoticed

\* The thread of n has a request to send.
Requests(n) == job[n].step \in {"link", "request", "exits"} /\ job[n].todo # {}

\* The connection get_connection_to returns: the one made, or the one found.
Conn(n)  == IF held[n] # NoConn THEN held[n] ELSE entry[n]
Found(n) == ~Waiting(n) /\ Conn(n) # NoConn

(***************************************************************************)
(* get_connection_to, when the map has no connection: this node calls the  *)
(* other one and waits, with no time-out.                                  *)
(***************************************************************************)
get_connection_to(n) ==
  /\ Requests(n) /\ ~Found(n) /\ ~Waiting(n)
  /\ Len(dialled) < MaxConns
  /\ dialled' = Append(dialled, n)
  /\ alive' = alive \cup {Len(dialled) + 1}
  /\ UNCHANGED <<entry, ready, unnoticed, queues, lexed, links, unlinking,
                 mailboxes, job, calls, closed, reports, history>>

\* The map's insert does not replace an entry.
Inserted(n, c) == entry' = [entry EXCEPT ![n] = IF @ = NoConn THEN c ELSE @]

(***************************************************************************)
(* The node that was called has written its acknowledgement.  If the       *)
(* connection has broken since, the callback of that write runs all the    *)
(* same.                                                                   *)
(***************************************************************************)
handshake_success_as_B(n, c) ==
  /\ c \in DOMAIN dialled /\ dialled[c] = Peer(n) /\ <<n, c>> \notin ready
  /\ c \in alive \/ (<<n, c>> \in unnoticed /\ <<Peer(n), c>> \in ready)
  /\ ready' = ready \cup {<<n, c>>}
  /\ Inserted(n, c)
  /\ UNCHANGED <<dialled, alive, unnoticed, queues, lexed, links, unlinking,
                 mailboxes, job, calls, closed, reports, history>>

About(e, s) == \E i \in DOMAIN s : Link(s[i]) = e

(***************************************************************************)
(* The calling node reads the acknowledgement, with the first k messages   *)
(* behind it: they stay in the lexer of the handshake.  The call gets the  *)
(* connection it has made, which need not be the one in the map.           *)
(***************************************************************************)
handshake_success(n, c, k) ==
  /\ c \in alive /\ dialled[c] = n /\ <<n, c>> \notin ready
  /\ ready' = ready \cup {<<n, c>>}
  /\ Inserted(n, c)
  /\ held' = [held EXCEPT ![n] = c]
  /\ lost' = lost \cup {e \in Links : About(e, SubSeq(wire[c][n], 1, k))}
  /\ wire' = [wire EXCEPT ![c][n] = SubSeq(@, k + 1, Len(@))]
  /\ UNCHANGED <<dialled, alive, unnoticed, stalled, lexed, links, unlinking,
                 mailboxes, job, calls, closed, reports, owed, asked, crossed,
                 dead>>

(***************************************************************************)
(* A connection breaks: what is on the wire is lost, and what its lexers   *)
(* hold is never handled, as only a further read would handle it.          *)
(***************************************************************************)
connection_breaks(c) ==
  /\ c \in alive
  /\ alive' = alive \ {c}
  /\ unnoticed' = unnoticed \cup {<<n, c>> : n \in Nodes}
  /\ lost' = lost \cup {e \in Links : \E n \in Nodes :
                          About(e, wire[c][n] \o lexed[c][n])}
  /\ wire' = [wire EXCEPT ![c] = [n \in Nodes |-> <<>>]]
  /\ lexed' = [lexed EXCEPT ![c] = [n \in Nodes |-> <<>>]]
  /\ stalled' = stalled \ {<<n, c>> : n \in Nodes}
  /\ UNCHANGED <<entry, dialled, ready, held, links, unlinking, mailboxes, job,
                 calls, closed, reports, owed, asked, crossed, dead>>

(***************************************************************************)
(* The read outstanding on a broken connection fails in the I/O thread,    *)
(* and the recovery point of run_async_io drops the connection by name:    *)
(* the full name, if the connection was accepted.  A connection made here  *)
(* goes by the short name, under which the map has nothing.  The links are *)
(* left as they are.  (The attempt of a node that waits fails instead:     *)
(* throws.)                                                                *)
(***************************************************************************)
drop_connection_to(n, c) ==
  /\ <<n, c>> \in unnoticed
  /\ <<dialled[c], c>> \in ready => <<n, c>> \in ready
  /\ dialled[c] = n => <<n, c>> \in ready
  /\ unnoticed' = unnoticed \ {<<n, c>>}
  /\ entry' = IF dialled[c] = n \/ <<n, c>> \notin ready
                THEN entry ELSE [entry EXCEPT ![n] = NoConn]
  /\ UNCHANGED <<dialled, ready, alive, queues, lexed, links, unlinking,
                 mailboxes, job, calls, closed, reports, history>>

UnderWayTo(n, e) == \E c \in Conns : About(e, wire[c][n] \o lexed[c][n])

\* Messages of n about e are under way on another connection.
Overtaking(n, e) ==
  IF \E c \in Conns \ {Conn(n)} : About(e, wire[c][Peer(n)] \o lexed[c][Peer(n)])
    THEN {e} ELSE {}

(***************************************************************************)
(* A request: control_msg::execute on the connection found.  It is written *)
(* unless the connection is broken or its queue has stalled, which it may  *)
(* do now: the write before is completing in the I/O thread while this     *)
(* thread looks at the queue (AsyncWrite).                                 *)
(***************************************************************************)
Posted(n, m, more) ==
  /\ Found(n)
  /\ held' = [held EXCEPT ![n] = NoConn]
  /\ crossed' = crossed \cup more \cup Overtaking(n, Link(m))
  /\ \/ /\ Conn(n) \in alive /\ <<n, Conn(n)>> \notin stalled
        /\ wire' = [wire EXCEPT ![Conn(n)][Peer(n)] = Append(@, m)]
        /\ UNCHANGED <<stalled, lost>>
     \/ /\ stalled' = stalled \cup {<<n, c>> : c \in alive \cap {Conn(n)}}
        /\ lost' = lost \cup {Link(m)}
        /\ UNCHANGED wire

-----------------------------------------------------------------------------
(***************************************************************************)
(* The clients' calls.                                                     *)
(***************************************************************************)
Msg(op, p, q) == [op |-> op, from |-> p, to |-> q]

UnlinkPending(n, e) == job[n].step = "request" /\ e \in JobLinks(n)

Crossing(n, e) ==
  IF UnderWayTo(n, e) \/ UnlinkPending(Peer(n), e) THEN {e} ELSE {}

Calls(n) == Idle(n) /\ calls < MaxCalls /\ calls' = calls + 1

(***************************************************************************)
(* link to a remote process: the request is sent, and only then is the     *)
(* link stored.                                                            *)
(***************************************************************************)
link(n, b, p) ==
  /\ Calls(n) /\ b \in At(n) \ closed /\ p \in At(Peer(n))
  /\ job' = [job EXCEPT ![n] = Doing("link", b, {p})]
  /\ UNCHANGED <<connections, queues, lexed, links, unlinking, mailboxes,
                 closed, reports, history>>

\* Mutant: the request is not sent.
request_link_silently(n) ==
  /\ job[n].step = "link"
  /\ \E b \in job[n].box, p \in job[n].todo :
       /\ Found(n) /\ held' = [held EXCEPT ![n] = NoConn]
       /\ asked' = [asked EXCEPT ![{b, p}] = @ + 1]
  /\ job' = [job EXCEPT ![n].step = "store"]
  /\ UNCHANGED <<connections, stalled, wire, lexed, links, unlinking, mailboxes,
                 calls, closed, reports, owed, crossed, lost, dead>>

request_link(n) ==
  /\ job[n].step = "link"
  /\ \E b \in job[n].box, p \in job[n].todo :
       /\ Posted(n, Msg("link", b, p), Crossing(n, {b, p}))
       /\ asked' = [asked EXCEPT ![{b, p}] = @ + 1]
  /\ job' = [job EXCEPT ![n].step = "store"]
  /\ UNCHANGED <<connections, lexed, links, unlinking, mailboxes, calls, closed,
                 reports, owed, dead>>

store_link(n) ==
  /\ job[n].step = "store"
  /\ links' = [links EXCEPT ![n] = @ \cup JobLinks(n)]
  /\ job' = [job EXCEPT ![n] = Resting]
  /\ UNCHANGED <<connections, queues, lexed, unlinking, mailboxes, calls,
                 closed, reports, history>>

(***************************************************************************)
(* unlink from a remote process: the link is removed, and only then is the *)
(* request sent.                                                           *)
(***************************************************************************)
unlink(n, b, p) ==
  /\ Calls(n) /\ b \in At(n) \ closed /\ p \in At(Peer(n))
  /\ links' = [links EXCEPT ![n] = @ \ {{b, p}}]
  /\ job' = [job EXCEPT ![n] = Doing("request", b, {p})]
  /\ crossed' = crossed \cup Crossing(n, {b, p})
  /\ UNCHANGED <<connections, queues, lexed, unlinking, mailboxes, closed,
                 reports, owed, asked, lost, dead>>

request_unlink(n) ==
  /\ job[n].step = "request"
  /\ \E b \in job[n].box, p \in job[n].todo : Posted(n, Msg("unlink", b, p), {})
  /\ job' = [job EXCEPT ![n] = Resting]
  /\ UNCHANGED <<connections, lexed, links, unlinking, mailboxes, calls, closed,
                 reports, owed, asked, dead>>

(***************************************************************************)
(* close: by the client, and again by the destructor.  The links of the    *)
(* mailbox leave the linker, the processes at their other ends are sent an *)
(* EXIT2 one by one, and the mailbox is removed.                           *)
(***************************************************************************)
LinksOf(n, b) == {e \in links[n] : b \in e}

\* Mutant: the links stay in the linker.
close_links_keeping(n, b) ==
  /\ Calls(n) /\ b \in At(n)
  /\ closed' = closed \cup {b}
  /\ LET told == {Other(e, b) : e \in LinksOf(n, b)} IN
       /\ job' = [job EXCEPT ![n] = Doing("exits", b, told)]
       /\ owed' = owed \cup {<<p, b>> : p \in told}
  /\ UNCHANGED <<connections, queues, lexed, links, unlinking, mailboxes,
                 reports, asked, crossed, lost, dead>>

close_links_for_local(n, b) ==
  /\ Calls(n) /\ b \in At(n)
  /\ closed' = closed \cup {b}
  /\ links' = [links EXCEPT ![n] = @ \ LinksOf(n, b)]
  /\ LET told == {Other(e, b) : e \in LinksOf(n, b)} IN
       /\ job' = [job EXCEPT ![n] = Doing("exits", b, told)]
       /\ owed' = owed \cup {<<p, b>> : p \in told}
  /\ UNCHANGED <<connections, queues, lexed, unlinking, mailboxes, reports,
                 asked, crossed, lost, dead>>

request_exit2(n) ==
  /\ job[n].step = "exits"
  /\ \E b \in job[n].box, p \in job[n].todo :
       /\ Posted(n, Msg("exit2", b, p), {})
       /\ job' = [job EXCEPT ![n].todo = @ \ {p}]
  /\ UNCHANGED <<connections, lexed, links, unlinking, mailboxes, calls, closed,
                 reports, owed, asked, dead>>

(***************************************************************************)
(* A request that throws ends the call: the other node cannot be reached,  *)
(* or the attempt waited for fails.  What is still to be sent is not.      *)
(***************************************************************************)
throws(n) ==
  /\ Requests(n) /\ ~Found(n)
  /\ \/ ~Waiting(n) /\ UNCHANGED unnoticed
     \/ \E c \in DOMAIN dialled :
          /\ dialled[c] = n /\ <<n, c>> \notin ready /\ <<n, c>> \in unnoticed
          /\ unnoticed' = unnoticed \ {<<n, c>>}
  /\ lost' = lost \cup JobLinks(n)
  /\ job' = [job EXCEPT ![n] = Resting]
  /\ UNCHANGED <<entry, dialled, ready, alive, queues, lexed, links, unlinking,
                 mailboxes, calls, closed, reports, owed, asked, crossed, dead>>

remove(n) ==
  /\ job[n].step = "exits" /\ job[n].todo = {}
  /\ mailboxes' = mailboxes \ job[n].box
  /\ job' = [job EXCEPT ![n] = Resting]
  /\ UNCHANGED <<connections, queues, lexed, links, unlinking, calls, closed,
                 reports, history>>

-----------------------------------------------------------------------------
(***************************************************************************)
(* What the I/O thread does with a control message.                        *)
(***************************************************************************)
incoming_link(n, m) ==
  /\ m.op = "link"
  /\ links' = [links EXCEPT ![n] = @ \cup {Link(m)}]
  /\ dead' = IF m.to \in closed THEN dead \cup {Link(m)} ELSE dead
  /\ UNCHANGED <<unlinking, reports, owed>>

incoming_unlink(n, m) ==
  /\ m.op = "unlink"
  /\ links' = [links EXCEPT ![n] = @ \ {Link(m)}]
  /\ UNCHANGED <<unlinking, reports, owed, dead>>

\* Mutant: the exit removes the link and is not reported.
incoming_exit2_quiet(n, m) ==
  /\ m.op = "exit2"
  /\ unlinking' = [unlinking EXCEPT ![n] = {Link(m)}]
  /\ UNCHANGED <<links, reports, owed, dead>>

(***************************************************************************)
(* An exit for a mailbox that is gone throws, before the link is removed;  *)
(* the connection catches that and reads on.  The report and the removal   *)
(* of the link are two steps: the linker's lock is taken for the second.   *)
(***************************************************************************)
incoming_exit2(n, m) ==
  /\ m.op = "exit2"
  /\ IF m.to \in mailboxes
       THEN /\ reports' = [reports EXCEPT ![m.to] = Append(@, m.from)]
            /\ owed' = owed \ {<<m.to, m.from>>}
            /\ unlinking' = [unlinking EXCEPT ![n] = {Link(m)}]
       ELSE UNCHANGED <<reports, owed, unlinking>>
  /\ UNCHANGED <<links, dead>>

unlink_exited(n) ==
  /\ unlinking[n] # {}
  /\ links' = [links EXCEPT ![n] = @ \ unlinking[n]]
  /\ unlinking' = [unlinking EXCEPT ![n] = {}]
  /\ UNCHANGED <<connections, queues, lexed, mailboxes, job, calls, closed,
                 reports, history>>

(***************************************************************************)
(* A read brings one or more messages; one message is handled for each     *)
(* read (connected::msg_received).                                         *)
(***************************************************************************)
msg_received(n, c, k) ==
  /\ <<n, c>> \in ready /\ unlinking[n] = {}
  /\ LET read == lexed[c][n] \o SubSeq(wire[c][n], 1, k)
         m == Head(read)
     IN  /\ lexed' = [lexed EXCEPT ![c][n] = Tail(read)]
         /\ \/ incoming_link(n, m)
            \/ incoming_unlink(n, m)
            \/ incoming_exit2(n, m)
         /\ crossed' = IF Link(m) \in JobLinks(n) THEN crossed \cup {Link(m)}
                                                  ELSE crossed
  /\ wire' = [wire EXCEPT ![c][n] = SubSeq(@, k + 1, Len(@))]
  /\ UNCHANGED <<connections, held, stalled, mailboxes, job, calls, closed,
                 asked, lost>>

-----------------------------------------------------------------------------
Next ==
  \/ \E n \in Nodes : get_connection_to(n)
  \/ \E n \in Nodes, c \in Conns : handshake_success_as_B(n, c)
  \/ \E n \in Nodes, c \in Conns :
       \E k \in 0..Len(wire[c][n]) : handshake_success(n, c, k)
  \/ \E c \in Conns : connection_breaks(c)
  \/ \E n \in Nodes, c \in Conns : drop_connection_to(n, c)
  \/ \E n \in Nodes, b, p \in Boxes : link(n, b, p)
  \/ \E n \in Nodes : request_link(n)
  \/ \E n \in Nodes : store_link(n)
  \/ \E n \in Nodes, b, p \in Boxes : unlink(n, b, p)
  \/ \E n \in Nodes : request_unlink(n)
  \/ \E n \in Nodes, b \in Boxes : close_links_for_local(n, b)
  \/ \E n \in Nodes : request_exit2(n)
  \/ \E n \in Nodes : throws(n)
  \/ \E n \in Nodes : remove(n)
  \/ \E n \in Nodes, c \in Conns :
       \E k \in 1..Len(wire[c][n]) : msg_received(n, c, k)
  \/ \E n \in Nodes : unlink_exited(n)

Spec == Init /\ [][Next]_vars

-----------------------------------------------------------------------------
(***************************************************************************)
(* Type correctness of both nodes' state.                                  *)
(***************************************************************************)
TypeOK ==
  /\ entry \in [Nodes -> Conns \cup {NoConn}]
  /\ held \in [Nodes -> Conns \cup {NoConn}]
  /\ dialled \in Seq(Nodes) /\ alive \subseteq DOMAIN dialled
  /\ ready \in SUBSET (Nodes \X Conns) /\ unnoticed \in SUBSET (Nodes \X Conns)
  /\ stalled \in SUBSET (Nodes \X Conns)
  /\ wire \in [Conns -> [Nodes -> Seq(Message)]]
  /\ lexed \in [Conns -> [Nodes -> Seq(Message)]]
  /\ links \in [Nodes -> SUBSET Links] /\ unlinking \in [Nodes -> SUBSET Links]
  /\ mailboxes \subseteq Boxes /\ closed \subseteq Boxes
  /\ job \in [Nodes -> Job]
  /\ calls \in 0..MaxCalls
  /\ reports \in [Boxes -> Seq(Boxes)]
  /\ owed \in SUBSET (Boxes \X Boxes)
  /\ asked \in [Links -> Nat]
  /\ crossed \subseteq Links /\ lost \subseteq Links /\ dead \subseteq Links

Settled(e) ==
  \A n \in Nodes :
    e \notin JobLinks(n) /\ e \notin unlinking[n] /\ ~UnderWayTo(n, e)

Excused == crossed \cup lost \cup dead

(***************************************************************************)
(* When nothing about a link is under way, the two nodes agree on it, and  *)
(* the node of a mailbox whose partner has closed does not hold it any     *)
(* more.  The exceptions are named: requests from both ends that crossed,  *)
(* also the link stored after its request was answered already             *)
(* (link_policies.cpp:81), and requests from one end on two connections;   *)
(* a message lost with a connection ("TODO: consider linked mailboxes?",   *)
(* run_async_io), with the acknowledgement of the handshake, in a stalled  *)
(* queue or by a request that threw; a link to a mailbox closed before,    *)
(* which incoming_link does not look at.                                   *)
(***************************************************************************)
LinksAgree ==
  \A e \in Links \ Excused :
    Settled(e) =>
      /\ e \cap closed = {} => \A m, n \in Nodes : e \in links[m] => e \in links[n]
      /\ \A b \in e : b \notin closed /\ Other(e, b) \in closed =>
                        e \notin links[node_of[b]]

ExitUnderWay(p, b) ==
  LET n == node_of[p] IN
    \/ \E c \in Conns : \E i \in DOMAIN (wire[c][n] \o lexed[c][n]) :
         (wire[c][n] \o lexed[c][n])[i] = Msg("exit2", b, p)
    \/ job[Peer(n)].step = "exits" /\ b \in job[Peer(n)].box /\ p \in job[Peer(n)].todo

(***************************************************************************)
(* The end of a mailbox is not kept from the processes it was linked to:   *)
(* each is told, or an exit is under way to it, unless it has closed       *)
(* itself, or a message about the link was lost: with its connection, with *)
(* the acknowledgement of the handshake, in a stalled queue or by a        *)
(* request that threw (mailbox.h: "if this mailbox is closed, the linked   *)
(* process will receive an Erlang exit signal").                           *)
(***************************************************************************)
ExitNotLost ==
  \A d \in owed :
    ExitUnderWay(d[1], d[2]) \/ d[1] \in closed \/ {d[1], d[2]} \in lost

Count(s, P(_)) == Cardinality({i \in DOMAIN s : P(s[i])})
One(P) == IF P THEN 1 ELSE 0

(***************************************************************************)
(* The end of a link is reported at most once to each of its ends for each *)
(* time the link was asked for, whatever links, unlinks and closes (the    *)
(* client's and the destructor's) cross on the way.                        *)
(***************************************************************************)
ReportedPerLink ==
  \A b \in Boxes : \A p \in At(Peer(node_of[b])) :
    Count(reports[p], LAMBDA x : x = b) + One(ExitUnderWay(p, b))
      + One({b, p} \in links[node_of[b]])
      <= asked[{b, p}]
=============================================================================
