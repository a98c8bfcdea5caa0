------------------------------ MODULE NodeStart -------------------------------
(***************************************************************************)
(* How a node gets its identity and its mailboxes theirs                   *)
(* (impl/actual_node.cpp, impl/epmd_requestor.cpp): the node registers at  *)
(* EPMD, which gives it a creation number; mailboxes are numbered by two   *)
(* counters that wrap around and are guarded by no lock, and are kept in a *)
(* std::map ordered by operator<, which looks at the numbers only.         *)
(*                                                                         *)
(* operator< is not an order, so what the map does is decided by the shape *)
(* of its tree.  The tree is exact here for up to two entries, which the   *)
(* guard of make_pid keeps to (MaxEntries).                                *)
(***************************************************************************)
EXTENDS Epmd, FiniteSets

CONSTANTS
  Threads,       \* application threads
  max_pid_id,    \* 0x7fff in the code
  max_serial,    \* 0x1fff in the code
  own_name,      \* the node's name, as bytes
  own_port,      \* the port it publishes
  peer_name,     \* another node's name
  peer_port,     \* and its port, known to EPMD
  Creations,     \* creation numbers EPMD gives out
  MaxSpent       \* bound on the mailboxes and connections to EPMD (see Spent)

ASSUME StartAssumption ==
  /\ max_pid_id \in Nat \ {0} /\ max_serial \in Nat
  /\ own_name \in Seq(Byte) /\ msg_length(own_name) \in Word
  /\ own_port \in Word \ {0} /\ peer_port \in Word \ {0}
  /\ Creations \subseteq Word \ {0}
  /\ MaxSpent \in Nat

MaxEntries == 2
Boxes      == 1..MaxSpent      \* mailboxes, in the order they are begun
NoBox      == 0
Period     == (max_pid_id + 1) * (max_serial + 1)

VARIABLES
  pid_id, serial, creation,    \* the node's counters
  made,          \* the number of mailboxes begun so far
  job,           \* what each thread is doing: a step, and its mailbox
  tree,          \* the map's entries, root first: key and mailbox
  left,          \* whether the second entry is the left child of the root
  pid_of,        \* the pid of each mailbox
  open,          \* the mailboxes created and not closed
  socket,        \* each thread's connection to EPMD: the bytes in it
  registered,    \* what EPMD holds for the node
  accepting,     \* whether the node listens
  asked,         \* the number of connections to EPMD so far
  published,     \* history: how the last publish_port has ended
  ports,         \* history: the ports returned for the other node
  cut,           \* history: an answer of EPMD was read in part
  raced,         \* history: two calls of make_pid have overlapped
  muddled        \* history: the map has held keys that it cannot order

pids  == <<pid_id, serial, creation, made, pid_of, raced>>
boxes == <<tree, left, open, muddled>>
epmd  == <<socket, registered, accepting, asked, published, ports, cut>>
vars  == <<pids, boxes, epmd, job>>

Pid(i, s, c) == [id |-> i, serial |-> s, creation |-> c]

Creating   == {"increment", "wrap", "insert"}
Publishing == {"connected", "requested", "answered", "accept"}
Asking     == {"asked", "told"}

At(t, s)      == job[t].step = s
Goto(t, s, b) == job' = [job EXCEPT ![t] = [step |-> s, box |-> b]]
Resting       == [step |-> "idle", box |-> NoBox]

Init ==
  /\ pid_id = 1 /\ serial = 0 /\ creation = 0
  /\ made = 0 /\ asked = 0
  /\ job = [t \in Threads |-> Resting]
  /\ tree = <<>> /\ left = FALSE
  /\ pid_of = [b \in Boxes |-> Pid(0, 0, 0)]
  /\ open = {}
  /\ socket = [t \in Threads |-> <<>>]
  /\ registered = NotRegistered /\ accepting = FALSE
  /\ published = "never" /\ ports = {}
  /\ cut = FALSE /\ raced = FALSE /\ muddled = FALSE

\* One bound for both: a connection to EPMD counts as much as three mailboxes.
Spent == made + 3 * asked

-----------------------------------------------------------------------------
(***************************************************************************)
(* The map of mailboxes: find, insert and erase of a tree of at most two   *)
(* entries, as they descend by comparisons.                                *)
(***************************************************************************)

Less(p, q) == p.id < q.id \/ p.serial < q.serial       \* operator<

Key(i) == tree[i].key

(***************************************************************************)
(* Where the search for p ends: from the root to the right if the root is  *)
(* less than p; otherwise the root is the candidate, and the search goes   *)
(* on to the left.  0 stands for none.                                     *)
(***************************************************************************)
Candidate(p) ==
  LET Child(side) == Len(tree) = 2 /\ left = side /\ ~Less(Key(2), p) IN
    CASE tree = <<>>                        -> 0
      [] tree # <<>> /\ Less(Key(1), p)    -> IF Child(FALSE) THEN 2 ELSE 0
      [] tree # <<>> /\ ~Less(Key(1), p)   -> IF Child(TRUE) THEN 2 ELSE 1

find(p) ==
  LET i == Candidate(p) IN IF i # 0 /\ ~Less(p, Key(i)) THEN i ELSE 0

Lookup(p) == IF find(p) = 0 THEN NoBox ELSE tree[find(p)].box   \* fetch_mailbox

(***************************************************************************)
(* insert: at the root of an empty tree, left of the root if less than it, *)
(* right of it if the root is less.  Otherwise the key is there already    *)
(* and nothing is inserted.                                                *)
(***************************************************************************)
insert(p, b) ==
  \/ /\ tree = <<>>
     /\ tree' = <<[key |-> p, box |-> b]>> /\ left' = FALSE
  \/ /\ tree # <<>> /\ (Less(p, Key(1)) \/ Less(Key(1), p))
     /\ tree' = Append(tree, [key |-> p, box |-> b])
     /\ left' = Less(p, Key(1))
  \/ /\ tree # <<>> /\ ~Less(p, Key(1)) /\ ~Less(Key(1), p)
     /\ UNCHANGED <<tree, left>>

erase(p) ==
  LET i == find(p) IN
    /\ tree' = IF i = 0 THEN tree ELSE [k \in 1..Len(tree) - 1 |-> tree[3 - i]]
    /\ left' = (left /\ i = 0)

(***************************************************************************)
(* Keys that operator< puts before each other both ways, and equal keys of *)
(* mailboxes so far apart that the counters have come round.               *)
(***************************************************************************)
SameNumbers(p, q) == p.id = q.id /\ p.serial = q.serial

Unordered(p, q) == p.id < q.id /\ q.serial < p.serial

Muddles(p, b) ==
  \E i \in 1..Len(tree) :
    \/ Unordered(p, Key(i)) \/ Unordered(Key(i), p)
    \/ SameNumbers(p, Key(i)) /\ (b - tree[i].box) % Period = 0

-----------------------------------------------------------------------------
(***************************************************************************)
(* create_mailbox.  make_pid copies the counters and update_pid_fields     *)
(* moves them on, both outside any lock.                                   *)
(***************************************************************************)
Entries == Len(tree) + Cardinality({u \in Threads : job[u].step \in Creating})

make_pid(t) ==
  /\ At(t, "idle") /\ Spent < MaxSpent /\ Entries < MaxEntries
  /\ made' = made + 1
  /\ pid_of' = [pid_of EXCEPT ![made + 1] = Pid(pid_id, serial, creation)]
  /\ Goto(t, "increment", made + 1)
  /\ raced' = (raced \/ \E u \in Threads : job[u].step \in {"increment", "wrap"})
  /\ UNCHANGED <<pid_id, serial, creation, boxes, epmd>>

\* Mutant: the id stays at its maximum.
increment_stuck(t) ==
  /\ At(t, "increment")
  /\ pid_id' = IF pid_id = max_pid_id THEN pid_id ELSE pid_id + 1
  /\ Goto(t, "insert", job[t].box)
  /\ UNCHANGED <<serial, creation, made, pid_of, raced, boxes, epmd>>

increment(t) ==
  /\ At(t, "increment")
  /\ pid_id' = pid_id + 1
  /\ Goto(t, IF pid_id + 1 > max_pid_id THEN "wrap" ELSE "insert", job[t].box)
  /\ UNCHANGED <<serial, creation, made, pid_of, raced, boxes, epmd>>

wrap(t) ==
  /\ At(t, "wrap")
  /\ pid_id' = 0
  /\ serial' = IF serial + 1 > max_serial THEN 0 ELSE serial + 1
  /\ Goto(t, "insert", job[t].box)
  /\ UNCHANGED <<creation, made, pid_of, raced, boxes, epmd>>

(***************************************************************************)
(* The insert into the map, under mailboxes_lock.  The mailbox is returned *)
(* even if the map has refused it: that it has not is only asserted.       *)
(***************************************************************************)
create_mailbox(t) ==
  LET b == job[t].box IN
    /\ At(t, "insert")
    /\ insert(pid_of[b], b)
    /\ open' = open \cup {b}
    /\ muddled' = (muddled \/ Muddles(pid_of[b], b))
    /\ Goto(t, "idle", NoBox)
    /\ UNCHANGED <<pids, epmd>>

close_mailbox(t, b) ==
  /\ At(t, "idle") /\ b \in open
  /\ open' = open \ {b}
  /\ erase(pid_of[b])
  /\ UNCHANGED <<muddled, pids, epmd, job>>

-----------------------------------------------------------------------------
(***************************************************************************)
(* publish_port, called by one thread at a time.  Connecting closes the    *)
(* socket of an earlier registration, which ends it.  Any step may throw.  *)
(***************************************************************************)
throws(t) ==
  /\ job' = [job EXCEPT ![t] = Resting]
  /\ socket' = [socket EXCEPT ![t] = <<>>]
  /\ published' = IF job[t].step \in Asking THEN published ELSE "failed"

epmd_connect(t) ==
  /\ At(t, "idle") /\ Spent + 3 <= MaxSpent
  /\ \A u \in Threads : job[u].step \notin Publishing
  /\ asked' = asked + 1
  /\ registered' = NotRegistered
  /\ \/ Goto(t, "connected", NoBox) /\ published' = "begun" /\ UNCHANGED socket
     \/ throws(t)
  /\ UNCHANGED <<pids, boxes, accepting, ports, cut>>

alive2_request(t) ==
  /\ At(t, "connected")
  /\ \/ /\ socket' = [socket EXCEPT ![t] = alive2_req(own_name, own_port)]
        /\ Goto(t, "requested", NoBox) /\ UNCHANGED published
     \/ throws(t)
  /\ UNCHANGED <<pids, boxes, registered, accepting, asked, ports, cut>>

(***************************************************************************)
(* EPMD registers the node and gives it a creation number, or refuses (the *)
(* name may be taken).                                                     *)
(***************************************************************************)
epmd_registers(t) ==
  LET node == epmd_reads(socket[t]) IN
    /\ At(t, "requested")
    /\ \/ /\ node # NotRegistered
          /\ \E c \in Creations :
               /\ registered' = [node EXCEPT !.creation = c]
               /\ socket' = [socket EXCEPT ![t] = ALIVE2_RESP(0, c)]
       \/ /\ socket' = [socket EXCEPT ![t] = ALIVE2_RESP(1, 0)]
          /\ UNCHANGED registered
    /\ Goto(t, "answered", NoBox)
    /\ UNCHANGED <<pids, boxes, accepting, asked, published, ports, cut>>

\* What one read_some brings of the answer, and whether that is all.
Parts(t)   == {SubSeq(socket[t], 1, k) : k \in 1..Len(socket[t])}
Cuts(t, m) == cut' = (cut \/ m # socket[t])

\* Mutant: the result is not looked at.
receive_alive_response_any(t) ==
  /\ At(t, "answered")
  /\ \E m \in Parts(t) :
       /\ Cuts(t, m)
       /\ creation' = alive2_resp(ReadInto(16, m)).creation
  /\ Goto(t, "accept", NoBox)
  /\ UNCHANGED <<pid_id, serial, made, pid_of, raced, boxes,
                 socket, registered, accepting, asked, published, ports>>

receive_alive_response(t) ==
  /\ At(t, "answered")
  /\ \/ \E m \in Parts(t) :
          LET response == alive2_resp(ReadInto(16, m)) IN
            /\ Cuts(t, m)
            /\ \/ /\ response.result = 0
                  /\ creation' = response.creation
                  /\ Goto(t, "accept", NoBox) /\ UNCHANGED <<socket, published>>
               \/ response.result # 0 /\ throws(t) /\ UNCHANGED creation
     \/ throws(t) /\ UNCHANGED <<creation, cut>>             \* a read error
  /\ UNCHANGED <<pid_id, serial, made, pid_of, raced, boxes,
                 registered, accepting, asked, ports>>

(***************************************************************************)
(* The acceptor is created, which throws if the port is in use, by the     *)
(* node's own acceptor for one.                                            *)
(***************************************************************************)
start_accept_incoming(t) ==
  /\ At(t, "accept")
  /\ \/ /\ ~accepting /\ accepting' = TRUE
        /\ Goto(t, "idle", NoBox) /\ published' = "done"
        /\ socket' = [socket EXCEPT ![t] = <<>>]
     \/ throws(t) /\ UNCHANGED accepting
  /\ UNCHANGED <<pids, boxes, registered, asked, ports, cut>>

-----------------------------------------------------------------------------
(***************************************************************************)
(* port_please2_request, on a socket of its own.                           *)
(***************************************************************************)
port_please2_request(t) ==
  /\ At(t, "idle") /\ Spent + 3 <= MaxSpent
  /\ asked' = asked + 1
  /\ \/ /\ socket' = [socket EXCEPT ![t] = port_please2_req(peer_name)]
        /\ Goto(t, "asked", NoBox)
     \/ UNCHANGED <<socket, job>>                             \* throws
  /\ UNCHANGED <<pids, boxes, registered, accepting, published, ports, cut>>

epmd_tells(t) ==
  /\ At(t, "asked")
  /\ \/ /\ epmd_looks_up(socket[t]) = peer_name
        /\ socket' = [socket EXCEPT ![t] = PORT2_RESP(peer_port)]
     \/ socket' = [socket EXCEPT ![t] = PORT2_REFUSED]
  /\ Goto(t, "told", NoBox)
  /\ UNCHANGED <<pids, boxes, registered, accepting, asked, published, ports, cut>>

receive_port_resp(t) ==
  /\ At(t, "told")
  /\ \/ \E m \in Parts(t) :
          LET response == port2_resp_result(ReadInto(128, m)) IN
            /\ Cuts(t, m)
            /\ ports' = IF response.result = 0 THEN ports \cup {response.port}
                                              ELSE ports
     \/ UNCHANGED <<ports, cut>>                              \* a read error
  /\ throws(t)
  /\ UNCHANGED <<pids, boxes, registered, accepting, asked>>

-----------------------------------------------------------------------------
Next ==
  \E t \in Threads :
    \/ make_pid(t) \/ increment(t) \/ wrap(t) \/ create_mailbox(t)
    \/ \E b \in Boxes : close_mailbox(t, b)
    \/ epmd_connect(t) \/ alive2_request(t) \/ epmd_registers(t)
    \/ receive_alive_response(t) \/ start_accept_incoming(t)
    \/ port_please2_request(t) \/ epmd_tells(t) \/ receive_port_resp(t)

Spec == Init /\ [][Next]_vars

-----------------------------------------------------------------------------
(***************************************************************************)
(* A pid leads to the mailbox it was given to while that is open, and to   *)
(* none afterwards (node.h: "Messages can be sent to this mailbox by using *)
(* its registered name or its pid"), as long as no two calls of make_pid   *)
(* overlap and no two mailboxes are open together that operator< cannot    *)
(* order; this cannot happen before the id has wrapped around.  What       *)
(* remains is the pid of a closed mailbox, which reaches the one that was  *)
(* given the same numbers a whole number of Periods away.                  *)
(***************************************************************************)
PidFindsMailbox ==
  /\ muddled /\ ~raced => made > max_pid_id
  /\ ~muddled /\ ~raced =>
       \A b \in 1..made :
         LET found == Lookup(pid_of[b]) IN
           \/ \E t \in Threads : job[t].box = b
           \/ found = b /\ b \in open
           \/ found = NoBox /\ b \notin open
           \/ found # NoBox /\ b \notin open /\ (found - b) % Period = 0

(***************************************************************************)
(* As long as no answer of EPMD is read in part: EPMD understands every    *)
(* request as it was meant; when publish_port has returned, and no later   *)
(* call has begun, the node listens on the port that EPMD tells others and *)
(* its pids carry the creation number EPMD has given it; and the port used *)
(* for another node is that node's.                                        *)
(***************************************************************************)
EpmdAgrees ==
  /\ \A t \in Threads :
       At(t, "requested") =>
         /\ epmd_reads(socket[t]).name = own_name
         /\ epmd_reads(socket[t]).port = own_port
  /\ published = "done" /\ ~cut =>
       /\ accepting
       /\ registered = [name |-> own_name, port |-> own_port, creation |-> creation]
  /\ ~cut => ports \subseteq {peer_port}
=============================================================================
