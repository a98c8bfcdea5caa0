# A verification project for tinch++

tinch++ (`src/`) is a C++ library with which a program becomes a distributed
Erlang node: it creates mailboxes, sends messages to Erlang processes, links to
them, and calls functions on other nodes.  This directory holds TLA+ models of
the library, the TLC configurations that check them on small instances, and
proofs checked by TLAPS.

    cd tla
    tlc -workers 2 -config MailboxShared.cfg MCMailbox    # any run of PROJECT.json
    tlapm MailboxProofs.tla                               # the proofs

## 1. The system

### Components

| component | state | operations | module |
|---|---|---|---|
| mailbox (`impl/actual_mailbox.cpp`) | messages, broken links, the flag `message_ready`, a condition variable, one timer per timed call | `receive` with and without a time-out, `on_incoming`, `on_link_broken`, the time-out handler | `Mailbox`, `AbstractMailbox` |
| node (`impl/actual_node.cpp`) | mailboxes by pid and by name, one lock for both, pid counters | publish the port; create, deliver, close, remove; the incoming control messages; the recovery point of the I/O thread | `NodeLinks`, `NodeStart`, `Connector` |
| linker (`impl/linker.cpp`, `impl/link_policies.cpp`) | the list of links, a lock | link, unlink, close and break the links of a process, here or on another node | `NodeLinks`, `RemoteLinks` |
| asynchronous TCP/IP (`impl/node_async_tcp_ip.cpp`) | the queue of messages to write, the read buffer | start and complete a write, start and complete a read | `AsyncWrite`, `Handshake` |
| connection (`impl/node_connection.cpp`, `impl/node_connection_state.cpp`) | the current state object, two lexers, the peer's name, the own challenge | the steps of the handshake as caller (A) and as called (B), reads and sends once connected, I/O errors | `Handshake`, `HandshakeFormats` |
| connector (`impl/node_connector.cpp`) | connections by node name, a slot for the outcome of a handshake, a condition variable | `get_connection_to`, the accept loop, drop a connection | `Connector` |
| message lexer (`impl/utils.cpp`) | bytes not yet part of a whole message, whole messages | add bytes, next message | `Lexer`, in `MessagePath` and `HandshakeFormats` |
| control messages (`impl/ctrl_msg_dispatcher.cpp`, `impl/ext_message_builder.cpp`, `impl/control_msgs_impl.cpp`) | none | build, dispatch | `ControlMsgs`, `MessagePath`, `RemoteLinks` |
| rpc (`impl/rpc.cpp`) | a mailbox of its own | a call with or without a time-out | `Rpc` |
| EPMD requests (`impl/epmd_requestor.cpp`, `impl/epmd_protocol.h`) | the socket of the registration | register, look up a port | `Epmd`, `NodeStart` |
| handshake formats (`impl/handshake_grammar.h`) | none | generate, parse | `HandshakeFormats` |
| terms (`impl/ext_term_grammar.h`, `impl/list_matcher.h`, ...) | none | match, serialize | `Terms`, as pure operators |
| MD5, Loki utilities, exceptions, constants | none | | not modelled: third party, or without state |

### Threads and how components meet

A node has one thread that runs the `io_service`: every network callback, timer
handler and posted function runs there, one at a time.  The application's
threads call the library directly.  They meet in

* a mailbox: the I/O thread, or another application thread that sends to a
  mailbox of the same node, delivers; application threads receive;
* the node's maps of mailboxes, under `mailboxes_lock`;
* the linker's list, under `links_lock`;
* a connection's write queue, under **no** lock: application threads push,
  the I/O thread pops;
* the connector's map and slot, under `node_connections_mutex`, which the
  insertion of an accepted connection does not take.

A send to another node asks the connector for a connection, which may block in
a handshake; the connection's state writes the message.  Closing a mailbox
removes its links and tells each linked process: a mailbox of the same node
directly, others through a connection, which may throw.  The last owner of a
mailbox closes it in its destructor, in whatever thread it happens to be.

### What is hard

Listed line by line in PROJECT.json (`hazards`): a shared flag for several
receivers and several events; notifications sent after an unlock; timers
cancelled too late; a queue tested by one thread while another empties it;
locks taken by destructors; exits sent one by one outside the lock; handshakes
in which either end, or the network, gives up at any point, without any
time-out; one outcome slot for all connection attempts; connections dropped by
name; control messages that cross, or are lost with their connection, while
each node keeps its own list of links; answers that nothing ties to their
calls; counters that wrap around and an order that is none; answers read with a
single `read_some`.

## 2. The models

All modules use the names of the source.  `\* Mutant:` marks alternative
definitions that no specification uses: each is a plausible mistake in the
code, and PROJECT.json names the property that catches it.

### Mailbox, AbstractMailbox

`Mailbox` has one action per critical section of `received_msgs_mutex`
(`wait_for_at_least_one_message`, `wake_up`, `on_incoming`, `on_link_broken`,
`receive_tmo`), and separate actions for what happens outside it: `notify_one`
(the code unlocks before it notifies; `owed` counts the notifications due),
spurious wake-ups, a timer running out, its handler being run later, the return
of a call with the cancellation of its timer.  Messages and exits stand for
single occurrences, so that conservation can be stated.  Note that
`on_incoming` pushes at the **front** of the list that `pick_first_msg` pops
from the front; the model does the same.

`AbstractMailbox` is the contract of `tinch_pp/mailbox.h`: each message and
exit is handed out at most once, broken links come before messages, a time-out
only when there is nothing to hand out.

### AsyncWrite

The write queue, access by access: the test of `write_in_progress`, the push,
the start of the write, its completion by the transport, and in `checked_write`
the error, the pop, and the start of the next write.  `Writers` is the set of
threads that write: the I/O thread alone before the connection is established,
also application threads afterwards.  Tearing of the deque by two simultaneous
accesses is undefined behaviour that the model does not unfold: each access is
taken as atomic, the mildest outcome, and the properties fail all the same once
application threads write.

### NodeLinks

The mailboxes and links of one node.  Every thread has a stack of what it is
doing, because closing a mailbox delivers exits to others, a delivery holds
`mailboxes_lock`, and the end of a delivery may destroy the mailbox it was
delivered to and so begin another close.  `held` are the mailboxes their
clients own; a mailbox lives as long as a client or a delivery under way owns
it.  `drop` is a client letting go, `drop_unwinding` the same while an
exception is unwound, in which case the close is posted to the I/O thread.
The report of an exit and the removal of its
link are two steps (`on_link_broken`, `unlink_exited`): only the second takes
the linker's lock, so that a link made in between is removed with the old one
(`overtaken`).  A request to another node may throw (`Unreachable`), or first
wait for a connection (`get_connection_to`, `connecting`): nothing says that the
wait ends, and in the I/O thread, to which a close may be posted, it never does,
as that thread runs the handshakes.  Links to a mailbox that is
already closed are possible (`StaleLinks`), as in the code.  `made`, `joined`,
`reports`, `cut_short` and `overtaken` are history variables.  Pids of mailboxes and of remote
processes are taken to differ, as they carry their node.  `Without` is the
list without the links that the linker's `remove_if` matches.

### Handshake

Both ends of one connection and the network between them.  Each callback is an
action.  A write is started, transmitted, and its callback run later, so that
the answer may arrive before the callback that prepares for it.  A read takes
any non-empty initial part of what the network holds.  A read delivers whole messages: the lexer's
byte-level work is not part of this module, but its consequence that one read
may bring several messages and that one message is handled per read is.  The
lexers of the handshake and of the connected phase are separate, as in the
code: what the handshake's lexer holds when the connection is established is
never looked at again.  Clients send in their own threads: `send` and
`send_returns` are the beginning and the end of `trigger_write`, and when the
queue is used by anybody else in between (`raced`) what the network is given from
then on may be anything (`garbled`); `AsyncWrite` has the accesses one by one.
Init chooses both cookies, whether the version is
supported, and what the called node is: tinch++, an Erlang node that closes
the connection on a failure, one that refuses, or one that accepts any digest.
A digest is the pair of challenge and cookie: collisions of MD5 and of random
challenges are left out.

### Connector

`get_connection_to`, with the critical sections of `node_connections_mutex` as
actions and the wait in between, the outcome slot, the notifications after the
unlock, the accept loops, and the recovery point of `run_async_io`, which drops a
connection by its peer's name in a step after the error (`io_error`,
`drop_connection_to`): until then clients may be given the broken connection.
Each `start_accept_incoming` adds an accept loop: the handler of the accept that
was aborted with the old acceptor triggers one at the new.  A connection made here knows its peer by the
short name (`node_connection.cpp:75`) and the map is keyed by the full one, so
the drop of such a connection finds nothing; accepted connections carry the
full name.  A handshake ends in one step here, or never;
`Handshake` says which.

### Lexer

`msg_lexer` with the length field as a parameter: how many bytes it has and what
size it tells.  `write` is the other node's message entering the network, `add`
the call of `handle_new_condition` on what is incomplete followed by what was
read, `read` the same with the messages then taken by `next_message`.
`handle_new_condition` recurses in the code; here it is a function of how many
bytes have been cut off.  `LexerSpec` is the lexer by itself, under any writes,
reads and takings.  `HandshakeFormats` and `MessagePath` extend this module and
change its variables only by `write` and `read`, so that each of their steps is a
step of the lexer; `built` and `taken` are history variables.

### Terms, ControlMsgs, MessagePath

`Terms` has the objects of `tinch_pp/erl_*.h` as records, `serialize`, and
`match` with its effect on the iterator.  An encoded term is a sequence of
tokens, one for each grammar rule that is applied: a token keeps the type tag
and the value, not the bytes in between, but what belongs to no rule (sizes,
versions, the elements of a string) is byte for byte.  `erlang_encode` is what
an Erlang node sends for the same term; it packs lists of bytes as strings.
`Instance` and `Bound` are the reference: when a term is an instance of a
pattern and what the pattern then binds.  `Deviates` names the cases in which
the code is known to differ from it (see Further deviations).

`ControlMsgs` has the builders of `ext_message_builder.cpp` and the chain of
handlers of `ctrl_msg_dispatcher.cpp`.  `CharSigned`, chosen in Init, says how
the build treats `char`, on which `check_term_version` depends.

`MessagePath` is one direction of an established connection.  `request` builds
a message and writes it.  `checked_read` takes up to `ReadSize` tokens, feeds the
lexer, whose length field is `ConnectedSize` here, and has `msg_received` handle one message if there is
a whole one.  `handled` records the calls made on the connection; their effect
on mailboxes and links is in `NodeLinks`.

### RemoteLinks

Two tinch++ nodes, each with an application thread and its I/O thread, and the
connections between them.  `link` sends its request and only then stores the
link (`request_link`, `store_link`), `unlink` removes it and only then sends
(`request_unlink`), a close takes the links out, sends the exits one by one
(`request_exit2`) and removes the mailbox; a received exit is reported and then
removes the link (`unlink_exited`): the steps between which the other thread may
act are actions of their own.

A request needs a connection.  If the map has none the node calls the other one
(`get_connection_to`) and waits; each end takes the connection for made at its
own time (`handshake_success_as_B` when the acknowledgement is written,
`handshake_success` when it is read).  Both nodes may call at once and then have
two connections, of which each map keeps the one that came first, while the
call that made the other still uses it (`held`).  What is read with the
acknowledgement is lost in the handshake's lexer.  What is sent is on the
`wire`, unless the connection is broken or the write queue has stalled, which it
may do with any request (`Posted`; that is the run WriteQueueStall).  A request
written twice, which is also possible when application threads write, is outside
this model.  Behind the read is what the lexer holds: one message is handled per
read.  A break loses both; the recovery point drops the connection by name, which
works at the accepting end only, and touches no link.  A call that finds no
connection, or whose attempt fails, throws.

Locks and links inside one node are left to `NodeLinks`, handshakes to
`Handshake`; that a link is stored once is shown there and makes the linker a
set here.  `crossed`, `lost`, `dead`, `owed` and `asked` are history variables,
with which the exceptions of the properties are named.

### Rpc

Composes `Mailbox` with `blocking_rpc`: the receivers are the calling threads,
the actions of the mailbox are taken over unchanged.  A call is first in
`mbox->send`, which may wait for a connection without a time-out: it returns,
throws, or never ends.  The answer to call `c` is
message `c`; strays are messages that are no `{rex, _}` tuple.  The node called
is external: it answers each request that reaches it, in any order.

### HandshakeFormats

The generators and parsers of the handshake byte for byte, with the lexer between
them (`HandshakeSize`, two bytes), and the decision each waiting state takes.  A parse failure
and a wrong acknowledgement end in "stalled": the exception reaches
`run_async_io`, and neither a read nor a report follows.  A peer sends the
messages of its role in turn, or one out of place, or one of another handshake
protocol, which is one that no parser takes (`ForeignAssumption`).  Names and
statuses are such that sizes fit the two bytes in which they are written
(`FormatAssumption`); the code does not check it.  Time, writes and losses are in `Handshake`.

### Epmd, NodeStart

`Epmd` has the two requests and the parsers of their answers byte for byte, and
what the daemon (external) makes of them.  `NodeStart` has the threads of one
node that create and close mailboxes, publish the port and look up another
node.  `make_pid` copies the counters and `update_pid_fields` moves them on in
steps of their own, as no lock is held.  `operator<` is no order once ids have
wrapped around, so what the map does depends on its tree: `find`, `insert` and
`erase` descend by comparisons as `std::map` does, exactly, for a tree of up to
two entries.  `raced`, `muddled` and `cut` record the circumstances under which
the properties do not hold.  The node's name is assumed short enough for its
request to fit the two bytes of the size, and ports and creation numbers to be
words other than 0.

## 3. The runs

| run | result | what it shows |
|---|---|---|
| MailboxShared | holds | two receivers, two messages, one exit, two timed calls: conservation, no phantom time-outs, no lost wake-ups, refinement of `AbstractMailbox` |
| MailboxOne | holds | one receiver, two messages, two exits: no queued message is slept through, timed calls end, a queued message ends a receive |
| WriteQueueIo | holds | the I/O thread as the only writer, four messages, failing writes: order, the assertion, buffer lifetime, everything written unless a write fails |
| WriteQueueStall | fails | one application thread: a message pushed behind a write whose completion has just emptied the queue is never written |
| Links | holds | an application thread and the I/O thread, two mailboxes (one may be dropped), one remote process, two links: links stored and reported at most once, the end of a link lost only by an exception or by the unlink of an older exit, open mailboxes reachable, every thread returns unless it, or the holder of `mailboxes_lock`, waits for a connection or is a destructor inside its own delivery |
| RemoteLinks | holds | two nodes, three mailboxes, three calls, two connections, made by one node or by both at once, that may break or stall: the two linkers agree on a link when nothing about it is under way, apart from the named cases; no exit is kept from a linked process unless a message about the link was lost; none is reported more often than the link was asked for |
| Handshake | holds | all cookies, versions and peers, losses at any point: nobody connects without the cookie, the ends agree, one signal per attempt, no gaps towards the called node until a client of the caller raced for its write queue, attempts end when the nodes fit or the peer closes, the called node gets back to accepting from every handshake whose caller sends on or is lost (a caller that stays silent and a message that does not parse are not covered) |
| HandshakeFormats | holds | versions 4 to 6, flags with and without the top bit, two names, messages in and out of place, reads of any size: what is parsed is what was generated, and nobody is turned away without cause |
| Connector | holds | two clients, two peers, three connections, a port published twice: calls that do not overlap get their own outcome, a call whose handshake has ended returns, no outcome stays in the slot however calls overlap, accepted connections that broke are given out only until the recovery point has the lock, as many accept loops as publications |
| MessagePath | holds | a signed and an unsigned char, three requests of fourteen kinds, read in pieces of 1 to 14 tokens: the lexer cuts the stream where it was glued; with an unsigned char every message causes exactly the call asked for or, if unsupported, none, and twenty-one patterns match the received terms as the reference says; with a signed one only ticks are handled |
| Rpc | holds | three calls with and without a time-out, one stray message: calls made one at a time that all return get their own answers and leave nothing behind; every call whose send has returned ends unless its request is lost and it has no time-out |
| NodeStart | holds | two threads, up to eight mailboxes with ids up to 2 and serials up to 1, registrations and look-ups that may fail: pids lead to their mailboxes and only to them, unless calls of `make_pid` overlapped (`raced`) or the counters wrapped around beside an open mailbox (`muddled`); EPMD understands the requests, and node and EPMD agree on name, port and creation after a `publish_port` that returned, unless an answer was read in part (`cut`); a `publish_port` that failed half-way is exempt |

The failing run checks what a comment of the source promises; PROJECT.json
(`findings`) quotes it.

Bounds.  Two receivers suffice for one to take what another was woken for, and
two timers for a late handler to hit the next call; a third event exercises the
flag with something left in the list.  In NodeLinks two mailboxes, a remote
process and two links are needed for a close that has a local and a remote
process to tell, the remote one throwing, while another thread closes the other
end; a third mailbox adds only further independent links.  In Handshake two
messages per direction allow a read to bring two.  In Connector a third
connection lets a node connect back while two calls are under way, and a
connection be replaced; one of the two peers calls, which is enough for an
accepted connection to meet one made here, and the port is published twice, so
that an acceptor is replaced while it accepts or while its handshake goes on.  In RemoteLinks three calls
allow a link, a request that crosses it and a close, and two mailboxes on one
node a close with two exits to send; a second connection replaces one that
broke, or is the other node's when both call at once.  In Rpc a third call comes after a late answer was taken.  In NodeStart
ids up to 2 and serials up to 1 make eight mailboxes more than one period
(`Period` = 6), so that pids come round; `MaxEntries` = 2 is the size up to
which the tree is exact, and `MaxSpent` counts a connection to EPMD as three
mailboxes, so that a run has either many mailboxes or repeated registrations.
In MessagePath three messages are enough for the lexer
to recurse and still leave a part behind; the shortest ones fit into a read
together, the longest need two or more.  Runs that bound what may happen end in states where
nothing is left to do, hence `CHECK_DEADLOCK FALSE`; the two mailbox
runs do check for deadlock, as their receivers can always call again.
Symmetry is used in MailboxShared, whose properties are invariants and a
refinement without fairness, and treats receivers, messages and exits alike,
in NodeStart, whose properties are invariants, for the threads, and in
RemoteLinks, likewise, for the two mailboxes of the second node.

Fairness is weak, and only of what the platform does by itself: a runnable
thread runs, a mutex is handed out, the transport completes or fails an
outstanding write, the `io_service` runs the handlers queued in it, armed
timers run out, and a lost connection is reported.  No call of the application,
message, connection attempt or loss is promised.  Nor is
the end of a wait for a connection, which has no time-out
(`node_connector.cpp:122`): `CallEnds` of `Connector` speaks of calls whose
handshake has ended, `RpcEnds` of calls whose send has returned, and
`ThreadsReturn` of `NodeLinks` names that wait among the things that stop a
thread.  `Handshake` shows which attempts end: those between nodes that fit or
with a peer that closes (`AttemptEnds`), and at the called node those whose
caller sends on or is lost (`AcceptorFreed`); `AttemptResolved` below is the case
of one that does not.  `Rpc` takes the fairness of `Mailbox` and, of the Erlang
node, that a request that reaches it is answered.  `RemoteLinks` has no liveness
property: a message pushed by an application thread may never be written
(WriteQueueStall), so that no exit is promised to arrive.

### Further deviations

These definitions are refuted by TLC under the constants given, and describe
the code; no run is kept for them.

* `Mailbox!NoMissedBrokenLink`: of two links that break before a receive, the
  first receive reports one and lowers the flag; the next one sleeps, although
  `actual_mailbox.h:112` says that each is reported in the next receive.  One
  receiver, two exits.
* `Mailbox!UntimedReceiveNeverTimesOut`: the handler of an expired timer that
  runs after its call has returned raises the flag, and the next `receive()`
  without a time-out throws `mailbox_receive_tmo`.  One receiver, one timer.
* `Mailbox!FifoDelivery`: messages that queue up are handed out last in, first
  out.  One receiver, two messages.
* `Mailbox!NoMissedMessage` and `TimedReceiveReturns` with two receivers: one
  lowers the flag that was raised for both.
* `AsyncWrite!CompletionHasMessage` and `BufferAlive` with application threads
  among the writers: two writes may be outstanding at once.
* `NodeLinks!LinkNotLost`: an unreachable node, or two linked mailboxes that
  close at the same time, end the loop that sends the exits by an exception;
  the remaining processes are not told, and the mailbox stays in the maps.
* `NodeLinks!NoSelfDeadlock`, when a mailbox may be dropped while a delivery
  holds the last other reference to it: its destructor waits for the lock that
  its own thread holds, although `actual_node.cpp:186` has "ensure the mutex
  isn't locked".  One droppable mailbox, one message, two threads.
* `NodeLinks!OpenMailboxReachable` with two mailboxes of the same name: closing
  one takes the name from the other.
* `Handshake!AttemptResolved` with different cookies between two tinch++ nodes:
  the called one gives up and keeps the socket open, and the caller's client
  waits for ever, although `node_connection_state.cpp:446` says that the
  connector "will react to that and terminate the connection attempt".
* `Connector!OwnOutcome` with two clients: of two simultaneous calls one returns
  a connection whose handshake is still under way, against
  `node_connector.cpp:119`, "we must ensure that the node has finished its
  handshake procedure".
* Where `char` is signed, as on most platforms, the version byte 131 never
  compares equal to it (`ctrl_msg_dispatcher.cpp:40`), and no control message is
  handled: `HandledAsRequested` says so of those builds.
* `Handshake!CalledToCaller`: data read together with the acknowledgement stays
  in the handshake's lexer and is lost.
* `Handshake!SentIsDispatched`: of two messages that arrive in one read the
  second is handled only when something further arrives.
* `MessagePath!StringValueMatches`: `string_matcher::match` uses `find_if` where
  `list_matcher::match` uses `find_if_not`.  The value of a string, or of a list
  of integers that arrives packed, matches only when no element is equal;
  `test/patterns_testing_any.cpp:237` expects a match.
* The other cases of `Terms!Deviates`: `erl::any` passes a list without the nil
  that ends it, so elements behind it do not match; an empty list from an Erlang
  node is matched by nothing; a string pattern does not match a list of bytes
  that is not packed.  MatchFaithful fails when they are not excluded.
* An EXIT or EXIT2 whose reason is not an atom ("exit_term" in `ControlMsgs`)
  matches no handler and is ignored.
* In `Connector`, an established connection that was made here and broke stays
  in the map and is given out again.
* `Rpc!AnswerIsOwn`: after a call that timed out, or was ended by a stray
  message, its answer is taken for that of the next call; with two threads on
  one `rpc` object each may get the other's.  One receiver and two calls, or
  two receivers.  `rpc.h:54` speaks of a way to "collect the answer".
* `RemoteLinks!LinksAgree` without the exceptions `crossed`, `lost` and `dead`:
  an exit or unlink that comes back before the link is stored leaves a stale
  link; with two connections a later request may overtake an earlier one;
  messages lost with a connection leave the link at one end only, as the
  links are not looked at when a connection is dropped (`actual_node.cpp:323`,
  "TODO: consider linked mailboxes?"), and so do messages read with the
  acknowledgement of the handshake, which stay in its lexer, and messages that
  are never written; a link to a mailbox that has closed is stored all the same.
* `RemoteLinks!ExitNotLost` without `lost`: the exit itself is lost in one of
  these ways.
* An exit that has reached a node need not be handled: of several messages in
  one read only the first is, until something else arrives.
* A call with a time-out does not end at that time (`rpc.h:70`) while its send
  waits for a connection: the time counts from the receive (`rpc.cpp:90`).
* `NodeLinks!LostByThrowOrOvertaken` without `overtaken`: a link made again
  between the report of an older exit and the unlink that follows it
  (`actual_node.cpp:278`, `280`) is removed without a report.
* A close that is posted to the I/O thread (`actual_node.cpp:180`) and has a
  process of an unconnected node to tell waits for a handshake that only this
  thread could run.
* `Connector`: a port published twice leaves two accept loops, that is two
  handshakes at a time, where the code is written for one.
* `Handshake!CallerToCalled` without `raced`: what a client and the I/O thread
  write at the same time may be written twice or not at all (`AsyncWrite`).
* `HandshakeFormats`: a peer whose version does fit is turned away if its flags
  have the top bit set or are below 5, because they are parsed as the upper end
  of the version range; a name is taken for a challenge and a challenge for a
  name, as both have the tag `n`; a message that does not parse stops the
  handshake without a report and, at the node called, the accept loop with it.
* `NodeStart!PidFindsMailbox` without `raced`: two calls of `create_mailbox`
  that overlap may give out the same pid, and the second mailbox is not entered
  in the map, which only `assert(added)` notices (`actual_node.cpp:146`).
  Without `muddled`: once the ids have wrapped around, a mailbox that has stayed
  open since then is put before and behind a new one by `operator<`, and one of
  them may not be found, or be removed in place of the other.  The pid of a
  closed mailbox reaches the one that has the same numbers a period later, and
  the creation number makes no difference to `operator<`.
* `NodeStart!EpmdAgrees` without `cut`: the part of an answer that has not
  arrived yet is parsed as zeros, that is as success, creation 0 or port 0.  A
  second `publish_port` that fails leaves a node that listens and is no longer
  registered.

## 4. The proofs

For every value of the constants, with no assumption but those on the types of
the constants unless stated:

* `MailboxProofs`
  * `TypeCorrect`, by induction on its own.
  * `ConservationHolds`: inductive together with the types.  Every step is one
    of six steps on the lists (`ListSteps`: report, time out, take, accept,
    break, keep); the lemmas `PushBack`, `PushFront` and `PopFront` say what
    pushing and popping do to the range and the injectivity of a sequence.
  * `NoPhantomTimeoutHolds`: `tmos <= expiries` is not inductive, since a
    handler may be queued, or may have raised a flag that no message or exit
    accounts for; `TimeoutBudget` counts both against the expiries.
  * `SignalPendingHolds`: inductive with the types.
  * `OneReceiverMissesNothing`: assumes that there is one receiver.
  * `MailboxImplementsAbstract`: the same six steps are steps of
    `AbstractMailbox` or stutters, with conservation as the invariant.
  * `RpcUsesMailbox`, of Rpc: the composition takes only steps of the mailbox, so that
    `ConservationHolds` may be used for the mailbox of the caller.
  * `RpcTypeCorrect`, with `Booked` (a thread outside a call is not in `receive`,
    what it has received was taken from the mailbox, and an answer arrives once,
    after its request; a call that is still sending is `Unasked`: it has no
    answer yet).
  * `AnswerIsOwnAlways`: `Paired` says that, as long as calls are made one at a
    time and each returned, what is asked for or queued is the answer to the one
    call under way.
* `AsyncWriteProofs`
  * `TypeCorrect`, with `CarriesMessage` (a thread between the test and the
    push has a message).
  * `IoWireOrder`, `IoAssertHolds`, `IoBufferAlive` assume `Writers = {io}`.
    They rest on `Phase` (at every point of the I/O thread exactly one of:
    nothing is under way, the front is being written, its handler is queued,
    the error was reported) and `Order` (the queue is the last part of what was
    requested and the wire the part before it).
* `ConnectorProofs`
  * `TypeCorrect`; `Typed` adds that the map and the clients refer only
    to connections that were made, the map under their own node's name.
  * `AcceptLoopsAlways` counts: with every step the number of accepts, aborted
    handlers and handshakes of accepted connections (a cardinality) changes with
    the number of publications, and not otherwise.
  * `BrokenAcceptedAlwaysDropped` is inductive with the types: while the I/O
    thread is on its way to drop one connection it causes no other error.
  * `OwnOutcomeAlways`: that a caller takes its own outcome from the shared slot
    is not inductive.  `Solitary` says what holds until two calls overlap: at
    most one call is under way, the slot and the handshake in progress are that
    call's, the map holds only connections past their handshake, and those who
    returned got their own outcome.
* `HandshakeProofs`: one inductive invariant, `IInv`, under all of them.  `EndA`
  and `EndB` list, for each state of an end, the operation that is outstanding
  and what its queue and lexer hold; `ToA` and `ToB` say that the messages on
  the wire are those the end is to take next, counted by the messages handed
  over and taken; `Ends` says what an end knows of the other one once it has
  taken the last message of the handshake.  None of `Trust`, `Agreement`,
  `SignalledOnce` is inductive: they depend on which messages may still arrive
  after a connection was lost or an end gave up.
  * `TypeCorrect`, `TrustAlways`, `AgreementAlways`, `SignalledOnceAlways`.
  * `CallerToCalledAlways`: on top of `IInv`, `Flow` says that what A has sent is
    what B has handled, what B's second lexer holds, what is on the wire and what
    is still to be written, in this order, or begins so once the connection is
    lost; and that nothing of the handshake is left on the wire when B has read
    A's reply.  The same does not hold from B to A (`CalledToCaller`, section 3),
    where data may be read together with the acknowledgement.  `Flow` ends with
    the first overlapping use of A's queue (`raced`).
* `NodeLinksProofs`: the inductive invariant `Ordered` (each thread is idle, in
  one call, or in the destructor of the mailbox it delivers to; `mailboxes_lock`
  is held exactly by the thread inside a delivery; only mailboxes closed or let
  go of are erased; a name stands for a mailbox created with it).
  * `OrderedAlways`, `DeliveriesAlwaysExclude`.
  * `DeadlockAlwaysInDestructor`: a thread waits for its own lock only in a
    destructor inside a delivery; `HeldMailboxesNoDeadlock` draws the conclusion
    for `Droppable = {}`, that is for clients that keep their mailboxes.
  * `OpenMailboxAlwaysReachable` assumes `DistinctNames`, as the run does: with
    one name for two mailboxes, closing one takes it from the other (section 3).
  * The three properties of the links need to know what `Without`, the removal
    from the linker's list, leaves.  It is a recursive function over the length
    of the list; its value is found by induction on that length (`LeastNat` and
    `SetInduction`, from the well-foundedness of `<` on the naturals).  Every
    step is then one of eight moves on the links (`Stores`, `Unstores`,
    `KeepsLinks`, `Collects`, `Tells`, `Throws`, `ReportsRemote`, `Overtakes`),
    which hide the stacks, and each invariant is shown to survive the eight:
    `LinkAlwaysStoredOnce` with `Listed`; `LinkLostByThrowOrOvertaken` with
    `LinksKept` (a link that is neither undone nor reported and has an open end
    is stored, has an exit under way in some close, the close of an end was cut
    short, or the unlink of an older exit took it); `ReportedAtMostOnce` with
    `Counted`, which counts reports, exits and the stored link against the
    links made, and so needs that a link is in one of these places at a time.
* `RemoteLinksProofs`: `Typed` (what is connected, addressed, worked on and
  recorded), for any number of mailboxes, calls and connections, several of which
  may be alive at once.
  * `RemoteTypeCorrect`.
  * `ExitNeverLost`, with `Owing`: each exit that is owed is on some wire, in some
    lexer or among those the other node is about to send, or the link was named
    as lost.
  * `ReportedOncePerLink`: `Ledger` adds up, for one direction of a link, every
    place from which a report may still come: requests on their way, the links
    stored at either end, exits under way and reports made.  Messages are counted
    over all connections (`Total`, a cardinality of places on the wires and in
    the lexers), as nothing orders one connection after another.  Only a client's
    `link` adds to it, and that adds to `asked` as well; `Undertaken` says that a
    call under way about a link has one partner.
* `NodeStartProofs`
  * `EpmdAlwaysAgrees`: first the formats.  `Follows` cuts a message where it was
    glued and `WordAfter` reads a word at any place of it, from which come
    `Alive2Read` (EPMD reads the name and the port that were written, for every
    name whose request fits the two bytes of its size) and the readings of the
    four answers.  `Agreed` then says, for each step of a thread, what its socket
    holds and what EPMD has registered; one thread publishes at a time.
  * `PidAlwaysFindsMailbox`: `Numbered(b, i, s)` says that `b` mailboxes bring the
    counters to id `i` and serial `s`, with some number of whole periods, and it
    holds of the counters, at each step of the one thread that moves them, and of
    every pid.  Equal numbers are then a whole number of periods apart, and before
    the first wrap the id is the number of the mailbox, so that nothing can be
    muddled.  `Held` lists the shapes of the map, with keys that `operator<` puts
    in one order only, for which the descent of `find` is followed entry by entry;
    `Begun` says that a mailbox under creation is not in the map and will find
    room.  The widths of the counters are parameters.

* `LexerProofs`, about Lexer and HandshakeFormats
  * `LexerFraming`: `Framing` says nothing of what comes before the messages not
    yet taken; `Order` splits what was written into messages taken, messages in
    the lexer, and messages whose bytes are, glued together, what is incomplete
    and what is not read.  `CutRestores` is the heart: whatever part of glued
    messages has arrived, `handle_new_condition` returns the messages that are
    whole and leaves less than one.  It is shown by induction over the number of
    messages (`SetInduction`, from the well-foundedness of `<` on the naturals),
    with `CutExists` and `FlatExists` for the recursive functions inside
    `handle_new_condition` and `FlattenSeq`.  It assumes that a message tells its
    own length (`LexerAssumption`).
  * Of each generator, `NameBytes` to `AckBytes` say what stands where in the
    message; `Carried` follows: the parser of each waiting state restores what
    its generator was given, and refuses the other messages unless a name meets
    the parser of a challenge or a challenge that of a name.
  * `HandshakeParsed` and `HandshakeTurnedAway`: `HandshakeInv` says that the
    lexer is in order, what was sent is what the bytes written carry, what was
    parsed are the messages taken, each read by the parser of its place in one
    of the two handshakes, and the state is that of the next place unless the
    last message ended the handshake.  Neither property is inductive without
    the bytes under way.  `HandshakeFraming` is `Framing` for this lexer.

Only model-checked:

* all liveness, which is outside the reach of TLAPS here;
* `LinksAgree` of `RemoteLinks`: an inductive invariant has to relate what each
  node stores to the last message about a link on each of several connections;
* `HandledAsRequested` and `MatchFaithful`: `Terms` and `MessagePath` are written
  with recursive operators over terms, which the provers cannot unfold.  For the
  same reason no theorem speaks of the specification of `MessagePath`: `Framing`
  is proved of the lexer for every length field (`LexerFraming`), and checked for
  the tokens of `MessagePath` by its run.

The types of AsyncWrite are proved for every value of the constants, so no run
repeats them.

## 5. Not modelled

The bytes inside a token of the external term format (the digits of a number,
the characters of an atom, length fields at their limits, the comparison of
floats).  The lifetime of objects other than mailboxes: callbacks hold plain
pointers to states, timers' handlers to mailboxes.  Torn containers under a
data race (the write queue, the connector's map).  A tree of more than two
mailboxes under `operator<`.  The terms inside a remote procedure call.
`ping_peer` and `connected_nodes`, which call the connector or only read.  The
destructor of a node, which stops the I/O thread.  The digest function and the
utilities from Loki, which are third-party code without a state of their own.

## 6. Plan

What is left is the terms: `serialize` and `match` as recursive functions over a
bound on the depth instead of recursive operators, so that `HandledAsRequested`
can be proved on top of `LexerFraming`.
