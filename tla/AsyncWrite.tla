----------------------------- MODULE AsyncWrite ------------------------------
(***************************************************************************)
(* The write queue of a connection (impl/node_async_tcp_ip.cpp).           *)
(*                                                                         *)
(* A message to send is pushed on write_queue, and the async_write of the  *)
(* queue's front is started by whoever finds the queue empty, or by        *)
(* checked_write, the completion handler of the write before it.  Nothing  *)
(* locks the queue: checked_write runs in the io_service thread, while     *)
(* trigger_write is called by that thread (handshake messages, tocks) and, *)
(* once connected, by every application thread that sends, links or exits  *)
(* through the connection.  Each access to the queue is therefore an       *)
(* action of its own.                                                      *)
(*                                                                         *)
(* Two unsynchronised calls on the deque itself could also tear it; the    *)
(* model takes the mildest outcome, in which each call is atomic.          *)
(***************************************************************************)
EXTENDS Naturals, Sequences, SequencesExt

CONSTANTS
  io,        \* the thread that runs the io_service
  Writers,   \* the threads that call trigger_write
  Msgs,      \* the messages, each written once
  MayFail    \* whether a write may complete with an error

ASSUME MayFailAssumption == MayFail \in BOOLEAN

Threads == Writers \cup {io}

VARIABLES
  write_queue,         \* std::deque of the messages (the callbacks left out)
  pc,                  \* where each thread is in trigger_write/checked_write
  write_in_progress,   \* the local variable of trigger_write
  msg,                 \* the argument of trigger_write
  in_flight,           \* the outstanding async_write operations
  completed,           \* checked_write handlers queued with success
  failed,              \* checked_write handlers queued with an error
  broken,              \* the error handler has been called
  requested,           \* history: messages in the order they were queued
  wire                 \* history: messages in the order they were written

locals == <<pc, write_in_progress, msg>>
vars   == <<write_queue, locals, in_flight, completed, failed, broken,
            requested, wire>>

NoMsg == "none"

PC == {"idle", "tested", "pushed", "popped"}

Init ==
  /\ write_queue = <<>>
  /\ pc = [t \in Threads |-> "idle"]
  /\ write_in_progress = [t \in Threads |-> FALSE]
  /\ msg = [t \in Threads |-> NoMsg]
  /\ in_flight = <<>>
  /\ completed = 0 /\ failed = 0 /\ broken = FALSE
  /\ requested = <<>> /\ wire = <<>>

-----------------------------------------------------------------------------
(***************************************************************************)
(* async_write(connection, buffer(front)): the outstanding operation       *)
(* refers to the front element.  front() of an emptied deque is whatever   *)
(* was left there, some message written before.                            *)
(***************************************************************************)
async_write_front ==
  \E m \in (IF write_queue # <<>> THEN {Head(write_queue)} ELSE ToSet(wire)) :
    in_flight' = Append(in_flight, m)

\* Mutant: the state of the queue is not looked at, every call starts a write.
trigger_write_always(t, m) ==
  /\ pc[t] = "idle" /\ t \in Writers
  /\ m \notin ToSet(requested) /\ \A u \in Threads : msg[u] # m
  /\ pc' = [pc EXCEPT ![t] = "tested"]
  /\ write_in_progress' = [write_in_progress EXCEPT ![t] = FALSE]
  /\ msg' = [msg EXCEPT ![t] = m]
  /\ UNCHANGED <<write_queue, in_flight, completed, failed, broken,
                 requested, wire>>

(***************************************************************************)
(* trigger_write: const bool write_in_progress = !write_queue.empty().     *)
(***************************************************************************)
trigger_write(t, m) ==
  /\ pc[t] = "idle" /\ t \in Writers
  /\ m \notin ToSet(requested) /\ \A u \in Threads : msg[u] # m
  /\ pc' = [pc EXCEPT ![t] = "tested"]
  /\ write_in_progress' = [write_in_progress EXCEPT ![t] = write_queue # <<>>]
  /\ msg' = [msg EXCEPT ![t] = m]
  /\ UNCHANGED <<write_queue, in_flight, completed, failed, broken,
                 requested, wire>>

\* Mutant: the message is put at the front of the queue.
push_front(t) ==
  /\ pc[t] = "tested"
  /\ write_queue' = <<msg[t]>> \o write_queue
  /\ requested' = Append(requested, msg[t])
  /\ pc' = [pc EXCEPT ![t] = IF write_in_progress[t] THEN "idle" ELSE "pushed"]
  /\ msg' = [msg EXCEPT ![t] = NoMsg]
  /\ UNCHANGED <<write_in_progress, in_flight, completed, failed, broken,
                 wire>>

(***************************************************************************)
(* trigger_write: push_back; the caller is done when a write was in        *)
(* progress.                                                               *)
(***************************************************************************)
push_back(t) ==
  /\ pc[t] = "tested"
  /\ write_queue' = Append(write_queue, msg[t])
  /\ requested' = Append(requested, msg[t])
  /\ pc' = [pc EXCEPT ![t] = IF write_in_progress[t] THEN "idle" ELSE "pushed"]
  /\ msg' = [msg EXCEPT ![t] = NoMsg]
  /\ UNCHANGED <<write_in_progress, in_flight, completed, failed, broken,
                 wire>>

(***************************************************************************)
(* trigger_write: the write is started.                                    *)
(***************************************************************************)
start_write(t) ==
  /\ pc[t] = "pushed"
  /\ async_write_front
  /\ pc' = [pc EXCEPT ![t] = "idle"]
  /\ UNCHANGED <<write_queue, write_in_progress, msg, completed, failed,
                 broken, requested, wire>>

-----------------------------------------------------------------------------
(***************************************************************************)
(* The transport writes the whole buffer, or fails; either way the handler *)
(* is queued in the io_service.  Operations outstanding together complete  *)
(* in any order.                                                           *)
(***************************************************************************)
write_done(i) ==
  /\ wire' = Append(wire, in_flight[i])
  /\ in_flight' = RemoveAt(in_flight, i)
  /\ completed' = completed + 1
  /\ UNCHANGED <<write_queue, locals, failed, broken, requested>>

write_error(i) ==
  /\ MayFail
  /\ in_flight' = RemoveAt(in_flight, i)
  /\ failed' = failed + 1
  /\ UNCHANGED <<write_queue, locals, completed, broken, requested, wire>>

(***************************************************************************)
(* checked_write, with an error: the error handler is called and nothing   *)
(* else happens; the queue keeps its front, so no later call starts a      *)
(* write.                                                                  *)
(***************************************************************************)
checked_write_error ==
  /\ pc[io] = "idle" /\ failed > 0
  /\ failed' = failed - 1
  /\ broken' = TRUE
  /\ UNCHANGED <<write_queue, locals, in_flight, completed, requested, wire>>

(***************************************************************************)
(* checked_write, without an error: the front is popped (an assert demands *)
(* that there is one).                                                     *)
(***************************************************************************)
checked_write_pop ==
  /\ pc[io] = "idle" /\ completed > 0
  /\ completed' = completed - 1
  /\ write_queue # <<>> /\ write_queue' = Tail(write_queue)
  /\ pc' = [pc EXCEPT ![io] = "popped"]
  /\ UNCHANGED <<write_in_progress, msg, in_flight, failed, broken,
                 requested, wire>>

\* Mutant: the message after the written one is not started.
checked_write_stops ==
  /\ pc[io] = "popped"
  /\ UNCHANGED in_flight
  /\ pc' = [pc EXCEPT ![io] = "idle"]
  /\ UNCHANGED <<write_queue, write_in_progress, msg, completed, failed,
                 broken, requested, wire>>

(***************************************************************************)
(* checked_write: the next message is started, if there is one; then the   *)
(* callback runs, which may call trigger_write.                            *)
(***************************************************************************)
checked_write_next ==
  /\ pc[io] = "popped"
  /\ IF write_queue # <<>> THEN async_write_front ELSE UNCHANGED in_flight
  /\ pc' = [pc EXCEPT ![io] = "idle"]
  /\ UNCHANGED <<write_queue, write_in_progress, msg, completed, failed,
                 broken, requested, wire>>

Next ==
  \/ \E t \in Threads, m \in Msgs : trigger_write(t, m)
  \/ \E t \in Threads : push_back(t)
  \/ \E t \in Threads : start_write(t)
  \/ \E i \in DOMAIN in_flight : write_done(i)
  \/ \E i \in DOMAIN in_flight : write_error(i)
  \/ checked_write_error
  \/ checked_write_pop
  \/ checked_write_next

Spec == Init /\ [][Next]_vars

(***************************************************************************)
(* A thread inside trigger_write or checked_write goes on, the transport   *)
(* completes an outstanding write, and the io_service runs its handlers.   *)
(* Nobody is obliged to send.                                              *)
(***************************************************************************)
Fairness ==
  /\ \A t \in Threads : WF_vars(push_back(t)) /\ WF_vars(start_write(t))
  /\ WF_vars(\E i \in DOMAIN in_flight : write_done(i) \/ write_error(i))
  /\ WF_vars(checked_write_error \/ checked_write_pop)
  /\ WF_vars(checked_write_next)

FairSpec == Spec /\ Fairness

-----------------------------------------------------------------------------
(***************************************************************************)
(* Type correctness of the write queue and of the threads using it.        *)
(***************************************************************************)
TypeOK ==
  /\ write_queue \in Seq(Msgs)
  /\ pc \in [Threads -> PC]
  /\ write_in_progress \in [Threads -> BOOLEAN]
  /\ msg \in [Threads -> Msgs \cup {NoMsg}]
  /\ in_flight \in Seq(Msgs)
  /\ completed \in Nat /\ failed \in Nat /\ broken \in BOOLEAN
  /\ requested \in Seq(Msgs) /\ wire \in Seq(Msgs)

(***************************************************************************)
(* The messages reach the peer once each and in the order they were        *)
(* queued: what has been written is an initial part of what was requested. *)
(***************************************************************************)
WireOrder ==
  /\ Len(wire) <= Len(requested)
  /\ \A i \in 1..Len(wire) : wire[i] = requested[i]

(***************************************************************************)
(* checked_write's assert(!write_queue.empty()): whenever the io thread    *)
(* is to run a completion handler, the queue holds the message it is for.  *)
(***************************************************************************)
CompletionHasMessage ==
  pc[io] = "idle" /\ completed + failed > 0 => write_queue # <<>>

(***************************************************************************)
(* "We must ensure that it lives for the duration of the operation": every *)
(* outstanding write refers to the front of the queue, and there is never  *)
(* more than one, so that no two messages mix on the stream.               *)
(***************************************************************************)
BufferAlive ==
  /\ Len(in_flight) <= 1
  /\ \A i \in DOMAIN in_flight :
       write_queue # <<>> /\ in_flight[i] = Head(write_queue)

(***************************************************************************)
(* A queued message is written, unless a write failed ("otherwise we fire  *)
(* the next write once the first one has completed").                      *)
(***************************************************************************)
EveryMessageWritten ==
  \A m \in Msgs : m \in ToSet(requested) ~> (m \in ToSet(wire) \/ broken)
=============================================================================
