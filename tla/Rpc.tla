--------------------------------- MODULE Rpc ----------------------------------
(***************************************************************************)
(* Remote procedure calls (impl/rpc.cpp): an rpc object owns one mailbox,  *)
(* whose pid goes out with every request; a call sends a request to the    *)
(* process rex of another node and takes the next message of its mailbox   *)
(* for the answer.                                                         *)
(*                                                                         *)
(* This module composes the calls with Mailbox: the receivers are the      *)
(* threads that call, and the mailbox's own steps are taken over as they   *)
(* are.  The calls are numbered in the order they are made, and the answer *)
(* to call c is message c; the other messages are no {rex, _} tuples.      *)
(* Nobody else knows the mailbox, so it has no links (Exits is empty).     *)
(***************************************************************************)
EXTENDS Mailbox, Integers

CONSTANTS
  MaxCalls,    \* bound on the calls made
  Strays       \* messages that are not an answer to anything

Calls  == 1..MaxCalls
NoCall == 0

ASSUME RpcAssumption ==
  /\ MaxCalls \in Nat
  /\ Messages = Calls \cup Strays /\ Calls \cap Strays = {}
  /\ Exits = {}
  /\ MaxTimers >= MaxCalls     \* a call may always have a time-out

VARIABLES
  current,      \* the call each thread is in
  stage,        \* how far it is
  made,         \* the calls made so far: the numbers up to this one
  requests,     \* the requests that have reached the other node
  got,          \* the message each thread has received
  returned,     \* history: <<call, answer>> returned to the callers
  given_up,     \* history: calls that threw after their request was sent
  unsent,       \* history: calls whose request was lost with its connection
  overlapped    \* history: whether two calls were ever under way at once

rpc_vars == <<current, stage, made, requests, got, returned, given_up, unsent,
              overlapped>>
rvars    == <<vars, rpc_vars>>

Sending == {"sending", "sending_tmo"}
Stages  == {"none", "untimed", "timed", "receiving", "receiving_tmo"}
             \cup Sending

RpcInit ==
  /\ Init
  /\ current = [r \in Receivers |-> NoCall]
  /\ stage = [r \in Receivers |-> "none"]
  /\ made = 0 /\ requests = {}
  /\ got = [r \in Receivers |-> NoCall]
  /\ returned = {} /\ given_up = {} /\ unsent = {}
  /\ overlapped = FALSE

-----------------------------------------------------------------------------
(***************************************************************************)
(* do_rpc: the thread is in mbox->send, which asks for a connection first. *)
(* That wait has no time-out, whether the call has one or not: nothing     *)
(* says that the thread ever comes back.                                   *)
(***************************************************************************)
do_rpc(r, s) ==
  /\ pc[r] = "idle" /\ current[r] = NoCall
  /\ made < MaxCalls
  /\ made' = made + 1
  /\ current' = [current EXCEPT ![r] = made + 1]
  /\ stage' = [stage EXCEPT ![r] = s]
  /\ overlapped' = (overlapped \/ \E q \in Receivers : current[q] # NoCall)
  /\ UNCHANGED <<vars, requests, got, returned, given_up, unsent>>

(***************************************************************************)
(* The send returns: the request reaches the other node, or is lost with   *)
(* its connection or in the queue of messages to write.                    *)
(***************************************************************************)
send_returns(r) ==
  /\ stage[r] \in Sending
  /\ stage' = [stage EXCEPT ![r] =
                  IF stage[r] = "sending" THEN "untimed" ELSE "timed"]
  /\ \/ requests' = requests \cup {current[r]} /\ UNCHANGED unsent
     \/ unsent' = unsent \cup {current[r]} /\ UNCHANGED requests
  /\ UNCHANGED <<vars, current, made, got, returned, given_up, overlapped>>

(***************************************************************************)
(* The node cannot be reached: the send throws, and so does the call.      *)
(***************************************************************************)
send_throws(r) ==
  /\ stage[r] \in Sending
  /\ stage' = [stage EXCEPT ![r] = "none"]
  /\ current' = [current EXCEPT ![r] = NoCall]
  /\ UNCHANGED <<vars, made, requests, got, returned, given_up, unsent,
                 overlapped>>

\* Mutant: the call returns without waiting for its answer.
blocking_rpc_no_receive(r) ==
  /\ stage[r] = "untimed"
  /\ stage' = [stage EXCEPT ![r] = "none"]
  /\ current' = [current EXCEPT ![r] = NoCall]
  /\ UNCHANGED <<vars, made, requests, got, returned, given_up, unsent,
                 overlapped>>

(***************************************************************************)
(* blocking_rpc receives, with or without a time-out.                      *)
(***************************************************************************)
blocking_rpc(r) ==
  /\ stage[r] = "untimed"
  /\ receive(r)
  /\ stage' = [stage EXCEPT ![r] = "receiving"]
  /\ UNCHANGED <<current, made, requests, got, returned, given_up, unsent,
                 overlapped>>

\* Mutant: the time-out is not passed on.
blocking_rpc_tmo_dropped(r) ==
  /\ stage[r] = "timed"
  /\ receive(r)
  /\ stage' = [stage EXCEPT ![r] = "receiving_tmo"]
  /\ UNCHANGED <<current, made, requests, got, returned, given_up, unsent,
                 overlapped>>

blocking_rpc_tmo(r) ==
  /\ stage[r] = "timed"
  /\ receive_timed(r)
  /\ stage' = [stage EXCEPT ![r] = "receiving_tmo"]
  /\ UNCHANGED <<current, made, requests, got, returned, given_up, unsent,
                 overlapped>>

(***************************************************************************)
(* The mailbox picks a message for the thread, which keeps it in result.   *)
(***************************************************************************)
receiver_fn(r) ==
  /\ wait_for_at_least_one_message(r) \/ wake_up(r)
  /\ got' = IF taken' # taken THEN [got EXCEPT ![r] = Head(received_msgs)]
                              ELSE got
  /\ UNCHANGED <<current, stage, made, requests, returned, given_up, unsent,
                 overlapped>>

(***************************************************************************)
(* receive_rpc_reply: any {rex, Term} is the answer.  Another message, and *)
(* a time-out thrown by receive, end the call with an exception.           *)
(***************************************************************************)
receive_rpc_reply(r) ==
  /\ receive_returns(r)
  /\ IF pc[r] = "got_message" /\ got[r] \notin Strays
       THEN /\ returned' = returned \cup {<<current[r], got[r]>>}
            /\ UNCHANGED given_up
       ELSE /\ given_up' = given_up \cup {current[r]}
            /\ UNCHANGED returned
  /\ current' = [current EXCEPT ![r] = NoCall]
  /\ stage' = [stage EXCEPT ![r] = "none"]
  /\ got' = [got EXCEPT ![r] = NoCall]
  /\ UNCHANGED <<made, requests, unsent, overlapped>>

-----------------------------------------------------------------------------
(***************************************************************************)
(* The other node: rex runs each request in a process of its own, so that  *)
(* answers come in any order, and sends one answer for each.               *)
(***************************************************************************)
rex_answers(c) ==
  /\ c \in requests
  /\ requests' = requests \ {c}
  /\ on_incoming(c)
  /\ UNCHANGED <<current, stage, made, got, returned, given_up, unsent,
                 overlapped>>

stray_arrives(m) == m \in Strays /\ on_incoming(m) /\ UNCHANGED rpc_vars

MailboxStep ==
  /\ \/ \E r \in Receivers : spurious_wakeup(r)
     \/ \E r \in Receivers : timer_expires(r)
     \/ notify_one
     \/ receive_tmo
     \/ receive_tmo_aborted
  /\ UNCHANGED rpc_vars

RpcNext ==
  \/ \E r \in Receivers, s \in Sending : do_rpc(r, s)
  \/ \E r \in Receivers : send_returns(r)
  \/ \E r \in Receivers : send_throws(r)
  \/ \E r \in Receivers : blocking_rpc(r)
  \/ \E r \in Receivers : blocking_rpc_tmo(r)
  \/ \E r \in Receivers : receiver_fn(r)
  \/ \E r \in Receivers : receive_rpc_reply(r)
  \/ \E c \in Calls : rex_answers(c)
  \/ \E m \in Strays : stray_arrives(m)
  \/ MailboxStep

RpcSpec == RpcInit /\ [][RpcNext]_rvars

(***************************************************************************)
(* Besides what Mailbox assumes of the platform: the other node answers a  *)
(* request that reaches it.  Nothing is assumed of a send: it may wait for *)
(* a connection for ever.                                                  *)
(***************************************************************************)
RpcFairness ==
  /\ \A r \in Receivers :
       /\ WF_rvars(blocking_rpc(r))
       /\ WF_rvars(blocking_rpc_tmo(r))
       /\ WF_rvars(receiver_fn(r))
       /\ WF_rvars(receive_rpc_reply(r))
       /\ WF_rvars(timer_expires(r) /\ UNCHANGED rpc_vars)
  /\ WF_rvars(notify_one /\ UNCHANGED rpc_vars)
  /\ WF_rvars(receive_tmo /\ UNCHANGED rpc_vars)
  /\ \A c \in Calls : WF_rvars(rex_answers(c))

FairRpcSpec == RpcSpec /\ RpcFairness

-----------------------------------------------------------------------------
(***************************************************************************)
(* Type correctness of the calls.                                          *)
(***************************************************************************)
RpcTypeOK ==
  /\ current \in [Receivers -> Calls \cup {NoCall}]
  /\ stage \in [Receivers -> Stages]
  /\ made \in 0..MaxCalls
  /\ requests \subseteq 1..made /\ unsent \subseteq 1..made
  /\ given_up \subseteq 1..made
  /\ got \in [Receivers -> Messages \cup {NoCall}]
  /\ returned \subseteq Calls \X Calls
  /\ overlapped \in BOOLEAN

(***************************************************************************)
(* A call returns the answer to its own request ("a method to call a       *)
(* function on a remote node and collect the answer", rpc.h).              *)
(***************************************************************************)
AnswerIsOwn == \A x \in returned : x[1] = x[2]

InStep == given_up = {} /\ ~overlapped

(***************************************************************************)
(* As long as calls on one rpc object are made one at a time and each of   *)
(* them returned, they get the answers to their own requests, and every    *)
(* call finds the mailbox as the first one did: between two calls there is *)
(* no answer queued and none to come.  Nothing in a request or an answer   *)
(* says so; after one call that threw, an answer may be taken for that to  *)
(* the next call.                                                          *)
(***************************************************************************)
AnswerIsOwnInStep ==
  InStep =>
    /\ AnswerIsOwn
    /\ (\A r \in Receivers : current[r] = NoCall) =>
         requests = {} /\ \A i \in DOMAIN received_msgs : received_msgs[i] \in Strays

(***************************************************************************)
(* Every call whose send has returned ends, unless its request was lost    *)
(* and it has no time-out, or calls of two threads overlapped.  A call     *)
(* that is still sending may stay so, in spite of its time-out ("until the *)
(* given time has passed", rpc.h): the time only counts from the receive.  *)
(***************************************************************************)
RpcEnds ==
  \A r \in Receivers : \A c \in Calls :
    current[r] = c /\ stage[r] \notin Sending ~>
      \/ current[r] # c \/ overlapped
      \/ c \in unsent /\ stage[r] \in {"untimed", "receiving"}
=============================================================================
