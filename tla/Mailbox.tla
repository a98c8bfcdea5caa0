------------------------------- MODULE Mailbox -------------------------------
(***************************************************************************)
(* One mailbox of a node (impl/actual_mailbox.cpp): the list of received   *)
(* messages, the list of broken links, and the flag and condition variable *)
(* through which the delivering threads wake the threads that sit in       *)
(* receive().                                                              *)
(*                                                                         *)
(* received_msgs_mutex is held from the moment a receiver enters until it  *)
(* waits or has picked a message, and for the whole of a notification's    *)
(* critical section, so each of these is one action.  What happens outside *)
(* the mutex is an action of its own: the call of notify_one (made after   *)
(* the unlock), the re-acquisition of the mutex by a woken receiver, the   *)
(* expiry of a timer and the later run of its handler by the io_service.   *)
(*                                                                         *)
(* Each message and each link exit is delivered at most once, so that the  *)
(* lists can be compared with what went in: the elements of Messages and   *)
(* Exits are occurrences, not contents.                                    *)
(***************************************************************************)
EXTENDS Naturals, Sequences, Functions

CONSTANTS
  Receivers,   \* the application threads that call receive on this mailbox
  Messages,    \* the messages that may arrive
  Exits,       \* the link exits (reason, pid) that may be reported to it
  MaxTimers    \* bound on the number of calls of receive with a time-out

ASSUME MaxTimersAssumption == MaxTimers \in Nat

VARIABLES
  received_msgs,   \* std::list<msg_seq>, front first
  broken_links,    \* std::list<pair<reason, e_pid>>, front first
  message_ready,   \* the flag guarded by received_msgs_mutex
  owed,            \* calls of notify_one that follow an unlock already made
  pc,              \* where each receiver is
  timer,           \* the deadline_timer of a receiver's timed call
  expired,         \* receive_tmo handlers queued with success
  aborted,         \* receive_tmo handlers queued with operation_aborted
  started,         \* timed calls made so far, at most MaxTimers
  arrived,         \* history: the messages delivered, in order
  taken,           \* history: the messages handed to receivers, in order
  lost,            \* history: the link exits delivered
  reported,        \* history: the link exits thrown as link_broken
  expiries,        \* history: the timers that ran out
  tmos             \* history: the mailbox_receive_tmo exceptions thrown

lists    == <<received_msgs, broken_links>>
timers   == <<timer, expired, aborted, started, expiries>>
inputs   == <<arrived, lost>>
outcomes == <<taken, reported, tmos>>
vars     == <<lists, message_ready, owed, pc, timers, inputs, outcomes>>

Blocked  == {"waiting", "woken"}
Finished == {"got_message", "got_link_broken", "got_tmo"}
PC       == {"idle", "calling"} \cup Blocked \cup Finished

-----------------------------------------------------------------------------
(***************************************************************************)
(* The constructor: nothing received, the flag down.                       *)
(***************************************************************************)
Init ==
  /\ received_msgs = <<>> /\ broken_links = <<>>
  /\ message_ready = FALSE
  /\ owed = 0
  /\ pc = [r \in Receivers |-> "idle"]
  /\ timer = [r \in Receivers |-> "none"]
  /\ expired = 0 /\ aborted = 0 /\ started = 0 /\ expiries = 0
  /\ arrived = <<>> /\ lost = {}
  /\ taken = <<>> /\ reported = {} /\ tmos = 0

-----------------------------------------------------------------------------
(***************************************************************************)
(* The receiving side.                                                     *)
(***************************************************************************)

(***************************************************************************)
(* The front broken link is popped and thrown as link_broken.              *)
(***************************************************************************)
report_broken_link(r) ==
  /\ broken_links # <<>>
  /\ broken_links' = Tail(broken_links)
  /\ reported' = reported \cup {Head(broken_links)}
  /\ pc' = [pc EXCEPT ![r] = "got_link_broken"]
  /\ UNCHANGED <<received_msgs, taken, tmos>>

throw_receive_tmo(r) ==
  /\ tmos' = tmos + 1
  /\ pc' = [pc EXCEPT ![r] = "got_tmo"]
  /\ UNCHANGED <<lists, taken, reported>>

pop_front_msg(r) ==
  /\ received_msgs' = Tail(received_msgs)
  /\ taken' = Append(taken, Head(received_msgs))
  /\ pc' = [pc EXCEPT ![r] = "got_message"]
  /\ UNCHANGED <<broken_links, reported, tmos>>

\* Mutant: the front message is read and not popped.
pick_first_msg_no_pop(r) ==
  /\ message_ready' = FALSE
  /\ \/ report_broken_link(r)
     \/ broken_links = <<>> /\ received_msgs = <<>> /\ throw_receive_tmo(r)
     \/ /\ broken_links = <<>> /\ received_msgs # <<>>
        /\ taken' = Append(taken, Head(received_msgs))
        /\ pc' = [pc EXCEPT ![r] = "got_message"]
        /\ UNCHANGED <<lists, reported, tmos>>

\* Mutant: whether there is a message is not tested: after a time-out the front
\* of an empty list is read, which is no message.
pick_first_msg_untested(r) ==
  /\ message_ready' = FALSE
  /\ \/ report_broken_link(r)
     \/ /\ broken_links = <<>> /\ received_msgs = <<>>
        /\ taken' = Append(taken, "garbage")
        /\ pc' = [pc EXCEPT ![r] = "got_message"]
        /\ UNCHANGED <<lists, reported, tmos>>
     \/ broken_links = <<>> /\ received_msgs # <<>> /\ pop_front_msg(r)

\* Mutant: messages are handed out before broken links are looked at.
pick_first_msg_before_links(r) ==
  /\ message_ready' = FALSE
  /\ \/ received_msgs = <<>> /\ report_broken_link(r)
     \/ broken_links = <<>> /\ received_msgs = <<>> /\ throw_receive_tmo(r)
     \/ received_msgs # <<>> /\ pop_front_msg(r)

(***************************************************************************)
(* Called with the mutex held: the flag goes down whatever is left in the  *)
(* two lists; a broken link comes first, an empty list means a time-out.   *)
(***************************************************************************)
pick_first_msg(r) ==
  /\ message_ready' = FALSE
  /\ \/ report_broken_link(r)
     \/ broken_links = <<>> /\ received_msgs = <<>> /\ throw_receive_tmo(r)
     \/ broken_links = <<>> /\ received_msgs # <<>> /\ pop_front_msg(r)

(***************************************************************************)
(* cond.wait: the mutex is released and the receiver sleeps.               *)
(***************************************************************************)
cond_wait(r) ==
  /\ pc' = [pc EXCEPT ![r] = "waiting"]
  /\ UNCHANGED <<lists, message_ready, outcomes>>

receive(r) ==
  /\ pc[r] = "idle"
  /\ pc' = [pc EXCEPT ![r] = "calling"]
  /\ UNCHANGED <<lists, message_ready, owed, timers, inputs, outcomes>>

(***************************************************************************)
(* The call with a time-out arms a deadline_timer of its own first.        *)
(***************************************************************************)
receive_timed(r) ==
  /\ pc[r] = "idle"
  /\ started < MaxTimers
  /\ started' = started + 1
  /\ timer' = [timer EXCEPT ![r] = "armed"]
  /\ pc' = [pc EXCEPT ![r] = "calling"]
  /\ UNCHANGED <<lists, message_ready, owed, expired, aborted, expiries,
                 inputs, outcomes>>

\* Mutant: only the flag is looked at, not the list.
wait_for_flag_only(r) ==
  /\ pc[r] = "calling"
  /\ IF message_ready THEN pick_first_msg(r) ELSE cond_wait(r)
  /\ UNCHANGED <<owed, timers, inputs>>

(***************************************************************************)
(* The receiver takes the mutex.  A queued message is picked without       *)
(* looking at the flag; otherwise the flag decides.                        *)
(***************************************************************************)
wait_for_at_least_one_message(r) ==
  /\ pc[r] = "calling"
  /\ IF received_msgs # <<>> \/ message_ready
       THEN pick_first_msg(r)
       ELSE cond_wait(r)
  /\ UNCHANGED <<owed, timers, inputs>>

(***************************************************************************)
(* A woken receiver has the mutex again and re-tests the flag, and only    *)
(* the flag.                                                               *)
(***************************************************************************)
wake_up(r) ==
  /\ pc[r] = "woken"
  /\ IF message_ready THEN pick_first_msg(r) ELSE cond_wait(r)
  /\ UNCHANGED <<owed, timers, inputs>>

(***************************************************************************)
(* receive returns or throws.  A timed call cancels its timer, explicitly  *)
(* or in the timer's destructor when an exception unwinds the frame: a     *)
(* timer that has not run out queues its handler with operation_aborted,   *)
(* the queued handler of one that has is out of reach.                     *)
(***************************************************************************)
receive_returns(r) ==
  /\ pc[r] \in Finished
  /\ pc' = [pc EXCEPT ![r] = "idle"]
  /\ timer' = [timer EXCEPT ![r] = "none"]
  /\ aborted' = IF timer[r] = "armed" THEN aborted + 1 ELSE aborted
  /\ UNCHANGED <<lists, message_ready, owed, expired, started, expiries,
                 inputs, outcomes>>

-----------------------------------------------------------------------------
(***************************************************************************)
(* The delivering side: the io_service thread, and application threads     *)
(* that send to a mailbox of their own node.                               *)
(***************************************************************************)

\* Mutant: the notification is forgotten.
notify_receive_silently == message_ready' = TRUE /\ UNCHANGED owed

(***************************************************************************)
(* The tail of every notification: the flag goes up inside the mutex, and  *)
(* a call of notify_one is due after the unlock.                           *)
(***************************************************************************)
notify_receive ==
  /\ message_ready' = TRUE
  /\ owed' = owed + 1

(***************************************************************************)
(* A message is put at the FRONT of the list that receive picks from.      *)
(***************************************************************************)
on_incoming(m) ==
  /\ m \notin Range(arrived)
  /\ received_msgs' = <<m>> \o received_msgs
  /\ arrived' = Append(arrived, m)
  /\ notify_receive
  /\ UNCHANGED <<broken_links, pc, timers, lost, outcomes>>

on_link_broken(e) ==
  /\ e \notin lost
  /\ broken_links' = Append(broken_links, e)
  /\ lost' = lost \cup {e}
  /\ notify_receive
  /\ UNCHANGED <<received_msgs, pc, timers, arrived, outcomes>>

(***************************************************************************)
(* notify_one releases one sleeping receiver, if there is one.             *)
(***************************************************************************)
notify_one ==
  /\ owed > 0
  /\ owed' = owed - 1
  /\ \/ \E r \in Receivers :
          pc[r] = "waiting" /\ pc' = [pc EXCEPT ![r] = "woken"]
     \/ (\A r \in Receivers : pc[r] # "waiting") /\ UNCHANGED pc
  /\ UNCHANGED <<lists, message_ready, timers, inputs, outcomes>>

(***************************************************************************)
(* std::condition_variable may wake a thread that nobody notified.         *)
(***************************************************************************)
spurious_wakeup(r) ==
  /\ pc[r] = "waiting"
  /\ pc' = [pc EXCEPT ![r] = "woken"]
  /\ UNCHANGED <<lists, message_ready, owed, timers, inputs, outcomes>>

(***************************************************************************)
(* The timer runs out: its handler is queued in the io_service.            *)
(***************************************************************************)
timer_expires(r) ==
  /\ timer[r] = "armed"
  /\ timer' = [timer EXCEPT ![r] = "fired"]
  /\ expired' = expired + 1
  /\ expiries' = expiries + 1
  /\ UNCHANGED <<lists, message_ready, owed, pc, aborted, started,
                 inputs, outcomes>>

\* Mutant: the handler notifies without raising the flag.
receive_tmo_no_flag ==
  /\ expired > 0
  /\ expired' = expired - 1
  /\ owed' = owed + 1
  /\ UNCHANGED <<lists, message_ready, pc, timer, aborted, started, expiries,
                 inputs, outcomes>>

(***************************************************************************)
(* The handler of a timer that ran out notifies and touches no list.       *)
(***************************************************************************)
receive_tmo ==
  /\ expired > 0
  /\ expired' = expired - 1
  /\ notify_receive
  /\ UNCHANGED <<lists, pc, timer, aborted, started, expiries, inputs,
                 outcomes>>

\* Mutant: a cancelled timer's handler is taken for an expiry.
receive_tmo_unchecked ==
  /\ aborted > 0
  /\ aborted' = aborted - 1
  /\ notify_receive
  /\ UNCHANGED <<lists, pc, timer, expired, started, expiries, inputs,
                 outcomes>>

(***************************************************************************)
(* The handler of a cancelled timer is an old notification and returns.    *)
(***************************************************************************)
receive_tmo_aborted ==
  /\ aborted > 0
  /\ aborted' = aborted - 1
  /\ UNCHANGED <<lists, message_ready, owed, pc, timer, expired, started,
                 expiries, inputs, outcomes>>

-----------------------------------------------------------------------------
Next ==
  \/ \E r \in Receivers : receive(r)
  \/ \E r \in Receivers : receive_timed(r)
  \/ \E r \in Receivers : wait_for_at_least_one_message(r)
  \/ \E r \in Receivers : wake_up(r)
  \/ \E r \in Receivers : receive_returns(r)
  \/ \E r \in Receivers : spurious_wakeup(r)
  \/ \E r \in Receivers : timer_expires(r)
  \/ \E m \in Messages : on_incoming(m)
  \/ \E e \in Exits : on_link_broken(e)
  \/ notify_one
  \/ receive_tmo
  \/ receive_tmo_aborted

Spec == Init /\ [][Next]_vars

(***************************************************************************)
(* The fairness the platform gives: a thread that can run runs, an armed   *)
(* timer runs out or is cancelled, and the io_service thread runs the      *)
(* handlers queued in it.  No call, no delivery and no spurious wake-up    *)
(* is promised.                                                            *)
(***************************************************************************)
Fairness ==
  /\ \A r \in Receivers :
       /\ WF_vars(wait_for_at_least_one_message(r))
       /\ WF_vars(wake_up(r))
       /\ WF_vars(receive_returns(r))
       /\ WF_vars(timer_expires(r))
  /\ WF_vars(notify_one)
  /\ WF_vars(receive_tmo)
  /\ WF_vars(receive_tmo_aborted)

FairSpec == Spec /\ Fairness

-----------------------------------------------------------------------------
(***************************************************************************)
(* Properties.                                                             *)
(***************************************************************************)

(***************************************************************************)
(* Type correctness of the mailbox's state.                                *)
(***************************************************************************)
TypeOK ==
  /\ received_msgs \in Seq(Messages)
  /\ broken_links \in Seq(Exits)
  /\ message_ready \in BOOLEAN
  /\ owed \in Nat
  /\ pc \in [Receivers -> PC]
  /\ timer \in [Receivers -> {"none", "armed", "fired"}]
  /\ expired \in Nat /\ aborted \in Nat /\ started \in 0..MaxTimers
  /\ arrived \in Seq(Messages) /\ lost \in SUBSET Exits
  /\ taken \in Seq(Messages) /\ reported \in SUBSET Exits
  /\ expiries \in Nat /\ tmos \in Nat

(***************************************************************************)
(* receive loses and repeats nothing, whatever the number of receivers and *)
(* however their time-outs and broken links interleave: the messages       *)
(* delivered to the mailbox are exactly those handed out and those still   *)
(* queued, no message is in two places or twice in one, and the same holds *)
(* of link exits and link_broken exceptions.                               *)
(***************************************************************************)
Conservation ==
  /\ Range(arrived) = Range(taken) \cup Range(received_msgs)
  /\ Range(taken) \cap Range(received_msgs) = {}
  /\ IsInjective(taken) /\ IsInjective(received_msgs)
  /\ lost = reported \cup Range(broken_links)
  /\ reported \cap Range(broken_links) = {}
  /\ IsInjective(broken_links)

(***************************************************************************)
(* Every mailbox_receive_tmo is paid for by a timer that ran out: the      *)
(* handlers of cancelled timers, notifications for messages another        *)
(* receiver took and spurious wake-ups never surface as a time-out.        *)
(***************************************************************************)
NoPhantomTimeout == tmos <= expiries

(***************************************************************************)
(* While the flag is up and a receiver sleeps, someone is on the way: a    *)
(* notify_one is due or a woken receiver is about to look.  notify_receive *)
(* calls notify_one after the unlock; no wake-up is lost by that.          *)
(***************************************************************************)
SignalPending ==
  message_ready /\ (\E r \in Receivers : pc[r] = "waiting")
    => owed > 0 \/ \E q \in Receivers : pc[q] = "woken"

(***************************************************************************)
(* No receiver sleeps through a queued message (mailbox.h: receive "blocks *)
(* until a message is received").                                          *)
(***************************************************************************)
NoMissedMessage ==
  received_msgs # <<>> /\ (\E r \in Receivers : pc[r] = "waiting")
    => owed > 0 \/ \E q \in Receivers : pc[q] = "woken"

(***************************************************************************)
(* No receiver sleeps through a broken link (actual_mailbox.h: "Each       *)
(* broken link is reported as an exception in the next receive").          *)
(***************************************************************************)
NoMissedBrokenLink ==
  broken_links # <<>> /\ (\E r \in Receivers : pc[r] = "waiting")
    => owed > 0 \/ \E q \in Receivers : pc[q] = "woken"

(***************************************************************************)
(* receive() without a time-out never throws mailbox_receive_tmo           *)
(* (mailbox.h: "Blocks until a message is received in this mailbox").      *)
(***************************************************************************)
UntimedReceiveNeverTimesOut ==
  \A r \in Receivers : pc[r] = "got_tmo" => timer[r] # "none"

(***************************************************************************)
(* Messages are handed out in the order of their delivery, as              *)
(* test/thread_safe_queue.cpp uses a mailbox ("an ordered, bidirectional   *)
(* queue").                                                                *)
(***************************************************************************)
FifoDelivery ==
  \A i \in DOMAIN taken : i \in DOMAIN arrived /\ taken[i] = arrived[i]

(***************************************************************************)
(* A call of receive with a time-out returns or throws.                    *)
(***************************************************************************)
TimedReceiveReturns ==
  \A r \in Receivers : timer[r] # "none" ~> timer[r] = "none"

(***************************************************************************)
(* A receiver in the mailbox while a message is queued gets out.           *)
(***************************************************************************)
ReceiveReturnsOnArrival ==
  \A r \in Receivers :
    (pc[r] \in Blocked \cup {"calling"} /\ received_msgs # <<>>)
      ~> pc[r] \in Finished

-----------------------------------------------------------------------------
(***************************************************************************)
(* The mailbox seen as the abstract one: lists as sets, and neither flag,  *)
(* nor waiting, nor timers.                                                *)
(***************************************************************************)
Abstract == INSTANCE AbstractMailbox WITH
  queued <- Range(received_msgs), broken <- Range(broken_links),
  out <- Range(taken), told <- reported, timeouts <- tmos

(***************************************************************************)
(* The mailbox implements the abstract one: in particular no message is    *)
(* handed out while a broken link is unreported, and no time-out is thrown *)
(* while there is something to hand out.                                   *)
(***************************************************************************)
ImplementsAbstract == Abstract!Spec
=============================================================================
