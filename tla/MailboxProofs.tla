---------------------------- MODULE MailboxProofs ----------------------------
(***************************************************************************)
(* Proofs about Mailbox for any set of receivers, messages and link exits, *)
(* and about Rpc for any number of calling threads, calls and stray        *)
(* messages.  The calls leave the mailbox what it is, so that what is      *)
(* shown of it holds during a call too.                                    *)
(***************************************************************************)
EXTENDS Rpc, SequenceTheorems, TLAPS

-----------------------------------------------------------------------------
(***************************************************************************)
(* The operations of std::list (push_front, push_back, front, pop_front):  *)
(* the elements a list holds afterwards, and that a list without           *)
(* repetitions stays without.                                              *)
(***************************************************************************)

(***************************************************************************)
(* push_back adds one element, and a fresh one repeats nothing.            *)
(***************************************************************************)
LEMMA PushBack ==
  ASSUME NEW S, NEW s \in Seq(S), NEW x \in S
  PROVE  /\ Append(s, x) \in Seq(S)
         /\ Append(s, x) # <<>>
         /\ Range(Append(s, x)) = Range(s) \cup {x}
         /\ IsInjective(s) /\ x \notin Range(s) => IsInjective(Append(s, x))
<1> DEFINE t == Append(s, x)
<1>1. /\ t \in Seq(S)
      /\ Len(t) = Len(s) + 1
      /\ \A i \in 1..Len(s) : t[i] = s[i]
      /\ t[Len(s) + 1] = x
  OBVIOUS
<1>2. /\ Len(s) \in Nat
      /\ DOMAIN s = 1..Len(s)
      /\ DOMAIN t = 1..(Len(s) + 1)
  BY <1>1, LenProperties
<1> HIDE DEF t
<1>3. t # <<>>
  BY <1>1, <1>2
<1>4. Range(t) = Range(s) \cup {x}
  <2>1. ASSUME NEW y \in Range(t) PROVE y \in Range(s) \cup {x}
    BY <1>1, <1>2 DEF Range
  <2>2. ASSUME NEW y \in Range(s) \cup {x} PROVE y \in Range(t)
    BY <1>1, <1>2 DEF Range
  <2> QED BY <2>1, <2>2
<1>5. ASSUME IsInjective(s), x \notin Range(s) PROVE IsInjective(t)
  BY <1>1, <1>2, <1>5 DEF IsInjective, Range
<1> QED BY <1>1, <1>3, <1>4, <1>5 DEF t

(***************************************************************************)
(* push_front adds one element, and a fresh one repeats nothing.           *)
(***************************************************************************)
LEMMA PushFront ==
  ASSUME NEW S, NEW s \in Seq(S), NEW x \in S
  PROVE  /\ <<x>> \o s \in Seq(S)
         /\ <<x>> \o s # <<>>
         /\ Range(<<x>> \o s) = Range(s) \cup {x}
         /\ IsInjective(s) /\ x \notin Range(s) => IsInjective(<<x>> \o s)
<1> DEFINE t == <<x>> \o s
<1>1. <<x>> \in Seq(S) /\ Len(<<x>>) = 1 /\ <<x>>[1] = x
  OBVIOUS
<1>2. /\ Len(s) \in Nat
      /\ DOMAIN s = 1..Len(s)
  BY LenProperties
<1>3. /\ t \in Seq(S)
      /\ Len(t) = Len(s) + 1
      /\ t[1] = x
      /\ \A i \in 2..(Len(s) + 1) : t[i] = s[i - 1]
  BY <1>1, <1>2, ConcatProperties
<1>4. DOMAIN t = 1..(Len(s) + 1)
  BY <1>3, LenProperties
<1> HIDE DEF t
<1>5. t # <<>>
  BY <1>3, <1>2
<1>6. Range(t) = Range(s) \cup {x}
  <2>1. ASSUME NEW y \in Range(t) PROVE y \in Range(s) \cup {x}
    BY <1>2, <1>3, <1>4 DEF Range
  <2>2. ASSUME NEW y \in Range(s) PROVE y \in Range(t)
    <3>1. PICK i \in 1..Len(s) : y = s[i]
      BY <1>2 DEF Range
    <3>2. i + 1 \in DOMAIN t /\ t[i + 1] = y
      BY <1>2, <1>3, <1>4, <3>1
    <3> QED BY <3>2 DEF Range
  <2>3. x \in Range(t)
    BY <1>2, <1>3, <1>4 DEF Range
  <2> QED BY <2>1, <2>2, <2>3
<1>7. ASSUME IsInjective(s), x \notin Range(s) PROVE IsInjective(t)
  <2>1. SUFFICES ASSUME NEW a \in DOMAIN t, NEW b \in DOMAIN t, t[a] = t[b]
                 PROVE  a = b
    BY DEF IsInjective
  <2>2. \A i \in 2..(Len(s) + 1) : i - 1 \in DOMAIN s /\ t[i] = s[i - 1]
    BY <1>2, <1>3
  <2>3. \A i \in 2..(Len(s) + 1) : t[i] \in Range(s)
    BY <2>2 DEF Range
  <2>4. CASE a = 1 \/ b = 1
    BY <2>1, <2>3, <2>4, <1>2, <1>3, <1>4, <1>7
  <2>5. CASE a # 1 /\ b # 1
    <3>1. a \in 2..(Len(s) + 1) /\ b \in 2..(Len(s) + 1)
      BY <2>5, <1>2, <1>4
    <3>2. a - 1 \in DOMAIN s /\ b - 1 \in DOMAIN s /\ s[a - 1] = s[b - 1]
      BY <2>1, <2>2, <3>1
    <3>3. a - 1 = b - 1
      BY <3>2, <1>7 DEF IsInjective
    <3> QED BY <3>1, <3>3, <1>2
  <2> QED BY <2>4, <2>5
<1> QED BY <1>3, <1>5, <1>6, <1>7 DEF t

(***************************************************************************)
(* pop_front removes the front element and, in a list without repetitions, *)
(* every trace of it.                                                      *)
(***************************************************************************)
LEMMA PopFront ==
  ASSUME NEW S, NEW s \in Seq(S), s # <<>>
  PROVE  /\ Head(s) \in S
         /\ Tail(s) \in Seq(S)
         /\ Range(s) = {Head(s)} \cup Range(Tail(s))
         /\ IsInjective(s) => /\ IsInjective(Tail(s))
                              /\ Head(s) \notin Range(Tail(s))
<1> DEFINE t == Tail(s)
<1>1. /\ Len(s) \in Nat \ {0}
      /\ DOMAIN s = 1..Len(s)
      /\ Head(s) = s[1]
  BY EmptySeq, LenProperties
<1>2. /\ Head(s) \in S
      /\ t \in Seq(S)
      /\ Len(t) = Len(s) - 1
      /\ \A i \in 1..Len(t) : t[i] = s[i + 1]
  BY HeadTailProperties
<1>3. DOMAIN t = 1..(Len(s) - 1)
  BY <1>2, LenProperties
<1> HIDE DEF t
<1>4. Range(s) = {Head(s)} \cup Range(t)
  <2>1. ASSUME NEW y \in Range(s) PROVE y \in {Head(s)} \cup Range(t)
    <3>1. PICK i \in 1..Len(s) : y = s[i]
      BY <1>1 DEF Range
    <3>2. CASE i = 1
      BY <3>1, <3>2, <1>1
    <3>3. CASE i # 1
      <4>1. i - 1 \in DOMAIN t /\ t[i - 1] = y
        BY <1>1, <1>2, <1>3, <3>1, <3>3
      <4> QED BY <4>1 DEF Range
    <3> QED BY <3>2, <3>3
  <2>2. ASSUME NEW y \in Range(t) PROVE y \in Range(s)
    <3>1. PICK i \in DOMAIN t : y = t[i]
      BY DEF Range
    <3>2. i + 1 \in DOMAIN s /\ s[i + 1] = y
      BY <1>1, <1>2, <1>3, <3>1
    <3> QED BY <3>2 DEF Range
  <2>3. Head(s) \in Range(s)
    BY <1>1 DEF Range
  <2> QED BY <2>1, <2>2, <2>3
<1>5. ASSUME IsInjective(s) PROVE IsInjective(t) /\ Head(s) \notin Range(t)
  <2>1. ASSUME NEW a \in DOMAIN t, NEW b \in DOMAIN t, t[a] = t[b]
        PROVE  a = b
    <3>1. /\ a + 1 \in DOMAIN s /\ b + 1 \in DOMAIN s
          /\ s[a + 1] = s[b + 1]
      BY <1>1, <1>2, <1>3, <2>1
    <3>2. a + 1 = b + 1
      BY <3>1, <1>5 DEF IsInjective
    <3> QED BY <3>2, <1>1, <1>3
  <2>2. ASSUME NEW a \in DOMAIN t, t[a] = Head(s) PROVE FALSE
    <3>1. a + 1 \in DOMAIN s /\ 1 \in DOMAIN s /\ s[a + 1] = s[1]
      BY <1>1, <1>2, <1>3, <2>2
    <3>2. a + 1 = 1
      BY <3>1, <1>5 DEF IsInjective
    <3> QED BY <3>2, <1>1, <1>3
  <2>3. IsInjective(t)
    BY <2>1 DEF IsInjective
  <2>4. Head(s) \notin Range(t)
    BY <2>2 DEF Range
  <2> QED BY <2>3, <2>4
<1> QED BY <1>2, <1>4, <1>5 DEF t

(***************************************************************************)
(* The empty list holds nothing and repeats nothing.                       *)
(***************************************************************************)
LEMMA EmptyList ==
  ASSUME NEW S
  PROVE  <<>> \in Seq(S) /\ Range(<<>>) = {} /\ IsInjective(<<>>)
BY DEF Range, IsInjective

(***************************************************************************)
(* A list is empty exactly when it holds nothing.                          *)
(***************************************************************************)
LEMMA EmptyRange ==
  ASSUME NEW S, NEW s \in Seq(S)
  PROVE  s = <<>> <=> Range(s) = {}
<1>1. ASSUME s # <<>> PROVE Range(s) # {}
  BY <1>1, PopFront
<1> QED BY <1>1, EmptyList

-----------------------------------------------------------------------------

(***************************************************************************)
(* Every operation of the mailbox keeps its state well-typed.              *)
(***************************************************************************)
LEMMA TypeStep ==
  ASSUME TypeOK, [Next]_vars
  PROVE  TypeOK'
<1> USE DEF TypeOK, PC, Blocked, Finished, lists, timers, inputs, outcomes
<1>1. ASSUME NEW r \in Receivers, pick_first_msg(r),
             UNCHANGED <<owed, timers, inputs>>
      PROVE  TypeOK'
  <2>0. message_ready' = FALSE
    BY <1>1 DEF pick_first_msg
  <2>1. CASE report_broken_link(r)
    <3>1. broken_links' \in Seq(Exits) /\ reported' \in SUBSET Exits
      BY <2>1, PopFront DEF report_broken_link
    <3> QED BY <1>1, <2>0, <2>1, <3>1 DEF report_broken_link
  <2>2. CASE throw_receive_tmo(r)
    <3>1. tmos' \in Nat /\ pc' \in [Receivers -> PC]
      BY <2>2 DEF throw_receive_tmo
    <3>2. UNCHANGED <<received_msgs, broken_links, taken, reported>>
      BY <2>2 DEF throw_receive_tmo
    <3> QED BY <1>1, <2>0, <3>1, <3>2
  <2>3. CASE received_msgs # <<>> /\ pop_front_msg(r)
    <3>1. Head(received_msgs) \in Messages
      BY <2>3, PopFront
    <3>2. received_msgs' \in Seq(Messages) /\ taken' \in Seq(Messages)
      BY <2>3, <3>1, PopFront, PushBack DEF pop_front_msg
    <3> QED BY <1>1, <2>0, <2>3, <3>2 DEF pop_front_msg
  <2> QED BY <1>1, <2>1, <2>2, <2>3 DEF pick_first_msg
<1>2. ASSUME NEW r \in Receivers, cond_wait(r),
             UNCHANGED <<owed, timers, inputs>>
      PROVE  TypeOK'
  BY <1>2 DEF cond_wait
<1>3. ASSUME NEW r \in Receivers, receive(r) PROVE TypeOK'
  BY <1>3 DEF receive
<1>4. ASSUME NEW r \in Receivers, receive_timed(r) PROVE TypeOK'
  BY <1>4, MaxTimersAssumption DEF receive_timed
<1>5. ASSUME NEW r \in Receivers, wait_for_at_least_one_message(r)
      PROVE  TypeOK'
  BY <1>1, <1>2, <1>5 DEF wait_for_at_least_one_message
<1>6. ASSUME NEW r \in Receivers, wake_up(r) PROVE TypeOK'
  BY <1>1, <1>2, <1>6 DEF wake_up
<1>7. ASSUME NEW r \in Receivers, receive_returns(r) PROVE TypeOK'
  BY <1>7 DEF receive_returns
<1>8. ASSUME NEW r \in Receivers, spurious_wakeup(r) PROVE TypeOK'
  BY <1>8 DEF spurious_wakeup
<1>9. ASSUME NEW r \in Receivers, timer_expires(r) PROVE TypeOK'
  BY <1>9 DEF timer_expires
<1>10. ASSUME NEW m \in Messages, on_incoming(m) PROVE TypeOK'
  <2>1. received_msgs' \in Seq(Messages) /\ arrived' \in Seq(Messages)
    BY <1>10, PushFront, PushBack DEF on_incoming
  <2> QED BY <1>10, <2>1 DEF on_incoming, notify_receive
<1>11. ASSUME NEW e \in Exits, on_link_broken(e) PROVE TypeOK'
  <2>1. broken_links' \in Seq(Exits)
    BY <1>11, PushBack DEF on_link_broken
  <2> QED BY <1>11, <2>1 DEF on_link_broken, notify_receive
<1>12. CASE notify_one
  BY <1>12 DEF notify_one
<1>13. CASE receive_tmo
  BY <1>13 DEF receive_tmo, notify_receive
<1>14. CASE receive_tmo_aborted
  BY <1>14 DEF receive_tmo_aborted
<1>15. CASE UNCHANGED vars
  BY <1>15 DEF vars
<1> QED BY <1>3, <1>4, <1>5, <1>6, <1>7, <1>8, <1>9, <1>10, <1>11, <1>12,
           <1>13, <1>14, <1>15 DEF Next

(***************************************************************************)
(* The mailbox's state is well-typed in every reachable state.             *)
(***************************************************************************)
THEOREM TypeCorrect == Spec => []TypeOK
<1>1. Init => TypeOK
  <2> SUFFICES ASSUME Init PROVE TypeOK
    OBVIOUS
  <2>1. /\ received_msgs \in Seq(Messages) /\ arrived \in Seq(Messages)
        /\ taken \in Seq(Messages) /\ broken_links \in Seq(Exits)
    BY EmptyList DEF Init
  <2>2. /\ pc \in [Receivers -> PC]
        /\ timer \in [Receivers -> {"none", "armed", "fired"}]
    BY DEF Init, PC
  <2>3. message_ready \in BOOLEAN /\ lost \in SUBSET Exits
          /\ reported \in SUBSET Exits
    BY DEF Init
  <2>4. /\ owed \in Nat /\ expired \in Nat /\ aborted \in Nat
        /\ started \in 0..MaxTimers /\ expiries \in Nat /\ tmos \in Nat
    BY MaxTimersAssumption DEF Init
  <2> QED BY <2>1, <2>2, <2>3, <2>4 DEF TypeOK
<1> QED BY <1>1, TypeStep, PTL DEF Spec

-----------------------------------------------------------------------------
(***************************************************************************)
(* What a step does to the two lists and to their histories, whichever     *)
(* action it belongs to: at most one element enters or leaves one list.    *)
(***************************************************************************)
Reports ==
  /\ broken_links # <<>>
  /\ broken_links' = Tail(broken_links)
  /\ reported' = reported \cup {Head(broken_links)}
  /\ UNCHANGED <<received_msgs, arrived, lost, taken, tmos>>

TimesOut ==
  /\ broken_links = <<>> /\ received_msgs = <<>>
  /\ tmos' = tmos + 1
  /\ UNCHANGED <<received_msgs, broken_links, arrived, lost, taken, reported>>

Takes ==
  /\ broken_links = <<>> /\ received_msgs # <<>>
  /\ received_msgs' = Tail(received_msgs)
  /\ taken' = Append(taken, Head(received_msgs))
  /\ UNCHANGED <<broken_links, arrived, lost, reported, tmos>>

Accepts(m) ==
  /\ m \notin Range(arrived)
  /\ received_msgs' = <<m>> \o received_msgs
  /\ arrived' = Append(arrived, m)
  /\ UNCHANGED <<broken_links, lost, taken, reported, tmos>>

Breaks(e) ==
  /\ e \notin lost
  /\ broken_links' = Append(broken_links, e)
  /\ lost' = lost \cup {e}
  /\ UNCHANGED <<received_msgs, arrived, taken, reported, tmos>>

KeepsLists ==
  UNCHANGED <<received_msgs, broken_links, arrived, lost, taken, reported,
              tmos>>

LEMMA ListSteps ==
  ASSUME [Next]_vars
  PROVE  \/ KeepsLists
         \/ Reports \/ TimesOut \/ Takes
         \/ \E m \in Messages : Accepts(m)
         \/ \E e \in Exits : Breaks(e)
<1> USE DEF lists, timers, inputs, outcomes, KeepsLists
<1>1. ASSUME NEW r \in Receivers, pick_first_msg(r), UNCHANGED inputs
      PROVE  Reports \/ TimesOut \/ Takes
  BY <1>1 DEF pick_first_msg, report_broken_link, throw_receive_tmo,
              pop_front_msg, Reports, TimesOut, Takes
<1>2. ASSUME NEW r \in Receivers,
             wait_for_at_least_one_message(r) \/ wake_up(r)
      PROVE  KeepsLists \/ Reports \/ TimesOut \/ Takes
  BY <1>1, <1>2 DEF wait_for_at_least_one_message, wake_up, cond_wait
<1>3. ASSUME NEW r \in Receivers,
             \/ receive(r) \/ receive_timed(r) \/ receive_returns(r)
             \/ spurious_wakeup(r) \/ timer_expires(r)
      PROVE  KeepsLists
  BY <1>3 DEF receive, receive_timed, receive_returns, spurious_wakeup,
              timer_expires
<1>4. ASSUME NEW m \in Messages, on_incoming(m) PROVE Accepts(m)
  BY <1>4 DEF on_incoming, Accepts
<1>5. ASSUME NEW e \in Exits, on_link_broken(e) PROVE Breaks(e)
  BY <1>5 DEF on_link_broken, Breaks
<1>6. ASSUME notify_one \/ receive_tmo \/ receive_tmo_aborted
      PROVE  KeepsLists
  BY <1>6 DEF notify_one, receive_tmo, receive_tmo_aborted
<1>7. CASE UNCHANGED vars
  BY <1>7 DEF vars
<1> QED BY <1>2, <1>3, <1>4, <1>5, <1>6, <1>7 DEF Next

LEMMA ConservationStep ==
  ASSUME TypeOK, Conservation, [Next]_vars
  PROVE  Conservation'
<1> USE DEF TypeOK
<1>1. CASE KeepsLists
  BY <1>1 DEF KeepsLists, Conservation
<1>2. CASE Reports
  <2> DEFINE h == Head(broken_links)
             t == Tail(broken_links)
  <2>1. /\ Range(broken_links) = {h} \cup Range(t)
        /\ h \notin Range(t)
        /\ IsInjective(t)
    BY <1>2, PopFront DEF Reports, Conservation
  <2>2. broken_links' = t /\ reported' = reported \cup {h}
    BY <1>2 DEF Reports
  <2> HIDE DEF h, t
  <2>3. /\ lost' = reported' \cup Range(broken_links')
        /\ reported' \cap Range(broken_links') = {}
        /\ IsInjective(broken_links')
    BY <1>2, <2>1, <2>2 DEF Reports, Conservation
  <2> QED BY <1>2, <2>3 DEF Reports, Conservation
<1>3. CASE TimesOut
  BY <1>3 DEF TimesOut, Conservation
<1>4. CASE Takes
  <2> DEFINE h == Head(received_msgs)
             t == Tail(received_msgs)
  <2>1. /\ h \in Messages
        /\ Range(received_msgs) = {h} \cup Range(t)
        /\ h \notin Range(t)
        /\ IsInjective(t)
    BY <1>4, PopFront DEF Takes, Conservation
  <2>2. received_msgs' = t /\ taken' = Append(taken, h)
    BY <1>4 DEF Takes
  <2> HIDE DEF h, t
  <2>3. /\ Range(taken') = Range(taken) \cup {h}
        /\ IsInjective(taken')
    BY <2>1, <2>2, PushBack DEF Conservation
  <2>4. /\ Range(arrived') = Range(taken') \cup Range(received_msgs')
        /\ Range(taken') \cap Range(received_msgs') = {}
    BY <1>4, <2>1, <2>2, <2>3 DEF Takes, Conservation
  <2> QED BY <1>4, <2>1, <2>2, <2>3, <2>4 DEF Takes, Conservation
<1>5. ASSUME NEW m \in Messages, Accepts(m) PROVE Conservation'
  <2>1. m \notin Range(taken) /\ m \notin Range(received_msgs)
    BY <1>5 DEF Accepts, Conservation
  <2>2. /\ Range(received_msgs') = Range(received_msgs) \cup {m}
        /\ IsInjective(received_msgs')
    BY <1>5, <2>1, PushFront DEF Accepts, Conservation
  <2>3. Range(arrived') = Range(arrived) \cup {m}
    BY <1>5, PushBack DEF Accepts
  <2> QED BY <1>5, <2>1, <2>2, <2>3 DEF Accepts, Conservation
<1>6. ASSUME NEW e \in Exits, Breaks(e) PROVE Conservation'
  <2>1. e \notin reported /\ e \notin Range(broken_links)
    BY <1>6 DEF Breaks, Conservation
  <2>2. /\ Range(broken_links') = Range(broken_links) \cup {e}
        /\ IsInjective(broken_links')
    BY <1>6, <2>1, PushBack DEF Breaks, Conservation
  <2> QED BY <1>6, <2>1, <2>2 DEF Breaks, Conservation
<1> QED BY <1>1, <1>2, <1>3, <1>4, <1>5, <1>6, ListSteps

(***************************************************************************)
(* The mailbox neither loses nor repeats a message or a link exit, however *)
(* many threads receive from it.                                           *)
(***************************************************************************)
THEOREM ConservationHolds == Spec => []Conservation
<1>1. Init => Conservation
  BY EmptyList DEF Init, Conservation
<1> QED BY <1>1, TypeCorrect, ConservationStep, PTL DEF Spec

-----------------------------------------------------------------------------
(***************************************************************************)
(* tmos <= expiries is not inductive: an expired timer's handler may still *)
(* be queued, and a handler that has run may have left the flag up with    *)
(* nothing in the lists.  Each of these can still become a time-out, so    *)
(* each is counted against the expiries as well.                           *)
(***************************************************************************)
BareFlag == message_ready /\ received_msgs = <<>> /\ broken_links = <<>>

TimeoutBudget ==
  tmos + expired + (IF BareFlag THEN 1 ELSE 0) <= expiries

(***************************************************************************)
(* A call that is not satisfied by a queued message is let through by the  *)
(* flag alone, so a time-out always uses up a bare flag.                   *)
(***************************************************************************)
LEMMA TimeoutBudgetStep ==
  ASSUME TypeOK, TimeoutBudget, [Next]_vars
  PROVE  TimeoutBudget'
<1> USE DEF TypeOK, TimeoutBudget, BareFlag, lists, timers, inputs, outcomes
<1>1. ASSUME NEW r \in Receivers, pick_first_msg(r),
             received_msgs # <<>> \/ message_ready, UNCHANGED timers
      PROVE  TimeoutBudget'
  <2>0. ~BareFlag'
    BY <1>1 DEF pick_first_msg
  <2>1. CASE report_broken_link(r) \/ pop_front_msg(r)
    <3>1. UNCHANGED <<tmos, expired, expiries>>
      BY <1>1, <2>1 DEF report_broken_link, pop_front_msg
    <3> QED BY <2>0, <3>1
  <2>2. CASE broken_links = <<>> /\ received_msgs = <<>>
               /\ throw_receive_tmo(r)
    <3>1. BareFlag
      BY <1>1, <2>2
    <3>2. tmos' = tmos + 1 /\ UNCHANGED <<expired, expiries>>
      BY <1>1, <2>2 DEF throw_receive_tmo
    <3> QED BY <2>0, <3>1, <3>2
  <2> QED BY <1>1, <2>1, <2>2 DEF pick_first_msg
<1>2. ASSUME NEW r \in Receivers, cond_wait(r), UNCHANGED timers
      PROVE  TimeoutBudget'
  BY <1>2 DEF cond_wait
<1>3. ASSUME NEW r \in Receivers,
             wait_for_at_least_one_message(r) \/ wake_up(r)
      PROVE  TimeoutBudget'
  BY <1>1, <1>2, <1>3 DEF wait_for_at_least_one_message, wake_up
<1>4. ASSUME NEW r \in Receivers,
             \/ receive(r) \/ receive_timed(r) \/ receive_returns(r)
             \/ spurious_wakeup(r)
      PROVE  TimeoutBudget'
  BY <1>4 DEF receive, receive_timed, receive_returns, spurious_wakeup
<1>5. ASSUME NEW r \in Receivers, timer_expires(r) PROVE TimeoutBudget'
  BY <1>5 DEF timer_expires
<1>6. ASSUME NEW m \in Messages, on_incoming(m) PROVE TimeoutBudget'
  <2>1. received_msgs' # <<>>
    BY <1>6, PushFront DEF on_incoming
  <2> QED BY <1>6, <2>1 DEF on_incoming
<1>7. ASSUME NEW e \in Exits, on_link_broken(e) PROVE TimeoutBudget'
  <2>1. broken_links' # <<>>
    BY <1>7, PushBack DEF on_link_broken
  <2> QED BY <1>7, <2>1 DEF on_link_broken
<1>8. CASE notify_one \/ receive_tmo_aborted
  BY <1>8 DEF notify_one, receive_tmo_aborted
<1>9. CASE receive_tmo
  BY <1>9 DEF receive_tmo, notify_receive
<1>10. CASE UNCHANGED vars
  BY <1>10 DEF vars
<1> QED BY <1>3, <1>4, <1>5, <1>6, <1>7, <1>8, <1>9, <1>10 DEF Next

(***************************************************************************)
(* mailbox_receive_tmo is never thrown more often than timers ran out.     *)
(***************************************************************************)
THEOREM NoPhantomTimeoutHolds == Spec => []NoPhantomTimeout
<1>1. Init => TimeoutBudget
  BY DEF Init, TimeoutBudget, BareFlag
<1>2. TypeOK /\ TimeoutBudget => NoPhantomTimeout
  BY DEF TypeOK, TimeoutBudget, NoPhantomTimeout
<1> QED BY <1>1, <1>2, TypeCorrect, TimeoutBudgetStep, PTL DEF Spec

-----------------------------------------------------------------------------
(***************************************************************************)
(* No wake-up is lost between the unlock and notify_one: each step that    *)
(* raises the flag owes a notification, each notification wakes a sleeper  *)
(* if there is one, and a receiver that stops being woken has either       *)
(* lowered the flag or found it down.                                      *)
(***************************************************************************)
LEMMA SignalStep ==
  ASSUME TypeOK, SignalPending, [Next]_vars
  PROVE  SignalPending'
<1> USE DEF TypeOK, SignalPending, lists, timers, inputs, outcomes
<1>1. ASSUME NEW r \in Receivers,
             wait_for_at_least_one_message(r) \/ wake_up(r)
      PROVE  message_ready' = FALSE
  BY <1>1 DEF wait_for_at_least_one_message, wake_up, pick_first_msg,
              cond_wait
<1>2. ASSUME NEW r \in Receivers,
             receive(r) \/ receive_timed(r) \/ receive_returns(r)
      PROVE  SignalPending'
  <2>1. /\ pc[r] # "woken"
        /\ pc'[r] # "waiting"
        /\ \A q \in Receivers \ {r} : pc'[q] = pc[q]
        /\ UNCHANGED <<message_ready, owed>>
    BY <1>2 DEF receive, receive_timed, receive_returns, Finished
  <2> QED BY <2>1
<1>3. ASSUME NEW r \in Receivers, spurious_wakeup(r) PROVE SignalPending'
  BY <1>3 DEF spurious_wakeup
<1>4. ASSUME NEW r \in Receivers, timer_expires(r) PROVE SignalPending'
  BY <1>4 DEF timer_expires
<1>5. ASSUME notify_receive PROVE SignalPending'
  BY <1>5 DEF notify_receive
<1>6. CASE notify_one
  <2>1. CASE \E r \in Receivers :
               pc[r] = "waiting" /\ pc' = [pc EXCEPT ![r] = "woken"]
    BY <2>1
  <2>2. CASE (\A r \in Receivers : pc[r] # "waiting") /\ UNCHANGED pc
    BY <2>2
  <2> QED BY <1>6, <2>1, <2>2 DEF notify_one
<1>7. CASE receive_tmo_aborted
  BY <1>7 DEF receive_tmo_aborted
<1>8. CASE UNCHANGED vars
  BY <1>8 DEF vars
<1> QED BY <1>1, <1>2, <1>3, <1>4, <1>5, <1>6, <1>7, <1>8
        DEF Next, on_incoming, on_link_broken, receive_tmo

(***************************************************************************)
(* A raised flag always has a wake-up under way, for any number of         *)
(* receivers.                                                              *)
(***************************************************************************)
THEOREM SignalPendingHolds == Spec => []SignalPending
<1>1. Init => SignalPending
  BY DEF Init, SignalPending
<1> QED BY <1>1, TypeCorrect, SignalStep, PTL DEF Spec

-----------------------------------------------------------------------------
(***************************************************************************)
(* With one receiver nobody else can lower the flag while it is blocked,   *)
(* so a blocked receiver that sees the flag down has no message to miss.   *)
(***************************************************************************)
BlockedMeansEmpty ==
  \A r \in Receivers :
    pc[r] \in Blocked /\ ~message_ready => received_msgs = <<>>

LEMMA OneReceiverStep ==
  ASSUME NEW me, Receivers = {me}, TypeOK, BlockedMeansEmpty, [Next]_vars
  PROVE  BlockedMeansEmpty'
<1> USE DEF TypeOK, BlockedMeansEmpty, Blocked, lists, timers, inputs,
            outcomes
<1>1. ASSUME NEW r \in Receivers, pick_first_msg(r) PROVE BlockedMeansEmpty'
  <2>1. pc'[r] \in Finished
    BY <1>1 DEF pick_first_msg, report_broken_link, throw_receive_tmo,
                pop_front_msg, Finished
  <2> QED BY <2>1 DEF Finished
<1>2. ASSUME NEW r \in Receivers, wait_for_at_least_one_message(r)
      PROVE  BlockedMeansEmpty'
  BY <1>1, <1>2 DEF wait_for_at_least_one_message, cond_wait
<1>3. ASSUME NEW r \in Receivers, wake_up(r) PROVE BlockedMeansEmpty'
  BY <1>1, <1>3 DEF wake_up, cond_wait
<1>4. ASSUME NEW r \in Receivers,
             \/ receive(r) \/ receive_timed(r) \/ receive_returns(r)
             \/ spurious_wakeup(r) \/ timer_expires(r)
      PROVE  BlockedMeansEmpty'
  BY <1>4 DEF receive, receive_timed, receive_returns, spurious_wakeup,
              timer_expires
<1>5. ASSUME notify_receive PROVE BlockedMeansEmpty'
  BY <1>5 DEF notify_receive
<1>6. CASE notify_one
  BY <1>6 DEF notify_one
<1>7. CASE receive_tmo_aborted
  BY <1>7 DEF receive_tmo_aborted
<1>8. CASE UNCHANGED vars
  BY <1>8 DEF vars
<1> QED BY <1>2, <1>3, <1>4, <1>5, <1>6, <1>7, <1>8
        DEF Next, on_incoming, on_link_broken, receive_tmo

(***************************************************************************)
(* A mailbox used by one receiving thread, the use the header describes,   *)
(* never lets that thread sleep through a queued message.                  *)
(***************************************************************************)
THEOREM OneReceiverMissesNothing ==
  ASSUME NEW me, Receivers = {me}
  PROVE  Spec => []NoMissedMessage
<1>1. Init => BlockedMeansEmpty
  BY DEF Init, BlockedMeansEmpty, Blocked
<1>2. TypeOK /\ BlockedMeansEmpty /\ [Next]_vars => BlockedMeansEmpty'
  BY OneReceiverStep
<1>3. TypeOK /\ BlockedMeansEmpty /\ SignalPending => NoMissedMessage
  BY DEF TypeOK, BlockedMeansEmpty, SignalPending, NoMissedMessage, Blocked
<1> QED BY <1>1, <1>2, <1>3, TypeCorrect, SignalPendingHolds, PTL DEF Spec

-----------------------------------------------------------------------------
(***************************************************************************)
(* The mailbox implements AbstractMailbox under the mapping that reads the *)
(* lists as sets: a step moves at most one element, and every step that    *)
(* only concerns the flag, the timers or the waiting threads stutters.     *)
(***************************************************************************)
LEMMA AbstractStep ==
  ASSUME TypeOK, Conservation, [Next]_vars
  PROVE  [Abstract!Next]_(Abstract!vars)
<1> USE DEF TypeOK, Abstract!vars
<1>1. CASE KeepsLists
  BY <1>1 DEF KeepsLists
<1>2. CASE Reports
  <2> DEFINE e == Head(broken_links)
  <2>1. /\ e \in Exits
        /\ e \in Range(broken_links)
        /\ Range(broken_links') = Range(broken_links) \ {e}
    BY <1>2, PopFront DEF Reports, Conservation
  <2>2. Abstract!Report(e)
    BY <1>2, <2>1 DEF Reports, Abstract!Report
  <2> QED BY <2>1, <2>2 DEF Abstract!Next
<1>3. CASE TimesOut
  <2>1. Abstract!TimeOut
    BY <1>3, EmptyRange DEF TimesOut, Abstract!TimeOut
  <2> QED BY <2>1 DEF Abstract!Next
<1>4. CASE Takes
  <2> DEFINE m == Head(received_msgs)
  <2>1. /\ m \in Messages
        /\ m \in Range(received_msgs)
        /\ Range(received_msgs') = Range(received_msgs) \ {m}
    BY <1>4, PopFront DEF Takes, Conservation
  <2>2. Range(taken') = Range(taken) \cup {m}
    BY <1>4, <2>1, PushBack DEF Takes
  <2>3. Range(broken_links) = {}
    BY <1>4, EmptyRange DEF Takes
  <2>4. Abstract!Receive(m)
    BY <1>4, <2>1, <2>2, <2>3 DEF Takes, Abstract!Receive
  <2> QED BY <2>1, <2>4 DEF Abstract!Next
<1>5. ASSUME NEW m \in Messages, Accepts(m)
      PROVE  Abstract!Next
  <2>1. m \notin Range(received_msgs) \cup Range(taken)
    BY <1>5 DEF Accepts, Conservation
  <2>2. Range(received_msgs') = Range(received_msgs) \cup {m}
    BY <1>5, PushFront DEF Accepts
  <2>3. Abstract!Deliver(m)
    BY <1>5, <2>1, <2>2 DEF Accepts, Abstract!Deliver
  <2> QED BY <2>3 DEF Abstract!Next
<1>6. ASSUME NEW e \in Exits, Breaks(e)
      PROVE  Abstract!Next
  <2>1. e \notin Range(broken_links) \cup reported
    BY <1>6 DEF Breaks, Conservation
  <2>2. Range(broken_links') = Range(broken_links) \cup {e}
    BY <1>6, PushBack DEF Breaks
  <2>3. Abstract!Break(e)
    BY <1>6, <2>1, <2>2 DEF Breaks, Abstract!Break
  <2> QED BY <2>3 DEF Abstract!Next
<1> QED BY <1>1, <1>2, <1>3, <1>4, <1>5, <1>6, ListSteps

(***************************************************************************)
(* receive hands out nothing before the broken links are reported, and     *)
(* times out only when there is nothing to hand out: the mailbox is the    *)
(* abstract one.                                                           *)
(***************************************************************************)
THEOREM MailboxImplementsAbstract == Spec => ImplementsAbstract
<1>1. Init => Abstract!Init
  BY EmptyList DEF Init, Abstract!Init
<1> QED BY <1>1, TypeCorrect, ConservationHolds, AbstractStep, PTL
        DEF Spec, ImplementsAbstract, Abstract!Spec

-----------------------------------------------------------------------------
(***************************************************************************)
(* The bookkeeping of the calls.  A thread that is in no call is not in    *)
(* receive either; what a thread has received was taken out of the         *)
(* mailbox; no two threads are in the same call, and one that is still     *)
(* sending has nobody answer it; and an answer arrives once, after its     *)
(* request was made.                                                       *)
(***************************************************************************)
Idle(r) == stage[r] = "none" /\ pc[r] = "idle"

Calling ==
  \A r \in Receivers :
    /\ current[r] \in 0..made
    /\ current[r] = NoCall => Idle(r)
    /\ pc[r] = "got_message" => got[r] \in Range(taken)

Answered ==
  /\ requests \cap Range(arrived) = {}
  /\ Range(arrived) \cap Calls \subseteq 1..made

Unasked ==
  \A r \in Receivers :
    /\ current[r] # NoCall => \A q \in Receivers : current[q] = current[r] => q = r
    /\ stage[r] \in Sending =>
         /\ pc[r] = "idle" /\ current[r] # NoCall
         /\ current[r] \notin requests \cup Range(arrived)

Booked == RpcTypeOK /\ Calling /\ Unasked /\ Answered

(***************************************************************************)
(* As long as calls are made one at a time and each returned: what is      *)
(* asked for or queued is the answer to the one call under way, and so is  *)
(* what its thread has received.                                           *)
(***************************************************************************)
OneAtATime ==
  \A r, q \in Receivers : current[r] # NoCall /\ current[q] # NoCall => r = q

QueuedForTheCall ==
  \A c \in requests \cup (Range(received_msgs) \ Strays) :
    \E r \in Receivers : current[r] = c

GotOwn ==
  \A r \in Receivers :
    pc[r] = "got_message" /\ got[r] \notin Strays => got[r] = current[r]

Paired ==
  InStep => OneAtATime /\ QueuedForTheCall /\ GotOwn /\ AnswerIsOwn

-----------------------------------------------------------------------------
(***************************************************************************)
(* The calls use the mailbox as its own specification says.                *)
(***************************************************************************)
LEMMA MailboxSteps ==
  ASSUME [RpcNext]_rvars
  PROVE  [Next]_vars
<1>1. ASSUME NEW r \in Receivers, NEW s, do_rpc(r, s) PROVE UNCHANGED vars
  BY <1>1 DEF do_rpc
<1>s. ASSUME NEW r \in Receivers, send_returns(r) \/ send_throws(r)
      PROVE  UNCHANGED vars
  BY <1>s DEF send_returns, send_throws
<1>2. ASSUME NEW r \in Receivers, blocking_rpc(r) PROVE Next
  BY <1>2 DEF blocking_rpc, Next
<1>3. ASSUME NEW r \in Receivers, blocking_rpc_tmo(r) PROVE Next
  BY <1>3 DEF blocking_rpc_tmo, Next
<1>4. ASSUME NEW r \in Receivers, receiver_fn(r) PROVE Next
  BY <1>4 DEF receiver_fn, Next
<1>5. ASSUME NEW r \in Receivers, receive_rpc_reply(r) PROVE Next
  BY <1>5 DEF receive_rpc_reply, Next
<1>6. ASSUME NEW c \in Calls, rex_answers(c) PROVE Next
  BY <1>6, RpcAssumption DEF rex_answers, Next
<1>7. ASSUME NEW m \in Strays, stray_arrives(m) PROVE Next
  BY <1>7, RpcAssumption DEF stray_arrives, Next
<1>8. CASE MailboxStep
  BY <1>8 DEF MailboxStep, Next
<1>9. CASE UNCHANGED rvars
  BY <1>9 DEF rvars
<1> QED BY <1>1, <1>s, <1>2, <1>3, <1>4, <1>5, <1>6, <1>7, <1>8, <1>9 DEF RpcNext

(***************************************************************************)
(* The rpc object is a client of the mailbox and nothing more: whatever    *)
(* MailboxProofs shows of a mailbox holds of the one an rpc object owns    *)
(* (rpc.cpp: mbox->receive, mbox->self).                                   *)
(***************************************************************************)
THEOREM RpcUsesMailbox == RpcSpec => Spec
<1>1. RpcInit => Init
  BY DEF RpcInit
<1> QED BY <1>1, MailboxSteps, PTL DEF RpcSpec, Spec

(***************************************************************************)
(* A thread looks into the mailbox: it gets the front message, or nothing. *)
(***************************************************************************)
LEMMA ReceiverFacts ==
  ASSUME TypeOK, NEW r \in Receivers, receiver_fn(r)
  PROVE  /\ pc[r] \in {"calling", "woken"}
         /\ UNCHANGED <<arrived, current, stage, made, requests, returned,
                        given_up, unsent, overlapped>>
         /\ \A q \in Receivers \ {r} : pc'[q] = pc[q]
         /\ \/ /\ received_msgs # <<>> /\ received_msgs' = Tail(received_msgs)
               /\ taken' = Append(taken, Head(received_msgs))
               /\ got' = [got EXCEPT ![r] = Head(received_msgs)]
            \/ /\ UNCHANGED <<received_msgs, taken, got>>
               /\ pc'[r] # "got_message" /\ pc'[r] # "idle"
         /\ pc'[r] # "idle"
<1> USE DEF lists, outcomes, inputs
<1>1. /\ pc[r] \in {"calling", "woken"}
      /\ UNCHANGED <<arrived, current, stage, made, requests, returned,
                     given_up, unsent, overlapped>>
      /\ pick_first_msg(r) \/ cond_wait(r)
      /\ got' = IF taken' # taken THEN [got EXCEPT ![r] = Head(received_msgs)]
                ELSE got
  BY DEF receiver_fn, wait_for_at_least_one_message, wake_up
<1>2. CASE received_msgs # <<>> /\ pop_front_msg(r)
  <2> DEFINE h == Head(received_msgs)
  <2>1. taken \in Seq(Messages) /\ h \in Messages
    BY <1>2, PopFront DEF TypeOK
  <2> HIDE DEF h
  <2>2. Len(Append(taken, h)) = Len(taken) + 1 /\ Len(taken) \in Nat
    BY <2>1, AppendProperties, LenProperties
  <2>3. Append(taken, h) # taken
    BY <2>2
  <2>4. /\ received_msgs' = Tail(received_msgs) /\ taken' = Append(taken, h)
        /\ pc' = [pc EXCEPT ![r] = "got_message"]
    BY <1>2 DEF pop_front_msg, h
  <2>5. got' = [got EXCEPT ![r] = h]
    BY <1>1, <2>3, <2>4 DEF h
  <2>6. pc'[r] # "idle" /\ \A q \in Receivers \ {r} : pc'[q] = pc[q]
    BY <2>4 DEF TypeOK
  <2> QED BY <1>1, <1>2, <2>4, <2>5, <2>6 DEF h
<1>3. CASE report_broken_link(r) \/ throw_receive_tmo(r) \/ cond_wait(r)
  <2>1. UNCHANGED <<received_msgs, taken>>
    BY <1>3 DEF report_broken_link, throw_receive_tmo, cond_wait
  <2>2. /\ pc'[r] # "got_message" /\ pc'[r] # "idle"
        /\ \A q \in Receivers \ {r} : pc'[q] = pc[q]
    BY <1>3 DEF report_broken_link, throw_receive_tmo, cond_wait, TypeOK
  <2> QED BY <1>1, <2>1, <2>2
<1> QED BY <1>1, <1>2, <1>3 DEF pick_first_msg

(***************************************************************************)
(* What the other steps do to the mailbox.                                 *)
(***************************************************************************)
LEMMA MailboxStepFacts ==
  ASSUME TypeOK, MailboxStep
  PROVE  /\ UNCHANGED <<received_msgs, taken, arrived, current, stage, made,
                        requests, got, returned, given_up, unsent, overlapped>>
         /\ \A q \in Receivers : \/ pc'[q] = pc[q]
                                 \/ pc[q] = "waiting" /\ pc'[q] = "woken"
<1> USE DEF lists, inputs, outcomes, rpc_vars
<1>1. UNCHANGED <<current, stage, made, requests, got, returned, given_up,
                  unsent, overlapped>>
  BY DEF MailboxStep
<1>2. UNCHANGED <<received_msgs, taken, arrived>>
  BY DEF MailboxStep, spurious_wakeup, timer_expires, notify_one, receive_tmo,
     receive_tmo_aborted
<1>3. \A q \in Receivers : \/ pc'[q] = pc[q]
                           \/ pc[q] = "waiting" /\ pc'[q] = "woken"
  BY DEF MailboxStep, spurious_wakeup, timer_expires, notify_one, receive_tmo,
     receive_tmo_aborted, TypeOK
<1> QED BY <1>1, <1>2, <1>3

(***************************************************************************)
(* A message reaches the mailbox.                                          *)
(***************************************************************************)
LEMMA ArrivalFacts ==
  ASSUME TypeOK, NEW m \in Messages, on_incoming(m)
  PROVE  /\ Range(received_msgs') = Range(received_msgs) \cup {m}
         /\ Range(arrived') = Range(arrived) \cup {m}
         /\ UNCHANGED <<pc, taken>>
<1>1. /\ received_msgs' = <<m>> \o received_msgs /\ arrived' = Append(arrived, m)
      /\ UNCHANGED <<pc, taken>>
  BY DEF on_incoming, outcomes
<1> QED BY <1>1, PushFront, PushBack DEF TypeOK

-----------------------------------------------------------------------------
LEMMA BookedStep ==
  ASSUME TypeOK, Booked, [RpcNext]_rvars
  PROVE  Booked'
<1> USE RpcAssumption DEF Booked, RpcTypeOK, Calling, Unasked, Answered, Idle, NoCall,
        Calls, Stages, Sending
<1>1. ASSUME NEW r \in Receivers, NEW s \in Sending, do_rpc(r, s)
      PROVE  Booked'
  <2>1. /\ made' = made + 1 /\ made' \in 0..MaxCalls /\ made + 1 \in Calls
        /\ current' = [current EXCEPT ![r] = made + 1]
        /\ stage' = [stage EXCEPT ![r] = s]
        /\ overlapped' \in BOOLEAN
        /\ pc[r] = "idle"
        /\ UNCHANGED <<pc, taken, arrived, requests, unsent, got, returned, given_up>>
    BY <1>1 DEF do_rpc, vars, inputs, outcomes
  <2>2. 1..made \subseteq 1..made' /\ 0..made \subseteq 0..made' /\ made + 1 \in 1..made'
    BY <2>1
  <2>3. RpcTypeOK'
    BY <2>1, <2>2
  <2>4. Calling'
    BY <2>1, <2>2
  <2>5. Answered'
    BY <2>1, <2>2
  <2>6. Unasked'
    <3>1. made + 1 \notin Range(arrived) \cup requests
      BY <2>1
    <3>2. \A q \in Receivers : current[q] # made + 1
      BY <2>1
    <3> QED BY <2>1, <3>1, <3>2
  <2> QED BY <2>3, <2>4, <2>5, <2>6
<1>s. ASSUME NEW r \in Receivers, send_returns(r) \/ send_throws(r)
      PROVE  Booked'
  <2>1. /\ stage[r] \in Sending
        /\ UNCHANGED <<pc, taken, arrived, made, got, returned, given_up, overlapped>>
        /\ \/ /\ \E s \in {"untimed", "timed"} : stage' = [stage EXCEPT ![r] = s]
              /\ requests' \subseteq requests \cup {current[r]}
              /\ unsent' \subseteq unsent \cup {current[r]}
              /\ UNCHANGED current
           \/ /\ stage' = [stage EXCEPT ![r] = "none"]
              /\ current' = [current EXCEPT ![r] = NoCall]
              /\ UNCHANGED <<requests, unsent>>
    BY <1>s DEF send_returns, send_throws, vars, inputs, outcomes
  <2>2. /\ pc[r] = "idle" /\ current[r] \in 1..made
        /\ current[r] \notin requests \cup Range(arrived)
    BY <2>1
  <2>3. RpcTypeOK'
    BY <2>1, <2>2
  <2>4. Calling' /\ Answered'
    BY <2>1, <2>2
  <2>5. Unasked'
    BY <2>1, <2>2
  <2> QED BY <2>3, <2>4, <2>5
<1>2. ASSUME NEW r \in Receivers, blocking_rpc(r) \/ blocking_rpc_tmo(r)
      PROVE  Booked'
  <2>1. /\ stage[r] # "none"
        /\ \E s \in Stages \ Sending : stage' = [stage EXCEPT ![r] = s]
        /\ pc' = [pc EXCEPT ![r] = "calling"]
        /\ UNCHANGED <<taken, arrived, current, made, requests, got, returned,
                       given_up, unsent, overlapped>>
    BY <1>2 DEF blocking_rpc, blocking_rpc_tmo, receive, receive_timed, inputs, outcomes
  <2>2. RpcTypeOK' /\ Answered'
    BY <2>1
  <2>3. Calling'
    BY <2>1 DEF TypeOK
  <2>4. Unasked'
    BY <2>1 DEF TypeOK
  <2> QED BY <2>2, <2>3, <2>4
<1>3. ASSUME NEW r \in Receivers, receiver_fn(r)
      PROVE  Booked'
  <2>1. /\ pc[r] \in {"calling", "woken"} /\ pc'[r] # "idle"
        /\ UNCHANGED <<arrived, current, stage, made, requests, returned,
                       given_up, unsent, overlapped>>
        /\ \A q \in Receivers \ {r} : pc'[q] = pc[q]
    BY <1>3, ReceiverFacts
  <2>2. CASE UNCHANGED <<received_msgs, taken, got>> /\ pc'[r] # "got_message"
    BY <2>1, <2>2
  <2>3. CASE /\ received_msgs # <<>> /\ taken' = Append(taken, Head(received_msgs))
             /\ got' = [got EXCEPT ![r] = Head(received_msgs)]
    <3> DEFINE h == Head(received_msgs)
    <3>1. h \in Messages
      BY <2>3, PopFront DEF TypeOK
    <3>2. taken' = Append(taken, h) /\ got' = [got EXCEPT ![r] = h]
      BY <2>3
    <3> HIDE DEF h
    <3>3. Range(taken') = Range(taken) \cup {h}
      <4>1. taken \in Seq(Messages)
        BY DEF TypeOK
      <4>2. Range(Append(taken, h)) = Range(taken) \cup {h}
        BY ONLY <3>1, <4>1, PushBack
      <4> QED BY <3>2, <4>2
    <3>4. got' \in [Receivers -> Messages \cup {NoCall}]
      BY <3>1, <3>2
    <3>5. RpcTypeOK' /\ Answered'
      BY <2>1, <3>4
    <3>6. Calling'
      BY <2>1, <3>1, <3>2, <3>3
    <3>7. Unasked'
      BY <2>1
    <3> QED BY <3>5, <3>6, <3>7
  <2> QED BY <1>3, <2>2, <2>3, ReceiverFacts
<1>4. ASSUME NEW r \in Receivers, receive_rpc_reply(r)
      PROVE  Booked'
  <2>1. /\ pc[r] \in Finished /\ pc' = [pc EXCEPT ![r] = "idle"]
        /\ current' = [current EXCEPT ![r] = NoCall]
        /\ stage' = [stage EXCEPT ![r] = "none"]
        /\ got' = [got EXCEPT ![r] = NoCall]
        /\ UNCHANGED <<taken, arrived, made, requests, unsent, overlapped>>
        /\ \/ /\ pc[r] = "got_message" /\ got[r] \notin Strays
              /\ returned' = returned \cup {<<current[r], got[r]>>}
              /\ UNCHANGED given_up
           \/ given_up' = given_up \cup {current[r]} /\ UNCHANGED returned
    BY <1>4 DEF receive_rpc_reply, receive_returns, inputs, outcomes
  <2>2. current[r] \in 1..made /\ current[r] \in Calls
    BY <2>1 DEF Finished
  <2>3. pc[r] = "got_message" /\ got[r] \notin Strays => got[r] \in Calls
    <3>1. Range(taken) \subseteq Messages
      BY DEF TypeOK, Range
    <3> QED BY <3>1
  <2>4. returned' \subseteq Calls \X Calls /\ given_up' \subseteq 1..made
    <3>1. CASE /\ pc[r] = "got_message" /\ got[r] \notin Strays
               /\ returned' = returned \cup {<<current[r], got[r]>>}
               /\ UNCHANGED given_up
      <4>1. <<current[r], got[r]>> \in Calls \X Calls
        BY <2>2, <2>3, <3>1
      <4> QED BY <3>1, <4>1
    <3>2. CASE given_up' = given_up \cup {current[r]} /\ UNCHANGED returned
      BY <2>2, <3>2
    <3> QED BY <2>1, <3>1, <3>2
  <2>5. RpcTypeOK' /\ Answered'
    BY <2>1, <2>4
  <2>6. Calling'
    BY <2>1 DEF TypeOK
  <2>7. Unasked'
    BY <2>1 DEF TypeOK
  <2> QED BY <2>5, <2>6, <2>7
<1>5. ASSUME NEW c \in Calls, rex_answers(c)
      PROVE  Booked'
  <2>1. /\ c \in requests /\ requests' = requests \ {c} /\ c \in Messages
        /\ UNCHANGED <<current, stage, made, got, returned, given_up, unsent, overlapped>>
    BY <1>5 DEF rex_answers
  <2>2. Range(arrived') = Range(arrived) \cup {c} /\ UNCHANGED <<pc, taken>>
    BY <1>5, <2>1, ArrivalFacts DEF rex_answers
  <2> QED BY <2>1, <2>2
<1>6. ASSUME NEW m \in Strays, stray_arrives(m)
      PROVE  Booked'
  <2>1. m \in Messages /\ m \notin Calls
    BY <1>6
  <2>2. UNCHANGED <<current, stage, made, requests, got, returned, given_up, unsent,
                    overlapped>>
    BY <1>6 DEF stray_arrives, rpc_vars
  <2>3. Range(arrived') = Range(arrived) \cup {m} /\ UNCHANGED <<pc, taken>>
    BY <1>6, <2>1, ArrivalFacts DEF stray_arrives
  <2> QED BY <2>1, <2>2, <2>3
<1>7. CASE MailboxStep
  <2>1. /\ UNCHANGED <<received_msgs, taken, arrived, current, stage, made,
                       requests, got, returned, given_up, unsent, overlapped>>
        /\ \A q \in Receivers : \/ pc'[q] = pc[q]
                                \/ pc[q] = "waiting" /\ pc'[q] = "woken"
    BY <1>7, MailboxStepFacts
  <2> QED BY <2>1
<1>8. CASE UNCHANGED rvars
  BY <1>8 DEF rvars, rpc_vars, vars, inputs, outcomes
<1> QED BY <1>1, <1>s, <1>2, <1>3, <1>4, <1>5, <1>6, <1>7, <1>8 DEF RpcNext

(***************************************************************************)
(* A call starts only when no other is under way, so that the mailbox is   *)
(* free of answers; the message a call gets is then the answer to its own  *)
(* request, and once it has returned no trace of that answer is left.      *)
(***************************************************************************)
LEMMA PairedStep ==
  ASSUME TypeOK, Conservation, Booked, Paired, [RpcNext]_rvars
  PROVE  Paired'
<1> SUFFICES ASSUME InStep'
             PROVE  (OneAtATime /\ QueuedForTheCall /\ GotOwn /\ AnswerIsOwn)'
  BY DEF Paired
<1> USE RpcAssumption DEF NoCall
<1>t. /\ current \in [Receivers -> Calls \cup {NoCall}] /\ pc \in [Receivers -> PC]
      /\ got \in [Receivers -> Messages \cup {NoCall}]
      /\ \A c \in Calls : c # NoCall
      /\ requests \subseteq Calls /\ made \in Nat
      /\ \A r \in Receivers : current[r] = NoCall => Idle(r)
      /\ Range(received_msgs) \subseteq Messages
  <2>1. requests \subseteq Calls
    BY DEF Booked, RpcTypeOK, Calls
  <2>2. Range(received_msgs) \subseteq Messages
    BY DEF TypeOK, Range
  <2> QED BY <2>1, <2>2 DEF TypeOK, Booked, RpcTypeOK, Calling, Calls
<1>p. InStep => OneAtATime /\ QueuedForTheCall /\ GotOwn /\ AnswerIsOwn
  BY DEF Paired
<1>1. ASSUME NEW r \in Receivers, NEW s \in Sending, do_rpc(r, s)
      PROVE  (OneAtATime /\ QueuedForTheCall /\ GotOwn /\ AnswerIsOwn)'
  <2>1. /\ current' = [current EXCEPT ![r] = made + 1]
        /\ UNCHANGED requests
        /\ overlapped' = (overlapped \/ \E q \in Receivers : current[q] # NoCall)
        /\ UNCHANGED <<received_msgs, pc, got, returned, given_up>>
        /\ pc[r] = "idle"
    BY <1>1 DEF do_rpc, vars, lists
  <2>2. InStep /\ \A q \in Receivers : current[q] = NoCall
    BY <2>1 DEF InStep
  <2>3. requests = {} /\ Range(received_msgs) \subseteq Strays
    BY <1>p, <1>t, <2>2 DEF QueuedForTheCall
  <2>4. QueuedForTheCall'
    BY <1>t, <2>1, <2>3 DEF QueuedForTheCall
  <2>5. OneAtATime'
    BY <1>t, <2>1, <2>2 DEF OneAtATime
  <2>6. GotOwn'
    BY <1>t, <2>1, <2>2 DEF GotOwn, Idle
  <2>7. AnswerIsOwn'
    BY <1>p, <2>1, <2>2 DEF AnswerIsOwn
  <2> QED BY <2>4, <2>5, <2>6, <2>7
<1>s. ASSUME NEW r \in Receivers, send_returns(r) \/ send_throws(r)
      PROVE  (OneAtATime /\ QueuedForTheCall /\ GotOwn /\ AnswerIsOwn)'
  <2>1. /\ stage[r] \in Sending
        /\ UNCHANGED <<received_msgs, pc, got, returned, given_up, overlapped>>
        /\ \/ requests' \subseteq requests \cup {current[r]} /\ UNCHANGED current
           \/ current' = [current EXCEPT ![r] = NoCall] /\ UNCHANGED requests
    BY <1>s DEF send_returns, send_throws, vars, lists
  <2>2. InStep
    BY <2>1 DEF InStep
  <2>3. /\ pc[r] = "idle" /\ current[r] # NoCall
        /\ current[r] \notin requests \cup Range(received_msgs)
    <3>1. Range(received_msgs) \subseteq Range(arrived)
      BY DEF Conservation
    <3> QED BY <2>1, <3>1 DEF Booked, Unasked
  <2>4. QueuedForTheCall'
    BY <1>p, <1>t, <2>1, <2>2, <2>3 DEF QueuedForTheCall
  <2>5. OneAtATime'
    BY <1>p, <1>t, <2>1, <2>2 DEF OneAtATime
  <2>6. GotOwn'
    BY <1>p, <1>t, <2>1, <2>2, <2>3 DEF GotOwn
  <2>7. AnswerIsOwn'
    BY <1>p, <2>1, <2>2 DEF AnswerIsOwn
  <2> QED BY <2>4, <2>5, <2>6, <2>7
<1>2. ASSUME NEW r \in Receivers, blocking_rpc(r) \/ blocking_rpc_tmo(r)
      PROVE  (OneAtATime /\ QueuedForTheCall /\ GotOwn /\ AnswerIsOwn)'
  <2>1. /\ pc' = [pc EXCEPT ![r] = "calling"]
        /\ UNCHANGED <<received_msgs, current, requests, got, returned, given_up,
                       overlapped>>
    BY <1>2 DEF blocking_rpc, blocking_rpc_tmo, receive, receive_timed, lists
  <2>2. InStep
    BY <2>1 DEF InStep
  <2>3. GotOwn'
    BY <1>p, <1>t, <2>1, <2>2 DEF GotOwn
  <2> QED BY <1>p, <2>1, <2>2, <2>3 DEF OneAtATime, QueuedForTheCall, AnswerIsOwn
<1>3. ASSUME NEW r \in Receivers, receiver_fn(r)
      PROVE  (OneAtATime /\ QueuedForTheCall /\ GotOwn /\ AnswerIsOwn)'
  <2>1. /\ pc[r] \in {"calling", "woken"}
        /\ UNCHANGED <<current, requests, returned, given_up, overlapped>>
        /\ \A q \in Receivers \ {r} : pc'[q] = pc[q]
    BY <1>3, ReceiverFacts
  <2>2. InStep
    BY <2>1 DEF InStep
  <2>3. OneAtATime' /\ AnswerIsOwn'
    BY <1>p, <2>1, <2>2 DEF OneAtATime, AnswerIsOwn
  <2>4. CASE UNCHANGED <<received_msgs, taken, got>> /\ pc'[r] # "got_message"
    <3>1. QueuedForTheCall'
      BY <1>p, <2>1, <2>2, <2>4 DEF QueuedForTheCall
    <3>2. GotOwn'
      BY <1>p, <2>1, <2>2, <2>4 DEF GotOwn
    <3> QED BY <2>3, <3>1, <3>2
  <2>5. CASE /\ received_msgs # <<>> /\ received_msgs' = Tail(received_msgs)
             /\ got' = [got EXCEPT ![r] = Head(received_msgs)]
    <3> DEFINE h == Head(received_msgs)
    <3>1. h \in Messages /\ Range(received_msgs) = {h} \cup Range(received_msgs')
      BY <2>5, PopFront DEF TypeOK
    <3>2. got' = [got EXCEPT ![r] = h]
      BY <2>5
    <3> HIDE DEF h
    <3>3. h \notin Strays => h = current[r]
      <4> HAVE h \notin Strays
      <4>1. PICK q \in Receivers : current[q] = h
        BY <1>p, <2>2, <3>1 DEF QueuedForTheCall
      <4>2. h # NoCall
        BY <1>t, <3>1
      <4>3. current[r] # NoCall
        BY <1>t, <2>1 DEF Idle
      <4> QED BY <1>p, <2>2, <4>1, <4>2, <4>3 DEF OneAtATime
    <3>4. QueuedForTheCall'
      BY <1>p, <2>1, <2>2, <3>1 DEF QueuedForTheCall
    <3>5. GotOwn'
      BY <1>p, <1>t, <2>1, <2>2, <3>2, <3>3 DEF GotOwn
    <3> QED BY <2>3, <3>4, <3>5
  <2> QED BY <1>3, <2>4, <2>5, ReceiverFacts
<1>4. ASSUME NEW r \in Receivers, receive_rpc_reply(r)
      PROVE  (OneAtATime /\ QueuedForTheCall /\ GotOwn /\ AnswerIsOwn)'
  <2>1. /\ pc' = [pc EXCEPT ![r] = "idle"]
        /\ current' = [current EXCEPT ![r] = NoCall]
        /\ got' = [got EXCEPT ![r] = NoCall]
        /\ UNCHANGED <<received_msgs, requests, overlapped>>
        /\ \/ /\ pc[r] = "got_message" /\ got[r] \notin Strays
              /\ returned' = returned \cup {<<current[r], got[r]>>}
              /\ UNCHANGED given_up
           \/ given_up' = given_up \cup {current[r]}
    BY <1>4 DEF receive_rpc_reply, receive_returns, lists
  <2>2. /\ pc[r] = "got_message" /\ got[r] \notin Strays
        /\ returned' = returned \cup {<<current[r], got[r]>>}
        /\ InStep
    BY <2>1 DEF InStep
  <2>3. got[r] = current[r]
    BY <1>p, <2>2 DEF GotOwn
  <2>4. AnswerIsOwn'
    BY <1>p, <2>2, <2>3 DEF AnswerIsOwn
  <2>5. got[r] \notin requests \cup Range(received_msgs)
    <3>1. got[r] \in Range(taken)
      BY <2>2 DEF Booked, Calling
    <3> QED BY <3>1 DEF Conservation, Booked, Answered
  <2>6. QueuedForTheCall'
    <3>1. SUFFICES ASSUME NEW c \in requests \cup (Range(received_msgs) \ Strays)
                   PROVE  \E q \in Receivers : current'[q] = c
      BY <2>1 DEF QueuedForTheCall
    <3>2. PICK q \in Receivers : current[q] = c
      BY <1>p, <2>2 DEF QueuedForTheCall
    <3>3. q # r
      BY <2>3, <2>5, <3>2
    <3> QED BY <1>t, <2>1, <3>2, <3>3
  <2>7. OneAtATime'
    BY <1>p, <1>t, <2>1, <2>2 DEF OneAtATime
  <2>8. GotOwn'
    BY <1>p, <1>t, <2>1, <2>2 DEF GotOwn
  <2> QED BY <2>4, <2>6, <2>7, <2>8
<1>5. ASSUME NEW c \in Calls, rex_answers(c)
      PROVE  (OneAtATime /\ QueuedForTheCall /\ GotOwn /\ AnswerIsOwn)'
  <2>1. /\ c \in requests /\ requests' = requests \ {c} /\ c \in Messages
        /\ UNCHANGED <<current, got, returned, given_up, overlapped>>
    BY <1>5 DEF rex_answers
  <2>2. Range(received_msgs') = Range(received_msgs) \cup {c} /\ UNCHANGED pc
    BY <1>5, <2>1, ArrivalFacts DEF rex_answers
  <2>3. InStep
    BY <2>1 DEF InStep
  <2>4. QueuedForTheCall'
    BY <1>p, <2>1, <2>2, <2>3 DEF QueuedForTheCall
  <2> QED BY <1>p, <2>1, <2>2, <2>3, <2>4 DEF OneAtATime, GotOwn, AnswerIsOwn
<1>6. ASSUME NEW m \in Strays, stray_arrives(m)
      PROVE  (OneAtATime /\ QueuedForTheCall /\ GotOwn /\ AnswerIsOwn)'
  <2>1. m \in Messages
    BY <1>6
  <2>2. UNCHANGED <<current, requests, got, returned, given_up, overlapped>>
    BY <1>6 DEF stray_arrives, rpc_vars
  <2>3. Range(received_msgs') = Range(received_msgs) \cup {m} /\ UNCHANGED pc
    BY <1>6, <2>1, ArrivalFacts DEF stray_arrives
  <2>4. InStep
    BY <2>2 DEF InStep
  <2>5. QueuedForTheCall'
    BY <1>p, <1>6, <2>2, <2>3, <2>4 DEF QueuedForTheCall
  <2> QED BY <1>p, <2>2, <2>3, <2>4, <2>5 DEF OneAtATime, GotOwn, AnswerIsOwn
<1>7. CASE MailboxStep
  <2>1. /\ UNCHANGED <<received_msgs, current, requests, got, returned, given_up,
                       overlapped>>
        /\ \A q \in Receivers : \/ pc'[q] = pc[q]
                                \/ pc[q] = "waiting" /\ pc'[q] = "woken"
    BY <1>7, MailboxStepFacts
  <2>2. InStep
    BY <2>1 DEF InStep
  <2> QED BY <1>p, <2>1, <2>2 DEF OneAtATime, QueuedForTheCall, GotOwn, AnswerIsOwn
<1>8. CASE UNCHANGED rvars
  <2>1. UNCHANGED <<received_msgs, pc, current, requests, got, returned, given_up,
                    overlapped>>
    BY <1>8 DEF rvars, rpc_vars, vars, lists
  <2>2. InStep
    BY <2>1 DEF InStep
  <2> QED BY <1>p, <2>1, <2>2 DEF OneAtATime, QueuedForTheCall, GotOwn, AnswerIsOwn
<1> QED BY <1>1, <1>s, <1>2, <1>3, <1>4, <1>5, <1>6, <1>7, <1>8 DEF RpcNext

LEMMA BookedInitially ==
  ASSUME RpcInit
  PROVE  Booked
<1>1. current \in [Receivers -> Calls \cup {NoCall}] /\ stage \in [Receivers -> Stages]
        /\ got \in [Receivers -> Messages \cup {NoCall}]
  BY DEF RpcInit, Stages, Sending
<1>2. made \in 0..MaxCalls /\ overlapped \in BOOLEAN
  <2>1. made = 0
    BY DEF RpcInit
  <2>2. MaxCalls \in Nat
    BY RpcAssumption
  <2>3. made \in 0..MaxCalls
    BY <2>1, <2>2
  <2>4. overlapped \in BOOLEAN
    BY DEF RpcInit
  <2> QED BY <2>3, <2>4
<1>3. /\ requests \subseteq 1..made /\ unsent \subseteq 1..made
      /\ given_up \subseteq 1..made /\ returned \subseteq Calls \X Calls
  BY DEF RpcInit
<1>4. Range(arrived) = {}
  BY EmptyList DEF RpcInit, Init
<1>5. Calling /\ Unasked /\ Answered
  BY <1>4 DEF RpcInit, Init, Calling, Unasked, Answered, Idle, NoCall, Sending
<1> QED BY <1>1, <1>2, <1>3, <1>5 DEF Booked, RpcTypeOK

-----------------------------------------------------------------------------
(***************************************************************************)
(* The state of the calls is well-typed, and the calls are numbered up to  *)
(* the one made last.                                                      *)
(***************************************************************************)
THEOREM RpcTypeCorrect == RpcSpec => []RpcTypeOK
<1>1. RpcInit => Booked
  BY BookedInitially
<1>2. RpcSpec => []TypeOK
  BY RpcUsesMailbox, TypeCorrect, PTL
<1>3. Booked => RpcTypeOK
  BY DEF Booked
<1> QED BY <1>1, <1>2, <1>3, BookedStep, PTL DEF RpcSpec

(***************************************************************************)
(* Calls made one at a time, none of which threw, return the answers to    *)
(* their own requests, and leave no answer behind that the next call could *)
(* take for its own, whichever threads make them, in whatever order rex    *)
(* answers and whenever timers expire (rpc.cpp: do_rpc, receive_rpc_reply).*)
(***************************************************************************)
THEOREM AnswerIsOwnAlways == RpcSpec => []AnswerIsOwnInStep
<1>1. RpcInit => Booked /\ Paired
  <2> SUFFICES ASSUME RpcInit PROVE Booked /\ Paired
    OBVIOUS
  <2>1. Range(received_msgs) = {}
    BY EmptyList DEF RpcInit, Init
  <2>2. Paired
    BY <2>1 DEF RpcInit, Init, Paired, OneAtATime, QueuedForTheCall, GotOwn,
       AnswerIsOwn, NoCall
  <2> QED BY <2>2, BookedInitially
<1>2. RpcSpec => [](TypeOK /\ Conservation)
  BY RpcUsesMailbox, TypeCorrect, ConservationHolds, PTL
<1>3. TypeOK /\ Booked /\ Paired => AnswerIsOwnInStep
  <2> SUFFICES ASSUME TypeOK, Booked, Paired, InStep
               PROVE  /\ AnswerIsOwn
                      /\ (\A r \in Receivers : current[r] = NoCall) =>
                           /\ requests = {}
                           /\ \A i \in DOMAIN received_msgs : received_msgs[i] \in Strays
    BY DEF AnswerIsOwnInStep
  <2>1. AnswerIsOwn /\ QueuedForTheCall
    BY DEF Paired
  <2>2. /\ requests \subseteq Calls /\ Range(received_msgs) \ Strays \subseteq Calls
        /\ NoCall \notin Calls
    <3>1. Range(received_msgs) \subseteq Messages
      BY DEF TypeOK, Range
    <3>2. requests \subseteq Calls /\ NoCall \notin Calls
      BY RpcAssumption DEF Booked, RpcTypeOK, Calls, NoCall
    <3> QED BY <3>1, <3>2, RpcAssumption
  <2>3. \A i \in DOMAIN received_msgs : received_msgs[i] \in Range(received_msgs)
    BY DEF Range
  <2> QED BY <2>1, <2>2, <2>3 DEF QueuedForTheCall
<1>4. TypeOK /\ Booked /\ [RpcNext]_rvars => Booked'
  BY BookedStep
<1>5. TypeOK /\ Conservation /\ Booked /\ Paired /\ [RpcNext]_rvars => Paired'
  BY PairedStep
<1> QED BY <1>1, <1>2, <1>3, <1>4, <1>5, PTL DEF RpcSpec
=============================================================================
