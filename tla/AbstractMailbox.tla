--------------------------- MODULE AbstractMailbox ---------------------------
(***************************************************************************)
(* What a mailbox promises to the threads that receive from it, without    *)
(* the flag, the condition variable and the timers that bring it about:    *)
(* each message and each link exit is handed out at most once, a broken    *)
(* link is reported before any message is handed out, and a time-out is    *)
(* reported only when there is nothing to hand out.  The order among       *)
(* messages is left open.                                                  *)
(***************************************************************************)
EXTENDS Naturals

CONSTANTS Messages, Exits

VARIABLES
  queued,    \* messages delivered and not yet received
  broken,    \* link exits delivered and not yet reported
  out,       \* messages received
  told,      \* link exits reported
  timeouts   \* time-outs reported

vars == <<queued, broken, out, told, timeouts>>

Init ==
  /\ queued = {} /\ broken = {}
  /\ out = {} /\ told = {}
  /\ timeouts = 0

Deliver(m) ==
  /\ m \notin queued \cup out
  /\ queued' = queued \cup {m}
  /\ UNCHANGED <<broken, out, told, timeouts>>

Break(e) ==
  /\ e \notin broken \cup told
  /\ broken' = broken \cup {e}
  /\ UNCHANGED <<queued, out, told, timeouts>>

Receive(m) ==
  /\ broken = {}
  /\ m \in queued
  /\ queued' = queued \ {m}
  /\ out' = out \cup {m}
  /\ UNCHANGED <<broken, told, timeouts>>

Report(e) ==
  /\ e \in broken
  /\ broken' = broken \ {e}
  /\ told' = told \cup {e}
  /\ UNCHANGED <<queued, out, timeouts>>

TimeOut ==
  /\ queued = {} /\ broken = {}
  /\ timeouts' = timeouts + 1
  /\ UNCHANGED <<queued, broken, out, told>>

Next ==
  \/ \E m \in Messages : Deliver(m) \/ Receive(m)
  \/ \E e \in Exits : Break(e) \/ Report(e)
  \/ TimeOut

Spec == Init /\ [][Next]_vars
=============================================================================
