----------------------------- MODULE MessagePath -----------------------------
(***************************************************************************)
(* One direction of an established connection: requests are built and      *)
(* written, reads bring any part of their bytes, the lexer cuts them into  *)
(* messages again (Lexer), and each read that leaves a whole message in it *)
(* handles one.                                                            *)
(***************************************************************************)
EXTENDS ControlMsgs, Lexer, FiniteSets

CONSTANTS
  Requests,      \* what the sending node may ask for
  MaxRequests,   \* bound on the number of requests
  ReadSize,      \* the size of the read buffer
  Patterns       \* the patterns that received messages are matched with

(***************************************************************************)
(* msg_lexer_connected::read_msg_size, on a whole length field.            *)
(***************************************************************************)
ConnectedSize(field) ==
  header_size + FoldLeft(LAMBDA n, b : 256 * n + Val(b), 0, field)

ASSUME BoundsAssumption ==
  /\ MaxRequests \in Nat /\ ReadSize \in Nat \ {0}
  /\ length_field = header_size
  /\ \A r \in Requests : build(r) \in Messages

VARIABLES
  requested,    \* history: the requests, in order
  handled       \* history: the calls made for them

vars == <<lexer_vars, requested, handled, CharSigned>>

Init ==
  /\ CharSigned \in BOOLEAN
  /\ LexerInit /\ requested = <<>> /\ handled = <<>>

-----------------------------------------------------------------------------
(***************************************************************************)
(* connected::send, link, unlink, exit and exit2 of the sending node.      *)
(***************************************************************************)
request(r) ==
  /\ Len(requested) < MaxRequests
  /\ requested' = Append(requested, r)
  /\ write(build(r))
  /\ UNCHANGED <<handled, CharSigned>>

(***************************************************************************)
(* connected::msg_received: a tick is answered, anything else dispatched;  *)
(* an exception leaves no trace.                                           *)
(***************************************************************************)
msg_received(m) == IF m = tick THEN call("tick", <<>>, <<>>) ELSE dispatch(m)

(***************************************************************************)
(* checked_read with k bytes: msg_lexer::add, and, if the lexer has a      *)
(* whole message, msg_received takes one.  The next read is triggered in   *)
(* every case.                                                             *)
(***************************************************************************)
checked_read(k) ==
  LET added == add(k)
      all   == msgs \o added.whole IN
    /\ k <= Len(network)
    /\ IF all = <<>>
       THEN read(k, added, 0) /\ UNCHANGED handled
       ELSE read(k, added, 1) /\ handled' = handled \o msg_received(Head(all))
    /\ UNCHANGED <<requested, CharSigned>>

Next ==
  \/ \E r \in Requests : request(r)
  \/ \E k \in 1..ReadSize : checked_read(k)

Spec == Init /\ [][Next]_vars

-----------------------------------------------------------------------------
Operations == DOMAIN ctrl_msg \cup {"tick"}

(***************************************************************************)
(* The types of the variables; every call made is one that the connection  *)
(* offers, with at most the arguments of its control tuple.                *)
(***************************************************************************)
TypeOK ==
  /\ Len(requested) <= MaxRequests /\ ToSet(requested) \subseteq Requests
  /\ taken \in 0..Len(requested)
  /\ \A m \in ToSet(msgs) : Len(m) >= header_size
  /\ \A h \in ToSet(handled) :
       h.op \in Operations /\ Len(h.args) <= 3
         /\ (h.payload # <<>> => Delivers(h.op))

(***************************************************************************)
(* ctrl_msg_dispatcher: every message taken from the lexer causes exactly  *)
(* the call its sender asked for, with the sender's arguments and the      *)
(* payload's bytes, in the order sent; an operation that is not supported  *)
(* ("Action = operation ignored") causes none, nor does an exit with a     *)
(* reason that is not an atom.  That is so where a char is unsigned.       *)
(* Where it is signed the version byte is never 131: ticks are answered,   *)
(* and every other message is dropped, whoever sent it.                    *)
(***************************************************************************)
Understood(r) == r.op \in IF CharSigned THEN {"tick"} ELSE Operations

Meant(r) ==
  [op |-> r.op, args |-> r.args,
   payload |-> IF Delivers(r.op) THEN encode(r.term, r.by) ELSE <<>>]

Accepted == SelectSeq(SubSeq(requested, 1, taken), Understood)

HandledAsRequested ==
  handled = [i \in DOMAIN Accepted |-> Meant(Accepted[i])]

(***************************************************************************)
(* object::match on what was received: a pattern matches exactly the terms *)
(* that are its instances, assigns the parts of the term in their places,  *)
(* and leaves the iterator behind the term, whoever encoded it; but for    *)
(* the deviations listed in Deviates.                                      *)
(***************************************************************************)
MatchFaithful ==
  \A i \in DOMAIN handled :
    LET r == Accepted[i] IN
      Delivers(r.op) =>
        \A o \in Patterns :
          LET m == match(o, handled[i].payload) IN
            \/ Deviates(o, r.term, r.by)
            \/ /\ m.ok = Instance(o, r.term)
               /\ m.ok => m.rest = <<>> /\ m.got = Bound(o, r.term, r.by)

(***************************************************************************)
(* The same for the values of strings, which a test expects to match       *)
(* (test/patterns_testing_any.cpp:237).  Refuted.                          *)
(***************************************************************************)
StringValueMatches ==
  \A i \in DOMAIN handled :
    LET t == Accepted[i].term IN
      Delivers(Accepted[i].op) /\ t.k = "list" /\ Packed(t, Accepted[i].by) =>
        match(e_string([j \in DOMAIN t.v |-> t.v[j].v]), handled[i].payload).ok
=============================================================================
