----------------------------- MODULE ControlMsgs -----------------------------
(***************************************************************************)
(* The messages of a connected node: how ext_message_builder.cpp builds    *)
(* them and how ctrl_msg_dispatcher.cpp takes them apart.                  *)
(*                                                                         *)
(* A request is a record: op, its arguments args (pids and names, in the   *)
(* order of the control tuple), the term to deliver and who encodes it.    *)
(* Two requests come only from Erlang nodes: an operation this library     *)
(* does not know ("monitor") and an exit whose reason is not an atom       *)
(* ("exit_term").  "tick" is the keep-alive message.                       *)
(***************************************************************************)
EXTENDS Terms

header_size   == 4
magic_version == 131
pass_through  == 112

ctrl_msg ==
  [link |-> 1, send |-> 2, exit |-> 3, unlink |-> 4, reg_send |-> 6,
   exit2 |-> 8]

Delivers(op) == op \in {"send", "reg_send"}

-----------------------------------------------------------------------------
(***************************************************************************)
(* The control tuples.  The cookie is always empty.                        *)
(***************************************************************************)
no_cookie == atom("")

add_ctrl_message_send(a) ==
  e_tuple(<<int_(ctrl_msg.send), no_cookie, pid(a[1])>>)

add_ctrl_message_reg_send(a) ==
  e_tuple(<<int_(ctrl_msg.reg_send), pid(a[1]), no_cookie, atom(a[2])>>)

add_ctrl_message_linkage(request, a) ==
  e_tuple(<<int_(request), pid(a[1]), pid(a[2])>>)

add_ctrl_message_exit(request, a) ==
  e_tuple(<<int_(request), pid(a[1]), pid(a[2]), atom(a[3])>>)

(***************************************************************************)
(* What only an Erlang node sends: an operation that is not among the      *)
(* above, an exit with any term as its reason.                             *)
(***************************************************************************)
erlang_monitor(a) == e_tuple(<<int_(19), pid(a[1]), pid(a[2])>>)

erlang_exit(a, reason) ==
  e_tuple(<<int_(ctrl_msg.exit), pid(a[1]), pid(a[2]), reason>>)

add_ctrl_msg(r) ==
  CASE r.op = "send"      -> add_ctrl_message_send(r.args)
    [] r.op = "reg_send"  -> add_ctrl_message_reg_send(r.args)
    [] r.op \in {"link", "unlink"} ->
         add_ctrl_message_linkage(ctrl_msg[r.op], r.args)
    [] r.op \in {"exit", "exit2"}  ->
         add_ctrl_message_exit(ctrl_msg[r.op], r.args)
    [] r.op = "monitor"   -> erlang_monitor(r.args)
    [] r.op = "exit_term" -> erlang_exit(r.args, r.term)

append_payload(r) ==
  IF Delivers(r.op) THEN <<Byte(magic_version)>> \o encode(r.term, r.by)
  ELSE <<>>

(***************************************************************************)
(* The size of what follows, as a big_dword.                               *)
(***************************************************************************)
big_dword(n) ==
  [i \in 1..header_size |-> Byte((n \div 256^(header_size - i)) % 256)]

fill_in_message_size(body) == big_dword(Len(body)) \o body

tick == big_dword(0)

build(r) ==
  IF r.op = "tick" THEN tick
  ELSE fill_in_message_size(<<Byte(pass_through), Byte(magic_version)>>
                              \o serialize(add_ctrl_msg(r))
                              \o append_payload(r))

-----------------------------------------------------------------------------
(***************************************************************************)
(* The dispatcher.  What it does with a message is the sequence of calls   *)
(* it makes on the connection: one, or none if it throws, which the caller *)
(* swallows.                                                               *)
(***************************************************************************)
call(op, args, payload) == <<[op |-> op, args |-> args, payload |-> payload]>>
throws == <<>>

(***************************************************************************)
(* The version byte is read as a char and compared with an int.            *)
(***************************************************************************)
check_term_version(s) ==
  s # <<>> /\ Tag(Head(s)) = "byte" /\ AsChar(Val(Head(s))) = magic_version

parse_header(s) ==
  /\ Len(s) > header_size + 1
  /\ s[header_size + 1] = Byte(pass_through)
  /\ check_term_version(SubSeq(s, header_size + 2, Len(s)))

operations_chain == <<"send", "reg_send", "link", "unlink", "exit", "exit2">>

handler_pattern(op) ==
  CASE op = "send"     -> <<any_of("atom"), assign("pid")>>
    [] op = "reg_send" -> <<assign("pid"), any_of("atom"), assign("atom")>>
    [] op \in {"link", "unlink"} -> <<assign("pid"), assign("pid")>>
    [] op \in {"exit", "exit2"}  -> <<assign("pid"), assign("pid"),
                                      assign("atom")>>

match_operation(op, s) ==
  match(e_tuple(<<int_(ctrl_msg[op])>> \o handler_pattern(op)), s)

handle(op, r) ==
  CASE ~Delivers(op) -> call(op, r.got, <<>>)
    [] Delivers(op) /\ check_term_version(r.rest) ->
         call(op, r.got, Tail(r.rest))
    [] OTHER -> throws

(***************************************************************************)
(* The chain, with the iterator that is passed along it.  A handler whose  *)
(* pattern does not match has moved the iterator; the next one gets the    *)
(* copy made before, that is the start of the control tuple.               *)
(***************************************************************************)
Chain(s) == [by |-> "nobody", at |-> s, calls |-> throws]

Handled(op, r) == [by |-> op, at |-> r.rest, calls |-> handle(op, r)]

\* Mutant: the next handler goes on where the one before it gave up.
dispatch_moved(msg) ==
  LET try(c, op) ==
        LET r == match_operation(op, c.at) IN
          CASE c.by # "nobody"          -> c
            [] c.by = "nobody" /\ r.ok  -> Handled(op, r)
            [] c.by = "nobody" /\ ~r.ok -> [c EXCEPT !.at = r.rest] IN
    IF ~parse_header(msg) THEN throws
    ELSE FoldLeft(try, Chain(SubSeq(msg, header_size + 3, Len(msg))),
                  operations_chain).calls

dispatch(msg) ==
  LET try(c, op) ==
        LET remember_first == c.at
            r == match_operation(op, c.at) IN
          CASE c.by # "nobody"          -> c
            [] c.by = "nobody" /\ r.ok  -> Handled(op, r)
            [] c.by = "nobody" /\ ~r.ok -> [c EXCEPT !.at = remember_first] IN
    IF ~parse_header(msg) THEN throws
    ELSE FoldLeft(try, Chain(SubSeq(msg, header_size + 3, Len(msg))),
                  operations_chain).calls
=============================================================================
