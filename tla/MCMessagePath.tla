---------------------------- MODULE MCMessagePath ----------------------------
EXTENDS MessagePath

\* Two processes and a reason; a name.
p1 == "pid1"
p2 == "pid2"

Ask(op, args, term, by) == [op |-> op, args |-> args, term |-> term, by |-> by]
NoTerm == int_(0)

\* Terms: a tuple, bytes that Erlang packs, a list in a tuple, packed bytes
\* and a bit string in a tuple; the empty tuple is the fifth.
ok_int    == e_tuple(<<atom("ok"), int_(1)>>)
bytes     == list(<<int_(1), int_(2)>>)
nested    == e_tuple(<<list(<<atom("a"), atom("b")>>), int_(300)>>)
packed_in == e_tuple(<<list(<<int_(7), int_(7)>>), binary(<<"bits", 3>>)>>)

MCRequests ==
  {Ask("send", <<p2>>, t, "erlang") :
     t \in {ok_int, bytes, nested, packed_in, e_tuple(<<>>)}}
  \cup {Ask("send", <<p2>>, bytes, "tinch"),
        Ask("reg_send", <<p1, "name">>, ok_int, "tinch"),
        Ask("link", <<p1, p2>>, NoTerm, "tinch"),
        Ask("unlink", <<p1, p2>>, NoTerm, "tinch"),
        Ask("exit", <<p1, p2, "normal">>, NoTerm, "tinch"),
        Ask("exit2", <<p1, p2, "error">>, NoTerm, "tinch"),
        Ask("exit_term", <<p1, p2>>, ok_int, "erlang"),
        Ask("monitor", <<p1, p2>>, NoTerm, "erlang"),
        Ask("tick", <<>>, NoTerm, "erlang")}

MCMessages == {build(r) : r \in MCRequests}

MCPatterns ==
  {any, assign_any, int_(1), assign("int"), assign("binary"),
   e_tuple(<<>>), e_tuple(<<any, any>>), e_tuple(<<any, assign_any>>),
   e_tuple(<<atom("ok"), assign("int")>>), e_tuple(<<atom("ok"), int_(2)>>),
   e_tuple(<<atom("ok")>>), e_tuple(<<any_of("atom"), assign_any>>),
   e_tuple(<<assign_list("atom"), int_(300)>>),
   e_tuple(<<assign_list("int"), assign("binary")>>),
   e_tuple(<<list(<<any, atom("b")>>), assign("int")>>),
   e_tuple(<<assign("string"), any_of("binary")>>),
   assign_list("int"), assign_list("atom"), assign("string"),
   list(<<int_(1), assign("int")>>), list(<<any, any>>)}
=============================================================================
