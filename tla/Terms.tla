-------------------------------- MODULE Terms --------------------------------
(***************************************************************************)
(* Erlang terms and patterns (tinch_pp/erl_*.h, impl/erlang_value_types.cpp*)
(* and the matchers), on the external term format of ext_term_grammar.h.   *)
(*                                                                         *)
(* An encoded term is a sequence of tokens <<tag, value>>; a token stands  *)
(* for the type tag and the bytes of one grammar rule, or for one byte     *)
(* that belongs to none.  The tokens keep what the matchers depend on:     *)
(* which rule parses what, how far a match moves the iterator, and that    *)
(* the elements of a string have no tags.                                  *)
(*                                                                         *)
(* An erl::object is a record: k is its kind, v its value, and how says    *)
(* what it does in a match: compare with the value, assign what is found,  *)
(* or accept any term of the kind.                                         *)
(***************************************************************************)
EXTENDS Integers, Sequences, SequencesExt

VARIABLE CharSigned   \* the build: whether char is signed, as on most platforms

Tag(t) == t[1]
Val(t) == t[2]

Byte(b) == <<"byte", b>>
Nil     == <<"nil_ext", 0>>

(***************************************************************************)
(* A byte read as a char, and the widths of a byte and of a big_word.      *)
(***************************************************************************)
AsChar(b) == IF CharSigned /\ b > 127 THEN b - 256 ELSE b
Word      == 65536

(***************************************************************************)
(* The kinds of one token, and the tags that the grammar rule of a kind    *)
(* accepts.  A binary is the pair of its bytes and its padding bits.       *)
(***************************************************************************)
Scalars == {"int", "atom", "pid", "ref", "float", "binary"}

TagsOf(k) ==
  CASE k = "int"    -> {"small_integer", "integer"}
    [] k = "binary" -> {"binary_ext", "bit_binary_ext"}
    [] OTHER        -> {k}

Value(k, v)  == [k |-> k, how |-> "value", v |-> v]
int_(v)      == Value("int", v)
atom(v)      == Value("atom", v)
pid(v)       == Value("pid", v)
binary(v)    == Value("binary", v)
e_string(v)  == Value("string", v)
list(v)      == Value("list", v)
e_tuple(v)   == Value("tuple", v)
assign(k)    == [k |-> k, how |-> "assign"]
assign_list(k) == [k |-> "list", how |-> "assign", of |-> k]
any_of(k)    == [k |-> k, how |-> "any"]
any          == any_of("any")
assign_any   == assign("any")

-----------------------------------------------------------------------------
(***************************************************************************)
(* object::serialize.  Lengths are truncated to the width of their field.  *)
(***************************************************************************)
RECURSIVE serialize(_)

serialize_all(os) == FlattenSeq([i \in DOMAIN os |-> serialize(os[i])])

serialize_int(v) ==
  <<IF v \in 0..255 THEN "small_integer" ELSE "integer", v>>

serialize_string(v) ==
  <<<<"string_ext", Len(v) % Word>>>> \o [i \in DOMAIN v |-> Byte(v[i])]

serialize_list(v) ==
  <<<<"list", Len(v)>>>> \o serialize_all(v) \o <<Nil>>

serialize_tuple(v) == <<<<"small_tuple", Len(v) % 256>>>> \o serialize_all(v)

serialize_binary(v) ==
  <<IF v[2] > 0 THEN "bit_binary_ext" ELSE "binary_ext", v>>

serialize(o) ==
  CASE o.k = "int"    -> <<serialize_int(o.v)>>
    [] o.k = "binary" -> <<serialize_binary(o.v)>>
    [] o.k = "string" -> serialize_string(o.v)
    [] o.k = "list"   -> serialize_list(o.v)
    [] o.k = "tuple"  -> serialize_tuple(o.v)
    [] OTHER          -> <<<<o.k, o.v>>>>

(***************************************************************************)
(* What an Erlang node sends for a term: a list of bytes as a string, the  *)
(* empty list as nil.                                                      *)
(***************************************************************************)
RECURSIVE erlang_encode(_)

IsBytes(v) == \A i \in DOMAIN v : v[i].k = "int" /\ v[i].v \in 0..255

erlang_encode_all(os) ==
  FlattenSeq([i \in DOMAIN os |-> erlang_encode(os[i])])

erlang_encode(o) ==
  CASE o.k = "list" /\ o.v = <<>>     -> <<Nil>>
    [] o.k = "list" /\ IsBytes(o.v)   -> serialize_string([i \in DOMAIN o.v |->
                                                             o.v[i].v])
    [] o.k = "list" /\ ~IsBytes(o.v)  -> <<<<"list", Len(o.v)>>>>
                                           \o erlang_encode_all(o.v) \o <<Nil>>
    [] o.k = "tuple"                  -> <<<<"small_tuple", Len(o.v)>>>>
                                           \o erlang_encode_all(o.v)
    [] OTHER                          -> serialize(o)

-----------------------------------------------------------------------------
(***************************************************************************)
(* object::match moves the iterator over the encoded term s.  A result     *)
(* says whether the match succeeded, what is left, and what was assigned,  *)
(* in order.  A rule that does not parse leaves the iterator where it was; *)
(* a value that differs has been passed.                                   *)
(***************************************************************************)
Result(ok, rest, got) == [ok |-> ok, rest |-> rest, got |-> got]
Fails(s)              == Result(FALSE, s, <<>>)
Starts(s)             == Result(TRUE, s, <<>>)
Parses(s, tags)       == s # <<>> /\ Tag(Head(s)) \in tags
Then(r, q)            == Result(q.ok, q.rest, r.got \o q.got)

match_scalar(o, s) ==
  IF ~Parses(s, TagsOf(o.k)) THEN Fails(s)
  ELSE Result(o.how = "value" => Val(Head(s)) = o.v, Tail(s),
              IF o.how = "assign" THEN <<Val(Head(s))>> ELSE <<>>)

(***************************************************************************)
(* An element of a string, for an int_ object, which has a value of 0      *)
(* unless it is given one.                                                 *)
(***************************************************************************)
val(o) == IF o.how = "value" THEN o.v ELSE 0

match_string_element(o, s) ==
  IF ~Parses(s, {"byte"}) THEN Fails(s)
  ELSE IF o.how = "assign" THEN Result(TRUE, Tail(s), <<Val(Head(s))>>)
       ELSE Result(val(o) = Val(Head(s)), Tail(s), <<>>)

(***************************************************************************)
(* string_matcher::match looks for an element that matches, and succeeds   *)
(* when there is none.                                                     *)
(***************************************************************************)
find_if(os, s) ==
  LET step(r, o) == IF r.ok THEN r ELSE Then(r, match_string_element(o, r.rest))
  IN  FoldLeft(step, Fails(s), os)

match_string(os, s) ==
  IF ~Parses(s, {"string_ext"}) THEN Fails(s)
  ELSE LET r == find_if(os, Tail(s)) IN
         IF Len(os) # Val(Head(s)) THEN Fails(Tail(s))
         ELSE Result(~r.ok, r.rest, r.got)

assign_string(s) ==
  IF ~Parses(s, {"string_ext"}) THEN Fails(s)
  ELSE LET n == Val(Head(s)) IN
         Result(TRUE, SubSeq(s, n + 2, Len(s)),
                <<[i \in 1..n |-> Val(s[i + 1])]>>)

match_e_string(o, s) ==
  LET create_int(c) == int_(AsChar(c)) IN
    CASE o.how = "value"  -> match_string([i \in DOMAIN o.v |->
                                             create_int(o.v[i])], s)
      [] o.how = "assign" -> assign_string(s)
      [] o.how = "any"    -> Result(assign_string(s).ok, assign_string(s).rest,
                                    <<>>)

(***************************************************************************)
(* Objects one after the other, until one fails.                           *)
(***************************************************************************)
RECURSIVE match(_, _)

match_all(os, s) ==
  LET step(r, o) == IF r.ok THEN Then(r, match(o, r.rest)) ELSE r
  IN  FoldLeft(step, Starts(s), os)

Repeat(o, n) == [i \in 1..n |-> o]

\* Mutant: the arity is not compared.
match_tuple_any_arity(o, s) ==
  IF ~Parses(s, {"small_tuple"}) THEN Fails(s) ELSE match_all(o.v, Tail(s))

match_tuple(o, s) ==
  IF ~Parses(s, {"small_tuple"}) THEN Fails(s)
  ELSE IF Len(o.v) # Val(Head(s)) THEN Fails(Tail(s))
       ELSE match_all(o.v, Tail(s))

(***************************************************************************)
(* list_matcher.  The nil at the end is skipped if it is there when values *)
(* are compared, and required when they are assigned.                      *)
(***************************************************************************)
skip_nil(s) == IF Parses(s, {"nil_ext"}) THEN Tail(s) ELSE s

match_list_value(os, s) ==
  IF ~Parses(s, {"list"}) THEN Result(FALSE, skip_nil(s), <<>>)
  ELSE LET r == IF Len(os) # Val(Head(s)) THEN Fails(Tail(s))
                ELSE match_all(os, Tail(s))
       IN  Result(r.ok, skip_nil(r.rest), r.got)

assign_list_value(k, s) ==
  IF ~Parses(s, {"list"}) THEN Fails(s)
  ELSE LET r == match_all(Repeat(assign(k), Val(Head(s))), Tail(s)) IN
         Result(r.ok /\ Parses(r.rest, {"nil_ext"}), skip_nil(r.rest),
                <<r.got>>)

(***************************************************************************)
(* A list of int_ objects may be packed as a string.                       *)
(***************************************************************************)
match_list(o, s) ==
  LET packed == Parses(s, {"string_ext"})
      ints   == IF o.how = "assign" THEN o.of = "int"
                ELSE \A i \in DOMAIN o.v : o.v[i].k = "int" IN
    CASE o.how = "value" /\ packed /\ ints -> match_string(o.v, s)
      [] o.how = "value" /\ ~(packed /\ ints) -> match_list_value(o.v, s)
      [] o.how = "assign" /\ packed /\ ints -> assign_string(s)
      [] o.how = "assign" /\ ~(packed /\ ints) -> assign_list_value(o.of, s)

(***************************************************************************)
(* erl::any accepts a term of any kind it knows and saves its tokens.  It  *)
(* passes the elements of a list, but not the nil after them.              *)
(***************************************************************************)
match_dynamically(s) ==
  LET tag == Tag(Head(s)) IN
    IF s = <<>> THEN Fails(s)
    ELSE CASE tag \in {"small_tuple", "list"} ->
                match_all(Repeat(any, Val(Head(s))), Tail(s))
           [] tag = "string_ext" -> match_e_string(any_of("string"), s)
           [] \E k \in Scalars : tag \in TagsOf(k) -> Starts(Tail(s))
           [] OTHER -> Fails(s)

match_any(o, s) ==
  LET r     == match_dynamically(s)
      saved == SubSeq(s, 1, Len(s) - Len(r.rest)) IN
    Result(r.ok, r.rest, IF o.how = "assign" THEN <<saved>> ELSE <<>>)

match(o, s) ==
  CASE o.k = "any"    -> match_any(o, s)
    [] o.k = "tuple"  -> match_tuple(o, s)
    [] o.k = "list"   -> match_list(o, s)
    [] o.k = "string" -> match_e_string(o, s)
    [] OTHER          -> match_scalar(o, s)

-----------------------------------------------------------------------------
(***************************************************************************)
(* The reference: whether the Erlang term t, built from values only, is an *)
(* instance of the pattern o, and what the pattern binds.  by says who     *)
(* encoded the term: this library or an Erlang node.                       *)
(***************************************************************************)
Peers == {"tinch", "erlang"}

encode(t, by) == IF by = "erlang" THEN erlang_encode(t) ELSE serialize(t)

RECURSIVE Instance(_, _), Bound(_, _, _)

Instance(o, t) ==
  LET each == /\ t.k = o.k /\ Len(o.v) = Len(t.v)
              /\ \A i \in DOMAIN o.v : Instance(o.v[i], t.v[i]) IN
    CASE o.k = "any"    -> TRUE
      [] o.k = "tuple"  -> each
      [] o.k = "list"   -> IF o.how = "value" THEN each
                           ELSE /\ t.k = "list"
                                /\ \A i \in DOMAIN t.v : t.v[i].k = o.of
      [] o.k = "string" -> /\ t.k = "list" /\ IsBytes(t.v)
                           /\ o.how = "value" =>
                                o.v = [i \in DOMAIN t.v |-> t.v[i].v]
      [] OTHER          -> t.k = o.k /\ (o.how = "value" => t.v = o.v)

Bound(o, t, by) ==
  CASE o.k \in {"tuple", "list"} /\ o.how = "value" ->
         FlattenSeq([i \in DOMAIN o.v |-> Bound(o.v[i], t.v[i], by)])
    [] o.k \in {"list", "string"} /\ o.how = "assign" ->
         <<[i \in DOMAIN t.v |-> t.v[i].v]>>
    [] o.k = "any" /\ o.how = "assign"      -> <<encode(t, by)>>
    [] o.k \in Scalars /\ o.how = "assign" -> <<t.v>>
    [] OTHER -> <<>>

(***************************************************************************)
(* Where the matchers deviate from the reference: a value is compared with *)
(* a list packed as a string; a string pattern meets a list that is not    *)
(* packed; erl::any meets a list that is not packed; an empty list comes   *)
(* from an Erlang node.                                                    *)
(***************************************************************************)
RECURSIVE HasPlainList(_, _), Deviates(_, _, _)

Packed(t, by) == by = "erlang" /\ t.v # <<>> /\ IsBytes(t.v)

HasPlainList(t, by) ==
  \/ t.k = "list" /\ ~Packed(t, by)
  \/ t.k \in {"tuple", "list"} /\ \E i \in DOMAIN t.v : HasPlainList(t.v[i], by)

Deviates(o, t, by) ==
  CASE o.k = "any" -> HasPlainList(t, by)
    [] o.k = "string" /\ t.k = "list" -> o.how = "value" \/ ~Packed(t, by)
    [] o.k = "list" /\ t.k = "list" /\ (t.v = <<>> \/ o.how = "assign") ->
         t.v = <<>> /\ by = "erlang"
    [] o.k \in {"tuple", "list"} /\ t.k = o.k /\ o.how = "value" ->
         \/ o.k = "list" /\ Packed(t, by)
         \/ \E i \in DOMAIN o.v \cap DOMAIN t.v : Deviates(o.v[i], t.v[i], by)
    [] OTHER -> FALSE
=============================================================================
