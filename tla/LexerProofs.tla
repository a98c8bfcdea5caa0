---------------------------- MODULE LexerProofs ------------------------------
(***************************************************************************)
(* Proofs about the lexer, and about the messages of the handshake that it *)
(* cuts out of what is read.                                               *)
(***************************************************************************)
EXTENDS HandshakeFormats, SequenceTheorems, WellFoundedInduction, TLAPS

(***************************************************************************)
(* Induction over a set of natural numbers.                                *)
(***************************************************************************)
LEMMA SetInduction ==
  ASSUME NEW S \in SUBSET Nat, 0 \in S, \A n \in S : n + 1 \in S
  PROVE  S = Nat
<1> SUFFICES ASSUME Nat \ S # {} PROVE FALSE
  OBVIOUS
<1> DEFINE R == OpToRel(<, Nat)
           T == Nat \ S
<1>1. IsWellFoundedOn(R, Nat) /\ T \in SUBSET Nat
  BY NatLessThanWellFounded
<1>2. \A x, y \in Nat : <<y, x>> \in R <=> y < x
  BY DEF OpToRel
<1>3. PICK x \in T : \A y \in T : ~(<<y, x>> \in R)
  <2> HIDE DEF R, T
  <2>1. T # {}
    BY DEF T
  <2> QED BY <1>1, <2>1, WFMin
<1> HIDE DEF R
<1>4. x \in Nat /\ x # 0 /\ \A y \in T : ~(y < x)
  BY <1>2, <1>3
<1>5. x - 1 \in Nat /\ x - 1 < x /\ (x - 1) + 1 = x
  BY <1>4
<1> QED BY <1>3, <1>4, <1>5

-----------------------------------------------------------------------------
(***************************************************************************)
(* Lists.                                                                  *)
(***************************************************************************)
LEMMA Parts ==
  ASSUME NEW S, NEW s \in Seq(S), NEW i \in 0..Len(s)
  PROVE  /\ SubSeq(s, 1, i) \in Seq(S) /\ Len(SubSeq(s, 1, i)) = i
         /\ \A j \in 1..i : SubSeq(s, 1, i)[j] = s[j]
         /\ SubSeq(s, i + 1, Len(s)) \in Seq(S)
         /\ Len(SubSeq(s, i + 1, Len(s))) = Len(s) - i
         /\ \A j \in 1..(Len(s) - i) : SubSeq(s, i + 1, Len(s))[j] = s[i + j]
         /\ SubSeq(s, 1, i) \o SubSeq(s, i + 1, Len(s)) = s
<1>1. Len(s) \in Nat /\ i \in Nat /\ i <= Len(s)
  BY LenProperties
<1>2. \A j \in 1..Len(s) : s[j] \in S
  BY ElementOfSeq
<1>3. /\ SubSeq(s, 1, i) \in Seq(S)
      /\ Len(SubSeq(s, 1, i)) = (IF 1 <= i THEN i - 1 + 1 ELSE 0)
      /\ \A j \in 1..(i - 1 + 1) : SubSeq(s, 1, i)[j] = s[1 + j - 1]
  <2>1. 1 \in Int /\ i \in Int /\ \A j \in 1..i : s[j] \in S
    BY <1>1, <1>2
  <2> QED BY <2>1, SubSeqProperties
<1>4. Len(SubSeq(s, 1, i)) = i /\ \A j \in 1..i : SubSeq(s, 1, i)[j] = s[j]
  BY <1>1, <1>3
<1>5. /\ SubSeq(s, i + 1, Len(s)) \in Seq(S)
      /\ Len(SubSeq(s, i + 1, Len(s))) =
           (IF i + 1 <= Len(s) THEN Len(s) - (i + 1) + 1 ELSE 0)
      /\ \A j \in 1..(Len(s) - (i + 1) + 1) :
           SubSeq(s, i + 1, Len(s))[j] = s[(i + 1) + j - 1]
  <2>1. i + 1 \in Int /\ Len(s) \in Int /\ \A j \in (i + 1)..Len(s) : s[j] \in S
    BY <1>1, <1>2
  <2> QED BY <2>1, SubSeqProperties
<1>6. /\ Len(SubSeq(s, i + 1, Len(s))) = Len(s) - i
      /\ \A j \in 1..(Len(s) - i) : SubSeq(s, i + 1, Len(s))[j] = s[i + j]
  <2> DEFINE r == SubSeq(s, i + 1, Len(s))
             n == Len(s)
  <2>1. /\ Len(r) = (IF i + 1 <= n THEN n - (i + 1) + 1 ELSE 0)
        /\ \A j \in 1..(n - (i + 1) + 1) : r[j] = s[(i + 1) + j - 1]
    BY <1>5
  <2>2. n \in Nat /\ i <= n
    BY <1>1
  <2> HIDE DEF r, n
  <2>3. Len(r) = n - i /\ n - (i + 1) + 1 = n - i
    BY <1>1, <2>1, <2>2
  <2>4. ASSUME NEW j \in 1..(n - i) PROVE r[j] = s[i + j]
    <3>1. (i + 1) + j - 1 = i + j
      BY <1>1, <2>2
    <3> QED BY <2>1, <2>3, <3>1
  <2> QED BY <2>3, <2>4 DEF r, n
<1>7. SubSeq(s, 1, i) \o SubSeq(s, i + 1, Len(s)) = s
  <2>1. 1 \in 1..(Len(s) + 1) /\ i \in (1 - 1)..Len(s) /\ Len(s) \in i..Len(s)
    BY <1>1
  <2>2. SubSeq(s, 1, i) \o SubSeq(s, i + 1, Len(s)) = SubSeq(s, 1, Len(s))
    BY <2>1, ConcatAdjacentSubSeq
  <2> QED BY <2>2, SubSeqFull
<1> QED BY <1>3, <1>4, <1>5, <1>6, <1>7

LEMMA FirstAndRest ==
  ASSUME NEW S, NEW q \in Seq(S), q # <<>>
  PROVE  /\ q[1] \in S /\ Tail(q) \in Seq(S) /\ Len(Tail(q)) = Len(q) - 1
         /\ Len(q) \in Nat /\ Len(q) >= 1
         /\ Head(q) = q[1] /\ q = <<q[1]>> \o Tail(q)
         /\ \A i \in 1..(Len(q) - 1) : Tail(q)[i] = q[i + 1]
<1>1. /\ Head(q) \in S /\ Head(q) = q[1] /\ Tail(q) \in Seq(S)
      /\ Tail(q) = SubSeq(q, 2, Len(q)) /\ Len(q) \in Nat \ {0}
      /\ Len(Tail(q)) = Len(q) - 1
      /\ \A i \in 1..Len(Tail(q)) : Tail(q)[i] = q[i + 1]
  BY HeadTailProperties, TailIsSubSeq, EmptySeq
<1>2. 1 \in 1..Len(q) /\ Len(q) \in 1..Len(q)
  BY <1>1
<1>3. SubSeq(q, 1, Len(q)) = <<q[1]>> \o SubSeq(q, 1 + 1, Len(q))
  BY <1>2, SubSeqRecursiveFirst
<1>4. SubSeq(q, 1, Len(q)) = q
  BY SubSeqFull
<1> QED BY <1>1, <1>3, <1>4

LEMMA Glued ==
  ASSUME NEW S, NEW s \in Seq(S), NEW t \in Seq(S)
  PROVE  /\ s \o t \in Seq(S) /\ Len(s \o t) = Len(s) + Len(t)
         /\ Len(s) \in Nat /\ Len(t) \in Nat
         /\ \A i \in 1..Len(s) : (s \o t)[i] = s[i]
         /\ \A i \in 1..Len(t) : (s \o t)[Len(s) + i] = t[i]
<1> DEFINE r == s \o t
           m == Len(s)
           n == Len(t)
<1>1. /\ r \in Seq(S) /\ Len(r) = m + n
      /\ \A i \in 1..(m + n) : r[i] = IF i <= m THEN s[i] ELSE t[i - m]
  BY ConcatProperties
<1>2. m \in Nat /\ n \in Nat
  BY LenProperties
<1> HIDE DEF r, m, n
<1>3. \A i \in 1..m : r[i] = s[i]
  BY <1>1, <1>2
<1>4. ASSUME NEW i \in 1..n PROVE r[m + i] = t[i]
  <2>1. m + i \in 1..(m + n) /\ ~(m + i <= m) /\ (m + i) - m = i
    BY <1>2
  <2> QED BY <1>1, <2>1
<1> QED BY <1>1, <1>2, <1>3, <1>4 DEF r, m, n

(***************************************************************************)
(* Two ways to cut the same bytes.                                         *)
(***************************************************************************)
LEMMA SameBytes ==
  ASSUME NEW S, NEW r \in Seq(S), NEW t \in Seq(S), NEW m \in Seq(S), NEW f \in Seq(S),
         r \o t = m \o f
  PROVE  /\ \A j \in 0..Len(m) : j <= Len(r) => SubSeq(r, 1, j) = SubSeq(m, 1, j)
         /\ Len(m) <= Len(r) =>
              /\ SubSeq(r, 1, Len(m)) = m
              /\ SubSeq(r, Len(m) + 1, Len(r)) \o t = f
<1> DEFINE b == r \o t
           c == m \o f
<1>1. /\ b \in Seq(S) /\ Len(b) = Len(r) + Len(t)
      /\ Len(r) \in Nat /\ Len(t) \in Nat
      /\ \A i \in 1..Len(r) : b[i] = r[i]
      /\ \A i \in 1..Len(t) : b[Len(r) + i] = t[i]
  BY ONLY r \in Seq(S), t \in Seq(S), Glued
<1>2. /\ c \in Seq(S) /\ Len(c) = Len(m) + Len(f)
      /\ Len(m) \in Nat /\ Len(f) \in Nat
      /\ \A i \in 1..Len(m) : c[i] = m[i]
      /\ \A i \in 1..Len(f) : c[Len(m) + i] = f[i]
  BY ONLY m \in Seq(S), f \in Seq(S), Glued
<1>3. b = c
  OBVIOUS
<1> HIDE DEF b, c
<1>4. ASSUME NEW j \in 0..Len(m), j <= Len(r)
      PROVE  SubSeq(r, 1, j) = SubSeq(m, 1, j)
  <2>1. j \in 0..Len(r)
    BY <1>1, <1>2, <1>4
  <2> DEFINE x == SubSeq(r, 1, j)
             y == SubSeq(m, 1, j)
  <2>2. /\ x \in Seq(S) /\ Len(x) = j /\ \A i \in 1..j : x[i] = r[i]
        /\ y \in Seq(S) /\ Len(y) = j /\ \A i \in 1..j : y[i] = m[i]
    BY <2>1, Parts
  <2> HIDE DEF x, y
  <2>3. ASSUME NEW i \in 1..j PROVE r[i] = m[i]
    <3>1. i \in 1..Len(r) /\ i \in 1..Len(m)
      BY ONLY <1>1, <1>2, <2>1, j \in 0..Len(m), i \in 1..j
    <3>2. b[i] = r[i] /\ c[i] = m[i]
      BY ONLY <1>1, <1>2, <3>1
    <3> QED BY ONLY <1>3, <3>2
  <2>4. x = y
    BY <2>2, <2>3, SeqEqual
  <2> QED BY <2>4 DEF x, y
<1>5. ASSUME Len(m) <= Len(r)
      PROVE  SubSeq(r, 1, Len(m)) = m /\ SubSeq(r, Len(m) + 1, Len(r)) \o t = f
  <2>1. SubSeq(r, 1, Len(m)) = m
    <3>1. Len(m) \in 0..Len(m)
      BY <1>2
    <3>2. SubSeq(m, 1, Len(m)) = m
      BY SubSeqFull
    <3> QED BY <1>4, <1>5, <3>1, <3>2
  <2> DEFINE u == SubSeq(r, Len(m) + 1, Len(r))
             v == u \o t
             n == Len(m)
  <2>2. /\ u \in Seq(S) /\ Len(u) = Len(r) - n
        /\ \A j \in 1..(Len(r) - n) : u[j] = r[n + j]
    <3>1. n \in 0..Len(r)
      BY <1>1, <1>2, <1>5
    <3> QED BY <3>1, Parts
  <2> HIDE DEF u
  <2>3. /\ v \in Seq(S) /\ Len(v) = Len(u) + Len(t)
        /\ \A i \in 1..Len(u) : v[i] = u[i]
        /\ \A i \in 1..Len(t) : v[Len(u) + i] = t[i]
    <3>1. u \in Seq(S)
      BY ONLY <2>2
    <3> QED BY ONLY <3>1, t \in Seq(S), Glued
  <2> HIDE DEF v
  <2>4. n \in Nat /\ n <= Len(r) /\ Len(c) = n + Len(f) /\ \A i \in 1..Len(f) : c[n + i] = f[i]
    BY <1>2, <1>5
  <2> HIDE DEF n
  <2>5. Len(v) = Len(f)
    BY ONLY <1>1, <1>2, <1>3, <2>2, <2>3, <2>4
  <2>6. ASSUME NEW i \in 1..Len(f) PROVE v[i] = f[i]
    <3>1. f[i] = b[n + i]
      BY <1>3, <2>4
    <3>2. CASE i <= Len(r) - n
      <4>1. i \in 1..(Len(r) - n) /\ n + i \in 1..Len(r)
        BY ONLY <1>1, <1>2, <2>4, <3>2, i \in 1..Len(f)
      <4> QED BY ONLY <1>1, <2>2, <2>3, <3>1, <4>1
    <3>3. CASE i > Len(r) - n
      <4> DEFINE j == i - (Len(r) - n)
      <4>1. j \in 1..Len(t) /\ i = Len(u) + j /\ n + i = Len(r) + j
        BY ONLY <1>1, <1>2, <2>2, <2>3, <2>4, <2>5, <3>3, i \in 1..Len(f)
      <4> HIDE DEF j
      <4> QED BY <1>1, <2>3, <3>1, <4>1
    <3> QED BY <1>1, <1>2, <2>4, <3>2, <3>3
  <2>7. v = f
    BY <2>3, <2>5, <2>6, SeqEqual
  <2> QED BY <2>1, <2>7 DEF v, u
<1> QED BY <1>4, <1>5

-----------------------------------------------------------------------------
(***************************************************************************)
(* FlattenSeq is a recursive function over the places of a list: f is that *)
(* function for the first n places.                                        *)
(***************************************************************************)
FlatBy(f, q, n) ==
  f = [i \in 1..n |-> IF i = 1 THEN q[i] ELSE f[i - 1] \o q[i]]

LEMMA FlatExists ==
  ASSUME NEW q, NEW n \in Nat
  PROVE  \E f : FlatBy(f, q, n)
<1> DEFINE T == {k \in Nat : \E f : FlatBy(f, q, k)}
<1>1. 0 \in T
  <2> DEFINE g == [i \in 1..0 |-> <<>>]
  <2>1. FlatBy(g, q, 0)
    BY DEF FlatBy
  <2> QED BY <2>1
<1>2. ASSUME NEW k \in T PROVE k + 1 \in T
  <2>1. PICK f : FlatBy(f, q, k)
    OBVIOUS
  <2> DEFINE x == IF k = 0 THEN q[1] ELSE f[k] \o q[k + 1]
             g == [i \in 1..(k + 1) |-> IF i = k + 1 THEN x ELSE f[i]]
             h == [i \in 1..(k + 1) |-> IF i = 1 THEN q[i] ELSE g[i - 1] \o q[i]]
  <2>2. \A i \in 1..k : g[i] = f[i]
    OBVIOUS
  <2>3. g[k + 1] = x
    OBVIOUS
  <2>4. ASSUME NEW i \in 1..(k + 1) PROVE g[i] = h[i]
    <3>1. CASE i = k + 1 /\ k # 0
      <4>1. i # 1 /\ i - 1 = k /\ k \in 1..k
        BY <3>1
      <4>2. g[i - 1] = f[k]
        BY <2>2, <4>1
      <4>3. h[i] = g[i - 1] \o q[i]
        BY <4>1
      <4> QED BY <2>3, <3>1, <4>2, <4>3
    <3>2. CASE i = 1
      <4>1. h[1] = q[1]
        BY <3>2
      <4>2. CASE k = 0
        BY <2>3, <3>2, <4>1, <4>2
      <4>3. CASE k # 0
        <5>1. 1 \in 1..k
          BY <4>3
        <5>2. f[1] = q[1]
          BY <2>1, <5>1 DEF FlatBy
        <5> QED BY <2>2, <3>2, <4>1, <5>1, <5>2
      <4> QED BY <4>2, <4>3
    <3>3. CASE i # 1 /\ i # k + 1
      <4>1. i \in 1..k /\ i - 1 \in 1..k
        BY <3>3
      <4>2. f[i] = f[i - 1] \o q[i]
        BY <2>1, <3>3, <4>1 DEF FlatBy
      <4>3. h[i] = g[i - 1] \o q[i]
        BY <3>3
      <4>4. g[i - 1] = f[i - 1] /\ g[i] = f[i]
        BY <2>2, <4>1
      <4> QED BY <4>2, <4>3, <4>4
    <3> QED BY <3>1, <3>2, <3>3
  <2>5. /\ g = [i \in 1..(k + 1) |-> g[i]]
        /\ h = [i \in 1..(k + 1) |-> h[i]]
    OBVIOUS
  <2>6. g = h
    <3> HIDE DEF g, h
    <3> QED BY <2>4, <2>5
  <2>7. FlatBy(g, q, k + 1)
    <3> HIDE DEF g
    <3> QED BY <2>6 DEF FlatBy
  <2> QED BY <2>7
<1>3. T = Nat
  <2>1. T \in SUBSET Nat
    OBVIOUS
  <2> HIDE DEF T
  <2> QED BY <1>1, <1>2, <2>1, SetInduction
<1> QED BY <1>3

LEMMA FlattenFlat ==
  ASSUME NEW q, Len(q) \in Nat, Len(q) # 0
  PROVE  \E f : FlatBy(f, q, Len(q)) /\ FlattenSeq(q) = f[Len(q)]
<1> DEFINE g == CHOOSE f : FlatBy(f, q, Len(q))
<1>1. FlatBy(g, q, Len(q))
  BY FlatExists
<1>2. FlattenSeq(q) = g[Len(q)]
  BY DEF FlattenSeq, FlatBy
<1> HIDE DEF g
<1> QED BY <1>1, <1>2

(***************************************************************************)
(* A message written is added at the end.                                  *)
(***************************************************************************)
LEMMA FlattenAppend ==
  ASSUME NEW S, NEW q \in Seq(Seq(S)), NEW m \in Seq(S)
  PROVE  /\ FlattenSeq(q) \in Seq(S)
         /\ FlattenSeq(Append(q, m)) = FlattenSeq(q) \o m
<1> DEFINE n == Len(q)
           r == Append(q, m)
<1>1. n \in Nat /\ \A i \in 1..n : q[i] \in Seq(S)
  BY LenProperties, ElementOfSeq
<1>2. Len(r) = n + 1 /\ r[n + 1] = m /\ \A i \in 1..n : r[i] = q[i]
  BY AppendProperties
<1> HIDE DEF r
<1>3. PICK g : FlatBy(g, r, n + 1) /\ FlattenSeq(r) = g[n + 1]
  BY <1>1, <1>2, FlattenFlat
<1>4. CASE n = 0
  <2>1. q = <<>> /\ FlattenSeq(q) = <<>>
    BY <1>4, EmptySeq DEF FlattenSeq
  <2>2. g[1] = r[1]
    BY <1>3, <1>4 DEF FlatBy
  <2>3. <<>> \o m = m /\ <<>> \in Seq(S)
    BY ConcatEmptySeq
  <2>4. FlattenSeq(r) = m
    BY <1>2, <1>3, <1>4, <2>2
  <2> DEFINE e == FlattenSeq(q)
  <2>5. e = <<>>
    BY <2>1
  <2> HIDE DEF e
  <2>6. e \o m = m /\ e \in Seq(S)
    BY <2>3, <2>5
  <2> QED BY <2>4, <2>6 DEF r, e
<1>5. CASE n # 0
  <2>1. PICK f : FlatBy(f, q, n) /\ FlattenSeq(q) = f[n]
    BY <1>1, <1>5, FlattenFlat
  <2> HIDE DEF n
  <2> DEFINE T == {k \in Nat : k \in 1..n => f[k] = g[k] /\ f[k] \in Seq(S)}
  <2>2. 0 \in T
    OBVIOUS
  <2>3. ASSUME NEW k \in T PROVE k + 1 \in T
    <3> SUFFICES ASSUME k + 1 \in 1..n
                 PROVE  f[k + 1] = g[k + 1] /\ f[k + 1] \in Seq(S)
      OBVIOUS
    <3>1. /\ f[k + 1] = IF k + 1 = 1 THEN q[k + 1] ELSE f[(k + 1) - 1] \o q[k + 1]
          /\ g[k + 1] = IF k + 1 = 1 THEN r[k + 1] ELSE g[(k + 1) - 1] \o r[k + 1]
      <4>1. k + 1 \in 1..(n + 1)
        BY <1>1
      <4> QED BY <1>3, <2>1, <4>1 DEF FlatBy
    <3>2. r[k + 1] = q[k + 1] /\ q[k + 1] \in Seq(S)
      BY <1>1, <1>2
    <3>3. CASE k = 0
      BY <3>1, <3>2, <3>3
    <3>4. CASE k # 0
      <4>1. k \in 1..n /\ k + 1 # 1 /\ (k + 1) - 1 = k
        BY <1>1, <3>4
      <4>2. f[k] = g[k] /\ f[k] \in Seq(S)
        BY <4>1
      <4>3. f[k] \o q[k + 1] \in Seq(S)
        BY <3>2, <4>2, ConcatProperties
      <4> QED BY <3>1, <3>2, <4>1, <4>2, <4>3
    <3> QED BY <3>3, <3>4
  <2>4. T = Nat
    <3>1. T \in SUBSET Nat
      OBVIOUS
    <3> HIDE DEF T
    <3> QED BY <2>2, <2>3, <3>1, SetInduction
  <2>5. f[n] = g[n] /\ f[n] \in Seq(S)
    <3>1. n \in 1..n
      BY <1>1, <1>5
    <3> QED BY <1>1, <2>4, <3>1
  <2>6. g[n + 1] = g[n] \o r[n + 1]
    <3>1. n + 1 \in 1..(n + 1) /\ n + 1 # 1 /\ (n + 1) - 1 = n
      BY <1>1, <1>5
    <3> QED BY <1>3, <3>1 DEF FlatBy
  <2> QED BY <1>2, <1>3, <2>1, <2>5, <2>6 DEF r
<1> QED BY <1>4, <1>5

(***************************************************************************)
(* The message read first is at the beginning.                             *)
(***************************************************************************)
LEMMA FlattenFirst ==
  ASSUME NEW S, NEW p \in Seq(Seq(S)), p # <<>>
  PROVE  FlattenSeq(p) = p[1] \o FlattenSeq(Tail(p))
<1> DEFINE P(q) == FlattenSeq(q) = q[1] \o FlattenSeq(Tail(q))
           T == {n \in Nat : \A q \in Seq(Seq(S)) : Len(q) = n + 1 => P(q)}
<1>1. \A q \in Seq(Seq(S)) : q # <<>> =>
        \E r \in Seq(Seq(S)) : \E m \in Seq(S) : q = Append(r, m) /\ Len(q) = Len(r) + 1
  <2> SUFFICES ASSUME NEW q \in Seq(Seq(S)), q # <<>>
               PROVE  \E r \in Seq(Seq(S)) : \E m \in Seq(S) :
                        q = Append(r, m) /\ Len(q) = Len(r) + 1
    OBVIOUS
  <2> DEFINE n == Len(q) - 1
             r == SubSeq(q, 1, n)
             m == q[Len(q)]
             t == Append(r, m)
  <2>1. n \in 0..Len(q) /\ Len(q) = n + 1 /\ n \in Nat /\ Len(q) \in 1..Len(q)
    BY LenProperties, EmptySeq
  <2>2. /\ r \in Seq(Seq(S)) /\ Len(r) = n /\ \A i \in 1..n : r[i] = q[i]
        /\ m \in Seq(S) /\ m = q[n + 1]
    BY <2>1, Parts, ElementOfSeq
  <2> HIDE DEF n, r, m
  <2>3. /\ t \in Seq(Seq(S)) /\ Len(t) = n + 1 /\ t[n + 1] = m
        /\ \A i \in 1..n : t[i] = r[i]
    BY <2>2, AppendProperties
  <2> HIDE DEF t
  <2>4. \A i \in 1..(n + 1) : t[i] = q[i]
    BY <2>1, <2>2, <2>3
  <2>5. t = q
    BY <2>1, <2>3, <2>4, SeqEqual
  <2> QED BY <2>1, <2>2, <2>5 DEF t
<1>2. 0 \in T
  <2> SUFFICES ASSUME NEW q \in Seq(Seq(S)), Len(q) = 0 + 1 PROVE P(q)
    OBVIOUS
  <2>1. Len(q) = 1
    OBVIOUS
  <2>2. FlattenSeq(q) = q[1]
    <3>0. \E f : FlatBy(f, q, Len(q)) /\ FlattenSeq(q) = f[Len(q)]
      <4>1. Len(q) \in Nat /\ Len(q) # 0
        BY <2>1
      <4> QED BY ONLY <4>1, FlattenFlat
    <3>1. PICK f : FlatBy(f, q, 1) /\ FlattenSeq(q) = f[1]
      BY <2>1, <3>0
    <3>2. f[1] = q[1]
      BY <3>1 DEF FlatBy
    <3> QED BY <3>1, <3>2
  <2>3. q # <<>> /\ q[1] \in Seq(S)
    <3>1. 1 \in 1..Len(q)
      BY <2>1
    <3>2. q[1] \in Seq(S)
      BY <3>1, ElementOfSeq
    <3>3. q # <<>>
      <4>1. Len(q) # 0
        BY ONLY <2>1
      <4> QED BY <4>1, EmptySeq
    <3> QED BY <3>2, <3>3
  <2>4. Tail(q) = <<>>
    <3>1. Tail(q) \in Seq(Seq(S)) /\ Len(Tail(q)) = 0
      BY <2>1, <2>3, HeadTailProperties
    <3> QED BY <3>1, EmptySeq
  <2>5. FlattenSeq(<<>>) = <<>>
    BY DEF FlattenSeq
  <2> DEFINE a == q[1]
             e == FlattenSeq(Tail(q))
  <2>6. e = <<>> /\ a \in Seq(S) /\ FlattenSeq(q) = a
    BY <2>2, <2>3, <2>4, <2>5
  <2> HIDE DEF a, e
  <2>7. a \o e = a
    BY ONLY <2>6, ConcatEmptySeq
  <2>8. FlattenSeq(q) = a \o e
    BY ONLY <2>6, <2>7
  <2> QED BY <2>8 DEF a, e
<1>3. ASSUME NEW n \in T PROVE n + 1 \in T
  <2> SUFFICES ASSUME NEW q \in Seq(Seq(S)), Len(q) = n + 2 PROVE P(q)
    OBVIOUS
  <2>1. q # <<>>
    BY EmptySeq
  <2>2. PICK r \in Seq(Seq(S)), m \in Seq(S) : q = Append(r, m) /\ Len(q) = Len(r) + 1
    BY <1>1, <2>1
  <2>3. Len(r) = n + 1 /\ Len(r) \in Nat
    BY <2>2, LenProperties
  <2>4. P(r)
    BY <2>3
  <2>5. r # <<>> /\ r[1] \in Seq(S) /\ q[1] = r[1]
    <3>1. 1 \in 1..Len(r)
      BY <2>3
    <3> QED BY <2>2, <2>3, <3>1, EmptySeq, ElementOfSeq, AppendProperties
  <2>6. Tail(q) = Append(Tail(r), m) /\ Tail(r) \in Seq(Seq(S))
    BY <2>2, <2>5, HeadTailAppend, HeadTailProperties
  <2>7. /\ FlattenSeq(q) = FlattenSeq(r) \o m
        /\ FlattenSeq(Tail(q)) = FlattenSeq(Tail(r)) \o m
        /\ FlattenSeq(Tail(r)) \in Seq(S)
    BY <2>2, <2>6, FlattenAppend
  <2> DEFINE a == r[1]
             b == FlattenSeq(Tail(r))
  <2>8. a \in Seq(S) /\ b \in Seq(S)
    BY <2>5, <2>7
  <2>9. FlattenSeq(r) = a \o b
    BY <2>4
  <2> HIDE DEF a, b
  <2>10. (a \o b) \o m = a \o (b \o m)
    BY ONLY <2>8, m \in Seq(S), ConcatAssociative, SMTT(30)
  <2> QED BY <2>5, <2>7, <2>9, <2>10 DEF a, b
<1>4. T = Nat
  <2>1. T \in SUBSET Nat
    OBVIOUS
  <2> HIDE DEF T
  <2> QED BY <1>2, <1>3, <2>1, SetInduction
<1>5. Len(p) - 1 \in Nat /\ Len(p) = (Len(p) - 1) + 1
  BY LenProperties, EmptySeq
<1> QED BY <1>4, <1>5

-----------------------------------------------------------------------------
(***************************************************************************)
(* handle_new_condition is a recursive function over the places of what it *)
(* cuts: Piece is one step of it, and f is that function for the places    *)
(* from n on.                                                              *)
(***************************************************************************)
Piece(f, s, i) ==
  LET rest == SubSeq(s, i + 1, Len(s))
      n    == read_msg_size(rest)
  IN  IF n \in 1..Len(rest)
        THEN [whole |-> <<SubSeq(s, i + 1, i + n)>> \o f[i + n].whole,
              rest  |-> f[i + n].rest]
        ELSE [whole |-> <<>>, rest |-> rest]

CutBy(f, s, n) == f = [i \in n..Len(s) |-> Piece(f, s, i)]

LEMMA PieceOfLater ==
  ASSUME NEW S, NEW s \in Seq(S), NEW i \in 0..Len(s), NEW f, NEW g,
         \A j \in (i + 1)..Len(s) : f[j] = g[j]
  PROVE  Piece(f, s, i) = Piece(g, s, i)
<1> DEFINE rest == SubSeq(s, i + 1, Len(s))
           n == read_msg_size(rest)
<1>1. Len(rest) = Len(s) - i /\ Len(s) \in Nat /\ i \in Nat
  BY Parts, LenProperties
<1>2. CASE n \in 1..Len(rest)
  <2>1. i + n \in (i + 1)..Len(s)
    <3> HIDE DEF n, rest
    <3> QED BY <1>1, <1>2
  <2>2. f[i + n] = g[i + n]
    <3> HIDE DEF n
    <3> QED BY <2>1
  <2> QED BY <1>2, <2>2 DEF Piece
<1>3. CASE ~(n \in 1..Len(rest))
  BY <1>3 DEF Piece
<1> QED BY <1>2, <1>3

LEMMA CutExists ==
  ASSUME NEW S, NEW s \in Seq(S)
  PROVE  \E f : CutBy(f, s, 0)
<1> DEFINE z == Len(s)
           T == {k \in Nat : k <= z => \E f : CutBy(f, s, z - k)}
<1>0. z \in Nat
  BY LenProperties
<1>1. 0 \in T
  <2> DEFINE e == <<>>
             g == [i \in z..z |-> Piece(e, s, i)]
             h == [i \in z..z |-> Piece(g, s, i)]
  <2>1. ASSUME NEW i \in z..z PROVE Piece(e, s, i) = Piece(g, s, i)
    <3>1. i \in 0..Len(s) /\ \A j \in (i + 1)..Len(s) : e[j] = g[j]
      BY <1>0
    <3> HIDE DEF e, g
    <3> QED BY <3>1, PieceOfLater
  <2>2. g = h
    BY <2>1
  <2>3. CutBy(g, s, z)
    <3> HIDE DEF g
    <3> QED BY <2>2 DEF CutBy
  <2>4. z - 0 = z
    BY <1>0
  <2> QED BY <2>3, <2>4
<1>2. ASSUME NEW k \in T PROVE k + 1 \in T
  <2> SUFFICES ASSUME k + 1 <= z PROVE \E f : CutBy(f, s, z - (k + 1))
    OBVIOUS
  <2> DEFINE b == z - (k + 1)
  <2>1. b \in Nat /\ b <= z /\ z - k = b + 1
    BY <1>0
  <2>2. PICK f : CutBy(f, s, b + 1)
    <3>1. k <= z
      BY <1>0
    <3>2. \E f : CutBy(f, s, z - k)
      BY <3>1
    <3> HIDE DEF b
    <3> QED BY <2>1, <3>2
  <2> HIDE DEF b
  <2> DEFINE g == [i \in b..z |-> IF i = b THEN Piece(f, s, b) ELSE f[i]]
             h == [i \in b..z |-> Piece(g, s, i)]
  <2>3. \A j \in (b + 1)..z : g[j] = f[j]
    BY <1>0, <2>1
  <2>4. g[b] = Piece(f, s, b)
    BY <1>0, <2>1
  <2>5. ASSUME NEW i \in b..z PROVE g[i] = h[i]
    <3>1. Piece(f, s, i) = Piece(g, s, i)
      <4>1. i \in 0..Len(s) /\ \A j \in (i + 1)..Len(s) : f[j] = g[j]
        BY <1>0, <2>1, <2>3
      <4> HIDE DEF g
      <4> QED BY <4>1, PieceOfLater
    <3>2. h[i] = Piece(g, s, i)
      OBVIOUS
    <3>3. g[i] = Piece(f, s, i)
      <4>1. CASE i = b
        BY <2>4, <4>1
      <4>2. CASE i # b
        <5>1. i \in (b + 1)..z
          BY <1>0, <2>1, <4>2
        <5>2. f[i] = Piece(f, s, i)
          <6> HIDE DEF z
          <6>1. f = [j \in (b + 1)..Len(s) |-> Piece(f, s, j)]
            BY <2>2 DEF CutBy
          <6> QED BY <5>1, <6>1 DEF z
        <5> QED BY <2>3, <5>1, <5>2
      <4> QED BY <4>1, <4>2
    <3> QED BY <3>1, <3>2, <3>3
  <2>6. /\ g = [i \in b..z |-> g[i]]
        /\ h = [i \in b..z |-> h[i]]
    OBVIOUS
  <2>7. g = h
    <3> HIDE DEF g, h
    <3> QED BY <2>5, <2>6
  <2>8. CutBy(g, s, b)
    <3> HIDE DEF g
    <3> QED BY <2>7 DEF CutBy
  <2> QED BY <2>8 DEF b
<1>3. T = Nat
  <2>1. T \in SUBSET Nat
    OBVIOUS
  <2> HIDE DEF T
  <2> QED BY <1>1, <1>2, <2>1, SetInduction
<1>4. z <= z /\ z - z = 0
  BY <1>0
<1> QED BY <1>0, <1>3, <1>4

LEMMA HandleCuts ==
  ASSUME NEW S, NEW s \in Seq(S)
  PROVE  \E f : CutBy(f, s, 0) /\ handle_new_condition(s) = f[0]
<1> DEFINE g == CHOOSE f : CutBy(f, s, 0)
<1>1. CutBy(g, s, 0)
  BY CutExists
<1>2. handle_new_condition(s) = g[0]
  BY DEF handle_new_condition, CutBy, Piece
<1> HIDE DEF g
<1> QED BY <1>1, <1>2

(***************************************************************************)
(* The messages over an alphabet.  x is what handle_new_condition returns  *)
(* when it is given a part of the messages q of which t has not been read: *)
(* the whole messages u of q, and less than the next one.                  *)
(***************************************************************************)
FramedOver(S) == {m \in Seq(S) : Framed(m)}

Restored(x, q, t, S) ==
  \E u, v \in Seq(FramedOver(S)) :
    /\ q = u \o v /\ x.whole = u
    /\ x.rest \in Seq(S) /\ x.rest \o t = FlattenSeq(v)
    /\ x.rest # <<>> => v # <<>> /\ Len(x.rest) < Len(v[1])

LEMMA FramedSeq ==
  ASSUME NEW S, NEW q \in Seq(FramedOver(S))
  PROVE  q \in Seq(Seq(S))
<1>1. FramedOver(S) \subseteq Seq(S)
  BY DEF FramedOver
<1>2. Len(q) \in Nat /\ \A i \in 1..Len(q) : q[i] \in Seq(S)
  BY <1>1, LenProperties, ElementOfSeq
<1>3. q = [i \in 1..Len(q) |-> q[i]]
  BY LenProperties
<1> QED BY <1>2, <1>3, IsASeq

\* Less than a message is not cut.
LEMMA PieceOfLess ==
  ASSUME NEW S, NEW s \in Seq(S), NEW i \in 0..Len(s), NEW f,
         NEW m \in FramedOver(S), NEW t \in Seq(S), NEW e \in Seq(S),
         SubSeq(s, i + 1, Len(s)) \o t = m \o e,
         Len(SubSeq(s, i + 1, Len(s))) < Len(m)
  PROVE  Piece(f, s, i) = [whole |-> <<>>, rest |-> SubSeq(s, i + 1, Len(s))]
<1> DEFINE r == SubSeq(s, i + 1, Len(s))
<1>1. r \in Seq(S) /\ Len(r) \in Nat
  BY Parts, LenProperties
<1>2. m \in Seq(S) /\ Framed(m) /\ Len(m) \in Nat
  BY LenProperties DEF FramedOver
<1>3. r \o t = m \o e /\ Len(r) < Len(m)
  OBVIOUS
<1>4. Piece(f, s, i) = IF read_msg_size(r) \in 1..Len(r)
                        THEN [whole |-> <<SubSeq(s, i + 1, i + read_msg_size(r))>>
                                          \o f[i + read_msg_size(r)].whole,
                              rest  |-> f[i + read_msg_size(r)].rest]
                        ELSE [whole |-> <<>>, rest |-> r]
  BY DEF Piece
<1> HIDE DEF r
<1>5. length_field \in Nat
  BY LexerAssumption
<1>6. ~(read_msg_size(r) \in 1..Len(r))
  <2>1. CASE Len(r) < length_field
    BY ONLY <1>1, <2>1 DEF read_msg_size
  <2>2. CASE ~(Len(r) < length_field)
    <3>1. length_field \in 0..Len(m) /\ length_field <= Len(r)
      BY ONLY <1>1, <1>2, <1>3, <1>5, <2>2
    <3>2. SubSeq(r, 1, length_field) = SubSeq(m, 1, length_field)
      BY ONLY <1>1, <1>2, <1>3, <3>1, t \in Seq(S), e \in Seq(S), SameBytes, ZenonT(40)
    <3>3. read_msg_size(r) = Len(m)
      BY ONLY <1>2, <2>2, <3>2 DEF read_msg_size, Framed
    <3> QED BY ONLY <1>1, <1>2, <1>3, <3>3
  <2> QED BY <2>1, <2>2
<1> QED BY <1>4, <1>6 DEF r

\* A message that is there is cut off, and goes before those found in the rest.
Before(m, x) == [whole |-> <<m>> \o x.whole, rest |-> x.rest]

Left(s, t, i, e) == SubSeq(s, i + 1, Len(s)) \o t = e

There(s, t, i, m, e, n) ==
  n = Len(m) /\ Left(s, t, i, m \o e) /\ n <= Len(SubSeq(s, i + 1, Len(s)))

LEMMA PieceOfMore ==
  ASSUME NEW S, NEW s \in Seq(S), NEW i \in 0..Len(s), NEW f,
         NEW m \in FramedOver(S), NEW t \in Seq(S), NEW e \in Seq(S),
         NEW n \in Nat, There(s, t, i, m, e, n)
  PROVE  /\ i + n \in 0..Len(s)
         /\ Piece(f, s, i) = Before(m, f[i + n])
         /\ Left(s, t, i + n, e)
<1> DEFINE z == Len(s)
           r == SubSeq(s, i + 1, Len(s))
<1>3. r \o t = m \o e /\ n <= Len(r) /\ n = Len(m)
  BY DEF There, Left
<1>1. /\ r \in Seq(S) /\ Len(r) = z - i /\ z \in Nat /\ i \in Nat
      /\ \A j \in 1..(z - i) : r[j] = s[i + j]
  BY ONLY s \in Seq(S), i \in 0..Len(s), Parts, LenProperties
<1>2. m \in Seq(S) /\ Framed(m) /\ n \in Nat /\ n >= length_field /\ n >= 1
      /\ length_field \in Nat /\ n = Len(m)
  BY ONLY <1>3, m \in FramedOver(S), LenProperties, LexerAssumption
          DEF FramedOver, Framed
<1>4. Piece(f, s, i) = IF read_msg_size(r) \in 1..Len(r)
                        THEN [whole |-> <<SubSeq(s, i + 1, i + read_msg_size(r))>>
                                          \o f[i + read_msg_size(r)].whole,
                              rest  |-> f[i + read_msg_size(r)].rest]
                        ELSE [whole |-> <<>>, rest |-> r]
  BY DEF Piece
<1> HIDE DEF r
<1> DEFINE c == SubSeq(s, i + 1, i + n)
           d == SubSeq(s, (i + n) + 1, z)
           x == SubSeq(r, n + 1, Len(r))
<1>5. i + n \in 0..z /\ n \in 0..Len(r)
  <2> HIDE DEF z
  <2> QED BY ONLY <1>1, <1>2, <1>3
<1>6. /\ SubSeq(r, 1, n) = m /\ x \o t = e
      /\ SubSeq(r, 1, length_field) = SubSeq(m, 1, length_field)
  <2>1. length_field \in 0..Len(m) /\ length_field <= Len(r)
    BY ONLY <1>1, <1>2, <1>3
  <2>2. r \in Seq(S) /\ m \in Seq(S) /\ r \o t = m \o e /\ Len(m) <= Len(r)
    BY ONLY <1>1, <1>2, <1>3
  <2>3. /\ SubSeq(r, 1, Len(m)) = m /\ SubSeq(r, Len(m) + 1, Len(r)) \o t = e
        /\ SubSeq(r, 1, length_field) = SubSeq(m, 1, length_field)
    BY ONLY <2>1, <2>2, t \in Seq(S), e \in Seq(S), SameBytes, ZenonT(40)
  <2> QED BY ONLY <1>3, <2>3
<1>7. read_msg_size(r) = n
  <2>1. ~(Len(r) < length_field)
    BY ONLY <1>1, <1>2, <1>3
  <2> QED BY ONLY <1>2, <1>6, <2>1 DEF read_msg_size, Framed
<1>8. c = m
  <2> DEFINE y == SubSeq(r, 1, n)
  <2>1. y \in Seq(S) /\ Len(y) = n /\ \A j \in 1..n : y[j] = r[j]
    BY ONLY <1>1, <1>5, Parts
  <2>2. /\ c \in Seq(S)
        /\ Len(c) = (IF i + 1 <= i + n THEN (i + n) - (i + 1) + 1 ELSE 0)
        /\ \A j \in 1..((i + n) - (i + 1) + 1) : c[j] = s[(i + 1) + j - 1]
    <3>1. i + 1 \in Int /\ i + n \in Int /\ \A j \in (i + 1)..(i + n) : s[j] \in S
      <4>1. \A j \in 1..z : s[j] \in S
        BY ElementOfSeq
      <4> HIDE DEF z
      <4> QED BY ONLY <1>1, <1>2, <1>5, <4>1
    <3> QED BY <3>1, SubSeqProperties
  <2> HIDE DEF c, y
  <2>3. Len(c) = n /\ (i + n) - (i + 1) + 1 = n
    BY ONLY <1>1, <1>2, <2>2
  <2>4. ASSUME NEW j \in 1..n PROVE c[j] = y[j]
    <3>1. (i + 1) + j - 1 = i + j /\ j \in 1..(z - i)
      <4> HIDE DEF z
      <4> QED BY ONLY <1>1, <1>2, <1>3, j \in 1..n
    <3>2. c[j] = s[i + j]
      BY ONLY <2>2, <2>3, <3>1, j \in 1..n
    <3> HIDE DEF z
    <3> QED BY ONLY <1>1, <2>1, <3>1, <3>2, j \in 1..n
  <2>5. c = y
    BY ONLY <2>1, <2>2, <2>3, <2>4, SeqEqual
  <2> QED BY <1>6, <2>5 DEF y
<1>9. d = x
  <2>1. /\ x \in Seq(S) /\ Len(x) = Len(r) - n
        /\ \A j \in 1..(Len(r) - n) : x[j] = r[n + j]
    BY ONLY <1>1, <1>5, Parts
  <2>2. /\ d \in Seq(S) /\ Len(d) = z - (i + n)
        /\ \A j \in 1..(z - (i + n)) : d[j] = s[(i + n) + j]
    BY ONLY s \in Seq(S), <1>5, Parts
  <2> HIDE DEF d, x, z
  <2>3. Len(d) = Len(x) /\ Len(x) = z - (i + n)
    BY ONLY <1>1, <1>2, <2>1, <2>2
  <2>4. ASSUME NEW j \in 1..Len(x) PROVE d[j] = x[j]
    <3>1. /\ j \in 1..(z - (i + n)) /\ j \in 1..(Len(r) - n)
          /\ n + j \in 1..(z - i) /\ i + (n + j) = (i + n) + j
      BY ONLY <1>1, <1>2, <1>5, <2>1, <2>3, j \in 1..Len(x)
    <3> QED BY ONLY <1>1, <2>1, <2>2, <3>1
  <2> QED BY ONLY <2>1, <2>2, <2>3, <2>4, SeqEqual
<1> HIDE DEF c, d, x, z
<1>10. Piece(f, s, i) = Before(m, f[i + n])
  <2>1. n \in 1..Len(r)
    BY ONLY <1>1, <1>2, <1>3
  <2>2. <<SubSeq(s, i + 1, i + read_msg_size(r))>> = <<m>>
    BY ONLY <1>7, <1>8 DEF c
  <2> QED BY ONLY <1>4, <1>7, <2>1, <2>2 DEF Before
<1>11. Left(s, t, i + n, e)
  <2>1. d \o t = e
    BY ONLY <1>6, <1>9
  <2> QED BY ONLY <2>1 DEF d, z, Left
<1> QED BY ONLY <1>5, <1>10, <1>11 DEF z

(***************************************************************************)
(* Whatever part of the messages has been read is cut as it was written,   *)
(* by induction over the number of messages.                               *)
(***************************************************************************)
LEMMA CutRestores ==
  ASSUME NEW S, NEW s \in Seq(S), NEW t \in Seq(S),
         NEW p \in Seq(FramedOver(S)), s \o t = FlattenSeq(p)
  PROVE  Restored(handle_new_condition(s), p, t, S)
<1>1. PICK f : CutBy(f, s, 0) /\ handle_new_condition(s) = f[0]
  BY ONLY s \in Seq(S), HandleCuts
<1> DEFINE z == Len(s)
           Rest(i) == SubSeq(s, i + 1, z)
           Q == Seq(FramedOver(S))
           T == {n \in Nat : \A q \in Q : \A i \in 0..z :
                   Len(q) = n /\ Rest(i) \o t = FlattenSeq(q) => Restored(f[i], q, t, S)}
<1>2. z \in Nat /\ \A i \in 0..z : f[i] = Piece(f, s, i)
  <2>1. f = [i \in 0..Len(s) |-> Piece(f, s, i)]
    BY ONLY <1>1 DEF CutBy
  <2>2. z \in Nat
    BY ONLY s \in Seq(S), LenProperties
  <2> QED BY ONLY <2>1, <2>2
<1>3. \A i \in 0..z : Rest(i) \in Seq(S) /\ Len(Rest(i)) \in Nat
  BY ONLY s \in Seq(S), Parts, LenProperties
<1>e. /\ <<>> \in Q /\ <<>> \in Seq(S) /\ FlattenSeq(<<>>) = <<>>
      /\ \A q \in Q : <<>> \o q = q
  <2>1. FlattenSeq(<<>>) = <<>>
    BY DEF FlattenSeq
  <2>2. <<>> \in Q /\ <<>> \in Seq(S)
    BY ONLY EmptySeq
  <2>3. \A q \in Q : <<>> \o q = q
    BY ONLY ConcatEmptySeq
  <2> QED BY ONLY <2>1, <2>2, <2>3
<1>a. \A x, y, w \in Q : (x \o y) \o w = x \o (y \o w)
  BY ONLY ConcatAssociative, SMTT(30)
\* Nothing is cut off: what is left is less than the first of the messages.
<1>4. ASSUME NEW q \in Q, NEW x, NEW r \in Seq(S), x = [whole |-> <<>>, rest |-> r],
             r \o t = FlattenSeq(q),
             r # <<>> => q # <<>> /\ Len(r) < Len(q[1])
      PROVE  Restored(x, q, t, S)
  <2> DEFINE u == <<>>
  <2>1. u \in Q /\ u \o q = q /\ x.whole = u /\ x.rest = r
    BY ONLY <1>4, <1>e, q \in Q
  <2> HIDE DEF u
  <2>2. q \in Q /\ r \in Seq(S)
    OBVIOUS
  <2> QED BY ONLY <1>4, <2>1, <2>2 DEF Restored
<1>5. 0 \in T
  <2> SUFFICES ASSUME NEW q \in Q, NEW i \in 0..z, Len(q) = 0,
                      Rest(i) \o t = FlattenSeq(q)
               PROVE  Restored(f[i], q, t, S)
    OBVIOUS
  <2> DEFINE r == Rest(i)
             a == r \o t
  <2>1. q = <<>> /\ FlattenSeq(q) = <<>>
    BY <1>e, EmptySeq
  <2>2. r \in Seq(S) /\ Len(r) \in Nat
    BY ONLY <1>3, i \in 0..z
  <2> HIDE DEF r
  <2>3. Len(a) = Len(r) + Len(t) /\ Len(t) \in Nat
    BY ONLY <2>2, t \in Seq(S), Glued
  <2>4. a = <<>>
    BY <2>1 DEF r
  <2> HIDE DEF a
  <2>5. Len(r) = 0
    BY ONLY <2>2, <2>3, <2>4
  <2>6. r = <<>>
    BY ONLY <2>2, <2>5, EmptySeq
  <2>7. f[i] = [whole |-> <<>>, rest |-> r]
    <3>1. Piece(f, s, i) = [whole |-> <<>>, rest |-> Rest(i)]
      <4>1. ~(read_msg_size(Rest(i)) \in 1..Len(Rest(i)))
        <5>1. Len(Rest(i)) = 0
          BY ONLY <2>5 DEF r
        <5> QED BY ONLY <5>1
      <4> QED BY ONLY <4>1 DEF Piece
    <3> QED BY <1>2, <3>1 DEF r
  <2>8. r \o t = FlattenSeq(q)
    BY DEF r
  <2> QED BY ONLY <1>4, <2>2, <2>6, <2>7, <2>8, q \in Q
<1>6. ASSUME NEW n \in T PROVE n + 1 \in T
  <2>n. n \in Nat /\ n + 1 \in Nat
    OBVIOUS
  <2> SUFFICES ASSUME NEW q \in Q, NEW i \in 0..z, Len(q) = n + 1,
                      Rest(i) \o t = FlattenSeq(q)
               PROVE  Restored(f[i], q, t, S)
    <3> HIDE DEF Rest, z, Q
    <3> QED BY <2>n
  <2>h. \A q1 \in Q : \A k \in 0..z :
          Len(q1) = n /\ Rest(k) \o t = FlattenSeq(q1) => Restored(f[k], q1, t, S)
    <3> HIDE DEF Rest, z, Q
    <3> QED OBVIOUS
  <2> HIDE DEF T
  <2> DEFINE r == Rest(i)
             m == q[1]
             p1 == Tail(q)
             e == FlattenSeq(p1)
  <2>0. n \in Nat
    BY ONLY <2>n
  <2>1. q # <<>>
    <3>1. Len(q) # 0
      BY <2>0
    <3> QED BY ONLY <3>1, q \in Q, EmptySeq
  <2>2. /\ m \in FramedOver(S) /\ p1 \in Q /\ Len(p1) = n /\ q = <<m>> \o p1
        /\ m \in Seq(S)
    <3>1. /\ m \in FramedOver(S) /\ p1 \in Q /\ Len(p1) = Len(q) - 1
          /\ q = <<m>> \o p1
      BY ONLY <2>1, q \in Q, FirstAndRest
    <3>2. Len(p1) = n
      BY ONLY <3>1, <2>0, Len(q) = n + 1
    <3> QED BY ONLY <3>1, <3>2 DEF FramedOver
  <2>3. e \in Seq(S) /\ FlattenSeq(q) = m \o e
    <3>1. q \in Seq(Seq(S)) /\ p1 \in Seq(Seq(S))
      BY ONLY <2>2, q \in Q, FramedSeq
    <3>2. FlattenSeq(q) = m \o e
      BY ONLY <2>1, <3>1, FlattenFirst
    <3>3. e \in Seq(S)
      BY ONLY <3>1, <2>2, FlattenAppend
    <3> QED BY ONLY <3>2, <3>3
  <2>4. r \in Seq(S) /\ Len(r) \in Nat /\ Len(m) \in Nat
    BY ONLY <1>3, <2>2, i \in 0..z, LenProperties
  <2>5. r \o t = m \o e
    BY <2>3
  <2>6. CASE Len(r) < Len(m)
    <3> HIDE DEF m, e
    <3>1. Piece(f, s, i) = [whole |-> <<>>, rest |-> r]
      BY ONLY <2>2, <2>3, <2>5, <2>6, s \in Seq(S), t \in Seq(S), i \in 0..z,
              PieceOfLess
    <3>2. f[i] = [whole |-> <<>>, rest |-> r]
      BY ONLY <1>2, <3>1, i \in 0..z
    <3>3. r \o t = FlattenSeq(q)
      OBVIOUS
    <3> HIDE DEF r
    <3> QED BY ONLY <1>4, <2>1, <2>4, <2>6, <3>2, <3>3, q \in Q DEF m
  <2>7. CASE Len(m) <= Len(r)
    <3> DEFINE j == i + Len(m)
    <3>1. /\ j \in 0..z
          /\ Piece(f, s, i) = Before(m, f[j])
          /\ Rest(j) \o t = e
      <4> HIDE DEF m, e
      <4> DEFINE k == Len(m)
      <4>1. m \in FramedOver(S) /\ e \in Seq(S) /\ k \in Nat /\ There(s, t, i, m, e, k)
        BY ONLY <2>2, <2>3, <2>4, <2>5, <2>7 DEF There, Left
      <4> HIDE DEF k
      <4>2. i \in 0..Len(s)
        BY ONLY i \in 0..z
      <4>3. /\ i + k \in 0..Len(s)
            /\ Piece(f, s, i) = Before(m, f[i + k])
            /\ Left(s, t, i + k, e)
        BY ONLY <4>1, <4>2, s \in Seq(S), t \in Seq(S), PieceOfMore
      <4> QED BY <4>3 DEF k, Left
    <3>2. Restored(f[j], p1, t, S)
      <4> HIDE DEF p1, j, Rest, z, Q
      <4> QED BY ONLY <2>2, <2>h, <3>1
    <3>3. PICK u \in Q, v \in Q :
            /\ p1 = u \o v /\ f[j].whole = u
            /\ f[j].rest \in Seq(S) /\ f[j].rest \o t = FlattenSeq(v)
            /\ f[j].rest # <<>> => v # <<>> /\ Len(f[j].rest) < Len(v[1])
      BY ONLY <3>2 DEF Restored
    <3> DEFINE a == <<m>>
               w == a \o u
    <3>4. a \in Q
      BY ONLY <2>2
    <3>5. q = a \o p1 /\ f[i].whole = w /\ f[i].rest = f[j].rest
      <4> HIDE DEF m, p1, j, z
      <4> DEFINE x == f[i]
      <4>1. x = [whole |-> a \o f[j].whole, rest |-> f[j].rest]
        BY ONLY <1>2, <3>1, i \in 0..z DEF Before
      <4> HIDE DEF x, a
      <4>2. x.whole = a \o f[j].whole /\ x.rest = f[j].rest
        BY ONLY <4>1
      <4>3. x.whole = a \o u
        BY ONLY <3>3, <4>2
      <4>4. q = a \o p1
        BY ONLY <2>2 DEF a
      <4> QED BY ONLY <4>2, <4>3, <4>4 DEF x
    <3> HIDE DEF a
    <3>6. w \in Q /\ w \o v = q
      <4>1. w \in Q
        BY ONLY <3>4, u \in Q, ConcatProperties
      <4>2. (a \o u) \o v = a \o (u \o v)
        BY ONLY <1>a, <3>4, u \in Q, v \in Q, Zenon
      <4> QED BY ONLY <3>3, <3>5, <4>1, <4>2
    <3> HIDE DEF w
    <3> QED BY ONLY <3>3, <3>5, <3>6, v \in Q DEF Restored
  <2> QED BY ONLY <2>4, <2>6, <2>7
<1>7. T = Nat
  <2>1. T \in SUBSET Nat
    OBVIOUS
  <2> HIDE DEF T
  <2> QED BY ONLY <1>5, <1>6, <2>1, SetInduction
<1>8. Rest(0) = s /\ 0 \in 0..z
  <2>1. SubSeq(s, 1, Len(s)) = s /\ 0 + 1 = 1
    BY ONLY s \in Seq(S), SubSeqFull
  <2> QED BY <1>2, <2>1
<1>9. Len(p) \in Nat
  BY LenProperties
<1> HIDE DEF Rest, z
<1>10. Restored(f[0], p, t, S)
  BY <1>7, <1>8, <1>9
<1> QED BY ONLY <1>1, <1>10

-----------------------------------------------------------------------------
(***************************************************************************)
(* Framing with witnesses: of the messages b that were written those in d  *)
(* have been taken, k in number, then come those in the lexer, and then    *)
(* those in w, of which the bytes in inc have been read and those in net   *)
(* have not.                                                               *)
(***************************************************************************)
Order(b, k, ms, inc, net, S) ==
  \E d, w \in Seq(FramedOver(S)) :
    /\ b = d \o (ms \o w) /\ k = Len(d) /\ ms \in Seq(FramedOver(S))
    /\ inc \in Seq(S) /\ net \in Seq(S) /\ inc \o net = FlattenSeq(w)
    /\ inc # <<>> => w # <<>> /\ Len(inc) < Len(w[1])

Regroups(x, y, z) == (x \o y) \o z = x \o (y \o z)

LEMMA OrderInit ==
  ASSUME NEW S
  PROVE  Order(<<>>, 0, <<>>, <<>>, <<>>, S)
<1> DEFINE e == <<>>
<1>1. e \in Seq(FramedOver(S)) /\ e \in Seq(S) /\ Len(e) = 0
  OBVIOUS
<1>2. FlattenSeq(e) = e
  BY DEF FlattenSeq
<1>3. \A T : \A x \in Seq(T) : x \o <<>> = x
  BY ONLY ConcatEmptySeq
<1>4. e \o e = e
  BY ONLY <1>1, <1>3
<1> HIDE DEF e
<1>5. Order(e, 0, e, e, e, S)
  <2>1. /\ e = e \o (e \o e) /\ 0 = Len(e) /\ e \o e = FlattenSeq(e)
        /\ e # <<>> => e # <<>> /\ Len(e) < Len(e[1])
    BY ONLY <1>1, <1>2, <1>4 DEF e
  <2> QED BY ONLY <1>1, <2>1 DEF Order
<1> QED BY <1>5 DEF e

LEMMA OrderWrite ==
  ASSUME NEW S, NEW b, NEW k, NEW ms, NEW inc, NEW net,
         Order(b, k, ms, inc, net, S), NEW m \in FramedOver(S)
  PROVE  Order(Append(b, m), k, ms, inc, net \o m, S)
<1> DEFINE F == FramedOver(S)
<1>1. PICK d \in Seq(F), w \in Seq(F) :
        /\ b = d \o (ms \o w) /\ k = Len(d) /\ ms \in Seq(F)
        /\ inc \in Seq(S) /\ net \in Seq(S) /\ inc \o net = FlattenSeq(w)
        /\ inc # <<>> => w # <<>> /\ Len(inc) < Len(w[1])
  BY ONLY Order(b, k, ms, inc, net, S) DEF Order
<1>2. m \in F /\ m \in Seq(S)
  BY DEF FramedOver
<1>3. w \in Seq(Seq(S))
  BY ONLY w \in Seq(F), FramedSeq
<1> HIDE DEF F
<1> DEFINE a == <<m>>
           v == Append(w, m)
           n1 == net \o m
<1>4. a \in Seq(F) /\ v \in Seq(F)
  BY ONLY <1>2, w \in Seq(F)
<1>5. FlattenSeq(v) = FlattenSeq(w) \o m
  BY ONLY <1>2, <1>3, FlattenAppend
<1>6. inc \o n1 = FlattenSeq(v) /\ n1 \in Seq(S)
  <2>0. inc \in Seq(S) /\ net \in Seq(S) /\ m \in Seq(S)
    BY ONLY <1>1, <1>2
  <2>1. (inc \o net) \o m = inc \o (net \o m)
    BY ONLY <2>0, ConcatAssociative, SMTT(30)
  <2>2. n1 \in Seq(S)
    BY ONLY <1>1, <1>2, ConcatProperties
  <2> QED BY ONLY <1>1, <1>5, <2>1, <2>2
<1>7. Append(b, m) = d \o (ms \o v)
  <2>1. \A x \in Seq(F) : Append(x, m) = x \o a
    BY ONLY <1>2, AppendIsConcat
  <2>2. \A x, y \in Seq(F) : x \o y \in Seq(F)
    BY ONLY ConcatProperties
  <2>3. ms \in Seq(F) /\ w \in Seq(F) /\ a \in Seq(F) /\ d \in Seq(F)
    BY ONLY <1>1, <1>4, w \in Seq(F), d \in Seq(F)
  <2> HIDE DEF a, v
  <2> DEFINE g == ms \o w
  <2>4. g \in Seq(F) /\ g \o a = ms \o (w \o a)
    <3>1. (ms \o w) \o a = ms \o (w \o a)
      BY ONLY <2>3, ConcatAssociative
    <3> QED BY ONLY <2>2, <2>3, <3>1
  <2>5. v = w \o a
    BY ONLY <2>1, w \in Seq(F) DEF v
  <2>6. b = d \o g
    BY ONLY <1>1
  <2> HIDE DEF g
  <2>7. b \in Seq(F) /\ (d \o g) \o a = d \o (g \o a)
    <3>1. g \in Seq(F)
      BY ONLY <2>4
    <3>2. (d \o g) \o a = d \o (g \o a)
      BY ONLY <2>3, <3>1, ConcatAssociative, SMTT(30)
    <3> QED BY ONLY <2>2, <2>3, <2>6, <3>1, <3>2
  <2>8. Append(b, m) = b \o a
    BY ONLY <2>1, <2>7
  <2> QED BY ONLY <2>4, <2>5, <2>6, <2>7, <2>8
<1>8. inc # <<>> => v # <<>> /\ Len(inc) < Len(v[1])
  <2>1. v # <<>> /\ (w # <<>> => v[1] = w[1])
    <3>1. Len(w) \in Nat /\ (w # <<>> => Len(w) # 0)
      BY ONLY w \in Seq(F), EmptySeq, LenProperties
    <3>2. Len(v) = Len(w) + 1 /\ \A i \in 1..Len(w) : v[i] = w[i]
      BY ONLY <1>2, w \in Seq(F), AppendProperties
    <3>3. v # <<>>
      <4>1. Len(v) # 0
        BY ONLY <3>1, <3>2
      <4> QED BY ONLY <1>4, <4>1, EmptySeq
    <3>4. ASSUME w # <<>> PROVE v[1] = w[1]
      <4>1. 1 \in 1..Len(w)
        BY ONLY <3>1, <3>4
      <4> QED BY ONLY <3>2, <4>1
    <3> HIDE DEF v
    <3> QED BY ONLY <3>3, <3>4
  <2> HIDE DEF v
  <2> QED BY ONLY <1>1, <2>1
<1> HIDE DEF v, n1
<1>9. Order(Append(b, m), k, ms, inc, n1, S)
  BY ONLY <1>1, <1>4, <1>6, <1>7, <1>8, d \in Seq(F) DEF Order, F
<1> QED BY <1>9 DEF n1

(***************************************************************************)
(* A read of the first j bytes of the network, after which the first n of  *)
(* the whole messages are taken.                                           *)
(***************************************************************************)
\* all is the part of b behind the first k.
Follows(all, b, k) == \A i \in 1..Len(all) : all[i] = b[k + i]

LEMMA OrderRead ==
  ASSUME NEW S, NEW b, NEW k, NEW ms, NEW inc, NEW net,
         Order(b, k, ms, inc, net, S), NEW j \in 0..Len(net),
         NEW x, x = handle_new_condition(inc \o SubSeq(net, 1, j)),
         NEW all, all = ms \o x.whole
  PROVE  /\ all \in Seq(FramedOver(S)) /\ b \in Seq(FramedOver(S))
         /\ k \in Nat /\ k + Len(all) <= Len(b)
         /\ Follows(all, b, k)
         /\ \A n \in 0..Len(all) :
              Order(b, k + n, SubSeq(all, n + 1, Len(all)), x.rest,
                    SubSeq(net, j + 1, Len(net)), S)
<1> DEFINE F == FramedOver(S)
<1>a. \A y1, y2, y3 \in Seq(F) : Regroups(y1, y2, y3)
  BY ONLY ConcatAssociative, SMTT(30) DEF Regroups
<1>1. PICK d \in Seq(F), w \in Seq(F) :
        /\ b = d \o (ms \o w) /\ k = Len(d) /\ ms \in Seq(F)
        /\ inc \in Seq(S) /\ net \in Seq(S) /\ inc \o net = FlattenSeq(w)
        /\ inc # <<>> => w # <<>> /\ Len(inc) < Len(w[1])
  BY ONLY Order(b, k, ms, inc, net, S) DEF Order
<1> DEFINE g == SubSeq(net, 1, j)
           t == SubSeq(net, j + 1, Len(net))
           s == inc \o g
<1>2. g \in Seq(S) /\ t \in Seq(S) /\ g \o t = net
  BY ONLY <1>1, j \in 0..Len(net), Parts
<1> HIDE DEF g, t
<1>3. s \in Seq(S) /\ s \o t = FlattenSeq(w)
  <2>1. s \in Seq(S)
    BY ONLY <1>1, <1>2, ConcatProperties
  <2>0. inc \in Seq(S) /\ g \in Seq(S) /\ t \in Seq(S)
    BY ONLY <1>1, <1>2
  <2>2. (inc \o g) \o t = inc \o (g \o t)
    BY ONLY <2>0, ConcatAssociative, SMTT(30)
  <2> QED BY ONLY <1>1, <1>2, <2>1, <2>2
<1>4. x = handle_new_condition(s)
  BY ONLY x = handle_new_condition(inc \o SubSeq(net, 1, j)) DEF g
<1> HIDE DEF s
<1>5. Restored(x, w, t, S)
  BY ONLY <1>2, <1>3, <1>4, w \in Seq(F), CutRestores
<1>6. PICK u \in Seq(F), v \in Seq(F) :
        /\ w = u \o v /\ x.whole = u
        /\ x.rest \in Seq(S) /\ x.rest \o t = FlattenSeq(v)
        /\ x.rest # <<>> => v # <<>> /\ Len(x.rest) < Len(v[1])
  BY ONLY <1>5 DEF Restored
<1>c. \A y, z \in Seq(F) : y \o z \in Seq(F)
  BY ONLY ConcatProperties
<1>0. d \in Seq(F) /\ w \in Seq(F) /\ u \in Seq(F) /\ v \in Seq(F) /\ ms \in Seq(F)
  BY ONLY <1>1, d \in Seq(F), w \in Seq(F), u \in Seq(F), v \in Seq(F)
<1> HIDE DEF F
<1>7. all = ms \o u
  BY ONLY <1>6, all = ms \o x.whole
<1>8. all \in Seq(F) /\ b = d \o (all \o v)
  <2>1. all \in Seq(F)
    BY ONLY <1>0, <1>7, <1>c
  <2>2. (ms \o u) \o v = ms \o (u \o v)
    <3>1. Regroups(ms, u, v)
      BY ONLY <1>0, <1>a
    <3> QED BY ONLY <3>1 DEF Regroups
  <2> QED BY ONLY <1>1, <1>6, <1>7, <2>1, <2>2
<1> DEFINE av == all \o v
<1>9. /\ av \in Seq(F) /\ Len(av) = Len(all) + Len(v) /\ Len(all) \in Nat
      /\ Len(v) \in Nat /\ \A i \in 1..Len(all) : av[i] = all[i]
  BY ONLY <1>0, <1>8, Glued
<1>10. b = d \o av
  BY ONLY <1>8
<1> HIDE DEF av
<1>11. /\ b \in Seq(F) /\ Len(b) = Len(d) + Len(av) /\ Len(d) \in Nat
       /\ \A i \in 1..Len(av) : b[Len(d) + i] = av[i]
  <2>1. d \in Seq(F) /\ av \in Seq(F)
    BY ONLY <1>0, <1>9
  <2> DEFINE bb == d \o av
  <2>2. /\ bb \in Seq(F) /\ Len(bb) = Len(d) + Len(av) /\ Len(d) \in Nat
        /\ \A i \in 1..Len(av) : bb[Len(d) + i] = av[i]
    BY ONLY <2>1, Glued
  <2> HIDE DEF bb
  <2>3. b = bb
    BY ONLY <1>10 DEF bb
  <2> QED BY ONLY <2>2, <2>3
<1>12. k \in Nat /\ k + Len(all) <= Len(b)
  BY ONLY <1>1, <1>9, <1>11
<1>13. ASSUME NEW i \in 1..Len(all) PROVE all[i] = b[k + i]
  <2>1. i \in 1..Len(av)
    BY ONLY <1>9, i \in 1..Len(all)
  <2>2. av[i] = all[i] /\ b[Len(d) + i] = av[i]
    BY ONLY <1>9, <1>11, <2>1, i \in 1..Len(all)
  <2>3. k = Len(d)
    BY ONLY <1>1
  <2> QED BY ONLY <2>2, <2>3
<1>14. ASSUME NEW n \in 0..Len(all)
       PROVE  Order(b, k + n, SubSeq(all, n + 1, Len(all)), x.rest, t, S)
  <2> DEFINE y == SubSeq(all, 1, n)
             z == SubSeq(all, n + 1, Len(all))
             dy == d \o y
  <2>1. y \in Seq(F) /\ z \in Seq(F) /\ Len(y) = n /\ y \o z = all
    BY ONLY <1>8, n \in 0..Len(all), Parts
  <2> HIDE DEF y, z
  <2>2. dy \in Seq(F) /\ Len(dy) = k + n
    <3>1. dy \in Seq(F) /\ Len(dy) = Len(d) + Len(y)
      BY ONLY <1>0, <2>1, Glued
    <3> QED BY ONLY <1>1, <2>1, <3>1
  <2>3. b = dy \o (z \o v)
    <3>0. d \in Seq(F) /\ y \in Seq(F) /\ z \in Seq(F) /\ v \in Seq(F)
      BY ONLY <1>0, <2>1
    <3>2. (y \o z) \o v = y \o (z \o v)
      <4>1. Regroups(y, z, v)
        BY ONLY <1>a, <3>0
      <4> QED BY ONLY <4>1 DEF Regroups
    <3> DEFINE zv == z \o v
    <3>1. zv \in Seq(F)
      BY ONLY <1>0, <1>c, <2>1
    <3> HIDE DEF zv
    <3>3. (d \o y) \o zv = d \o (y \o zv)
      <4>1. Regroups(d, y, zv)
        BY ONLY <1>a, <3>0, <3>1
      <4> QED BY ONLY <4>1 DEF Regroups
    <3>4. b = dy \o zv
      BY ONLY <1>8, <2>1, <3>2, <3>3 DEF zv
    <3> QED BY ONLY <3>4 DEF zv
  <2> HIDE DEF dy
  <2>4. Order(b, k + n, z, x.rest, t, S)
    BY ONLY <1>0, <1>2, <1>6, <2>1, <2>2, <2>3 DEF Order, F
  <2> QED BY ONLY <2>4 DEF z
<1> QED BY ONLY <1>8, <1>11, <1>12, <1>13, <1>14 DEF F, t, Follows

LEMMA OrderFraming ==
  ASSUME NEW S, Order(built, taken, msgs, incomplete, network, S)
  PROVE  Framing
<1> DEFINE F == FramedOver(S)
<1>1. PICK d \in Seq(F), w \in Seq(F) :
        /\ built = d \o (msgs \o w) /\ taken = Len(d) /\ msgs \in Seq(F)
        /\ incomplete \in Seq(S) /\ network \in Seq(S)
        /\ incomplete \o network = FlattenSeq(w)
        /\ incomplete # <<>> => w # <<>> /\ Len(incomplete) < Len(w[1])
  BY DEF Order
<1>0. d \in Seq(F) /\ w \in Seq(F) /\ msgs \in Seq(F)
  BY ONLY <1>1, d \in Seq(F), w \in Seq(F)
<1> HIDE DEF F
<1> DEFINE a == d \o msgs
           cut == taken + Len(msgs)
<1>2. /\ a \in Seq(F) /\ Len(a) = cut /\ cut \in Nat /\ taken \in 0..Len(a)
      /\ \A i \in 1..Len(msgs) : a[taken + i] = msgs[i]
      /\ Len(msgs) \in Nat /\ Len(msgs) = Len(a) - taken /\ taken \in Nat
  <2>1. /\ a \in Seq(F) /\ Len(a) = Len(d) + Len(msgs)
        /\ Len(d) \in Nat /\ Len(msgs) \in Nat
        /\ \A i \in 1..Len(msgs) : a[Len(d) + i] = msgs[i]
    BY ONLY <1>0, Glued
  <2> HIDE DEF a
  <2>2. taken = Len(d)
    BY ONLY <1>1
  <2> QED BY ONLY <2>1, <2>2
<1>3. built = a \o w
  <2>1. (d \o msgs) \o w = d \o (msgs \o w)
    BY ONLY <1>0, ConcatAssociative
  <2> QED BY ONLY <1>1, <2>1
<1> HIDE DEF a
<1>4. /\ built \in Seq(F) /\ Len(built) = cut + Len(w) /\ Len(w) \in Nat
      /\ \A i \in 1..cut : built[i] = a[i]
      /\ \A i \in 1..Len(w) : built[cut + i] = w[i]
  <2>1. /\ built \in Seq(F) /\ Len(built) = Len(a) + Len(w) /\ Len(w) \in Nat
        /\ \A i \in 1..Len(a) : built[i] = a[i]
        /\ \A i \in 1..Len(w) : built[Len(a) + i] = w[i]
    <3>1. a \in Seq(F) /\ w \in Seq(F)
      BY ONLY <1>0, <1>2
    <3> DEFINE bb == a \o w
    <3>2. /\ bb \in Seq(F) /\ Len(bb) = Len(a) + Len(w) /\ Len(w) \in Nat
          /\ \A i \in 1..Len(a) : bb[i] = a[i]
          /\ \A i \in 1..Len(w) : bb[Len(a) + i] = w[i]
      BY ONLY <3>1, Glued
    <3> HIDE DEF bb
    <3>3. built = bb
      BY ONLY <1>3 DEF bb
    <3> QED BY ONLY <3>2, <3>3
  <2>2. Len(a) = cut
    BY ONLY <1>2
  <2> HIDE DEF cut
  <2> QED BY ONLY <2>1, <2>2
<1> HIDE DEF cut
<1>5. cut \in 0..Len(built) /\ cut <= Len(built)
  BY ONLY <1>2, <1>4
<1>6. SubSeq(built, cut + 1, Len(built)) = w
  <2> DEFINE x == SubSeq(built, cut + 1, Len(built))
  <2>1. /\ x \in Seq(F) /\ Len(x) = Len(built) - cut
        /\ \A i \in 1..(Len(built) - cut) : x[i] = built[cut + i]
    BY ONLY <1>4, <1>5, Parts
  <2> HIDE DEF x
  <2>2. Len(built) - cut = Len(w)
    BY ONLY <1>2, <1>4
  <2>3. \A i \in 1..Len(w) : x[i] = w[i]
    BY ONLY <1>4, <2>1, <2>2
  <2>4. x = w
    BY ONLY <1>0, <2>1, <2>2, <2>3, SeqEqual
  <2> QED BY <2>4 DEF x
<1>7. msgs = SubSeq(built, taken + 1, cut)
  <2> DEFINE x == SubSeq(built, taken + 1, cut)
  <2>1. /\ x \in Seq(F)
        /\ Len(x) = (IF taken + 1 <= cut THEN cut - (taken + 1) + 1 ELSE 0)
        /\ \A i \in 1..(cut - (taken + 1) + 1) : x[i] = built[(taken + 1) + i - 1]
    <3>1. \A i \in 1..Len(built) : built[i] \in F
      BY ONLY <1>4, ElementOfSeq
    <3>2. /\ taken + 1 \in Int /\ cut \in Int
          /\ \A i \in (taken + 1)..cut : built[i] \in F
      BY ONLY <1>2, <1>4, <1>5, <3>1
    <3> QED BY ONLY <3>2, SubSeqProperties
  <2> HIDE DEF x
  <2>2. Len(x) = Len(msgs) /\ cut - (taken + 1) + 1 = Len(msgs)
    BY ONLY <1>2, <2>1
  <2>3. ASSUME NEW i \in 1..Len(msgs) PROVE x[i] = msgs[i]
    <3>1. (taken + 1) + i - 1 = taken + i /\ taken + i \in 1..cut
      BY ONLY <1>2, i \in 1..Len(msgs)
    <3>2. x[i] = built[taken + i]
      BY ONLY <2>1, <2>2, <3>1, i \in 1..Len(msgs)
    <3> QED BY ONLY <1>2, <1>4, <3>1, <3>2, i \in 1..Len(msgs)
  <2>4. x = msgs
    BY ONLY <1>0, <2>1, <2>2, <2>3, SeqEqual
  <2> QED BY <2>4 DEF x
<1>8. incomplete # <<>> => Len(incomplete) < Len(built[cut + 1])
  <2> SUFFICES ASSUME incomplete # <<>>
               PROVE  Len(incomplete) < Len(built[cut + 1])
    OBVIOUS
  <2>1. w # <<>> /\ Len(incomplete) < Len(w[1])
    BY ONLY <1>1, incomplete # <<>>
  <2>2. 1 \in 1..Len(w)
    <3>1. Len(w) # 0
      BY ONLY <1>0, <2>1, EmptySeq
    <3> QED BY ONLY <1>4, <3>1
  <2> QED BY ONLY <1>4, <2>1, <2>2
<1>9. incomplete \o network = FlattenSeq(SubSeq(built, cut + 1, Len(built)))
  BY ONLY <1>1, <1>6
<1> QED BY ONLY <1>5, <1>7, <1>8, <1>9 DEF Framing, cut

-----------------------------------------------------------------------------
(***************************************************************************)
(* The lexer by itself.                                                    *)
(***************************************************************************)
Alphabet == UNION {ToSet(m) : m \in Messages}

LEMMA MessagesFramed == Messages \subseteq FramedOver(Alphabet)
<1> SUFFICES ASSUME NEW m \in Messages PROVE m \in FramedOver(Alphabet)
  OBVIOUS
<1>1. m \in Seq(ToSet(m)) /\ Framed(m)
  BY LexerAssumption
<1>2. ToSet(m) \subseteq Alphabet
  BY DEF Alphabet
<1> DEFINE A == Alphabet
           B == ToSet(m)
<1>3. m \in Seq(B) /\ B \subseteq A
  BY <1>1, <1>2
<1> HIDE DEF A, B
<1>4. m \in Seq(A)
  <2>1. Len(m) \in Nat /\ \A i \in 1..Len(m) : m[i] \in A
    BY <1>3, LenProperties, ElementOfSeq
  <2>2. m = [i \in 1..Len(m) |-> m[i]]
    BY <1>3, LenProperties
  <2> QED BY <2>1, <2>2, IsASeq
<1> QED BY <1>1, <1>4 DEF FramedOver, A

(***************************************************************************)
(* msg_lexer: whatever messages are written and in whatever parts they are *)
(* read, the lexer gives them back in the order they were written, each    *)
(* exactly once, and keeps back what is not yet a whole message.           *)
(***************************************************************************)
THEOREM LexerFraming == LexerSpec => []Framing
<1> DEFINE I == Order(built, taken, msgs, incomplete, network, Alphabet)
<1>1. LexerInit => I
  <2> SUFFICES ASSUME LexerInit PROVE I
    OBVIOUS
  <2>1. Order(<<>>, 0, <<>>, <<>>, <<>>, Alphabet)
    BY OrderInit
  <2> QED BY <2>1 DEF LexerInit
<1>2. I /\ [LexerNext]_lexer_vars => I'
  <2> SUFFICES ASSUME I, [LexerNext]_lexer_vars PROVE I'
    OBVIOUS
  <2>1. CASE UNCHANGED lexer_vars
    BY <2>1 DEF lexer_vars
  <2>2. ASSUME NEW m \in Messages, write(m) PROVE I'
    <3>1. m \in FramedOver(Alphabet)
      BY ONLY MessagesFramed, m \in Messages
    <3>2. Order(Append(built, m), taken, msgs, incomplete, network \o m, Alphabet)
      BY ONLY I, <3>1, OrderWrite
    <3> QED BY ONLY <2>2, <3>2 DEF write
  <2>3. ASSUME NEW k \in 1..Len(network), NEW n \in 0..Len(msgs \o add(k).whole),
               read(k, add(k), n)
        PROVE  I'
    <3> DEFINE x == add(k)
               all == msgs \o x.whole
    <3>1. network \in Seq(Alphabet)
      BY ONLY I DEF Order
    <3>2. k \in 0..Len(network)
      BY ONLY <3>1, k \in 1..Len(network), LenProperties
    <3>3. x = handle_new_condition(incomplete \o SubSeq(network, 1, k))
      BY ONLY TRUE DEF add
    <3>4. all = msgs \o x.whole /\ n \in 0..Len(all)
      BY ONLY n \in 0..Len(msgs \o add(k).whole)
    <3>5. /\ network' = SubSeq(network, k + 1, Len(network))
          /\ incomplete' = x.rest /\ msgs' = SubSeq(all, n + 1, Len(all))
          /\ taken' = taken + n /\ built' = built
      BY ONLY <2>3 DEF read
    <3> HIDE DEF x, all
    <3>6. \A i \in 0..Len(all) :
            Order(built, taken + i, SubSeq(all, i + 1, Len(all)), x.rest,
                  SubSeq(network, k + 1, Len(network)), Alphabet)
      BY ONLY I, <3>2, <3>3, <3>4, OrderRead
    <3>7. Order(built, taken + n, SubSeq(all, n + 1, Len(all)), x.rest,
                SubSeq(network, k + 1, Len(network)), Alphabet)
      BY ONLY <3>4, <3>6
    <3> QED BY ONLY <3>5, <3>7
  <2> QED BY <2>1, <2>2, <2>3 DEF LexerNext
<1>3. I => Framing
  BY OrderFraming
<1> QED BY <1>1, <1>2, <1>3, PTL DEF LexerSpec

-----------------------------------------------------------------------------
(***************************************************************************)
(* The bytes of a message.                                                 *)
(***************************************************************************)
LEMMA Behind ==
  ASSUME NEW S, NEW a \in Seq(S), NEW b \in Seq(S), NEW c, c = a \o b,
         NEW n \in Nat, Len(a) = n, NEW l \in Nat, Len(b) = l
  PROVE  /\ c \in Seq(S) /\ Len(c) = n + l
         /\ \A i \in 1..n : c[i] = a[i]
         /\ \A j \in 1..n : \A i \in 1..j : SubSeq(c, i, j) = SubSeq(a, i, j)
         /\ SubSeq(c, n + 1, n + l) = b
<1>1. /\ c \in Seq(S) /\ Len(c) = n + l
      /\ \A i \in 1..n : c[i] = a[i]
      /\ \A i \in 1..l : c[n + i] = b[i]
  <2> DEFINE x == a \o b
  <2>1. /\ x \in Seq(S) /\ Len(x) = Len(a) + Len(b)
        /\ \A i \in 1..Len(a) : x[i] = a[i]
        /\ \A i \in 1..Len(b) : x[Len(a) + i] = b[i]
    BY ONLY a \in Seq(S), b \in Seq(S), Glued
  <2>2. c = x
    OBVIOUS
  <2> HIDE DEF x
  <2> QED BY ONLY <2>1, <2>2, Len(a) = n, Len(b) = l
<1>2. ASSUME NEW j \in 1..n, NEW i \in 1..j
      PROVE  SubSeq(c, i, j) = SubSeq(a, i, j)
  <2> DEFINE x == SubSeq(c, i, j)
             y == SubSeq(a, i, j)
             k == j - i + 1
  <2>1. /\ i \in Int /\ j \in Int /\ i <= j /\ k \in Nat
        /\ \A e \in i..j : e \in 1..n
        /\ \A e \in 1..k : i + e - 1 \in 1..n
    BY ONLY n \in Nat, j \in 1..n, i \in 1..j
  <2>2. \A e \in 1..n : a[e] \in S /\ c[e] \in S
    BY ONLY <1>1, a \in Seq(S), Len(a) = n, ElementOfSeq
  <2>3. /\ x \in Seq(S) /\ Len(x) = (IF i <= j THEN j - i + 1 ELSE 0)
        /\ \A e \in 1..(j - i + 1) : x[e] = c[i + e - 1]
    <3>1. i \in Int /\ j \in Int /\ \A e \in i..j : c[e] \in S
      BY ONLY <2>1, <2>2
    <3> QED BY ONLY <3>1, SubSeqProperties
  <2>4. /\ y \in Seq(S) /\ Len(y) = (IF i <= j THEN j - i + 1 ELSE 0)
        /\ \A e \in 1..(j - i + 1) : y[e] = a[i + e - 1]
    <3>1. i \in Int /\ j \in Int /\ \A e \in i..j : a[e] \in S
      BY ONLY <2>1, <2>2
    <3> QED BY ONLY <3>1, SubSeqProperties
  <2> HIDE DEF x, y
  <2>5. Len(x) = k /\ Len(y) = k
    BY ONLY <2>1, <2>3, <2>4
  <2>6. \A e \in 1..k : x[e] = y[e]
    BY ONLY <1>1, <2>1, <2>3, <2>4
  <2>7. x = y
    BY ONLY <2>3, <2>4, <2>5, <2>6, SeqEqual
  <2> QED BY ONLY <2>7 DEF x, y
<1>3. SubSeq(c, n + 1, n + l) = b
  <2> DEFINE x == SubSeq(c, n + 1, Len(c))
  <2>1. n \in 0..Len(c) /\ Len(c) - n = l
    BY ONLY <1>1, n \in Nat, l \in Nat
  <2>2. /\ x \in Seq(S) /\ Len(x) = Len(c) - n
        /\ \A j \in 1..(Len(c) - n) : x[j] = c[n + j]
    BY ONLY <1>1, <2>1, Parts
  <2> HIDE DEF x
  <2>3. \A j \in 1..l : x[j] = b[j]
    BY ONLY <1>1, <2>1, <2>2
  <2>4. x = b
    BY ONLY <2>1, <2>2, <2>3, b \in Seq(S), Len(b) = l, SeqEqual
  <2> QED BY ONLY <1>1, <2>4 DEF x
<1> QED BY <1>1, <1>2, <1>3

Glues(S, a, b, c) ==
  /\ c \in Seq(S) /\ Len(c) = Len(a) + Len(b)
  /\ \A i \in 1..Len(a) : c[i] = a[i]
  /\ \A i \in 1..Len(b) : c[Len(a) + i] = b[i]
  /\ \A j \in 1..Len(a) : \A i \in 1..j : SubSeq(c, i, j) = SubSeq(a, i, j)
  /\ SubSeq(c, Len(a) + 1, Len(a) + Len(b)) = b

LEMMA Pieces ==
  ASSUME NEW S, NEW a \in Seq(S), NEW b \in Seq(S)
  PROVE  Glues(S, a, b, a \o b)
<1> DEFINE c == a \o b
           n == Len(a)
           l == Len(b)
<1>1. n \in Nat /\ l \in Nat
  BY LenProperties
<1>2. /\ c \in Seq(S) /\ Len(c) = n + l
      /\ \A i \in 1..n : c[i] = a[i]
      /\ \A j \in 1..n : \A i \in 1..j : SubSeq(c, i, j) = SubSeq(a, i, j)
      /\ SubSeq(c, n + 1, n + l) = b
  BY ONLY <1>1, a \in Seq(S), b \in Seq(S), Behind
<1>3. \A i \in 1..Len(b) : c[Len(a) + i] = b[i]
  BY ONLY a \in Seq(S), b \in Seq(S), Glued
<1> HIDE DEF c
<1>4. Glues(S, a, b, c)
  BY ONLY <1>2, <1>3 DEF Glues
<1> QED BY ONLY <1>4 DEF c

LEMMA MaxWord == max_word \in Nat /\ max_word < 256 * 256 /\ max_word > 100
BY DEF max_word

LEMMA WordBytes ==
  ASSUME NEW v \in 0..max_word
  PROVE  /\ Word(v) \in Seq(Byte) /\ Len(Word(v)) = 2
         /\ UWord(Word(v)) = v /\ Size(Word(v)) = 2 + v
<1>1. v \in Nat /\ v < 256 * 256
  BY ONLY MaxWord, v \in 0..max_word
<1> DEFINE h == (v \div 256) % 256
           l == v % 256
<1>2. h \in 0..255 /\ l \in 0..255 /\ h * 256 + l = v
  BY ONLY <1>1
<1>3. Word(v) = <<h, l>>
  BY DEF Word
<1> HIDE DEF h, l
<1>4. UWord(<<h, l>>) = h * 256 + l /\ <<h, l>> \in Byte \X Byte
  BY ONLY <1>2 DEF UWord, Byte
<1>5. Size(<<h, l>>) = HandshakeSize(<<h, l>>)
  BY ONLY <1>4, FormatAssumption DEF FormatAssumption
<1>6. HandshakeSize(<<h, l>>) = 2 + v
  BY ONLY <1>2, <1>4 DEF HandshakeSize
<1> QED BY ONLY <1>2, <1>3, <1>4, <1>5, <1>6 DEF Byte

(***************************************************************************)
(* A message, or the beginning of one: a length and a tag.                 *)
(***************************************************************************)
Starts(c, l, t) ==
  c \in Seq(Byte) /\ Len(c) >= 3 /\ SubSeq(c, 1, 2) = Word(l) /\ c[3] = t

Header(l, t) == Word(l) \o <<t>>

LEMMA HeaderStarts ==
  ASSUME NEW l \in 0..max_word, NEW t \in Byte
  PROVE  Starts(Header(l, t), l, t) /\ Len(Header(l, t)) = 3
<1> DEFINE a == Word(l)
           b == <<t>>
           c == a \o b
<1>1. a \in Seq(Byte) /\ Len(a) = 2
  BY ONLY WordBytes, l \in 0..max_word
<1>2. b \in Seq(Byte) /\ Len(b) = 1 /\ b[1] = t
  BY ONLY t \in Byte
<1> HIDE DEF a, b
<1>g. Glues(Byte, a, b, c)
  BY ONLY <1>1, <1>2, Pieces
<1> HIDE DEF c
<1>3. /\ c \in Seq(Byte) /\ Len(c) = 2 + 1
      /\ \A j \in 1..2 : \A i \in 1..j : SubSeq(c, i, j) = SubSeq(a, i, j)
  BY ONLY <1>1, <1>2, <1>g DEF Glues
<1>4. c[3] = t
  <2>1. \A i \in 1..Len(b) : c[Len(a) + i] = b[i]
    BY ONLY <1>g DEF Glues
  <2>2. 1 \in 1..Len(b) /\ Len(a) + 1 = 3
    BY ONLY <1>1, <1>2
  <2> QED BY ONLY <1>2, <2>1, <2>2
<1>5. SubSeq(c, 1, 2) = a
  <2>1. SubSeq(c, 1, 2) = SubSeq(a, 1, 2)
    BY ONLY <1>3
  <2>2. SubSeq(a, 1, Len(a)) = a
    BY ONLY <1>1, SubSeqFull
  <2> QED BY ONLY <1>1, <2>1, <2>2
<1> QED BY ONLY <1>3, <1>4, <1>5 DEF Starts, Header, a, b, c

LEMMA StartsOn ==
  ASSUME NEW a, NEW l, NEW t, Starts(a, l, t), NEW b \in Seq(Byte)
  PROVE  Starts(a \o b, l, t)
<1> DEFINE c == a \o b
           n == Len(a)
           k == Len(b)
<1>1. a \in Seq(Byte) /\ n \in Nat /\ n >= 3 /\ k \in Nat
      /\ SubSeq(a, 1, 2) = Word(l) /\ a[3] = t
  BY LenProperties DEF Starts
<1>2. /\ c \in Seq(Byte) /\ Len(c) = n + k
      /\ \A i \in 1..n : c[i] = a[i]
      /\ \A j \in 1..n : \A i \in 1..j : SubSeq(c, i, j) = SubSeq(a, i, j)
  BY ONLY <1>1, b \in Seq(Byte), Behind
<1> HIDE DEF c, n, k
<1>3. 3 \in 1..n /\ 2 \in 1..n /\ 1 \in 1..2 /\ n + k >= 3
  BY ONLY <1>1
<1>4. Starts(c, l, t)
  BY ONLY <1>1, <1>2, <1>3 DEF Starts
<1> QED BY ONLY <1>4 DEF c

LEMMA StartsFramed ==
  ASSUME NEW c, NEW l \in 0..max_word, NEW t, Starts(c, l, t)
  PROVE  /\ UWord(c) = l /\ c \in Seq(Byte) /\ Len(c) >= 3 /\ c[3] = t
         /\ Len(c) = 2 + l => c \in FramedOver(Byte)
<1>1. c \in Seq(Byte) /\ Len(c) \in Nat /\ Len(c) >= 3 /\ SubSeq(c, 1, 2) = Word(l)
      /\ c[3] = t
  BY LenProperties DEF Starts
<1>2. UWord(Word(l)) = l /\ Size(Word(l)) = 2 + l
  BY ONLY WordBytes, l \in 0..max_word
<1>3. UWord(c) = UWord(SubSeq(c, 1, 2))
  <2> DEFINE x == SubSeq(c, 1, 2)
  <2>1. 2 \in 0..Len(c)
    BY ONLY <1>1
  <2>2. \A j \in 1..2 : x[j] = c[j]
    BY ONLY <1>1, <2>1, Parts
  <2> HIDE DEF x
  <2>3. x[1] = c[1] /\ x[2] = c[2]
    BY ONLY <2>2
  <2> QED BY ONLY <2>3 DEF UWord, x
<1>4. length_field = 2
  BY ONLY FormatAssumption DEF FormatAssumption
<1>5. ASSUME Len(c) = 2 + l PROVE Framed(c)
  <2>1. SubSeq(c, 1, length_field) = Word(l)
    BY ONLY <1>1, <1>4
  <2>2. Size(SubSeq(c, 1, length_field)) = 2 + l
    BY ONLY <1>2, <2>1
  <2>3. Len(c) >= length_field
    BY ONLY <1>1, <1>4
  <2> QED BY ONLY <1>5, <2>2, <2>3 DEF Framed
<1> QED BY ONLY <1>1, <1>2, <1>3, <1>5 DEF FramedOver

-----------------------------------------------------------------------------
(***************************************************************************)
(* What the generators write, piece by piece.                              *)
(***************************************************************************)
Dword  == {f \in Seq(Byte) : Len(f) = 4}
Digest == {d \in Seq(Byte) : Len(d) = 16}

LEMMA NameBytes ==
  ASSUME NEW v \in 0..max_word, NEW f \in Dword, NEW x \in Names,
         NEW m, m = NameMsg(v, f, x)
  PROVE  /\ Starts(m, Len(x) + 7, name_tag) /\ Len(m) = 9 + Len(x)
         /\ Len(x) + 7 \in 0..max_word /\ Len(x) > 0 /\ Len(x) \in Nat
         /\ SubSeq(m, 4, 5) = Word(v) /\ SubSeq(m, 6, 9) = f /\ From(m, 10) = x
<1> DEFINE n == Len(x)
           h == Header(n + 7, name_tag)
           a == h \o Word(v)
           b == a \o f
           c == b \o x
<1>0. n \in Nat /\ n > 0 /\ x \in Seq(Byte) /\ n + 7 \in 0..max_word
  <2>1. x \in Seq(Byte) /\ x # <<>> /\ Len(x) + 11 <= max_word
    BY ONLY FormatAssumption, x \in Names DEF FormatAssumption
  <2>2. n \in Nat /\ n # 0
    BY ONLY <2>1, LenProperties, EmptySeq
  <2> HIDE DEF n
  <2>3. n + 11 <= max_word
    BY ONLY <2>1 DEF n
  <2> QED BY ONLY <2>1, <2>2, <2>3, MaxWord
<1> HIDE DEF n
<1>1. Starts(h, n + 7, name_tag) /\ Len(h) = 3 /\ h \in Seq(Byte)
  <2>1. name_tag \in Byte
    BY DEF name_tag, Byte
  <2> QED BY ONLY <1>0, <2>1, HeaderStarts DEF Starts
<1>2. Word(v) \in Seq(Byte) /\ Len(Word(v)) = 2
  BY ONLY WordBytes, v \in 0..max_word
<1>3. f \in Seq(Byte) /\ Len(f) = 4
  BY ONLY f \in Dword DEF Dword
<1>4. m = c
  BY ONLY m = NameMsg(v, f, x) DEF NameMsg, n, Header
<1> HIDE DEF h
<1>g. Glues(Byte, h, Word(v), a)
  BY ONLY <1>1, <1>2, Pieces
<1>6. Starts(a, n + 7, name_tag)
  BY ONLY <1>1, <1>2, StartsOn
<1> HIDE DEF a
<1>5. a \in Seq(Byte) /\ Len(a) = 5 /\ SubSeq(a, 4, 5) = Word(v)
  BY ONLY <1>1, <1>2, <1>g DEF Glues
<1>h. Glues(Byte, a, f, b)
  BY ONLY <1>3, <1>5, Pieces
<1>8. Starts(b, n + 7, name_tag)
  BY ONLY <1>3, <1>6, StartsOn
<1> HIDE DEF b
<1>7. /\ b \in Seq(Byte) /\ Len(b) = 9 /\ SubSeq(b, 6, 9) = f
      /\ \A j \in 1..5 : \A i \in 1..j : SubSeq(b, i, j) = SubSeq(a, i, j)
  BY ONLY <1>3, <1>5, <1>h DEF Glues
<1>i. Glues(Byte, b, x, c)
  BY ONLY <1>0, <1>7, Pieces
<1>10. Starts(c, n + 7, name_tag)
  BY ONLY <1>0, <1>8, StartsOn
<1> HIDE DEF c
<1>9. /\ c \in Seq(Byte) /\ Len(c) = 9 + n /\ SubSeq(c, 9 + 1, 9 + n) = x
      /\ \A j \in 1..9 : \A i \in 1..j : SubSeq(c, i, j) = SubSeq(b, i, j)
  <2>1. Len(x) = n
    BY ONLY TRUE DEF n
  <2> QED BY ONLY <1>0, <1>7, <1>i, <2>1 DEF Glues
<1>11. SubSeq(c, 4, 5) = Word(v)
  BY ONLY <1>5, <1>7, <1>9
<1>12. SubSeq(c, 6, 9) = f
  BY ONLY <1>7, <1>9
<1>13. From(c, 10) = x
  BY ONLY <1>9 DEF From
<1> QED BY ONLY <1>0, <1>4, <1>9, <1>10, <1>11, <1>12, <1>13 DEF n

LEMMA StatusBytes ==
  ASSUME NEW x \in Statuses, NEW m, m = receive_status_g(x)
  PROVE  /\ Starts(m, Len(x) + 1, status_tag) /\ Len(m) = 3 + Len(x)
         /\ Len(x) + 1 \in 0..max_word /\ Len(x) > 0 /\ Len(x) \in Nat
         /\ From(m, 4) = x
<1> DEFINE n == Len(x)
           h == Header(n + 1, status_tag)
           c == h \o x
<1>0. n \in Nat /\ n > 0 /\ x \in Seq(Byte) /\ n + 1 \in 0..max_word
  <2>1. x \in Seq(Byte) /\ x # <<>> /\ Len(x) + 1 <= max_word
    BY ONLY FormatAssumption, x \in Statuses DEF FormatAssumption
  <2>2. n \in Nat /\ n # 0
    BY ONLY <2>1, LenProperties, EmptySeq
  <2> HIDE DEF n
  <2>3. n + 1 <= max_word
    BY ONLY <2>1 DEF n
  <2> QED BY ONLY <2>1, <2>2, <2>3, MaxWord
<1> HIDE DEF n
<1>1. Starts(h, n + 1, status_tag) /\ Len(h) = 3 /\ h \in Seq(Byte)
  <2>1. status_tag \in Byte
    BY DEF status_tag, Byte
  <2> QED BY ONLY <1>0, <2>1, HeaderStarts DEF Starts
<1>2. m = c
  BY ONLY m = receive_status_g(x) DEF receive_status_g, n, Header
<1> HIDE DEF h
<1>g. Glues(Byte, h, x, c)
  BY ONLY <1>0, <1>1, Pieces
<1>4. Starts(c, n + 1, status_tag)
  BY ONLY <1>0, <1>1, StartsOn
<1> HIDE DEF c
<1>3. c \in Seq(Byte) /\ Len(c) = 3 + n /\ SubSeq(c, 3 + 1, 3 + n) = x
  <2>1. Len(x) = n
    BY ONLY TRUE DEF n
  <2> QED BY ONLY <1>0, <1>1, <1>g, <2>1 DEF Glues
<1>5. From(c, 4) = x
  BY ONLY <1>3 DEF From
<1> QED BY ONLY <1>0, <1>2, <1>3, <1>4, <1>5 DEF n

LEMMA ChallengeBytes ==
  ASSUME NEW e \in Dword, NEW x \in Names, NEW m, m = send_challenge_g(e, x)
  PROVE  /\ Starts(m, Len(x) + 11, name_tag) /\ Len(m) = 13 + Len(x)
         /\ Len(x) + 11 \in 0..max_word /\ Len(x) > 0 /\ Len(x) \in Nat
         /\ SubSeq(m, 10, 13) = e /\ From(m, 14) = x
<1> DEFINE n == Len(x)
           h == Header(n + 11, name_tag)
           g == h \o Word(supported_version)
           a == g \o capabilities
           b == a \o e
           c == b \o x
<1>0. n \in Nat /\ n > 0 /\ x \in Seq(Byte) /\ n + 11 \in 0..max_word
  <2>1. x \in Seq(Byte) /\ x # <<>> /\ Len(x) + 11 <= max_word
    BY ONLY FormatAssumption, x \in Names DEF FormatAssumption
  <2>2. n \in Nat /\ n # 0
    BY ONLY <2>1, LenProperties, EmptySeq
  <2> HIDE DEF n
  <2>3. n + 11 <= max_word
    BY ONLY <2>1 DEF n
  <2> QED BY ONLY <2>1, <2>2, <2>3, MaxWord
<1> HIDE DEF n
<1>1. Starts(h, n + 11, name_tag) /\ Len(h) = 3 /\ h \in Seq(Byte)
  <2>1. name_tag \in Byte
    BY DEF name_tag, Byte
  <2> QED BY ONLY <1>0, <2>1, HeaderStarts DEF Starts
<1>2. /\ Word(supported_version) \in Seq(Byte) /\ Len(Word(supported_version)) = 2
      /\ capabilities \in Seq(Byte) /\ Len(capabilities) = 4
  <2>1. supported_version \in 0..max_word
    BY MaxWord DEF supported_version
  <2>2. capabilities \in Seq(Byte) /\ Len(capabilities) = 4
    BY DEF capabilities, Byte
  <2> QED BY ONLY <2>1, <2>2, WordBytes
<1>3. e \in Seq(Byte) /\ Len(e) = 4
  BY ONLY e \in Dword DEF Dword
<1>4. m = c
  BY ONLY m = send_challenge_g(e, x) DEF send_challenge_g, n, Header
<1> HIDE DEF h
<1>5. Glues(Byte, h, Word(supported_version), g) /\ Starts(g, n + 11, name_tag)
  BY ONLY <1>1, <1>2, Pieces, StartsOn
<1> HIDE DEF g
<1>6. g \in Seq(Byte) /\ Len(g) = 5
  BY ONLY <1>1, <1>2, <1>5 DEF Glues
<1>7. Glues(Byte, g, capabilities, a) /\ Starts(a, n + 11, name_tag)
  BY ONLY <1>2, <1>5, <1>6, Pieces, StartsOn
<1> HIDE DEF a
<1>8. a \in Seq(Byte) /\ Len(a) = 9
  BY ONLY <1>2, <1>6, <1>7 DEF Glues
<1>9. Glues(Byte, a, e, b) /\ Starts(b, n + 11, name_tag)
  BY ONLY <1>3, <1>7, <1>8, Pieces, StartsOn
<1> HIDE DEF b
<1>10. b \in Seq(Byte) /\ Len(b) = 13 /\ SubSeq(b, 10, 13) = e
  BY ONLY <1>3, <1>8, <1>9 DEF Glues
<1>11. Glues(Byte, b, x, c) /\ Starts(c, n + 11, name_tag)
  BY ONLY <1>0, <1>9, <1>10, Pieces, StartsOn
<1> HIDE DEF c
<1>12. /\ c \in Seq(Byte) /\ Len(c) = 13 + n /\ SubSeq(c, 13 + 1, 13 + n) = x
       /\ \A j \in 1..13 : \A i \in 1..j : SubSeq(c, i, j) = SubSeq(b, i, j)
  <2>1. Len(x) = n
    BY ONLY TRUE DEF n
  <2> QED BY ONLY <1>0, <1>10, <1>11, <2>1 DEF Glues
<1>13. SubSeq(c, 10, 13) = e
  BY ONLY <1>10, <1>12
<1>14. From(c, 14) = x
  BY ONLY <1>12 DEF From
<1> QED BY ONLY <1>0, <1>4, <1>11, <1>12, <1>13, <1>14 DEF n

LEMMA ReplyBytes ==
  ASSUME NEW e \in Dword, NEW d \in Digest, NEW m, m = challenge_reply(e, d)
  PROVE  /\ Starts(m, 21, reply_tag) /\ Len(m) = 23 /\ 21 \in 0..max_word
         /\ SubSeq(m, 4, 7) = e /\ SubSeq(m, 8, 23) = d
<1> DEFINE h == Header(21, reply_tag)
           a == h \o e
           c == a \o d
<1>0. 21 \in 0..max_word /\ reply_tag \in Byte
  BY MaxWord DEF reply_tag, Byte
<1>1. Starts(h, 21, reply_tag) /\ Len(h) = 3 /\ h \in Seq(Byte)
  BY ONLY <1>0, HeaderStarts DEF Starts
<1>2. e \in Seq(Byte) /\ Len(e) = 4 /\ d \in Seq(Byte) /\ Len(d) = 16
  BY ONLY e \in Dword, d \in Digest DEF Dword, Digest
<1>3. m = c
  BY ONLY m = challenge_reply(e, d) DEF challenge_reply, Header
<1> HIDE DEF h
<1>4. Glues(Byte, h, e, a) /\ Starts(a, 21, reply_tag)
  BY ONLY <1>1, <1>2, Pieces, StartsOn
<1> HIDE DEF a
<1>5. a \in Seq(Byte) /\ Len(a) = 7 /\ SubSeq(a, 4, 7) = e
  BY ONLY <1>1, <1>2, <1>4 DEF Glues
<1>6. Glues(Byte, a, d, c) /\ Starts(c, 21, reply_tag)
  BY ONLY <1>2, <1>4, <1>5, Pieces, StartsOn
<1> HIDE DEF c
<1>7. /\ c \in Seq(Byte) /\ Len(c) = 23 /\ SubSeq(c, 8, 23) = d
      /\ \A j \in 1..7 : \A i \in 1..j : SubSeq(c, i, j) = SubSeq(a, i, j)
  BY ONLY <1>2, <1>5, <1>6 DEF Glues
<1>8. SubSeq(c, 4, 7) = e
  BY ONLY <1>5, <1>7
<1> QED BY ONLY <1>0, <1>3, <1>6, <1>7, <1>8

LEMMA AckBytes ==
  ASSUME NEW d \in Digest, NEW m, m = send_challenge_ack_g(d)
  PROVE  /\ Starts(m, 17, ack_tag) /\ Len(m) = 19 /\ 17 \in 0..max_word
         /\ SubSeq(m, 4, 19) = d
<1> DEFINE h == Header(17, ack_tag)
           c == h \o d
<1>0. 17 \in 0..max_word /\ ack_tag \in Byte
  BY MaxWord DEF ack_tag, Byte
<1>1. Starts(h, 17, ack_tag) /\ Len(h) = 3 /\ h \in Seq(Byte)
  BY ONLY <1>0, HeaderStarts DEF Starts
<1>2. d \in Seq(Byte) /\ Len(d) = 16
  BY ONLY d \in Digest DEF Digest
<1>3. m = c
  BY ONLY m = send_challenge_ack_g(d) DEF send_challenge_ack_g, Header
<1> HIDE DEF h
<1>4. Glues(Byte, h, d, c) /\ Starts(c, 17, ack_tag)
  BY ONLY <1>1, <1>2, Pieces, StartsOn
<1> HIDE DEF c
<1>5. c \in Seq(Byte) /\ Len(c) = 19 /\ SubSeq(c, 4, 19) = d
  BY ONLY <1>1, <1>2, <1>4 DEF Glues
<1> QED BY ONLY <1>0, <1>3, <1>4, <1>5

-----------------------------------------------------------------------------
(***************************************************************************)
(* r is what the other node had in mind when it wrote m.                   *)
(***************************************************************************)
CarriesName(r, m) ==
  \E v \in 0..max_word, f \in Dword, x \in Names :
    /\ r = [kind |-> "name", version0 |-> v, version1 |-> SignedDword(f), name |-> x]
    /\ m = NameMsg(v, f, x)

CarriesStatus(r, m) ==
  \E x \in Statuses : r = [kind |-> "status", status |-> x] /\ m = receive_status_g(x)

CarriesChallenge(r, m) ==
  \E c \in Dword, x \in Names :
    r = [kind |-> "challenge", challenge |-> c, name |-> x] /\ m = send_challenge_g(c, x)

CarriesReply(r, m) ==
  \E c \in Dword, d \in Digest :
    r = [kind |-> "reply", challenge |-> c, digest |-> d] /\ m = challenge_reply(c, d)

CarriesAck(r, m) ==
  \E d \in Digest : r = [kind |-> "ack", digest |-> d] /\ m = send_challenge_ack_g(d)

CarriesForeign(r, m) == r = [kind |-> "foreign"] /\ m \in Messages

Carries(r, m) ==
  \/ CarriesName(r, m) \/ CarriesStatus(r, m) \/ CarriesChallenge(r, m)
  \/ CarriesReply(r, m) \/ CarriesAck(r, m) \/ CarriesForeign(r, m)

\* What the parser y of a state s has to do with r.
Restores(y, s, r) ==
  IF r.kind = s THEN y = r
    ELSE y = Failure \/ {y.kind, r.kind} = {"name", "challenge"}

LEMMA ParseCases ==
  ASSUME NEW m
  PROVE  /\ Parse("name", m) = send_name_p(m)
         /\ Parse("status", m) = receive_status(m)
         /\ Parse("challenge", m) = recv_challenge(m)
         /\ Parse("reply", m) = challenge_reply_p(m)
         /\ Parse("ack", m) = recv_challenge_ack_p(m)
BY DEF Parse

\* A message with another tag is refused.
LEMMA OtherTag ==
  ASSUME NEW m, NEW t, m[3] = t
  PROVE  /\ t # name_tag => send_name_p(m) = Failure /\ recv_challenge(m) = Failure
         /\ t # status_tag => receive_status(m) = Failure
         /\ t # reply_tag => challenge_reply_p(m) = Failure
         /\ t # ack_tag => recv_challenge_ack_p(m) = Failure
BY DEF send_name_p, recv_challenge, receive_status, challenge_reply_p,
       recv_challenge_ack_p, Tagged

LEMMA Tags ==
  /\ name_tag # status_tag /\ name_tag # reply_tag /\ name_tag # ack_tag
  /\ status_tag # reply_tag /\ status_tag # ack_tag /\ reply_tag # ack_tag
BY DEF name_tag, status_tag, reply_tag, ack_tag

LEMMA NameCarried ==
  ASSUME NEW r, NEW m, CarriesName(r, m), NEW s \in Waiting
  PROVE  m \in FramedOver(Byte) /\ Restores(Parse(s, m), s, r)
<1>1. PICK v \in 0..max_word, f \in Dword, x \in Names :
        /\ r = [kind |-> "name", version0 |-> v, version1 |-> SignedDword(f), name |-> x]
        /\ m = NameMsg(v, f, x)
  BY ONLY CarriesName(r, m) DEF CarriesName
<1>2. /\ Starts(m, Len(x) + 7, name_tag) /\ Len(m) = 9 + Len(x)
      /\ Len(x) + 7 \in 0..max_word /\ Len(x) > 0 /\ Len(x) \in Nat
      /\ SubSeq(m, 4, 5) = Word(v) /\ SubSeq(m, 6, 9) = f /\ From(m, 10) = x
  <2>1. m = NameMsg(v, f, x)
    BY ONLY <1>1
  <2> QED BY ONLY <2>1, v \in 0..max_word, f \in Dword, x \in Names, NameBytes
<1> DEFINE n == Len(x)
<1>3. n \in Nat /\ n > 0 /\ Len(m) = 9 + n /\ n + 7 \in 0..max_word
      /\ Starts(m, n + 7, name_tag)
  BY ONLY <1>2
<1> HIDE DEF n
<1>4. /\ Len(m) >= 3 /\ m[3] = name_tag /\ Len(m) > 9
      /\ m \in FramedOver(Byte)
  <2>1. /\ Len(m) >= 3 /\ m[3] = name_tag
        /\ Len(m) = 2 + (n + 7) => m \in FramedOver(Byte)
    BY ONLY <1>3, StartsFramed
  <2> QED BY ONLY <1>3, <2>1
<1>5. UWord(Word(v)) = v
  BY ONLY WordBytes, v \in 0..max_word
<1>6. r.kind = "name"
  BY ONLY <1>1
<1>7. CASE s = "name"
  <2>1. send_name_p(m) = [kind |-> "name", version0 |-> UWord(SubSeq(m, 4, 5)),
                          version1 |-> SignedDword(SubSeq(m, 6, 9)),
                          name |-> From(m, 10)]
    BY ONLY <1>4 DEF send_name_p, Tagged
  <2>2. send_name_p(m) = r
    BY ONLY <1>1, <1>2, <1>5, <2>1
  <2>3. Parse("name", m) = send_name_p(m)
    BY ONLY ParseCases
  <2> QED BY ONLY <1>4, <1>6, <1>7, <2>2, <2>3 DEF Restores
<1>8. CASE s = "challenge"
  <2>1. recv_challenge(m) = Failure \/ recv_challenge(m).kind = "challenge"
    BY ONLY TRUE DEF recv_challenge
  <2>2. Parse("challenge", m) = recv_challenge(m)
    BY ONLY ParseCases
  <2> DEFINE y == recv_challenge(m)
  <2>3. y = Failure \/ {y.kind, r.kind} = {"name", "challenge"}
    <3> HIDE DEF y
    <3>1. y = Failure \/ y.kind = "challenge"
      BY ONLY <2>1 DEF y
    <3> QED BY ONLY <1>6, <3>1
  <2> HIDE DEF y
  <2>4. Parse(s, m) = y /\ r.kind # s
    BY ONLY <1>6, <1>8, <2>2 DEF y
  <2>5. Restores(Parse(s, m), s, r)
    BY ONLY <2>3, <2>4 DEF Restores
  <2> QED BY ONLY <1>4, <2>5
<1>9. CASE s \notin {"name", "challenge"}
  <2>1. /\ receive_status(m) = Failure /\ challenge_reply_p(m) = Failure
        /\ recv_challenge_ack_p(m) = Failure
    BY ONLY <1>4, OtherTag, Tags
  <2>2. s = "status" \/ s = "reply" \/ s = "ack"
    BY ONLY <1>9, s \in Waiting DEF Waiting
  <2>3. Parse(s, m) = Failure
    BY ONLY <2>1, <2>2, ParseCases
  <2> QED BY ONLY <1>4, <1>6, <1>9, <2>3 DEF Restores
<1> QED BY ONLY <1>7, <1>8, <1>9

LEMMA StatusCarried ==
  ASSUME NEW r, NEW m, CarriesStatus(r, m), NEW s \in Waiting
  PROVE  m \in FramedOver(Byte) /\ Restores(Parse(s, m), s, r)
<1>1. PICK x \in Statuses :
        r = [kind |-> "status", status |-> x] /\ m = receive_status_g(x)
  BY ONLY CarriesStatus(r, m) DEF CarriesStatus
<1>2. /\ Starts(m, Len(x) + 1, status_tag) /\ Len(m) = 3 + Len(x)
      /\ Len(x) + 1 \in 0..max_word /\ Len(x) > 0 /\ Len(x) \in Nat
      /\ From(m, 4) = x
  <2>1. m = receive_status_g(x)
    BY ONLY <1>1
  <2> QED BY ONLY <2>1, x \in Statuses, StatusBytes
<1> DEFINE n == Len(x)
<1>3. n \in Nat /\ n > 0 /\ Len(m) = 3 + n /\ n + 1 \in 0..max_word
      /\ Starts(m, n + 1, status_tag)
  BY ONLY <1>2
<1> HIDE DEF n
<1>4. /\ Len(m) >= 3 /\ m[3] = status_tag /\ Len(m) > 3
      /\ m \in FramedOver(Byte)
  <2>1. /\ Len(m) >= 3 /\ m[3] = status_tag
        /\ Len(m) = 2 + (n + 1) => m \in FramedOver(Byte)
    BY ONLY <1>3, StartsFramed
  <2> QED BY ONLY <1>3, <2>1
<1>5. r.kind = "status"
  BY ONLY <1>1
<1>6. CASE s = "status"
  <2>1. receive_status(m) = [kind |-> "status", status |-> From(m, 4)]
    BY ONLY <1>4 DEF receive_status, Tagged
  <2>2. receive_status(m) = r
    BY ONLY <1>1, <1>2, <2>1
  <2>3. Parse("status", m) = receive_status(m)
    BY ONLY ParseCases
  <2> QED BY ONLY <1>4, <1>5, <1>6, <2>2, <2>3 DEF Restores
<1>7. CASE s # "status"
  <2>1. /\ send_name_p(m) = Failure /\ recv_challenge(m) = Failure
        /\ challenge_reply_p(m) = Failure /\ recv_challenge_ack_p(m) = Failure
    BY ONLY <1>4, OtherTag, Tags
  <2>2. s = "name" \/ s = "challenge" \/ s = "reply" \/ s = "ack"
    BY ONLY <1>7, s \in Waiting DEF Waiting
  <2>3. Parse(s, m) = Failure
    BY ONLY <2>1, <2>2, ParseCases
  <2> QED BY ONLY <1>4, <1>5, <1>7, <2>3 DEF Restores
<1> QED BY ONLY <1>6, <1>7

LEMMA ChallengeCarried ==
  ASSUME NEW r, NEW m, CarriesChallenge(r, m), NEW s \in Waiting
  PROVE  m \in FramedOver(Byte) /\ Restores(Parse(s, m), s, r)
<1>1. PICK c \in Dword, x \in Names :
        r = [kind |-> "challenge", challenge |-> c, name |-> x] /\ m = send_challenge_g(c, x)
  BY ONLY CarriesChallenge(r, m) DEF CarriesChallenge
<1>2. /\ Starts(m, Len(x) + 11, name_tag) /\ Len(m) = 13 + Len(x)
      /\ Len(x) + 11 \in 0..max_word /\ Len(x) > 0 /\ Len(x) \in Nat
      /\ SubSeq(m, 10, 13) = c /\ From(m, 14) = x
  <2>1. m = send_challenge_g(c, x)
    BY ONLY <1>1
  <2> QED BY ONLY <2>1, c \in Dword, x \in Names, ChallengeBytes
<1> DEFINE n == Len(x)
<1>3. n \in Nat /\ n > 0 /\ Len(m) = 13 + n /\ n + 11 \in 0..max_word
      /\ Starts(m, n + 11, name_tag)
  BY ONLY <1>2
<1> HIDE DEF n
<1>4. /\ Len(m) >= 3 /\ m[3] = name_tag /\ Len(m) > 13
      /\ m \in FramedOver(Byte)
  <2>1. /\ Len(m) >= 3 /\ m[3] = name_tag
        /\ Len(m) = 2 + (n + 11) => m \in FramedOver(Byte)
    BY ONLY <1>3, StartsFramed
  <2> QED BY ONLY <1>3, <2>1
<1>5. r.kind = "challenge"
  BY ONLY <1>1
<1>6. CASE s = "challenge"
  <2>1. recv_challenge(m) = [kind |-> "challenge", challenge |-> SubSeq(m, 10, 13),
                             name |-> From(m, 14)]
    BY ONLY <1>4 DEF recv_challenge, Tagged
  <2>2. recv_challenge(m) = r
    BY ONLY <1>1, <1>2, <2>1
  <2>3. Parse("challenge", m) = recv_challenge(m)
    BY ONLY ParseCases
  <2> QED BY ONLY <1>4, <1>5, <1>6, <2>2, <2>3 DEF Restores
<1>7. CASE s = "name"
  <2>1. send_name_p(m) = Failure \/ send_name_p(m).kind = "name"
    BY ONLY TRUE DEF send_name_p
  <2>2. Parse("name", m) = send_name_p(m)
    BY ONLY ParseCases
  <2> DEFINE y == send_name_p(m)
  <2>3. y = Failure \/ {y.kind, r.kind} = {"name", "challenge"}
    <3> HIDE DEF y
    <3>1. y = Failure \/ y.kind = "name"
      BY ONLY <2>1 DEF y
    <3> QED BY ONLY <1>5, <3>1
  <2> HIDE DEF y
  <2>4. Parse(s, m) = y /\ r.kind # s
    BY ONLY <1>5, <1>7, <2>2 DEF y
  <2>5. Restores(Parse(s, m), s, r)
    BY ONLY <2>3, <2>4 DEF Restores
  <2> QED BY ONLY <1>4, <2>5
<1>8. CASE s \notin {"name", "challenge"}
  <2>1. /\ receive_status(m) = Failure /\ challenge_reply_p(m) = Failure
        /\ recv_challenge_ack_p(m) = Failure
    BY ONLY <1>4, OtherTag, Tags
  <2>2. s = "status" \/ s = "reply" \/ s = "ack"
    BY ONLY <1>8, s \in Waiting DEF Waiting
  <2>3. Parse(s, m) = Failure
    BY ONLY <2>1, <2>2, ParseCases
  <2> QED BY ONLY <1>4, <1>5, <1>8, <2>3 DEF Restores
<1> QED BY ONLY <1>6, <1>7, <1>8

LEMMA ReplyCarried ==
  ASSUME NEW r, NEW m, CarriesReply(r, m), NEW s \in Waiting
  PROVE  m \in FramedOver(Byte) /\ Restores(Parse(s, m), s, r)
<1>1. PICK c \in Dword, d \in Digest :
        r = [kind |-> "reply", challenge |-> c, digest |-> d] /\ m = challenge_reply(c, d)
  BY ONLY CarriesReply(r, m) DEF CarriesReply
<1>2. /\ Starts(m, 21, reply_tag) /\ Len(m) = 23 /\ 21 \in 0..max_word
      /\ SubSeq(m, 4, 7) = c /\ SubSeq(m, 8, 23) = d
  <2>1. m = challenge_reply(c, d)
    BY ONLY <1>1
  <2> QED BY ONLY <2>1, c \in Dword, d \in Digest, ReplyBytes
<1>4. /\ Len(m) >= 3 /\ m[3] = reply_tag /\ UWord(m) = 21
      /\ m \in FramedOver(Byte)
  <2>1. /\ Len(m) >= 3 /\ m[3] = reply_tag /\ UWord(m) = 21
        /\ Len(m) = 2 + 21 => m \in FramedOver(Byte)
    BY ONLY <1>2, StartsFramed, ZenonT(40)
  <2> QED BY ONLY <1>2, <2>1
<1>5. r.kind = "reply"
  BY ONLY <1>1
<1>6. CASE s = "reply"
  <2>1. challenge_reply_p(m) = [kind |-> "reply", challenge |-> SubSeq(m, 4, 7),
                                digest |-> SubSeq(m, 8, 23)]
    BY ONLY <1>2, <1>4 DEF challenge_reply_p, Tagged, SizeIs
  <2>2. challenge_reply_p(m) = r
    BY ONLY <1>1, <1>2, <2>1
  <2>3. Parse("reply", m) = challenge_reply_p(m)
    BY ONLY ParseCases
  <2> QED BY ONLY <1>4, <1>5, <1>6, <2>2, <2>3 DEF Restores
<1>7. CASE s # "reply"
  <2>1. /\ send_name_p(m) = Failure /\ recv_challenge(m) = Failure
        /\ receive_status(m) = Failure /\ recv_challenge_ack_p(m) = Failure
    BY ONLY <1>4, OtherTag, Tags
  <2>2. s = "name" \/ s = "challenge" \/ s = "status" \/ s = "ack"
    BY ONLY <1>7, s \in Waiting DEF Waiting
  <2>3. Parse(s, m) = Failure
    BY ONLY <2>1, <2>2, ParseCases
  <2> QED BY ONLY <1>4, <1>5, <1>7, <2>3 DEF Restores
<1> QED BY ONLY <1>6, <1>7

LEMMA AckCarried ==
  ASSUME NEW r, NEW m, CarriesAck(r, m), NEW s \in Waiting
  PROVE  m \in FramedOver(Byte) /\ Restores(Parse(s, m), s, r)
<1>1. PICK d \in Digest :
        r = [kind |-> "ack", digest |-> d] /\ m = send_challenge_ack_g(d)
  BY ONLY CarriesAck(r, m) DEF CarriesAck
<1>2. /\ Starts(m, 17, ack_tag) /\ Len(m) = 19 /\ 17 \in 0..max_word
      /\ SubSeq(m, 4, 19) = d
  <2>1. m = send_challenge_ack_g(d)
    BY ONLY <1>1
  <2> QED BY ONLY <2>1, d \in Digest, AckBytes
<1>4. /\ Len(m) >= 3 /\ m[3] = ack_tag /\ UWord(m) = 17
      /\ m \in FramedOver(Byte)
  <2>1. /\ Len(m) >= 3 /\ m[3] = ack_tag /\ UWord(m) = 17
        /\ Len(m) = 2 + 17 => m \in FramedOver(Byte)
    BY ONLY <1>2, StartsFramed, ZenonT(40)
  <2> QED BY ONLY <1>2, <2>1
<1>5. r.kind = "ack"
  BY ONLY <1>1
<1>6. CASE s = "ack"
  <2>1. recv_challenge_ack_p(m) = [kind |-> "ack", digest |-> SubSeq(m, 4, 19)]
    BY ONLY <1>2, <1>4 DEF recv_challenge_ack_p, Tagged, SizeIs
  <2>2. recv_challenge_ack_p(m) = r
    BY ONLY <1>1, <1>2, <2>1
  <2>3. Parse("ack", m) = recv_challenge_ack_p(m)
    BY ONLY ParseCases
  <2> QED BY ONLY <1>4, <1>5, <1>6, <2>2, <2>3 DEF Restores
<1>7. CASE s # "ack"
  <2>1. /\ send_name_p(m) = Failure /\ recv_challenge(m) = Failure
        /\ receive_status(m) = Failure /\ challenge_reply_p(m) = Failure
    BY ONLY <1>4, OtherTag, Tags
  <2>2. s = "name" \/ s = "challenge" \/ s = "status" \/ s = "reply"
    BY ONLY <1>7, s \in Waiting DEF Waiting
  <2>3. Parse(s, m) = Failure
    BY ONLY <2>1, <2>2, ParseCases
  <2> QED BY ONLY <1>4, <1>5, <1>7, <2>3 DEF Restores
<1> QED BY ONLY <1>6, <1>7

(***************************************************************************)
(* handshake_grammar.h: the parser of a message restores what its          *)
(* generator was given, and refuses the other messages, except that a name *)
(* and a challenge may be taken for each other.                            *)
(***************************************************************************)
LEMMA Carried ==
  ASSUME NEW r, NEW m, Carries(r, m), NEW s \in Waiting
  PROVE  m \in FramedOver(Byte) /\ Restores(Parse(s, m), s, r)
<1>1. CASE CarriesForeign(r, m)
  <2>1. m \in Messages /\ r.kind = "foreign"
    BY ONLY <1>1 DEF CarriesForeign
  <2>2. m \in Seq(Byte) /\ Parse(s, m) = Failure
    BY ONLY <2>1, ForeignAssumption, s \in Waiting
  <2>3. Framed(m)
    BY ONLY <2>1, LexerAssumption
  <2>4. r.kind # s
    BY ONLY <2>1, s \in Waiting DEF Waiting
  <2> QED BY ONLY <2>2, <2>3, <2>4 DEF FramedOver, Restores
<1> QED BY ONLY <1>1, Carries(r, m), s \in Waiting, NameCarried, StatusCarried,
                ChallengeCarried, ReplyCarried, AckCarried DEF Carries

-----------------------------------------------------------------------------
(***************************************************************************)
(* The places of the handshake.                                            *)
(***************************************************************************)
LEMMA Places ==
  ASSUME NEW r \in {"A", "B"}
  PROVE  /\ Len(Script[r]) \in Nat /\ Len(Script[r]) >= 2
         /\ DOMAIN Script[r] = 1..Len(Script[r])
         /\ r = "A" => /\ Len(Script[r]) = 3 /\ Script[r][1] = "status"
                       /\ Script[r][2] = "challenge" /\ Script[r][3] = "ack"
         /\ r = "B" => /\ Len(Script[r]) = 2 /\ Script[r][1] = "name"
                       /\ Script[r][2] = "reply"
<1>1. CASE r = "A"
  <2>1. Script[r] = <<"status", "challenge", "ack">>
    BY <1>1 DEF Script
  <2> QED BY ONLY <1>1, <2>1
<1>2. CASE r = "B"
  <2>1. Script[r] = <<"name", "reply">>
    BY <1>2 DEF Script
  <2> QED BY ONLY <1>2, <2>1
<1> QED BY <1>1, <1>2

LEMMA PlaceCases ==
  ASSUME NEW r \in {"A", "B"}, NEW i \in 1..Len(Script[r])
  PROVE  /\ Script[r][i] \in Waiting
         /\ \/ r = "A" /\ i = 1 /\ Script[r][i] = "status"
            \/ r = "A" /\ i = 2 /\ Script[r][i] = "challenge"
            \/ r = "A" /\ i = 3 /\ Script[r][i] = "ack"
            \/ r = "B" /\ i = 1 /\ Script[r][i] = "name"
            \/ r = "B" /\ i = 2 /\ Script[r][i] = "reply"
<1>1. CASE r = "A"
  <2>0. Len(Script[r]) = 3
    BY ONLY <1>1, Places, r \in {"A", "B"}
  <2>1. i = 1 \/ i = 2 \/ i = 3
    BY ONLY <2>0, i \in 1..Len(Script[r])
  <2> QED BY ONLY <1>1, <2>1, Places, r \in {"A", "B"} DEF Waiting
<1>2. CASE r = "B"
  <2>0. Len(Script[r]) = 2
    BY ONLY <1>2, Places, r \in {"A", "B"}
  <2>1. i = 1 \/ i = 2
    BY ONLY <2>0, i \in 1..Len(Script[r])
  <2> QED BY ONLY <1>2, <2>1, Places, r \in {"A", "B"} DEF Waiting
<1> QED BY <1>1, <1>2

\* A message of kind k at place i is in place in the handshake r alone.
OnlyRole(k, i, r) ==
  \A q \in {"A", "B"} : i \in DOMAIN Script[q] /\ k = Script[q][i] => q = r

LEMMA OnlyHere ==
  ASSUME NEW r \in {"A", "B"}, NEW i \in 1..Len(Script[r]), NEW k,
         \/ Script[r][i] = "name" /\ k = "name"
         \/ Script[r][i] = "status" /\ k = "status"
         \/ Script[r][i] \in {"challenge", "name", "status"} /\ k = "challenge"
         \/ Script[r][i] = "reply" /\ k = "reply"
         \/ Script[r][i] \in {"ack", "reply", "challenge"} /\ k = "ack"
         \/ Script[r][i] = "challenge" /\ k = "name"
         \/ k = "foreign"
  PROVE  OnlyRole(k, i, r)
<1> SUFFICES ASSUME NEW q \in {"A", "B"}, i \in DOMAIN Script[q], k = Script[q][i]
             PROVE  q = r
  BY DEF OnlyRole
<1>1. i \in 1..Len(Script[q])
  BY Places
<1>2. \/ q = "A" /\ i = 1 /\ k = "status"
      \/ q = "A" /\ i = 2 /\ k = "challenge"
      \/ q = "A" /\ i = 3 /\ k = "ack"
      \/ q = "B" /\ i = 1 /\ k = "name"
      \/ q = "B" /\ i = 2 /\ k = "reply"
  BY ONLY <1>1, q \in {"A", "B"}, k = Script[q][i], PlaceCases
<1>3. \/ r = "A" /\ i = 1 /\ Script[r][i] = "status"
      \/ r = "A" /\ i = 2 /\ Script[r][i] = "challenge"
      \/ r = "A" /\ i = 3 /\ Script[r][i] = "ack"
      \/ r = "B" /\ i = 1 /\ Script[r][i] = "name"
      \/ r = "B" /\ i = 2 /\ Script[r][i] = "reply"
  BY ONLY PlaceCases, r \in {"A", "B"}, i \in 1..Len(Script[r])
<1> QED BY <1>2, <1>3

(***************************************************************************)
(* What follows a message: the next place of the same handshake.           *)
(***************************************************************************)
LEMMA ParseKind ==
  ASSUME NEW s \in Waiting, NEW m
  PROVE  Parse(s, m) = Failure \/ Parse(s, m).kind = s
<1>1. send_name_p(m) = Failure \/ send_name_p(m).kind = "name"
  BY DEF send_name_p
<1>2. receive_status(m) = Failure \/ receive_status(m).kind = "status"
  BY DEF receive_status
<1>3. recv_challenge(m) = Failure \/ recv_challenge(m).kind = "challenge"
  BY DEF recv_challenge
<1>4. challenge_reply_p(m) = Failure \/ challenge_reply_p(m).kind = "reply"
  BY DEF challenge_reply_p
<1>5. recv_challenge_ack_p(m) = Failure \/ recv_challenge_ack_p(m).kind = "ack"
  BY DEF recv_challenge_ack_p
<1>6. s = "name" \/ s = "status" \/ s = "challenge" \/ s = "reply" \/ s = "ack"
  BY DEF Waiting
<1> QED BY ONLY <1>1, <1>2, <1>3, <1>4, <1>5, <1>6, ParseCases

LEMMA AfterCases ==
  ASSUME NEW y
  PROVE  /\ y = Failure => After(y) = "stalled"
         /\ y.kind = "name" => After(y) = IF supports(y) THEN "reply" ELSE "failed"
         /\ y.kind = "status" =>
              After(y) = IF y.status \in Ok THEN "challenge" ELSE "failed"
         /\ y.kind = "challenge" => After(y) = "ack"
         /\ y.kind = "reply" =>
              After(y) = IF y.digest = own_digest THEN "connected" ELSE "failed"
         /\ y.kind = "ack" =>
              After(y) = IF y.digest = own_digest THEN "connected" ELSE "stalled"
<1>1. Failure.kind = "failure"
  BY DEF Failure
<1>2. y = Failure => y.kind = "failure"
  BY <1>1
<1>3. CASE y = Failure
  BY <1>2, <1>3 DEF After
<1>4. CASE y.kind = "name"
  <2>1. y # Failure
    BY <1>2, <1>4
  <2> QED BY <1>4, <2>1 DEF After
<1>5. CASE y.kind = "status"
  <2>1. y # Failure
    BY <1>2, <1>5
  <2> QED BY <1>5, <2>1 DEF After
<1>6. CASE y.kind = "challenge"
  <2>1. y # Failure
    BY <1>2, <1>6
  <2> QED BY <1>6, <2>1 DEF After
<1>7. CASE y.kind = "reply"
  <2>1. y # Failure
    BY <1>2, <1>7
  <2> QED BY <1>7, <2>1 DEF After
<1>8. CASE y.kind = "ack"
  <2>1. y # Failure
    BY <1>2, <1>8
  <2> QED BY <1>8, <2>1 DEF After
<1> QED BY <1>3, <1>4, <1>5, <1>6, <1>7, <1>8

LEMMA Advance ==
  ASSUME NEW r \in {"A", "B"}, NEW i \in 1..Len(Script[r]), NEW m,
         NEW y, y = Parse(Script[r][i], m)
  PROVE  /\ After(y) \in Waiting =>
              i + 1 \in 1..Len(Script[r]) /\ After(y) = Script[r][i + 1]
         /\ After(y) = "challenge" => r = "A" /\ i = 1
<1>1. y = Failure \/ y.kind = Script[r][i]
  BY ONLY PlaceCases, ParseKind, r \in {"A", "B"}, i \in 1..Len(Script[r]),
          y = Parse(Script[r][i], m)
<1>2. \/ After(y) \notin Waiting
      \/ r = "A" /\ i = 1 /\ After(y) = "challenge"
      \/ r = "A" /\ i = 2 /\ After(y) = "ack"
      \/ r = "B" /\ i = 1 /\ After(y) = "reply"
  <2>1. CASE y = Failure
    <3>1. After(y) = "stalled"
      BY ONLY <2>1, AfterCases
    <3> QED BY ONLY <3>1 DEF Waiting
  <2>2. CASE y.kind = Script[r][i]
    <3>1. \/ r = "A" /\ i = 1 /\ y.kind = "status"
          \/ r = "A" /\ i = 2 /\ y.kind = "challenge"
          \/ r = "A" /\ i = 3 /\ y.kind = "ack"
          \/ r = "B" /\ i = 1 /\ y.kind = "name"
          \/ r = "B" /\ i = 2 /\ y.kind = "reply"
      BY ONLY <2>2, PlaceCases, r \in {"A", "B"}, i \in 1..Len(Script[r])
    <3>2. /\ "failed" \notin Waiting /\ "stalled" \notin Waiting
          /\ "connected" \notin Waiting
      BY DEF Waiting
    <3> QED BY ONLY <3>1, <3>2, AfterCases
  <2> QED BY <1>1, <2>1, <2>2
<1>3. /\ r = "A" => /\ Len(Script[r]) = 3 /\ Script[r][2] = "challenge"
                    /\ Script[r][3] = "ack"
      /\ r = "B" => Len(Script[r]) = 2 /\ Script[r][2] = "reply"
  BY ONLY Places, r \in {"A", "B"}
<1>4. "challenge" \in Waiting
  BY DEF Waiting
<1> QED BY ONLY <1>2, <1>3, <1>4, r \in {"A", "B"}

-----------------------------------------------------------------------------
(***************************************************************************)
(* The inductive invariant.  What was sent is what the messages written    *)
(* carry, and what was parsed are the messages taken from the lexer, each  *)
(* by the parser of its place in the handshake r; the state is that of the *)
(* next place, or the last message ended the handshake.                    *)
(***************************************************************************)
Records ==
  {[kind |-> "name", version0 |-> v, version1 |-> SignedDword(f), name |-> x] :
     v \in 0..max_word, f \in Dword, x \in Names}
  \cup {[kind |-> "status", status |-> x] : x \in Statuses}
  \cup {[kind |-> "challenge", challenge |-> c, name |-> x] : c \in Dword, x \in Names}
  \cup {[kind |-> "reply", challenge |-> c, digest |-> d] : c \in Dword, d \in Digest}
  \cup {[kind |-> "ack", digest |-> d] : d \in Digest}
  \cup {[kind |-> "foreign"]}

Readings == {Parse(s, m) : s \in Waiting, m \in Seq(Byte)}

InOrder == Order(built, taken, msgs, incomplete, network, Byte)

SentInv(r) ==
  /\ sent \in Seq(Records) /\ built \in Seq(FramedOver(Byte))
  /\ Len(sent) = Len(built) /\ Len(sent) <= Len(Script[r])
  /\ \A i \in 1..Len(sent) :
       Carries(sent[i], built[i]) /\ OnlyRole(sent[i].kind, i, r)

ParsedInv(r) ==
  /\ parsed \in Seq(Readings) /\ taken = Len(parsed) /\ Len(parsed) <= Len(built)
  /\ \A i \in 1..Len(parsed) : parsed[i] = Parse(Script[r][i], built[i])

StateInv(r) ==
  /\ state = IF Len(parsed) = 0 THEN Script[r][1] ELSE After(parsed[Len(parsed)])
  /\ state \in Waiting =>
       Len(parsed) + 1 \in 1..Len(Script[r]) /\ state = Script[r][Len(parsed) + 1]

HandshakeInv ==
  InOrder /\ \E r \in {"A", "B"} : SentInv(r) /\ ParsedInv(r) /\ StateInv(r)

LEMMA InvInit == Init => HandshakeInv
<1> SUFFICES ASSUME Init PROVE HandshakeInv
  OBVIOUS
<1>1. /\ state \in {"name", "status"} /\ sent = <<>> /\ parsed = <<>>
      /\ built = <<>> /\ taken = 0 /\ msgs = <<>> /\ incomplete = <<>> /\ network = <<>>
  BY DEF Init, LexerInit
<1>2. InOrder
  <2>1. Order(<<>>, 0, <<>>, <<>>, <<>>, Byte)
    BY ONLY OrderInit
  <2> QED BY ONLY <1>1, <2>1 DEF InOrder
<1> DEFINE r == IF state = "status" THEN "A" ELSE "B"
<1>3. r \in {"A", "B"} /\ state = Script[r][1]
  <2>1. CASE state = "status"
    <3>1. Script["A"][1] = "status"
      BY ONLY Places
    <3> QED BY ONLY <2>1, <3>1
  <2>2. CASE state = "name"
    <3>1. Script["B"][1] = "name"
      BY ONLY Places
    <3> QED BY ONLY <2>2, <3>1
  <2> QED BY ONLY <1>1, <2>1, <2>2
<1> HIDE DEF r
<1>4. Len(Script[r]) \in Nat /\ Len(Script[r]) >= 2
  BY ONLY <1>3, Places
<1>5. Len(sent) = 0 /\ Len(parsed) = 0 /\ Len(built) = 0
  BY ONLY <1>1
<1>6. SentInv(r)
  <2>1. sent \in Seq(Records) /\ built \in Seq(FramedOver(Byte))
    BY ONLY <1>1
  <2> QED BY ONLY <1>4, <1>5, <2>1 DEF SentInv
<1>7. ParsedInv(r)
  <2>1. parsed \in Seq(Readings)
    BY ONLY <1>1
  <2> QED BY ONLY <1>1, <1>5, <2>1 DEF ParsedInv
<1>8. StateInv(r)
  BY ONLY <1>3, <1>4, <1>5 DEF StateInv
<1> QED BY ONLY <1>2, <1>3, <1>6, <1>7, <1>8 DEF HandshakeInv

LEMMA RoleIs ==
  ASSUME NEW r \in {"A", "B"}, StateInv(r), Role # "none"
  PROVE  Role = r /\ state \in Waiting
<1>1. state \in Waiting
  BY DEF Role, Waiting
<1> DEFINE i == Len(parsed) + 1
<1>2. i \in 1..Len(Script[r]) /\ state = Script[r][i]
  BY ONLY <1>1, StateInv(r) DEF StateInv
<1> HIDE DEF i
<1>3. \/ r = "A" /\ (state = "status" \/ state = "challenge" \/ state = "ack")
      \/ r = "B" /\ (state = "name" \/ state = "reply")
  <2>1. \/ r = "A" /\ i = 1 /\ Script[r][i] = "status"
        \/ r = "A" /\ i = 2 /\ Script[r][i] = "challenge"
        \/ r = "A" /\ i = 3 /\ Script[r][i] = "ack"
        \/ r = "B" /\ i = 1 /\ Script[r][i] = "name"
        \/ r = "B" /\ i = 2 /\ Script[r][i] = "reply"
    BY ONLY <1>2, PlaceCases, r \in {"A", "B"}
  <2>2. state = Script[r][i]
    BY ONLY <1>2
  <2> QED BY ONLY <2>1, <2>2
<1> QED BY <1>1, <1>3 DEF Role

(***************************************************************************)
(* The other node sends.                                                   *)
(***************************************************************************)
LEMMA SendsInv ==
  ASSUME InOrder, NEW r \in {"A", "B"}, SentInv(r), ParsedInv(r), StateInv(r), Due,
         NEW x \in Records, NEW m, Carries(x, m), OnlyRole(x.kind, Len(sent) + 1, r),
         Sends(x, m)
  PROVE  HandshakeInv'
<1>1. /\ sent' = Append(sent, x) /\ built' = Append(built, m) /\ network' = network \o m
      /\ incomplete' = incomplete /\ msgs' = msgs /\ taken' = taken
      /\ state' = state /\ parsed' = parsed
  BY ONLY Sends(x, m) DEF Sends, write
<1>2. m \in FramedOver(Byte)
  <2>1. "name" \in Waiting
    BY DEF Waiting
  <2> QED BY ONLY <2>1, Carries(x, m), Carried
<1>3. InOrder'
  <2>1. Order(built, taken, msgs, incomplete, network, Byte)
    BY ONLY InOrder DEF InOrder
  <2>2. Order(Append(built, m), taken, msgs, incomplete, network \o m, Byte)
    BY ONLY <1>2, <2>1, OrderWrite
  <2> QED BY ONLY <1>1, <2>2 DEF InOrder
<1> DEFINE n == Len(sent)
<1>4. n < Len(Script[r]) /\ Len(Script[r]) \in Nat
  <2>1. Role = r
    BY ONLY RoleIs, r \in {"A", "B"}, StateInv(r), Due DEF Due
  <2>2. Len(sent) < Len(Script[Role])
    BY ONLY Due DEF Due
  <2>3. Len(Script[r]) \in Nat
    BY ONLY Places, r \in {"A", "B"}
  <2> QED BY ONLY <2>1, <2>2, <2>3
<1>5. /\ sent \in Seq(Records) /\ built \in Seq(FramedOver(Byte)) /\ n \in Nat
      /\ Len(built) = n
      /\ \A i \in 1..n : Carries(sent[i], built[i]) /\ OnlyRole(sent[i].kind, i, r)
  BY ONLY SentInv(r), LenProperties DEF SentInv
<1> HIDE DEF n
<1>6. /\ sent' \in Seq(Records) /\ Len(sent') = n + 1 /\ sent'[n + 1] = x
      /\ \A i \in 1..n : sent'[i] = sent[i]
  <2>1. n = Len(sent)
    BY ONLY TRUE DEF n
  <2> QED BY ONLY <1>1, <1>5, <2>1, x \in Records, AppendProperties
<1>7. /\ built' \in Seq(FramedOver(Byte)) /\ Len(built') = n + 1 /\ built'[n + 1] = m
      /\ \A i \in 1..n : built'[i] = built[i]
  BY ONLY <1>1, <1>2, <1>5, AppendProperties
<1>8. SentInv(r)'
  <2>1. ASSUME NEW i \in 1..(n + 1)
        PROVE  Carries(sent'[i], built'[i]) /\ OnlyRole(sent'[i].kind, i, r)
    <3>1. CASE i = n + 1
      <4>1. OnlyRole(x.kind, n + 1, r)
        BY DEF n
      <4> QED BY ONLY <1>6, <1>7, <3>1, <4>1, Carries(x, m)
    <3>2. CASE i # n + 1
      <4>1. i \in 1..n
        BY ONLY <1>5, <3>2, i \in 1..(n + 1)
      <4>2. sent'[i] = sent[i] /\ built'[i] = built[i]
        BY ONLY <1>6, <1>7, <4>1
      <4> QED BY ONLY <1>5, <4>1, <4>2
    <3> QED BY ONLY <3>1, <3>2
  <2>2. n + 1 <= Len(Script[r])
    BY ONLY <1>4, <1>5
  <2> QED BY ONLY <1>6, <1>7, <2>1, <2>2 DEF SentInv
<1>9. ParsedInv(r)'
  <2>1. /\ parsed \in Seq(Readings) /\ taken = Len(parsed) /\ Len(parsed) <= n
        /\ \A i \in 1..Len(parsed) : parsed[i] = Parse(Script[r][i], built[i])
        /\ Len(parsed) \in Nat
    BY ONLY <1>5, ParsedInv(r), LenProperties DEF ParsedInv
  <2>2. ASSUME NEW i \in 1..Len(parsed)
        PROVE  parsed[i] = Parse(Script[r][i], built'[i])
    <3>1. i \in 1..n
      BY ONLY <1>5, <2>1, i \in 1..Len(parsed)
    <3>2. built'[i] = built[i]
      BY ONLY <1>7, <3>1
    <3> QED BY ONLY <2>1, <3>2, i \in 1..Len(parsed)
  <2>3. Len(parsed) <= n + 1
    BY ONLY <1>5, <2>1
  <2> QED BY ONLY <1>1, <1>7, <2>1, <2>2, <2>3 DEF ParsedInv
<1>10. StateInv(r)'
  BY ONLY <1>1, StateInv(r) DEF StateInv
<1> QED BY ONLY <1>3, <1>8, <1>9, <1>10, r \in {"A", "B"} DEF HandshakeInv

LEMMA FormatSets ==
  /\ Flags \subseteq Dword /\ Challenges \subseteq Dword /\ Digests \subseteq Digest
  /\ Versions \subseteq 0..max_word /\ capabilities \in Dword
  /\ supported_version \in 0..max_word
<1>1. /\ Versions \subseteq 0..max_word
      /\ \A f \in Flags \cup Challenges : f \in Seq(Byte) /\ Len(f) = 4
      /\ \A d \in Digests : d \in Seq(Byte) /\ Len(d) = 16
  BY ONLY FormatAssumption DEF FormatAssumption
<1>2. capabilities \in Seq(Byte) /\ Len(capabilities) = 4
  BY DEF capabilities, Byte
<1>3. supported_version \in 0..max_word
  BY MaxWord DEF supported_version
<1> QED BY ONLY <1>1, <1>2, <1>3 DEF Dword, Digest

\* Every message sent carries what the other node had in mind.
LEMMA SentName ==
  ASSUME NEW v \in 0..max_word, NEW f \in Dword, NEW x \in Names, NEW r,
         r = [kind |-> "name", version0 |-> v, version1 |-> SignedDword(f), name |-> x]
  PROVE  r \in Records /\ Carries(r, NameMsg(v, f, x)) /\ r.kind = "name"
<1>1. r \in Records
  BY DEF Records
<1>2. CarriesName(r, NameMsg(v, f, x))
  BY DEF CarriesName
<1> QED BY <1>1, <1>2 DEF Carries

LEMMA SentStatus ==
  ASSUME NEW x \in Statuses, NEW r, r = [kind |-> "status", status |-> x]
  PROVE  r \in Records /\ Carries(r, receive_status_g(x)) /\ r.kind = "status"
<1>1. r \in Records
  BY DEF Records
<1>2. CarriesStatus(r, receive_status_g(x))
  BY DEF CarriesStatus
<1> QED BY <1>1, <1>2 DEF Carries

LEMMA SentChallenge ==
  ASSUME NEW c \in Dword, NEW x \in Names, NEW r,
         r = [kind |-> "challenge", challenge |-> c, name |-> x]
  PROVE  r \in Records /\ Carries(r, send_challenge_g(c, x)) /\ r.kind = "challenge"
<1>1. r \in Records
  BY DEF Records
<1>2. CarriesChallenge(r, send_challenge_g(c, x))
  BY DEF CarriesChallenge
<1> QED BY <1>1, <1>2 DEF Carries

LEMMA SentReply ==
  ASSUME NEW c \in Dword, NEW d \in Digest, NEW r,
         r = [kind |-> "reply", challenge |-> c, digest |-> d]
  PROVE  r \in Records /\ Carries(r, challenge_reply(c, d)) /\ r.kind = "reply"
<1>1. r \in Records
  BY DEF Records
<1>2. CarriesReply(r, challenge_reply(c, d))
  BY DEF CarriesReply
<1> QED BY <1>1, <1>2 DEF Carries

LEMMA SentAck ==
  ASSUME NEW d \in Digest, NEW r, r = [kind |-> "ack", digest |-> d]
  PROVE  r \in Records /\ Carries(r, send_challenge_ack_g(d)) /\ r.kind = "ack"
<1>1. r \in Records
  BY DEF Records
<1>2. CarriesAck(r, send_challenge_ack_g(d))
  BY DEF CarriesAck
<1> QED BY <1>1, <1>2 DEF Carries

LEMMA SentForeign ==
  ASSUME NEW m \in Messages, NEW r, r = [kind |-> "foreign"]
  PROVE  r \in Records /\ Carries(r, m) /\ r.kind = "foreign"
<1>1. r \in Records
  BY DEF Records
<1>2. CarriesForeign(r, m)
  BY DEF CarriesForeign
<1> QED BY <1>1, <1>2 DEF Carries

LEMMA PeerInv ==
  ASSUME InOrder, NEW r \in {"A", "B"}, SentInv(r), ParsedInv(r), StateInv(r), Due,
         \/ DueKind = "name" /\ peer_sends_own_name
         \/ DueKind = "name" /\ peer_sends_name
         \/ DueKind = "status" /\ peer_sends_status
         \/ DueKind \in {"challenge", "name", "status"} /\ peer_sends_challenge
         \/ DueKind = "reply" /\ peer_sends_reply
         \/ DueKind \in {"ack", "reply", "challenge"} /\ peer_sends_ack
         \/ DueKind = "challenge" /\ peer_sends_own_name
         \/ peer_sends_foreign
  PROVE  HandshakeInv'
<1> DEFINE i == Len(sent) + 1
           k == Script[r][i]
<1>1. i \in 1..Len(Script[r]) /\ DueKind = k
  <2>1. Role = r
    BY ONLY RoleIs, r \in {"A", "B"}, StateInv(r), Due DEF Due
  <2>2. Len(sent) < Len(Script[r]) /\ Len(sent) \in Nat /\ Len(Script[r]) \in Nat
    <3>1. Len(sent) < Len(Script[Role])
      BY ONLY Due DEF Due
    <3>2. sent \in Seq(Records)
      BY ONLY SentInv(r) DEF SentInv
    <3> QED BY ONLY <2>1, <3>1, <3>2, r \in {"A", "B"}, Places, LenProperties
  <2>3. DueKind = k
    BY ONLY <2>1 DEF DueKind
  <2> QED BY ONLY <2>2, <2>3
<1> HIDE DEF i
<1>2. ASSUME NEW x \in Records, NEW m, Carries(x, m), Sends(x, m),
             \/ k = "name" /\ x.kind = "name"
             \/ k = "status" /\ x.kind = "status"
             \/ k \in {"challenge", "name", "status"} /\ x.kind = "challenge"
             \/ k = "reply" /\ x.kind = "reply"
             \/ k \in {"ack", "reply", "challenge"} /\ x.kind = "ack"
             \/ k = "challenge" /\ x.kind = "name"
             \/ x.kind = "foreign"
      PROVE  HandshakeInv'
  <2>1. OnlyRole(x.kind, i, r)
    BY ONLY <1>1, <1>2, r \in {"A", "B"}, OnlyHere
  <2>2. OnlyRole(x.kind, Len(sent) + 1, r)
    BY ONLY <2>1 DEF i
  <2> QED BY ONLY <1>2, <2>2, InOrder, r \in {"A", "B"}, SentInv(r), ParsedInv(r),
                  StateInv(r), Due, SendsInv
<1> HIDE DEF k
<1>3. CASE (k = "name" \/ k = "challenge") /\ peer_sends_own_name
  <2>1. PICK x \in Names :
          Sends([kind |-> "name", version0 |-> supported_version,
                 version1 |-> SignedDword(capabilities), name |-> x], send_name(x))
    BY ONLY <1>3 DEF peer_sends_own_name
  <2> DEFINE y == [kind |-> "name", version0 |-> supported_version,
                   version1 |-> SignedDword(capabilities), name |-> x]
             m == NameMsg(supported_version, capabilities, x)
  <2>2. y \in Records /\ Carries(y, m) /\ y.kind = "name"
    BY ONLY SentName, FormatSets, x \in Names
  <2>3. Sends(y, m)
    BY ONLY <2>1 DEF send_name
  <2> HIDE DEF y, m
  <2> QED BY ONLY <1>2, <1>3, <2>2, <2>3
<1>4. CASE k = "name" /\ peer_sends_name
  <2>1. PICK v \in Versions, f \in Flags, x \in Names :
          Sends([kind |-> "name", version0 |-> v, version1 |-> SignedDword(f), name |-> x],
                NameMsg(v, f, x))
    BY ONLY <1>4 DEF peer_sends_name
  <2> DEFINE y == [kind |-> "name", version0 |-> v, version1 |-> SignedDword(f), name |-> x]
             m == NameMsg(v, f, x)
  <2>2. y \in Records /\ Carries(y, m) /\ y.kind = "name"
    BY ONLY SentName, FormatSets, v \in Versions, f \in Flags, x \in Names
  <2>3. Sends(y, m)
    BY ONLY <2>1
  <2> HIDE DEF y, m
  <2> QED BY ONLY <1>2, <1>4, <2>2, <2>3
<1>5. CASE k = "status" /\ peer_sends_status
  <2>1. PICK x \in Statuses : Sends([kind |-> "status", status |-> x], receive_status_g(x))
    BY ONLY <1>5 DEF peer_sends_status
  <2> DEFINE y == [kind |-> "status", status |-> x]
             m == receive_status_g(x)
  <2>2. y \in Records /\ Carries(y, m) /\ y.kind = "status"
    BY ONLY SentStatus, x \in Statuses
  <2>3. Sends(y, m)
    BY ONLY <2>1
  <2> HIDE DEF y, m
  <2> QED BY ONLY <1>2, <1>5, <2>2, <2>3
<1>6. CASE k \in {"challenge", "name", "status"} /\ peer_sends_challenge
  <2>1. PICK c \in Challenges, x \in Names :
          Sends([kind |-> "challenge", challenge |-> c, name |-> x], send_challenge_g(c, x))
    BY ONLY <1>6 DEF peer_sends_challenge
  <2> DEFINE y == [kind |-> "challenge", challenge |-> c, name |-> x]
             m == send_challenge_g(c, x)
  <2>2. y \in Records /\ Carries(y, m) /\ y.kind = "challenge"
    BY ONLY SentChallenge, FormatSets, c \in Challenges, x \in Names
  <2>3. Sends(y, m)
    BY ONLY <2>1
  <2> HIDE DEF y, m
  <2> QED BY ONLY <1>2, <1>6, <2>2, <2>3
<1>7. CASE k = "reply" /\ peer_sends_reply
  <2>1. PICK c \in Challenges, d \in Digests :
          Sends([kind |-> "reply", challenge |-> c, digest |-> d], challenge_reply(c, d))
    BY ONLY <1>7 DEF peer_sends_reply
  <2> DEFINE y == [kind |-> "reply", challenge |-> c, digest |-> d]
             m == challenge_reply(c, d)
  <2>2. y \in Records /\ Carries(y, m) /\ y.kind = "reply"
    BY ONLY SentReply, FormatSets, c \in Challenges, d \in Digests
  <2>3. Sends(y, m)
    BY ONLY <2>1
  <2> HIDE DEF y, m
  <2> QED BY ONLY <1>2, <1>7, <2>2, <2>3
<1>8. CASE k \in {"ack", "reply", "challenge"} /\ peer_sends_ack
  <2>1. PICK d \in Digests :
          Sends([kind |-> "ack", digest |-> d], send_challenge_ack_g(d))
    BY ONLY <1>8 DEF peer_sends_ack
  <2> DEFINE y == [kind |-> "ack", digest |-> d]
             m == send_challenge_ack_g(d)
  <2>2. y \in Records /\ Carries(y, m) /\ y.kind = "ack"
    BY ONLY SentAck, FormatSets, d \in Digests
  <2>3. Sends(y, m)
    BY ONLY <2>1
  <2> HIDE DEF y, m
  <2> QED BY ONLY <1>2, <1>8, <2>2, <2>3
<1>9. CASE peer_sends_foreign
  <2>1. PICK m \in Messages : Sends([kind |-> "foreign"], m)
    BY ONLY <1>9 DEF peer_sends_foreign
  <2> DEFINE y == [kind |-> "foreign"]
  <2>2. y \in Records /\ Carries(y, m) /\ y.kind = "foreign"
    BY ONLY SentForeign, m \in Messages
  <2>3. Sends(y, m)
    BY ONLY <2>1
  <2> HIDE DEF y
  <2> QED BY ONLY <1>2, <2>2, <2>3
<1> QED BY <1>1, <1>3, <1>4, <1>5, <1>6, <1>7, <1>8, <1>9

(***************************************************************************)
(* A read.  With the first of the whole messages the state reaches the     *)
(* next place, and a challenge behind a status is handled at once.         *)
(***************************************************************************)
LEMMA Taken ==
  ASSUME NEW r \in {"A", "B"}, SentInv(r), ParsedInv(r), StateInv(r), state \in Waiting,
         NEW all \in Seq(FramedOver(Byte)), all # <<>>, taken + Len(all) <= Len(built),
         \A i \in 1..Len(all) : all[i] = built[taken + i],
         NEW xs, xs = receive_challenge(Parse(state, Head(all)), Tail(all))
  PROVE  /\ Len(xs) \in 1..Len(all) /\ xs \in Seq(Readings)
         /\ taken + Len(xs) <= Len(Script[r])
         /\ \A i \in 1..Len(xs) : xs[i] = Parse(Script[r][taken + i], built[taken + i])
<1> DEFINE n == Len(all)
           p == taken + 1
           x == Parse(state, Head(all))
<1>1. /\ n \in Nat /\ n >= 1 /\ Head(all) = all[1] /\ all[1] \in Seq(Byte)
      /\ Tail(all) \in Seq(FramedOver(Byte)) /\ Len(Tail(all)) = n - 1
      /\ \A i \in 1..(n - 1) : Tail(all)[i] = all[i + 1]
  BY ONLY all \in Seq(FramedOver(Byte)), all # <<>>, FirstAndRest DEF FramedOver
<1>2. taken \in Nat /\ p \in 1..Len(Script[r]) /\ state = Script[r][p]
      /\ Len(Script[r]) \in Nat /\ p = taken + 1
  <2>1. taken = Len(parsed) /\ parsed \in Seq(Readings)
    BY ONLY ParsedInv(r) DEF ParsedInv
  <2>2. taken \in Nat
    BY ONLY <2>1, LenProperties
  <2>3. Len(parsed) + 1 \in 1..Len(Script[r]) /\ state = Script[r][Len(parsed) + 1]
    BY ONLY StateInv(r), state \in Waiting DEF StateInv
  <2> QED BY ONLY <2>1, <2>2, <2>3, Places, r \in {"A", "B"}
<1>3. all[1] = built[p]
  <2>1. 1 \in 1..Len(all)
    BY ONLY <1>1
  <2> QED BY ONLY <2>1, \A i \in 1..Len(all) : all[i] = built[taken + i]
<1>4. x = Parse(Script[r][p], built[p]) /\ x \in Readings
  <2>1. x = Parse(state, all[1])
    BY ONLY <1>1
  <2>2. x \in Readings
    BY ONLY <1>1, <2>1, state \in Waiting DEF Readings
  <2> QED BY ONLY <1>2, <1>3, <2>1, <2>2
<1> HIDE DEF n, x, p
<1>5. CASE After(x) = "challenge" /\ Tail(all) # <<>>
  <2> DEFINE y == Parse("challenge", Head(Tail(all)))
  <2>1. r = "A" /\ p = 1
    BY ONLY <1>2, <1>4, <1>5, r \in {"A", "B"}, Advance
  <2>2. Script[r][2] = "challenge" /\ Len(Script[r]) = 3
    BY ONLY <2>1, Places, r \in {"A", "B"}
  <2>3. n >= 2
    <3>1. Len(Tail(all)) # 0
      BY ONLY <1>1, <1>5, EmptySeq
    <3> DEFINE l == Len(Tail(all))
    <3>2. n \in Nat /\ n >= 1 /\ l = n - 1 /\ l # 0
      BY ONLY <1>1, <3>1
    <3> HIDE DEF l
    <3> QED BY ONLY <3>2
  <2>4. Head(Tail(all)) = all[2] /\ all[2] \in Seq(Byte)
    <3>1. Head(Tail(all)) = Tail(all)[1] /\ Tail(all)[1] \in FramedOver(Byte)
      BY ONLY <1>1, <1>5, FirstAndRest
    <3>2. 1 \in 1..(n - 1) /\ 1 + 1 = 2
      BY ONLY <1>1, <2>3
    <3> QED BY ONLY <1>1, <3>1, <3>2 DEF FramedOver
  <2>5. all[2] = built[2]
    <3>1. 2 \in 1..Len(all) /\ taken + 2 = 2
      BY ONLY <1>1, <1>2, <2>1, <2>3 DEF n
    <3> QED BY ONLY <3>1, \A i \in 1..Len(all) : all[i] = built[taken + i]
  <2>6. y = Parse(Script[r][2], built[2]) /\ y \in Readings
    <3>1. "challenge" \in Waiting
      BY DEF Waiting
    <3>2. y = Parse("challenge", all[2])
      BY ONLY <2>4
    <3> HIDE DEF y
    <3>3. y \in Readings
      BY ONLY <2>4, <3>1, <3>2 DEF Readings
    <3>4. y = Parse(Script[r][2], built[2])
      BY ONLY <2>2, <2>5, <3>2
    <3> QED BY ONLY <3>3, <3>4 DEF y
  <2>7. xs = <<x, y>>
    BY <1>5 DEF receive_challenge, x
  <2> HIDE DEF y
  <2>8. /\ Len(xs) = 2 /\ xs[1] = x /\ xs[2] = y /\ xs \in Seq(Readings)
    BY ONLY <1>4, <2>6, <2>7
  <2>9. taken = 0
    BY ONLY <1>2, <2>1
  <2>10. Len(xs) \in 1..Len(all) /\ taken + Len(xs) <= Len(Script[r])
    BY ONLY <1>1, <2>2, <2>3, <2>8, <2>9 DEF n
  <2>11. ASSUME NEW i \in 1..Len(xs)
         PROVE  xs[i] = Parse(Script[r][taken + i], built[taken + i])
    <3>1. (i = 1 \/ i = 2) /\ taken + i = i
      BY ONLY <2>8, <2>9, i \in 1..Len(xs)
    <3>2. xs[1] = Parse(Script[r][1], built[1])
      BY ONLY <1>4, <2>1, <2>8
    <3>3. xs[2] = Parse(Script[r][2], built[2])
      BY ONLY <2>6, <2>8
    <3> QED BY ONLY <3>1, <3>2, <3>3
  <2> QED BY ONLY <2>8, <2>10, <2>11
<1>6. CASE ~(After(x) = "challenge" /\ Tail(all) # <<>>)
  <2>1. xs = <<x>>
    BY <1>6 DEF receive_challenge, x
  <2>2. Len(xs) = 1 /\ xs[1] = x /\ xs \in Seq(Readings)
    BY ONLY <1>4, <2>1
  <2>3. Len(xs) \in 1..Len(all) /\ taken + Len(xs) <= Len(Script[r])
    BY ONLY <1>1, <1>2, <2>2 DEF n
  <2>4. ASSUME NEW i \in 1..Len(xs)
        PROVE  xs[i] = Parse(Script[r][taken + i], built[taken + i])
    <3>1. i = 1 /\ taken + i = p
      BY ONLY <1>2, <2>2, i \in 1..Len(xs)
    <3> QED BY ONLY <1>4, <2>2, <3>1
  <2> QED BY ONLY <2>2, <2>3, <2>4
<1> QED BY <1>5, <1>6

LEMMA ReadInv ==
  ASSUME InOrder, NEW r \in {"A", "B"}, SentInv(r), ParsedInv(r), StateInv(r),
         checked_read
  PROVE  HandshakeInv'
<1>1. PICK k \in {i \in 1..Len(network) : i <= read_buffer_size} :
        LET added == add(k)
            all   == msgs \o added.whole
            xs    == receive_challenge(Parse(state, Head(all)), Tail(all))
        IN  IF all # <<>>
              THEN /\ read(k, added, Len(xs))
                   /\ parsed' = parsed \o xs
                   /\ state' = After(Last(xs))
              ELSE read(k, added, 0) /\ UNCHANGED <<state, parsed>>
  BY ONLY checked_read DEF checked_read
<1>2. state \in Waiting /\ sent' = sent
  BY ONLY checked_read DEF checked_read
<1> DEFINE x == add(k)
           all == msgs \o x.whole
           xs == receive_challenge(Parse(state, Head(all)), Tail(all))
<1>3. IF all # <<>>
        THEN /\ read(k, x, Len(xs)) /\ parsed' = parsed \o xs
             /\ state' = After(Last(xs))
        ELSE read(k, x, 0) /\ state' = state /\ parsed' = parsed
  BY ONLY <1>1
<1>4. x = handle_new_condition(incomplete \o SubSeq(network, 1, k))
  BY ONLY TRUE DEF add
<1>5. all = msgs \o x.whole
  BY ONLY TRUE
<1>6. xs = receive_challenge(Parse(state, Head(all)), Tail(all))
  BY ONLY TRUE
<1>7. \A n : read(k, x, n) =>
         /\ network' = SubSeq(network, k + 1, Len(network))
         /\ incomplete' = x.rest /\ msgs' = SubSeq(all, n + 1, Len(all))
         /\ taken' = taken + n /\ built' = built
  BY ONLY TRUE DEF read
<1> HIDE DEF x, all, xs
<1>8. k \in 0..Len(network)
  <2>1. network \in Seq(Byte)
    BY ONLY InOrder DEF InOrder, Order
  <2>2. k \in 1..Len(network)
    OBVIOUS
  <2> QED BY ONLY <2>1, <2>2, LenProperties
<1>9. /\ all \in Seq(FramedOver(Byte)) /\ taken \in Nat /\ taken + Len(all) <= Len(built)
      /\ \A i \in 1..Len(all) : all[i] = built[taken + i]
      /\ \A n \in 0..Len(all) :
           Order(built, taken + n, SubSeq(all, n + 1, Len(all)), x.rest,
                 SubSeq(network, k + 1, Len(network)), Byte)
  <2>1. Order(built, taken, msgs, incomplete, network, Byte)
    BY ONLY InOrder DEF InOrder
  <2>2. all \in Seq(FramedOver(Byte))
    BY ONLY <1>4, <1>5, <1>8, <2>1, OrderRead
  <2>3. taken \in Nat /\ taken + Len(all) <= Len(built)
    BY ONLY <1>4, <1>5, <1>8, <2>1, OrderRead
  <2>4. \A i \in 1..Len(all) : all[i] = built[taken + i]
    <3>1. Follows(all, built, taken)
      BY ONLY <1>4, <1>5, <1>8, <2>1, OrderRead
    <3> QED BY ONLY <3>1 DEF Follows
  <2>5. \A n \in 0..Len(all) :
           Order(built, taken + n, SubSeq(all, n + 1, Len(all)), x.rest,
                 SubSeq(network, k + 1, Len(network)), Byte)
    BY ONLY <1>4, <1>5, <1>8, <2>1, OrderRead
  <2> QED BY ONLY <2>2, <2>3, <2>4, <2>5
<1>10. Len(all) \in Nat
  BY ONLY <1>9, LenProperties
<1>11. ASSUME NEW n \in 0..Len(all), read(k, x, n)
       PROVE  InOrder' /\ SentInv(r)' /\ taken' = taken + n /\ built' = built
  <2>1. /\ network' = SubSeq(network, k + 1, Len(network))
        /\ incomplete' = x.rest /\ msgs' = SubSeq(all, n + 1, Len(all))
        /\ taken' = taken + n /\ built' = built
    BY ONLY <1>7, <1>11
  <2>2. Order(built, taken + n, SubSeq(all, n + 1, Len(all)), x.rest,
              SubSeq(network, k + 1, Len(network)), Byte)
    BY ONLY <1>9, n \in 0..Len(all)
  <2>3. InOrder'
    BY ONLY <2>1, <2>2 DEF InOrder
  <2>4. SentInv(r)'
    BY ONLY <1>2, <2>1, SentInv(r) DEF SentInv
  <2> QED BY ONLY <2>1, <2>3, <2>4
<1>12. CASE all = <<>>
  <2>1. read(k, x, 0) /\ state' = state /\ parsed' = parsed
    BY ONLY <1>3, <1>12
  <2>2. 0 \in 0..Len(all)
    BY ONLY <1>10
  <2>3. InOrder' /\ SentInv(r)' /\ taken' = taken + 0 /\ built' = built
    BY ONLY <1>11, <2>1, <2>2
  <2>4. taken' = taken
    BY ONLY <1>9, <2>3
  <2>5. ParsedInv(r)' /\ StateInv(r)'
    BY ONLY <2>1, <2>3, <2>4, ParsedInv(r), StateInv(r) DEF ParsedInv, StateInv
  <2> QED BY ONLY <2>3, <2>5, r \in {"A", "B"} DEF HandshakeInv
<1>13. CASE all # <<>>
  <2> DEFINE n == Len(xs)
             z == Len(parsed)
  <2>1. /\ n \in 1..Len(all) /\ xs \in Seq(Readings)
        /\ taken + n <= Len(Script[r])
        /\ \A i \in 1..n : xs[i] = Parse(Script[r][taken + i], built[taken + i])
    <3>1. /\ all \in Seq(FramedOver(Byte)) /\ all # <<>>
          /\ taken + Len(all) <= Len(built)
          /\ \A i \in 1..Len(all) : all[i] = built[taken + i]
      BY ONLY <1>9, <1>13
    <3>2. Len(xs) \in 1..Len(all) /\ xs \in Seq(Readings)
      BY ONLY <1>2, <1>6, <3>1, r \in {"A", "B"}, SentInv(r), ParsedInv(r),
              StateInv(r), Taken
    <3>3. taken + Len(xs) <= Len(Script[r])
      BY ONLY <1>2, <1>6, <3>1, r \in {"A", "B"}, SentInv(r), ParsedInv(r),
              StateInv(r), Taken
    <3>4. \A i \in 1..Len(xs) : xs[i] = Parse(Script[r][taken + i], built[taken + i])
      BY ONLY <1>2, <1>6, <3>1, r \in {"A", "B"}, SentInv(r), ParsedInv(r),
              StateInv(r), Taken
    <3> QED BY ONLY <3>2, <3>3, <3>4
  <2>2. read(k, x, n) /\ parsed' = parsed \o xs /\ state' = After(Last(xs))
    BY ONLY <1>3, <1>13
  <2>3. n \in 0..Len(all) /\ n \in Nat /\ n >= 1
    BY ONLY <1>10, <2>1
  <2>4. InOrder' /\ SentInv(r)' /\ taken' = taken + n /\ built' = built
    BY ONLY <1>11, <2>2, <2>3
  <2>5. /\ parsed \in Seq(Readings) /\ taken = z /\ z \in Nat
        /\ \A i \in 1..z : parsed[i] = Parse(Script[r][i], built[i])
    BY ONLY ParsedInv(r), LenProperties DEF ParsedInv
  <2>6. Last(xs) = xs[n]
    BY ONLY TRUE DEF Last
  <2>7. /\ parsed' \in Seq(Readings) /\ Len(parsed') = z + n
        /\ \A i \in 1..z : parsed'[i] = parsed[i]
        /\ \A i \in 1..n : parsed'[z + i] = xs[i]
    <3> DEFINE q == parsed \o xs
    <3>1. /\ q \in Seq(Readings) /\ Len(q) = Len(parsed) + Len(xs)
          /\ \A i \in 1..Len(parsed) : q[i] = parsed[i]
          /\ \A i \in 1..Len(xs) : q[Len(parsed) + i] = xs[i]
      BY ONLY <2>1, <2>5, Glued
    <3>2. parsed' = q
      BY ONLY <2>2
    <3> HIDE DEF q
    <3> QED BY ONLY <3>1, <3>2
  <2> HIDE DEF n, z
  <2>8. ASSUME NEW i \in 1..(z + n)
        PROVE  parsed'[i] = Parse(Script[r][i], built[i])
    <3>1. CASE i <= z
      <4>1. i \in 1..z
        BY ONLY <2>5, <3>1, i \in 1..(z + n)
      <4> QED BY ONLY <2>5, <2>7, <4>1
    <3>2. CASE i > z
      <4> DEFINE j == i - z
      <4>1. j \in 1..n /\ z + j = i /\ taken + j = i
        BY ONLY <2>3, <2>5, <3>2, i \in 1..(z + n)
      <4> HIDE DEF j
      <4>2. parsed'[z + j] = xs[j] /\ xs[j] = Parse(Script[r][taken + j], built[taken + j])
        BY ONLY <2>1, <2>7, <4>1
      <4> QED BY ONLY <4>1, <4>2
    <3> QED BY ONLY <2>3, <2>5, <3>1, <3>2, i \in 1..(z + n)
  <2>9. ParsedInv(r)'
    <3>1. taken' = Len(parsed')
      BY ONLY <2>4, <2>5, <2>7
    <3>2. Len(parsed') <= Len(built')
      <4>1. Len(built) \in Nat
        BY ONLY SentInv(r), LenProperties DEF SentInv
      <4> QED BY ONLY <1>9, <1>10, <2>1, <2>3, <2>4, <2>5, <2>7, <4>1
    <3>3. \A i \in 1..Len(parsed') : parsed'[i] = Parse(Script[r][i], built'[i])
      BY ONLY <2>4, <2>7, <2>8
    <3> QED BY ONLY <2>7, <3>1, <3>2, <3>3 DEF ParsedInv
  <2>10. StateInv(r)'
    <3> DEFINE p == z + n
               y == parsed'[p]
    <3>1. p \in 1..Len(Script[r]) /\ p \in 1..(z + n) /\ p # 0 /\ Len(parsed') = p
      BY ONLY <2>1, <2>3, <2>5, <2>7, Places, r \in {"A", "B"}
    <3>2. y = Parse(Script[r][p], built[p])
      BY ONLY <2>8, <3>1
    <3>3. state' = After(y)
      <4>1. n \in 1..n
        BY ONLY <2>3
      <4> QED BY ONLY <2>2, <2>6, <2>7, <4>1
    <3> HIDE DEF p, y
    <3>4. After(y) \in Waiting =>
            p + 1 \in 1..Len(Script[r]) /\ After(y) = Script[r][p + 1]
      BY ONLY <3>1, <3>2, r \in {"A", "B"}, Advance
    <3>5. y = parsed'[Len(parsed')]
      BY ONLY <3>1 DEF y
    <3> QED BY ONLY <3>1, <3>3, <3>4, <3>5 DEF StateInv
  <2> QED BY ONLY <2>4, <2>9, <2>10, r \in {"A", "B"} DEF HandshakeInv
<1> QED BY <1>12, <1>13

LEMMA InvNext == HandshakeInv /\ [Next]_vars => HandshakeInv'
<1> SUFFICES ASSUME HandshakeInv, [Next]_vars PROVE HandshakeInv'
  OBVIOUS
<1>1. InOrder
  BY DEF HandshakeInv
<1>2. PICK r \in {"A", "B"} : SentInv(r) /\ ParsedInv(r) /\ StateInv(r)
  BY DEF HandshakeInv
<1>3. CASE UNCHANGED vars
  <2>1. /\ network' = network /\ incomplete' = incomplete /\ msgs' = msgs
        /\ built' = built /\ taken' = taken /\ state' = state /\ sent' = sent
        /\ parsed' = parsed
    BY ONLY <1>3 DEF vars, lexer_vars
  <2>2. InOrder'
    BY ONLY <1>1, <2>1 DEF InOrder
  <2>3. SentInv(r)' /\ ParsedInv(r)' /\ StateInv(r)'
    BY ONLY <1>2, <2>1 DEF SentInv, ParsedInv, StateInv
  <2> QED BY ONLY <2>2, <2>3, r \in {"A", "B"} DEF HandshakeInv
<1>4. CASE checked_read
  BY ONLY <1>1, <1>2, <1>4, r \in {"A", "B"}, ReadInv
<1>5. CASE Due /\
           \/ DueKind = "name" /\ peer_sends_own_name
           \/ DueKind = "name" /\ peer_sends_name
           \/ DueKind = "status" /\ peer_sends_status
           \/ DueKind \in {"challenge", "name", "status"} /\ peer_sends_challenge
           \/ DueKind = "reply" /\ peer_sends_reply
           \/ DueKind \in {"ack", "reply", "challenge"} /\ peer_sends_ack
           \/ DueKind = "challenge" /\ peer_sends_own_name
           \/ peer_sends_foreign
  BY ONLY <1>1, <1>2, <1>5, r \in {"A", "B"}, PeerInv
<1> QED BY <1>3, <1>4, <1>5 DEF Next

LEMMA HandshakeInvariant == Spec => []HandshakeInv
BY InvInit, InvNext, PTL DEF Spec

(***************************************************************************)
(* What the invariant says of one message that was parsed.                 *)
(***************************************************************************)
LEMMA ParsedPlace ==
  ASSUME NEW r \in {"A", "B"}, SentInv(r), ParsedInv(r), NEW i \in 1..Len(parsed)
  PROVE  /\ i \in DOMAIN sent /\ sent[i] \in Records
         /\ i \in 1..Len(Script[r]) /\ Script[r][i] \in Waiting
         /\ Restores(parsed[i], Script[r][i], sent[i])
         /\ InPlace(i) <=> sent[i].kind = Script[r][i]
<1> DEFINE n == Len(sent)
           z == Len(parsed)
           l == Len(Script[r])
<1>1. n \in Nat /\ z \in Nat /\ l \in Nat /\ z <= n /\ n <= l /\ DOMAIN sent = 1..n
      /\ DOMAIN Script[r] = 1..l
  <2>1. sent \in Seq(Records) /\ Len(sent) = Len(built) /\ Len(sent) <= Len(Script[r])
    BY ONLY SentInv(r) DEF SentInv
  <2>2. parsed \in Seq(Readings) /\ Len(parsed) <= Len(built)
    BY ONLY ParsedInv(r) DEF ParsedInv
  <2> QED BY ONLY <2>1, <2>2, LenProperties, Places, r \in {"A", "B"}
<1>2. i \in 1..n /\ i \in 1..l
  <2>1. i \in 1..z
    OBVIOUS
  <2> HIDE DEF n, z, l
  <2> QED BY ONLY <1>1, <2>1
<1>3. sent[i] \in Records /\ Carries(sent[i], built[i]) /\ OnlyRole(sent[i].kind, i, r)
  <2>1. sent \in Seq(Records)
        /\ \A j \in 1..n : Carries(sent[j], built[j]) /\ OnlyRole(sent[j].kind, j, r)
    BY ONLY SentInv(r) DEF SentInv
  <2>2. sent[i] \in Records
    BY ONLY <1>2, <2>1, ElementOfSeq
  <2> QED BY ONLY <1>2, <2>1, <2>2
<1>4. parsed[i] = Parse(Script[r][i], built[i])
  BY ONLY ParsedInv(r), i \in 1..Len(parsed) DEF ParsedInv
<1>5. Script[r][i] \in Waiting
  BY ONLY <1>2, PlaceCases, r \in {"A", "B"}
<1>6. Restores(parsed[i], Script[r][i], sent[i])
  BY ONLY <1>3, <1>4, <1>5, Carried
<1>7. InPlace(i) => sent[i].kind = Script[r][i]
  BY ONLY <1>3 DEF InPlace, OnlyRole
<1>8. sent[i].kind = Script[r][i] => InPlace(i)
  BY ONLY <1>1, <1>2, r \in {"A", "B"} DEF InPlace
<1> QED BY ONLY <1>1, <1>2, <1>3, <1>5, <1>6, <1>7, <1>8

LEMMA InvParsed == HandshakeInv => ParsedAsSent
<1> SUFFICES ASSUME HandshakeInv, NEW i \in DOMAIN parsed
             PROVE  /\ i \in DOMAIN sent
                    /\ IF InPlace(i)
                         THEN parsed[i] = sent[i]
                         ELSE \/ parsed[i] = Failure
                              \/ {parsed[i].kind, sent[i].kind} = {"name", "challenge"}
  BY DEF ParsedAsSent
<1>1. PICK r \in {"A", "B"} : SentInv(r) /\ ParsedInv(r) /\ StateInv(r)
  BY DEF HandshakeInv
<1>2. i \in 1..Len(parsed)
  <2>1. parsed \in Seq(Readings)
    BY ONLY <1>1 DEF ParsedInv
  <2> QED BY ONLY <2>1, LenProperties, i \in DOMAIN parsed
<1>3. /\ i \in DOMAIN sent /\ Restores(parsed[i], Script[r][i], sent[i])
      /\ InPlace(i) <=> sent[i].kind = Script[r][i]
  BY ONLY <1>1, <1>2, r \in {"A", "B"}, ParsedPlace
<1> QED BY ONLY <1>3 DEF Restores

LEMMA NameRecord ==
  ASSUME NEW y \in Records, y.kind = "name"
  PROVE  y.version0 \in Int /\ y.version1 \in Int
<1>1. PICK v \in 0..max_word, f \in Dword, x \in Names :
        y = [kind |-> "name", version0 |-> v, version1 |-> SignedDword(f), name |-> x]
  BY DEF Records
<1>2. SignedDword(f) \in Int
  <2>1. f[1] \in Int /\ f[2] \in Int /\ f[3] \in Int /\ f[4] \in Int
    <3>1. f \in Seq(Byte) /\ Len(f) = 4
      BY DEF Dword
    <3>2. f[1] \in Byte /\ f[2] \in Byte /\ f[3] \in Byte /\ f[4] \in Byte
      <4>1. /\ 1 \in 1..Len(f) /\ 2 \in 1..Len(f) /\ 3 \in 1..Len(f)
            /\ 4 \in 1..Len(f)
        BY ONLY <3>1
      <4>2. \A j \in 1..Len(f) : f[j] \in Byte
        BY ONLY <3>1, ElementOfSeq
      <4> QED BY ONLY <4>1, <4>2
    <3> QED BY ONLY <3>2 DEF Byte
  <2> QED BY ONLY <2>1 DEF SignedDword
<1>3. v \in Int
  BY MaxWord
<1> QED BY ONLY <1>1, <1>2, <1>3

LEMMA InvTurnedAway == HandshakeInv => TurnedAwayForCause
<1> DEFINE p == Len(parsed)
           m == sent[p]
<1> SUFFICES ASSUME HandshakeInv, state \in {"failed", "stalled"}, InPlace(p)
             PROVE  \/ m.kind = "name" /\ (m.version0 > 5 \/ m.version1 < 5)
                    \/ m.kind = "status" /\ m.status \notin Ok
                    \/ m.kind \in {"reply", "ack"} /\ m.digest # own_digest
  BY DEF TurnedAwayForCause
<1>1. PICK r \in {"A", "B"} : SentInv(r) /\ ParsedInv(r) /\ StateInv(r)
  BY DEF HandshakeInv
<1>2. p \in 1..p /\ state = After(parsed[p])
  <2>1. p \in Nat
    BY ONLY <1>1, LenProperties DEF ParsedInv
  <2>2. state = IF p = 0 THEN Script[r][1] ELSE After(parsed[p])
    BY ONLY <1>1 DEF StateInv
  <2>3. Script[r][1] \notin {"failed", "stalled"}
    BY ONLY Places, r \in {"A", "B"}
  <2> HIDE DEF p
  <2>4. p # 0
    BY ONLY <2>2, <2>3, state \in {"failed", "stalled"}
  <2> QED BY ONLY <2>1, <2>2, <2>4
<1>3. m \in Records /\ m = parsed[p] /\ m.kind \in Waiting
  <2>1. /\ sent[p] \in Records /\ Script[r][p] \in Waiting
        /\ Restores(parsed[p], Script[r][p], sent[p])
        /\ InPlace(p) <=> sent[p].kind = Script[r][p]
    BY ONLY <1>1, <1>2, r \in {"A", "B"}, ParsedPlace
  <2> QED BY ONLY <2>1, InPlace(p) DEF Restores
<1>4. state = After(m)
  BY ONLY <1>2, <1>3
<1> HIDE DEF m
<1>5. CASE m.kind = "name"
  <2>1. ~supports(m)
    BY ONLY <1>4, <1>5, AfterCases, state \in {"failed", "stalled"}
  <2>2. m.version0 \in Int /\ m.version1 \in Int
    BY ONLY <1>3, <1>5, NameRecord
  <2>3. m.version0 > 5 \/ m.version1 < 5
    BY ONLY <2>1, <2>2 DEF supports, supported_version
  <2> QED BY ONLY <1>5, <2>3
<1>6. CASE m.kind = "status"
  BY ONLY <1>4, <1>6, AfterCases, state \in {"failed", "stalled"}
<1>7. CASE m.kind = "challenge"
  BY ONLY <1>4, <1>7, AfterCases, state \in {"failed", "stalled"}
<1>8. CASE m.kind = "reply"
  BY ONLY <1>4, <1>8, AfterCases, state \in {"failed", "stalled"}
<1>9. CASE m.kind = "ack"
  BY ONLY <1>4, <1>9, AfterCases, state \in {"failed", "stalled"}
<1> QED BY ONLY <1>3, <1>5, <1>6, <1>7, <1>8, <1>9 DEF Waiting

(***************************************************************************)
(* ParsedAsSent for all names, versions, flags, statuses, challenges and   *)
(* digests, and every way the stream is cut into reads: the state that     *)
(* waits for a message reads what the generator of the other node was      *)
(* given (handshake_grammar.h), and refuses a message out of place unless  *)
(* it is a name taken for a challenge or a challenge for a name.           *)
(***************************************************************************)
THEOREM HandshakeParsed == Spec => []ParsedAsSent
BY HandshakeInvariant, InvParsed, PTL

(***************************************************************************)
(* TurnedAwayForCause: a handshake ends without a connection only after a  *)
(* message out of place, a version or flags out of range, a status other   *)
(* than ok or a wrong digest (node_connection_state.cpp).                  *)
(***************************************************************************)
THEOREM HandshakeTurnedAway == Spec => []TurnedAwayForCause
BY HandshakeInvariant, InvTurnedAway, PTL

(***************************************************************************)
(* Framing in the handshake: the lexer with the length field of two bytes  *)
(* cuts what the generators wrote where they wrote it (utils.cpp).         *)
(***************************************************************************)
THEOREM HandshakeFraming == Spec => []Framing
<1>1. HandshakeInv => Framing
  BY OrderFraming DEF HandshakeInv, InOrder
<1> QED BY <1>1, HandshakeInvariant, PTL
=============================================================================
