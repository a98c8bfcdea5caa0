--------------------------- MODULE NodeLinksProofs ----------------------------
(***************************************************************************)
(* Proofs about NodeLinks, for any number of threads, mailboxes, remote    *)
(* processes and names: a mailbox that its client holds and has not closed *)
(* can be reached, deliveries exclude each other, and a thread waits for a *)
(* mutex it holds only in a destructor run at the end of a delivery; the   *)
(* linker stores a link once, the end of a link is lost only by a throw,   *)
(* and a link between two mailboxes is reported at most once.              *)
(***************************************************************************)
EXTENDS NodeLinks, SequenceTheorems, WellFoundedInduction, FiniteSetTheorems, TLAPS

-----------------------------------------------------------------------------
(***************************************************************************)
(* Induction over the natural numbers, from the well-foundedness of <: a   *)
(* set of numbers has a least element, and a set that holds 0 and with     *)
(* each number the next one holds them all.                                *)
(***************************************************************************)
LEMMA LeastNat ==
  ASSUME NEW T \in SUBSET Nat, T # {}
  PROVE  \E x \in T : \A y \in T : x <= y
<1> DEFINE R == OpToRel(<, Nat)
<1>1. IsWellFoundedOn(R, Nat)
  BY NatLessThanWellFounded
<1>2. \A x, y \in Nat : <<y, x>> \in R <=> y < x
  BY DEF OpToRel
<1> HIDE DEF R
<1>3. PICK x \in T : \A y \in T : ~(<<y, x>> \in R)
  BY <1>1, WFMin
<1>4. \A y \in T : ~(y < x)
  BY <1>2, <1>3
<1>5. \A y \in T : x <= y
  BY <1>4
<1> QED BY <1>5

LEMMA SetInduction ==
  ASSUME NEW S \in SUBSET Nat, 0 \in S, \A n \in S : n + 1 \in S
  PROVE  S = Nat
<1> SUFFICES ASSUME S # Nat PROVE FALSE
  OBVIOUS
<1>1. PICK x \in Nat \ S : \A y \in Nat \ S : x <= y
  BY LeastNat
<1>2. x - 1 \in Nat /\ x - 1 < x /\ (x-1) + 1 = x
  BY <1>1
<1> QED BY <1>1, <1>2

-----------------------------------------------------------------------------
(***************************************************************************)
(* The stacks.                                                             *)
(***************************************************************************)

(***************************************************************************)
(* The mailboxes somebody may close: the client has closed them or has let *)
(* go of them.                                                             *)
(***************************************************************************)
Doomed == created \ (held \ closed)

Frames(st, b, d, r) == [step : {st}, box : {b}, todo : {d}, ref : {r}]

WholeFrame(f) == f \in Frames(f.step, f.box, f.todo, f.ref)

InClose(f, D) == f.step \in {"close_links", "notify"} /\ f.box \in D

(***************************************************************************)
(* The frame of a delivery, made for its own sake or by a close that tells *)
(* a linked mailbox of the end of another, in D.                           *)
(***************************************************************************)
InDelivery(f, D, C) ==
  /\ f.box \in D \cup {None}
  /\ f.step = "unlock" \/ (f.step = "release" /\ f.ref \in C)

(***************************************************************************)
(* A thread is idle, or in one call, or in the destructor of the mailbox   *)
(* it has delivered to.  C is the mailboxes created, D those doomed.       *)
(***************************************************************************)
InOrder(s, D, C) ==
  \/ s = <<>>
  \/ /\ s = <<s[1]>> /\ WholeFrame(s[1])
     /\ InClose(s[1], D) \/ InDelivery(s[1], D, C) \/ s[1].step = "store_link"
  \/ /\ s = <<s[1], s[2]>> /\ WholeFrame(s[1]) /\ WholeFrame(s[2])
     /\ s[1].step = "unlock" /\ InDelivery(s[1], D, C)
     /\ InClose(s[2], D)

Locks(s) == s # <<>> /\ s[1].step \in {"release", "unlock"}

(***************************************************************************)
(* The inductive invariant: each thread's stack is in order, the mutex is  *)
(* held by the thread that is in a delivery, and a name stands for a       *)
(* mailbox created with it.                                                *)
(***************************************************************************)
Stacks ==
  /\ stack = [t \in Threads |-> stack[t]]
  /\ \A t \in Threads : InOrder(stack[t], Doomed, created)

LockHeld ==
  \A t \in Threads : mailboxes_lock = t <=> Locks(stack[t])

Clients ==
  /\ created \subseteq Boxes /\ held \subseteq created
  /\ closed \subseteq created /\ posted \subseteq created \ held
  /\ mailboxes \subseteq created

NamesKept ==
  /\ registered \in [Names -> Boxes \cup {None}]
  /\ \A n \in Names : registered[n] # None =>
       registered[n] \in created /\ name_of[registered[n]] = n

Ordered == Stacks /\ LockHeld /\ Clients /\ NamesKept

DistinctNames ==
  \A a, b \in Boxes : name_of[a] = name_of[b] /\ name_of[a] # NoName => a = b

(***************************************************************************)
(* A thread waits for a mutex of its own only in a destructor that runs    *)
(* before the lock of a delivery is released.                              *)
(***************************************************************************)
DeadlockOnlyInDestructor ==
  \A t \in Threads :
    SelfDeadlock(t) => Len(stack[t]) = 2 /\ stack[t][1].step = "unlock"

-----------------------------------------------------------------------------
(***************************************************************************)
(* What the operations on a stack of at most two frames do.                *)
(***************************************************************************)
LEMMA OneFrame ==
  ASSUME NEW f, NEW g
  PROVE  /\ <<f>> # <<>> /\ Last(<<f>>) = f /\ Front(<<f>>) = <<>>
         /\ Append(<<>>, f) = <<f>> /\ Append(<<f>>, g) = <<f, g>>
         /\ <<f>>[1] = f /\ Len(<<f>>) = 1
<1>1. Len(<<f>>) = 1 /\ <<f>>[1] = f
  OBVIOUS
<1>2. Front(<<f>>) = <<>>
  BY <1>1 DEF Front
<1>3. Append(<<>>, f) = <<f>>
  OBVIOUS
<1>4. Append(<<f>>, g) = <<f, g>>
  <2> DEFINE u == Append(<<f>>, g)
             w == <<f, g>>
  <2>1. <<f>> \in Seq({f, g}) /\ g \in {f, g}
    OBVIOUS
  <2>2. u \in Seq({f, g}) /\ Len(u) = 2 /\ u[1] = f /\ u[2] = g
    BY <1>1, <2>1, AppendProperties
  <2>3. w \in Seq({f, g}) /\ Len(w) = 2 /\ w[1] = f /\ w[2] = g
    OBVIOUS
  <2> HIDE DEF u, w
  <2>4. \A i \in 1..2 : u[i] = w[i]
    BY <2>2, <2>3
  <2>5. u = w
    BY ONLY <2>2, <2>3, <2>4, SeqEqual
  <2> QED BY <2>5 DEF u, w
<1>5. Last(<<f>>) = f
  BY <1>1 DEF Last
<1>6. <<f>> # <<>>
  OBVIOUS
<1> QED BY <1>1, <1>2, <1>3, <1>4, <1>5, <1>6

LEMMA TwoFrames ==
  ASSUME NEW f, NEW g
  PROVE  /\ <<f, g>> # <<>> /\ Last(<<f, g>>) = g /\ Front(<<f, g>>) = <<f>>
         /\ <<f, g>>[1] = f /\ <<f, g>>[2] = g /\ Len(<<f, g>>) = 2
<1>1. Len(<<f, g>>) = 2 /\ <<f, g>>[1] = f /\ <<f, g>>[2] = g
  OBVIOUS
<1>2. Front(<<f, g>>) = <<f>>
  <2> DEFINE w == <<f, g>>
             v == SubSeq(w, 1, 1)
  <2>1. \A i \in 1..1 : w[i] \in {f}
    OBVIOUS
  <2>2. v \in Seq({f}) /\ Len(v) = 1 /\ \A i \in 1..1 : v[i] = w[1 + i - 1]
    BY <2>1, SubSeqProperties
  <2>3. v[1] = f
    BY <2>2
  <2>4. <<f>> \in Seq({f}) /\ Len(<<f>>) = 1 /\ <<f>>[1] = f
    OBVIOUS
  <2>5. Front(w) = v
    BY <1>1 DEF Front
  <2> HIDE DEF v
  <2>6. v = <<f>>
    BY ONLY <2>2, <2>3, <2>4, SeqEqual
  <2> QED BY <2>5, <2>6
<1> QED BY <1>1, <1>2 DEF Last

(***************************************************************************)
(* A stack in order stays in order when more mailboxes are created or      *)
(* doomed.                                                                 *)
(***************************************************************************)
LEMMA StaysInOrder ==
  ASSUME NEW s, NEW D, NEW C, NEW E, NEW F, InOrder(s, D, C),
         D \subseteq E, C \subseteq F
  PROVE  InOrder(s, E, F)
BY DEF InOrder, InClose, InDelivery

(***************************************************************************)
(* A thread's stack is replaced: the others stay as they are.              *)
(***************************************************************************)
LEMMA StackReplaced ==
  ASSUME Stacks, LockHeld, NEW t \in Threads, NEW s,
         stack' = [stack EXCEPT ![t] = s],
         Doomed \subseteq Doomed', created \subseteq created',
         InOrder(s, Doomed', created'),
         \/ mailboxes_lock' = mailboxes_lock /\ (Locks(s) <=> Locks(stack[t]))
         \/ mailboxes_lock = Free /\ mailboxes_lock' = t /\ Locks(s)
         \/ Locks(stack[t]) /\ mailboxes_lock' = Free /\ ~Locks(s)
  PROVE  Stacks' /\ LockHeld'
<1>1. /\ stack' = [u \in Threads |-> stack'[u]]
      /\ stack'[t] = s
      /\ \A u \in Threads \ {t} : stack'[u] = stack[u]
  BY DEF Stacks
<1>2. ASSUME NEW u \in Threads PROVE InOrder(stack'[u], Doomed', created')
  <2>1. CASE u = t
    BY <1>1, <2>1
  <2>2. CASE u # t
    <3>1. stack'[u] = stack[u] /\ InOrder(stack[u], Doomed, created)
      BY <1>1, <2>2 DEF Stacks
    <3> QED BY <3>1, StaysInOrder
  <2> QED BY <2>1, <2>2
<1>3. ASSUME NEW u \in Threads
      PROVE  mailboxes_lock' = u <=> Locks(stack'[u])
  <2>1. Free # u /\ Free # t
    BY NodeAssumption
  <2>2. mailboxes_lock = u <=> Locks(stack[u])
    BY DEF LockHeld
  <2>3. mailboxes_lock = t <=> Locks(stack[t])
    BY DEF LockHeld
  <2>4. CASE u = t
    BY <1>1, <2>1, <2>2, <2>4
  <2>5. CASE u # t
    BY <1>1, <2>1, <2>2, <2>3, <2>5
  <2> QED BY <2>4, <2>5
<1> QED BY <1>1, <1>2, <1>3 DEF Stacks, LockHeld

(***************************************************************************)
(* No stack changes, and neither does the lock.                            *)
(***************************************************************************)
LEMMA StacksKept ==
  ASSUME Stacks, LockHeld, UNCHANGED <<stack, mailboxes_lock>>,
         Doomed \subseteq Doomed', created \subseteq created'
  PROVE  Stacks' /\ LockHeld'
<1>1. ASSUME NEW u \in Threads PROVE InOrder(stack'[u], Doomed', created')
  <2>1. stack'[u] = stack[u] /\ InOrder(stack[u], Doomed, created)
    BY DEF Stacks
  <2> QED BY <2>1, StaysInOrder
<1> QED BY <1>1 DEF Stacks, LockHeld
(***************************************************************************)
(* A thread that was idle begins a call.                                   *)
(***************************************************************************)
LEMMA CallBegun ==
  ASSUME Stacks, LockHeld, NEW t \in Threads, NEW f, Idle(t), WholeFrame(f),
         stack' = Call(t, f),
         Doomed \subseteq Doomed', created \subseteq created',
         \/ /\ InClose(f, Doomed') \/ f.step = "store_link"
            /\ mailboxes_lock' = mailboxes_lock
         \/ /\ f.step = "release" /\ InDelivery(f, Doomed', created')
            /\ mailboxes_lock = Free /\ mailboxes_lock' = t
  PROVE  Stacks' /\ LockHeld'
<1>1. stack' = [stack EXCEPT ![t] = <<f>>]
  BY OneFrame DEF Stacks, Idle, Call
<1>2. <<f>>[1] = f /\ <<f>> # <<>>
  BY OneFrame
<1>3. InOrder(<<f>>, Doomed', created')
  BY <1>2 DEF InOrder
<1>4. Locks(<<f>>) <=> f.step \in {"release", "unlock"}
  BY <1>2 DEF Locks
<1>5. ~Locks(stack[t])
  BY DEF Locks, Idle
<1>6. InClose(f, Doomed') \/ f.step = "store_link" => ~Locks(<<f>>)
  BY <1>4 DEF InClose
<1>7. f.step = "release" => Locks(<<f>>)
  BY <1>4
<1> QED BY <1>1, <1>3, <1>5, <1>6, <1>7, StackReplaced

(***************************************************************************)
(* The innermost frame is the only one, or that of a destructor.           *)
(***************************************************************************)
LEMMA TopFrame ==
  ASSUME Stacks, NEW t \in Threads, ~Idle(t)
  PROVE  /\ WholeFrame(Top(t))
         /\ \/ /\ stack[t] = <<Top(t)>>
               /\ \/ InClose(Top(t), Doomed)
                  \/ InDelivery(Top(t), Doomed, created)
                  \/ Top(t).step = "store_link"
               /\ Locks(stack[t]) <=> Top(t).step \in {"release", "unlock"}
            \/ \E f : /\ stack[t] = <<f, Top(t)>>
                      /\ WholeFrame(f)
                      /\ f.step = "unlock" /\ InDelivery(f, Doomed, created)
                      /\ InClose(Top(t), Doomed)
                      /\ Locks(stack[t])
<1> DEFINE s == stack[t]
<1>1. InOrder(s, Doomed, created) /\ s # <<>>
  BY DEF Stacks, Idle
<1>2. CASE s = <<s[1]>>
  <2>1. /\ WholeFrame(s[1])
        /\ \/ InClose(s[1], Doomed) \/ InDelivery(s[1], Doomed, created)
           \/ s[1].step = "store_link"
    <3>1. \A f, g : <<f>> # <<f, g>>
      BY OneFrame, TwoFrames
    <3> QED BY <1>1, <1>2, <3>1 DEF InOrder
  <2>2. Top(t) = s[1]
    BY <1>2, OneFrame DEF Top
  <2> QED BY <1>1, <1>2, <2>1, <2>2 DEF Locks
<1>3. CASE s # <<s[1]>>
  <2>1. /\ s = <<s[1], s[2]>> /\ WholeFrame(s[1]) /\ WholeFrame(s[2])
        /\ s[1].step = "unlock" /\ InDelivery(s[1], Doomed, created)
        /\ InClose(s[2], Doomed)
    BY <1>1, <1>3 DEF InOrder
  <2>2. Top(t) = s[2]
    BY <2>1, TwoFrames DEF Top
  <2> QED BY <1>1, <2>1, <2>2 DEF Locks
<1> QED BY <1>2, <1>3

(***************************************************************************)
(* The innermost call returns, and it is not a delivery.                   *)
(***************************************************************************)
LEMMA CallReturns ==
  ASSUME Stacks, LockHeld, NEW t \in Threads, ~Idle(t),
         Top(t).step \notin {"release", "unlock"},
         stack' = Return(t), UNCHANGED mailboxes_lock, UNCHANGED clients
  PROVE  Stacks' /\ LockHeld'
<1>1. /\ stack' = [stack EXCEPT ![t] = Front(stack[t])]
      /\ Doomed' = Doomed /\ created' = created
  BY DEF Stacks, Return, clients, Doomed
<1>2. CASE stack[t] = <<Top(t)>>
  <2>1. Front(stack[t]) = <<>>
    BY <1>2, OneFrame
  <2>2. <<Top(t)>>[1] = Top(t)
    BY OneFrame
  <2>3. ~Locks(stack[t]) /\ ~Locks(<<>>)
    BY <1>2, <2>2 DEF Locks
  <2>4. InOrder(<<>>, Doomed, created)
    BY DEF InOrder
  <2> QED BY <1>1, <2>1, <2>3, <2>4, StackReplaced
<1>3. ASSUME NEW f, stack[t] = <<f, Top(t)>>, WholeFrame(f),
             f.step = "unlock", InDelivery(f, Doomed, created), Locks(stack[t])
      PROVE  Stacks' /\ LockHeld'
  <2>1. Front(stack[t]) = <<f>> /\ <<f>>[1] = f /\ <<f>> # <<>>
    BY <1>3, OneFrame, TwoFrames
  <2>2. InOrder(<<f>>, Doomed, created)
    BY <1>3, <2>1 DEF InOrder
  <2>3. Locks(<<f>>)
    BY <1>3, <2>1 DEF Locks
  <2> QED BY <1>1, <1>3, <2>1, <2>2, <2>3, StackReplaced
<1> QED BY <1>2, <1>3, TopFrame

(***************************************************************************)
(* A close goes on.                                                        *)
(***************************************************************************)
LEMMA CloseGoesOn ==
  ASSUME Stacks, LockHeld, NEW t \in Threads, ~Idle(t),
         InClose(Top(t), Doomed), NEW f, WholeFrame(f), InClose(f, Doomed),
         stack' = Goto(t, f), UNCHANGED mailboxes_lock, UNCHANGED clients
  PROVE  Stacks' /\ LockHeld'
<1>1. /\ stack' = [stack EXCEPT ![t] = Append(Front(stack[t]), f)]
      /\ Doomed' = Doomed /\ created' = created
  BY DEF Stacks, Goto, clients, Doomed
<1>2. f.step \notin {"release", "unlock"}
      /\ Top(t).step \notin {"release", "unlock"}
  BY DEF InClose
<1>3. CASE stack[t] = <<Top(t)>>
  <2>1. /\ Append(Front(stack[t]), f) = <<f>> /\ <<f>>[1] = f
        /\ <<Top(t)>>[1] = Top(t)
    BY <1>3, OneFrame
  <2>2. InOrder(<<f>>, Doomed, created)
    BY <2>1 DEF InOrder
  <2>3. ~Locks(<<f>>) /\ ~Locks(stack[t])
    BY <1>2, <1>3, <2>1 DEF Locks
  <2> QED BY <1>1, <2>1, <2>2, <2>3, StackReplaced
<1>4. ASSUME NEW g, stack[t] = <<g, Top(t)>>, WholeFrame(g),
             g.step = "unlock", InDelivery(g, Doomed, created), Locks(stack[t])
      PROVE  Stacks' /\ LockHeld'
  <2>1. Append(Front(stack[t]), f) = <<g, f>>
    <3>1. Front(stack[t]) = <<g>>
      BY <1>4, TwoFrames
    <3>2. Append(<<g>>, f) = <<g, f>>
      BY OneFrame
    <3> QED BY <3>1, <3>2
  <2>2. <<g, f>>[1] = g /\ <<g, f>>[2] = f /\ <<g, f>> # <<>>
    BY TwoFrames
  <2>3. InOrder(<<g, f>>, Doomed, created)
    BY <1>4, <2>2 DEF InOrder
  <2>4. Locks(<<g, f>>)
    BY <1>4, <2>2 DEF Locks
  <2> QED BY <1>1, <1>4, <2>1, <2>3, <2>4, StackReplaced
<1> QED BY <1>3, <1>4, TopFrame
(***************************************************************************)
(* Frames made and changed are frames.                                     *)
(***************************************************************************)
LEMMA FrameMade ==
  ASSUME NEW st, NEW b, NEW d, NEW r, NEW f,
         \/ f \in Frames(st, b, d, r)
         \/ f = [step |-> st, box |-> b, todo |-> d, ref |-> r]
  PROVE  WholeFrame(f) /\ f.step = st /\ f.box = b /\ f.todo = d /\ f.ref = r
BY DEF WholeFrame, Frames

LEMMA FrameChanged ==
  ASSUME NEW f, WholeFrame(f), NEW st, NEW d, NEW r
  PROVE  /\ [f EXCEPT !.step = st, !.todo = d, !.ref = r]
              \in Frames(st, f.box, d, r)
         /\ [f EXCEPT !.step = st, !.ref = r]
              \in Frames(st, f.box, f.todo, r)
         /\ [f EXCEPT !.step = st, !.todo = d]
              \in Frames(st, f.box, d, f.ref)
         /\ [f EXCEPT !.todo = d] \in Frames(f.step, f.box, d, f.ref)
BY DEF WholeFrame, Frames

(***************************************************************************)
(* A delivery ends and gives the lock back: the thread goes on with the    *)
(* close that made the delivery, if any.                                   *)
(***************************************************************************)
LEMMA DeliveryEnds ==
  ASSUME Stacks, LockHeld, NEW t \in Threads, ~Idle(t),
         Top(t).step \in {"release", "unlock"},
         stack' = Resume(t), mailboxes_lock' = Free, UNCHANGED clients
  PROVE  Stacks' /\ LockHeld'
<1>1. Doomed' = Doomed /\ created' = created
  BY DEF clients, Doomed
<1>2. /\ stack[t] = <<Top(t)>> /\ WholeFrame(Top(t))
      /\ InDelivery(Top(t), Doomed, created) /\ Locks(stack[t])
  BY TopFrame DEF InClose
<1>3. CASE Top(t).box = None
  <2>1. stack' = [stack EXCEPT ![t] = <<>>]
    BY <1>2, <1>3, OneFrame DEF Resume, Return, Stacks
  <2>2. InOrder(<<>>, Doomed, created) /\ ~Locks(<<>>)
    BY DEF InOrder, Locks
  <2> QED BY <1>1, <1>2, <2>1, <2>2, StackReplaced
<1>4. CASE Top(t).box # None
  <2> DEFINE f == After(Top(t))
  <2>1. f \in Frames("notify", Top(t).box, Top(t).todo, None)
    BY <1>2, FrameChanged DEF After
  <2>2. WholeFrame(f) /\ f.step = "notify" /\ f.box = Top(t).box
    BY <2>1, FrameMade
  <2> HIDE DEF f
  <2>3. stack' = [stack EXCEPT ![t] = <<f>>]
    <3>1. Front(stack[t]) = <<>> /\ Append(<<>>, f) = <<f>>
      BY <1>2, OneFrame
    <3> QED BY <1>4, <3>1 DEF Resume, Goto, Stacks, f
  <2>4. <<f>>[1] = f
    BY OneFrame
  <2>5. Top(t).box \in Doomed
    BY <1>2, <1>4 DEF InDelivery
  <2>6. InOrder(<<f>>, Doomed, created) /\ ~Locks(<<f>>)
    BY <2>2, <2>4, <2>5 DEF InOrder, InClose, Locks
  <2> QED BY <1>1, <1>2, <2>3, <2>6, StackReplaced
<1> QED BY <1>3, <1>4

(***************************************************************************)
(* A delivery ends with the destructor of the mailbox delivered to.        *)
(***************************************************************************)
LEMMA DestructorBegins ==
  ASSUME Stacks, LockHeld, Clients, NEW t \in Threads, ~Idle(t),
         Top(t).step = "release", Top(t).ref \notin held,
         stack' = [stack EXCEPT ![t] =
                     Append(Append(Front(@), [Top(t) EXCEPT !.step = "unlock",
                                                            !.ref = None]),
                            Closing(Top(t).ref))],
         UNCHANGED mailboxes_lock, UNCHANGED clients
  PROVE  Stacks' /\ LockHeld'
<1> DEFINE f == [Top(t) EXCEPT !.step = "unlock", !.ref = None]
           g == Closing(Top(t).ref)
<1>1. Doomed' = Doomed /\ created' = created
  BY DEF clients, Doomed
<1>2. /\ stack[t] = <<Top(t)>> /\ WholeFrame(Top(t))
      /\ InDelivery(Top(t), Doomed, created) /\ Locks(stack[t])
  BY TopFrame DEF InClose
<1>3. WholeFrame(f) /\ f.step = "unlock" /\ f.box = Top(t).box
  <2>1. f \in Frames("unlock", Top(t).box, Top(t).todo, None)
    BY <1>2, FrameChanged
  <2> QED BY <2>1, FrameMade
<1>4. WholeFrame(g) /\ g.step = "close_links" /\ g.box = Top(t).ref
  <2>1. g = [step |-> "close_links", box |-> Top(t).ref, todo |-> <<>>,
             ref |-> None]
    BY DEF Closing
  <2> HIDE DEF g
  <2> QED BY <2>1, FrameMade
<1>5. stack' = [stack EXCEPT ![t] = Append(Append(Front(stack[t]), f), g)]
  BY DEF Stacks
<1> HIDE DEF f, g
<1>6. stack' = [stack EXCEPT ![t] = <<f, g>>]
  <2>1. Front(stack[t]) = <<>> /\ Append(<<>>, f) = <<f>>
    BY <1>2, OneFrame
  <2>2. Append(<<f>>, g) = <<f, g>>
    BY OneFrame
  <2> QED BY <1>5, <2>1, <2>2
<1>7. <<f, g>>[1] = f /\ <<f, g>>[2] = g /\ <<f, g>> # <<>>
  BY TwoFrames
<1>8. InDelivery(f, Doomed, created) /\ InClose(g, Doomed)
  BY <1>2, <1>3, <1>4 DEF InDelivery, InClose, Doomed
<1>9. InOrder(<<f, g>>, Doomed, created) /\ Locks(<<f, g>>)
  BY <1>3, <1>4, <1>7, <1>8 DEF InOrder, Locks
<1> QED BY <1>1, <1>2, <1>6, <1>9, StackReplaced

(***************************************************************************)
(* A close tells a linked mailbox of this node, and takes the lock for it. *)
(***************************************************************************)
LEMMA CloseDelivers ==
  ASSUME Stacks, LockHeld, NEW t \in Threads, At(t, "notify"),
         NEW b \in created, NEW d, mailboxes_lock = Free, mailboxes_lock' = t,
         stack' = Goto(t, [Top(t) EXCEPT !.step = "release", !.todo = d,
                                         !.ref = b]),
         UNCHANGED clients
  PROVE  Stacks' /\ LockHeld'
<1> DEFINE f == [Top(t) EXCEPT !.step = "release", !.todo = d, !.ref = b]
<1>1. Doomed' = Doomed /\ created' = created
  BY DEF clients, Doomed
<1>2. ~Locks(stack[t])
  BY NodeAssumption DEF LockHeld
<1>3. /\ stack[t] = <<Top(t)>> /\ WholeFrame(Top(t))
      /\ InClose(Top(t), Doomed)
  BY <1>2, TopFrame DEF At, InDelivery
<1>4. /\ WholeFrame(f) /\ f.step = "release" /\ f.box = Top(t).box
      /\ f.ref = b
  <2>1. f \in Frames("release", Top(t).box, d, b)
    BY <1>3, FrameChanged
  <2> QED BY <2>1, FrameMade
<1>5. stack' = [stack EXCEPT ![t] = Append(Front(stack[t]), f)]
  BY DEF Goto, Stacks
<1> HIDE DEF f
<1>6. stack' = [stack EXCEPT ![t] = <<f>>] /\ <<f>>[1] = f /\ <<f>> # <<>>
  <2>1. Front(stack[t]) = <<>> /\ Append(<<>>, f) = <<f>>
    BY <1>3, OneFrame
  <2> QED BY <1>5, <2>1, OneFrame
<1>7. InOrder(<<f>>, Doomed, created) /\ Locks(<<f>>)
  BY <1>3, <1>4, <1>6 DEF InOrder, InDelivery, InClose, Locks
<1> QED BY <1>1, <1>6, <1>7, StackReplaced
-----------------------------------------------------------------------------
(***************************************************************************)
(* The invariant holds initially, and every action keeps it.               *)
(***************************************************************************)
LEMMA OrderedInitially == Init => Ordered
<1> SUFFICES ASSUME Init PROVE Ordered
  OBVIOUS
<1>1. \A t \in Threads : stack[t] = <<>> /\ mailboxes_lock # t
  BY NodeAssumption DEF Init
<1>2. Stacks /\ LockHeld
  BY <1>1 DEF Init, Stacks, LockHeld, InOrder, Locks
<1>3. Clients /\ NamesKept
  BY DEF Init, Clients, NamesKept
<1> QED BY <1>2, <1>3 DEF Ordered

(***************************************************************************)
(* The steps that neither begin nor end a call.                            *)
(***************************************************************************)
LEMMA CreateKeeps ==
  ASSUME Ordered, NEW t \in Threads, NEW b \in Boxes, create_mailbox(t, b)
  PROVE  Ordered'
<1>1. UNCHANGED <<stack, mailboxes_lock>>
  BY DEF create_mailbox
<1>2. Doomed \subseteq Doomed' /\ created \subseteq created'
  BY DEF create_mailbox, Doomed, Ordered, Clients
<1>3. Clients'
  BY DEF create_mailbox, Ordered, Clients
<1>4. NamesKept'
  <2>1. ASSUME NEW n \in Names
        PROVE  /\ registered'[n] \in Boxes \cup {None}
               /\ registered'[n] # None =>
                    /\ registered'[n] \in created'
                    /\ name_of[registered'[n]] = n
    BY DEF create_mailbox, Ordered, NamesKept
  <2>2. registered' = [n \in Names |-> registered'[n]]
    BY DEF create_mailbox
  <2> QED BY <2>1, <2>2 DEF NamesKept
<1> QED BY <1>1, <1>2, <1>3, <1>4, StacksKept DEF Ordered

LEMMA LinkerKeeps ==
  ASSUME Ordered,
         UNCHANGED <<clients, maps, mailboxes_lock, stack, posted>>
  PROVE  Ordered'
<1>1. Doomed' = Doomed /\ UNCHANGED <<created, stack, mailboxes_lock>>
  BY DEF Doomed, clients
<1>2. Clients' /\ NamesKept'
  BY DEF Ordered, Clients, NamesKept, clients, maps
<1> QED BY <1>1, <1>2, StacksKept DEF Ordered

LEMMA DropUnwindingKeeps ==
  ASSUME Ordered, NEW t \in Threads, NEW b \in Boxes, drop_unwinding(t, b)
  PROVE  Ordered'
<1>1. /\ UNCHANGED <<stack, mailboxes_lock, created, closed, registered, mailboxes>>
      /\ held' = held \ {b} /\ b \in held
      /\ posted' \subseteq posted \cup {b}
  BY DEF drop_unwinding, maps
<1>2. Doomed \subseteq Doomed' /\ created \subseteq created'
  BY <1>1 DEF Doomed
<1>3. Clients'
  BY <1>1 DEF Ordered, Clients
<1>4. NamesKept'
  BY <1>1 DEF Ordered, NamesKept
<1> QED BY <1>1, <1>2, <1>3, <1>4, StacksKept DEF Ordered

(***************************************************************************)
(* The steps that begin a call.                                            *)
(***************************************************************************)
LEMMA ClosingFrame ==
  ASSUME NEW b
  PROVE  /\ WholeFrame(Closing(b)) /\ Closing(b).step = "close_links"
         /\ Closing(b).box = b
<1> DEFINE f == Closing(b)
<1>1. f = [step |-> "close_links", box |-> b, todo |-> <<>>, ref |-> None]
  BY DEF Closing
<1> HIDE DEF f
<1>2. WholeFrame(f) /\ f.step = "close_links" /\ f.box = b
  BY <1>1, FrameMade
<1> QED BY <1>2 DEF f

LEMMA DeliveringFrame ==
  ASSUME NEW b
  PROVE  /\ WholeFrame(Delivering(b)) /\ Delivering(b).step = "release"
         /\ Delivering(b).box = None /\ Delivering(b).ref = b
<1> DEFINE f == Delivering(b)
<1>1. f = [step |-> "release", box |-> None, todo |-> <<>>, ref |-> b]
  BY DEF Delivering
<1> HIDE DEF f
<1>2. WholeFrame(f) /\ f.step = "release" /\ f.box = None /\ f.ref = b
  BY <1>1, FrameMade
<1> QED BY <1>2 DEF f

LEMMA LinkingFrame ==
  ASSUME NEW b, NEW p
  PROVE  WholeFrame(Linking(b, p)) /\ Linking(b, p).step = "store_link"
<1> DEFINE f == Linking(b, p)
           d == <<p>>
<1>1. f = [step |-> "store_link", box |-> b, todo |-> d, ref |-> None]
  BY DEF Linking
<1> HIDE DEF f, d
<1>2. WholeFrame(f) /\ f.step = "store_link"
  BY <1>1, FrameMade
<1> QED BY <1>2 DEF f

LEMMA LinkRemoteKeeps ==
  ASSUME Ordered, NEW t \in Threads, NEW a \in Boxes, NEW r \in Remotes,
         link_remote(t, a, r)
  PROVE  Ordered'
<1>1. /\ Idle(t) /\ stack' = Call(t, Linking(a, r))
      /\ UNCHANGED <<created, held, closed, registered, mailboxes, mailboxes_lock, posted>>
  BY DEF link_remote, clients, maps
<1>2. Doomed' = Doomed /\ created' = created
  BY <1>1 DEF Doomed
<1>3. Clients' /\ NamesKept'
  BY <1>1 DEF Ordered, Clients, NamesKept
<1> QED BY <1>1, <1>2, <1>3, LinkingFrame, CallBegun DEF Ordered

LEMMA CloseKeeps ==
  ASSUME Ordered, NEW t \in Threads, NEW b \in Boxes, close(t, b)
  PROVE  Ordered'
<1>1. /\ Idle(t) /\ stack' = Call(t, Closing(b)) /\ b \in held
      /\ closed' = closed \cup {b}
      /\ UNCHANGED <<created, held, registered, mailboxes, mailboxes_lock, posted>>
  BY DEF close, maps
<1>2. Doomed \subseteq Doomed' /\ created \subseteq created' /\ b \in Doomed'
  BY <1>1 DEF Doomed, Ordered, Clients
<1>3. Clients' /\ NamesKept'
  BY <1>1 DEF Ordered, Clients, NamesKept
<1>4. WholeFrame(Closing(b)) /\ InClose(Closing(b), Doomed')
  BY <1>2, ClosingFrame DEF InClose
<1> QED BY <1>1, <1>2, <1>3, <1>4, CallBegun DEF Ordered

LEMMA DropKeeps ==
  ASSUME Ordered, NEW t \in Threads, NEW b \in Boxes, drop(t, b)
  PROVE  Ordered'
<1>1. /\ Idle(t) /\ b \in held /\ held' = held \ {b}
      /\ stack' = stack \/ stack' = Call(t, Closing(b))
      /\ UNCHANGED <<created, closed, registered, mailboxes, mailboxes_lock, posted>>
  BY DEF drop, maps
<1>2. Doomed \subseteq Doomed' /\ created \subseteq created' /\ b \in Doomed'
  BY <1>1 DEF Doomed, Ordered, Clients
<1>3. Clients' /\ NamesKept'
  BY <1>1 DEF Ordered, Clients, NamesKept
<1>4. WholeFrame(Closing(b)) /\ InClose(Closing(b), Doomed')
  BY <1>2, ClosingFrame DEF InClose
<1>5. CASE stack' = stack
  BY <1>1, <1>2, <1>3, <1>5, StacksKept DEF Ordered
<1>6. CASE stack' = Call(t, Closing(b))
  BY <1>1, <1>2, <1>3, <1>4, <1>6, CallBegun DEF Ordered
<1> QED BY <1>1, <1>5, <1>6

LEMMA CloseAsyncKeeps ==
  ASSUME Ordered, NEW b \in Boxes, close_mailbox_async(b)
  PROVE  Ordered'
<1>1. /\ io \in Threads /\ Idle(io) /\ b \in posted
      /\ posted' = posted \ {b} /\ stack' = Call(io, Closing(b))
      /\ UNCHANGED <<created, held, closed, registered, mailboxes, mailboxes_lock>>
  BY DEF close_mailbox_async, clients, maps
<1>2. Doomed' = Doomed /\ created' = created /\ b \in Doomed'
  BY <1>1 DEF Doomed, Ordered, Clients
<1>3. Clients' /\ NamesKept'
  BY <1>1 DEF Ordered, Clients, NamesKept
<1>4. WholeFrame(Closing(b)) /\ InClose(Closing(b), Doomed')
  BY <1>2, ClosingFrame DEF InClose
<1> QED BY <1>1, <1>2, <1>3, <1>4, CallBegun DEF Ordered
(***************************************************************************)
(* Deliveries.                                                             *)
(***************************************************************************)
LEMMA DeliveryBegins ==
  ASSUME Stacks, LockHeld, NEW t \in Threads, Idle(t), NEW b \in created,
         mailboxes_lock = Free, mailboxes_lock' = t,
         stack' = Call(t, Delivering(b)), UNCHANGED <<created, held, closed>>
  PROVE  Stacks' /\ LockHeld'
<1>1. Doomed' = Doomed /\ created' = created
  BY DEF Doomed
<1>2. /\ WholeFrame(Delivering(b)) /\ Delivering(b).step = "release"
      /\ InDelivery(Delivering(b), Doomed', created')
  BY <1>1, DeliveringFrame DEF InDelivery
<1> QED BY <1>1, <1>2, CallBegun

LEMMA ReceivePidKeeps ==
  ASSUME Ordered, NEW b \in Boxes, receive_incoming_pid(b)
  PROVE  Ordered'
<1>1. /\ io \in Threads /\ Idle(io) /\ b \in created /\ mailboxes_lock = Free
      /\ \/ mailboxes_lock' = io /\ stack' = Call(io, Delivering(b))
         \/ UNCHANGED <<mailboxes_lock, stack>>
      /\ UNCHANGED <<created, held, closed, registered, posted>>
      /\ mailboxes' \subseteq mailboxes
  BY DEF receive_incoming_pid, clients
<1>2. Clients' /\ NamesKept'
  BY <1>1 DEF Ordered, Clients, NamesKept
<1>3. Doomed' = Doomed
  BY <1>1 DEF Doomed
<1>4. CASE UNCHANGED <<mailboxes_lock, stack>>
  BY <1>1, <1>2, <1>3, <1>4, StacksKept DEF Ordered
<1>5. CASE mailboxes_lock' = io /\ stack' = Call(io, Delivering(b))
  BY <1>1, <1>2, <1>5, DeliveryBegins DEF Ordered
<1> QED BY <1>1, <1>4, <1>5

LEMMA ReceiveNameKeeps ==
  ASSUME Ordered, NEW t \in Threads, NEW n \in Names,
         receive_incoming_name(t, n)
  PROVE  Ordered'
<1>1. /\ Idle(t) /\ mailboxes_lock = Free
      /\ UNCHANGED <<created, held, closed, posted, mailboxes>>
  BY DEF receive_incoming_name, clients
<1>2. Clients' /\ Doomed' = Doomed
  BY <1>1 DEF Ordered, Clients, Doomed
<1>3. CASE registered[n] # None /\ Owned(registered[n])
  <2>1. /\ mailboxes_lock' = t /\ stack' = Call(t, Delivering(registered[n]))
        /\ UNCHANGED registered
    BY <1>3 DEF receive_incoming_name
  <2>2. registered[n] \in created
    BY <1>3 DEF Ordered, NamesKept
  <2>3. NamesKept'
    BY <1>1, <2>1 DEF Ordered, NamesKept
  <2> QED BY <1>1, <1>2, <2>1, <2>2, <2>3, DeliveryBegins DEF Ordered
<1>4. CASE ~(registered[n] # None /\ Owned(registered[n]))
  <2>1. /\ registered' = [registered EXCEPT ![n] = None]
        /\ UNCHANGED <<mailboxes_lock, stack>>
    BY <1>4 DEF receive_incoming_name
  <2>2. NamesKept'
    BY <1>1, <2>1 DEF Ordered, NamesKept
  <2> QED BY <1>1, <1>2, <2>1, <2>2, StacksKept DEF Ordered
<1> QED BY <1>3, <1>4

LEMMA IncomingExitKeeps ==
  ASSUME Ordered, NEW r \in Remotes, NEW b \in Boxes, incoming_exit(r, b)
  PROVE  Ordered'
<1>1. /\ io \in Threads /\ Idle(io) /\ b \in created /\ mailboxes_lock = Free
      /\ \/ mailboxes_lock' = io /\ stack' = Call(io, Delivering(b))
         \/ UNCHANGED <<mailboxes_lock, stack>>
      /\ UNCHANGED <<created, held, closed, registered, posted>>
      /\ mailboxes' \subseteq mailboxes
  BY DEF incoming_exit, clients, maps, on_link_broken
<1>2. Clients' /\ NamesKept'
  BY <1>1 DEF Ordered, Clients, NamesKept
<1>3. Doomed' = Doomed
  BY <1>1 DEF Doomed
<1>4. CASE UNCHANGED <<mailboxes_lock, stack>>
  BY <1>1, <1>2, <1>3, <1>4, StacksKept DEF Ordered
<1>5. CASE mailboxes_lock' = io /\ stack' = Call(io, Delivering(b))
  BY <1>1, <1>2, <1>5, DeliveryBegins DEF Ordered
<1> QED BY <1>1, <1>4, <1>5

(***************************************************************************)
(* The steps of a call under way.                                          *)
(***************************************************************************)
LEMMA WaitKeeps ==
  ASSUME Ordered, NEW t \in Threads, get_connection_to(t) \/ unlink_exited(t)
  PROVE  Ordered'
<1>1. UNCHANGED <<clients, maps, mailboxes_lock, stack, posted>>
  BY DEF get_connection_to, unlink_exited
<1> QED BY <1>1, LinkerKeeps

LEMMA StoreLinkKeeps ==
  ASSUME Ordered, NEW t \in Threads, store_link(t)
  PROVE  Ordered'
<1>1. /\ ~Idle(t) /\ Top(t).step = "store_link" /\ stack' = Return(t)
      /\ UNCHANGED mailboxes_lock /\ UNCHANGED clients
      /\ UNCHANGED <<registered, mailboxes, posted>>
  BY DEF store_link, At, maps
<1>2. Clients' /\ NamesKept'
  BY <1>1 DEF Ordered, Clients, NamesKept, clients
<1> QED BY <1>1, <1>2, CallReturns DEF Ordered

LEMMA InNotify ==
  ASSUME Stacks, NEW t \in Threads, At(t, "notify") \/ At(t, "close_links")
  PROVE  ~Idle(t) /\ WholeFrame(Top(t)) /\ InClose(Top(t), Doomed)
<1>1. ~Idle(t) /\ Top(t).step \in {"notify", "close_links"}
  BY DEF At
<1>2. ~InDelivery(Top(t), Doomed, created)
  BY <1>1 DEF InDelivery
<1> QED BY <1>1, <1>2, TopFrame

LEMMA CloseLinksKeeps ==
  ASSUME Ordered, NEW t \in Threads, close_links_for_local(t)
  PROVE  Ordered'
<1> DEFINE d == LinkedTo(Top(t).box)
           f == [Top(t) EXCEPT !.step = "notify", !.todo = d]
<1>1. /\ At(t, "close_links") /\ stack' = Goto(t, f)
      /\ UNCHANGED mailboxes_lock /\ UNCHANGED clients
      /\ UNCHANGED <<registered, mailboxes, posted>>
  BY DEF close_links_for_local, maps
<1>2. /\ ~Idle(t) /\ WholeFrame(Top(t)) /\ InClose(Top(t), Doomed)
  BY <1>1, InNotify DEF Ordered
<1> HIDE DEF d
<1>3. f \in Frames("notify", Top(t).box, d, Top(t).ref)
  BY <1>2, FrameChanged
<1> HIDE DEF f
<1>4. WholeFrame(f) /\ f.step = "notify" /\ f.box = Top(t).box
  BY <1>3, FrameMade
<1>5. InClose(f, Doomed)
  BY <1>2, <1>4 DEF InClose
<1>6. Clients' /\ NamesKept'
  BY <1>1 DEF Ordered, Clients, NamesKept, clients
<1> QED BY <1>1, <1>2, <1>4, <1>5, <1>6, CloseGoesOn DEF Ordered

LEMMA RequestRemoteKeeps ==
  ASSUME Ordered, NEW t \in Threads, request_exit2_remote(t)
  PROVE  Ordered'
<1> DEFINE d == Tail(Top(t).todo)
           f == [Top(t) EXCEPT !.todo = d]
<1>1. /\ At(t, "notify") /\ Top(t).step = "notify"
      /\ stack' = Goto(t, f) \/ stack' = Return(t)
      /\ UNCHANGED mailboxes_lock /\ UNCHANGED clients
      /\ UNCHANGED <<registered, mailboxes, posted>>
  BY DEF request_exit2_remote, NotifiesRemote, ends_by_throw, maps, At
<1>2. /\ ~Idle(t) /\ WholeFrame(Top(t)) /\ InClose(Top(t), Doomed)
  BY <1>1, InNotify DEF Ordered
<1> HIDE DEF d
<1>3. f \in Frames(Top(t).step, Top(t).box, d, Top(t).ref)
  BY <1>2, FrameChanged
<1> HIDE DEF f
<1>4. WholeFrame(f) /\ f.step = Top(t).step /\ f.box = Top(t).box
  BY <1>3, FrameMade
<1>5. InClose(f, Doomed)
  BY <1>2, <1>4 DEF InClose
<1>6. Clients' /\ NamesKept'
  BY <1>1 DEF Ordered, Clients, NamesKept, clients
<1>7. CASE stack' = Goto(t, f)
  BY <1>1, <1>2, <1>4, <1>5, <1>6, <1>7, CloseGoesOn DEF Ordered
<1>8. CASE stack' = Return(t)
  BY <1>1, <1>2, <1>6, <1>8, CallReturns DEF Ordered
<1> QED BY <1>1, <1>7, <1>8
LEMMA IncomingExit2Keeps ==
  ASSUME Ordered, NEW t \in Threads, incoming_exit2(t)
  PROVE  Ordered'
<1> DEFINE b == Head(Top(t).todo)
           d == Tail(Top(t).todo)
           f == [Top(t) EXCEPT !.step = "release", !.todo = d, !.ref = b]
<1>1. /\ At(t, "notify") /\ Top(t).step = "notify" /\ mailboxes_lock = Free
      /\ UNCHANGED clients /\ UNCHANGED <<registered, posted>>
      /\ \/ /\ b \in mailboxes /\ mailboxes_lock' = t
            /\ stack' = Goto(t, f) /\ UNCHANGED mailboxes
         \/ /\ stack' = Return(t) /\ UNCHANGED mailboxes_lock
            /\ mailboxes' \subseteq mailboxes
  BY DEF incoming_exit2, Fetched, ends_by_throw, on_link_broken, maps, At
<1>2. ~Idle(t)
  BY <1>1 DEF At
<1> HIDE DEF b, d
<1>3. Clients' /\ NamesKept'
  BY <1>1 DEF Ordered, Clients, NamesKept, clients
<1>4. CASE b \in mailboxes /\ mailboxes_lock' = t /\ stack' = Goto(t, f)
  <2>1. b \in created
    BY <1>4 DEF Ordered, Clients
  <2> QED BY <1>1, <1>3, <1>4, <2>1, CloseDelivers DEF Ordered
<1>5. CASE stack' = Return(t) /\ UNCHANGED mailboxes_lock
  BY <1>1, <1>2, <1>3, <1>5, CallReturns DEF Ordered
<1> QED BY <1>1, <1>4, <1>5

LEMMA ReleaseKeeps ==
  ASSUME Ordered, NEW t \in Threads, release_destination(t)
  PROVE  Ordered'
<1>1. /\ ~Idle(t) /\ Top(t).step = "release"
      /\ UNCHANGED clients /\ UNCHANGED <<registered, mailboxes, posted>>
  BY DEF release_destination, At, maps
<1>2. Clients' /\ NamesKept'
  BY <1>1 DEF Ordered, Clients, NamesKept, clients
<1>3. CASE LastOwner(t, Top(t).ref)
  <2>1. Top(t).ref \notin held
    BY <1>3 DEF LastOwner
  <2>2. /\ UNCHANGED mailboxes_lock
        /\ stack' = [stack EXCEPT ![t] =
               Append(Append(Front(@), [Top(t) EXCEPT !.step = "unlock",
                                                      !.ref = None]),
                      Closing(Top(t).ref))]
    BY <1>3 DEF release_destination
  <2> QED BY <1>1, <1>2, <2>1, <2>2, DestructorBegins DEF Ordered
<1>4. CASE ~LastOwner(t, Top(t).ref)
  <2>1. stack' = Resume(t) /\ mailboxes_lock' = Free
    BY <1>4 DEF release_destination
  <2> QED BY <1>1, <1>2, <2>1, DeliveryEnds DEF Ordered
<1> QED BY <1>3, <1>4

LEMMA UnlockKeeps ==
  ASSUME Ordered, NEW t \in Threads, unlock(t)
  PROVE  Ordered'
<1>1. /\ ~Idle(t) /\ Top(t).step = "unlock"
      /\ stack' = Resume(t) /\ mailboxes_lock' = Free
      /\ UNCHANGED clients /\ UNCHANGED <<registered, mailboxes, posted>>
  BY DEF unlock, At, maps
<1>2. Clients' /\ NamesKept'
  BY <1>1 DEF Ordered, Clients, NamesKept, clients
<1> QED BY <1>1, <1>2, DeliveryEnds DEF Ordered

LEMMA RemoveKeeps ==
  ASSUME Ordered, NEW t \in Threads, remove(t)
  PROVE  Ordered'
<1>1. /\ ~Idle(t) /\ Top(t).step = "notify" /\ stack' = Return(t)
      /\ UNCHANGED mailboxes_lock /\ UNCHANGED clients /\ UNCHANGED posted
      /\ mailboxes' \subseteq mailboxes
      /\ registered' = [n \in Names |->
           IF n = name_of[Top(t).box] THEN None ELSE registered[n]]
  BY DEF remove, At
<1>2. Clients'
  BY <1>1 DEF Ordered, Clients, clients
<1>3. NamesKept'
  BY <1>1 DEF Ordered, NamesKept, clients
<1> QED BY <1>1, <1>2, <1>3, CallReturns DEF Ordered

LEMMA OrderedStep == Ordered /\ [Next]_vars => Ordered'
<1> SUFFICES ASSUME Ordered, [Next]_vars PROVE Ordered'
  OBVIOUS
<1>1. ASSUME NEW t \in Threads, NEW b \in Boxes, create_mailbox(t, b)
      PROVE  Ordered'
  BY <1>1, CreateKeeps
<1>2. ASSUME NEW t \in Threads, NEW a \in Boxes, NEW b \in Boxes,
             link_local(t, a, b)
      PROVE  Ordered'
  BY <1>2, LinkerKeeps DEF link_local
<1>3. ASSUME NEW t \in Threads, NEW a \in Boxes, NEW r \in Remotes,
             link_remote(t, a, r)
      PROVE  Ordered'
  BY <1>3, LinkRemoteKeeps
<1>4. ASSUME NEW t \in Threads, NEW a \in Boxes, NEW q \in Pids,
             unlink(t, a, q)
      PROVE  Ordered'
  BY <1>4, LinkerKeeps DEF unlink
<1>5. ASSUME NEW r \in Remotes, NEW b \in Boxes,
             incoming_link(r, b) \/ incoming_unlink(r, b)
      PROVE  Ordered'
  BY <1>5, LinkerKeeps DEF incoming_link, incoming_unlink
<1>6. ASSUME NEW t \in Threads, NEW b \in Boxes,
             close(t, b) \/ drop(t, b) \/ drop_unwinding(t, b)
      PROVE  Ordered'
  BY <1>6, CloseKeeps, DropKeeps, DropUnwindingKeeps
<1>7. ASSUME NEW b \in Boxes, close_mailbox_async(b)
      PROVE  Ordered'
  BY <1>7, CloseAsyncKeeps
<1>8. ASSUME NEW t \in Threads,
             \/ store_link(t) \/ close_links_for_local(t)
             \/ request_exit2_remote(t) \/ incoming_exit2(t)
             \/ release_destination(t) \/ unlock(t) \/ remove(t)
             \/ get_connection_to(t) \/ unlink_exited(t)
      PROVE  Ordered'
  BY <1>8, WaitKeeps, StoreLinkKeeps, CloseLinksKeeps, RequestRemoteKeeps,
     IncomingExit2Keeps, ReleaseKeeps, UnlockKeeps, RemoveKeeps
<1>9. ASSUME NEW b \in Boxes, receive_incoming_pid(b)
      PROVE  Ordered'
  BY <1>9, ReceivePidKeeps
<1>10. ASSUME NEW t \in Threads, NEW n \in Names, receive_incoming_name(t, n)
       PROVE  Ordered'
  BY <1>10, ReceiveNameKeeps
<1>11. ASSUME NEW r \in Remotes, NEW b \in Boxes, incoming_exit(r, b)
       PROVE  Ordered'
  BY <1>11, IncomingExitKeeps
<1>12. CASE UNCHANGED vars
  BY <1>12, LinkerKeeps DEF vars
<1> QED BY <1>1, <1>2, <1>3, <1>4, <1>5, <1>6, <1>7, <1>8, <1>9, <1>10,
           <1>11, <1>12 DEF Next

(***************************************************************************)
(* The stacks are in order, the lock is held by the one thread that is in  *)
(* a delivery, and names stand for the mailboxes created with them, in     *)
(* every state.                                                            *)
(***************************************************************************)
THEOREM OrderedAlways == Spec => []Ordered
BY OrderedInitially, OrderedStep, PTL DEF Spec
-----------------------------------------------------------------------------
(***************************************************************************)
(* mailboxes_lock.                                                         *)
(***************************************************************************)
DeliveriesExclude ==
  \A t, u \in Threads : Locks(stack[t]) /\ Locks(stack[u]) => t = u

(***************************************************************************)
(* Two threads are never in a delivery at the same time, from the lock in  *)
(* receive_incoming or incoming_exit2 up to the unlock, the destructor of  *)
(* the mailbox included.                                                   *)
(***************************************************************************)
THEOREM DeliveriesAlwaysExclude == Spec => []DeliveriesExclude
<1>1. Ordered => DeliveriesExclude
  BY DEF Ordered, LockHeld, DeliveriesExclude
<1> QED BY <1>1, OrderedAlways, PTL

LEMMA OrderedDeadlock == Ordered => DeadlockOnlyInDestructor
<1> SUFFICES ASSUME Ordered, NEW t \in Threads, SelfDeadlock(t)
             PROVE  Len(stack[t]) = 2 /\ stack[t][1].step = "unlock"
  BY DEF DeadlockOnlyInDestructor
<1>1. ~Idle(t) /\ Top(t).step = "notify" /\ Locks(stack[t])
  BY DEF SelfDeadlock, WantsLock, At, Ordered, LockHeld
<1>2. PICK f : stack[t] = <<f, Top(t)>> /\ f.step = "unlock"
  BY <1>1, TopFrame DEF Ordered
<1> QED BY <1>2, TwoFrames

(***************************************************************************)
(* A thread waits for mailboxes_lock while it holds it only in the         *)
(* destructor of the mailbox it has delivered to, which close_mailbox runs *)
(* before the lock of that delivery is released: no other order of closes, *)
(* deliveries and exits does it.                                           *)
(***************************************************************************)
THEOREM DeadlockAlwaysInDestructor == Spec => []DeadlockOnlyInDestructor
BY OrderedDeadlock, OrderedAlways, PTL

NoDestructor ==
  /\ held = created
  /\ \A t \in Threads : stack[t] # <<>> => stack[t][1].step # "unlock"

LEMMA OneCall ==
  ASSUME Stacks, NoDestructor, NEW t \in Threads, ~Idle(t)
  PROVE  stack[t] = <<Top(t)>> /\ Front(stack[t]) = <<>>
<1>1. stack[t] = <<Top(t)>>
  <2>1. ASSUME NEW f, stack[t] = <<f, Top(t)>>, f.step = "unlock" PROVE FALSE
    BY <2>1, TwoFrames DEF NoDestructor
  <2> QED BY <2>1, TopFrame
<1> QED BY <1>1, OneFrame

LEMMA NoDestructorReplaced ==
  ASSUME Stacks, NoDestructor, NEW t \in Threads, NEW s,
         stack' = [stack EXCEPT ![t] = s], UNCHANGED <<held, created>>,
         s = <<>> \/ s[1].step # "unlock"
  PROVE  NoDestructor'
<1>1. stack'[t] = s /\ \A u \in Threads \ {t} : stack'[u] = stack[u]
  BY DEF Stacks
<1> QED BY <1>1 DEF NoDestructor

LEMMA NoDestructorCall ==
  ASSUME Stacks, NoDestructor, NEW t \in Threads, Idle(t), NEW f,
         stack' = Call(t, f), UNCHANGED <<held, created>>, f.step # "unlock"
  PROVE  NoDestructor'
<1>1. stack' = [stack EXCEPT ![t] = <<f>>] /\ <<f>>[1] = f
  BY OneFrame DEF Stacks, Idle, Call
<1> QED BY <1>1, NoDestructorReplaced

LEMMA NoDestructorGoto ==
  ASSUME Stacks, NoDestructor, NEW t \in Threads, ~Idle(t), NEW f,
         \/ stack' = Goto(t, f) /\ f.step # "unlock"
         \/ stack' = Return(t),
         UNCHANGED <<held, created>>
  PROVE  NoDestructor'
<1>1. Front(stack[t]) = <<>>
  BY OneCall
<1>2. CASE stack' = Goto(t, f) /\ f.step # "unlock"
  <2>1. stack' = [stack EXCEPT ![t] = <<f>>] /\ <<f>>[1] = f
    BY <1>1, <1>2, OneFrame DEF Stacks, Goto
  <2> QED BY <1>2, <2>1, NoDestructorReplaced
<1>3. CASE stack' = Return(t)
  <2>1. stack' = [stack EXCEPT ![t] = <<>>]
    BY <1>1, <1>3 DEF Stacks, Return
  <2> QED BY <2>1, NoDestructorReplaced
<1> QED BY <1>2, <1>3

LEMMA NoDestructorStep ==
  ASSUME Droppable = {}, Ordered, NoDestructor, [Next]_vars
  PROVE  NoDestructor'
<1>0. Stacks
  BY DEF Ordered
<1>1. ASSUME NEW t \in Threads, NEW b \in Boxes, create_mailbox(t, b)
      PROVE  NoDestructor'
  BY <1>1 DEF create_mailbox, NoDestructor
<1>2. ASSUME UNCHANGED <<clients, stack>>
      PROVE  NoDestructor'
  BY <1>2 DEF clients, NoDestructor
<1>3. ASSUME NEW t \in Threads, NEW a \in Boxes, NEW b \in Pids,
             link_local(t, a, b) \/ unlink(t, a, b)
      PROVE  NoDestructor'
  BY <1>2, <1>3 DEF link_local, unlink
<1>4. ASSUME NEW t \in Threads, NEW a \in Boxes, NEW r \in Remotes,
             link_remote(t, a, r)
      PROVE  NoDestructor'
  <2>1. /\ Idle(t) /\ stack' = Call(t, Linking(a, r))
        /\ UNCHANGED <<held, created>>
    BY <1>4 DEF link_remote, clients
  <2> QED BY <1>0, <2>1, LinkingFrame, NoDestructorCall
<1>5. ASSUME NEW t \in Threads, NEW b \in Boxes, close(t, b)
      PROVE  NoDestructor'
  <2>1. /\ Idle(t) /\ stack' = Call(t, Closing(b))
        /\ UNCHANGED <<held, created>>
    BY <1>5 DEF close
  <2> QED BY <1>0, <2>1, ClosingFrame, NoDestructorCall
<1>6. ASSUME NEW t \in Threads, NEW b \in Boxes,
             drop(t, b) \/ drop_unwinding(t, b)
      PROVE  NoDestructor'
  BY <1>6 DEF drop, drop_unwinding
<1>7. ASSUME NEW b \in Boxes, close_mailbox_async(b)
      PROVE  NoDestructor'
  BY <1>7 DEF close_mailbox_async, NoDestructor, Ordered, Clients
<1>8. ASSUME NEW t \in Threads, store_link(t) \/ remove(t)
      PROVE  NoDestructor'
  <2>1. ~Idle(t) /\ stack' = Return(t) /\ UNCHANGED <<held, created>>
    BY <1>8 DEF store_link, remove, At, clients
  <2> QED BY <1>0, <2>1, NoDestructorGoto
<1>9. ASSUME NEW t \in Threads, close_links_for_local(t)
      PROVE  NoDestructor'
  <2> DEFINE d == LinkedTo(Top(t).box)
             f == [Top(t) EXCEPT !.step = "notify", !.todo = d]
  <2>1. /\ At(t, "close_links") /\ stack' = Goto(t, f)
        /\ UNCHANGED <<held, created>>
    BY <1>9 DEF close_links_for_local, clients
  <2>2. ~Idle(t) /\ WholeFrame(Top(t))
    BY <1>0, <2>1, InNotify
  <2> HIDE DEF d
  <2>3. f \in Frames("notify", Top(t).box, d, Top(t).ref)
    BY <2>2, FrameChanged
  <2> HIDE DEF f
  <2>4. f.step = "notify"
    BY <2>3, FrameMade
  <2> QED BY <1>0, <2>1, <2>2, <2>4, NoDestructorGoto
<1>10. ASSUME NEW t \in Threads, request_exit2_remote(t)
       PROVE  NoDestructor'
  <2> DEFINE d == Tail(Top(t).todo)
             f == [Top(t) EXCEPT !.todo = d]
  <2>1. /\ At(t, "notify") /\ Top(t).step = "notify"
        /\ stack' = Goto(t, f) \/ stack' = Return(t)
        /\ UNCHANGED <<held, created>>
    BY <1>10 DEF request_exit2_remote, NotifiesRemote, ends_by_throw, clients, At
  <2>2. ~Idle(t) /\ WholeFrame(Top(t))
    BY <1>0, <2>1, InNotify
  <2> HIDE DEF d
  <2>3. f \in Frames(Top(t).step, Top(t).box, d, Top(t).ref)
    BY <2>2, FrameChanged
  <2> HIDE DEF f
  <2>4. f.step = "notify"
    BY <2>1, <2>3, FrameMade
  <2> QED BY <1>0, <2>1, <2>2, <2>4, NoDestructorGoto
<1>11. ASSUME NEW t \in Threads, incoming_exit2(t)
       PROVE  NoDestructor'
  <2> DEFINE b == Head(Top(t).todo)
             d == Tail(Top(t).todo)
             f == [Top(t) EXCEPT !.step = "release", !.todo = d, !.ref = b]
  <2>1. /\ At(t, "notify")
        /\ stack' = Goto(t, f) \/ stack' = Return(t)
        /\ UNCHANGED <<held, created>>
    BY <1>11 DEF incoming_exit2, ends_by_throw, clients
  <2>2. ~Idle(t) /\ WholeFrame(Top(t))
    BY <1>0, <2>1, InNotify
  <2> HIDE DEF b, d
  <2>3. f \in Frames("release", Top(t).box, d, b)
    BY <2>2, FrameChanged
  <2> HIDE DEF f
  <2>4. f.step = "release"
    BY <2>3, FrameMade
  <2> QED BY <1>0, <2>1, <2>2, <2>4, NoDestructorGoto
<1>12. ASSUME NEW t \in Threads, release_destination(t) \/ unlock(t)
       PROVE  NoDestructor'
  <2> DEFINE f == After(Top(t))
  <2>1. ~Idle(t) /\ Top(t).step \in {"release", "unlock"}
    BY <1>12 DEF release_destination, unlock, At
  <2>2. /\ stack[t] = <<Top(t)>> /\ WholeFrame(Top(t))
        /\ InDelivery(Top(t), Doomed, created)
    BY <1>0, <2>1, TopFrame DEF InClose
  <2>3. Top(t).step # "unlock"
    BY <2>2, OneFrame DEF NoDestructor
  <2>4. Top(t).ref \in held
    BY <2>2, <2>3 DEF InDelivery, NoDestructor
  <2>5. stack' = Resume(t) /\ UNCHANGED <<held, created>>
    BY <1>12, <2>4 DEF release_destination, unlock, LastOwner, clients
  <2>6. stack' = Goto(t, f) \/ stack' = Return(t)
    BY <2>5 DEF Resume
  <2>7. f \in Frames("notify", Top(t).box, Top(t).todo, None)
    BY <2>2, FrameChanged DEF After
  <2> HIDE DEF f
  <2>8. f.step = "notify"
    BY <2>7, FrameMade
  <2> QED BY <1>0, <2>1, <2>5, <2>6, <2>8, NoDestructorGoto
<1>13. ASSUME NEW t \in Threads, Idle(t), NEW b, stack' = Call(t, Delivering(b)),
              UNCHANGED <<held, created>>
       PROVE  NoDestructor'
  BY <1>0, <1>13, DeliveringFrame, NoDestructorCall
<1>14. ASSUME NEW b \in Boxes, receive_incoming_pid(b)
       PROVE  NoDestructor'
  BY <1>2, <1>13, <1>14 DEF receive_incoming_pid, clients
<1>15. ASSUME NEW t \in Threads, NEW n \in Names, receive_incoming_name(t, n)
       PROVE  NoDestructor'
  BY <1>2, <1>13, <1>15 DEF receive_incoming_name, clients
<1>16. ASSUME NEW r \in Remotes, NEW b \in Boxes, incoming_exit(r, b)
       PROVE  NoDestructor'
  BY <1>2, <1>13, <1>16 DEF incoming_exit, clients
<1>17. CASE UNCHANGED vars
  BY <1>2, <1>17 DEF vars
<1>18. ASSUME NEW r \in Remotes, NEW b \in Boxes,
              incoming_link(r, b) \/ incoming_unlink(r, b)
       PROVE  NoDestructor'
  BY <1>2, <1>18 DEF incoming_link, incoming_unlink
<1>19. Boxes \subseteq Pids
  BY DEF Pids
<1>20. ASSUME NEW t \in Threads, get_connection_to(t) \/ unlink_exited(t)
       PROVE  NoDestructor'
  BY <1>2, <1>20 DEF get_connection_to, unlink_exited
<1> QED BY <1>1, <1>3, <1>4, <1>5, <1>6, <1>7, <1>8, <1>9, <1>10, <1>11,
           <1>12, <1>14, <1>15, <1>16, <1>17, <1>18, <1>19, <1>20 DEF Next

(***************************************************************************)
(* As long as the clients keep their mailboxes, no thread waits for a      *)
(* mutex it holds ("ensure the mutex isn't locked", close_mailbox).        *)
(***************************************************************************)
THEOREM HeldMailboxesNoDeadlock ==
  ASSUME Droppable = {}
  PROVE  Spec => []NoSelfDeadlock
<1>1. Init => NoDestructor
  BY DEF Init, NoDestructor
<1>2. Ordered /\ NoDestructor /\ [Next]_vars => NoDestructor'
  BY NoDestructorStep
<1>3. Ordered /\ NoDestructor => NoSelfDeadlock
  <2> SUFFICES ASSUME Ordered, NoDestructor, NEW t \in Threads, SelfDeadlock(t)
               PROVE  FALSE
    BY DEF NoSelfDeadlock
  <2>1. stack[t][1].step = "unlock"
    BY OrderedDeadlock DEF DeadlockOnlyInDestructor
  <2>2. stack[t] # <<>>
    BY DEF SelfDeadlock, WantsLock, At, Idle
  <2> QED BY <2>1, <2>2 DEF NoDestructor
<1> QED BY <1>1, <1>2, <1>3, OrderedAlways, PTL DEF Spec
-----------------------------------------------------------------------------
(***************************************************************************)
(* Reachable mailboxes.                                                    *)
(***************************************************************************)

(***************************************************************************)
(* A step keeps the mailboxes reachable that erases only what is expired   *)
(* or doomed from the maps.                                                *)
(***************************************************************************)
LEMMA ReachableKept ==
  ASSUME OpenMailboxReachable, held' \ closed' \subseteq held \ closed,
         \A b \in held \ closed : b \in mailboxes => b \in mailboxes',
         \A b \in held \ closed :
           name_of[b] # NoName /\ registered[name_of[b]] = b =>
             registered'[name_of[b]] = b
  PROVE  OpenMailboxReachable'
BY DEF OpenMailboxReachable

LEMMA ReachableStep ==
  ASSUME DistinctNames, Ordered, OpenMailboxReachable, [Next]_vars
  PROVE  OpenMailboxReachable'
<1>0. \A b \in held \ closed : name_of[b] # NoName => name_of[b] \in Names
  BY NodeAssumption DEF Ordered, Clients
<1>1. ASSUME NEW t \in Threads, NEW b \in Boxes, create_mailbox(t, b)
      PROVE  OpenMailboxReachable'
  <2>1. /\ b \notin created /\ held' = held \cup {b} /\ closed' = closed
        /\ mailboxes' = mailboxes \cup {b}
        /\ registered' = [n \in Names |->
             IF n = name_of[b] /\ registered[n] = None THEN b
                                                       ELSE registered[n]]
    BY <1>1 DEF create_mailbox
  <2>2. ASSUME NEW a \in held \ closed
        PROVE  a \in mailboxes' /\ (name_of[a] # NoName =>
                                       registered'[name_of[a]] = a)
    <3>1. a \in Boxes /\ a # None
      BY NodeAssumption DEF Ordered, Clients, Pids
    <3> QED BY <1>0, <2>1, <3>1 DEF OpenMailboxReachable
  <2>3. ASSUME name_of[b] # NoName PROVE registered'[name_of[b]] = b
    <3>1. name_of[b] \in Names
      BY <2>3, NodeAssumption
    <3>2. registered[name_of[b]] = None
      BY <2>1, <2>3, <3>1 DEF Ordered, NamesKept, Clients, DistinctNames
    <3> QED BY <2>1, <3>1, <3>2
  <2> QED BY <2>1, <2>2, <2>3 DEF OpenMailboxReachable
<1>2. ASSUME UNCHANGED <<clients, maps>> PROVE OpenMailboxReachable'
  BY <1>2 DEF OpenMailboxReachable, clients, maps
<1>3. ASSUME NEW t \in Threads, NEW a \in Boxes, NEW b \in Pids,
             link_local(t, a, b) \/ unlink(t, a, b) \/ link_remote(t, a, b)
      PROVE  OpenMailboxReachable'
  BY <1>2, <1>3 DEF link_local, unlink, link_remote
<1>4. ASSUME NEW r \in Remotes, NEW b \in Boxes,
             incoming_link(r, b) \/ incoming_unlink(r, b)
      PROVE  OpenMailboxReachable'
  BY <1>2, <1>4 DEF incoming_link, incoming_unlink
<1>5. ASSUME NEW t \in Threads, NEW b \in Boxes,
             close(t, b) \/ drop(t, b) \/ drop_unwinding(t, b)
      PROVE  OpenMailboxReachable'
  <2>1. held' \ closed' \subseteq held \ closed /\ UNCHANGED maps
    BY <1>5 DEF close, drop, drop_unwinding
  <2> QED BY <2>1, ReachableKept DEF maps
<1>6. ASSUME NEW b \in Boxes, close_mailbox_async(b)
      PROVE  OpenMailboxReachable'
  BY <1>2, <1>6 DEF close_mailbox_async
<1>7. ASSUME NEW t \in Threads,
             \/ store_link(t) \/ close_links_for_local(t)
             \/ request_exit2_remote(t) \/ release_destination(t) \/ unlock(t)
             \/ get_connection_to(t) \/ unlink_exited(t)
      PROVE  OpenMailboxReachable'
  BY <1>2, <1>7 DEF get_connection_to, unlink_exited, store_link,
     close_links_for_local, request_exit2_remote,
     release_destination, unlock
<1>8. ASSUME NEW b, mailboxes' = mailboxes \/ mailboxes' = mailboxes \ {b},
             mailboxes' = mailboxes \/ ~Fetched(b),
             UNCHANGED <<clients, registered>>
      PROVE  OpenMailboxReachable'
  BY <1>8, ReachableKept DEF Fetched, Owned, clients
<1>9. ASSUME NEW t \in Threads, incoming_exit2(t)
      PROVE  OpenMailboxReachable'
  <2> DEFINE b == Head(Top(t).todo)
  <2>1. /\ mailboxes' = mailboxes \/ mailboxes' = mailboxes \ {b}
        /\ mailboxes' = mailboxes \/ ~Fetched(b)
        /\ UNCHANGED <<clients, registered>>
    BY <1>9 DEF incoming_exit2, on_link_broken, maps
  <2> QED BY <1>8, <2>1
<1>10. ASSUME NEW b \in Boxes, receive_incoming_pid(b)
       PROVE  OpenMailboxReachable'
  BY <1>8, <1>10 DEF receive_incoming_pid
<1>11. ASSUME NEW r \in Remotes, NEW b \in Boxes, incoming_exit(r, b)
       PROVE  OpenMailboxReachable'
  BY <1>8, <1>11 DEF incoming_exit, on_link_broken, maps
<1>12. ASSUME NEW t \in Threads, NEW n \in Names, receive_incoming_name(t, n)
       PROVE  OpenMailboxReachable'
  <2>1. UNCHANGED <<clients, mailboxes>>
    BY <1>12 DEF receive_incoming_name
  <2>2. CASE UNCHANGED registered
    BY <1>2, <2>1, <2>2 DEF maps
  <2>3. CASE /\ registered' = [registered EXCEPT ![n] = None]
             /\ registered[n] = None \/ ~Owned(registered[n])
    <3>1. \A b \in held \ closed : b # None /\ Owned(b)
      BY NodeAssumption DEF Ordered, Clients, Pids, Owned
    <3>2. ASSUME NEW b \in held \ closed, name_of[b] # NoName,
                 registered[name_of[b]] = b
          PROVE  registered'[name_of[b]] = b
      BY <1>0, <2>3, <3>1, <3>2 DEF Ordered, NamesKept
    <3> QED BY <2>1, <3>2, ReachableKept DEF clients
  <2> QED BY <1>12, <2>2, <2>3 DEF receive_incoming_name
<1>13. ASSUME NEW t \in Threads, remove(t)
       PROVE  OpenMailboxReachable'
  <2>1. /\ At(t, "notify") /\ UNCHANGED clients
        /\ mailboxes' = mailboxes \ {Top(t).box}
        /\ registered' = [n \in Names |->
             IF n = name_of[Top(t).box] THEN None ELSE registered[n]]
    BY <1>13 DEF remove
  <2>2. Top(t).box \in Doomed
    BY <2>1, InNotify DEF Ordered, InClose
  <2>3. Top(t).box \in Boxes /\ Top(t).box \notin held \ closed
    BY <2>2 DEF Doomed, Ordered, Clients
  <2>4. ASSUME NEW b \in held \ closed, name_of[b] # NoName,
               registered[name_of[b]] = b
        PROVE  registered'[name_of[b]] = b
    <3>1. b \in Boxes
      BY DEF Ordered, Clients
    <3>2. name_of[b] # name_of[Top(t).box]
      BY <2>3, <2>4, <3>1 DEF DistinctNames
    <3> QED BY <1>0, <2>1, <2>4, <3>2
  <2> QED BY <2>1, <2>3, <2>4, ReachableKept DEF clients
<1>14. CASE UNCHANGED vars
  BY <1>2, <1>14 DEF vars
<1>15. Boxes \subseteq Pids /\ Remotes \subseteq Pids
  BY DEF Pids
<1> QED BY <1>1, <1>3, <1>4, <1>5, <1>6, <1>7, <1>9, <1>10, <1>11, <1>12,
           <1>13, <1>14, <1>15 DEF Next

(***************************************************************************)
(* A mailbox that its client holds and has not closed can be reached by    *)
(* its pid and by its name, whatever closes, exits and deliveries that     *)
(* find expired mailboxes cross, if no two mailboxes are given one name.   *)
(* (remove erases the name of the mailbox closed whichever mailbox it      *)
(* stands for: with a name given twice this fails.)                        *)
(***************************************************************************)
THEOREM OpenMailboxAlwaysReachable ==
  ASSUME DistinctNames
  PROVE  Spec => []OpenMailboxReachable
<1>1. Init => OpenMailboxReachable
  BY DEF Init, OpenMailboxReachable
<1>2. Ordered /\ OpenMailboxReachable /\ [Next]_vars => OpenMailboxReachable'
  BY ReachableStep
<1> QED BY <1>1, <1>2, OrderedAlways, PTL DEF Spec

-----------------------------------------------------------------------------
(***************************************************************************)
(* std::list::remove.  Without is a recursive function over the places of  *)
(* the list: f is that function for the first n places.                    *)
(***************************************************************************)
KeptBy(f, s, D, n) ==
  f = [i \in 0..n |->
        IF i = 0 THEN <<>> ELSE
        IF s[i] \in D THEN f[i - 1] ELSE Append(f[i - 1], s[i])]

LEMMA KeptExists ==
  ASSUME NEW S, NEW s \in Seq(S), NEW D, NEW n \in Nat
  PROVE  \E f : KeptBy(f, s, D, n)
<1> DEFINE T == {k \in Nat : \E f : KeptBy(f, s, D, k)}
<1>1. 0 \in T
  <2> DEFINE g == [i \in 0..0 |-> <<>>]
  <2>1. KeptBy(g, s, D, 0)
    BY DEF KeptBy
  <2> QED BY <2>1
<1>2. ASSUME NEW k \in T PROVE k + 1 \in T
  <2>1. PICK f : KeptBy(f, s, D, k)
    OBVIOUS
  <2> DEFINE x == IF s[k + 1] \in D THEN f[k] ELSE Append(f[k], s[k + 1])
             g == [i \in 0..(k + 1) |-> IF i = k + 1 THEN x ELSE f[i]]
             h == [i \in 0..(k + 1) |->
                    IF i = 0 THEN <<>> ELSE
                    IF s[i] \in D THEN g[i - 1] ELSE Append(g[i - 1], s[i])]
  <2>2. \A i \in 0..k : g[i] = f[i]
    OBVIOUS
  <2>3. g[k + 1] = x
    OBVIOUS
  <2>4. ASSUME NEW i \in 0..(k + 1) PROVE g[i] = h[i]
    <3>1. CASE i = k + 1
      <4>1. i # 0 /\ i - 1 = k /\ k \in 0..k
        BY <3>1
      <4>2. g[i - 1] = f[k]
        BY <2>2, <4>1
      <4>3. h[i] = IF s[i] \in D THEN g[i - 1] ELSE Append(g[i - 1], s[i])
        BY <4>1
      <4> QED BY <2>3, <3>1, <4>2, <4>3
    <3>2. CASE i = 0
      <4>1. f[0] = <<>>
        BY <2>1 DEF KeptBy
      <4>2. h[0] = <<>> /\ g[0] = f[0]
        BY <2>2
      <4> QED BY <3>2, <4>1, <4>2
    <3>3. CASE i # 0 /\ i # k + 1
      <4>1. i \in 0..k /\ i - 1 \in 0..k
        BY <3>3
      <4>2. f[i] = IF s[i] \in D THEN f[i - 1] ELSE Append(f[i - 1], s[i])
        BY <2>1, <3>3, <4>1 DEF KeptBy
      <4>3. h[i] = IF s[i] \in D THEN g[i - 1] ELSE Append(g[i - 1], s[i])
        BY <3>3
      <4>4. g[i - 1] = f[i - 1] /\ g[i] = f[i]
        BY <2>2, <4>1
      <4> QED BY <4>2, <4>3, <4>4
    <3> QED BY <3>1, <3>2, <3>3
  <2>5. /\ g = [i \in 0..(k + 1) |-> g[i]]
        /\ h = [i \in 0..(k + 1) |-> h[i]]
    OBVIOUS
  <2>6. g = h
    <3> HIDE DEF g, h
    <3> QED BY <2>4, <2>5
  <2>7. KeptBy(g, s, D, k + 1)
    <3> HIDE DEF g
    <3> QED BY <2>6 DEF KeptBy
  <2> QED BY <2>7
<1>3. T = Nat
  <2>1. T \in SUBSET Nat
    OBVIOUS
  <2> HIDE DEF T
  <2> QED BY <1>1, <1>2, <2>1, SetInduction
<1> QED BY <1>3

LEMMA WithoutKept ==
  ASSUME NEW S, NEW s \in Seq(S), NEW D
  PROVE  \E f : KeptBy(f, s, D, Len(s)) /\ Without(s, D) = f[Len(s)]
<1> DEFINE g == CHOOSE f : KeptBy(f, s, D, Len(s))
<1>1. Len(s) \in Nat
  OBVIOUS
<1>2. KeptBy(g, s, D, Len(s))
  BY <1>1, KeptExists
<1>3. Without(s, D) = g[Len(s)]
  BY DEF Without, KeptBy
<1> HIDE DEF g
<1> QED BY <1>2, <1>3

(***************************************************************************)
(* r holds those of the first n elements of s that are not in D, each at   *)
(* one place: h names the place in s that each element of r comes from.    *)
(***************************************************************************)
PlacedBy(h, r, s, D, n) ==
  /\ h \in [1..Len(r) -> 1..n]
  /\ \A k \in 1..Len(r) : r[k] = s[h[k]] /\ s[h[k]] \notin D
  /\ \A k, m \in 1..Len(r) : h[k] = h[m] => k = m
  /\ \A j \in 1..n : s[j] \notin D => \E k \in 1..Len(r) : h[k] = j

LEMMA PlacedNext ==
  ASSUME NEW S, NEW s \in Seq(S), NEW D, NEW n \in Nat, n + 1 <= Len(s),
         NEW r \in Seq(S), NEW h, PlacedBy(h, r, s, D, n),
         NEW q, q = IF s[n + 1] \in D THEN r ELSE Append(r, s[n + 1])
  PROVE  q \in Seq(S) /\ \E g : PlacedBy(g, q, s, D, n + 1)
<1>0. Len(r) \in Nat /\ s[n + 1] \in S
  OBVIOUS
<1>1. CASE s[n + 1] \in D
  <2>1. \A j \in 1..(n + 1) : j \in 1..n \/ j = n + 1
    OBVIOUS
  <2>2. h \in [1..Len(r) -> 1..(n + 1)]
    BY DEF PlacedBy
  <2>3. PlacedBy(h, r, s, D, n + 1)
    BY <1>1, <2>1, <2>2 DEF PlacedBy
  <2> QED BY <1>1, <2>3
<1>2. CASE s[n + 1] \notin D
  <2> DEFINE m == Len(r) + 1
             g == [k \in 1..m |-> IF k = m THEN n + 1 ELSE h[k]]
  <2>1. q \in Seq(S) /\ Len(q) = m /\ q[m] = s[n + 1]
        /\ \A k \in 1..Len(r) : q[k] = r[k]
    BY <1>0, <1>2, AppendProperties
  <2>2. \A k \in 1..m : k = m \/ (k \in 1..Len(r) /\ k # m)
    BY <1>0
  <2>3. \A j \in 1..(n + 1) : j = n + 1 \/ (j \in 1..n /\ j # n + 1)
    OBVIOUS
  <2>4. ASSUME NEW k \in 1..Len(r)
        PROVE  k \in 1..m /\ g[k] = h[k] /\ h[k] \in 1..n /\ h[k] \in 1..(n + 1)
    <3>1. k \in 1..m /\ k # m
      BY <1>0
    <3>2. g[k] = h[k]
      BY <3>1
    <3>3. h \in [1..Len(r) -> 1..n]
      BY DEF PlacedBy
    <3>4. h[k] \in 1..n
      BY <3>3
    <3>5. h[k] \in 1..(n + 1)
      BY <3>4
    <3> QED BY <3>1, <3>2, <3>4, <3>5
  <2>5. m \in 1..m /\ g[m] = n + 1
    BY <1>0
  <2>6. g \in [1..m -> 1..(n + 1)]
    <3>1. n + 1 \in 1..(n + 1)
      OBVIOUS
    <3>2. \A k \in 1..m : (IF k = m THEN n + 1 ELSE h[k]) \in 1..(n + 1)
      BY <2>2, <2>4, <3>1
    <3> QED BY <3>2
  <2>7. \A i \in 1..n : i # n + 1
    OBVIOUS
  <2> HIDE DEF g, m
  <2>8. ASSUME NEW k \in 1..m PROVE q[k] = s[g[k]] /\ s[g[k]] \notin D
    <3>1. CASE k = m
      BY <1>2, <2>1, <2>5, <3>1
    <3>2. CASE k \in 1..Len(r)
      BY <2>1, <2>4, <3>2 DEF PlacedBy
    <3> QED BY <2>2, <3>1, <3>2
  <2>9. ASSUME NEW k \in 1..m, NEW l \in 1..m, g[k] = g[l] PROVE k = l
    <3>1. CASE k = m
      BY <2>2, <2>4, <2>5, <2>7, <2>9, <3>1
    <3>2. CASE l = m
      BY <2>2, <2>4, <2>5, <2>7, <2>9, <3>2
    <3>3. CASE k # m /\ l # m
      BY <2>2, <2>4, <2>9, <3>3 DEF PlacedBy
    <3> QED BY <3>1, <3>2, <3>3
  <2>10. ASSUME NEW j \in 1..(n + 1), s[j] \notin D
         PROVE  \E k \in 1..m : g[k] = j
    <3>1. CASE j = n + 1
      BY <2>5, <3>1
    <3>2. CASE j \in 1..n
      <4>1. PICK k \in 1..Len(r) : h[k] = j
        BY <2>10, <3>2 DEF PlacedBy
      <4> QED BY <2>4, <4>1
    <3> QED BY <2>3, <3>1, <3>2
  <2>11. PlacedBy(g, q, s, D, n + 1)
    BY <2>1, <2>6, <2>8, <2>9, <2>10 DEF PlacedBy
  <2> QED BY <2>1, <2>11
<1> QED BY <1>1, <1>2

LEMMA KeptPlaced ==
  ASSUME NEW S, NEW s \in Seq(S), NEW D, NEW f, KeptBy(f, s, D, Len(s)),
         NEW n \in 0..Len(s)
  PROVE  f[n] \in Seq(S) /\ \E h : PlacedBy(h, f[n], s, D, n)
<1> DEFINE Q(k) == f[k] \in Seq(S) /\ \E h : PlacedBy(h, f[k], s, D, k)
           T == {k \in Nat : k <= Len(s) => Q(k)}
<1>0. Len(s) \in Nat
  OBVIOUS
<1>1. 0 \in T
  <2>1. f[0] = <<>>
    BY <1>0 DEF KeptBy
  <2>2. <<>> \in Seq(S) /\ Len(<<>>) = 0
    OBVIOUS
  <2>3. \A i \in 1..0 : FALSE
    OBVIOUS
  <2> DEFINE h == [i \in 1..0 |-> i]
  <2>4. h \in [1..0 -> 1..0]
    OBVIOUS
  <2> HIDE DEF h
  <2>5. PlacedBy(h, <<>>, s, D, 0)
    BY <2>2, <2>3, <2>4 DEF PlacedBy
  <2> QED BY <2>1, <2>2, <2>5
<1>2. ASSUME NEW k \in T PROVE k + 1 \in T
  <2> SUFFICES ASSUME k + 1 <= Len(s) PROVE Q(k + 1)
    OBVIOUS
  <2>1. k \in Nat /\ k <= Len(s) /\ k + 1 \in 0..Len(s) /\ k + 1 # 0
    BY <1>0
  <2>2. f[k] \in Seq(S)
    BY <2>1
  <2>3. PICK h : PlacedBy(h, f[k], s, D, k)
    BY <2>1
  <2>4. f[k + 1] = IF s[k + 1] \in D THEN f[k] ELSE Append(f[k], s[k + 1])
    <3>1. (k + 1) - 1 = k
      BY <2>1
    <3> QED BY <2>1, <3>1 DEF KeptBy
  <2> QED BY <2>1, <2>2, <2>3, <2>4, PlacedNext
<1>3. T = Nat
  <2>1. T \in SUBSET Nat
    OBVIOUS
  <2> HIDE DEF T
  <2> QED BY <1>1, <1>2, <2>1, SetInduction
<1>4. n \in Nat /\ n <= Len(s)
  BY <1>0
<1>5. Q(n)
  BY <1>3, <1>4
<1> QED BY <1>5

LEMMA WithoutPlaced ==
  ASSUME NEW S, NEW s \in Seq(S), NEW D
  PROVE  /\ Without(s, D) \in Seq(S)
         /\ \E h : PlacedBy(h, Without(s, D), s, D, Len(s))
<1>1. PICK f : KeptBy(f, s, D, Len(s)) /\ Without(s, D) = f[Len(s)]
  BY WithoutKept
<1>2. Len(s) \in 0..Len(s)
  OBVIOUS
<1> QED BY <1>1, <1>2, KeptPlaced

-----------------------------------------------------------------------------
(***************************************************************************)
(* What the linker's list holds.                                           *)
(***************************************************************************)
Between(p, q) == {p, q}
Stored(s, e) == \E i \in DOMAIN s : e = {s[i][1], s[i][2]}
Once(s)      == \A i, j \in DOMAIN s : Joins(s[i], s[j][1], s[j][2]) => i = j

LEMMA LinkEnds ==
  ASSUME NEW l \in Links, NEW p, NEW q
  PROVE  /\ l[1] \in Pids /\ l[2] \in Pids /\ l = <<l[1], l[2]>>
         /\ Joins(l, p, q) <=> {l[1], l[2]} = {p, q}
<1>1. l[1] \in Pids /\ l[2] \in Pids /\ l = <<l[1], l[2]>>
  BY DEF Links
<1>2. Joins(l, p, q) <=> (l[1] = p /\ l[2] = q) \/ (l[1] = q /\ l[2] = p)
  BY <1>1 DEF Joins
<1>3. {l[1], l[2]} = {p, q} <=> (l[1] = p /\ l[2] = q) \/ (l[1] = q /\ l[2] = p)
  OBVIOUS
<1> QED BY <1>1, <1>2, <1>3

(***************************************************************************)
(* Without keeps the links that are not in D, and none of them twice.      *)
(***************************************************************************)
LEMMA WithoutHolds ==
  ASSUME NEW s \in Seq(Links), NEW D
  PROVE  /\ Without(s, D) \in Seq(Links)
         /\ \A e : Stored(Without(s, D), e) <=>
                     \E i \in DOMAIN s : s[i] \notin D /\ e = {s[i][1], s[i][2]}
         /\ \A i \in DOMAIN Without(s, D) : Without(s, D)[i] \notin D
         /\ Once(s) => Once(Without(s, D))
<1> DEFINE r == Without(s, D)
<1>1. r \in Seq(Links)
  BY WithoutPlaced
<1>2. PICK h : PlacedBy(h, r, s, D, Len(s))
  BY WithoutPlaced
<1> HIDE DEF r
<1>3. DOMAIN r = 1..Len(r) /\ DOMAIN s = 1..Len(s)
  BY <1>1
<1>4. /\ \A k \in DOMAIN r : h[k] \in DOMAIN s /\ r[k] = s[h[k]] /\ r[k] \notin D
      /\ \A k, m \in DOMAIN r : h[k] = h[m] => k = m
      /\ \A j \in DOMAIN s : s[j] \notin D => \E k \in DOMAIN r : h[k] = j
  BY <1>2, <1>3 DEF PlacedBy
<1>5. ASSUME NEW e
      PROVE  Stored(r, e) <=>
                     \E i \in DOMAIN s : s[i] \notin D /\ e = {s[i][1], s[i][2]}
  <2>1. ASSUME NEW k \in DOMAIN r, e = {r[k][1], r[k][2]}
        PROVE  \E i \in DOMAIN s : s[i] \notin D /\ e = {s[i][1], s[i][2]}
    BY <1>4, <2>1
  <2>2. ASSUME NEW i \in DOMAIN s, s[i] \notin D, e = {s[i][1], s[i][2]}
        PROVE  Stored(r, e)
    <3>1. PICK k \in DOMAIN r : h[k] = i
      BY <1>4, <2>2
    <3> QED BY <1>4, <2>2, <3>1 DEF Stored
  <2> QED BY <2>1, <2>2 DEF Stored
<1>6. ASSUME Once(s) PROVE Once(r)
  <2> SUFFICES ASSUME NEW k \in DOMAIN r, NEW m \in DOMAIN r,
                      Joins(r[k], r[m][1], r[m][2])
               PROVE  k = m
    BY DEF Once
  <2>1. Joins(s[h[k]], s[h[m]][1], s[h[m]][2])
    BY <1>4
  <2> QED BY <1>4, <1>6, <2>1 DEF Once
<1> QED BY <1>1, <1>4, <1>5, <1>6 DEF r

LEMMA UnlinkHolds ==
  ASSUME NEW s \in Seq(Links), NEW p, NEW q
  PROVE  /\ remove_link_between(s, p, q) \in Seq(Links)
         /\ \A e : Stored(remove_link_between(s, p, q), e) <=>
                     Stored(s, e) /\ e # {p, q}
         /\ Once(s) => Once(remove_link_between(s, p, q))
<1> DEFINE D == {l \in Links : Joins(l, p, q)}
           r == Without(s, D)
<1>1. r = remove_link_between(s, p, q)
  BY DEF remove_link_between
<1>2. \A i \in DOMAIN s : s[i] \in Links
  OBVIOUS
<1>3. \A i \in DOMAIN s : s[i] \in D <=> {s[i][1], s[i][2]} = {p, q}
  BY <1>2, LinkEnds
<1> HIDE DEF D
<1>4. /\ r \in Seq(Links)
      /\ Once(s) => Once(r)
      /\ \A e : Stored(r, e) <=>
                     \E i \in DOMAIN s : s[i] \notin D /\ e = {s[i][1], s[i][2]}
  BY WithoutHolds
<1> HIDE DEF r
<1>5. ASSUME NEW e PROVE Stored(r, e) <=> Stored(s, e) /\ e # {p, q}
  <2>1. Stored(s, e) /\ e # {p, q} =>
          \E i \in DOMAIN s : s[i] \notin D /\ e = {s[i][1], s[i][2]}
    BY <1>3 DEF Stored
  <2>2. (\E i \in DOMAIN s : s[i] \notin D /\ e = {s[i][1], s[i][2]}) =>
          Stored(s, e) /\ e # {p, q}
    BY <1>3 DEF Stored
  <2> QED BY <1>4, <2>1, <2>2
<1> QED BY <1>1, <1>4, <1>5

LEMMA LinkHolds ==
  ASSUME NEW s \in Seq(Links), NEW p \in Pids, NEW q \in Pids, NEW t,
         t = establish_link_between(remove_link_between(s, p, q), p, q)
  PROVE  /\ t \in Seq(Links)
         /\ Stored(t, Between(p, q))
         /\ \A e : Stored(s, e) => Stored(t, e)
         /\ \A e : Stored(t, e) /\ e # Between(p, q) => Stored(s, e)
         /\ Once(s) => Once(t)
<1> DEFINE r == remove_link_between(s, p, q)
           n == Len(r) + 1
<1>1. /\ r \in Seq(Links)
      /\ \A e : Stored(r, e) <=> Stored(s, e) /\ e # {p, q}
      /\ Once(s) => Once(r)
  BY UnlinkHolds
<1>2. <<p, q>> \in Links /\ <<p, q>>[1] = p /\ <<p, q>>[2] = q
  BY DEF Links
<1>3. t = Append(r, <<p, q>>)
  BY DEF establish_link_between
<1> HIDE DEF r
<1>4. /\ t \in Seq(Links) /\ Len(t) = n /\ t[n] = <<p, q>> /\ n \in 1..n
      /\ \A i \in 1..Len(r) : t[i] = r[i] /\ i \in 1..n
      /\ \A i \in 1..n : i \in 1..Len(r) \/ i = n
  BY <1>1, <1>2, <1>3, AppendProperties
<1>5. DOMAIN t = 1..n /\ DOMAIN r = 1..Len(r)
  BY <1>1, <1>4
<1> HIDE DEF n
<1>6. ASSUME NEW e PROVE Stored(t, e) <=> Stored(s, e) \/ e = {p, q}
  <2>1. Stored(t, e) => Stored(r, e) \/ e = {p, q}
    <3> SUFFICES ASSUME NEW i \in DOMAIN t, e = {t[i][1], t[i][2]}
                 PROVE  Stored(r, e) \/ e = {p, q}
      BY DEF Stored
    <3>1. CASE i = n
      BY <1>2, <1>4, <3>1
    <3>2. CASE i \in 1..Len(r)
      BY <1>4, <1>5, <3>2 DEF Stored
    <3> QED BY <1>4, <1>5, <3>1, <3>2
  <2>2. Stored(r, e) => Stored(t, e)
    BY <1>4, <1>5 DEF Stored
  <2>3. e = {p, q} => Stored(t, e)
    BY <1>2, <1>4, <1>5 DEF Stored
  <2> QED BY <1>1, <2>1, <2>2, <2>3
<1>7. ASSUME Once(s) PROVE Once(t)
  <2> SUFFICES ASSUME NEW i \in DOMAIN t, NEW j \in DOMAIN t,
                      Joins(t[i], t[j][1], t[j][2])
               PROVE  i = j
    BY DEF Once
  <2>1. {t[i][1], t[i][2]} = {t[j][1], t[j][2]}
    <3>1. t[i] \in Links
      BY <1>4
    <3>2. \A p1, q1 : Joins(t[i], p1, q1) <=> {t[i][1], t[i][2]} = {p1, q1}
      BY <3>1, LinkEnds
    <3> QED BY <3>2
  <2>2. \A k \in 1..Len(r) : {t[k][1], t[k][2]} # {p, q}
    BY <1>1, <1>4, <1>5 DEF Stored
  <2>3. CASE i = n \/ j = n
    <3>1. {t[n][1], t[n][2]} = {p, q}
      BY <1>2, <1>4
    <3>2. (i \in 1..Len(r) \/ i = n) /\ (j \in 1..Len(r) \/ j = n)
      BY <1>4, <1>5
    <3>3. i = n => {t[j][1], t[j][2]} = {p, q}
      BY <2>1, <3>1
    <3>4. j = n => {t[i][1], t[i][2]} = {p, q}
      BY <2>1, <3>1
    <3> QED BY <2>2, <2>3, <3>2, <3>3, <3>4
  <2>4. CASE i \in 1..Len(r) /\ j \in 1..Len(r)
    <3>1. Joins(r[i], r[j][1], r[j][2]) /\ i \in DOMAIN r /\ j \in DOMAIN r
      BY <1>4, <1>5, <2>4
    <3>2. Once(r)
      BY <1>1, <1>7
    <3> QED BY <3>1, <3>2 DEF Once
  <2> QED BY <1>4, <1>5, <2>3, <2>4
<1> QED BY <1>4, <1>6, <1>7 DEF Between

LEMMA CloseLinksHolds ==
  ASSUME NEW s \in Seq(Links), NEW b
  PROVE  /\ Without(s, Touching(b)) \in Seq(Links)
         /\ \A e : Stored(Without(s, Touching(b)), e) <=>
                     Stored(s, e) /\ b \notin e
         /\ Once(s) => Once(Without(s, Touching(b)))
<1> DEFINE D == Touching(b)
           r == Without(s, D)
<1>2. \A i \in DOMAIN s : s[i] \in Links
  OBVIOUS
<1>3. \A i \in DOMAIN s : s[i] \in D <=> b \in {s[i][1], s[i][2]}
  BY <1>2 DEF Touching
<1> HIDE DEF D
<1>4. /\ r \in Seq(Links)
      /\ Once(s) => Once(r)
      /\ \A e : Stored(r, e) <=>
                     \E i \in DOMAIN s : s[i] \notin D /\ e = {s[i][1], s[i][2]}
  BY WithoutHolds
<1> HIDE DEF r
<1>5. ASSUME NEW e PROVE Stored(r, e) <=> Stored(s, e) /\ b \notin e
  <2>1. Stored(r, e) <=>
          \E i \in DOMAIN s : s[i] \notin D /\ e = {s[i][1], s[i][2]}
    BY <1>4
  <2>2. ASSUME NEW i \in DOMAIN s, e = {s[i][1], s[i][2]}
        PROVE  s[i] \in D <=> b \in e
    BY <1>3, <2>2
  <2> QED BY <2>1, <2>2 DEF Stored
<1> QED BY <1>4, <1>5 DEF r, D

(***************************************************************************)
(* remove_links_from collects the other end of each link of the mailbox,   *)
(* and each once.                                                          *)
(***************************************************************************)
LEMMA LinkedToHolds ==
  ASSUME established_links \in Seq(Links), NEW b
  PROVE  /\ LinkedTo(b) \in Seq(Pids)
         /\ \A k \in DOMAIN LinkedTo(b) :
              Stored(established_links, {b, LinkedTo(b)[k]})
         /\ \A e : Stored(established_links, e) /\ b \in e =>
              \E k \in DOMAIN LinkedTo(b) : e = {b, LinkedTo(b)[k]}
         /\ Once(established_links) =>
              \A k, m \in DOMAIN LinkedTo(b) :
                {b, LinkedTo(b)[k]} = {b, LinkedTo(b)[m]} => k = m
<1> DEFINE s == established_links
           D == Links \ Touching(b)
           r == LinksOf(b)
           d == LinkedTo(b)
<1>0. r = Without(s, D)
  BY DEF LinksOf
<1>1. \A i \in DOMAIN s : s[i] \in Links
  OBVIOUS
<1>2. \A i \in DOMAIN s : s[i] \notin D <=> b \in {s[i][1], s[i][2]}
  BY <1>1 DEF Touching
<1>3. \A l \in Links \ D : b \in {l[1], l[2]}
  BY DEF Touching
<1> HIDE DEF D
<1>4. /\ r \in Seq(Links)
      /\ Once(s) => Once(r)
      /\ \A i \in DOMAIN r : r[i] \notin D
      /\ \A e : Stored(r, e) <=>
                     \E i \in DOMAIN s : s[i] \notin D /\ e = {s[i][1], s[i][2]}
  BY <1>0, WithoutHolds
<1>5. d = [i \in DOMAIN r |-> IF r[i][1] = b THEN r[i][2] ELSE r[i][1]]
  BY DEF LinkedTo
<1> HIDE DEF r, d
<1>6. DOMAIN r = 1..Len(r) /\ Len(r) \in Nat /\ DOMAIN d = DOMAIN r
  BY <1>4, <1>5
<1>7. ASSUME NEW i \in DOMAIN r
      PROVE  /\ r[i] \in Links /\ r[i][1] \in Pids /\ r[i][2] \in Pids
             /\ d[i] = (IF r[i][1] = b THEN r[i][2] ELSE r[i][1])
             /\ {b, d[i]} = {r[i][1], r[i][2]}
  <2>1. r[i] \in Links /\ r[i] \notin D
    BY <1>4
  <2>2. r[i][1] \in Pids /\ r[i][2] \in Pids /\ b \in {r[i][1], r[i][2]}
    BY <1>3, <2>1, LinkEnds
  <2>3. d[i] = IF r[i][1] = b THEN r[i][2] ELSE r[i][1]
    BY <1>5
  <2> QED BY <2>1, <2>2, <2>3
<1>8. d \in Seq(Pids)
  <2>1. d \in [1..Len(r) -> Pids]
    BY <1>5, <1>6, <1>7
  <2> QED BY <1>6, <2>1
<1>9. ASSUME NEW e PROVE Stored(r, e) <=> Stored(s, e) /\ b \in e
  <2>1. Stored(r, e) <=>
          \E i \in DOMAIN s : s[i] \notin D /\ e = {s[i][1], s[i][2]}
    BY <1>4
  <2>2. ASSUME NEW i \in DOMAIN s, e = {s[i][1], s[i][2]}
        PROVE  s[i] \notin D <=> b \in e
    BY <1>2, <2>2
  <2> HIDE DEF s
  <2> QED BY <2>1, <2>2 DEF Stored
<1>10. \A e : Stored(r, e) <=> \E k \in DOMAIN d : e = {b, d[k]}
  BY <1>6, <1>7 DEF Stored
<1>11. ASSUME Once(s), NEW k \in DOMAIN d, NEW m \in DOMAIN d,
              {b, d[k]} = {b, d[m]}
       PROVE  k = m
  <2>1. {r[k][1], r[k][2]} = {r[m][1], r[m][2]} /\ r[k] \in Links
    BY <1>6, <1>7, <1>11
  <2>2. Joins(r[k], r[m][1], r[m][2])
    BY <2>1, LinkEnds
  <2> QED BY <1>4, <1>6, <1>11, <2>2 DEF Once
<1> QED BY <1>8, <1>9, <1>10, <1>11 DEF d

-----------------------------------------------------------------------------
(***************************************************************************)
(* The exits under way: for the end e of a link, the places in the stacks  *)
(* (thread, frame, number in the frame's list) that hold it.               *)
(***************************************************************************)
Owes(f)        == f.step \in {"notify", "release", "unlock"}
OwedBy(f, e)   == {k \in DOMAIN f.todo : Owes(f) /\ e = {f.box, f.todo[k]}}
OwedAt(S, t, i, e) == IF i \in DOMAIN S[t] THEN OwedBy(S[t][i], e) ELSE {}
Exits(S, e)    == {x \in Threads \X Nat \X Nat :
                     x[3] \in OwedAt(S, x[1], x[2], e)}

(***************************************************************************)
(* One frame is replaced: f, in place n of the stack of t, by g.           *)
(***************************************************************************)
Swap(S, T, t, n, f, g) ==
  \A e : /\ OwedAt(S, t, n, e) = OwedBy(f, e)
         /\ OwedAt(T, t, n, e) = OwedBy(g, e)
         /\ \A u \in Threads, i \in Nat :
              u # t \/ i # n => OwedAt(T, u, i, e) = OwedAt(S, u, i, e)

NoFrame == Closing(None)

(***************************************************************************)
(* A frame's list is of pids; a link to be stored is between a mailbox     *)
(* that is created and a remote process.                                   *)
(***************************************************************************)
Good(f, C) ==
  /\ f.todo \in Seq(Pids)
  /\ f.step = "store_link" => f.box \in C /\ Head(f.todo) \in Remotes

AllGood(S, C) ==
  \A t \in Threads : \A i \in DOMAIN S[t] : Good(S[t][i], C)

LEMMA QuietFrame ==
  ASSUME NEW f, NEW e, ~Owes(f) \/ f.todo = <<>>
  PROVE  OwedBy(f, e) = {}
BY DEF OwedBy

LEMMA ClosingQuiet ==
  ASSUME NEW b, NEW e
  PROVE  OwedBy(Closing(b), e) = {} /\ ~Owes(Closing(b))
<1>1. ~Owes(Closing(b))
  BY ClosingFrame DEF Owes
<1> QED BY <1>1, QuietFrame

LEMMA NoFrameQuiet == ASSUME NEW e PROVE OwedBy(NoFrame, e) = {}
BY ClosingQuiet DEF NoFrame

(***************************************************************************)
(* A stack of at most two frames, place by place.                          *)
(***************************************************************************)
LEMMA StackPlaces ==
  ASSUME NEW f, NEW g
  PROVE  /\ DOMAIN <<>> = {} /\ DOMAIN <<f>> = {1} /\ DOMAIN <<f, g>> = {1, 2}
         /\ <<f>>[1] = f /\ <<f, g>>[1] = f /\ <<f, g>>[2] = g
OBVIOUS

LEMMA OtherStacks ==
  ASSUME Stacks, NEW t \in Threads, NEW s, stack' = [stack EXCEPT ![t] = s]
  PROVE  /\ stack'[t] = s
         /\ \A u \in Threads \ {t} : stack'[u] = stack[u]
         /\ \A e : \A u \in Threads \ {t}, i \in Nat :
              OwedAt(stack', u, i, e) = OwedAt(stack, u, i, e)
<1>1. stack'[t] = s /\ \A u \in Threads \ {t} : stack'[u] = stack[u]
  BY DEF Stacks
<1> QED BY <1>1 DEF OwedAt

LEMMA SwapOne ==
  ASSUME Stacks, NEW t \in Threads, NEW f, NEW g, NEW C, AllGood(stack, C),
         \/ stack[t] = <<>> /\ f = NoFrame
         \/ stack[t] = <<f>>,
         \/ stack' = [stack EXCEPT ![t] = <<>>] /\ g = NoFrame
         \/ stack' = [stack EXCEPT ![t] = <<g>>] /\ Good(g, C)
  PROVE  Swap(stack, stack', t, 1, f, g) /\ AllGood(stack', C)
<1> DEFINE s == stack'[t]
<1>1. /\ (s = <<>> /\ g = NoFrame) \/ (s = <<g>> /\ Good(g, C))
      /\ \A u \in Threads \ {t} : stack'[u] = stack[u]
      /\ \A e : \A u \in Threads \ {t}, i \in Nat :
              OwedAt(stack', u, i, e) = OwedAt(stack, u, i, e)
  BY OtherStacks
<1>2. ASSUME NEW i \in Nat, i # 1
      PROVE  i \notin DOMAIN stack'[t] /\ i \notin DOMAIN stack[t]
  BY <1>1, <1>2, StackPlaces
<1>3. ASSUME NEW e
      PROVE  OwedAt(stack, t, 1, e) = OwedBy(f, e)
  <2>1. CASE stack[t] = <<>> /\ f = NoFrame
    BY <2>1, StackPlaces, NoFrameQuiet DEF OwedAt
  <2>2. CASE stack[t] = <<f>>
    BY <2>2, StackPlaces DEF OwedAt
  <2> QED BY <2>1, <2>2
<1>4. ASSUME NEW e
      PROVE  OwedAt(stack', t, 1, e) = OwedBy(g, e)
  <2>1. CASE s = <<>> /\ g = NoFrame
    BY <2>1, StackPlaces, NoFrameQuiet DEF OwedAt
  <2>2. CASE s = <<g>>
    BY <2>2, StackPlaces DEF OwedAt
  <2> QED BY <1>1, <2>1, <2>2
<1>5. ASSUME NEW e, NEW u \in Threads, NEW i \in Nat, u # t \/ i # 1
      PROVE  OwedAt(stack', u, i, e) = OwedAt(stack, u, i, e)
  <2>1. CASE u # t
    BY <1>1, <2>1
  <2>2. CASE u = t
    BY <1>2, <1>5, <2>2 DEF OwedAt
  <2> QED BY <2>1, <2>2
<1>6. AllGood(stack', C)
  <2> SUFFICES ASSUME NEW u \in Threads, NEW i \in DOMAIN stack'[u]
               PROVE  Good(stack'[u][i], C)
    BY DEF AllGood
  <2>1. CASE u # t
    BY <1>1, <2>1 DEF AllGood
  <2>2. CASE u = t
    BY <1>1, <2>2, StackPlaces
  <2> QED BY <2>1, <2>2
<1> QED BY <1>3, <1>4, <1>5, <1>6 DEF Swap

LEMMA SwapTwo ==
  ASSUME Stacks, NEW t \in Threads, NEW f, NEW g, NEW h, NEW C,
         AllGood(stack, C), stack[t] = <<h, f>>,
         \/ stack' = [stack EXCEPT ![t] = <<h>>] /\ g = NoFrame
         \/ stack' = [stack EXCEPT ![t] = <<h, g>>] /\ Good(g, C)
  PROVE  Swap(stack, stack', t, 2, f, g) /\ AllGood(stack', C)
<1> DEFINE s == stack'[t]
<1>1. /\ (s = <<h>> /\ g = NoFrame) \/ (s = <<h, g>> /\ Good(g, C))
      /\ \A u \in Threads \ {t} : stack'[u] = stack[u]
      /\ \A e : \A u \in Threads \ {t}, i \in Nat :
              OwedAt(stack', u, i, e) = OwedAt(stack, u, i, e)
  BY OtherStacks
<1>2. /\ DOMAIN stack[t] = {1, 2} /\ stack[t][1] = h /\ stack[t][2] = f
      /\ 1 \in DOMAIN s /\ s[1] = h /\ DOMAIN s \subseteq {1, 2}
  BY <1>1, StackPlaces
<1>3. ASSUME NEW e
      PROVE  OwedAt(stack, t, 2, e) = OwedBy(f, e)
  BY <1>2 DEF OwedAt
<1>4. ASSUME NEW e
      PROVE  OwedAt(stack', t, 2, e) = OwedBy(g, e)
  <2>1. CASE s = <<h>> /\ g = NoFrame
    BY <2>1, StackPlaces, NoFrameQuiet DEF OwedAt
  <2>2. CASE s = <<h, g>>
    BY <2>2, StackPlaces DEF OwedAt
  <2> QED BY <1>1, <2>1, <2>2
<1>5. ASSUME NEW e, NEW u \in Threads, NEW i \in Nat, u # t \/ i # 2
      PROVE  OwedAt(stack', u, i, e) = OwedAt(stack, u, i, e)
  <2>1. CASE u # t
    BY <1>1, <2>1
  <2>2. CASE u = t
    <3>1. CASE i = 1
      BY <1>2, <2>2, <3>1 DEF OwedAt
    <3>2. CASE i # 1
      BY <1>2, <1>5, <2>2, <3>2 DEF OwedAt
    <3> QED BY <3>1, <3>2
  <2> QED BY <2>1, <2>2
<1>6. AllGood(stack', C)
  <2> SUFFICES ASSUME NEW u \in Threads, NEW i \in DOMAIN stack'[u]
               PROVE  Good(stack'[u][i], C)
    BY DEF AllGood
  <2>1. CASE u # t
    BY <1>1, <2>1 DEF AllGood
  <2>2. CASE u = t
    <3>1. Good(h, C)
      BY <1>2 DEF AllGood
    <3>2. CASE i = 1
      BY <1>2, <2>2, <3>1, <3>2
    <3>3. CASE i # 1
      <4>1. i = 2
        BY <1>2, <2>2, <3>3
      <4> QED BY <1>1, <2>2, <4>1, StackPlaces
    <3> QED BY <3>2, <3>3
  <2> QED BY <2>1, <2>2
<1> QED BY <1>3, <1>4, <1>5, <1>6 DEF Swap

(***************************************************************************)
(* A call begins; the innermost call goes on or returns; a delivery ends   *)
(* with a destructor.                                                      *)
(***************************************************************************)
LEMMA CallSwaps ==
  ASSUME Stacks, NEW t \in Threads, Idle(t), NEW C, AllGood(stack, C),
         NEW f, Good(f, C), stack' = Call(t, f)
  PROVE  Swap(stack, stack', t, 1, NoFrame, f) /\ AllGood(stack', C)
<1>1. stack' = [stack EXCEPT ![t] = <<f>>] /\ stack[t] = <<>>
  BY OneFrame DEF Stacks, Idle, Call
<1> QED BY <1>1, SwapOne

LEMMA GotoSwaps ==
  ASSUME Stacks, NEW t \in Threads, ~Idle(t), NEW C, AllGood(stack, C),
         NEW f, Good(f, C), stack' = Goto(t, f)
  PROVE  (\E n \in Nat : Swap(stack, stack', t, n, Top(t), f)) /\ AllGood(stack', C)
<1>1. stack' = [stack EXCEPT ![t] = Append(Front(stack[t]), f)]
  BY DEF Stacks, Goto
<1>2. CASE stack[t] = <<Top(t)>>
  <2>1. Append(Front(stack[t]), f) = <<f>>
    BY <1>2, OneFrame
  <2> QED BY <1>1, <1>2, <2>1, SwapOne
<1>3. ASSUME NEW h, stack[t] = <<h, Top(t)>>
      PROVE  (\E n \in Nat : Swap(stack, stack', t, n, Top(t), f)) /\ AllGood(stack', C)
  <2>1. Append(Front(stack[t]), f) = <<h, f>>
    <3>1. Front(stack[t]) = <<h>>
      BY <1>3, TwoFrames
    <3>2. Append(<<h>>, f) = <<h, f>>
      BY OneFrame
    <3> QED BY <3>1, <3>2
  <2> QED BY <1>1, <1>3, <2>1, SwapTwo
<1> QED BY <1>2, <1>3, TopFrame

LEMMA ReturnSwaps ==
  ASSUME Stacks, NEW t \in Threads, ~Idle(t), NEW C, AllGood(stack, C),
         stack' = Return(t)
  PROVE  (\E n \in Nat : Swap(stack, stack', t, n, Top(t), NoFrame))
         /\ AllGood(stack', C)
<1>1. stack' = [stack EXCEPT ![t] = Front(stack[t])]
  BY DEF Stacks, Return
<1>2. CASE stack[t] = <<Top(t)>>
  <2>1. Front(stack[t]) = <<>>
    BY <1>2, OneFrame
  <2> QED BY <1>1, <1>2, <2>1, SwapOne
<1>3. ASSUME NEW h, stack[t] = <<h, Top(t)>>
      PROVE  (\E n \in Nat : Swap(stack, stack', t, n, Top(t), NoFrame))
             /\ AllGood(stack', C)
  <2>1. Front(stack[t]) = <<h>>
    BY <1>3, TwoFrames
  <2> QED BY <1>1, <1>3, <2>1, SwapTwo
<1> QED BY <1>2, <1>3, TopFrame

LEMMA DestructorSwaps ==
  ASSUME Stacks, NEW t \in Threads, NEW C, AllGood(stack, C),
         stack[t] = <<Top(t)>>, NEW f, Good(f, C), NEW b,
         stack' = [stack EXCEPT ![t] = <<f, Closing(b)>>]
  PROVE  Swap(stack, stack', t, 1, Top(t), f) /\ AllGood(stack', C)
<1> DEFINE s == stack'[t]
           g == Closing(b)
<1>0. ~Owes(g) /\ g.step = "close_links" /\ g.todo = <<>>
  BY ClosingQuiet DEF Closing
<1> HIDE DEF g
<1>1. /\ s = <<f, g>>
      /\ \A u \in Threads \ {t} : stack'[u] = stack[u]
      /\ \A e : \A u \in Threads \ {t}, i \in Nat :
              OwedAt(stack', u, i, e) = OwedAt(stack, u, i, e)
  BY OtherStacks DEF g
<1>2. /\ DOMAIN stack[t] = {1} /\ stack[t][1] = Top(t)
      /\ DOMAIN s = {1, 2} /\ s[1] = f /\ s[2] = g
  BY <1>1, StackPlaces
<1>3. ASSUME NEW e
      PROVE  /\ OwedAt(stack, t, 1, e) = OwedBy(Top(t), e)
             /\ OwedAt(stack', t, 1, e) = OwedBy(f, e)
  BY <1>2 DEF OwedAt
<1>4. ASSUME NEW e, NEW u \in Threads, NEW i \in Nat, u # t \/ i # 1
      PROVE  OwedAt(stack', u, i, e) = OwedAt(stack, u, i, e)
  <2>1. CASE u # t
    BY <1>1, <2>1
  <2>2. CASE u = t
    <3>1. CASE i = 2
      <4>1. OwedBy(g, e) = {}
        BY <1>0, QuietFrame
      <4> QED BY <1>2, <2>2, <3>1, <4>1 DEF OwedAt
    <3>2. CASE i # 2
      BY <1>2, <1>4, <2>2, <3>2 DEF OwedAt
    <3> QED BY <3>1, <3>2
  <2> QED BY <2>1, <2>2
<1>5. Good(g, C)
  BY <1>0 DEF Good
<1>6. AllGood(stack', C)
  <2> SUFFICES ASSUME NEW u \in Threads, NEW i \in DOMAIN stack'[u]
               PROVE  Good(stack'[u][i], C)
    BY DEF AllGood
  <2>1. CASE u # t
    BY <1>1, <2>1 DEF AllGood
  <2>2. CASE u = t
    BY <1>2, <1>5, <2>2
  <2> QED BY <2>1, <2>2
<1> QED BY <1>3, <1>4, <1>6 DEF Swap

(***************************************************************************)
(* What a step does to the links, the exits under way and what is told of  *)
(* them: it stores a link, removes one, changes nothing of them, collects  *)
(* the links of a mailbox that closes, tells the next process on the list  *)
(* of a close, ends a close by a throw, reports an exit from a remote      *)
(* process, or removes the link of an exit reported before.                *)
(***************************************************************************)
SameExits == \A e \in SUBSET Pids : Exits(stack', e) = Exits(stack, e)

Stores(p, q) ==
  /\ linker_link(p, q) /\ {p, q} \subseteq created \cup Remotes
  /\ SameExits /\ UNCHANGED reports

Unstores(p, q) ==
  /\ linker_unlink(p, q) /\ joined' = joined \ {{p, q}}
  /\ SameExits /\ UNCHANGED <<made, cut_short, overtaken, reports>>

KeepsLinks ==
  SameExits /\ UNCHANGED <<established_links, made, joined, cut_short, overtaken, reports>>

Collects(t, n, f, g) ==
  /\ Swap(stack, stack', t, n, f, g)
  /\ ~Owes(f) /\ Owes(g) /\ g.todo = LinkedTo(g.box)
  /\ remove_links_from(g.box)
  /\ UNCHANGED <<made, joined, cut_short, overtaken, reports>>

Tells(t, n, f, g) ==
  /\ Swap(stack, stack', t, n, f, g)
  /\ Owes(f) /\ Owes(g) /\ g.box = f.box
  /\ f.todo \in Seq(Pids) /\ f.todo # <<>> /\ g.todo = Tail(f.todo)
  /\ joined' = joined \ {{f.box, Head(f.todo)}}
  /\ \/ Head(f.todo) \in Remotes /\ UNCHANGED reports
     \/ /\ Head(f.todo) \in Boxes
        /\ reports' = [reports EXCEPT ![Head(f.todo)] = Append(@, f.box)]
  /\ UNCHANGED <<established_links, made, cut_short, overtaken>>

Throws(t, n, f) ==
  /\ Swap(stack, stack', t, n, f, NoFrame)
  /\ cut_short' = cut_short \cup {f.box} /\ joined' \subseteq joined
  /\ UNCHANGED <<established_links, made, overtaken, reports>>

ReportsRemote(r, b) ==
  /\ joined' = joined \ {{r, b}}
  /\ reports' = [reports EXCEPT ![b] = Append(@, r)]
  /\ SameExits /\ UNCHANGED <<established_links, made, cut_short, overtaken>>

Overtakes(p, q) ==
  /\ linker_unlink(p, q)
  /\ overtaken' = overtaken \cup {e \in joined : e = {p, q} /\ StoredLink(e)}
  /\ SameExits /\ UNCHANGED <<made, joined, cut_short, reports>>

Moves ==
  \/ \E p, q \in Pids : Stores(p, q)
  \/ \E p, q \in Pids : Unstores(p, q)
  \/ KeepsLinks
  \/ \E t \in Threads, n \in Nat : \E f, g : Collects(t, n, f, g)
  \/ \E t \in Threads, n \in Nat : \E f, g : f.box \in Boxes /\ Tells(t, n, f, g)
  \/ \E t \in Threads, n \in Nat : \E f : Throws(t, n, f)
  \/ \E r \in Remotes, b \in Boxes : ReportsRemote(r, b)
  \/ \E p, q : Overtakes(p, q)

(***************************************************************************)
(* No mailbox is opened again.                                             *)
(***************************************************************************)
OpensNew ==
  /\ created \subseteq created'
  /\ held' \ closed' \subseteq (held \ closed) \cup (created' \ created)

LEMMA SwapSame ==
  ASSUME NEW S, NEW T, NEW t, NEW n, NEW f, NEW g,
         Swap(S, T, t, n, f, g), NEW e, OwedBy(f, e) = OwedBy(g, e)
  PROVE  Exits(T, e) = Exits(S, e)
<1>1. ASSUME NEW x \in Threads \X Nat \X Nat
      PROVE  OwedAt(T, x[1], x[2], e) = OwedAt(S, x[1], x[2], e)
  <2>1. x[1] \in Threads /\ x[2] \in Nat
    OBVIOUS
  <2>2. CASE x[1] = t /\ x[2] = n
    BY <2>2 DEF Swap
  <2>3. CASE ~(x[1] = t /\ x[2] = n)
    BY <2>1, <2>3 DEF Swap
  <2> QED BY <2>2, <2>3
<1> QED BY <1>1 DEF Exits

LEMMA SameStackExits == stack' = stack => SameExits
BY DEF SameExits

LEMMA QuietCall ==
  ASSUME Stacks, NEW t \in Threads, Idle(t), AllGood(stack, created),
         NEW f, f.todo = <<>> \/ f.step = "store_link",
         Good(f, created), stack' = Call(t, f), created' = created
  PROVE  SameExits /\ AllGood(stack', created')
<1>1. Swap(stack, stack', t, 1, NoFrame, f) /\ AllGood(stack', created')
  BY CallSwaps
<1>2. ~Owes(f) \/ f.todo = <<>>
  BY DEF Owes
<1>3. \A e : OwedBy(NoFrame, e) = {} /\ OwedBy(f, e) = {}
  BY <1>2, NoFrameQuiet, QuietFrame
<1>4. ASSUME NEW e PROVE Exits(stack', e) = Exits(stack, e)
  <2>1. OwedBy(NoFrame, e) = OwedBy(f, e)
    BY <1>3
  <2> QED BY <1>1, <2>1, SwapSame
<1> QED BY <1>1, <1>4 DEF SameExits

LEMMA ClosingGood ==
  ASSUME NEW b, NEW C
  PROVE  Closing(b).todo = <<>> /\ Good(Closing(b), C)
<1> DEFINE f == Closing(b)
<1>1. f.todo = <<>> /\ f.step = "close_links"
  BY DEF Closing
<1> HIDE DEF f
<1>2. Good(f, C)
  BY <1>1 DEF Good
<1> QED BY <1>1, <1>2 DEF f

LEMMA DeliveringGood ==
  ASSUME NEW b, NEW C
  PROVE  Delivering(b).todo = <<>> /\ Good(Delivering(b), C)
<1> DEFINE f == Delivering(b)
<1>1. f.todo = <<>> /\ f.step = "release"
  BY DEF Delivering
<1> HIDE DEF f
<1>2. Good(f, C)
  BY <1>1 DEF Good
<1> QED BY <1>1, <1>2 DEF f

LEMMA LinkingGood ==
  ASSUME NEW a \in created, NEW r \in Remotes
  PROVE  Good(Linking(a, r), created) /\ Linking(a, r).step = "store_link"
<1> DEFINE f == Linking(a, r)
           d == <<r>>
<1>1. f.todo = d /\ f.step = "store_link" /\ f.box = a
  BY DEF Linking
<1>2. d \in Seq(Pids) /\ Head(d) = r
  BY DEF Pids
<1> HIDE DEF f, d
<1>3. Good(f, created)
  BY <1>1, <1>2 DEF Good
<1> QED BY <1>1, <1>3 DEF f
-----------------------------------------------------------------------------
(***************************************************************************)
(* Each action is one of these moves.                                      *)
(***************************************************************************)
Moved == Moves /\ OpensNew /\ AllGood(stack', created')

LEMMA CreateMoves ==
  ASSUME Ordered, AllGood(stack, created),
         NEW t \in Threads, NEW b \in Boxes, create_mailbox(t, b)
  PROVE  Moved
<1>1. /\ UNCHANGED <<stack, established_links, made, joined, cut_short, overtaken, reports>>
      /\ created' = created \cup {b} /\ held' = held \cup {b} /\ b \notin created
      /\ closed' = closed
  BY DEF create_mailbox, history
<1>2. AllGood(stack', created')
  BY <1>1 DEF AllGood, Good
<1>3. OpensNew
  BY <1>1 DEF OpensNew
<1>4. KeepsLinks
  BY <1>1, SameStackExits DEF KeepsLinks
<1> QED BY <1>2, <1>3, <1>4 DEF Moved, Moves

LEMMA SameClients == ASSUME UNCHANGED clients PROVE OpensNew
BY DEF OpensNew, clients

LEMMA StillGood ==
  ASSUME UNCHANGED clients, UNCHANGED stack, AllGood(stack, created)
  PROVE  AllGood(stack', created')
<1>1. stack' = stack /\ created' = created
  BY DEF clients
<1> QED BY <1>1

LEMMA LinkMoves ==
  ASSUME Ordered, AllGood(stack, created), NEW p \in Pids, NEW q \in Pids,
         \/ linker_link(p, q) /\ {p, q} \subseteq created \cup Remotes
         \/ /\ linker_unlink(p, q) /\ joined' = joined \ {{p, q}}
            /\ UNCHANGED <<made, cut_short, overtaken>>,
         UNCHANGED clients, UNCHANGED stack, UNCHANGED reports
  PROVE  Moved
<1>1. OpensNew /\ AllGood(stack', created') /\ SameExits
  BY SameClients, StillGood, SameStackExits
<1>2. Stores(p, q) \/ Unstores(p, q)
  BY <1>1 DEF Stores, Unstores
<1> QED BY <1>1, <1>2 DEF Moved, Moves

LEMMA CallMoves ==
  ASSUME Ordered, AllGood(stack, created), NEW t \in Threads, Idle(t),
         NEW f, f.todo = <<>> \/ f.step = "store_link",
         Good(f, created), stack' = Call(t, f) \/ stack' = stack,
         UNCHANGED <<created, established_links, made, joined, cut_short, overtaken, reports>>,
         held' \ closed' \subseteq held \ closed
  PROVE  Moved
<1>0. Stacks /\ created' = created
  BY DEF Ordered
<1>1. SameExits /\ AllGood(stack', created')
  <2>1. CASE stack' = stack
    BY <1>0, <2>1, SameStackExits
  <2>2. CASE stack' = Call(t, f)
    BY <1>0, <2>2, QuietCall
  <2> QED BY <2>1, <2>2
<1>2. OpensNew
  BY DEF OpensNew
<1>3. KeepsLinks
  BY <1>1 DEF KeepsLinks
<1> QED BY <1>1, <1>2, <1>3 DEF Moved, Moves

LEMMA TopGood ==
  ASSUME Stacks, AllGood(stack, created), NEW t \in Threads, ~Idle(t)
  PROVE  Good(Top(t), created)
<1> DEFINE f == Top(t)
<1>1. stack[t] = <<f>> \/ \E h : stack[t] = <<h, f>>
  BY TopFrame
<1> HIDE DEF f
<1>2. \E i \in DOMAIN stack[t] : stack[t][i] = f
  BY <1>1, StackPlaces
<1>3. Good(f, created)
  BY <1>2 DEF AllGood
<1> QED BY <1>3 DEF f

LEMMA StoreMoves ==
  ASSUME Ordered, AllGood(stack, created), NEW t \in Threads, store_link(t)
  PROVE  Moved
<1> DEFINE f == Top(t)
           p == f.box
           q == Head(f.todo)
<1>1. /\ ~Idle(t) /\ f.step = "store_link" /\ linker_link(p, q)
      /\ stack' = Return(t) /\ UNCHANGED clients /\ UNCHANGED reports
  BY DEF store_link, At
<1>2. Stacks /\ created \subseteq Boxes /\ created' = created
  BY <1>1 DEF Ordered, Clients, clients
<1>3. p \in created /\ q \in Remotes
  BY <1>1, <1>2, TopGood DEF Good
<1>4. PICK n \in Nat : Swap(stack, stack', t, n, f, NoFrame)
  BY <1>1, <1>2, ReturnSwaps
<1>5. AllGood(stack', created')
  BY <1>1, <1>2, ReturnSwaps
<1>6. \A e : OwedBy(f, e) = {} /\ OwedBy(NoFrame, e) = {}
  <2>1. ~Owes(f)
    BY <1>1 DEF Owes
  <2> QED BY <2>1, QuietFrame, NoFrameQuiet
<1> HIDE DEF f
<1>7. \A e : Exits(stack', e) = Exits(stack, e)
  BY <1>4, <1>6, SwapSame
<1>8. SameExits
  BY <1>7 DEF SameExits
<1> HIDE DEF p, q
<1>9. p \in Pids /\ q \in Pids /\ Stores(p, q)
  BY <1>1, <1>2, <1>3, <1>8 DEF Stores, Pids
<1>10. OpensNew
  BY <1>1, SameClients
<1> QED BY <1>5, <1>9, <1>10 DEF Moved, Moves

LEMMA CollectMoves ==
  ASSUME Ordered, AllGood(stack, created), established_links \in Seq(Links),
         NEW t \in Threads, close_links_for_local(t)
  PROVE  Moved
<1> DEFINE f == Top(t)
           d == LinkedTo(f.box)
           g == [f EXCEPT !.step = "notify", !.todo = d]
<1>1. /\ At(t, "close_links") /\ ~Idle(t) /\ f.step = "close_links"
      /\ remove_links_from(f.box)
      /\ stack' = Goto(t, g) /\ UNCHANGED clients
      /\ UNCHANGED <<made, joined, cut_short, overtaken, reports>>
  BY DEF close_links_for_local, At, history
<1>2. Stacks /\ WholeFrame(f) /\ created' = created
  BY <1>1, InNotify DEF Ordered, clients
<1>3. d \in Seq(Pids)
  BY LinkedToHolds
<1> HIDE DEF d
<1>4. g \in Frames("notify", f.box, d, f.ref)
  BY <1>2, FrameChanged
<1> HIDE DEF g
<1>5. g.step = "notify" /\ g.box = f.box /\ g.todo = d
  BY <1>4, FrameMade
<1>6. Good(g, created)
  BY <1>3, <1>5 DEF Good
<1>7. PICK n \in Nat : Swap(stack, stack', t, n, f, g)
  BY <1>1, <1>2, <1>6, GotoSwaps
<1>8. AllGood(stack', created')
  BY <1>1, <1>2, <1>6, GotoSwaps
<1>9. ~Owes(f) /\ Owes(g)
  BY <1>1, <1>5 DEF Owes
<1>10. Collects(t, n, f, g)
  BY <1>1, <1>5, <1>7, <1>9 DEF Collects, d
<1>11. OpensNew
  BY <1>1, SameClients
<1> HIDE DEF f
<1> QED BY <1>8, <1>10, <1>11 DEF Moved, Moves

LEMMA TailPids ==
  ASSUME NEW d \in Seq(Pids), d # <<>>
  PROVE  Tail(d) \in Seq(Pids) /\ Head(d) \in Pids
BY HeadTailProperties

LEMMA RequestMoves ==
  ASSUME Ordered, AllGood(stack, created),
         NEW t \in Threads, request_exit2_remote(t)
  PROVE  Moved
<1> DEFINE f == Top(t)
           d == Tail(f.todo)
           g == [f EXCEPT !.todo = d]
<1>1. /\ At(t, "notify") /\ ~Idle(t) /\ f.step = "notify"
      /\ f.todo # <<>> /\ Head(f.todo) \in Remotes
      /\ joined' = joined \ {{f.box, Head(f.todo)}}
      /\ \/ stack' = Goto(t, g) /\ UNCHANGED cut_short
         \/ stack' = Return(t) /\ cut_short' = cut_short \cup {f.box}
      /\ UNCHANGED clients
      /\ UNCHANGED <<established_links, made, overtaken, reports>>
  BY DEF request_exit2_remote, NotifiesRemote, ends_by_throw, At
<1>2. Stacks /\ WholeFrame(f) /\ created' = created /\ f.box \in Boxes
  BY <1>1, InNotify DEF Ordered, clients, InClose, Doomed, Clients
<1>3. f.todo \in Seq(Pids)
  BY <1>1, <1>2, TopGood DEF Good
<1>4. d \in Seq(Pids)
  BY <1>1, <1>3, TailPids
<1> HIDE DEF d
<1>5. g \in Frames(f.step, f.box, d, f.ref)
  BY <1>2, FrameChanged
<1> HIDE DEF g
<1>6. g.step = "notify" /\ g.box = f.box /\ g.todo = d
  BY <1>1, <1>5, FrameMade
<1>7. Good(g, created) /\ Owes(f) /\ Owes(g)
  BY <1>1, <1>4, <1>6 DEF Good, Owes
<1>8. OpensNew
  BY <1>1, SameClients
<1>9. CASE stack' = Goto(t, g) /\ UNCHANGED cut_short
  <2>1. AllGood(stack', created')
    BY <1>1, <1>2, <1>7, <1>9, GotoSwaps
  <2>2. PICK n \in Nat : Swap(stack, stack', t, n, f, g)
    BY <1>1, <1>2, <1>7, <1>9, GotoSwaps
  <2>3. Tells(t, n, f, g)
    BY <1>1, <1>3, <1>6, <1>7, <1>9, <2>2 DEF Tells, d
  <2> HIDE DEF f
  <2> QED BY <1>2, <1>8, <2>1, <2>3 DEF Moved, Moves
<1>10. CASE stack' = Return(t) /\ cut_short' = cut_short \cup {f.box}
  <2>1. AllGood(stack', created')
    BY <1>1, <1>2, <1>10, ReturnSwaps
  <2>2. PICK n \in Nat : Swap(stack, stack', t, n, f, NoFrame)
    BY <1>1, <1>2, <1>10, ReturnSwaps
  <2>3. Throws(t, n, f)
    BY <1>1, <1>10, <2>2 DEF Throws
  <2> HIDE DEF f
  <2> QED BY <1>8, <2>1, <2>3 DEF Moved, Moves
<1> QED BY <1>1, <1>9, <1>10

LEMMA Exit2Moves ==
  ASSUME Ordered, AllGood(stack, created), NEW t \in Threads, incoming_exit2(t)
  PROVE  Moved
<1> DEFINE f == Top(t)
           b == Head(f.todo)
           d == Tail(f.todo)
           g == [f EXCEPT !.step = "release", !.todo = d, !.ref = b]
<1>1. /\ At(t, "notify") /\ ~Idle(t) /\ f.step = "notify"
      /\ f.todo # <<>> /\ b \in Boxes
      /\ \/ stack' = Goto(t, g) /\ on_link_broken(f.box, b)
         \/ /\ stack' = Return(t) /\ cut_short' = cut_short \cup {f.box}
            /\ UNCHANGED <<established_links, made, joined, overtaken, reports>>
      /\ UNCHANGED clients
  BY DEF incoming_exit2, ends_by_throw, At
<1>2. Stacks /\ WholeFrame(f) /\ created' = created /\ f.box \in Boxes
  BY <1>1, InNotify DEF Ordered, clients, InClose, Doomed, Clients
<1>3. f.todo \in Seq(Pids)
  BY <1>1, <1>2, TopGood DEF Good
<1>4. d \in Seq(Pids)
  BY <1>1, <1>3, TailPids
<1> HIDE DEF d, b
<1>5. g \in Frames("release", f.box, d, b)
  BY <1>2, FrameChanged
<1> HIDE DEF g
<1>6. g.step = "release" /\ g.box = f.box /\ g.todo = d
  BY <1>1, <1>5, FrameMade
<1>7. Good(g, created) /\ Owes(f) /\ Owes(g)
  BY <1>1, <1>4, <1>6 DEF Good, Owes
<1>8. OpensNew
  BY <1>1, SameClients
<1>9. CASE stack' = Goto(t, g) /\ on_link_broken(f.box, b)
  <2>1. AllGood(stack', created')
    BY <1>1, <1>2, <1>7, <1>9, GotoSwaps
  <2>2. PICK n \in Nat : Swap(stack, stack', t, n, f, g)
    BY <1>1, <1>2, <1>7, <1>9, GotoSwaps
  <2>3. Tells(t, n, f, g)
    BY <1>1, <1>3, <1>6, <1>7, <1>9, <2>2 DEF Tells, d, b, on_link_broken
  <2> HIDE DEF f
  <2> QED BY <1>2, <1>8, <2>1, <2>3 DEF Moved, Moves
<1>10. CASE /\ stack' = Return(t) /\ cut_short' = cut_short \cup {f.box}
            /\ UNCHANGED <<established_links, made, joined, overtaken, reports>>
  <2>1. AllGood(stack', created')
    BY <1>1, <1>2, <1>10, ReturnSwaps
  <2>2. PICK n \in Nat : Swap(stack, stack', t, n, f, NoFrame)
    BY <1>1, <1>2, <1>10, ReturnSwaps
  <2>3. Throws(t, n, f)
    BY <1>1, <1>10, <2>2 DEF Throws
  <2> HIDE DEF f
  <2> QED BY <1>8, <2>1, <2>3 DEF Moved, Moves
<1> QED BY <1>1, <1>9, <1>10

(***************************************************************************)
(* A frame that goes on to owe the same exits, or that owed none.          *)
(***************************************************************************)
LEMMA SameOwed ==
  ASSUME NEW S, NEW T, NEW t, NEW n, NEW f, NEW g, Swap(S, T, t, n, f, g),
         \/ Owes(f) /\ Owes(g) /\ g.box = f.box /\ g.todo = f.todo
         \/ f.box = None /\ g = NoFrame
         \/ f.todo = <<>> /\ g = NoFrame,
         NEW e \in SUBSET Pids
  PROVE  Exits(T, e) = Exits(S, e)
<1>1. OwedBy(f, e) = OwedBy(g, e)
  <2>1. CASE Owes(f) /\ Owes(g) /\ g.box = f.box /\ g.todo = f.todo
    BY <2>1 DEF OwedBy
  <2>2. CASE f.box = None /\ g = NoFrame
    <3>1. None \notin e
      BY NodeAssumption
    <3>2. OwedBy(f, e) = {}
      BY <2>2, <3>1 DEF OwedBy
    <3> QED BY <2>2, <3>2, NoFrameQuiet
  <2>3. CASE f.todo = <<>> /\ g = NoFrame
    BY <2>3, QuietFrame, NoFrameQuiet
  <2> QED BY <2>1, <2>2, <2>3
<1> QED BY <1>1, SwapSame

LEMMA ResumeMoves ==
  ASSUME Ordered, AllGood(stack, created), NEW t \in Threads, ~Idle(t),
         Top(t).step \in {"release", "unlock"}, stack' = Resume(t),
         UNCHANGED clients,
         UNCHANGED <<established_links, made, joined, cut_short, overtaken, reports>>
  PROVE  Moved
<1> DEFINE f == Top(t)
           g == After(f)
<1>1. Stacks /\ WholeFrame(f) /\ created' = created
  BY TopFrame DEF Ordered, clients
<1>2. g \in Frames("notify", f.box, f.todo, None)
  BY <1>1, FrameChanged DEF After
<1> HIDE DEF g
<1>3. g.step = "notify" /\ g.box = f.box /\ g.todo = f.todo
  BY <1>2, FrameMade
<1>4. Good(f, created)
  BY <1>1, TopGood
<1>5. Good(g, created) /\ Owes(f) /\ Owes(g)
  BY <1>3, <1>4 DEF Good, Owes
<1>6. SameExits /\ AllGood(stack', created')
  <2>1. CASE f.box = None
    <3>1. stack' = Return(t)
      BY <2>1 DEF Resume
    <3>2. AllGood(stack', created')
      BY <1>1, <3>1, ReturnSwaps
    <3>3. PICK n \in Nat : Swap(stack, stack', t, n, f, NoFrame)
      BY <1>1, <3>1, ReturnSwaps
    <3> QED BY <2>1, <3>2, <3>3, SameOwed DEF SameExits
  <2>2. CASE f.box # None
    <3>1. stack' = Goto(t, g)
      BY <2>2 DEF Resume, g
    <3>2. AllGood(stack', created')
      BY <1>1, <1>5, <3>1, GotoSwaps
    <3>3. PICK n \in Nat : Swap(stack, stack', t, n, f, g)
      BY <1>1, <1>5, <3>1, GotoSwaps
    <3> QED BY <1>3, <1>5, <3>2, <3>3, SameOwed DEF SameExits
  <2> QED BY <2>1, <2>2
<1>7. OpensNew /\ KeepsLinks
  BY <1>6, SameClients DEF KeepsLinks
<1> QED BY <1>6, <1>7 DEF Moved, Moves

LEMMA ReleaseMoves ==
  ASSUME Ordered, AllGood(stack, created), NEW t \in Threads,
         release_destination(t)
  PROVE  Moved
<1> DEFINE f == Top(t)
           g == [f EXCEPT !.step = "unlock", !.ref = None]
<1>1. /\ ~Idle(t) /\ f.step = "release" /\ UNCHANGED clients
      /\ UNCHANGED <<established_links, made, joined, cut_short, overtaken, reports>>
      /\ \/ stack' = [stack EXCEPT ![t] = Append(Append(Front(@), g),
                                                 Closing(f.ref))]
         \/ stack' = Resume(t)
  BY DEF release_destination, At, history
<1>2. Stacks /\ created' = created /\ WholeFrame(f) /\ stack[t] = <<f>>
  BY <1>1, TopFrame DEF Ordered, clients, InClose
<1>3. CASE stack' = Resume(t)
  BY <1>1, <1>3, ResumeMoves
<1>4. CASE stack' = [stack EXCEPT ![t] = Append(Append(Front(@), g),
                                                 Closing(f.ref))]
  <2> DEFINE h == Closing(f.ref)
  <2>1. g \in Frames("unlock", f.box, f.todo, None)
    BY <1>2, FrameChanged
  <2>2. stack' = [stack EXCEPT ![t] = Append(Append(Front(stack[t]), g), h)]
    BY <1>2, <1>4 DEF Stacks
  <2> HIDE DEF g, h
  <2>3. g.step = "unlock" /\ g.box = f.box /\ g.todo = f.todo
    BY <2>1, FrameMade
  <2>4. Good(f, created)
    BY <1>1, <1>2, TopGood
  <2>5. Good(g, created) /\ Owes(f) /\ Owes(g)
    BY <1>1, <2>3, <2>4 DEF Good, Owes
  <2>6. stack' = [stack EXCEPT ![t] = <<g, h>>]
    <3>1. Front(stack[t]) = <<>> /\ Append(<<>>, g) = <<g>>
      BY <1>2, OneFrame
    <3>2. Append(<<g>>, h) = <<g, h>>
      BY OneFrame
    <3> QED BY <2>2, <3>1, <3>2
  <2>7. Swap(stack, stack', t, 1, f, g) /\ AllGood(stack', created')
    BY <1>2, <2>5, <2>6, DestructorSwaps DEF h
  <2>8. SameExits
    BY <2>3, <2>5, <2>7, SameOwed DEF SameExits
  <2>9. OpensNew /\ KeepsLinks
    BY <1>1, <2>8, SameClients DEF KeepsLinks
  <2> QED BY <2>7, <2>9 DEF Moved, Moves
<1> QED BY <1>1, <1>3, <1>4

LEMMA RemoveMoves ==
  ASSUME Ordered, AllGood(stack, created), NEW t \in Threads, remove(t)
  PROVE  Moved
<1> DEFINE f == Top(t)
<1>1. /\ ~Idle(t) /\ f.todo = <<>> /\ UNCHANGED clients
      /\ UNCHANGED <<established_links, made, joined, cut_short, overtaken, reports>>
      /\ stack' = Return(t)
  BY DEF remove, At, history
<1>2. Stacks /\ created' = created
  BY <1>1 DEF Ordered, clients
<1>3. AllGood(stack', created')
  BY <1>1, <1>2, ReturnSwaps
<1>4. PICK n \in Nat : Swap(stack, stack', t, n, f, NoFrame)
  BY <1>1, <1>2, ReturnSwaps
<1>5. SameExits
  BY <1>1, <1>4, SameOwed DEF SameExits
<1>6. OpensNew /\ KeepsLinks
  BY <1>1, <1>5, SameClients DEF KeepsLinks
<1> QED BY <1>3, <1>6 DEF Moved, Moves

LEMMA IncomingExitMoves ==
  ASSUME Ordered, AllGood(stack, created), NEW r \in Remotes, NEW b \in Boxes,
         incoming_exit(r, b)
  PROVE  Moved
<1> DEFINE f == Delivering(b)
<1>1. /\ io \in Threads /\ Idle(io) /\ UNCHANGED clients
      /\ \/ on_link_broken(r, b) /\ stack' = Call(io, f)
         \/ UNCHANGED <<stack, established_links, made, joined, cut_short, overtaken, reports>>
  BY DEF incoming_exit, history
<1>2. f.todo = <<>> /\ Good(f, created)
  BY DeliveringGood
<1> HIDE DEF f
<1>3. Stacks /\ created' = created
  BY <1>1 DEF Ordered, clients
<1>4. CASE on_link_broken(r, b) /\ stack' = Call(io, f)
  <2>1. SameExits /\ AllGood(stack', created')
    BY <1>1, <1>2, <1>3, <1>4, QuietCall
  <2>2. ReportsRemote(r, b)
    BY <1>4, <2>1 DEF on_link_broken, ReportsRemote
  <2>3. OpensNew
    BY <1>1, SameClients
  <2> QED BY <2>1, <2>2, <2>3 DEF Moved, Moves
<1>5. CASE UNCHANGED <<stack, established_links, made, joined, cut_short, overtaken, reports>>
  <2>1. SameExits /\ AllGood(stack', created') /\ OpensNew
    BY <1>1, <1>5, SameStackExits, StillGood, SameClients
  <2>2. KeepsLinks
    BY <1>5, <2>1 DEF KeepsLinks
  <2> QED BY <2>1, <2>2 DEF Moved, Moves
<1> QED BY <1>1, <1>4, <1>5

LEMMA UnlinkMoves ==
  ASSUME Ordered, AllGood(stack, created), NEW t \in Threads, unlink_exited(t)
  PROVE  Moved
<1>1. PICK l \in unlinking :
        /\ linker_unlink(l[1], l[2])
        /\ overtaken' = overtaken \cup
             {e \in joined : e = {l[1], l[2]} /\ StoredLink(e)}
  BY DEF unlink_exited
<1>2. /\ UNCHANGED clients /\ UNCHANGED stack
      /\ UNCHANGED <<made, joined, cut_short, reports>>
  BY DEF unlink_exited
<1>3. SameExits /\ AllGood(stack', created') /\ OpensNew
  BY <1>2, SameStackExits, StillGood, SameClients
<1>4. Overtakes(l[1], l[2])
  BY <1>1, <1>2, <1>3 DEF Overtakes
<1> QED BY <1>3, <1>4 DEF Moved, Moves

LEMMA StepMoves ==
  ASSUME Ordered, AllGood(stack, created), established_links \in Seq(Links),
         [Next]_vars
  PROVE  Moved
<1>0. /\ created \subseteq Boxes /\ held \subseteq created
      /\ Boxes \subseteq Pids /\ Remotes \subseteq Pids
  BY DEF Ordered, Clients, Pids
<1>1. ASSUME NEW t \in Threads, NEW b \in Boxes, create_mailbox(t, b)
      PROVE  Moved
  BY <1>1, CreateMoves
<1>2. ASSUME NEW t \in Threads, NEW a \in Boxes, NEW b \in Boxes,
             link_local(t, a, b)
      PROVE  Moved
  <2>1. /\ a \in held /\ b \in created /\ linker_link(a, b)
        /\ UNCHANGED clients /\ UNCHANGED stack /\ UNCHANGED reports
    BY <1>2 DEF link_local
  <2>2. a \in Pids /\ b \in Pids /\ {a, b} \subseteq created \cup Remotes
    BY <1>0, <2>1
  <2> QED BY <2>1, <2>2, LinkMoves
<1>3. ASSUME NEW t \in Threads, NEW a \in Boxes, NEW r \in Remotes,
             link_remote(t, a, r)
      PROVE  Moved
  <2> DEFINE f == Linking(a, r)
  <2>1. /\ Idle(t) /\ a \in held /\ stack' = Call(t, f)
        /\ UNCHANGED <<created, held, closed>>
        /\ UNCHANGED <<established_links, made, joined, cut_short, overtaken, reports>>
    BY <1>3 DEF link_remote, clients, history
  <2>2. Good(f, created) /\ f.step = "store_link"
    BY <1>0, <2>1, LinkingGood
  <2> HIDE DEF f
  <2> QED BY <2>1, <2>2, CallMoves
<1>4. ASSUME NEW t \in Threads, NEW a \in Boxes, NEW p \in Pids,
             unlink(t, a, p)
      PROVE  Moved
  <2>1. /\ linker_unlink(a, p) /\ joined' = joined \ {{a, p}}
        /\ UNCHANGED <<made, cut_short, overtaken>>
        /\ UNCHANGED clients /\ UNCHANGED stack /\ UNCHANGED reports
    BY <1>4 DEF unlink
  <2>2. a \in Pids
    BY <1>0
  <2> QED BY <2>1, <2>2, LinkMoves
<1>5. ASSUME NEW r \in Remotes, NEW b \in Boxes, incoming_link(r, b)
      PROVE  Moved
  <2>1. /\ b \in created /\ linker_link(r, b)
        /\ UNCHANGED clients /\ UNCHANGED stack /\ UNCHANGED reports
    BY <1>5 DEF incoming_link
  <2>2. r \in Pids /\ b \in Pids /\ {r, b} \subseteq created \cup Remotes
    BY <1>0, <2>1
  <2> QED BY <2>1, <2>2, LinkMoves
<1>6. ASSUME NEW r \in Remotes, NEW b \in Boxes, incoming_unlink(r, b)
      PROVE  Moved
  <2>1. /\ linker_unlink(r, b) /\ joined' = joined \ {{r, b}}
        /\ UNCHANGED <<made, cut_short, overtaken>>
        /\ UNCHANGED clients /\ UNCHANGED stack /\ UNCHANGED reports
    BY <1>6 DEF incoming_unlink
  <2> QED BY <1>0, <2>1, LinkMoves
<1>7. ASSUME NEW t \in Threads, NEW b, Idle(t),
             stack' = Call(t, Closing(b)) \/ stack' = stack,
             UNCHANGED <<created, established_links, made, joined, cut_short, overtaken,
                         reports>>,
             held' \ closed' \subseteq held \ closed
      PROVE  Moved
  <2> DEFINE f == Closing(b)
  <2>1. f.todo = <<>> /\ Good(f, created)
    BY ClosingGood
  <2>2. stack' = Call(t, f) \/ stack' = stack
    BY <1>7
  <2> HIDE DEF f
  <2> QED BY <1>7, <2>1, <2>2, CallMoves
<1>8. ASSUME NEW t \in Threads, NEW b, Idle(t),
             stack' = Call(t, Delivering(b)) \/ stack' = stack,
             UNCHANGED <<created, established_links, made, joined, cut_short, overtaken,
                         reports>>,
             held' \ closed' \subseteq held \ closed
      PROVE  Moved
  <2> DEFINE f == Delivering(b)
  <2>1. f.todo = <<>> /\ Good(f, created)
    BY DeliveringGood
  <2>2. stack' = Call(t, f) \/ stack' = stack
    BY <1>8
  <2> HIDE DEF f
  <2> QED BY <1>8, <2>1, <2>2, CallMoves
<1>9. ASSUME NEW t \in Threads, NEW b \in Boxes,
             close(t, b) \/ drop(t, b) \/ drop_unwinding(t, b)
      PROVE  Moved
  <2>1. /\ Idle(t)
        /\ stack' = Call(t, Closing(b)) \/ stack' = stack
        /\ UNCHANGED <<created, established_links, made, joined, cut_short, overtaken,
                       reports>>
        /\ held' \ closed' \subseteq held \ closed
    BY <1>9 DEF close, drop, drop_unwinding, history
  <2> QED BY <1>7, <2>1
<1>10. ASSUME NEW b \in Boxes, close_mailbox_async(b)
       PROVE  Moved
  <2>1. /\ io \in Threads /\ Idle(io) /\ stack' = Call(io, Closing(b))
        /\ UNCHANGED <<created, established_links, made, joined, cut_short, overtaken,
                       reports>>
        /\ held' \ closed' \subseteq held \ closed
    BY <1>10 DEF close_mailbox_async, history, clients
  <2> QED BY <1>7, <2>1
<1>11. ASSUME NEW t \in Threads, store_link(t) \/ close_links_for_local(t)
       PROVE  Moved
  BY <1>11, StoreMoves, CollectMoves
<1>12. ASSUME NEW t \in Threads, request_exit2_remote(t) \/ incoming_exit2(t)
       PROVE  Moved
  BY <1>12, RequestMoves, Exit2Moves
<1>13. ASSUME NEW t \in Threads, release_destination(t) \/ remove(t)
       PROVE  Moved
  BY <1>13, ReleaseMoves, RemoveMoves
<1>14. ASSUME NEW t \in Threads, unlock(t)
       PROVE  Moved
  <2>1. /\ ~Idle(t) /\ Top(t).step \in {"release", "unlock"}
        /\ stack' = Resume(t) /\ UNCHANGED clients
        /\ UNCHANGED <<established_links, made, joined, cut_short, overtaken, reports>>
    BY <1>14 DEF unlock, At, history
  <2> QED BY <2>1, ResumeMoves
<1>15. ASSUME NEW b \in Boxes, receive_incoming_pid(b)
       PROVE  Moved
  <2>1. /\ io \in Threads /\ Idle(io)
        /\ stack' = Call(io, Delivering(b)) \/ stack' = stack
        /\ UNCHANGED <<created, established_links, made, joined, cut_short, overtaken,
                       reports>>
        /\ held' \ closed' \subseteq held \ closed
    BY <1>15 DEF receive_incoming_pid, history, clients
  <2> QED BY <1>8, <2>1
<1>16. ASSUME NEW t \in Threads, NEW n \in Names, receive_incoming_name(t, n)
       PROVE  Moved
  <2>1. /\ Idle(t)
        /\ stack' = Call(t, Delivering(registered[n])) \/ stack' = stack
        /\ UNCHANGED <<created, established_links, made, joined, cut_short, overtaken,
                       reports>>
        /\ held' \ closed' \subseteq held \ closed
    BY <1>16 DEF receive_incoming_name, history, clients
  <2> DEFINE b == registered[n]
  <2>2. stack' = Call(t, Delivering(b)) \/ stack' = stack
    BY <2>1
  <2> HIDE DEF b
  <2> QED BY <1>8, <2>1, <2>2
<1>17. ASSUME NEW r \in Remotes, NEW b \in Boxes, incoming_exit(r, b)
       PROVE  Moved
  BY <1>17, IncomingExitMoves
<1>18. CASE UNCHANGED vars
  <2>1. /\ UNCHANGED clients /\ UNCHANGED stack
        /\ UNCHANGED <<established_links, made, joined, cut_short, overtaken, reports>>
    BY <1>18 DEF vars, history
  <2>2. SameExits /\ AllGood(stack', created') /\ OpensNew
    BY <2>1, SameStackExits, StillGood, SameClients
  <2> QED BY <2>1, <2>2 DEF Moved, Moves, KeepsLinks
<1>19. ASSUME NEW t \in Threads, get_connection_to(t)
       PROVE  Moved
  <2>1. /\ UNCHANGED clients /\ UNCHANGED stack
        /\ UNCHANGED <<established_links, made, joined, cut_short, overtaken, reports>>
    BY <1>19 DEF get_connection_to, history
  <2>2. SameExits /\ AllGood(stack', created') /\ OpensNew
    BY <2>1, SameStackExits, StillGood, SameClients
  <2> QED BY <2>1, <2>2 DEF Moved, Moves, KeepsLinks
<1>20. ASSUME NEW t \in Threads, unlink_exited(t)
       PROVE  Moved
  BY <1>20, UnlinkMoves
<1> QED BY <1>1, <1>2, <1>3, <1>4, <1>5, <1>6, <1>9, <1>10, <1>11, <1>12,
           <1>13, <1>14, <1>15, <1>16, <1>17, <1>18, <1>19, <1>20 DEF Next

(***************************************************************************)
(* The linker's list is a list of links, each stored once, between         *)
(* processes that exist.                                                   *)
(***************************************************************************)
Listed ==
  /\ AllGood(stack, created)
  /\ established_links \in Seq(Links)
  /\ Once(established_links)
  /\ joined \subseteq SUBSET (created \cup Remotes)

LEMMA ListedInitially == Init => Listed
<1> SUFFICES ASSUME Init PROVE Listed
  OBVIOUS
<1>1. \A t \in Threads : stack[t] = <<>>
  BY DEF Init
<1>2. AllGood(stack, created)
  BY <1>1 DEF AllGood
<1>3. established_links \in Seq(Links) /\ Once(established_links)
  BY DEF Init, Once
<1> QED BY <1>2, <1>3 DEF Listed, Init

LEMMA ListedStep == Ordered /\ Listed /\ [Next]_vars => Listed'
<1> SUFFICES ASSUME Ordered, Listed, [Next]_vars PROVE Listed'
  OBVIOUS
<1> DEFINE s == established_links
<1>0. /\ AllGood(stack, created) /\ s \in Seq(Links) /\ Once(s)
      /\ joined \subseteq SUBSET (created \cup Remotes)
  BY DEF Listed
<1>1. Moved
  BY <1>0, StepMoves
<1>2. AllGood(stack', created') /\ created \subseteq created'
  BY <1>1 DEF Moved, OpensNew
<1>3. ASSUME joined' \subseteq joined
      PROVE  joined' \subseteq SUBSET (created' \cup Remotes)
  BY <1>0, <1>2, <1>3
<1>4. ASSUME NEW p \in Pids, NEW q \in Pids, Stores(p, q) PROVE Listed'
  <2>1. /\ s' = establish_link_between(remove_link_between(s, p, q), p, q)
        /\ joined' = joined \cup {{p, q}} /\ {p, q} \subseteq created \cup Remotes
    BY <1>4 DEF Stores, linker_link
  <2>2. s' \in Seq(Links) /\ Once(s')
    BY <1>0, <2>1, LinkHolds
  <2>3. joined' \subseteq SUBSET (created' \cup Remotes)
    BY <1>0, <1>2, <2>1
  <2> QED BY <1>2, <2>2, <2>3 DEF Listed
<1>5. ASSUME NEW p, NEW q, linker_unlink(p, q), joined' \subseteq joined
      PROVE  Listed'
  <2>1. s' = remove_link_between(s, p, q)
    BY <1>5 DEF linker_unlink
  <2>2. s' \in Seq(Links) /\ Once(s')
    BY <1>0, <2>1, UnlinkHolds
  <2> QED BY <1>2, <1>3, <1>5, <2>2 DEF Listed
<1>6. ASSUME UNCHANGED established_links, joined' \subseteq joined PROVE Listed'
  BY <1>0, <1>2, <1>3, <1>6 DEF Listed
<1>7. ASSUME NEW t, NEW n, NEW f, NEW g, Collects(t, n, f, g) PROVE Listed'
  <2>1. s' = Without(s, Touching(g.box)) /\ joined' = joined
    BY <1>7 DEF Collects, remove_links_from
  <2>2. s' \in Seq(Links) /\ Once(s')
    BY <1>0, <2>1, CloseLinksHolds
  <2> QED BY <1>2, <1>3, <2>1, <2>2 DEF Listed
<1>8. ASSUME NEW p, NEW q,
             Unstores(p, q) \/ ReportsRemote(p, q) \/ Overtakes(p, q)
      PROVE  Listed'
  BY <1>5, <1>6, <1>8 DEF Unstores, ReportsRemote, Overtakes
<1>9. ASSUME NEW t, NEW n, NEW f, NEW g, Tells(t, n, f, g) PROVE Listed'
  BY <1>6, <1>9 DEF Tells
<1>10. ASSUME NEW t, NEW n, NEW f, Throws(t, n, f) PROVE Listed'
  BY <1>6, <1>10 DEF Throws
<1>11. ASSUME KeepsLinks PROVE Listed'
  BY <1>6, <1>11 DEF KeepsLinks
<1>12. Moves
  BY <1>1 DEF Moved
<1> QED BY <1>4, <1>7, <1>8, <1>9, <1>10, <1>11, <1>12 DEF Moves

LEMMA ListedAlways == Spec => [](Ordered /\ Listed)
<1>1. Init => Ordered /\ Listed
  BY OrderedInitially, ListedInitially
<1>2. Ordered /\ Listed /\ [Next]_vars => (Ordered /\ Listed)'
  BY OrderedStep, ListedStep
<1> QED BY <1>1, <1>2, PTL DEF Spec

(***************************************************************************)
(* The linker holds no link twice, in either direction, however links,     *)
(* unlinks, closes and exits of any number of threads interleave           *)
(* (linker::link removes the link before it stores it).                    *)
(***************************************************************************)
THEOREM LinkAlwaysStoredOnce == Spec => []LinkStoredOnce
<1>1. Listed => LinkStoredOnce
  BY DEF Listed, Once, LinkStoredOnce
<1> QED BY <1>1, ListedAlways, PTL

-----------------------------------------------------------------------------
(***************************************************************************)
(* The ends of links.                                                      *)
(***************************************************************************)
LEMMA PendingExits ==
  Ordered /\ Listed => \A e : PendingExit(e) <=> Exits(stack, e) # {}
<1> SUFFICES ASSUME Ordered, Listed, NEW e
             PROVE  PendingExit(e) <=> Exits(stack, e) # {}
  OBVIOUS
<1>1. ASSUME NEW t \in Threads, NEW i \in DOMAIN stack[t]
      PROVE  i \in Nat /\ stack[t][i].todo \in Seq(Pids)
  <2>1. InOrder(stack[t], Doomed, created)
    BY DEF Ordered, Stacks
  <2>2. \/ stack[t] = <<>> \/ stack[t] = <<stack[t][1]>>
        \/ stack[t] = <<stack[t][1], stack[t][2]>>
    BY <2>1 DEF InOrder
  <2>3. i \in Nat
    <3> DEFINE x == stack[t][1]
               y == stack[t][2]
    <3>1. stack[t] = <<>> \/ stack[t] = <<x>> \/ stack[t] = <<x, y>>
      BY <2>2
    <3> HIDE DEF x, y
    <3> QED BY <3>1, StackPlaces
  <2> QED BY <2>3 DEF Listed, AllGood, Good
<1>2. ASSUME PendingExit(e) PROVE Exits(stack, e) # {}
  <2>0. PICK t \in Threads :
          \E i \in DOMAIN stack[t] :
            /\ Owes(stack[t][i])
            /\ \E p \in ToSet(stack[t][i].todo) : e = {stack[t][i].box, p}
    BY <1>2 DEF PendingExit, Owes
  <2>1. PICK i \in DOMAIN stack[t] :
          /\ Owes(stack[t][i])
          /\ \E p \in ToSet(stack[t][i].todo) : e = {stack[t][i].box, p}
    BY <2>0
  <2> DEFINE d == stack[t][i].todo
  <2>2. PICK k \in DOMAIN d : e = {stack[t][i].box, d[k]}
    BY <2>1 DEF ToSet
  <2>3. i \in Nat /\ k \in Nat
    BY <1>1, <2>2
  <2>4. k \in OwedAt(stack, t, i, e)
    BY <2>1, <2>2 DEF OwedAt, OwedBy
  <2>5. <<t, i, k>> \in Exits(stack, e)
    BY <2>3, <2>4 DEF Exits
  <2> QED BY <2>5
<1>3. ASSUME NEW x \in Exits(stack, e) PROVE PendingExit(e)
  <2>1. PICK t \in Threads, i \in Nat, k \in Nat :
          k \in OwedAt(stack, t, i, e)
    BY DEF Exits
  <2>2. i \in DOMAIN stack[t] /\ k \in OwedBy(stack[t][i], e)
    BY <2>1 DEF OwedAt
  <2>3. /\ Owes(stack[t][i]) /\ k \in DOMAIN stack[t][i].todo
        /\ e = {stack[t][i].box, stack[t][i].todo[k]}
    BY <2>2 DEF OwedBy
  <2>4. stack[t][i].todo[k] \in ToSet(stack[t][i].todo)
    BY <2>3 DEF ToSet
  <2> QED BY <2>2, <2>3, <2>4 DEF PendingExit, Owes
<1> QED BY <1>2, <1>3

(***************************************************************************)
(* A link with an open end, neither undone nor reported, is stored, or its *)
(* exit is under way, or a close of one end was cut short, or the unlink   *)
(* of an older exit has taken it.                                          *)
(***************************************************************************)
Accounted(e) ==
  \/ Stored(established_links, e)
  \/ Exits(stack, e) # {}
  \/ e \cap cut_short # {}
  \/ e \in overtaken

LinksKept == \A e \in joined : (\E p \in e : Open(p)) => Accounted(e)

LEMMA SwapOther ==
  ASSUME NEW S, NEW T, NEW t \in Threads, NEW n \in Nat, NEW f, NEW g,
         Swap(S, T, t, n, f, g), NEW e, NEW x \in Exits(S, e),
         x \notin Exits(T, e)
  PROVE  x[1] = t /\ x[2] = n /\ x[3] \in OwedBy(f, e)
<1>1. /\ x \in Threads \X Nat \X Nat /\ x[3] \in OwedAt(S, x[1], x[2], e)
      /\ x[3] \notin OwedAt(T, x[1], x[2], e)
  BY DEF Exits
<1>2. x[1] \in Threads /\ x[2] \in Nat
  BY <1>1
<1>3. x[1] = t /\ x[2] = n
  BY <1>1, <1>2 DEF Swap
<1> QED BY <1>1, <1>3 DEF Swap

LEMMA SwapHas ==
  ASSUME NEW S, NEW T, NEW t \in Threads, NEW n \in Nat, NEW f, NEW g,
         Swap(S, T, t, n, f, g), NEW e, NEW k \in Nat, k \in OwedBy(g, e)
  PROVE  <<t, n, k>> \in Exits(T, e)
<1>1. k \in OwedAt(T, t, n, e)
  BY DEF Swap
<1> QED BY <1>1 DEF Exits

LEMMA LinksKeptStep ==
  Ordered /\ Listed /\ LinksKept /\ [Next]_vars => LinksKept'
<1> SUFFICES ASSUME Ordered, Listed, LinksKept, [Next]_vars,
                    NEW e \in joined', (\E p \in e : Open(p))'
             PROVE  Accounted(e)'
  BY DEF LinksKept
<1> DEFINE s == established_links
<1>0. /\ AllGood(stack, created) /\ s \in Seq(Links) /\ Once(s)
      /\ joined \subseteq SUBSET (created \cup Remotes)
      /\ created \subseteq Boxes /\ held \subseteq created
  BY DEF Listed, Ordered, Clients
<1>1. Moved
  BY <1>0, StepMoves
<1>2. /\ created \subseteq created'
      /\ held' \ closed' \subseteq (held \ closed) \cup (created' \ created)
  BY <1>1 DEF Moved, OpensNew
<1>3. ASSUME e \in joined
      PROVE  /\ e \subseteq created \cup Remotes /\ e \in SUBSET Pids
             /\ Accounted(e)
  <2>1. e \subseteq created \cup Remotes /\ e \in SUBSET Pids
    BY <1>0, <1>3 DEF Pids
  <2>2. \E p \in e : Open(p)
    BY <1>2, <2>1 DEF Open
  <2> QED BY <1>3, <2>1, <2>2 DEF LinksKept
<1>4. ASSUME SameExits, e \in SUBSET Pids,
             \/ Stored(s, e) => Stored(s', e)
             \/ Stored(s', e),
             cut_short \subseteq cut_short',
             e \in overtaken => e \in overtaken' \/ Stored(s', e),
             e \in joined \/ Stored(s', e)
      PROVE  Accounted(e)'
  <2>1. CASE Stored(s', e)
    BY <2>1 DEF Accounted
  <2>2. CASE e \in joined /\ (Stored(s, e) => Stored(s', e))
    <3>1. Accounted(e) /\ Exits(stack', e) = Exits(stack, e)
      BY <1>3, <1>4, <2>2 DEF SameExits
    <3> QED BY <1>4, <2>2, <3>1 DEF Accounted
  <2> QED BY <1>4, <2>1, <2>2
<1>5. ASSUME NEW p \in Pids, NEW q \in Pids, Stores(p, q) PROVE Accounted(e)'
  <2>1. /\ s' = establish_link_between(remove_link_between(s, p, q), p, q)
        /\ joined' = joined \cup {{p, q}} /\ SameExits /\ cut_short' = cut_short
        /\ overtaken' = overtaken \ {{p, q}}
    BY <1>5 DEF Stores, linker_link
  <2>2. Stored(s', Between(p, q)) /\ (Stored(s, e) => Stored(s', e))
    BY <1>0, <2>1, LinkHolds
  <2>3. e \in joined \/ e = {p, q}
    BY <2>1
  <2>4. {p, q} \in SUBSET Pids
    OBVIOUS
  <2>5. e \in SUBSET Pids
    BY <1>3, <2>3, <2>4
  <2> QED BY <1>4, <2>1, <2>2, <2>3, <2>5 DEF Between
<1>6. ASSUME NEW p, NEW q, linker_unlink(p, q), joined' = joined \ {{p, q}},
             SameExits, UNCHANGED <<cut_short, overtaken>>
      PROVE  Accounted(e)'
  <2>1. s' = remove_link_between(s, p, q) /\ e \in joined /\ e # {p, q}
    BY <1>6 DEF linker_unlink
  <2>2. \A x : Stored(s', x) <=> Stored(s, x) /\ x # {p, q}
    BY <1>0, <2>1, UnlinkHolds
  <2>3. e \in SUBSET Pids
    BY <1>3, <2>1
  <2> QED BY <1>4, <1>6, <2>1, <2>2, <2>3
<1>7. ASSUME NEW p, NEW q, Unstores(p, q) \/ ReportsRemote(p, q)
      PROVE  Accounted(e)'
  <2>1. CASE Unstores(p, q)
    BY <1>6, <2>1 DEF Unstores
  <2>2. CASE ReportsRemote(p, q)
    <3>1. /\ e \in joined /\ s' = s /\ SameExits
          /\ cut_short' = cut_short /\ overtaken' = overtaken
      BY <2>2 DEF ReportsRemote
    <3> QED BY <1>3, <1>4, <3>1
  <2> QED BY <1>7, <2>1, <2>2
<1>8. ASSUME KeepsLinks PROVE Accounted(e)'
  BY <1>3, <1>4, <1>8 DEF KeepsLinks
<1>9. ASSUME NEW t \in Threads, NEW n \in Nat, NEW f, NEW g,
             Collects(t, n, f, g)
      PROVE  Accounted(e)'
  <2>1. /\ Swap(stack, stack', t, n, f, g) /\ ~Owes(f) /\ Owes(g)
        /\ g.todo = LinkedTo(g.box) /\ s' = Without(s, Touching(g.box))
        /\ joined' = joined /\ cut_short' = cut_short
        /\ overtaken' = overtaken
    BY <1>9 DEF Collects, remove_links_from
  <2>2. Accounted(e) /\ e \in joined
    BY <1>3, <2>1
  <2>3. CASE Stored(s, e) /\ g.box \notin e
    BY <1>0, <2>1, <2>3, CloseLinksHolds DEF Accounted
  <2>4. CASE Stored(s, e) /\ g.box \in e
    <3>1. LinkedTo(g.box) \in Seq(Pids)
          /\ \E k \in DOMAIN LinkedTo(g.box) : e = {g.box, LinkedTo(g.box)[k]}
      BY <1>0, <2>4, LinkedToHolds
    <3>2. PICK k \in DOMAIN g.todo : e = {g.box, g.todo[k]}
      BY <2>1, <3>1
    <3>3. k \in Nat /\ k \in OwedBy(g, e)
      <4> DEFINE todo == g.todo
      <4>1. todo \in Seq(Pids) /\ k \in DOMAIN todo
        BY <2>1, <3>1, <3>2
      <4>2. k \in Nat
        <5> HIDE DEF todo
        <5> QED BY <4>1
      <4> QED BY <2>1, <3>2, <4>2 DEF OwedBy
    <3>4. <<t, n, k>> \in Exits(stack', e)
      BY <2>1, <3>3, SwapHas
    <3> QED BY <3>4 DEF Accounted
  <2>5. CASE Exits(stack, e) # {}
    <3>1. PICK x : x \in Exits(stack, e)
      BY <2>5
    <3>2. OwedBy(f, e) = {}
      BY <2>1, QuietFrame
    <3>3. x \in Exits(stack', e)
      BY <2>1, <3>1, <3>2, SwapOther
    <3> QED BY <3>3 DEF Accounted
  <2>6. CASE e \cap cut_short # {} \/ e \in overtaken
    BY <2>1, <2>6 DEF Accounted
  <2> QED BY <2>2, <2>3, <2>4, <2>5, <2>6 DEF Accounted
<1>10. ASSUME NEW t \in Threads, NEW n \in Nat, NEW f, NEW g,
              Tells(t, n, f, g)
       PROVE  Accounted(e)'
  <2> DEFINE h == Head(f.todo)
  <2>1. /\ Swap(stack, stack', t, n, f, g) /\ Owes(f) /\ Owes(g)
        /\ g.box = f.box /\ f.todo \in Seq(Pids) /\ f.todo # <<>>
        /\ g.todo = Tail(f.todo) /\ joined' = joined \ {{f.box, h}}
        /\ s' = s /\ cut_short' = cut_short /\ overtaken' = overtaken
    BY <1>10 DEF Tells
  <2>2. e \in joined /\ e # {f.box, h} /\ Accounted(e)
    BY <1>3, <2>1
  <2>3. CASE Stored(s, e)
    BY <2>1, <2>3 DEF Accounted
  <2>4. CASE Exits(stack, e) # {}
    <3>1. PICK x : x \in Exits(stack, e)
      BY <2>4
    <3>2. CASE x \in Exits(stack', e)
      BY <3>2 DEF Accounted
    <3>3. CASE x \notin Exits(stack', e)
      <4>1. x[3] \in OwedBy(f, e)
        BY <2>1, <3>1, <3>3, SwapOther
      <4> DEFINE k == x[3]
      <4>2. k \in DOMAIN f.todo /\ e = {f.box, f.todo[k]}
        BY <4>1 DEF OwedBy
      <4> HIDE DEF k
      <4>3. /\ k \in 1..Len(f.todo) /\ f.todo[1] = h /\ Len(f.todo) \in Nat
            /\ DOMAIN g.todo = 1..(Len(f.todo) - 1)
            /\ \A j \in 1..(Len(f.todo) - 1) : g.todo[j] = f.todo[j + 1]
        BY <2>1, <4>2, HeadTailProperties
      <4>4. k # 1
        BY <2>2, <4>2, <4>3
      <4>5. k - 1 \in Nat /\ k - 1 \in DOMAIN g.todo /\ g.todo[k - 1] = f.todo[k]
        BY <4>3, <4>4
      <4>6. k - 1 \in OwedBy(g, e)
        BY <2>1, <4>2, <4>5 DEF OwedBy
      <4>7. <<t, n, k - 1>> \in Exits(stack', e)
        BY <2>1, <4>5, <4>6, SwapHas
      <4> QED BY <4>7 DEF Accounted
    <3> QED BY <3>2, <3>3
  <2>5. CASE e \cap cut_short # {} \/ e \in overtaken
    BY <2>1, <2>5 DEF Accounted
  <2> QED BY <2>2, <2>3, <2>4, <2>5 DEF Accounted
<1>11. ASSUME NEW t \in Threads, NEW n \in Nat, NEW f, Throws(t, n, f)
       PROVE  Accounted(e)'
  <2>1. /\ Swap(stack, stack', t, n, f, NoFrame)
        /\ cut_short' = cut_short \cup {f.box} /\ joined' \subseteq joined
        /\ s' = s /\ overtaken' = overtaken
    BY <1>11 DEF Throws
  <2>2. e \in joined /\ Accounted(e)
    BY <1>3, <2>1
  <2>3. CASE f.box \in e
    BY <2>1, <2>3 DEF Accounted
  <2>4. CASE f.box \notin e /\ Exits(stack, e) # {}
    <3>1. PICK x : x \in Exits(stack, e)
      BY <2>4
    <3>2. OwedBy(f, e) = {}
      BY <2>4 DEF OwedBy
    <3>3. x \in Exits(stack', e)
      BY <2>1, <3>1, <3>2, SwapOther
    <3> QED BY <3>3 DEF Accounted
  <2>5. CASE Stored(s, e) \/ e \cap cut_short # {} \/ e \in overtaken
    BY <2>1, <2>5 DEF Accounted
  <2> QED BY <2>2, <2>3, <2>4, <2>5 DEF Accounted
<1>12. ASSUME NEW p, NEW q, Overtakes(p, q) PROVE Accounted(e)'
  <2>1. /\ s' = remove_link_between(s, p, q) /\ e \in joined
        /\ SameExits /\ cut_short' = cut_short
        /\ overtaken' = overtaken \cup {x \in joined : x = {p, q} /\ StoredLink(x)}
    BY <1>12 DEF Overtakes, linker_unlink
  <2>2. \A x : Stored(s', x) <=> Stored(s, x) /\ x # {p, q}
    BY <1>0, <2>1, UnlinkHolds
  <2>3. StoredLink(e) <=> Stored(s, e)
    BY DEF StoredLink, Stored
  <2>4. CASE e = {p, q} /\ Stored(s, e)
    BY <2>1, <2>3, <2>4 DEF Accounted
  <2>5. CASE ~(e = {p, q} /\ Stored(s, e))
    BY <1>3, <1>4, <2>1, <2>2, <2>5
  <2> QED BY <2>4, <2>5
<1>13. Moves
  BY <1>1 DEF Moved
<1> QED BY <1>5, <1>7, <1>8, <1>9, <1>10, <1>11, <1>12, <1>13 DEF Moves

(***************************************************************************)
(* The end of a link is lost in two ways only: an exception cuts short the *)
(* close of one of its ends (linker.cpp, on_broken_links), or the link was *)
(* made between the report of an older exit and the unlink that follows it *)
(* (actual_node.cpp, incoming_exit).  In every other case a link neither   *)
(* undone nor reported is in the linker's list or on the list of a close   *)
(* that goes on, as long as somebody is left to tell.                      *)
(***************************************************************************)
THEOREM LinkLostByThrowOrOvertaken == Spec => []LostByThrowOrOvertaken
<1>1. Init => LinksKept
  BY DEF Init, LinksKept
<1>2. Ordered /\ Listed /\ LinksKept /\ [Next]_vars => LinksKept'
  BY LinksKeptStep
<1>3. Ordered /\ Listed /\ LinksKept => LostByThrowOrOvertaken
  <2> SUFFICES ASSUME Ordered, Listed, LinksKept, NEW e \in joined
               PROVE  LinkKept(e) \/ e \cap cut_short # {} \/ e \in overtaken
    BY DEF LostByThrowOrOvertaken
  <2>1. PendingExit(e) <=> Exits(stack, e) # {}
    BY PendingExits
  <2>2. StoredLink(e) <=> Stored(established_links, e)
    BY DEF StoredLink, Stored
  <2> QED BY <2>1, <2>2 DEF LinksKept, Accounted, LinkKept
<1> QED BY <1>1, <1>2, <1>3, ListedAlways, PTL DEF Spec

-----------------------------------------------------------------------------
(***************************************************************************)
(* Reports, counted.                                                       *)
(***************************************************************************)
Bit(P) == IF P THEN 1 ELSE 0

LEMMA BitTypes ==
  ASSUME NEW P \in BOOLEAN
  PROVE  Bit(P) \in Nat /\ (P => Bit(P) = 1) /\ (~P => Bit(P) = 0)
BY DEF Bit

LEMMA OccurrencesType ==
  ASSUME NEW S, NEW s \in Seq(S), NEW x
  PROVE  IsFiniteSet({i \in DOMAIN s : s[i] = x}) /\ Occurrences(s, x) \in Nat
<1> DEFINE A == {i \in DOMAIN s : s[i] = x}
<1>1. DOMAIN s = 1..Len(s) /\ Len(s) \in Nat
  OBVIOUS
<1>2. IsFiniteSet(DOMAIN s)
  BY <1>1, FS_Interval
<1>3. A \in SUBSET (DOMAIN s)
  OBVIOUS
<1> HIDE DEF A
<1>4. IsFiniteSet(A) /\ Cardinality(A) \in Nat
  BY <1>2, <1>3, FS_Subset, FS_CardinalityType
<1> QED BY <1>4 DEF A, Occurrences

LEMMA OccurrencesAppend ==
  ASSUME NEW S, NEW s \in Seq(S), NEW y \in S, NEW x
  PROVE  /\ y = x => Occurrences(Append(s, y), x) = Occurrences(s, x) + 1
         /\ y # x => Occurrences(Append(s, y), x) = Occurrences(s, x)
<1> DEFINE t == Append(s, y)
           n == Len(s)
           A == {i \in DOMAIN s : s[i] = x}
           B == {i \in DOMAIN t : t[i] = x}
<1>1. /\ n \in Nat /\ DOMAIN s = 1..n /\ DOMAIN t = 1..(n + 1)
      /\ t[n + 1] = y /\ \A i \in 1..n : t[i] = s[i]
  BY AppendProperties
<1> HIDE DEF n, t
<1>2. DOMAIN t = DOMAIN s \cup {n + 1} /\ n + 1 \notin DOMAIN s
  BY <1>1
<1>3. IsFiniteSet(A) /\ Cardinality(A) \in Nat
  BY OccurrencesType DEF Occurrences
<1>4. /\ y = x => Cardinality(B) = Cardinality(A) + 1
      /\ y # x => Cardinality(B) = Cardinality(A)
  <2>1. CASE y = x
    <3>1. B = A \cup {n + 1} /\ n + 1 \notin A
      BY <1>1, <1>2, <2>1
    <3> HIDE DEF A, B
    <3>2. Cardinality(B) = Cardinality(A) + 1
      BY <1>3, <3>1, FS_AddElement
    <3> QED BY <2>1, <3>2
  <2>2. CASE y # x
    <3>1. B = A
      BY <1>1, <1>2, <2>2
    <3> HIDE DEF A, B
    <3> QED BY <2>2, <3>1
  <2> QED BY <2>1, <2>2
<1> QED BY <1>4 DEF A, B, Occurrences, t

Reports(a, b) == Occurrences(reports[a], b) + Occurrences(reports[b], a)

Told(h, p, a, b) == IF (h = a /\ p = b) \/ (h = b /\ p = a) THEN 1 ELSE 0

LEMMA ReportAdded ==
  ASSUME reports \in [Boxes -> Seq(Pids)], NEW h \in Boxes, NEW p \in Pids,
         reports' = [reports EXCEPT ![h] = Append(@, p)]
  PROVE  /\ reports' \in [Boxes -> Seq(Pids)]
         /\ \A a, b \in Boxes : a # b =>
              /\ Reports(a, b) \in Nat /\ Reports(a, b)' \in Nat
              /\ Reports(a, b)' =
                   Reports(a, b) + Told(h, p, a, b)
<1>1. reports' \in [Boxes -> Seq(Pids)]
  <2>1. reports[h] \in Seq(Pids)
    OBVIOUS
  <2>2. Append(reports[h], p) \in Seq(Pids)
    BY <2>1, AppendProperties
  <2> DEFINE z == Append(reports[h], p)
  <2>3. reports' = [reports EXCEPT ![h] = z]
    OBVIOUS
  <2> HIDE DEF z
  <2> QED BY <2>2, <2>3 DEF z
<1>2. ASSUME NEW a \in Boxes, NEW x
      PROVE  /\ Occurrences(reports[a], x) \in Nat
             /\ Occurrences(reports'[a], x) =
                  Occurrences(reports[a], x) + Bit(h = a /\ p = x)
  <2>1. reports[a] \in Seq(Pids) /\ reports[h] \in Seq(Pids)
    OBVIOUS
  <2>2. Occurrences(reports[a], x) \in Nat
    BY <2>1, OccurrencesType
  <2>3. CASE h = a
    <3>1. reports'[a] = Append(reports[a], p)
      BY <2>3
    <3>2. /\ p = x => Occurrences(Append(reports[a], p), x) =
                        Occurrences(reports[a], x) + 1
          /\ p # x => Occurrences(Append(reports[a], p), x) =
                        Occurrences(reports[a], x)
      BY <2>1, OccurrencesAppend
    <3> QED BY <2>2, <2>3, <3>1, <3>2 DEF Bit
  <2>4. CASE h # a
    <3>1. reports'[a] = reports[a]
      BY <2>4
    <3> QED BY <2>2, <2>4, <3>1 DEF Bit
  <2> QED BY <2>3, <2>4
<1>3. ASSUME NEW a \in Boxes, NEW b \in Boxes, a # b
      PROVE  /\ Reports(a, b) \in Nat /\ Reports(a, b)' \in Nat
             /\ Reports(a, b)' =
                   Reports(a, b) + Told(h, p, a, b)
  <2>1. /\ Occurrences(reports[a], b) \in Nat /\ Occurrences(reports[b], a) \in Nat
        /\ Occurrences(reports'[a], b) =
             Occurrences(reports[a], b) + Bit(h = a /\ p = b)
        /\ Occurrences(reports'[b], a) =
             Occurrences(reports[b], a) + Bit(h = b /\ p = a)
    BY <1>2
  <2>2. /\ Bit(h = a /\ p = b) \in Nat /\ Bit(h = b /\ p = a) \in Nat
        /\ Told(h, p, a, b) =
             Bit(h = a /\ p = b) + Bit(h = b /\ p = a)
    BY <1>3 DEF Bit, Told
  <2> DEFINE u == Occurrences(reports[a], b)
             v == Occurrences(reports[b], a)
             u1 == Occurrences(reports'[a], b)
             v1 == Occurrences(reports'[b], a)
             i == Bit(h = a /\ p = b)
             j == Bit(h = b /\ p = a)
             k == Told(h, p, a, b)
  <2>3. /\ u \in Nat /\ v \in Nat /\ i \in Nat /\ j \in Nat
        /\ u1 = u + i /\ v1 = v + j /\ k = i + j
    BY <2>1, <2>2
  <2>4. Reports(a, b) = u + v /\ Reports(a, b)' = u1 + v1
    BY DEF Reports
  <2> HIDE DEF u, v, u1, v1, i, j, k
  <2>5. /\ u + v \in Nat /\ u1 + v1 \in Nat /\ u1 + v1 = u + v + k
    BY <2>3
  <2> QED BY <2>4, <2>5 DEF k
<1> QED BY <1>1, <1>3

(***************************************************************************)
(* The exit told is one place less.                                        *)
(***************************************************************************)
LEMMA ExitTold ==
  ASSUME NEW S, NEW T, NEW t \in Threads, NEW n \in Nat, NEW f, NEW g,
         Swap(S, T, t, n, f, g), Owes(f), Owes(g), g.box = f.box,
         f.todo \in Seq(Pids), f.todo # <<>>, g.todo = Tail(f.todo),
         NEW e, IsFiniteSet(Exits(S, e))
  PROVE  /\ IsFiniteSet(Exits(T, e))
         /\ Cardinality(Exits(T, e)) + Bit(e = {f.box, Head(f.todo)}) <=
              Cardinality(Exits(S, e))
<1> DEFINE A == Exits(T, e)
           B == Exits(S, e)
           z == <<t, n, 1>>
           m == Len(f.todo)
           h == [x \in A |-> IF x[1] = t /\ x[2] = n THEN <<t, n, x[3] + 1>>
                                                     ELSE x]
<1>1. /\ m \in Nat /\ m >= 1 /\ DOMAIN f.todo = 1..m /\ f.todo[1] = Head(f.todo)
      /\ DOMAIN g.todo = 1..(m - 1)
      /\ \A j \in 1..(m - 1) : g.todo[j] = f.todo[j + 1]
  BY HeadTailProperties, EmptySeq
<1>2. ASSUME NEW k \in OwedBy(g, e)
      PROVE  k \in Nat /\ k + 1 \in OwedBy(f, e) /\ k + 1 # 1
  <2>1. k \in 1..(m - 1) /\ e = {g.box, g.todo[k]}
    BY <1>1 DEF OwedBy
  <2>2. k + 1 \in 1..m /\ e = {f.box, f.todo[k + 1]} /\ k + 1 # 1 /\ k \in Nat
    BY <1>1, <2>1
  <2> QED BY <1>1, <2>2 DEF OwedBy
<1>3. e = {f.box, Head(f.todo)} => z \in B
  <2> SUFFICES ASSUME e = {f.box, Head(f.todo)} PROVE z \in B
    OBVIOUS
  <2>1. 1 \in OwedBy(f, e)
    BY <1>1 DEF OwedBy
  <2>2. 1 \in OwedAt(S, t, n, e)
    BY <2>1 DEF Swap
  <2> QED BY <2>2 DEF Exits
<1>4. ASSUME NEW x \in A
      PROVE  h[x] \in B \ {z}
  <2>0. /\ x \in Threads \X Nat \X Nat /\ x[1] \in Threads /\ x[2] \in Nat
        /\ x[3] \in Nat /\ x[3] \in OwedAt(T, x[1], x[2], e)
        /\ x = <<x[1], x[2], x[3]>>
    BY DEF Exits
  <2>1. CASE x[1] = t /\ x[2] = n
    <3>1. x[3] \in OwedBy(g, e)
      BY <2>0, <2>1 DEF Swap
    <3> DEFINE k == x[3]
    <3>2. k \in Nat /\ k + 1 \in OwedBy(f, e) /\ k + 1 # 1
      BY <1>2, <3>1
    <3>3. h[x] = <<t, n, k + 1>>
      BY <2>1
    <3>4. k + 1 \in OwedAt(S, t, n, e)
      BY <3>2 DEF Swap
    <3> HIDE DEF k
    <3>5. <<t, n, k + 1>> \in B /\ <<t, n, k + 1>> # z
      BY <3>2, <3>4 DEF Exits
    <3> QED BY <3>3, <3>5
  <2>2. CASE ~(x[1] = t /\ x[2] = n)
    <3>1. h[x] = x
      BY <2>2
    <3>2. x[3] \in OwedAt(S, x[1], x[2], e)
      BY <2>0, <2>2 DEF Swap
    <3>3. x \in B
      BY <2>0, <3>2 DEF Exits
    <3>4. x # z
      BY <2>2
    <3> QED BY <3>1, <3>3, <3>4
  <2> QED BY <2>1, <2>2
<1>5. ASSUME NEW x \in A, NEW y \in A, h[x] = h[y] PROVE x = y
  <2>0. /\ x = <<x[1], x[2], x[3]>> /\ x[3] \in Nat
        /\ y = <<y[1], y[2], y[3]>> /\ y[3] \in Nat
    BY DEF Exits
  <2>1. /\ h[x] = IF x[1] = t /\ x[2] = n THEN <<t, n, x[3] + 1>> ELSE x
        /\ h[y] = IF y[1] = t /\ y[2] = n THEN <<t, n, y[3] + 1>> ELSE y
    OBVIOUS
  <2> HIDE DEF h
  <2>2. \A i : <<t, n, i>>[1] = t /\ <<t, n, i>>[2] = n /\ <<t, n, i>>[3] = i
    OBVIOUS
  <2>3. CASE (x[1] = t /\ x[2] = n) /\ (y[1] = t /\ y[2] = n)
    <3>1. <<t, n, x[3] + 1>> = <<t, n, y[3] + 1>>
      BY <1>5, <2>1, <2>3
    <3>2. x[3] + 1 = y[3] + 1
      BY <3>1
    <3>3. x[3] = y[3]
      BY <2>0, <3>2
    <3> QED BY <2>0, <2>3, <3>3
  <2>4. ASSUME NEW u, NEW v, u[1] = t /\ u[2] = n, ~(v[1] = t /\ v[2] = n),
               <<t, n, u[3] + 1>> = v
        PROVE  FALSE
    <3> DEFINE w == <<t, n, u[3] + 1>>
    <3>1. w[1] = t /\ w[2] = n
      BY <2>2
    <3>2. w = v
      BY <2>4
    <3> HIDE DEF w
    <3> QED BY <2>4, <3>1, <3>2
  <2>5. CASE (x[1] = t /\ x[2] = n) /\ ~(y[1] = t /\ y[2] = n)
    <3>1. h[x] = <<t, n, x[3] + 1>> /\ h[y] = y
      BY <2>1, <2>5
    <3>2. <<t, n, x[3] + 1>> = y
      BY <1>5, <3>1
    <3> QED BY <2>4, <2>5, <3>2
  <2>6. CASE ~(x[1] = t /\ x[2] = n) /\ (y[1] = t /\ y[2] = n)
    <3>1. h[y] = <<t, n, y[3] + 1>> /\ h[x] = x
      BY <2>1, <2>6
    <3>2. <<t, n, y[3] + 1>> = x
      BY <1>5, <3>1
    <3> QED BY <2>4, <2>6, <3>2
  <2>7. CASE ~(x[1] = t /\ x[2] = n) /\ ~(y[1] = t /\ y[2] = n)
    BY <1>5, <2>1, <2>7
  <2> QED BY <2>3, <2>5, <2>6, <2>7
<1>6. h \in [A -> B \ {z}]
  BY <1>4
<1> HIDE DEF h, A, B, z
<1>7. h \in Injection(A, B \ {z})
  BY <1>5, <1>6 DEF Injection, IsInjective
<1>8. /\ IsFiniteSet(B) /\ Cardinality(B) \in Nat
      /\ IsFiniteSet(B \ {z}) /\ Cardinality(B \ {z}) \in Nat
      /\ Cardinality(B \ {z}) <= Cardinality(B)
      /\ z \in B => Cardinality(B \ {z}) = Cardinality(B) - 1
  <2>1. IsFiniteSet(B)
    BY DEF B
  <2>2. B \ {z} \in SUBSET B
    OBVIOUS
  <2>3. z \in B => Cardinality(B \ {z}) = Cardinality(B) - 1
    BY <2>1, FS_RemoveElement
  <2> QED BY <2>1, <2>2, <2>3, FS_Subset, FS_CardinalityType
<1>9. IsFiniteSet(A) /\ Cardinality(A) <= Cardinality(B \ {z})
  <2>1. \E i : i \in Injection(A, B \ {z})
    BY <1>7
  <2> DEFINE C == B \ {z}
  <2>2. IsFiniteSet(C) /\ \E i : i \in Injection(A, C)
    BY <1>8, <2>1
  <2> HIDE DEF C
  <2>3. IsFiniteSet(A) /\ Cardinality(A) <= Cardinality(C)
    BY <2>2, FS_Injection
  <2> QED BY <2>3 DEF C
<1>10. Cardinality(A) \in Nat
  BY <1>9, FS_CardinalityType
<1>11. Cardinality(A) + Bit(e = {f.box, Head(f.todo)}) <= Cardinality(B)
  <2> DEFINE P == e = {f.box, Head(f.todo)}
  <2>1. P \in BOOLEAN /\ (P => z \in B)
    BY <1>3
  <2> HIDE DEF P
  <2>2. Cardinality(A) + Bit(P) <= Cardinality(B)
    <3> DEFINE a == Cardinality(A)
               b == Cardinality(B)
               c == Cardinality(B \ {z})
    <3>1. /\ a \in Nat /\ b \in Nat /\ c \in Nat /\ c <= b /\ a <= c
          /\ P => c = b - 1
      BY <1>8, <1>9, <1>10, <2>1
    <3>2. Bit(P) \in Nat /\ (P => Bit(P) = 1) /\ (~P => Bit(P) = 0)
      BY <2>1, BitTypes
    <3> HIDE DEF a, b, c
    <3>3. a + Bit(P) <= b
      BY <3>1, <3>2
    <3> QED BY <3>3 DEF a, b
  <2> QED BY <2>2 DEF P
<1> QED BY <1>9, <1>11 DEF A, B

(***************************************************************************)
(* A close collects the exit of a link at most once.                       *)
(***************************************************************************)
LEMMA ExitCollected ==
  ASSUME NEW S, NEW T, NEW t \in Threads, NEW n \in Nat, NEW f, NEW g,
         Swap(S, T, t, n, f, g), NEW e, OwedBy(f, e) = {},
         NEW k, OwedBy(g, e) = {k}, IsFiniteSet(Exits(S, e))
  PROVE  /\ IsFiniteSet(Exits(T, e))
         /\ Cardinality(Exits(T, e)) <= Cardinality(Exits(S, e)) + 1
<1> DEFINE A == Exits(T, e)
           B == Exits(S, e)
           z == <<t, n, k>>
<1>1. ASSUME NEW x \in A PROVE x \in B \cup {z}
  <2>1. /\ x \in Threads \X Nat \X Nat /\ x[1] \in Threads /\ x[2] \in Nat
        /\ x[3] \in Nat /\ x[3] \in OwedAt(T, x[1], x[2], e)
        /\ x = <<x[1], x[2], x[3]>>
    BY DEF Exits
  <2>2. CASE x[1] = t /\ x[2] = n
    <3>1. x[3] \in OwedBy(g, e)
      BY <2>1, <2>2 DEF Swap
    <3>2. x[3] = k
      BY <3>1
    <3> QED BY <2>1, <2>2, <3>2
  <2>3. CASE ~(x[1] = t /\ x[2] = n)
    <3>1. x[3] \in OwedAt(S, x[1], x[2], e)
      BY <2>1, <2>3 DEF Swap
    <3> QED BY <2>1, <3>1 DEF Exits
  <2> QED BY <2>2, <2>3
<1>2. IsFiniteSet(B)
  OBVIOUS
<1> HIDE DEF A, B, z
<1>3. /\ IsFiniteSet(B \cup {z}) /\ Cardinality(B) \in Nat
      /\ Cardinality(B \cup {z}) <= Cardinality(B) + 1
  <2>1. /\ IsFiniteSet(B \cup {z})
        /\ Cardinality(B \cup {z}) =
             IF z \in B THEN Cardinality(B) ELSE Cardinality(B) + 1
    BY <1>2, FS_AddElement
  <2>2. Cardinality(B) \in Nat
    BY <1>2, FS_CardinalityType
  <2> QED BY <2>1, <2>2
<1>4. A \in SUBSET (B \cup {z})
  BY <1>1
<1>5. /\ IsFiniteSet(A) /\ Cardinality(A) <= Cardinality(B \cup {z})
      /\ Cardinality(A) \in Nat /\ Cardinality(B \cup {z}) \in Nat
  BY <1>3, <1>4, FS_Subset, FS_CardinalityType
<1>6. IsFiniteSet(A) /\ Cardinality(A) <= Cardinality(B) + 1
  BY <1>3, <1>5
<1> QED BY <1>6 DEF A, B

LEMMA ExitsDropped ==
  ASSUME NEW S, NEW T, NEW t \in Threads, NEW n \in Nat, NEW f,
         Swap(S, T, t, n, f, NoFrame), NEW e, IsFiniteSet(Exits(S, e))
  PROVE  /\ IsFiniteSet(Exits(T, e))
         /\ Cardinality(Exits(T, e)) <= Cardinality(Exits(S, e))
<1>1. ASSUME NEW x \in Exits(T, e) PROVE x \in Exits(S, e)
  <2>1. /\ x \in Threads \X Nat \X Nat /\ x[1] \in Threads /\ x[2] \in Nat
        /\ x[3] \in OwedAt(T, x[1], x[2], e)
    BY DEF Exits
  <2>2. CASE x[1] = t /\ x[2] = n
    <3>1. x[3] \in OwedBy(NoFrame, e)
      BY <2>1, <2>2 DEF Swap
    <3> QED BY <3>1, NoFrameQuiet
  <2>3. CASE ~(x[1] = t /\ x[2] = n)
    <3>1. x[3] \in OwedAt(S, x[1], x[2], e)
      BY <2>1, <2>3 DEF Swap
    <3> QED BY <2>1, <3>1 DEF Exits
  <2> QED BY <2>2, <2>3
<1> QED BY <1>1, FS_Subset

(***************************************************************************)
(* The books of a link between two mailboxes: the reports made, the exits  *)
(* under way (each of them) and the link stored come out of links made.    *)
(***************************************************************************)
Booked(a, b) ==
  /\ IsFiniteSet(Exits(stack, Between(a, b)))
  /\ Reports(a, b) + Cardinality(Exits(stack, Between(a, b)))
       + Bit(Stored(established_links, Between(a, b)))
     <= Occurrences(made, Between(a, b))

Counted ==
  /\ reports \in [Boxes -> Seq(Pids)]
  /\ made \in Seq(SUBSET Pids)
  /\ \A a, b \in Boxes : a # b => Booked(a, b)

LEMMA StoredBit ==
  ASSUME NEW s, NEW e
  PROVE  /\ Bit(Stored(s, e)) \in Nat
         /\ Stored(s, e) => Bit(Stored(s, e)) = 1
         /\ ~Stored(s, e) => Bit(Stored(s, e)) = 0
<1> DEFINE P == Stored(s, e)
<1>1. P \in BOOLEAN
  BY DEF Stored
<1> HIDE DEF P
<1>2. Bit(P) \in Nat /\ (P => Bit(P) = 1) /\ (~P => Bit(P) = 0)
  BY <1>1, BitTypes
<1> QED BY <1>2 DEF P

LEMMA StoredShrinks ==
  ASSUME NEW s, NEW r, NEW e, Stored(r, e) => Stored(s, e)
  PROVE  Bit(Stored(r, e)) <= Bit(Stored(s, e))
<1>1. /\ Bit(Stored(s, e)) \in Nat /\ Bit(Stored(r, e)) \in Nat
      /\ Stored(s, e) => Bit(Stored(s, e)) = 1
      /\ Stored(r, e) => Bit(Stored(r, e)) = 1
      /\ ~Stored(r, e) => Bit(Stored(r, e)) = 0
  BY StoredBit
<1> QED BY <1>1

LEMMA CountedInitially == Init => Counted
<1> SUFFICES ASSUME Init PROVE Counted
  OBVIOUS
<1>1. /\ reports \in [Boxes -> Seq(Pids)] /\ made \in Seq(SUBSET Pids)
      /\ \A a \in Boxes : reports[a] = <<>>
      /\ made = <<>> /\ established_links = <<>>
      /\ \A t \in Threads : stack[t] = <<>>
  BY DEF Init
<1>2. ASSUME NEW e PROVE Exits(stack, e) = {}
  <2>1. ASSUME NEW x \in Exits(stack, e) PROVE FALSE
    <3>1. PICK t \in Threads, i \in Nat, k \in Nat : k \in OwedAt(stack, t, i, e)
      BY DEF Exits
    <3>2. i \in DOMAIN stack[t]
      BY <3>1 DEF OwedAt
    <3> QED BY <1>1, <3>2
  <2> QED BY <2>1
<1>3. ASSUME NEW x PROVE Occurrences(<<>>, x) = 0
  <2>1. {i \in DOMAIN <<>> : <<>>[i] = x} = {}
    OBVIOUS
  <2> QED BY <2>1, FS_EmptySet DEF Occurrences
<1>4. ASSUME NEW e PROVE Bit(Stored(<<>>, e)) = 0
  <2>1. ~Stored(<<>>, e)
    BY DEF Stored
  <2> QED BY <2>1, StoredBit
<1>5. ASSUME NEW a \in Boxes, NEW b \in Boxes PROVE Booked(a, b)
  <2>1. Reports(a, b) = 0
    BY <1>1, <1>3 DEF Reports
  <2>2. IsFiniteSet({}) /\ Cardinality({}) = 0
    BY FS_EmptySet
  <2> DEFINE e == Between(a, b)
  <2>3. /\ Exits(stack, e) = {} /\ Bit(Stored(established_links, e)) = 0
        /\ Occurrences(made, e) = 0
    BY <1>1, <1>2, <1>3, <1>4
  <2>4. IsFiniteSet(Exits(stack, e)) /\ Cardinality(Exits(stack, e)) = 0
    BY <2>2, <2>3
  <2> QED BY <2>1, <2>3, <2>4 DEF Booked
<1> QED BY <1>1, <1>5 DEF Counted

LEMMA CountedStep ==
  Ordered /\ Listed /\ Counted /\ [Next]_vars => Counted'
<1> SUFFICES ASSUME Ordered, Listed, Counted, [Next]_vars PROVE Counted'
  OBVIOUS
<1> DEFINE s == established_links
           R(a, b) == Reports(a, b)
           X(e) == Exits(stack, e)
           C(e) == Cardinality(Exits(stack, e))
           B(e) == Bit(Stored(established_links, e))
           M(e) == Occurrences(made, e)
<1>0. /\ AllGood(stack, created) /\ s \in Seq(Links) /\ Once(s)
  BY DEF Listed
<1>1. /\ reports \in [Boxes -> Seq(Pids)] /\ made \in Seq(SUBSET Pids)
      /\ \A a, b \in Boxes : a # b => Booked(a, b)
  BY DEF Counted
<1>2. Moves
  BY <1>0, StepMoves DEF Moved
<1>3. ASSUME NEW e PROVE B(e) \in Nat /\ B(e)' \in Nat
  BY StoredBit
<1>4. ASSUME NEW e PROVE M(e) \in Nat
  BY <1>1, OccurrencesType
<1>5. ASSUME NEW a \in Boxes, NEW b \in Boxes PROVE R(a, b) \in Nat
  <2>1. reports[a] \in Seq(Pids) /\ reports[b] \in Seq(Pids)
    BY <1>1
  <2>2. Occurrences(reports[a], b) \in Nat /\ Occurrences(reports[b], a) \in Nat
    BY <2>1, OccurrencesType
  <2> QED BY <2>2 DEF Reports
\* The new books of a and b: d reported, c collected and k made.
<1>6. ASSUME NEW a \in Boxes, NEW b \in Boxes, a # b, NEW e, e = Between(a, b),
             NEW d \in Nat, NEW k \in Nat, NEW c \in Nat,
             R(a, b)' = R(a, b) + d, M(e)' = M(e) + k,
             IsFiniteSet(X(e)'), C(e)' + d <= C(e) + c,
             B(e)' + c <= B(e) + k
      PROVE  Booked(a, b)'
  <2>1. IsFiniteSet(X(e)) /\ R(a, b) + C(e) + B(e) <= M(e)
    BY <1>1, <1>6 DEF Booked
  <2>2. C(e) \in Nat /\ C(e)' \in Nat
    BY <1>6, <2>1, FS_CardinalityType
  <2>3. R(a, b) \in Nat /\ M(e) \in Nat /\ B(e) \in Nat /\ B(e)' \in Nat
    BY <1>3, <1>4, <1>5
  <2> DEFINE r == R(a, b)
             x == C(e)
             y == B(e)
             m == M(e)
             r1 == R(a, b)'
             x1 == C(e)'
             y1 == B(e)'
             m1 == M(e)'
  <2>4. /\ r \in Nat /\ x \in Nat /\ y \in Nat /\ m \in Nat
        /\ x1 \in Nat /\ y1 \in Nat /\ r1 = r + d /\ m1 = m + k
        /\ r + x + y <= m /\ x1 + d <= x + c /\ y1 + c <= y + k
    BY <1>6, <2>1, <2>2, <2>3
  <2>5. Booked(a, b)' <=> IsFiniteSet(X(e)') /\ r1 + x1 + y1 <= m1
    BY <1>6 DEF Booked
  <2> HIDE DEF r, x, y, m, r1, x1, y1, m1
  <2>6. r1 + x1 + y1 <= m1
    BY <2>4
  <2> QED BY <1>6, <2>5, <2>6
\* The old books, and the types of their parts.
<1>7. ASSUME NEW a \in Boxes, NEW b \in Boxes, a # b, NEW e, e = Between(a, b)
      PROVE  /\ IsFiniteSet(X(e)) /\ C(e) \in Nat /\ R(a, b) \in Nat
             /\ M(e) \in Nat /\ B(e) \in Nat /\ B(e)' \in Nat
             /\ e \in SUBSET Pids
  <2>1. IsFiniteSet(X(e))
    BY <1>1, <1>7 DEF Booked
  <2>2. C(e) \in Nat
    BY <2>1, FS_CardinalityType
  <2>3. e \in SUBSET Pids
    BY <1>7 DEF Between, Pids
  <2> QED BY <1>3, <1>4, <1>5, <2>1, <2>2, <2>3
<1>8. ASSUME NEW a \in Boxes, NEW b \in Boxes, a # b, NEW e, e = Between(a, b),
             R(a, b)' = R(a, b), made' = made, X(e)' = X(e),
             Stored(s', e) => Stored(s, e)
      PROVE  Booked(a, b)'
  <2>1. B(e)' <= B(e)
    BY <1>8, StoredShrinks
  <2>2. /\ IsFiniteSet(X(e)) /\ C(e) \in Nat /\ R(a, b) \in Nat
        /\ M(e) \in Nat /\ B(e) \in Nat /\ B(e)' \in Nat
    BY <1>7, <1>8
  <2>3. /\ R(a, b)' = R(a, b) + 0 /\ M(e)' = M(e) + 0 /\ IsFiniteSet(X(e)')
        /\ C(e)' + 0 <= C(e) + 0 /\ B(e)' + 0 <= B(e) + 0
    BY <1>8, <2>1, <2>2
  <2> HIDE DEF R, M, X, C, B
  <2> QED BY <1>6, <1>8, <2>3
<1>9. ASSUME UNCHANGED reports, NEW a, NEW b PROVE R(a, b)' = R(a, b)
  BY <1>9 DEF Reports
<1>10. ASSUME NEW p, NEW q, linker_unlink(p, q)
       PROVE  \A e : Stored(s', e) => Stored(s, e)
  <2>1. s' = remove_link_between(s, p, q)
    BY <1>10 DEF linker_unlink
  <2> QED BY <1>0, <2>1, UnlinkHolds
<1>11. ASSUME reports' \in [Boxes -> Seq(Pids)], made' \in Seq(SUBSET Pids),
              \A a, b \in Boxes : a # b => Booked(a, b)'
       PROVE  Counted'
  BY <1>11 DEF Counted
<1>12. ASSUME NEW p \in Pids, NEW q \in Pids, Stores(p, q) PROVE Counted'
  <2>1. /\ s' = establish_link_between(remove_link_between(s, p, q), p, q)
        /\ made' = Append(made, {p, q}) /\ SameExits /\ reports' = reports
    BY <1>12 DEF Stores, linker_link
  <2>2. {p, q} \in SUBSET Pids
    OBVIOUS
  <2>3. made' \in Seq(SUBSET Pids)
    BY <1>1, <2>1, <2>2, AppendProperties
  <2>4. ASSUME NEW a \in Boxes, NEW b \in Boxes, a # b PROVE Booked(a, b)'
    <3> DEFINE e == Between(a, b)
               P == {p, q} = e
               k == Bit(P)
    <3>1. /\ IsFiniteSet(X(e)) /\ C(e) \in Nat /\ R(a, b) \in Nat
          /\ M(e) \in Nat /\ B(e) \in Nat /\ B(e)' \in Nat /\ e \in SUBSET Pids
      BY <1>7, <2>4
    <3>2. k \in Nat /\ (P => k = 1) /\ (~P => k = 0)
      <4>1. P \in BOOLEAN
        OBVIOUS
      <4> HIDE DEF P
      <4> QED BY <4>1, BitTypes
    <3>3. M(e)' = M(e) + k
      <4> DEFINE w == {p, q}
      <4>1. w \in SUBSET Pids /\ made' = Append(made, w) /\ (P <=> w = e)
        BY <2>1, <2>2
      <4> HIDE DEF w, P
      <4>2. /\ w = e => Occurrences(Append(made, w), e) = Occurrences(made, e) + 1
            /\ w # e => Occurrences(Append(made, w), e) = Occurrences(made, e)
        BY <1>1, <4>1, OccurrencesAppend
      <4>3. M(e) \in Nat
        BY <3>1
      <4> QED BY <3>2, <4>1, <4>2, <4>3
    <3>4. R(a, b)' = R(a, b) + 0
      BY <1>9, <2>1, <3>1
    <3>5. X(e)' = X(e)
      BY <2>1, <3>1 DEF SameExits
    <3>6. IsFiniteSet(X(e)') /\ C(e)' + 0 <= C(e) + 0
      BY <3>1, <3>5
    <3>7. B(e)' + 0 <= B(e) + k
      <4>1. CASE P
        <5>1. B(e)' <= 1
          BY StoredBit
        <5> HIDE DEF k, P, B
        <5> QED BY <3>1, <3>2, <4>1, <5>1
      <4>2. CASE ~P
        <5>1. e # Between(p, q)
          BY <4>2 DEF Between
        <5>2. Stored(s', e) /\ e # Between(p, q) => Stored(s, e)
          BY <1>0, <2>1, LinkHolds
        <5>3. Stored(s', e) => Stored(s, e)
          BY <5>1, <5>2
        <5>4. B(e)' <= B(e)
          BY <5>3, StoredShrinks
        <5> HIDE DEF k, P, B
        <5> QED BY <3>1, <3>2, <4>2, <5>4
      <4> QED BY <4>1, <4>2
    <3> HIDE DEF k, P, R, M, X, C, B
    <3>8. 0 \in Nat
      OBVIOUS
    <3> QED BY <1>6, <2>4, <3>3, <3>2, <3>4, <3>6, <3>7, <3>8
  <2> QED BY <1>1, <1>11, <2>1, <2>3, <2>4
<1>13. ASSUME UNCHANGED <<reports, made>>, SameExits,
              \A e : Stored(s', e) => Stored(s, e)
       PROVE  Counted'
  <2>1. ASSUME NEW a \in Boxes, NEW b \in Boxes, a # b PROVE Booked(a, b)'
    <3> DEFINE e == Between(a, b)
    <3>1. e \in SUBSET Pids
      BY <1>7, <2>1
    <3>2. X(e)' = X(e)
      BY <1>13, <3>1 DEF SameExits
    <3>3. R(a, b)' = R(a, b) /\ made' = made /\ (Stored(s', e) => Stored(s, e))
      BY <1>9, <1>13
    <3> HIDE DEF R, M, X, C, B
    <3> QED BY <1>8, <2>1, <3>2, <3>3
  <2> QED BY <1>1, <1>11, <1>13, <2>1
<1>14. ASSUME NEW p, NEW q, Unstores(p, q) \/ Overtakes(p, q) PROVE Counted'
  BY <1>10, <1>13, <1>14 DEF Unstores, Overtakes
<1>15. ASSUME KeepsLinks PROVE Counted'
  BY <1>13, <1>15 DEF KeepsLinks
<1>16. ASSUME NEW r \in Remotes, NEW h \in Boxes, ReportsRemote(r, h)
       PROVE  Counted'
  <2>1. /\ s' = s /\ reports' = [reports EXCEPT ![h] = Append(@, r)]
        /\ SameExits /\ made' = made
    BY <1>16 DEF ReportsRemote
  <2>2. r \in Pids /\ r \notin Boxes
    BY NodeAssumption DEF Pids
  <2>3. /\ reports' \in [Boxes -> Seq(Pids)]
        /\ \A a, b \in Boxes : a # b =>
              Reports(a, b) \in Nat /\
              Reports(a, b)' =
                   Reports(a, b) + Told(h, r, a, b)
    BY <1>1, <2>1, <2>2, ReportAdded
  <2>4. ASSUME NEW a \in Boxes, NEW b \in Boxes, a # b PROVE Booked(a, b)'
    <3> DEFINE e == Between(a, b)
    <3>1. e \in SUBSET Pids
      BY <1>7, <2>4
    <3>2. X(e)' = X(e)
      BY <2>1, <3>1 DEF SameExits
    <3>3. Told(h, r, a, b) = 0
      BY <2>2 DEF Told
    <3>4. R(a, b)' = R(a, b)
      BY <2>3, <2>4, <3>3
    <3>5. Stored(s', e) => Stored(s, e)
      BY <2>1
    <3> HIDE DEF R, M, X, C, B
    <3> QED BY <1>8, <2>1, <2>4, <3>2, <3>4, <3>5
  <2> QED BY <1>1, <1>11, <2>1, <2>3, <2>4
<1>17. ASSUME NEW t \in Threads, NEW n \in Nat, NEW f, Throws(t, n, f)
       PROVE  Counted'
  <2>1. /\ Swap(stack, stack', t, n, f, NoFrame)
        /\ UNCHANGED <<established_links, made, reports>>
    BY <1>17 DEF Throws
  <2>2. ASSUME NEW a \in Boxes, NEW b \in Boxes, a # b PROVE Booked(a, b)'
    <3> DEFINE e == Between(a, b)
    <3>1. /\ IsFiniteSet(X(e)) /\ C(e) \in Nat /\ R(a, b) \in Nat
          /\ M(e) \in Nat /\ B(e) \in Nat /\ B(e)' \in Nat
      BY <1>7, <2>2
    <3>2. IsFiniteSet(X(e)') /\ C(e)' <= C(e)
      BY <2>1, <3>1, ExitsDropped
    <3>3. C(e)' \in Nat
      BY <3>2, FS_CardinalityType
    <3>4. R(a, b)' = R(a, b) /\ M(e)' = M(e) /\ B(e)' = B(e)
      BY <1>9, <2>1
    <3> HIDE DEF R, M, X, C, B
    <3>5. /\ R(a, b)' = R(a, b) + 0 /\ M(e)' = M(e) + 0
          /\ C(e)' + 0 <= C(e) + 0 /\ B(e)' + 0 <= B(e) + 0
      BY <3>1, <3>2, <3>3, <3>4
    <3> QED BY <1>6, <2>2, <3>2, <3>5
  <2> QED BY <1>1, <1>11, <2>1, <2>2
<1>18. ASSUME NEW t \in Threads, NEW n \in Nat, NEW f, NEW g, f.box \in Boxes,
              Tells(t, n, f, g)
       PROVE  Counted'
  <2> DEFINE h == Head(f.todo)
             p == f.box
  <2>1. /\ Swap(stack, stack', t, n, f, g) /\ Owes(f) /\ Owes(g)
        /\ g.box = f.box /\ f.todo \in Seq(Pids) /\ f.todo # <<>>
        /\ g.todo = Tail(f.todo) /\ made' = made /\ s' = s
        /\ \/ h \in Remotes /\ UNCHANGED reports
           \/ /\ h \in Boxes
              /\ reports' = [reports EXCEPT ![h] = Append(@, p)]
    BY <1>18 DEF Tells
  <2>2. p \in Boxes /\ p \in Pids
    BY <1>18 DEF Pids
  <2>3. ASSUME NEW e, IsFiniteSet(X(e))
        PROVE  IsFiniteSet(X(e)') /\ C(e)' + Bit(e = {p, h}) <= C(e)
    BY <2>1, <2>3, ExitTold
  <2> HIDE DEF h, p
  <2>4. \A e : Stored(s', e) => Stored(s, e)
    BY <2>1
  <2>5. ASSUME NEW a \in Boxes, NEW b \in Boxes, a # b,
               NEW d \in Nat, R(a, b)' = R(a, b) + d,
               d <= Bit(Between(a, b) = {p, h})
        PROVE  Booked(a, b)'
    <3> DEFINE e == Between(a, b)
               k == Bit(Between(a, b) = {p, h})
    <3>1. /\ IsFiniteSet(X(e)) /\ C(e) \in Nat /\ R(a, b) \in Nat
          /\ M(e) \in Nat /\ B(e) \in Nat /\ B(e)' \in Nat
      BY <1>7, <2>5
    <3>2. IsFiniteSet(X(e)') /\ C(e)' + k <= C(e)
      BY <2>3, <3>1
    <3>3. C(e)' \in Nat
      BY <3>2, FS_CardinalityType
    <3>4. k \in Nat
      BY DEF Bit
    <3>5. B(e)' <= B(e)
      BY <2>4, StoredShrinks
    <3>6. M(e)' = M(e)
      BY <2>1
    <3>7. d <= k
      BY <2>5
    <3> HIDE DEF R, M, X, C, B, k
    <3>8. /\ M(e)' = M(e) + 0 /\ C(e)' + d <= C(e) + 0 /\ B(e)' + 0 <= B(e) + 0
      BY <3>1, <3>2, <3>3, <3>4, <3>5, <3>6, <3>7
    <3> QED BY <1>6, <2>5, <3>2, <3>8
  <2>6. CASE h \in Remotes /\ UNCHANGED reports
    <3>1. ASSUME NEW a \in Boxes, NEW b \in Boxes, a # b PROVE Booked(a, b)'
      <4>1. R(a, b) \in Nat /\ R(a, b)' = R(a, b)
        BY <1>5, <1>9, <2>6
      <4>2. 0 <= Bit(Between(a, b) = {p, h})
        BY DEF Bit
      <4> HIDE DEF R, M, X, C, B
      <4>3. R(a, b)' = R(a, b) + 0
        BY <4>1
      <4> QED BY <2>5, <3>1, <4>2, <4>3
    <3> QED BY <1>1, <1>11, <2>1, <2>6, <3>1
  <2>7. CASE /\ h \in Boxes
             /\ reports' = [reports EXCEPT ![h] = Append(@, p)]
    <3>1. /\ reports' \in [Boxes -> Seq(Pids)]
          /\ \A a, b \in Boxes : a # b =>
                Reports(a, b)' =
                     Reports(a, b) + Told(h, p, a, b)
      BY <1>1, <2>2, <2>7, ReportAdded
    <3>2. ASSUME NEW a \in Boxes, NEW b \in Boxes, a # b PROVE Booked(a, b)'
      <4> DEFINE d == Told(h, p, a, b)
      <4>1. d \in Nat /\ d <= Bit(Between(a, b) = {p, h})
        <5>1. (h = a /\ p = b) \/ (h = b /\ p = a) => Between(a, b) = {p, h}
          BY DEF Between
        <5> QED BY <5>1 DEF Bit, Told
      <4>2. R(a, b)' = R(a, b) + d
        BY <3>1, <3>2
      <4> HIDE DEF R, M, X, C, B, d
      <4> QED BY <2>5, <3>2, <4>1, <4>2
    <3> QED BY <1>1, <1>11, <2>1, <3>1, <3>2
  <2> QED BY <2>1, <2>6, <2>7
<1>19. ASSUME NEW t \in Threads, NEW n \in Nat, NEW f, NEW g,
              Collects(t, n, f, g)
       PROVE  Counted'
  <2>1. /\ Swap(stack, stack', t, n, f, g) /\ ~Owes(f) /\ Owes(g)
        /\ g.todo = LinkedTo(g.box) /\ s' = Without(s, Touching(g.box))
        /\ made' = made /\ reports' = reports
    BY <1>19 DEF Collects, remove_links_from
  <2>2. /\ \A k \in DOMAIN g.todo : Stored(s, {g.box, g.todo[k]})
        /\ \A k, m \in DOMAIN g.todo :
                {g.box, g.todo[k]} = {g.box, g.todo[m]} => k = m
    BY <1>0, <2>1, LinkedToHolds
  <2>3. \A e : Stored(s', e) <=> Stored(s, e) /\ g.box \notin e
    BY <1>0, <2>1, CloseLinksHolds
  <2>4. ASSUME NEW a \in Boxes, NEW b \in Boxes, a # b PROVE Booked(a, b)'
    <3> DEFINE e == Between(a, b)
    <3>1. /\ IsFiniteSet(X(e)) /\ C(e) \in Nat /\ R(a, b) \in Nat
          /\ M(e) \in Nat /\ B(e) \in Nat /\ B(e)' \in Nat
      BY <1>7, <2>4
    <3>2. OwedBy(f, e) = {}
      BY <2>1, QuietFrame
    <3>3. R(a, b)' = R(a, b) /\ M(e)' = M(e)
      BY <1>9, <2>1
    <3>4. CASE OwedBy(g, e) = {}
      <4>1. OwedBy(f, e) = OwedBy(g, e)
        BY <3>2, <3>4
      <4>2. X(e)' = X(e)
        BY <2>1, <4>1, SwapSame
      <4>3. Stored(s', e) => Stored(s, e)
        BY <2>3
      <4> HIDE DEF R, M, X, C, B
      <4> QED BY <1>8, <2>1, <2>4, <3>3, <4>2, <4>3
    <3>5. CASE OwedBy(g, e) # {}
      <4>1. PICK k : k \in OwedBy(g, e)
        BY <3>5
      <4>2. k \in DOMAIN g.todo /\ e = {g.box, g.todo[k]}
        BY <4>1 DEF OwedBy
      <4>3. ASSUME NEW m \in OwedBy(g, e) PROVE m = k
        <5>1. m \in DOMAIN g.todo /\ e = {g.box, g.todo[m]}
          BY DEF OwedBy
        <5> QED BY <2>2, <4>2, <5>1
      <4>4. OwedBy(g, e) = {k}
        BY <4>1, <4>3
      <4>5. IsFiniteSet(X(e)') /\ C(e)' <= C(e) + 1
        BY <2>1, <3>1, <3>2, <4>4, ExitCollected
      <4>6. C(e)' \in Nat
        BY <4>5, FS_CardinalityType
      <4>7. g.box \in e /\ Stored(s, e)
        BY <2>2, <4>2
      <4>8. ~Stored(s', e)
        BY <2>3, <4>7
      <4>9. B(e) = 1 /\ B(e)' = 0
        BY <4>7, <4>8, StoredBit
      <4> HIDE DEF R, M, X, C, B
      <4>10. /\ R(a, b)' = R(a, b) + 0 /\ M(e)' = M(e) + 0
             /\ C(e)' + 0 <= C(e) + 1 /\ B(e)' + 1 <= B(e) + 0
        BY <3>1, <3>3, <4>5, <4>6, <4>9
      <4>11. 0 \in Nat /\ 1 \in Nat
        OBVIOUS
      <4> QED BY <1>6, <2>4, <4>5, <4>10, <4>11
    <3> QED BY <3>4, <3>5
  <2> QED BY <1>1, <1>11, <2>1, <2>4
<1> QED BY <1>2, <1>12, <1>14, <1>15, <1>16, <1>17, <1>18, <1>19 DEF Moves

(***************************************************************************)
(* A link between two mailboxes is reported at most once, to one of its    *)
(* ends, however the closes of both, unlinks and exits of any number of    *)
(* threads cross: whoever collects a link takes it out of the linker's     *)
(* list (linker.cpp, remove_links_from), and tells of it once.             *)
(***************************************************************************)
THEOREM ReportedAtMostOnce == Spec => []ReportedOnce
<1>1. Init => Counted
  BY CountedInitially
<1>2. Ordered /\ Listed /\ Counted /\ [Next]_vars => Counted'
  BY CountedStep
<1>3. Ordered /\ Listed /\ Counted => ReportedOnce
  <2> SUFFICES ASSUME Ordered, Listed, Counted,
                      NEW a \in Boxes, NEW b \in Boxes, a # b
               PROVE  Occurrences(reports[a], b) + Occurrences(reports[b], a)
                        + (IF PendingExit({a, b}) THEN 1 ELSE 0)
                        + (IF StoredLink({a, b}) THEN 1 ELSE 0)
                      <= Occurrences(made, {a, b})
    BY DEF ReportedOnce
  <2> DEFINE e == Between(a, b)
             u == Occurrences(reports[a], b)
             v == Occurrences(reports[b], a)
             x == Cardinality(Exits(stack, e))
             y == Bit(Stored(established_links, e))
             m == Occurrences(made, e)
             P == PendingExit({a, b})
             Q == StoredLink({a, b})
  <2>1. reports[a] \in Seq(Pids) /\ reports[b] \in Seq(Pids) /\ made \in Seq(SUBSET Pids)
    BY DEF Counted
  <2>2. u \in Nat /\ v \in Nat /\ m \in Nat
    BY <2>1, OccurrencesType
  <2>3. IsFiniteSet(Exits(stack, e)) /\ u + v + x + y <= m
    BY DEF Counted, Booked, Reports
  <2>4. x \in Nat /\ (Exits(stack, e) # {} => x # 0)
    <3> DEFINE E == Exits(stack, e)
    <3>1. IsFiniteSet(E)
      BY <2>3
    <3> HIDE DEF E
    <3>2. Cardinality(E) \in Nat /\ (Cardinality(E) = 0 <=> E = {})
      BY <3>1, FS_CardinalityType, FS_EmptySet
    <3> QED BY <3>2 DEF E
  <2>5. P => Exits(stack, e) # {}
    BY PendingExits DEF Between
  <2>6. y \in Nat /\ (Q => y = 1)
    <3>1. Q => Stored(established_links, e)
      BY DEF StoredLink, Stored, Between
    <3> QED BY <3>1, StoredBit
  <2>7. m = Occurrences(made, {a, b})
    BY DEF Between
  <2> HIDE DEF u, v, x, y, m, P, Q
  <2>8. u + v + (IF P THEN 1 ELSE 0) + (IF Q THEN 1 ELSE 0) <= m
    BY <2>2, <2>3, <2>4, <2>5, <2>6
  <2> QED BY <2>7, <2>8 DEF u, v, P, Q
<1> QED BY <1>1, <1>2, <1>3, ListedAlways, PTL DEF Spec
=============================================================================
