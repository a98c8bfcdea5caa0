-------------------------- MODULE AsyncWriteProofs ---------------------------
(***************************************************************************)
(* Proofs about AsyncWrite.  The order, the assert and the lifetime of the *)
(* buffer are proved for the use the class is safe for: every call of      *)
(* trigger_write made by the io_service thread, as in the handshake and    *)
(* for tocks.  Runs show that each of them fails once another thread       *)
(* writes.                                                                 *)
(***************************************************************************)
EXTENDS AsyncWrite, SequenceTheorems, TLAPS

(***************************************************************************)
(* Removing the only outstanding write leaves none.                        *)
(***************************************************************************)
LEMMA RemoveOnly ==
  ASSUME NEW S, NEW x \in S, NEW i \in DOMAIN <<x>>
  PROVE  RemoveAt(<<x>>, i) = <<>> /\ <<x>>[i] = x
<1>1. i = 1
  OBVIOUS
<1>2. SubSeq(<<x>>, 1, 0) = <<>> /\ SubSeq(<<x>>, 2, 1) = <<>>
  BY SubSeqEmpty
<1> QED BY <1>1, <1>2 DEF RemoveAt

(***************************************************************************)
(* Removing any outstanding write leaves a list of messages.               *)
(***************************************************************************)
LEMMA RemoveTyped ==
  ASSUME NEW S, NEW s \in Seq(S), NEW i \in DOMAIN s
  PROVE  RemoveAt(s, i) \in Seq(S) /\ s[i] \in S
<1>1. Len(s) \in Nat /\ i \in 1..Len(s) /\ \A j \in 1..Len(s) : s[j] \in S
  BY LenProperties, ElementOfSeq
<1>2. SubSeq(s, 1, i - 1) \in Seq(S) /\ SubSeq(s, i + 1, Len(s)) \in Seq(S)
  BY <1>1, SubSeqProperties
<1> QED BY <1>1, <1>2, ConcatProperties DEF RemoveAt

(***************************************************************************)
(* A thread between the test and the push carries a message.               *)
(***************************************************************************)
CarriesMessage == \A t \in Threads : pc[t] = "tested" => msg[t] \in Msgs

LEMMA TypeStep ==
  ASSUME TypeOK, CarriesMessage, [Next]_vars
  PROVE  TypeOK' /\ CarriesMessage'
<1> USE DEF TypeOK, CarriesMessage, PC, locals
<1>1. io \in Threads
  BY DEF Threads
<1>2. ASSUME async_write_front PROVE in_flight' \in Seq(Msgs)
  <2>1. PICK m \in (IF write_queue # <<>> THEN {Head(write_queue)}
                                          ELSE ToSet(wire)) :
          in_flight' = Append(in_flight, m)
    BY <1>2 DEF async_write_front
  <2>2. ToSet(wire) \subseteq Msgs
    BY LenProperties, ElementOfSeq DEF ToSet
  <2>3. m \in Msgs
    BY <2>1, <2>2, HeadTailProperties
  <2> QED BY <2>1, <2>3
<1>3. ASSUME NEW t \in Threads, NEW m \in Msgs, trigger_write(t, m)
      PROVE  TypeOK' /\ CarriesMessage'
  BY <1>3 DEF trigger_write
<1>4. ASSUME NEW t \in Threads, push_back(t)
      PROVE  TypeOK' /\ CarriesMessage'
  <2>1. msg[t] \in Msgs
    BY <1>4 DEF push_back
  <2>2. write_queue' \in Seq(Msgs) /\ requested' \in Seq(Msgs)
    BY <1>4, <2>1 DEF push_back
  <2> QED BY <1>4, <2>2 DEF push_back
<1>5. ASSUME NEW t \in Threads, start_write(t)
      PROVE  TypeOK' /\ CarriesMessage'
  BY <1>2, <1>5 DEF start_write
<1>6. ASSUME NEW i \in DOMAIN in_flight, write_done(i)
      PROVE  TypeOK' /\ CarriesMessage'
  <2>1. in_flight' \in Seq(Msgs) /\ wire' \in Seq(Msgs)
    BY <1>6, RemoveTyped DEF write_done
  <2> QED BY <1>6, <2>1 DEF write_done
<1>7. ASSUME NEW i \in DOMAIN in_flight, write_error(i)
      PROVE  TypeOK' /\ CarriesMessage'
  <2>1. in_flight' \in Seq(Msgs)
    BY <1>7, RemoveTyped DEF write_error
  <2> QED BY <1>7, <2>1 DEF write_error
<1>8. CASE checked_write_error
  BY <1>8 DEF checked_write_error
<1>9. CASE checked_write_pop
  <2>1. write_queue' \in Seq(Msgs)
    BY <1>9, HeadTailProperties DEF checked_write_pop
  <2> QED BY <1>1, <1>9, <2>1 DEF checked_write_pop
<1>10. CASE checked_write_next
  <2>1. in_flight' \in Seq(Msgs)
    BY <1>2, <1>10 DEF checked_write_next
  <2> QED BY <1>1, <1>10, <2>1 DEF checked_write_next
<1>11. CASE UNCHANGED vars
  BY <1>11 DEF vars
<1> QED BY <1>3, <1>4, <1>5, <1>6, <1>7, <1>8, <1>9, <1>10, <1>11 DEF Next

LEMMA TypeInit == Init => TypeOK /\ CarriesMessage
<1> SUFFICES ASSUME Init PROVE TypeOK /\ CarriesMessage
  OBVIOUS
<1>1. /\ write_queue \in Seq(Msgs) /\ in_flight \in Seq(Msgs)
      /\ requested \in Seq(Msgs) /\ wire \in Seq(Msgs)
  BY DEF Init
<1>2. /\ pc \in [Threads -> PC]
      /\ write_in_progress \in [Threads -> BOOLEAN]
      /\ msg \in [Threads -> Msgs \cup {NoMsg}]
      /\ completed \in Nat /\ failed \in Nat /\ broken \in BOOLEAN
  BY DEF Init, PC
<1>3. CarriesMessage
  BY DEF Init, CarriesMessage
<1> QED BY <1>1, <1>2, <1>3 DEF TypeOK

(***************************************************************************)
(* The write queue's state is well-typed in every reachable state.         *)
(***************************************************************************)
THEOREM TypeCorrect == Spec => []TypeOK
<1>1. TypeOK /\ CarriesMessage /\ [Next]_vars => TypeOK' /\ CarriesMessage'
  BY TypeStep
<1> QED BY <1>1, TypeInit, PTL DEF Spec

-----------------------------------------------------------------------------
(***************************************************************************)
(* The io thread alone.  Either nothing is under way, or exactly one of:   *)
(* the front is being written, its handler is queued with success, its     *)
(* handler is queued with an error, or the error has been reported.        *)
(***************************************************************************)
Quiet == in_flight = <<>> /\ completed = 0 /\ failed = 0 /\ ~broken

FrontUnderWay ==
  /\ write_queue # <<>>
  /\ \/ in_flight = <<Head(write_queue)>> /\ completed = 0 /\ failed = 0
          /\ ~broken
     \/ in_flight = <<>> /\ completed = 1 /\ failed = 0 /\ ~broken
     \/ in_flight = <<>> /\ completed = 0 /\ failed = 1 /\ ~broken
     \/ in_flight = <<>> /\ completed = 0 /\ failed = 0 /\ broken

Phase ==
  /\ pc[io] \in {"idle", "tested"} =>
       IF write_queue = <<>> THEN Quiet ELSE FrontUnderWay
  /\ pc[io] = "tested" => write_in_progress[io] = (write_queue # <<>>)
  /\ pc[io] = "pushed" => Quiet /\ write_queue # <<>>
  /\ pc[io] = "popped" => Quiet

(***************************************************************************)
(* The queue is the last part of what was requested, and what was written  *)
(* is the part before it, with the front as well when its handler is       *)
(* queued.                                                                 *)
(***************************************************************************)
Order ==
  /\ Len(write_queue) <= Len(requested)
  /\ \A i \in 1..Len(write_queue) :
       write_queue[i] = requested[Len(requested) - Len(write_queue) + i]
  /\ Len(wire) = Len(requested) - Len(write_queue) + completed
  /\ \A i \in 1..Len(wire) : wire[i] = requested[i]

LEMMA IoStep ==
  ASSUME Writers = {io}, TypeOK, CarriesMessage, Phase, Order, [Next]_vars
  PROVE  Phase' /\ Order'
<1> USE DEF TypeOK, locals
<1>0. /\ Threads = {io}
      /\ Len(write_queue) \in Nat /\ Len(requested) \in Nat
      /\ Len(wire) \in Nat
  BY LenProperties DEF Threads
<1>1. ASSUME NEW t \in Threads, NEW m \in Msgs, trigger_write(t, m)
      PROVE  Phase' /\ Order'
  <2>1. t = io /\ pc[io] = "idle" /\ pc'[io] = "tested"
          /\ write_in_progress'[io] = (write_queue # <<>>)
    BY <1>0, <1>1 DEF trigger_write
  <2>2. UNCHANGED <<write_queue, in_flight, completed, failed, broken,
                    requested, wire>>
    BY <1>1 DEF trigger_write
  <2> QED BY <2>1, <2>2 DEF Phase, Order, Quiet, FrontUnderWay
<1>2. ASSUME NEW t \in Threads, push_back(t) PROVE Phase' /\ Order'
  <2>1. t = io /\ pc[io] = "tested" /\ msg[io] \in Msgs
    BY <1>0, <1>2 DEF push_back, CarriesMessage
  <2>2. /\ write_queue' = Append(write_queue, msg[io])
        /\ requested' = Append(requested, msg[io])
        /\ UNCHANGED <<in_flight, completed, failed, broken, wire>>
    BY <1>2, <2>1 DEF push_back
  <2>3. /\ write_queue' # <<>>
        /\ write_queue # <<>> => Head(write_queue') = Head(write_queue)
    BY <2>1, <2>2, LenProperties
  <2>4. Phase'
    <3>1. CASE write_queue = <<>>
      <4>1. pc'[io] = "pushed" /\ Quiet
        BY <1>2, <2>1, <3>1 DEF push_back, Phase
      <4> QED BY <2>2, <2>3, <4>1 DEF Phase, Quiet
    <3>2. CASE write_queue # <<>>
      <4>1. pc'[io] = "idle" /\ FrontUnderWay
        BY <1>2, <2>1, <3>2 DEF push_back, Phase
      <4> QED BY <2>2, <2>3, <3>2, <4>1 DEF Phase, FrontUnderWay
    <3> QED BY <3>1, <3>2
  <2>5. Order'
    <3>1. /\ Len(write_queue') = Len(write_queue) + 1
          /\ Len(requested') = Len(requested) + 1
          /\ \A i \in 1..Len(write_queue) : write_queue'[i] = write_queue[i]
          /\ \A i \in 1..Len(requested) : requested'[i] = requested[i]
          /\ write_queue'[Len(write_queue) + 1] = msg[io]
          /\ requested'[Len(requested) + 1] = msg[io]
      BY <2>1, <2>2
    <3>2. completed <= 1 /\ (completed = 1 => write_queue # <<>>)
      BY <2>1 DEF Phase, Quiet, FrontUnderWay
    <3>3. Len(wire) <= Len(requested)
      BY <1>0, <3>2, EmptySeq DEF Order
    <3>4. ASSUME NEW i \in 1..Len(write_queue')
          PROVE  write_queue'[i]
                   = requested'[Len(requested') - Len(write_queue') + i]
      <4>1. Len(requested') - Len(write_queue') + i
              = Len(requested) - Len(write_queue) + i
        BY <1>0, <3>1
      <4>2. CASE i = Len(write_queue) + 1
        <5>1. Len(requested) - Len(write_queue) + i = Len(requested) + 1
          BY <1>0, <4>2
        <5> QED BY <3>1, <4>1, <4>2, <5>1
      <4>3. CASE i \in 1..Len(write_queue)
        <5>1. Len(requested) - Len(write_queue) + i \in 1..Len(requested)
          BY <1>0, <4>3 DEF Order
        <5> QED BY <3>1, <4>1, <4>3, <5>1 DEF Order
      <4> QED BY <1>0, <3>1, <4>2, <4>3
    <3>5. ASSUME NEW i \in 1..Len(wire') PROVE wire'[i] = requested'[i]
      <4>1. i \in 1..Len(wire) /\ i \in 1..Len(requested)
              /\ wire'[i] = wire[i]
        BY <1>0, <2>2, <3>3
      <4> QED BY <3>1, <4>1 DEF Order
    <3>6. Len(write_queue') <= Len(requested')
            /\ Len(wire') = Len(requested') - Len(write_queue') + completed'
      <4>1. Len(wire) = Len(requested) - Len(write_queue) + completed
              /\ Len(write_queue) <= Len(requested)
        BY DEF Order
      <4>2. Len(wire') = Len(wire) /\ completed' = completed
        BY <2>2
      <4> QED BY <1>0, <3>1, <4>1, <4>2
    <3> QED BY <3>4, <3>5, <3>6 DEF Order
  <2> QED BY <2>4, <2>5
<1>3. ASSUME NEW t \in Threads, start_write(t) PROVE Phase' /\ Order'
  <2>1. t = io /\ pc[io] = "pushed" /\ pc'[io] = "idle"
    BY <1>0, <1>3 DEF start_write
  <2>2. Quiet /\ write_queue # <<>>
    BY <2>1 DEF Phase
  <2>3. in_flight' = <<Head(write_queue)>>
    BY <1>3, <2>2 DEF start_write, async_write_front, Quiet
  <2>4. UNCHANGED <<write_queue, completed, failed, broken, requested, wire>>
    BY <1>3 DEF start_write
  <2> QED BY <2>1, <2>2, <2>3, <2>4 DEF Phase, Order, Quiet, FrontUnderWay
<1>4. ASSUME NEW i \in DOMAIN in_flight, write_done(i) \/ write_error(i)
      PROVE  /\ in_flight = <<Head(write_queue)>> /\ write_queue # <<>>
             /\ in_flight' = <<>> /\ in_flight[i] = Head(write_queue)
             /\ completed = 0 /\ failed = 0 /\ ~broken
             /\ pc[io] \in {"idle", "tested"}
             /\ UNCHANGED <<write_queue, pc, write_in_progress, broken,
                            requested>>
  <2>1. in_flight # <<>>
    BY <1>4
  <2>2. ~Quiet /\ pc[io] \in {"idle", "tested"}
    BY <1>0, <2>1 DEF Quiet, Phase, PC
  <2>3. /\ in_flight = <<Head(write_queue)>> /\ write_queue # <<>>
        /\ completed = 0 /\ failed = 0 /\ ~broken
    BY <2>1, <2>2 DEF Phase, FrontUnderWay
  <2>4. Head(write_queue) \in Msgs
    BY <2>3, HeadTailProperties
  <2>5. RemoveAt(in_flight, i) = <<>> /\ in_flight[i] = Head(write_queue)
    BY <2>3, <2>4, RemoveOnly
  <2> QED BY <1>4, <2>2, <2>3, <2>5 DEF write_done, write_error
<1>5. ASSUME NEW i \in DOMAIN in_flight, write_done(i) PROVE Phase' /\ Order'
  <2>1. completed' = 1 /\ failed' = 0 /\ UNCHANGED failed
    BY <1>4, <1>5 DEF write_done
  <2>2. Phase'
    BY <1>4, <1>5, <2>1 DEF Phase, FrontUnderWay
  <2>3. Head(write_queue) \in Msgs /\ Head(write_queue) = write_queue[1]
          /\ Len(write_queue) >= 1
    BY <1>4, <1>5, HeadTailProperties, EmptySeq
  <2>4. wire' = Append(wire, Head(write_queue))
    BY <1>4, <1>5 DEF write_done
  <2>5. /\ Len(wire') = Len(wire) + 1
        /\ \A j \in 1..Len(wire) : wire'[j] = wire[j]
        /\ wire'[Len(wire) + 1] = Head(write_queue)
    BY <2>3, <2>4
  <2>6. Len(wire) = Len(requested) - Len(write_queue)
    BY <1>0, <1>4, <1>5 DEF Order
  <2>7. Head(write_queue) = requested[Len(wire) + 1]
    BY <1>0, <2>3, <2>6 DEF Order
  <2>8. Order'
    <3>1. UNCHANGED <<write_queue, requested>>
      BY <1>4, <1>5
    <3>2. Len(wire') = Len(requested) - Len(write_queue) + completed'
      BY <1>0, <2>1, <2>5, <2>6
    <3>3. ASSUME NEW j \in 1..Len(wire') PROVE wire'[j] = requested[j]
      <4>1. CASE j = Len(wire) + 1
        BY <2>5, <2>7, <4>1
      <4>2. CASE j \in 1..Len(wire)
        BY <2>5, <4>2 DEF Order
      <4> QED BY <1>0, <2>5, <4>1, <4>2
    <3> QED BY <3>1, <3>2, <3>3 DEF Order
  <2> QED BY <2>2, <2>8
<1>6. ASSUME NEW i \in DOMAIN in_flight, write_error(i) PROVE Phase' /\ Order'
  <2>1. failed' = 1 /\ completed' = 0 /\ UNCHANGED <<completed, wire>>
    BY <1>4, <1>6 DEF write_error
  <2>2. UNCHANGED <<write_queue, requested, pc, write_in_progress>>
    BY <1>4, <1>6
  <2>3. FrontUnderWay'
    BY <1>4, <1>6, <2>1, <2>2 DEF FrontUnderWay
  <2>4. Phase'
    BY <1>4, <1>6, <2>2, <2>3 DEF Phase
  <2>5. Order'
    BY <2>1, <2>2 DEF Order
  <2> QED BY <2>4, <2>5
<1>7. CASE checked_write_error
  <2>1. write_queue # <<>> /\ FrontUnderWay
    BY <1>7 DEF checked_write_error, Phase, Quiet
  <2> QED BY <1>7, <2>1
          DEF checked_write_error, Phase, Order, FrontUnderWay
<1>8. CASE checked_write_pop
  <2>1. FrontUnderWay /\ pc'[io] = "popped"
    BY <1>0, <1>8 DEF checked_write_pop, Phase, Quiet
  <2>2. Quiet'
    BY <1>8, <2>1 DEF checked_write_pop, Quiet, FrontUnderWay
  <2>3. completed = 1 /\ completed' = 0
    BY <1>8, <2>1 DEF checked_write_pop, FrontUnderWay
  <2>4. /\ Len(write_queue) >= 1
        /\ Len(write_queue') = Len(write_queue) - 1
        /\ \A j \in 1..Len(write_queue') : write_queue'[j] = write_queue[j + 1]
    BY <1>8, HeadTailProperties, EmptySeq DEF checked_write_pop
  <2>5. Order'
    BY <1>0, <1>8, <2>3, <2>4, SMTT(20) DEF checked_write_pop, Order
  <2> QED BY <2>1, <2>2, <2>5 DEF Phase
<1>9. CASE checked_write_next
  <2>1. Quiet /\ pc'[io] = "idle"
    BY <1>0, <1>9 DEF checked_write_next, Phase
  <2>2. UNCHANGED <<write_queue, completed, failed, broken, requested, wire>>
    BY <1>9 DEF checked_write_next
  <2>3. in_flight' = IF write_queue = <<>> THEN <<>>
                                           ELSE <<Head(write_queue)>>
    BY <1>9, <2>1 DEF checked_write_next, async_write_front, Quiet
  <2> QED BY <2>1, <2>2, <2>3 DEF Phase, Order, Quiet, FrontUnderWay
<1>10. CASE UNCHANGED vars
  BY <1>10 DEF vars, Phase, Order, Quiet, FrontUnderWay
<1> QED BY <1>1, <1>2, <1>3, <1>5, <1>6, <1>7, <1>8, <1>9, <1>10 DEF Next

LEMMA IoInvariant ==
  ASSUME Writers = {io}
  PROVE  Spec => [](TypeOK /\ Phase /\ Order)
<1>1. Init => Phase /\ Order
  BY DEF Init, Phase, Order, Quiet, Threads
<1>2. TypeOK /\ CarriesMessage /\ Phase /\ Order /\ [Next]_vars
        => TypeOK' /\ CarriesMessage' /\ Phase' /\ Order'
  BY TypeStep, IoStep
<1> QED BY <1>1, <1>2, TypeInit, PTL DEF Spec

(***************************************************************************)
(* Written by one thread, the messages reach the wire once each and in the *)
(* order they were queued.                                                 *)
(***************************************************************************)
THEOREM IoWireOrder ==
  ASSUME Writers = {io}
  PROVE  Spec => []WireOrder
<1>1. TypeOK /\ Phase /\ Order => WireOrder
  <2> SUFFICES ASSUME TypeOK, Phase, Order PROVE WireOrder
    OBVIOUS
  <2>1. /\ Len(write_queue) \in Nat /\ Len(requested) \in Nat
        /\ (write_queue # <<>> => Len(write_queue) >= 1)
    BY LenProperties, EmptySeq DEF TypeOK
  <2>2. completed <= 1 /\ (completed = 1 => write_queue # <<>>)
    BY DEF TypeOK, PC, Threads, Phase, Quiet, FrontUnderWay
  <2> QED BY <2>1, <2>2 DEF TypeOK, Order, WireOrder
<1> QED BY <1>1, IoInvariant, PTL

(***************************************************************************)
(* Written by one thread, the queue is never empty when checked_write runs *)
(* its assert.                                                             *)
(***************************************************************************)
THEOREM IoAssertHolds ==
  ASSUME Writers = {io}
  PROVE  Spec => []CompletionHasMessage
<1>1. TypeOK /\ Phase => CompletionHasMessage
  BY DEF TypeOK, Phase, Quiet, CompletionHasMessage
<1> QED BY <1>1, IoInvariant, PTL

(***************************************************************************)
(* Written by one thread, at most one write is outstanding and its buffer, *)
(* the front of the queue, is in place until it is done.                   *)
(***************************************************************************)
THEOREM IoBufferAlive ==
  ASSUME Writers = {io}
  PROVE  Spec => []BufferAlive
<1>1. TypeOK /\ Phase => BufferAlive
  <2> SUFFICES ASSUME TypeOK, Phase PROVE BufferAlive
    OBVIOUS
  <2>1. \/ in_flight = <<>>
        \/ write_queue # <<>> /\ in_flight = <<Head(write_queue)>>
    BY DEF TypeOK, PC, Threads, Phase, Quiet, FrontUnderWay
  <2>2. CASE in_flight = <<>>
    BY <2>2 DEF BufferAlive
  <2>3. CASE write_queue # <<>> /\ in_flight = <<Head(write_queue)>>
    <3>1. Len(in_flight) = 1 /\ DOMAIN in_flight = {1}
            /\ in_flight[1] = Head(write_queue)
      BY <2>3
    <3> QED BY <2>3, <3>1 DEF BufferAlive
  <2> QED BY <2>1, <2>2, <2>3
<1> QED BY <1>1, IoInvariant, PTL
=============================================================================
