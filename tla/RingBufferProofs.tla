-------------------------- MODULE RingBufferProofs --------------------------
(***************************************************************************)
(* Proofs about RingBuffer, for every capacity and every number of frames. *)
(***************************************************************************)
EXTENDS RingBuffer, SequenceTheorems, TLAPS

-----------------------------------------------------------------------------
(* Arithmetic of the slot index.                                           *)

(* Multiplication distributes over a difference: the solver is given it.    *)
LEMMA Distributes ==
  ASSUME NEW c \in Int, NEW a \in Int, NEW b \in Int
  PROVE  c * (b - a) = c * b - c * a
BY SMT

(* Indices less than Capacity apart live in different slots: the ring      *)
(* never folds two unread frames onto one slot.                            *)
LEMMA SlotsDistinct ==
  ASSUME NEW i \in Nat, NEW j \in Nat, i < j, j - i < Capacity
  PROVE  SlotOf(i) # SlotOf(j)
<1> DEFINE qi == i \div Capacity
           qj == j \div Capacity
<1>0. Capacity \in Nat /\ Capacity > 0
  BY RingAssumption
<1>1. /\ qi \in Nat /\ qj \in Nat
      /\ i = Capacity * qi + SlotOf(i)
      /\ j = Capacity * qj + SlotOf(j)
  BY <1>0 DEF SlotOf
<1>2. SUFFICES ASSUME SlotOf(i) = SlotOf(j) PROVE FALSE
  OBVIOUS
<1> HIDE DEF qi, qj
<1>3. j - i = Capacity * (qj - qi)
  <2>1. Capacity * (qj - qi) = Capacity * qj - Capacity * qi
    BY <1>0, <1>1, Distributes
  <2>2. /\ Capacity * qj \in Int /\ Capacity * qi \in Int
        /\ SlotOf(i) \in Int
    BY <1>0, <1>1 DEF SlotOf
  <2>3. QED BY <2>1, <2>2, <1>1, <1>2
<1>4. CASE qj - qi <= 0
  <2>1. Capacity * (qj - qi) <= 0
    BY <1>0, <1>1, <1>4, SMT
  <2>2. QED BY <2>1, <1>3
<1>5. CASE qj - qi >= 1
  <2>1. Capacity * (qj - qi) >= Capacity
    BY <1>0, <1>1, <1>5, SMT
  <2>2. QED BY <2>1, <1>3, <1>0
<1>6. QED BY <1>1, <1>4, <1>5

(* The slot index is always inside the ring. *)
LEMMA SlotInRing ==
  ASSUME NEW i \in Nat
  PROVE  SlotOf(i) \in 0..(Capacity - 1)
BY RingAssumption DEF SlotOf

(* Unsigned subtraction is plain subtraction as long as it does not wrap.  *)
LEMMA SizeExact ==
  ASSUME head \in Nat, tail \in Nat, tail <= head, head - tail <= Capacity
  PROVE  Size = head - tail
BY RingAssumption DEF Size

-----------------------------------------------------------------------------
(* Type correctness.                                                       *)

Writing == ppc # "idle" => offered >= 1

(* reserve() leaves every field in its type and no write begun. *)
LEMMA TypeInit == Init => TypeOK /\ Writing
BY RingAssumption DEF Init, TypeOK, Writing, Content, FrameNo, Torn, Blank

(* Every access of either thread keeps the types, and the frame of a write  *)
(* in progress is one of those offered.                                     *)
LEMMA TypeNext == TypeOK /\ Writing /\ [Next]_vars => TypeOK' /\ Writing'
<1> SUFFICES ASSUME TypeOK, Writing, [Next]_vars
             PROVE  TypeOK' /\ Writing'
  OBVIOUS
<1> USE RingAssumption, SlotInRing
    DEF TypeOK, Writing, Content, FrameNo, Torn, Blank,
        indexVars, producerVars, consumerVars
<1>1. CASE AcquireWriteRoom
  BY <1>1 DEF AcquireWriteRoom
<1>2. CASE AcquireWriteRefused
  BY <1>2 DEF AcquireWriteRefused
<1>3. CASE AcquireWriteFull
  BY <1>3 DEF AcquireWriteFull
<1>4. CASE DropOldest
  BY <1>4 DEF DropOldest
<1>5. CASE BeginFill
  BY <1>5 DEF BeginFill
<1>6. CASE EndFill
  <2>1. offered \in Content
    BY <1>6 DEF EndFill
  <2>2. slots' \in [0..(Capacity - 1) -> Content]
    BY <2>1, <1>6 DEF EndFill
  <2>3. QED
    BY <2>2, <1>6 DEF EndFill
<1>7. CASE CommitWrite
  <2>1. offered \in FrameNo
    BY <1>7 DEF CommitWrite
  <2>2. accepted' \in Seq(FrameNo)
    BY <2>1, <1>7 DEF CommitWrite
  <2>3. QED
    BY <2>2, <1>7 DEF CommitWrite
<1>8. CASE LoadTail
  BY <1>8 DEF LoadTail
<1>9. CASE AcquireReadEmpty
  BY <1>9 DEF AcquireReadEmpty
<1>10. CASE AcquireReadSlot
  BY <1>10 DEF AcquireReadSlot
<1>11. CASE EndUse
  BY <1>11 DEF EndUse
<1>12. CASE CommitRead
  <2>1. delivered' \in Seq(Content)
    BY <1>12 DEF CommitRead
  <2>2. QED
    BY <2>1, <1>12 DEF CommitRead
<1>13. CASE UNCHANGED vars
  BY <1>13 DEF vars
<1>14. QED
  BY <1>1, <1>2, <1>3, <1>4, <1>5, <1>6, <1>7, <1>8, <1>9, <1>10, <1>11,
     <1>12, <1>13 DEF Next, Producer, Consumer

(* Under either policy every variable keeps its type: no index leaves the  *)
(* naturals and no slot holds anything but a frame, a torn one or a blank. *)
THEOREM RingTypeOK == Spec => []TypeOK
<1>1. Spec => [](TypeOK /\ Writing)
  BY TypeInit, TypeNext, PTL DEF Spec
<1>2. QED
  BY <1>1, PTL

-----------------------------------------------------------------------------
(* Room: under either policy the gap head - tail stays within the ring, and*)
(* is strictly within it from acquireWrite to commitWrite.                 *)

Room ==
  /\ head - tail <= Capacity
  /\ ProducerHolds => head - tail < Capacity

(* acquireWrite's test, or its drop, leaves a slot free until commitWrite.  *)
LEMMA RoomNext == TypeOK /\ Room /\ [Next]_vars => Room'
<1> SUFFICES ASSUME TypeOK, Room, [Next]_vars
             PROVE  Room'
  OBVIOUS
<1> USE RingAssumption
    DEF TypeOK, Room, ProducerHolds, indexVars, producerVars, consumerVars
<1>1. CASE AcquireWriteRoom
  <2>1. ~(head - tail >= Capacity)
    <3>1. CASE tail <= head
      BY <1>1, <3>1, SizeExact DEF AcquireWriteRoom, Full
    <3>2. CASE head < tail
      BY <3>2
    <3>3. QED BY <3>1, <3>2
  <2>2. QED
    BY <2>1, <1>1 DEF AcquireWriteRoom
<1>2. CASE AcquireWriteRefused
  BY <1>2 DEF AcquireWriteRefused
<1>3. CASE AcquireWriteFull
  BY <1>3 DEF AcquireWriteFull
<1>4. CASE DropOldest
  BY <1>4 DEF DropOldest
<1>5. CASE BeginFill
  BY <1>5 DEF BeginFill
<1>6. CASE EndFill
  BY <1>6 DEF EndFill
<1>7. CASE CommitWrite
  BY <1>7 DEF CommitWrite
<1>8. CASE CommitRead
  BY <1>8 DEF CommitRead
<1>9. CASE LoadTail \/ AcquireReadEmpty \/ AcquireReadSlot \/ EndUse
  BY <1>9 DEF LoadTail, AcquireReadEmpty, AcquireReadSlot, EndUse
<1>10. CASE UNCHANGED vars
  BY <1>10 DEF vars
<1>11. QED
  BY <1>1, <1>2, <1>3, <1>4, <1>5, <1>6, <1>7, <1>8, <1>9, <1>10
     DEF Next, Producer, Consumer

(* So the producer has a free slot at head_ in every reachable state.      *)
LEMMA RoomInvariant == Spec => []Room
<1>1. Init => Room
  BY RingAssumption DEF Init, Room, ProducerHolds
<1>2. QED
  BY <1>1, RoomNext, RingTypeOK, PTL DEF Spec

(* Under either policy the producer fills a slot that no longer counts as  *)
(* unread: drop-oldest gives the slot up before the caller writes into it. *)
THEOREM RingFillTakesFreeSlot == Spec => []FillTakesFreeSlot
<1>1. TypeOK /\ Room => FillTakesFreeSlot
  <2> SUFFICES ASSUME TypeOK, Room, ProducerHolds, NEW i \in tail..(head - 1)
               PROVE  SlotOf(i) # SlotOf(head)
    BY DEF FillTakesFreeSlot
  <2>1. i \in Nat /\ head \in Nat /\ i < head /\ head - i < Capacity
    BY RingAssumption DEF TypeOK, Room
  <2>2. QED
    BY <2>1, SlotsDistinct
<1>2. QED
  BY <1>1, RoomInvariant, RingTypeOK, PTL

-----------------------------------------------------------------------------
(* Accounting.                                                             *)

DropsByPolicy == ppc = "drop" => policy = "kDropOldest"

(* Every step counts what it takes out of the ring or keeps from it.       *)
LEMMA AccountingNext ==
  TypeOK /\ DropsByPolicy /\ Accounting /\ [Next]_vars
    => DropsByPolicy' /\ Accounting'
<1> SUFFICES ASSUME TypeOK, DropsByPolicy, Accounting, [Next]_vars
             PROVE  DropsByPolicy' /\ Accounting'
  OBVIOUS
<1> USE RingAssumption
    DEF TypeOK, DropsByPolicy, Accounting, indexVars, producerVars, consumerVars
<1>1. CASE AcquireWriteRoom
  BY <1>1 DEF AcquireWriteRoom
<1>2. CASE AcquireWriteRefused
  BY <1>2 DEF AcquireWriteRefused
<1>3. CASE AcquireWriteFull
  BY <1>3 DEF AcquireWriteFull
<1>4. CASE DropOldest
  BY <1>4 DEF DropOldest
<1>5. CASE BeginFill \/ EndFill
  BY <1>5 DEF BeginFill, EndFill
<1>6. CASE CommitWrite
  BY <1>6 DEF CommitWrite
<1>7. CASE CommitRead
  <2>1. Len(delivered') = Len(delivered) + 1
    BY <1>7 DEF CommitRead
  <2>2. QED
    BY <2>1, <1>7 DEF CommitRead
<1>8. CASE LoadTail \/ AcquireReadEmpty \/ AcquireReadSlot \/ EndUse
  BY <1>8 DEF LoadTail, AcquireReadEmpty, AcquireReadSlot, EndUse
<1>9. CASE UNCHANGED vars
  BY <1>9 DEF vars
<1>10. QED
  BY <1>1, <1>2, <1>3, <1>4, <1>5, <1>6, <1>7, <1>8, <1>9
     DEF Next, Producer, Consumer

(* No frame and no slot leaves the ring uncounted: dropCount_ explains     *)
(* exactly the frames refused, or the steps of tail_ no reader made.       *)
THEOREM RingAccounting == Spec => []Accounting
<1>1. Init => DropsByPolicy /\ Accounting
  BY RingAssumption DEF Init, DropsByPolicy, Accounting
<1>2. QED
  BY <1>1, AccountingNext, RingTypeOK, PTL DEF Spec

-----------------------------------------------------------------------------
(* kDropNewest: the ring is a FIFO queue.                                  *)

(* The inductive invariant: only the consumer moves tail_, so the tail it  *)
(* loaded stays current; the unread slots hold the accepted frames in      *)
(* order; and what was delivered is a prefix of what was accepted.         *)
FifoIndices ==
  /\ ppc # "drop"
  /\ tail <= head
  /\ cpc # "idle" => cTail = tail
  /\ ConsumerHolds => tail < head

FifoContent ==
  /\ Len(accepted) = head
  /\ \A i \in tail..(head - 1) : slots[SlotOf(i)] = accepted[i + 1]
  /\ ppc = "commit" => slots[SlotOf(head)] = offered
  /\ ConsumerHolds => seen = accepted[tail + 1]

FifoHistory ==
  /\ Len(delivered) = tail
  /\ \A i \in 1..tail : delivered[i] = accepted[i]
  /\ \A i \in 1..Len(accepted) :
       accepted[i] <= offered /\ (ppc # "idle" => accepted[i] < offered)

FifoInv == policy = "kDropNewest" => FifoIndices /\ FifoContent /\ FifoHistory

(* Under kDropNewest only commitRead moves tail_, and only below head_.     *)
LEMMA FifoIndicesNext ==
  ASSUME policy = "kDropNewest", TypeOK, Room, FifoIndices, [Next]_vars
  PROVE  FifoIndices'
<1> USE RingAssumption
    DEF TypeOK, FifoIndices, ConsumerHolds, indexVars, producerVars, consumerVars
<1>1. CASE Producer
  BY <1>1 DEF Producer, AcquireWriteRoom, AcquireWriteRefused, AcquireWriteFull,
              DropOldest, BeginFill, EndFill, CommitWrite
<1>2. CASE Consumer
  BY <1>2 DEF Consumer, LoadTail, AcquireReadEmpty, AcquireReadSlot, EndUse, CommitRead
<1>3. CASE UNCHANGED vars
  BY <1>3 DEF vars
<1>4. QED
  BY <1>1, <1>2, <1>3 DEF Next

(* Under kDropNewest an unread slot keeps the frame committed to it.        *)
LEMMA FifoContentNext ==
  ASSUME policy = "kDropNewest", TypeOK, Room, FifoIndices, FifoContent, [Next]_vars
  PROVE  FifoContent'
<1> USE RingAssumption
    DEF TypeOK, FifoIndices, FifoContent, ConsumerHolds, ProducerHolds,
        indexVars, producerVars, consumerVars
<1>1. CASE AcquireWriteRoom \/ AcquireWriteRefused \/ AcquireWriteFull
  BY <1>1 DEF AcquireWriteRoom, AcquireWriteRefused, AcquireWriteFull
<1>2. CASE DropOldest
  BY <1>2 DEF DropOldest
<1>3. ASSUME NEW value, slots' = [slots EXCEPT ![SlotOf(head)] = value],
             ProducerHolds, head' = head, tail' = tail
      PROVE  \A i \in tail..(head - 1) : slots'[SlotOf(i)] = slots[SlotOf(i)]
  <2>1. ASSUME NEW i \in tail..(head - 1)
        PROVE  SlotOf(i) # SlotOf(head)
    <3>1. i \in Nat /\ head \in Nat /\ i < head /\ head - i < Capacity
      BY <1>3, <2>1 DEF Room
    <3>2. QED BY <3>1, SlotsDistinct
  <2>2. QED
    BY <1>3, <2>1
<1>4. CASE BeginFill
  BY <1>3, <1>4 DEF BeginFill
<1>5. CASE EndFill
  <2>1. slots'[SlotOf(head)] = offered
    BY <1>5, SlotInRing DEF EndFill
  <2>2. QED
    BY <1>3, <1>5, <2>1 DEF EndFill
<1>6. CASE CommitWrite
  <2>1. /\ Len(accepted') = head + 1
        /\ accepted'[head + 1] = offered
        /\ \A i \in 1..head : accepted'[i] = accepted[i]
    BY <1>6 DEF CommitWrite
  <2>2. QED
    BY <2>1, <1>6 DEF CommitWrite
<1>7. CASE LoadTail \/ AcquireReadEmpty
  BY <1>7 DEF LoadTail, AcquireReadEmpty
<1>8. CASE AcquireReadSlot
  BY <1>8 DEF AcquireReadSlot, Empty
<1>9. CASE EndUse
  BY <1>9 DEF EndUse
<1>10. CASE CommitRead
  BY <1>10 DEF CommitRead
<1>11. CASE UNCHANGED vars
  BY <1>11 DEF vars
<1>12. QED
  BY <1>1, <1>2, <1>4, <1>5, <1>6, <1>7, <1>8, <1>9, <1>10, <1>11
     DEF Next, Producer, Consumer

(* Under kDropNewest what was read is a prefix of what was committed.       *)
LEMMA FifoHistoryNext ==
  ASSUME policy = "kDropNewest", TypeOK, FifoIndices, FifoContent, FifoHistory,
         [Next]_vars
  PROVE  FifoHistory'
<1> USE RingAssumption
    DEF TypeOK, FifoIndices, FifoContent, FifoHistory, ConsumerHolds, FrameNo,
        indexVars, producerVars, consumerVars
<1>1. CASE AcquireWriteRoom \/ AcquireWriteRefused \/ AcquireWriteFull
  BY <1>1 DEF AcquireWriteRoom, AcquireWriteRefused, AcquireWriteFull
<1>2. CASE DropOldest \/ BeginFill \/ EndFill
  BY <1>2 DEF DropOldest, BeginFill, EndFill
<1>3. CASE CommitWrite
  <2>1. /\ Len(accepted') = head + 1
        /\ accepted'[head + 1] = offered
        /\ \A i \in 1..head : accepted'[i] = accepted[i]
    BY <1>3 DEF CommitWrite
  <2>2. QED
    BY <2>1, <1>3 DEF CommitWrite
<1>4. CASE LoadTail \/ AcquireReadEmpty \/ AcquireReadSlot \/ EndUse
  BY <1>4 DEF LoadTail, AcquireReadEmpty, AcquireReadSlot, EndUse
<1>5. CASE CommitRead
  <2>1. /\ Len(delivered') = tail + 1
        /\ delivered'[tail + 1] = seen
        /\ \A i \in 1..tail : delivered'[i] = delivered[i]
    <3>1. /\ delivered \in Seq(Content) /\ seen \in Content /\ Len(delivered) = tail
          /\ delivered' = Append(delivered, seen)
      BY <1>5 DEF CommitRead
    <3>2. QED BY ONLY <3>1, AppendProperties
  <2>2. seen = accepted[tail + 1]
    BY <1>5 DEF CommitRead
  <2>3. ASSUME NEW i \in 1..(tail + 1)
        PROVE  delivered'[i] = accepted[i]
    <3>1. CASE i = tail + 1
      BY <3>1, <2>1, <2>2
    <3>2. CASE i # tail + 1
      BY <3>2, <2>1
    <3>3. QED BY <3>1, <3>2
  <2>4. QED
    BY <2>1, <2>3, <1>5 DEF CommitRead
<1>6. CASE UNCHANGED vars
  BY <1>6 DEF vars
<1>7. QED
  BY <1>1, <1>2, <1>3, <1>4, <1>5, <1>6 DEF Next, Producer, Consumer

(* Nothing changes the policy of a ring. *)
LEMMA PolicyFixed == [Next]_vars => policy' = policy
BY DEF Next, Producer, AcquireWriteRoom, AcquireWriteRefused, AcquireWriteFull, DropOldest,
       BeginFill, EndFill, CommitWrite, Consumer, LoadTail, AcquireReadEmpty, AcquireReadSlot,
       EndUse, CommitRead, vars

(* The parts of the kDropNewest invariant hold together in every state.    *)
LEMMA FifoInvariant == Spec => []FifoInv
<1>1. Init => FifoInv
  BY RingAssumption
     DEF Init, FifoInv, FifoIndices, FifoContent, FifoHistory, ConsumerHolds
<1>2. TypeOK /\ Room /\ FifoInv /\ [Next]_vars => FifoInv'
  BY PolicyFixed, FifoIndicesNext, FifoContentNext, FifoHistoryNext DEF FifoInv
<1>3. QED
  BY <1>1, <1>2, RingTypeOK, RoomInvariant, PTL DEF Spec

(* Under kDropNewest the consumer owns its slot from acquireRead to        *)
(* commitRead: no write is in progress on it, whatever the interleaving.   *)
THEOREM RingExclusiveSlot == Spec => []ExclusiveSlot
<1>1. TypeOK /\ Room /\ FifoInv => ExclusiveSlot
  <2> SUFFICES ASSUME TypeOK, Room, FifoIndices, ProducerHolds, ConsumerHolds
               PROVE  SlotOf(head) # SlotOf(cTail)
    BY DEF ExclusiveSlot, FifoInv
  <2>1. /\ cTail \in Nat /\ head \in Nat
        /\ cTail < head /\ head - cTail < Capacity
    BY DEF TypeOK, Room, FifoIndices, ConsumerHolds
  <2>2. QED
    BY <2>1, SlotsDistinct
<1>2. QED
  BY <1>1, FifoInvariant, RoomInvariant, RingTypeOK, PTL

(* Under kDropNewest size() never wraps and never exceeds the capacity.    *)
THEOREM RingDepthBounded == Spec => []RingDepthBound
<1>1. TypeOK /\ Room /\ FifoInv => RingDepthBound
  BY SizeExact DEF TypeOK, Room, FifoInv, FifoIndices, RingDepthBound
<1>2. QED
  BY <1>1, FifoInvariant, RoomInvariant, RingTypeOK, PTL

-----------------------------------------------------------------------------
(* Refinement of FrameQueue: a commit is an Accept, a refused acquire is a *)
(* Refuse, a commitRead is a Deliver, and every other step is a stutter.   *)

(* Every step of a kDropNewest ring is a step of FrameQueue, or none.       *)
LEMMA QueueStep ==
  ASSUME policy = "kDropNewest", TypeOK, Writing, Room, FifoInv, [Next]_vars
  PROVE  [Queue!Next]_(Queue!vars)
<1> USE RingAssumption DEF indexVars, producerVars, consumerVars
<1>0. /\ IfNewest(accepted, <<>>) = accepted /\ IfNewest(accepted, <<>>)' = accepted'
      /\ IfNewest(delivered, <<>>) = delivered /\ IfNewest(delivered, <<>>)' = delivered'
      /\ IfNewest(dropCount, 0) = dropCount /\ IfNewest(dropCount, 0)' = dropCount'
  BY PolicyFixed DEF IfNewest
<1>1. /\ Len(accepted) = head /\ Len(delivered) = tail
      /\ head \in Nat /\ tail \in Nat
  BY DEF FifoInv, FifoContent, FifoHistory, TypeOK
<1>2. CASE CommitWrite
  <2>1. Queue!Waiting < Capacity
    BY <1>0, <1>1, <1>2 DEF CommitWrite, Room, ProducerHolds, Queue!Waiting
  <2>2. offered \in 1..MaxFrames
    BY <1>2 DEF CommitWrite, TypeOK, Writing
  <2>3. \A i \in 1..Len(accepted) : accepted[i] < offered
    BY <1>2 DEF CommitWrite, FifoInv, FifoHistory
  <2>4. Queue!Accept
    BY <1>0, <1>2, <2>1, <2>2, <2>3 DEF CommitWrite, Queue!Accept
  <2>5. QED BY <2>4 DEF Queue!Next
<1>3. CASE AcquireWriteRefused
  <2>1. tail <= head /\ head - tail <= Capacity
    BY DEF FifoInv, FifoIndices, Room
  <2>2. Size = head - tail
    BY <1>1, <2>1, SizeExact
  <2>3. Queue!Waiting = Capacity
    BY <1>0, <1>1, <1>3, <2>1, <2>2 DEF AcquireWriteRefused, Full, Queue!Waiting
  <2>4. Queue!Refuse
    BY <1>0, <1>3, <2>3 DEF AcquireWriteRefused, Queue!Refuse
  <2>5. QED BY <2>4 DEF Queue!Next
<1>4. CASE CommitRead
  <2>1. Queue!Waiting > 0
    BY <1>0, <1>1, <1>4 DEF CommitRead, FifoInv, FifoIndices, ConsumerHolds, Queue!Waiting
  <2>2. delivered' = Append(delivered, accepted[Len(delivered) + 1])
    BY <1>1, <1>4 DEF CommitRead, FifoInv, FifoContent, ConsumerHolds
  <2>3. Queue!Deliver
    BY <1>0, <1>4, <2>1, <2>2 DEF CommitRead, Queue!Deliver
  <2>4. QED BY <2>3 DEF Queue!Next
<1>5. CASE DropOldest
  BY <1>5 DEF DropOldest, FifoInv, FifoIndices
<1>6. CASE \/ AcquireWriteRoom \/ AcquireWriteFull \/ BeginFill \/ EndFill
           \/ LoadTail \/ AcquireReadEmpty \/ AcquireReadSlot \/ EndUse
  BY <1>0, <1>6 DEF AcquireWriteRoom, AcquireWriteFull, BeginFill, EndFill, LoadTail,
              AcquireReadEmpty, AcquireReadSlot, EndUse, Queue!vars
<1>7. CASE UNCHANGED vars
  BY <1>0, <1>7 DEF vars, Queue!vars
<1>8. QED
  BY <1>2, <1>3, <1>4, <1>5, <1>6, <1>7 DEF Next, Producer, Consumer

(* A kDropNewest ring implements the bounded FIFO queue: each accepted     *)
(* frame reaches the consumer once, whole and in order, and a frame is     *)
(* refused only by a full ring.                                            *)
THEOREM RingImplementsQueue == Spec => ImplementsQueue
<1>1. Init => Queue!Init
  BY DEF Init, Queue!Init, IfNewest
<1>2. TypeOK /\ Writing /\ Room /\ FifoInv /\ [Next]_vars => [Queue!Next]_(Queue!vars)
  <2>1. CASE policy = "kDropNewest"
    BY <2>1, QueueStep
  <2>2. CASE policy # "kDropNewest"
    BY <2>2, PolicyFixed DEF IfNewest, Queue!vars
  <2>3. QED BY <2>1, <2>2
<1>3. Spec => [](TypeOK /\ Writing)
  BY TypeInit, TypeNext, PTL DEF Spec
<1>4. QED
  BY <1>1, <1>2, <1>3, RoomInvariant, FifoInvariant, PTL
     DEF Spec, ImplementsQueue, Queue!Spec
=============================================================================
