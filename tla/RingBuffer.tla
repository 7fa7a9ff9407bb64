----------------------------- MODULE RingBuffer -----------------------------
(***************************************************************************)
(* core/common/ring_buffer.h: the single-producer single-consumer slot     *)
(* ring behind both hand-offs of the engine (capture callback -> Audio     *)
(* thread, Audio thread -> Inference thread).                              *)
(*                                                                         *)
(* One action per atomic access: the load of the other side's index, the   *)
(* drop-oldest fetch_add, the fill of the slot and each commit are steps   *)
(* of their own, so the two threads interleave between any two of them.    *)
(* A fill and a use of a slot take time: each has a first and a last step. *)
(* Loads and stores are sequentially consistent here; the release/acquire  *)
(* pairs on head_ and tail_ order the payload the same way.                *)
(*                                                                         *)
(* A payload is the number of its frame (1, 2, ...).  `accepted` and       *)
(* `delivered` are histories: what was committed, and what the consumer    *)
(* made of each slot it gave back.                                         *)
(***************************************************************************)
EXTENDS Integers, Sequences

CONSTANTS
  Capacity,   \* number of slots: capacity_
  MaxFrames,  \* bound: frames the producer offers
  Modulus     \* 2^64: what the unsigned indices are subtracted modulo

ASSUME RingAssumption ==
  /\ Capacity \in Nat \ {0}
  /\ MaxFrames \in Nat
  /\ Modulus \in Nat /\ Modulus > Capacity

Torn  == -1   \* a slot seen half overwritten
Blank == 0    \* T{}: the value reserve() gives every slot

VARIABLES
  policy,     \* policy_: what reserve() was given, and nothing changes after
  slots,      \* slots_
  head,       \* head_: slots committed by the producer
  tail,       \* tail_: slots given back by the consumer or dropped
  dropCount,  \* dropCount_
  ppc,        \* where the producer is in acquireWrite .. commitWrite
  offered,    \* number of the frame the producer is offering
  cpc,        \* where the consumer is in acquireRead .. commitRead
  cTail,      \* the tail the consumer loaded in acquireRead
  seen,       \* what the consumer has read in its slot
  accepted,   \* history: frames committed, in order
  delivered   \* history: what the consumer read, in order

indexVars    == <<head, tail, dropCount>>
producerVars == <<ppc, offered, accepted>>
consumerVars == <<cpc, cTail, seen, delivered>>
vars == <<policy, slots, indexVars, producerVars, consumerVars>>

SlotOf(index) == index % Capacity

\* size(), and the subtraction of acquireWrite: both are unsigned.
Size == (head - tail) % Modulus

Init ==
  /\ policy \in {"kDropOldest", "kDropNewest"}
  /\ slots = [i \in 0..(Capacity - 1) |-> Blank]
  /\ head = 0 /\ tail = 0 /\ dropCount = 0
  /\ ppc = "idle" /\ offered = 0 /\ accepted = <<>>
  /\ cpc = "idle" /\ cTail = 0 /\ seen = Blank /\ delivered = <<>>

-----------------------------------------------------------------------------
(* The producer: acquireWrite, the caller's fill in place, commitWrite.    *)

\* mutant: one slot too many before the ring counts as full
FullTooLate == Size > Capacity

Full == Size >= Capacity

\* acquireWrite finds room: it returns the slot at head.
AcquireWriteRoom ==
  /\ ppc = "idle" /\ offered < MaxFrames
  /\ ~Full
  /\ offered' = offered + 1
  /\ ppc' = "write"
  /\ UNCHANGED <<policy, slots, indexVars, accepted, consumerVars>>

\* mutant: the refused frame is not counted
RefusedUncounted ==
  /\ ppc = "idle" /\ offered < MaxFrames
  /\ Full /\ policy = "kDropNewest"
  /\ offered' = offered + 1
  /\ UNCHANGED <<policy, slots, indexVars, ppc, accepted, consumerVars>>

\* acquireWrite on a full kDropNewest ring: count the frame, return nullptr.
AcquireWriteRefused ==
  /\ ppc = "idle" /\ offered < MaxFrames
  /\ Full /\ policy = "kDropNewest"
  /\ offered' = offered + 1
  /\ dropCount' = dropCount + 1
  /\ UNCHANGED <<policy, slots, head, tail, ppc, accepted, consumerVars>>

\* acquireWrite on a full kDropOldest ring decides to drop on the tail it loaded ...
AcquireWriteFull ==
  /\ ppc = "idle" /\ offered < MaxFrames
  /\ Full /\ policy = "kDropOldest"
  /\ offered' = offered + 1
  /\ ppc' = "drop"
  /\ UNCHANGED <<policy, slots, indexVars, accepted, consumerVars>>

\* ... and advances tail_ with a later fetch_add, whatever tail_ is by then.
DropOldest ==
  /\ ppc = "drop"
  /\ tail' = tail + 1
  /\ dropCount' = dropCount + 1
  /\ ppc' = "write"
  /\ UNCHANGED <<policy, slots, head, offered, accepted, consumerVars>>

BeginFill ==
  /\ ppc = "write"
  /\ slots' = [slots EXCEPT ![SlotOf(head)] = Torn]
  /\ ppc' = "fill"
  /\ UNCHANGED <<policy, indexVars, offered, accepted, consumerVars>>

\* mutant: the slot is filled with the frame after the one offered
EndFillNextFrame ==
  /\ ppc = "fill"
  /\ slots' = [slots EXCEPT ![SlotOf(head)] = offered + 1]
  /\ ppc' = "commit"
  /\ UNCHANGED <<policy, indexVars, offered, accepted, consumerVars>>

EndFill ==
  /\ ppc = "fill"
  /\ slots' = [slots EXCEPT ![SlotOf(head)] = offered]
  /\ ppc' = "commit"
  /\ UNCHANGED <<policy, indexVars, offered, accepted, consumerVars>>

CommitWrite ==
  /\ ppc = "commit"
  /\ head' = head + 1
  /\ accepted' = Append(accepted, offered)
  /\ ppc' = "idle"
  /\ UNCHANGED <<policy, slots, tail, dropCount, offered, consumerVars>>

Producer ==
  \/ AcquireWriteRoom \/ AcquireWriteRefused \/ AcquireWriteFull
  \/ DropOldest \/ BeginFill \/ EndFill \/ CommitWrite

-----------------------------------------------------------------------------
(* The consumer: acquireRead, the use of the slot, commitRead.             *)

LoadTail ==
  /\ cpc = "idle"
  /\ cTail' = tail
  /\ cpc' = "loadHead"
  /\ UNCHANGED <<policy, slots, indexVars, producerVars, seen, delivered>>

\* mutant: the last frame waiting does not count
EmptyOneEarly == cTail + 1 >= head

Empty == cTail >= head

\* acquireRead returns nullptr.
AcquireReadEmpty ==
  /\ cpc = "loadHead" /\ Empty
  /\ cpc' = "idle"
  /\ UNCHANGED <<policy, slots, indexVars, producerVars, cTail, seen, delivered>>

\* mutant: acquireRead returns the newest slot
AcquireReadNewest ==
  /\ cpc = "loadHead" /\ ~Empty
  /\ seen' = slots[SlotOf(head - 1)]
  /\ cpc' = "read"
  /\ UNCHANGED <<policy, slots, indexVars, producerVars, cTail, delivered>>

\* acquireRead returns the slot at the loaded tail: the use of it begins.
AcquireReadSlot ==
  /\ cpc = "loadHead" /\ ~Empty
  /\ seen' = slots[SlotOf(cTail)]
  /\ cpc' = "read"
  /\ UNCHANGED <<policy, slots, indexVars, producerVars, cTail, delivered>>

\* The use ends: a slot that changed under the consumer was read torn.
EndUse ==
  /\ cpc = "read"
  /\ seen' = IF slots[SlotOf(cTail)] = seen THEN seen ELSE Torn
  /\ cpc' = "commit"
  /\ UNCHANGED <<policy, slots, indexVars, producerVars, cTail, delivered>>

CommitRead ==
  /\ cpc = "commit"
  /\ tail' = tail + 1
  /\ delivered' = Append(delivered, seen)
  /\ cpc' = "idle"
  /\ UNCHANGED <<policy, slots, head, dropCount, producerVars, cTail, seen>>

Consumer ==
  LoadTail \/ AcquireReadEmpty \/ AcquireReadSlot \/ EndUse \/ CommitRead

Next == Producer \/ Consumer

Spec == Init /\ [][Next]_vars

(* The consumer thread polls for ever and a write once begun is finished:  *)
(* ManagedThread::run loops until stop, acquireWrite .. commitWrite has no *)
(* wait.  Nothing makes the microphone offer a frame.                      *)
FinishWrite == DropOldest \/ BeginFill \/ EndFill \/ CommitWrite
FairSpec == Spec /\ WF_vars(Consumer) /\ WF_vars(FinishWrite)

-----------------------------------------------------------------------------
(* Properties.                                                             *)

FrameNo == 1..MaxFrames
Content == FrameNo \cup {Torn, Blank}

\* Type invariant: the indices are counters, a slot or a reading is a frame, torn or blank.
TypeOK ==
  /\ policy \in {"kDropOldest", "kDropNewest"}
  /\ slots \in [0..(Capacity - 1) -> Content]
  /\ head \in Nat /\ tail \in Nat /\ dropCount \in Nat
  /\ ppc \in {"idle", "drop", "write", "fill", "commit"}
  /\ offered \in 0..MaxFrames
  /\ cpc \in {"idle", "loadHead", "read", "commit"}
  /\ cTail \in Nat /\ seen \in Content
  /\ accepted \in Seq(FrameNo) /\ delivered \in Seq(Content)

ProducerHolds == ppc \in {"write", "fill", "commit"}
ConsumerHolds == cpc \in {"read", "commit"}

(* From acquireRead to commitRead the consumer of a kDropNewest ring has   *)
(* its slot to itself: the producer is not between acquireWrite and        *)
(* commitWrite on the same one.  (With kDropOldest it may be.)             *)
ExclusiveSlot ==
  policy = "kDropNewest" /\ ProducerHolds /\ ConsumerHolds
    => SlotOf(head) # SlotOf(cTail)

(* The depth size() reports is never more than the slots of the ring, at   *)
(* any point of either thread of a kDropNewest ring ...                    *)
RingDepthBound == policy = "kDropNewest" => Size <= Capacity

(* ... or, more weakly, under either policy but only while neither thread  *)
(* is inside the ring, which is where the audio test reads ringDepth().    *)
RestingDepthBound == ppc = "idle" /\ cpc = "idle" => Size <= Capacity

(* A fill never lands on one of the slots that still count as unread: even *)
(* drop-oldest frees the slot (tail_ passes it) before the caller fills it.*)
FillTakesFreeSlot ==
  ProducerHolds =>
    \A i \in tail..(head - 1) : SlotOf(i) # SlotOf(head)

(* Every step of tail_ is either a slot given back or a counted drop, and  *)
(* every frame offered is committed, in hand, or counted as refused.       *)
Accounting ==
  LET dropped == IF policy = "kDropOldest" THEN dropCount ELSE 0
      refused == IF policy = "kDropNewest" THEN dropCount ELSE 0
      inHand  == IF ppc = "idle" THEN 0 ELSE 1
  IN  /\ tail = Len(delivered) + dropped
      /\ offered = head + inHand + refused

(* A kDropNewest ring is the bounded FIFO queue of FrameQueue; one that    *)
(* drops its oldest frames is none, and is left out of the mapping.        *)
IfNewest(value, nothing) == IF policy = "kDropNewest" THEN value ELSE nothing

Queue == INSTANCE FrameQueue
           WITH sent     <- IfNewest(accepted, <<>>),
                received <- IfNewest(delivered, <<>>),
                refused  <- IfNewest(dropCount, 0)
ImplementsQueue == Queue!Spec
ImplementsFairQueue == Queue!FairSpec

(* Whatever the producer commits, the consumer's index reaches it: a       *)
(* polling consumer is never left behind by a producer that stopped.       *)
Drains == \A n \in 1..MaxFrames : head >= n ~> tail >= n
=============================================================================
