----------------------------- MODULE FrameQueue -----------------------------
(***************************************************************************)
(* What a kDropNewest ring promises its two threads: a bounded FIFO queue  *)
(* that refuses a frame only when it is full, counts each refusal, and     *)
(* hands every frame it accepted to the consumer once, whole and in order. *)
(***************************************************************************)
EXTENDS Integers, Sequences

CONSTANTS Capacity, MaxFrames

VARIABLES
  sent,      \* the frames accepted so far, in order
  received,  \* the frames delivered so far, in order
  refused    \* how many frames were refused

vars == <<sent, received, refused>>

Waiting == Len(sent) - Len(received)

Init == sent = <<>> /\ received = <<>> /\ refused = 0

\* A frame later than all the accepted ones enters a queue with room.
Accept ==
  /\ Waiting < Capacity
  /\ \E frame \in 1..MaxFrames :
       /\ \A i \in 1..Len(sent) : sent[i] < frame
       /\ sent' = Append(sent, frame)
  /\ UNCHANGED <<received, refused>>

Refuse ==
  /\ Waiting = Capacity
  /\ refused' = refused + 1
  /\ UNCHANGED <<sent, received>>

Deliver ==
  /\ Waiting > 0
  /\ received' = Append(received, sent[Len(received) + 1])
  /\ UNCHANGED <<sent, refused>>

Next == Accept \/ Refuse \/ Deliver

Spec == Init /\ [][Next]_vars

FairSpec == Spec /\ WF_vars(Deliver)
=============================================================================
