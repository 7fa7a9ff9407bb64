---------------------------- MODULE WakeSpotter -----------------------------
(***************************************************************************)
(* What a wake-word detector promises its listener, frame by frame: every  *)
(* detection carries a correlation id minted since the previous detection, *)
(* and two detections are at least Gap frames apart unless the detector is *)
(* reset between them.                                                     *)
(***************************************************************************)
EXTENDS Integers

CONSTANT Gap   \* least distance of two detections, in frames

VARIABLES
  now,     \* frames heard
  minted,  \* correlation ids minted so far: 1 .. minted
  lastId,  \* id of the last detection, 0 before the first
  lastAt   \* frame of the last detection, 0 if none since the last reset

vars == <<now, minted, lastId, lastAt>>

Init == now = 0 /\ minted = 0 /\ lastId = 0 /\ lastAt = 0

\* A frame may open a new cascade: a correlation id is minted for it.
Hear ==
  /\ now' = now + 1
  /\ minted' \in {minted, minted + 1}

Silent == Hear /\ UNCHANGED <<lastId, lastAt>>

Detect ==
  /\ Hear
  /\ minted' > lastId
  /\ lastAt = 0 \/ now' - lastAt >= Gap
  /\ lastId' = minted'
  /\ lastAt' = now'

\* A reset forgets the refractory period, never the ids.
Reset == lastAt' = 0 /\ UNCHANGED <<now, minted, lastId>>

Next == Silent \/ Detect \/ Reset

Spec == Init /\ [][Next]_vars
=============================================================================
