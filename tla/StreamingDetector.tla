------------------------- MODULE StreamingDetector --------------------------
(***************************************************************************)
(* core/detect/StreamingDetector: one score per frame, on the Inference    *)
(* thread.  A score is what the code tells apart: at or above the          *)
(* threshold once calibrated ("high"), or below it.                        *)
(*                                                                         *)
(* now, lastId, lastAt, highRun: histories.                                *)
(***************************************************************************)
EXTENDS Integers

CONSTANTS
  ConsecutiveWindows,  \* cfg_.stage1ConsecutiveWindows: here, frames
  RefractoryFrames,    \* cfg_.refractoryFrames
  MaxFrames            \* bound: frames pushed

ASSUME StreamingAssumption ==
  /\ ConsecutiveWindows \in Int
  /\ RefractoryFrames \in Nat
  /\ MaxFrames \in Nat

VARIABLES
  consecutive,     \* consecutive_
  refractory,      \* refractory_
  currentId,       \* currentId_ (0: the empty id)
  idCounter,       \* idCounter_
  now,             \* frames pushed, each scored once
  lastId, lastAt,  \* id and frame of the last detection (frame 0: none since reset)
  highRun          \* how many of the latest frames in a row scored high

vars == <<consecutive, refractory, currentId, idCounter, now, lastId, lastAt, highRun>>

\* M consecutive frames, at least one.
Needed == IF ConsecutiveWindows > 0 THEN ConsecutiveWindows ELSE 1

Init ==
  /\ consecutive = 0 /\ refractory = 0 /\ currentId = 0 /\ idCounter = 0
  /\ now = 0 /\ lastId = 0 /\ lastAt = 0 /\ highRun = 0

-----------------------------------------------------------------------------
(* pushFrame, one action per outcome.                                      *)

\* The scorer advances by exactly one frame, refractory or not.
ScoreFrame(high) ==
  /\ now < MaxFrames
  /\ now' = now + 1
  /\ highRun' = IF high THEN highRun + 1 ELSE 0

\* A frame of the refractory period ages it and breaks the run.
Suppressed(high) ==
  /\ ScoreFrame(high)
  /\ refractory > 0
  /\ refractory' = refractory - 1
  /\ consecutive' = 0
  /\ UNCHANGED <<currentId, idCounter, lastId, lastAt>>

\* mutant: a low frame does not break the run
LowKeepsRun ==
  /\ ScoreFrame(FALSE)
  /\ refractory = 0
  /\ UNCHANGED <<consecutive, refractory, currentId, idCounter, lastId, lastAt>>

Low ==
  /\ ScoreFrame(FALSE)
  /\ refractory = 0
  /\ consecutive' = 0
  /\ UNCHANGED <<refractory, currentId, idCounter, lastId, lastAt>>

\* A positive frame mints an id when it is the first of its run.
Positive ==
  /\ ScoreFrame(TRUE)
  /\ refractory = 0
  /\ idCounter' = IF consecutive = 0 THEN idCounter + 1 ELSE idCounter
  /\ currentId' = IF consecutive = 0 THEN idCounter' ELSE currentId

\* mutant: the run may reach M without firing
PendingTooLong ==
  /\ Positive
  /\ consecutive + 1 <= Needed
  /\ consecutive' = consecutive + 1
  /\ UNCHANGED <<refractory, lastId, lastAt>>

Pending ==
  /\ Positive
  /\ consecutive + 1 < Needed
  /\ consecutive' = consecutive + 1
  /\ UNCHANGED <<refractory, lastId, lastAt>>

\* mutant: a detection starts no refractory period
FireUnlatched ==
  /\ Positive
  /\ consecutive + 1 >= Needed
  /\ consecutive' = 0
  /\ lastId' = currentId' /\ lastAt' = now'
  /\ UNCHANGED refractory

\* mutant: the refractory period is a frame too long
FireLongLatched ==
  /\ Positive
  /\ consecutive + 1 >= Needed
  /\ consecutive' = 0
  /\ refractory' = RefractoryFrames + 1
  /\ lastId' = currentId' /\ lastAt' = now'

Fire ==
  /\ Positive
  /\ consecutive + 1 >= Needed
  /\ consecutive' = 0
  /\ refractory' = RefractoryFrames
  /\ lastId' = currentId' /\ lastAt' = now'

PushFrame == (\E high \in BOOLEAN : Suppressed(high)) \/ Low \/ Pending \/ Fire

\* reset(): everything but the id counter.
Reset ==
  /\ consecutive' = 0 /\ refractory' = 0 /\ currentId' = 0
  /\ lastAt' = 0 /\ highRun' = 0
  /\ UNCHANGED <<idCounter, now, lastId>>

Next == PushFrame \/ Reset

Spec == Init /\ [][Next]_vars

-----------------------------------------------------------------------------
(* Properties.                                                             *)

\* Type invariant.
TypeOK ==
  /\ consecutive \in 0..(Needed - 1) /\ refractory \in 0..RefractoryFrames
  /\ currentId \in Nat /\ idCounter \in Nat
  /\ now \in Nat /\ lastId \in Nat /\ lastAt \in Nat /\ highRun \in Nat

(* The streaming detector is a WakeSpotter that holds the full refractory  *)
(* period: RefractoryFrames frames strictly between two detections.        *)
Spotter == INSTANCE WakeSpotter WITH Gap <- RefractoryFrames + 1, minted <- idCounter
ImplementsSpotter == Spotter!Spec

(* A detection stands on the last M frames: all of them positive, all of   *)
(* them after the refractory period of the detection before.               *)
StandsOnRun ==
  [][lastAt' # lastAt /\ lastAt' # 0
       => /\ highRun' >= Needed
          /\ lastAt = 0 \/ now' - Needed >= lastAt + RefractoryFrames]_vars

(* Nor is the detector ever deaf: once the refractory period is over, M    *)
(* positive frames in a row always make a detection.                       *)
NeverDeaf ==
  lastAt = 0 \/ now - lastAt >= RefractoryFrames + Needed => highRun < Needed
=============================================================================
