--------------------------- MODULE DetectionPath ----------------------------
(***************************************************************************)
(* From a captured block to a detection: WakeWordEngine's frame sink on    *)
(* the Audio thread (VAD gate, mel frames) and its inference tick on the   *)
(* Inference thread (Stage1Detector), with the feature ring between them:  *)
(* a RingBuffer of kDropOldest, at the grain of its shared accesses.  A    *)
(* slot is used in place, and its flag is written, and read, at one point. *)
(*                                                                         *)
(* An opening of the gate is numbered 1, 2, ...; a frame carries its flag  *)
(* and, as a history, the number of the latest opening.                    *)
(***************************************************************************)
EXTENDS CascadeDetector

CONSTANTS
  MinSpeechFrames, HangoverFrames, MaxQuiet,  \* see VadGate
  FeatureSlotCount,  \* config_->audio.featureSlotCount
  MelsPerBlock,      \* the most mel frames one block completes
  MaxBlocks          \* bound: captured blocks

ASSUME PathAssumption ==
  /\ MinSpeechFrames \in Nat \ {0}
  /\ HangoverFrames \in Nat
  /\ MaxQuiet \in Nat /\ MaxQuiet > HangoverFrames
  /\ FeatureSlotCount \in Nat \ {0}
  /\ MelsPerBlock \in Nat
  /\ MaxBlocks \in Nat

VARIABLES
  consecutive, hangover, open, quiet,  \* the gate
  slots, head, tail,  \* featureRing_: slots_, head_, tail_
  writing,    \* where the frame sink is in acquireWrite .. commitWrite
  pending,    \* mel frames of the block not yet committed
  reading,    \* where the tick is in acquireRead .. commitRead
  cTail,      \* the tail it loaded in acquireRead
  blocks,     \* blocks processed
  openings,   \* openings of the gate so far
  gap,        \* whether a block ever completed no frame, or one was dropped
  spoiled,    \* whether a drop ever moved tail_ while the tick was in the ring
  heard,      \* latest opening the detector was given a frame of
  cascadeOf   \* opening in which the detector started its latest cascade

Gate == INSTANCE VadGate

gateVars == <<consecutive, hangover, open, quiet>>
ringVars == <<slots, head, tail>>
sinkVars == <<gateVars, writing, pending, blocks, openings>>
tickVars == <<reading, cTail, heard, cascadeOf>>
pathVars == <<ringVars, sinkVars, tickVars, gap, spoiled>>

SlotOf(index) == index % FeatureSlotCount

\* What the gate says of the block in hand: the flag of every frame it completes.
GateNow == [speech |-> open, opening |-> openings]

PathInit ==
  /\ Init
  /\ Gate!Init
  /\ slots = [i \in 0..(FeatureSlotCount - 1) |-> [speech |-> FALSE, opening |-> 0]]
  /\ head = 0 /\ tail = 0
  /\ writing = "no" /\ pending = 0
  /\ reading = "no" /\ cTail = 0
  /\ blocks = 0 /\ openings = 0
  /\ gap = FALSE /\ spoiled = FALSE /\ heard = 0 /\ cascadeOf = 0

-----------------------------------------------------------------------------
(* The frame sink, on the Audio thread.                                    *)

\* The gate hears the block once, before the block's mel frames are written.
AudioBlock ==
  /\ pending = 0 /\ blocks < MaxBlocks
  /\ blocks' = blocks + 1
  /\ Gate!Process
  /\ openings' = IF open' /\ ~open THEN openings + 1 ELSE openings
  /\ pending' \in 0..MelsPerBlock
  /\ gap' = (gap \/ pending' = 0)
  /\ UNCHANGED <<vars, ringVars, writing, tickVars, spoiled>>

\* acquireWrite subtracts unsigned indices: a tail past the head reads as full.
Full == tail > head \/ head - tail >= FeatureSlotCount

\* acquireWrite loads tail_ and decides on it whether to drop.
AcquireWrite ==
  /\ writing = "no" /\ pending > 0
  /\ writing' = IF Full THEN "drop" ELSE "fill"
  /\ UNCHANGED <<vars, ringVars, gateVars, pending, blocks, openings, tickVars, gap, spoiled>>

\* kDropOldest: tail_.fetch_add, wherever tail_ and the consumer are by then.
DropOldest ==
  /\ writing = "drop"
  /\ tail' = tail + 1
  /\ gap' = TRUE
  /\ spoiled' = (spoiled \/ reading # "no")
  /\ writing' = "fill"
  /\ UNCHANGED <<vars, slots, head, gateVars, pending, blocks, openings, tickVars>>

\* The slot at head gets its frame: slot->speech = gateOpenForBlock_.
Fill ==
  /\ writing = "fill"
  /\ slots' = [slots EXCEPT ![SlotOf(head)] = GateNow]
  /\ writing' = "commit"
  /\ UNCHANGED <<vars, head, tail, gateVars, pending, blocks, openings, tickVars, gap, spoiled>>

CommitWrite ==
  /\ writing = "commit"
  /\ head' = head + 1
  /\ pending' = pending - 1
  /\ writing' = "no"
  /\ UNCHANGED <<vars, slots, tail, gateVars, blocks, openings, tickVars, gap, spoiled>>

FrameSink == AudioBlock \/ AcquireWrite \/ DropOldest \/ Fill \/ CommitWrite

-----------------------------------------------------------------------------
(* The inference tick, on the Inference thread.                            *)

LoadTail ==
  /\ reading = "no"
  /\ cTail' = tail
  /\ reading' = "loaded"
  /\ UNCHANGED <<vars, ringVars, sinkVars, heard, cascadeOf, gap, spoiled>>

\* mutant: the slot after the last one committed is returned too
AcquireReadUncommitted ==
  /\ reading = "loaded"
  /\ reading' = IF cTail > head THEN "no" ELSE "use"
  /\ UNCHANGED <<vars, ringVars, sinkVars, cTail, heard, cascadeOf, gap, spoiled>>

\* acquireRead returns nullptr, or the slot at the tail it loaded.
AcquireRead ==
  /\ reading = "loaded"
  /\ reading' = IF cTail >= head THEN "no" ELSE "use"
  /\ UNCHANGED <<vars, ringVars, sinkVars, cTail, heard, cascadeOf, gap, spoiled>>

\* pushFeature(*slot), on the slot as it stands when its flag is read.
UseSlot ==
  /\ reading = "use"
  /\ PushFeature(slots[SlotOf(cTail)].speech)
  /\ heard' = slots[SlotOf(cTail)].opening
  /\ cascadeOf' = IF idCounter' # idCounter THEN heard' ELSE cascadeOf
  /\ reading' = "commit"
  /\ UNCHANGED <<ringVars, sinkVars, cTail, gap, spoiled>>

\* commitRead: tail_.fetch_add, also when a drop has moved tail_ already.
CommitRead ==
  /\ reading = "commit"
  /\ tail' = tail + 1
  /\ reading' = "no"
  /\ UNCHANGED <<vars, slots, head, sinkVars, cTail, heard, cascadeOf, gap, spoiled>>

InferenceTick == LoadTail \/ AcquireRead \/ UseSlot \/ CommitRead

PathNext == FrameSink \/ InferenceTick

PathSpec == PathInit /\ [][PathNext]_<<vars, pathVars>>

-----------------------------------------------------------------------------
(* Properties.                                                             *)

FrameType == [speech : BOOLEAN, opening : Nat]

(* Type invariant. *)
PathTypeOK ==
  /\ TypeOK
  /\ consecutive \in 0..MinSpeechFrames /\ hangover \in 0..HangoverFrames
  /\ open \in BOOLEAN /\ quiet \in 0..MaxQuiet
  /\ slots \in [0..(FeatureSlotCount - 1) -> FrameType]
  /\ head \in Nat /\ tail \in Nat /\ cTail \in Nat
  /\ writing \in {"no", "drop", "fill", "commit"} /\ pending \in 0..MelsPerBlock
  /\ reading \in {"no", "loaded", "use", "commit"}
  /\ blocks \in 0..MaxBlocks /\ openings \in Nat
  /\ gap \in BOOLEAN /\ spoiled \in BOOLEAN
  /\ heard \in 0..openings /\ cascadeOf \in 0..openings

(* One spoken utterance, one cascade: two ids are never minted within one  *)
(* opening of the gate, so one opening makes at most one detection, also   *)
(* when frames were dropped, as long as no drop fell between acquireRead   *)
(* and commitRead of the tick.  (One that does hands the slot in use to    *)
(* the sink: a later frame is heard early, and again in its turn.)         *)
OneCascadePerOpening ==
  [][idCounter' # idCounter /\ ~spoiled => heard' > cascadeOf]_<<vars, pathVars>>

(* And as long as every block leaves its frames in the ring, no opening    *)
(* goes without its own: the detector has started a cascade for each it    *)
(* heard.                                                                  *)
EveryOpeningHeard == ~gap => idCounter = heard

(* The gate bridges dips: two cascades of the detector are separated by at *)
(* least hangoverFrames blocks in a row without speech.                    *)
HangoverHolds ==
  [][openings' > openings /\ openings > 0 => quiet >= HangoverFrames]_<<vars, pathVars>>
=============================================================================
