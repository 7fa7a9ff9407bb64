------------------------------ MODULE VadGate -------------------------------
(***************************************************************************)
(* core/vad/VadGate: the gate over the VAD's probability, one block at a   *)
(* time on the Audio thread.  The probability is what the gate tells       *)
(* apart: at or above speechThreshold (a speech block), or below it.       *)
(*                                                                         *)
(* quiet: history, blocks since the last speech block.                     *)
(***************************************************************************)
EXTENDS Integers

CONSTANTS
  MinSpeechFrames,  \* cfg_.minSpeechFrames
  HangoverFrames,   \* cfg_.hangoverFrames
  MaxQuiet          \* bound: where the history `quiet` stops; above HangoverFrames

VARIABLES
  consecutive,  \* consecutive_
  hangover,     \* hangover_
  open,         \* open_
  quiet

vars == <<consecutive, hangover, open, quiet>>

Init == consecutive = 0 /\ hangover = 0 /\ open = FALSE /\ quiet = MaxQuiet

IsOpen == consecutive' >= MinSpeechFrames \/ hangover' > 0

SpeechBlock ==
  /\ consecutive' = IF consecutive < MinSpeechFrames THEN consecutive + 1 ELSE consecutive
  /\ hangover' = HangoverFrames
  /\ quiet' = 0

\* mutant: one quiet block ends the hangover
QuietBlockCloses ==
  /\ consecutive' = 0
  /\ hangover' = 0
  /\ quiet' = IF quiet < MaxQuiet THEN quiet + 1 ELSE quiet

QuietBlock ==
  /\ consecutive' = 0
  /\ hangover' = IF hangover > 0 THEN hangover - 1 ELSE hangover
  /\ quiet' = IF quiet < MaxQuiet THEN quiet + 1 ELSE quiet

\* process(): whatever the block, the flag is recomputed.
Process == (SpeechBlock \/ QuietBlock) /\ open' = IsOpen

Reset == consecutive' = 0 /\ hangover' = 0 /\ open' = FALSE /\ quiet' = MaxQuiet

Next == Process \/ Reset

Spec == Init /\ [][Next]_vars

=============================================================================
