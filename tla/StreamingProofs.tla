-------------------------- MODULE StreamingProofs ---------------------------
(***************************************************************************)
(* Proofs about StreamingDetector, for every M and refractory period.      *)
(***************************************************************************)
EXTENDS StreamingDetector, TLAPS

-----------------------------------------------------------------------------
(* The inductive invariant, part by part.                                  *)

\* A run in progress carries the newest id, and that id is unused.
RunIds ==
  /\ lastId <= idCounter
  /\ consecutive > 0 => currentId = idCounter /\ lastId < idCounter

\* The refractory count is exactly what is left of the period.
RefractoryLeft ==
  /\ lastAt <= now
  /\ lastAt = 0 => refractory = 0
  /\ refractory > 0 => consecutive = 0 /\ refractory + (now - lastAt) = RefractoryFrames
  /\ lastAt # 0 /\ refractory = 0 => now - lastAt >= RefractoryFrames + consecutive

\* The run counted is the run heard, unless that one began in the refractory
\* period: then it is the part of it heard since.
RunCounted ==
  refractory = 0 =>
    \/ highRun = consecutive
    \/ /\ highRun > consecutive
       /\ lastAt # 0 /\ consecutive = now - lastAt - RefractoryFrames

StreamingInv == TypeOK /\ RunIds /\ RefractoryLeft /\ RunCounted

(* M is at least one, whatever the configuration says. *)
LEMMA StreamingNeeded == Needed \in Nat \ {0} /\ RefractoryFrames \in Nat
BY StreamingAssumption DEF Needed

(* The initial state satisfies every part. *)
LEMMA StreamingInit == Init => StreamingInv
BY StreamingNeeded
   DEF Init, StreamingInv, TypeOK, RunIds, RefractoryLeft, RunCounted

(* Every step preserves every part. *)
LEMMA StreamingNext == StreamingInv /\ [Next]_vars => StreamingInv'
<1> SUFFICES ASSUME StreamingInv, [Next]_vars
             PROVE  StreamingInv'
  OBVIOUS
<1> USE StreamingNeeded
    DEF StreamingInv, TypeOK, RunIds, RefractoryLeft, RunCounted
<1>1. ASSUME NEW high \in BOOLEAN, Suppressed(high)
      PROVE  StreamingInv'
  <2>1. highRun' \in Nat
    BY <1>1 DEF Suppressed, ScoreFrame
  <2>2. /\ refractory > 0 /\ refractory' = refractory - 1 /\ consecutive' = 0
        /\ now' = now + 1
        /\ UNCHANGED <<currentId, idCounter, lastId, lastAt>>
    BY <1>1 DEF Suppressed, ScoreFrame
  <2>3. QED BY <2>1, <2>2
<1>2. CASE Low
  BY <1>2 DEF Low, ScoreFrame
<1>3. CASE Pending
  BY <1>3 DEF Pending, Positive, ScoreFrame
<1>4. CASE Fire
  BY <1>4 DEF Fire, Positive, ScoreFrame
<1>5. CASE Reset
  BY <1>5 DEF Reset
<1>6. CASE UNCHANGED vars
  BY <1>6 DEF vars
<1>7. QED BY <1>1, <1>2, <1>3, <1>4, <1>5, <1>6 DEF Next, PushFrame

(* Every reachable state satisfies every part of the invariant. *)
THEOREM StreamingInvariant == Spec => []StreamingInv
<1>1. QED BY StreamingInit, StreamingNext, PTL DEF Spec

-----------------------------------------------------------------------------
(* What follows from it.                                                   *)

(* The counters of StreamingDetector::pushFrame stay in their bounds.      *)
THEOREM StreamingTypeOK == Spec => []TypeOK
<1>1. StreamingInv => TypeOK
  BY DEF StreamingInv
<1>2. QED BY StreamingInvariant, <1>1, PTL

(* Past the refractory period, M positive frames in a row always fire.     *)
THEOREM StreamingNeverDeaf == Spec => []NeverDeaf
<1>1. StreamingInv => NeverDeaf
  BY StreamingNeeded DEF StreamingInv, TypeOK, RefractoryLeft, RunCounted, NeverDeaf
<1>2. QED BY StreamingInvariant, <1>1, PTL

(* The detector implements WakeSpotter with the full refractory period.    *)
THEOREM StreamingImplementsSpotter == Spec => ImplementsSpotter
<1>1. Init => Spotter!Init
  BY DEF Init, Spotter!Init
<1>2. StreamingInv /\ [Next]_vars => [Spotter!Next]_Spotter!vars
  <2> SUFFICES ASSUME StreamingInv, [Next]_vars
               PROVE  [Spotter!Next]_Spotter!vars
    OBVIOUS
  <2> USE StreamingNeeded
      DEF StreamingInv, TypeOK, Spotter!Next, Spotter!Hear, Spotter!Silent
  <2>1. ASSUME NEW high \in BOOLEAN, Suppressed(high)
        PROVE  Spotter!Silent
    BY <2>1 DEF Suppressed, ScoreFrame
  <2>2. CASE Low
    BY <2>2 DEF Low, ScoreFrame
  <2>3. CASE Pending
    BY <2>3 DEF Pending, Positive, ScoreFrame
  <2>4. CASE Fire
    <3>1. /\ currentId' = idCounter' /\ idCounter' > lastId
          /\ idCounter' \in {idCounter, idCounter + 1}
      BY <2>4 DEF Fire, Positive, RunIds
    <3>2. lastAt = 0 \/ now' - lastAt >= RefractoryFrames + 1
      BY <2>4 DEF Fire, Positive, ScoreFrame, RefractoryLeft
    <3>3. Spotter!Detect
      BY <2>4, <3>1, <3>2 DEF Fire, Positive, ScoreFrame, Spotter!Detect
    <3>4. QED BY <3>3
  <2>5. CASE Reset
    BY <2>5 DEF Reset, Spotter!Reset
  <2>6. CASE UNCHANGED vars
    BY <2>6 DEF vars, Spotter!vars
  <2>7. QED BY <2>1, <2>2, <2>3, <2>4, <2>5, <2>6 DEF Next, PushFrame
<1>3. QED BY StreamingInvariant, <1>1, <1>2, PTL DEF Spec, ImplementsSpotter, Spotter!Spec

(* A detection stands on M positive frames after the refractory period.    *)
THEOREM StreamingStandsOnRun == Spec => StandsOnRun
<1> DEFINE Stands ==
      lastAt' # lastAt /\ lastAt' # 0
        => /\ highRun' >= Needed
           /\ lastAt = 0 \/ now' - Needed >= lastAt + RefractoryFrames
<1>1. StreamingInv /\ [Next]_vars => [Stands]_vars
  <2> SUFFICES ASSUME StreamingInv, Next, lastAt' # lastAt, lastAt' # 0
               PROVE  Stands
    OBVIOUS
  <2>1. Fire
    BY DEF Next, PushFrame, Suppressed, Low, Pending, Reset
  <2>2. consecutive + 1 = Needed
    BY <2>1, StreamingNeeded DEF Fire, StreamingInv, TypeOK
  <2>3. QED
    BY <2>1, <2>2, StreamingNeeded
       DEF Fire, Positive, ScoreFrame, StreamingInv, TypeOK, RefractoryLeft, RunCounted
<1>2. QED BY StreamingInvariant, <1>1, PTL DEF Spec, StandsOnRun
=============================================================================
