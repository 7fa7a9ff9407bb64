--------------------------- MODULE CascadeProofs ----------------------------
(***************************************************************************)
(* Proofs about CascadeDetector, for every window, hop, number of          *)
(* consecutive windows and refractory period; and about DetectionPath, the *)
(* gate and the feature ring in front of it, for every size of the ring,   *)
(* hangover and number of blocks.                                          *)
(***************************************************************************)
EXTENDS DetectionPath, SequenceTheorems, TLAPS

-----------------------------------------------------------------------------
(* The inductive invariant, part by part.                                  *)

\* An id in use is the newest one, and an armed cascade has not been detected yet.
FreshIds ==
  /\ lastId <= idCounter /\ lastInferId <= idCounter
  /\ fsm # "Idle" => currentId = idCounter
  /\ fsm \in {"VadTriggered", "Stage1Running"} => lastId < idCounter

\* What is left of the refractory period covers what is missing of the gap.
RefractoryOwed ==
  /\ lastAt <= now
  /\ lastAt # 0 => refractory + (now - lastAt) >= RefractoryFrames

\* The positive windows counted since a detection: the first waited for the refractory
\* period, and no two of them are on neighbouring frames if there is a hop.
WindowsApart ==
  /\ lastAt # 0 /\ lastInferAt = now => prevSpeech /\ framesSinceInfer = 0
  /\ lastAt # 0 /\ consecutivePositive > 0
       => lastInferAt - lastAt >= RefractoryFrames + Spread(consecutivePositive - 1)

\* The count of positive windows stands on the last scores, none used before.
Streak ==
  /\ consecutivePositive <= Len(scores) - spent
  /\ \A i \in (Len(scores) - consecutivePositive + 1)..Len(scores) : scores[i] = "high"

\* Within a cascade that inferred, the hop counter is no older than the inference.
HopOwed ==
  /\ lastInferAt <= now
  /\ fsm # "Idle" /\ currentId = lastInferId => framesSinceInfer <= now - lastInferAt

CascadeInv ==
  TypeOK /\ CascadeFollowsGate /\ FreshIds /\ RefractoryOwed /\ Streak /\ HopOwed
  /\ WindowsApart

-----------------------------------------------------------------------------
(* Lemmas about the operators of pushFeature.                              *)

(* M is at least one, whatever the configuration says. *)
LEMMA NeededPositive == Needed \in Nat \ {0}
BY CascadeAssumption DEF Needed

(* Every outcome of an inference starts from Stage-1 running and leaves it. *)
LEMMA Outcomes ==
  ASSUME NEW speech \in BOOLEAN, Infers(speech)
  PROVE  /\ speech
         /\ Started(speech) = "Stage1Running"
         /\ transition(Started(speech), "Stage1Rejected") = "VadTriggered"
         /\ Fired(speech) = "Stage2Running"
         /\ transition(Fired(speech), "Stage2Rejected") = "VadTriggered"
         /\ transition(Fired(speech), "Stage2Fired") = "DetectionConfirmed"
BY DEF Infers, Started, Fired, transition

(* An edge of the gate moves the cascade to or from Idle; no other frame   *)
(* that does not infer moves it at all.                                    *)
LEMMA GateEdge ==
  ASSUME NEW speech \in BOOLEAN, TypeOK, CascadeFollowsGate
  PROVE  /\ FsmNow(speech) = "Idle" <=> ~speech
         /\ Opens(speech) <=> StartsCascade(speech)
         /\ StartsCascade(speech) => FsmNow(speech) = "VadTriggered"
         /\ speech /\ ~StartsCascade(speech) => FsmNow(speech) = fsm /\ fsm # "Idle"
         /\ FsmNow(speech) \in States
         /\ FsmNow(speech) # "Stage2Running"
         /\ FsmNow(speech) = "Stage1Running" => ~arena
BY DEF TypeOK, CascadeFollowsGate, States, FsmNow, StartsCascade, Opens, Closes,
       transition

(* What the prologue of pushFeature keeps of the types. *)
LEMMA PrologueTypes ==
  ASSUME NEW speech \in BOOLEAN, TypeOK
  PROVE  /\ RefractoryNow \in 0..RefractoryFrames
         /\ RefractoryNow <= refractory /\ refractory <= RefractoryNow + 1
         /\ FilledNow \in 0..WindowFrames
         /\ IdNow(speech) \in Nat
         /\ SinceInferNow(speech) \in Nat
BY CascadeAssumption
   DEF TypeOK, RefractoryNow, FilledNow, IdNow, SinceInferNow

(* Appending a score keeps the earlier ones and their type. *)
LEMMA AppendScore ==
  ASSUME TypeOK, NEW result \in {"low", "high"}
  PROVE  /\ Append(scores, result) \in Seq({"low", "high"})
         /\ Len(Append(scores, result)) = Len(scores) + 1
         /\ \A i \in 1..Len(scores) : Append(scores, result)[i] = scores[i]
         /\ Append(scores, result)[Len(scores) + 1] = result
         /\ Len(scores) \in Nat
<1>1. scores \in Seq({"low", "high"})
  BY DEF TypeOK
<1>2. QED BY <1>1, AppendProperties, LenProperties

(* The initial state satisfies every part. *)
LEMMA CascadeInit == Init => CascadeInv
<1> SUFFICES ASSUME Init PROVE CascadeInv
  OBVIOUS
<1>1. Len(scores) = 0 /\ scores \in Seq({"low", "high"})
  BY DEF Init
<1>2. TypeOK
  <2>1. prevSpeech \in BOOLEAN /\ arena \in BOOLEAN /\ stage2 \in BOOLEAN
    BY Zenon DEF Init
  <2>2. fsm \in States /\ refractory \in 0..RefractoryFrames
        /\ framesFilled \in 0..WindowFrames /\ consecutivePositive \in 0..(Needed - 1)
    BY CascadeAssumption, NeededPositive DEF Init, States
  <2>3. QED BY <1>1, <2>1, <2>2 DEF Init, TypeOK
<1>3. CascadeFollowsGate /\ FreshIds /\ RefractoryOwed /\ HopOwed /\ WindowsApart
  BY DEF Init, CascadeFollowsGate, FreshIds, RefractoryOwed, HopOwed, WindowsApart
<1>4. Streak
  BY <1>1 DEF Init, Streak
<1>5. QED BY <1>2, <1>3, <1>4 DEF CascadeInv

-----------------------------------------------------------------------------
(* Type correctness and the gate.                                          *)

(* Every step keeps the types and the bounds on the counters. *)
LEMMA CascadeTypeNext ==
  TypeOK /\ CascadeFollowsGate /\ [Next]_vars => TypeOK' /\ CascadeFollowsGate'
<1> SUFFICES ASSUME TypeOK, CascadeFollowsGate, [Next]_vars
             PROVE  TypeOK' /\ CascadeFollowsGate'
  OBVIOUS
<1>1. ASSUME NEW speech \in BOOLEAN, PushFeature(speech)
      PROVE  TypeOK' /\ CascadeFollowsGate'
  <2>1. /\ prevSpeech' = speech
        /\ now' \in Nat
        /\ framesFilled' \in 0..WindowFrames
        /\ currentId' \in Nat /\ idCounter' \in Nat
        /\ arena' = arena /\ stage2' = stage2
    <3>1. Frame(speech)
      BY <1>1 DEF PushFeature, SkipFrame, Stage1NoArena, Stage1Failed, Stage1Low,
                  Stage1Pending, Stage2Rejected, Confirm, Stage1Fired, Inferred,
                  RunStage1
    <3>2. QED BY <3>1, PrologueTypes DEF Frame, wiring, TypeOK
  <2>2. /\ fsm' \in States
        /\ fsm' = "Idle" <=> ~speech
        /\ fsm' # "Stage2Running"
        /\ fsm' = "Stage1Running" => ~arena
    <3>1. CASE SkipFrame(speech)
      BY <3>1, GateEdge DEF SkipFrame
    <3>2. CASE RunStage1(speech)
      <4>1. Infers(speech)
        BY <3>2 DEF RunStage1
      <4>2. \/ fsm' = "Stage1Running" /\ ~arena
            \/ fsm' = "VadTriggered"
            \/ fsm' = "DetectionConfirmed"
        BY <1>1, <4>1, Outcomes
           DEF PushFeature, SkipFrame, Stage1NoArena, Stage1Failed, Stage1Low,
               Stage1Pending, Stage2Rejected, Confirm
      <4>3. QED BY <4>1, <4>2, Outcomes DEF States
    <3>3. QED
      BY <1>1, <3>1, <3>2
         DEF PushFeature, Stage1NoArena, Stage1Failed, Stage1Low, Stage1Pending,
             Stage2Rejected, Confirm, Stage1Fired, Inferred
  <2>3. /\ framesSinceInfer' \in Nat
        /\ refractory' \in 0..RefractoryFrames
        /\ consecutivePositive' \in 0..(Needed - 1)
        /\ lastId' \in Nat /\ lastAt' \in Nat
        /\ lastInferAt' \in Nat /\ lastInferId' \in Nat
        /\ scores' \in Seq({"low", "high"}) /\ spent' \in Nat
    <3> USE CascadeAssumption, NeededPositive, PrologueTypes, <2>1
        DEF TypeOK, history
    <3>1. CASE SkipFrame(speech)
      BY <3>1 DEF SkipFrame
    <3>2. CASE Stage1NoArena(speech)
      BY <3>2 DEF Stage1NoArena, RunStage1
    <3>3. CASE Stage1Failed(speech)
      BY <3>3 DEF Stage1Failed, Inferred, RunStage1
    <3>4. CASE Stage1Low(speech)
      BY <3>4, AppendScore DEF Stage1Low, Inferred, RunStage1
    <3>5. CASE Stage1Pending(speech)
      BY <3>5, AppendScore DEF Stage1Pending, Inferred, RunStage1
    <3>6. CASE Stage2Rejected(speech)
      BY <3>6, AppendScore DEF Stage2Rejected, Stage1Fired, Inferred, RunStage1
    <3>7. CASE Confirm(speech)
      BY <3>7, AppendScore DEF Confirm, Stage1Fired, Inferred, RunStage1
    <3>8. QED BY <1>1, <3>1, <3>2, <3>3, <3>4, <3>5, <3>6, <3>7 DEF PushFeature
  <2>4. TypeOK'
    <3>1. prevSpeech' \in BOOLEAN /\ arena' \in BOOLEAN /\ stage2' \in BOOLEAN
      BY <2>1, Zenon DEF TypeOK
    <3>2. QED BY <2>1, <2>2, <2>3, <3>1 DEF TypeOK
  <2>5. CascadeFollowsGate'
    BY <2>1, <2>2, Zenon DEF CascadeFollowsGate
  <2>6. QED BY <2>4, <2>5
<1>2. CASE Reset
  <2>1. scores' \in Seq({"low", "high"}) /\ fsm' \in States
    BY <1>2 DEF Reset, States
  <2>2. prevSpeech' \in BOOLEAN /\ arena' \in BOOLEAN /\ stage2' \in BOOLEAN
    BY <1>2, Zenon DEF Reset, TypeOK, wiring
  <2>3. TypeOK'
    BY <1>2, <2>1, <2>2, CascadeAssumption, NeededPositive DEF Reset, TypeOK
  <2>4. QED BY <1>2, <2>3 DEF Reset, CascadeFollowsGate
<1>3. CASE UNCHANGED vars
  BY <1>3 DEF vars, decision, wiring, history, TypeOK, CascadeFollowsGate
<1>4. QED BY <1>1, <1>2, <1>3 DEF Next

-----------------------------------------------------------------------------
(* Correlation ids.                                                        *)

(* What a frame does to the ids, and to the states in which they matter. *)
LEMMA FrameIds ==
  ASSUME NEW speech \in BOOLEAN, TypeOK, CascadeFollowsGate, FreshIds, Frame(speech)
  PROVE  /\ idCounter' \in {idCounter, idCounter + 1}
         /\ speech => currentId' = idCounter'
         /\ FsmNow(speech) \in {"VadTriggered", "Stage1Running"} => lastId < idCounter'
         /\ StartsCascade(speech) => lastInferId < currentId'
BY GateEdge DEF TypeOK, FreshIds, Frame, IdNow

(* No step uses an id twice. *)
LEMMA FreshIdsNext ==
  TypeOK /\ CascadeFollowsGate /\ FreshIds /\ [Next]_vars => FreshIds'
<1> SUFFICES ASSUME TypeOK, CascadeFollowsGate, FreshIds, [Next]_vars
             PROVE  FreshIds'
  OBVIOUS
<1>1. ASSUME NEW speech \in BOOLEAN, PushFeature(speech)
      PROVE  FreshIds'
  <2>1. Frame(speech)
    BY <1>1 DEF PushFeature, SkipFrame, Stage1NoArena, Stage1Failed, Stage1Low,
                Stage1Pending, Stage2Rejected, Confirm, Stage1Fired, Inferred,
                RunStage1
  <2>ids. /\ idCounter' \in {idCounter, idCounter + 1}
          /\ speech => currentId' = idCounter'
          /\ FsmNow(speech) \in {"VadTriggered", "Stage1Running"} => lastId < idCounter'
    BY <2>1, FrameIds
  <2> USE <2>ids DEF FreshIds, TypeOK, history
  <2>2. CASE SkipFrame(speech)
    BY <2>2, GateEdge DEF SkipFrame
  <2>3. CASE RunStage1(speech)
    <3>0. currentId' = idCounter' /\ lastId < idCounter'
      BY <2>3, Zenon DEF RunStage1, Infers
    <3>1. lastInferId <= idCounter'
      OBVIOUS
    <3>2. lastInferId' \in {lastInferId, currentId'}
      BY <1>1, <2>3
         DEF PushFeature, SkipFrame, Stage1NoArena, Stage1Failed, Stage1Low,
             Stage1Pending, Stage2Rejected, Confirm, Stage1Fired, Inferred,
             RunStage1
    <3>3. \/ lastId' = lastId
          \/ lastId' = currentId' /\ fsm' = "DetectionConfirmed"
      BY <1>1, <2>3, Outcomes
         DEF PushFeature, SkipFrame, Stage1NoArena, Stage1Failed, Stage1Low,
             Stage1Pending, Stage2Rejected, Confirm, RunStage1
    <3>4. QED BY <3>0, <3>1, <3>2, <3>3
  <2>4. QED
    BY <1>1, <2>2, <2>3
       DEF PushFeature, Stage1NoArena, Stage1Failed, Stage1Low, Stage1Pending,
           Stage2Rejected, Confirm, Stage1Fired, Inferred
<1>2. CASE Reset
  BY <1>2 DEF Reset, FreshIds, TypeOK
<1>3. CASE UNCHANGED vars
  BY <1>3 DEF vars, history, FreshIds
<1>4. QED BY <1>1, <1>2, <1>3 DEF Next

-----------------------------------------------------------------------------
(* Refractory period.                                                      *)

(* Each frame takes at most one from the refractory count. *)
LEMMA RefractoryNext ==
  TypeOK /\ RefractoryOwed /\ [Next]_vars => RefractoryOwed'
<1> SUFFICES ASSUME TypeOK, RefractoryOwed, [Next]_vars
             PROVE  RefractoryOwed'
  OBVIOUS
<1>1. ASSUME NEW speech \in BOOLEAN, PushFeature(speech)
      PROVE  RefractoryOwed'
  <2>1. now' = now + 1
    BY <1>1 DEF PushFeature, SkipFrame, Stage1NoArena, Stage1Failed, Stage1Low,
                Stage1Pending, Stage2Rejected, Confirm, Stage1Fired, Inferred,
                RunStage1, Frame
  <2>2. CASE Confirm(speech)
    BY <2>1, <2>2, CascadeAssumption DEF Confirm, RefractoryOwed, TypeOK
  <2>3. CASE refractory' = RefractoryNow /\ lastAt' = lastAt
    BY <2>1, <2>3, PrologueTypes, CascadeAssumption DEF RefractoryOwed, TypeOK
  <2>4. QED
    BY <1>1, <2>2, <2>3
       DEF PushFeature, SkipFrame, Stage1NoArena, Stage1Failed, Stage1Low,
           Stage1Pending, Stage2Rejected, history
<1>2. CASE Reset
  BY <1>2 DEF Reset, RefractoryOwed, TypeOK
<1>3. CASE UNCHANGED vars
  BY <1>3 DEF vars, decision, history, RefractoryOwed
<1>4. QED BY <1>1, <1>2, <1>3 DEF Next

-----------------------------------------------------------------------------
(* Posterior smoothing.                                                    *)

(* The positive windows counted are the last scores, in every step. *)
LEMMA StreakNext == TypeOK /\ Streak /\ [Next]_vars => Streak'
<1> SUFFICES ASSUME TypeOK, Streak, [Next]_vars
             PROVE  Streak'
  OBVIOUS
<1> USE NeededPositive DEF TypeOK, Streak, history
<1>0. Len(scores) \in Nat
  BY LenProperties
<1>1. ASSUME NEW speech \in BOOLEAN, PushFeature(speech)
      PROVE  Streak'
  <2>1. CASE SkipFrame(speech)
    BY <2>1 DEF SkipFrame
  <2>2. CASE Stage1NoArena(speech)
    BY <2>2 DEF Stage1NoArena
  <2>3. CASE Stage1Failed(speech)
    BY <2>3 DEF Stage1Failed, Inferred
  <2>4. CASE Stage1Low(speech)
    BY <2>4, <1>0, AppendScore DEF Stage1Low, Inferred
  <2>5. CASE Stage1Pending(speech)
    BY <2>5, <1>0, AppendScore DEF Stage1Pending, Inferred
  <2>6. CASE Stage1Fired(speech)
    BY <2>6, <1>0, AppendScore DEF Stage1Fired, Inferred
  <2>7. QED
    BY <1>1, <2>1, <2>2, <2>3, <2>4, <2>5, <2>6
       DEF PushFeature, Stage2Rejected, Confirm
<1>2. CASE Reset
  BY <1>2, <1>0 DEF Reset
<1>3. CASE UNCHANGED vars
  BY <1>3 DEF vars, decision
<1>4. QED BY <1>1, <1>2, <1>3 DEF Next

-----------------------------------------------------------------------------
(* Inference cadence.                                                      *)

(* The hop counter never runs ahead of the frames since the inference. *)
LEMMA HopNext ==
  TypeOK /\ CascadeFollowsGate /\ FreshIds /\ HopOwed /\ [Next]_vars => HopOwed'
<1> SUFFICES ASSUME TypeOK, CascadeFollowsGate, FreshIds, HopOwed, [Next]_vars
             PROVE  HopOwed'
  OBVIOUS
<1> USE DEF TypeOK, HopOwed, history
<1>1. ASSUME NEW speech \in BOOLEAN, PushFeature(speech)
      PROVE  HopOwed'
  <2>1. Frame(speech) /\ now' = now + 1
    BY <1>1 DEF PushFeature, SkipFrame, Stage1NoArena, Stage1Failed, Stage1Low,
                Stage1Pending, Stage2Rejected, Confirm, Stage1Fired, Inferred,
                RunStage1, Frame
  <2>2. CASE SkipFrame(speech)
    <3>1. ASSUME fsm' # "Idle", currentId' = lastInferId'
          PROVE  framesSinceInfer' <= now' - lastInferAt'
      <4>1. speech /\ ~StartsCascade(speech)
        BY <2>1, <2>2, <3>1, FrameIds, GateEdge DEF SkipFrame, FreshIds
      <4>2. /\ fsm # "Idle"
            /\ currentId' = currentId
            /\ framesSinceInfer' = framesSinceInfer + 1
        BY <2>1, <2>2, <4>1, GateEdge DEF SkipFrame, Frame, IdNow, SinceInferNow
      <4>3. QED BY <2>1, <2>2, <3>1, <4>2 DEF SkipFrame
    <3>2. QED BY <2>1, <2>2, <3>1 DEF SkipFrame
  <2>3. CASE RunStage1(speech)
    <3>1. framesSinceInfer' = 0
      BY <2>3 DEF RunStage1
    <3>2. lastInferAt' = lastInferAt \/ lastInferAt' = now'
      BY <1>1, <2>3
         DEF PushFeature, SkipFrame, Stage1NoArena, Stage1Failed, Stage1Low,
             Stage1Pending, Stage2Rejected, Confirm, Stage1Fired, Inferred,
             RunStage1
    <3>3. QED BY <2>1, <3>1, <3>2
  <2>4. QED
    BY <1>1, <2>2, <2>3
       DEF PushFeature, Stage1NoArena, Stage1Failed, Stage1Low, Stage1Pending,
           Stage2Rejected, Confirm, Stage1Fired, Inferred
<1>2. CASE Reset
  BY <1>2 DEF Reset
<1>3. CASE UNCHANGED vars
  BY <1>3 DEF vars
<1>4. QED BY <1>1, <1>2, <1>3 DEF Next

-----------------------------------------------------------------------------
(* The distance of two detections.                                         *)

(* A window scored now waited for the refractory period, and if others     *)
(* were counted since the last detection, it keeps its distance from them. *)
LEMMA WindowWaits ==
  ASSUME NEW speech \in BOOLEAN, TypeOK, RefractoryOwed, HopOwed, WindowsApart,
         Frame(speech), Infers(speech), lastAt # 0
  PROVE  now' - lastAt >= RefractoryFrames + Spread(consecutivePositive)
<1>1. speech /\ RefractoryNow = 0 /\ SinceInferNow(speech) >= HopFrames
  BY Zenon DEF Infers
<1>2. now' = now + 1 /\ now \in Nat /\ lastAt \in Nat /\ lastInferAt \in Nat
      /\ lastInferAt <= now /\ HopFrames \in Nat /\ RefractoryFrames \in Nat
      /\ consecutivePositive \in Nat
  BY CascadeAssumption, NeededPositive DEF Frame, TypeOK, HopOwed
<1>3. CASE consecutivePositive = 0
  <2>1. refractory <= 1 /\ refractory \in Nat
    BY <1>1, PrologueTypes, CascadeAssumption DEF TypeOK
  <2>2. now' - lastAt >= RefractoryFrames
    BY <1>2, <2>1 DEF RefractoryOwed
  <2>3. QED BY <1>2, <1>3, <2>2 DEF Spread
<1>4. CASE consecutivePositive > 0
  <2>1. lastInferAt - lastAt >= RefractoryFrames + Spread(consecutivePositive - 1)
    BY <1>4 DEF WindowsApart
  <2>2. CASE HopFrames > 1
    <3>1. lastInferAt # now
      <4>1. SUFFICES ASSUME lastInferAt = now PROVE FALSE
        OBVIOUS
      <4>2. prevSpeech /\ framesSinceInfer = 0
        BY <4>1 DEF WindowsApart
      <4>3. ~Opens(speech)
        BY <4>2, Zenon DEF Opens
      <4>4. SinceInferNow(speech) = 1
        BY <4>2, <4>3 DEF SinceInferNow
      <4>5. HopFrames <= 1
        BY <1>1, <1>2, <4>4
      <4>6. QED BY <1>2, <2>2, <4>5
    <3>2. QED BY <1>2, <2>1, <2>2, <3>1 DEF Spread
  <2>3. CASE ~(HopFrames > 1)
    BY <1>2, <2>1, <2>3 DEF Spread
  <2>4. QED BY <2>2, <2>3
<1>5. QED BY <1>2, <1>3, <1>4

(* Every inference keeps the distance, counted or not. *)
LEMMA WindowsNext ==
  TypeOK /\ RefractoryOwed /\ HopOwed /\ WindowsApart /\ [Next]_vars => WindowsApart'
<1> SUFFICES ASSUME TypeOK, RefractoryOwed, HopOwed, WindowsApart, [Next]_vars
             PROVE  WindowsApart'
  OBVIOUS
<1>0. /\ now \in Nat /\ lastAt \in Nat /\ lastInferAt \in Nat /\ lastInferAt <= now
      /\ RefractoryFrames \in Nat /\ consecutivePositive \in Nat /\ HopFrames \in Nat
  BY CascadeAssumption, NeededPositive DEF TypeOK, HopOwed
<1>1. ASSUME NEW speech \in BOOLEAN, PushFeature(speech)
      PROVE  WindowsApart'
  <2>1. Frame(speech) /\ now' = now + 1 /\ prevSpeech' = speech
    BY <1>1 DEF PushFeature, SkipFrame, Stage1NoArena, Stage1Failed, Stage1Low,
                Stage1Pending, Stage2Rejected, Confirm, Stage1Fired, Inferred,
                RunStage1, Frame
  <2>2. CASE SkipFrame(speech) \/ Stage1NoArena(speech)
    BY <1>0, <2>1, <2>2 DEF SkipFrame, Stage1NoArena, WindowsApart, history
  <2>3. ASSUME NEW result \in {"failed", "low", "high"}, Inferred(speech, result)
        PROVE  lastInferAt' = now' /\ prevSpeech' /\ framesSinceInfer' = 0 /\ Infers(speech)
    <3>1. Infers(speech) /\ framesSinceInfer' = 0 /\ lastInferAt' = now'
      BY <2>3 DEF Inferred, RunStage1
    <3>2. QED BY <2>1, <3>1, Zenon DEF Infers
  <2>4. CASE Stage1Failed(speech)
    <3>1. lastInferAt' = now' /\ prevSpeech' /\ framesSinceInfer' = 0
      BY <2>3, <2>4 DEF Stage1Failed
    <3>2. UNCHANGED <<consecutivePositive, lastAt>>
      BY <2>4 DEF Stage1Failed
    <3>3. QED BY <1>0, <2>1, <3>1, <3>2 DEF WindowsApart, Spread
  <2>5. CASE Stage1Low(speech) \/ Stage2Rejected(speech) \/ Confirm(speech)
    <3>1. lastInferAt' = now' /\ prevSpeech' /\ framesSinceInfer' = 0
      BY <2>3, <2>5 DEF Stage1Low, Stage2Rejected, Confirm, Stage1Fired
    <3>2. consecutivePositive' = 0
      BY <2>5 DEF Stage1Low, Stage2Rejected, Confirm, Stage1Fired
    <3>3. QED BY <3>1, <3>2 DEF WindowsApart
  <2>6. CASE Stage1Pending(speech)
    <3>1. lastInferAt' = now' /\ prevSpeech' /\ framesSinceInfer' = 0 /\ Infers(speech)
      BY <2>3, <2>6 DEF Stage1Pending
    <3>2. consecutivePositive' = consecutivePositive + 1 /\ lastAt' = lastAt
      BY <2>6 DEF Stage1Pending
    <3>3. lastAt # 0 => now' - lastAt >= RefractoryFrames + Spread(consecutivePositive)
      BY <2>1, <3>1, WindowWaits
    <3>4. QED BY <1>0, <3>1, <3>2, <3>3 DEF WindowsApart
  <2>7. QED BY <1>1, <2>2, <2>4, <2>5, <2>6 DEF PushFeature
<1>2. CASE Reset
  BY <1>2 DEF Reset, WindowsApart
<1>3. CASE UNCHANGED vars
  BY <1>3 DEF vars, decision, history, WindowsApart
<1>4. QED BY <1>1, <1>2, <1>3 DEF Next

-----------------------------------------------------------------------------
(* The invariant, and what follows from it.                                *)

(* Every step of the detector, alone or on its path, keeps every part.     *)
LEMMA CascadeStep == CascadeInv /\ [Next]_vars => CascadeInv'
BY CascadeTypeNext, FreshIdsNext, RefractoryNext, StreakNext, HopNext, WindowsNext
   DEF CascadeInv

(* Every reachable state satisfies every part of the invariant. *)
THEOREM CascadeInvariant == Spec => []CascadeInv
BY CascadeInit, CascadeStep, PTL DEF Spec

(* The counters of the detector stay in their bounds: Stage1Detector.cpp   *)
(* never counts past the window, the refractory period or M - 1.           *)
THEOREM CascadeTypeOK == Spec => []TypeOK
<1>1. CascadeInv => TypeOK
  BY DEF CascadeInv
<1>2. QED BY CascadeInvariant, <1>1, PTL

(* The cascade is idle exactly when the gate was closed at the last frame. *)
THEOREM CascadeGate == Spec => []CascadeFollowsGate
<1>1. CascadeInv => CascadeFollowsGate
  BY DEF CascadeInv
<1>2. QED BY CascadeInvariant, <1>1, PTL

(* The detector implements WakeSpotter: every detection has a fresh id,    *)
(* and two detections without a reset between them are DetectionGap frames *)
(* apart, for every window, hop, M and refractory period.                  *)
THEOREM CascadeImplementsSpotter == Spec => ImplementsSpotter
<1>1. Init => Spotter!Init
  BY DEF Init, Spotter!Init
<1>2. CascadeInv /\ [Next]_vars => [Spotter!Next]_Spotter!vars
  <2> SUFFICES ASSUME CascadeInv, [Next]_vars
               PROVE  [Spotter!Next]_Spotter!vars
    OBVIOUS
  <2> USE DEF CascadeInv
  <2>1. ASSUME NEW speech \in BOOLEAN, PushFeature(speech)
        PROVE  Spotter!Next
    <3>1. Frame(speech) /\ now' = now + 1
      BY <2>1 DEF PushFeature, SkipFrame, Stage1NoArena, Stage1Failed, Stage1Low,
                  Stage1Pending, Stage2Rejected, Confirm, Stage1Fired, Inferred,
                  RunStage1, Frame
    <3>2. Spotter!Hear
      BY <3>1, FrameIds DEF Spotter!Hear
    <3>3. CASE Confirm(speech)
      <4>1. Infers(speech)
        BY <3>3 DEF Confirm, Stage1Fired, Inferred, RunStage1
      <4>2. speech /\ FsmNow(speech) \in {"VadTriggered", "Stage1Running"}
        BY <4>1, Zenon DEF Infers
      <4>3. lastId < idCounter' /\ currentId' = idCounter'
        BY <3>1, <4>2, FrameIds
      <4>4. lastAt # 0 => now' - lastAt >= RefractoryFrames + Spread(consecutivePositive)
        BY <3>1, <4>1, WindowWaits
      <4>5. consecutivePositive = Needed - 1
        BY <3>3, NeededPositive DEF Confirm, Stage1Fired, TypeOK
      <4>6. lastAt = 0 \/ now' - lastAt >= DetectionGap
        BY <4>4, <4>5 DEF DetectionGap
      <4>7. idCounter' > lastId
        BY <3>1, <4>3, FrameIds DEF TypeOK
      <4>8. Spotter!Detect
        BY <3>2, <3>3, <4>3, <4>6, <4>7 DEF Confirm, Spotter!Detect
      <4>9. QED BY <4>8 DEF Spotter!Next
    <3>4. CASE UNCHANGED <<lastId, lastAt>>
      BY <3>2, <3>4 DEF Spotter!Next, Spotter!Silent
    <3>5. QED
      BY <2>1, <3>3, <3>4
         DEF PushFeature, SkipFrame, Stage1NoArena, Stage1Failed, Stage1Low,
             Stage1Pending, Stage2Rejected, history
  <2>2. CASE Reset
    BY <2>2 DEF Reset, Spotter!Next, Spotter!Reset
  <2>3. CASE UNCHANGED vars
    BY <2>3 DEF vars, history, Spotter!vars
  <2>4. QED BY <2>1, <2>2, <2>3 DEF Next
<1>3. QED BY CascadeInvariant, <1>1, <1>2, PTL DEF Spec, ImplementsSpotter, Spotter!Spec

(* Posterior smoothing, for every M: a detection stands on the last M      *)
(* scores, all positive, none of them used by an earlier trigger.          *)
THEOREM CascadeSmoothed == Spec => SmoothedDetection
<1> DEFINE Smoothed ==
      lastId' # lastId
        => LET n == Len(scores')
           IN  /\ n - Needed >= spent
               /\ \A i \in (n - Needed + 1)..n : scores'[i] = "high"
<1>1. CascadeInv /\ [Next]_vars => [Smoothed]_vars
  <2> SUFFICES ASSUME CascadeInv, Next, lastId' # lastId
               PROVE  Smoothed
    OBVIOUS
  <2>1. PICK speech \in BOOLEAN : Confirm(speech)
    BY DEF Next, Reset, PushFeature, SkipFrame, Stage1NoArena, Stage1Failed,
           Stage1Low, Stage1Pending, Stage2Rejected, history
  <2>2. scores' = Append(scores, "high") /\ consecutivePositive + 1 >= Needed
    BY <2>1 DEF Confirm, Stage1Fired, Inferred
  <2>3. consecutivePositive + 1 = Needed
    BY <2>2, NeededPositive DEF CascadeInv, TypeOK
  <2>4. Len(scores) \in Nat /\ spent \in Nat
    BY LenProperties DEF CascadeInv, TypeOK
  <2>5. QED
    <3>1. consecutivePositive <= Len(scores) - spent /\ consecutivePositive \in Nat
      BY NeededPositive DEF CascadeInv, Streak, TypeOK
    <3>2. QED
      BY <2>2, <2>3, <2>4, <3>1, NeededPositive, AppendScore DEF CascadeInv, Streak
<1>2. QED BY CascadeInvariant, <1>1, PTL DEF Spec, SmoothedDetection

(* Cadence, for every window and hop: an inference runs on a full window,  *)
(* and two inferences of one cascade are a hop apart.                      *)
THEOREM CascadeCadence == Spec => InferenceCadence
<1> DEFINE Cadence ==
      lastInferAt' # lastInferAt
        => /\ framesFilled' = WindowFrames
           /\ lastInferId' = lastInferId => lastInferAt' - lastInferAt >= HopFrames
<1>1. CascadeInv /\ [Next]_vars => [Cadence]_vars
  <2> SUFFICES ASSUME CascadeInv, Next, lastInferAt' # lastInferAt
               PROVE  Cadence
    OBVIOUS
  <2> USE DEF CascadeInv
  <2>1. PICK speech \in BOOLEAN : \E result \in {"failed", "low", "high"} :
                                    Inferred(speech, result)
    BY DEF Next, Reset, PushFeature, SkipFrame, Stage1NoArena, Stage1Failed,
           Stage1Low, Stage1Pending, Stage2Rejected, Confirm, Stage1Fired, history
  <2>2. /\ Frame(speech) /\ Infers(speech)
        /\ lastInferAt' = now + 1 /\ lastInferId' = currentId'
    BY <2>1 DEF Inferred, RunStage1, Frame
  <2>3. framesFilled' = WindowFrames
    <3>1. FilledNow >= WindowFrames
      BY <2>2, Zenon DEF Infers
    <3>2. QED BY <2>2, <3>1, PrologueTypes, CascadeAssumption DEF Frame
  <2>4. ASSUME lastInferId' = lastInferId
        PROVE  lastInferAt' - lastInferAt >= HopFrames
    <3>1. ~StartsCascade(speech)
      BY <2>2, <2>4, FrameIds DEF TypeOK, FreshIds
    <3>2. speech
      BY <2>2, Outcomes
    <3>3. /\ fsm # "Idle"
          /\ currentId' = currentId
          /\ SinceInferNow(speech) = framesSinceInfer + 1
      <4>1. fsm # "Idle" /\ ~Opens(speech)
        BY <2>1, <3>1, <3>2, GateEdge
      <4>2. QED BY <2>2, <3>1, <4>1 DEF Frame, IdNow, SinceInferNow
    <3>4. SinceInferNow(speech) >= HopFrames
      BY <2>2, Zenon DEF Infers
    <3>5. framesSinceInfer <= now - lastInferAt
      BY <2>2, <2>4, <3>3 DEF HopOwed
    <3>6. /\ framesSinceInfer \in Nat /\ now \in Nat /\ lastInferAt \in Nat
          /\ HopFrames \in Nat
      BY CascadeAssumption DEF TypeOK
    <3>7. QED BY <2>2, <3>3, <3>4, <3>5, <3>6
  <2>5. QED BY <2>3, <2>4
<1>2. QED BY CascadeInvariant, <1>1, PTL DEF Spec, InferenceCadence

-----------------------------------------------------------------------------
(* The path to the detector (DetectionPath).  Its frames stand in one line:*)
(* the frame the detector was given last, those of the ring it has not yet *)
(* been given, and the gate as it is now.  Along the line openings never   *)
(* fall, and rise wherever speech begins.                                  *)

FrameAt(index) == slots[SlotOf(index)]

LastHeard == [speech |-> prevSpeech, opening |-> heard]

\* Index of the first frame the detector has not been given.
Unheard == IF reading = "commit" THEN tail + 1 ELSE tail

\* What stands in the line before the frame of this index.
Before(index) == IF index = Unheard THEN LastHeard ELSE FrameAt(index - 1)

\* b may stand later in the line than a; b may come right after a.
Later(a, b) ==
  a.opening <= b.opening /\ (~a.speech /\ b.speech => a.opening < b.opening)
Following(a, b) ==
  b.opening = IF ~a.speech /\ b.speech THEN a.opening + 1 ELSE a.opening

\* The types, and that no frame knows of an opening to come.
PathTypes ==
  /\ PathTypeOK
  /\ \A slot \in 0..(FeatureSlotCount - 1) : slots[slot].opening <= openings

\* The gate's hangover covers what is missing of the quiet blocks.
GateOwes ==
  /\ open <=> consecutive >= MinSpeechFrames \/ hangover > 0
  /\ hangover >= HangoverFrames - quiet

\* A frame is written for a block, and as the gate answered for it.
SinkWrites ==
  /\ writing # "no" => pending > 0
  /\ writing = "commit" => FrameAt(head) = GateNow

\* Until a drop fell into a read, the tick's slot is the one at tail_, and only the
\* frame being written may be dropped before it is committed.
RingShape ==
  ~spoiled =>
    /\ tail <= head \/ (tail = head + 1 /\ writing \in {"fill", "commit"})
    /\ head - tail <= FeatureSlotCount
    /\ writing \in {"fill", "commit"} => head - tail < FeatureSlotCount
    /\ reading # "no" => cTail = tail
    /\ reading \in {"use", "commit"} => tail < head

InOrder ==
  ~spoiled =>
    /\ cascadeOf <= heard
    /\ Later(LastHeard, GateNow)
    /\ \A i \in Unheard..(head - 1) :
          Later(LastHeard, FrameAt(i)) /\ Later(FrameAt(i), GateNow)
    /\ \A i, j \in Unheard..(head - 1) : i < j => Later(FrameAt(i), FrameAt(j))

\* While every block left its frames, none is missing from the line.
NoneMissing ==
  ~gap =>
    /\ ~spoiled /\ tail <= head
    /\ idCounter = heard
    /\ \A i \in Unheard..(head - 1) : Following(Before(i), FrameAt(i))
    /\ Following(Before(head), GateNow)
    /\ pending = 0 => Before(head) = GateNow

PathInv ==
  CascadeInv /\ PathTypes /\ GateOwes /\ SinkWrites /\ RingShape /\ InOrder /\ NoneMissing

(* Multiplication distributes over a difference: the solver is given it.    *)
LEMMA Distributes ==
  ASSUME NEW c \in Int, NEW a \in Int, NEW b \in Int
  PROVE  c * (b - a) = c * b - c * a
BY SMT

(* Indices less than the ring's size apart live in different slots.        *)
LEMMA SlotsApart ==
  ASSUME NEW i \in Nat, NEW j \in Nat, i < j, j - i < FeatureSlotCount
  PROVE  SlotOf(i) # SlotOf(j)
<1> DEFINE c  == FeatureSlotCount
           qi == i \div c
           qj == j \div c
<1>0. c \in Nat /\ c > 0
  BY PathAssumption
<1>1. /\ qi \in Nat /\ qj \in Nat /\ SlotOf(i) \in Nat /\ SlotOf(j) \in Nat
      /\ i = c * qi + SlotOf(i) /\ j = c * qj + SlotOf(j)
  BY <1>0 DEF SlotOf
<1> HIDE DEF qi, qj, c
<1>2. SUFFICES ASSUME SlotOf(i) = SlotOf(j) PROVE FALSE
  OBVIOUS
<1>3. c * qj \in Int /\ c * qi \in Int /\ c * (qj - qi) = c * qj - c * qi
  BY <1>0, <1>1, Distributes
<1>4. j - i = c * (qj - qi)
  BY <1>1, <1>2, <1>3
<1>5. CASE qj - qi <= 0
  <2>1. c * (qj - qi) <= 0
    BY <1>0, <1>1, <1>5, SMT
  <2>2. QED BY <2>1, <1>4
<1>6. CASE qj - qi >= 1
  <2>1. c * (qj - qi) >= c
    BY <1>0, <1>1, <1>6, SMT
  <2>2. QED BY <2>1, <1>4, <1>0 DEF c
<1>7. QED BY <1>1, <1>5, <1>6

(* Every index has its slot, and everything in the line is a frame.        *)
LEMMA LineTypes ==
  ASSUME PathTypes
  PROVE  /\ \A i \in Nat : SlotOf(i) \in 0..(FeatureSlotCount - 1)
         /\ \A i \in Nat : FrameAt(i) \in FrameType /\ FrameAt(i).opening <= openings
         /\ LastHeard \in FrameType /\ GateNow \in FrameType
         /\ Unheard \in Nat /\ head \in Nat
<1>1. \A i \in Nat : SlotOf(i) \in 0..(FeatureSlotCount - 1)
  BY PathAssumption DEF SlotOf
<1>2. \A i \in Nat : FrameAt(i) \in FrameType /\ FrameAt(i).opening <= openings
  BY <1>1 DEF FrameAt, PathTypes, PathTypeOK
<1>3. LastHeard \in FrameType /\ GateNow \in FrameType
  <2>1. prevSpeech \in BOOLEAN /\ heard \in Nat /\ open \in BOOLEAN /\ openings \in Nat
    BY DEF PathTypes, PathTypeOK, TypeOK
  <2>2. QED BY <2>1 DEF LastHeard, GateNow, FrameType
<1>4. Unheard \in Nat /\ head \in Nat
  BY DEF Unheard, PathTypes, PathTypeOK
<1>5. QED BY <1>1, <1>2, <1>3, <1>4

(* The order of the line is transitive, and one frame may repeat.          *)
LEMMA LineRules ==
  /\ \A a, b, c \in FrameType : Later(a, b) /\ Later(b, c) => Later(a, c)
  /\ \A a \in FrameType : Later(a, a) /\ Following(a, a)
BY DEF Later, Following, FrameType

(* The initial state satisfies every part.                                 *)
LEMMA PathInitial == PathInit => PathInv
<1> SUFFICES ASSUME PathInit PROVE PathInv
  OBVIOUS
<1> USE PathAssumption
<1>1. CascadeInv
  BY CascadeInit DEF PathInit
<1>2. /\ ~prevSpeech /\ prevSpeech = FALSE /\ idCounter = 0 /\ open = FALSE /\ hangover = 0
      /\ consecutive = 0 /\ quiet = MaxQuiet
      /\ slots = [i \in 0..(FeatureSlotCount - 1) |-> [speech |-> FALSE, opening |-> 0]]
      /\ head = 0 /\ tail = 0 /\ writing = "no" /\ reading = "no" /\ pending = 0 /\ cTail = 0
      /\ blocks = 0 /\ openings = 0 /\ heard = 0 /\ cascadeOf = 0
      /\ gap = FALSE /\ spoiled = FALSE
  BY DEF PathInit, Init, Gate!Init
<1>3. PathTypes
  <2>1. slots \in [0..(FeatureSlotCount - 1) -> FrameType]
    BY <1>2 DEF FrameType
  <2>2. open \in BOOLEAN /\ gap \in BOOLEAN /\ spoiled \in BOOLEAN
    BY <1>2, Zenon
  <2>3. TypeOK
    BY <1>1 DEF CascadeInv
  <2>4. QED BY <1>2, <2>1, <2>2, <2>3 DEF PathTypes, PathTypeOK
<1>4. GateOwes /\ SinkWrites /\ RingShape
  BY <1>2 DEF GateOwes, SinkWrites, RingShape
<1>5. LastHeard = GateNow /\ GateNow.speech = FALSE /\ GateNow.opening = 0
  BY <1>2, Zenon DEF LastHeard, GateNow
<1>6. Unheard = 0
  BY <1>2 DEF Unheard
<1>7. InOrder
  BY <1>2, <1>5, <1>6 DEF InOrder, Later
<1>8. NoneMissing
  BY <1>2, <1>5, <1>6 DEF NoneMissing, Following, Before
<1>9. QED BY <1>1, <1>3, <1>4, <1>7, <1>8 DEF PathInv

(* What the detector makes of the slot it is handed.                       *)
LEMMA UseHears ==
  ASSUME PathInv, UseSlot
  PROVE  /\ CascadeInv'
         /\ LastHeard' = FrameAt(cTail)
         /\ idCounter' = IF ~prevSpeech /\ FrameAt(cTail).speech THEN idCounter + 1
                         ELSE idCounter
         /\ cascadeOf' = IF idCounter' # idCounter THEN heard' ELSE cascadeOf
         /\ heard' = FrameAt(cTail).opening
<1> DEFINE speech == FrameAt(cTail).speech
<1>1. /\ PushFeature(speech)
      /\ heard' = FrameAt(cTail).opening
      /\ cascadeOf' = IF idCounter' # idCounter THEN heard' ELSE cascadeOf
  BY DEF UseSlot, FrameAt
<1>2. FrameAt(cTail) \in FrameType
  BY LineTypes DEF PathInv, PathTypes, PathTypeOK
<1>3. speech \in BOOLEAN
  BY <1>2 DEF FrameType
<1> HIDE DEF speech
<1>4. CascadeInv'
  BY <1>1, <1>3, CascadeStep DEF Next, PathInv
<1>5. /\ prevSpeech' = speech
      /\ idCounter' = IF StartsCascade(speech) THEN idCounter + 1 ELSE idCounter
  BY <1>1 DEF PushFeature, SkipFrame, Stage1NoArena, Stage1Failed, Stage1Low, Stage1Pending,
              Stage2Rejected, Confirm, Stage1Fired, Inferred, RunStage1, Frame
<1>6. StartsCascade(speech) <=> speech /\ ~prevSpeech
  BY <1>3, GateEdge DEF PathInv, CascadeInv, Opens
<1>7. LastHeard' = FrameAt(cTail)
  <2>1. LastHeard' = [speech |-> speech, opening |-> FrameAt(cTail).opening]
    BY <1>1, <1>5 DEF LastHeard
  <2>2. QED BY <1>2, <2>1 DEF FrameType, speech
<1>8. QED BY <1>1, <1>4, <1>5, <1>6, <1>7 DEF speech

(* The sink fills a slot of its own: while no drop fell into a read, no    *)
(* frame still to be heard changes.                                        *)
LEMMA FillElsewhere ==
  ASSUME PathInv, Fill
  PROVE  /\ FrameAt(head)' = GateNow
         /\ ~spoiled => \A i \in tail..(head - 1) : FrameAt(i)' = FrameAt(i)
<1>1. /\ slots' = [slots EXCEPT ![SlotOf(head)] = GateNow] /\ writing = "fill" /\ head' = head
      /\ head \in Nat /\ tail \in Nat
      /\ slots \in [0..(FeatureSlotCount - 1) -> FrameType]
  BY DEF Fill, PathInv, PathTypes, PathTypeOK
<1>2. \A i \in Nat : SlotOf(i) \in 0..(FeatureSlotCount - 1)
  BY LineTypes DEF PathInv
<1>3. FrameAt(head)' = GateNow
  BY <1>1, <1>2 DEF FrameAt
<1>4. ASSUME ~spoiled, NEW i \in tail..(head - 1) PROVE FrameAt(i)' = FrameAt(i)
  <2>1. i \in Nat /\ i < head /\ head - i < FeatureSlotCount
    BY <1>1, <1>4, PathAssumption DEF PathInv, RingShape
  <2>2. SlotOf(i) # SlotOf(head)
    BY <1>1, <2>1, SlotsApart
  <2>3. QED BY <1>1, <1>2, <2>1, <2>2 DEF FrameAt
<1>5. QED BY <1>3, <1>4

(* The gate counts quiet blocks no faster than its hangover runs out.      *)
LEMMA GateStep ==
  ASSUME PathTypes, GateOwes, Gate!Process
  PROVE  /\ GateOwes'
         /\ consecutive' \in 0..MinSpeechFrames /\ hangover' \in 0..HangoverFrames
         /\ open' \in BOOLEAN /\ quiet' \in 0..MaxQuiet
         /\ open' /\ ~open => quiet >= HangoverFrames
<1>1. /\ consecutive' \in 0..MinSpeechFrames /\ hangover' \in 0..HangoverFrames
      /\ quiet' \in 0..MaxQuiet /\ hangover' >= HangoverFrames - quiet'
  BY PathAssumption DEF Gate!Process, Gate!SpeechBlock, Gate!QuietBlock, PathTypes, PathTypeOK, GateOwes
<1>2. open' = (consecutive' >= MinSpeechFrames \/ hangover' > 0)
  BY DEF Gate!Process, Gate!IsOpen
<1>3. open' \in BOOLEAN
  BY <1>2, Zenon
<1>4. GateOwes'
  BY <1>1, <1>2 DEF GateOwes
<1>5. ~open => quiet >= HangoverFrames
  BY PathAssumption DEF PathTypes, PathTypeOK, GateOwes
<1>6. QED BY <1>1, <1>3, <1>4, <1>5

(* Types and the sink's own bookkeeping are kept by every step.            *)
LEMMA PathTypesNext == PathInv /\ PathNext => CascadeInv' /\ PathTypes' /\ GateOwes' /\ SinkWrites'
<1> SUFFICES ASSUME PathInv, PathNext
             PROVE  CascadeInv' /\ PathTypes' /\ GateOwes' /\ SinkWrites'
  OBVIOUS
<1> USE PathAssumption
<1>0. /\ CascadeInv /\ TypeOK /\ PathTypes /\ PathTypeOK /\ GateOwes /\ SinkWrites
      /\ \A slot \in 0..(FeatureSlotCount - 1) : slots[slot].opening <= openings
  BY DEF PathInv, CascadeInv, PathTypes
<1>1. ASSUME UNCHANGED vars PROVE CascadeInv' /\ TypeOK'
  BY <1>0, <1>1, CascadeStep DEF CascadeInv
<1>2. CASE AudioBlock
  <2>1. /\ Gate!Process /\ UNCHANGED <<vars, ringVars, writing, tickVars, spoiled>>
        /\ blocks < MaxBlocks /\ blocks' = blocks + 1 /\ pending = 0 /\ pending' \in 0..MelsPerBlock
        /\ openings' = IF open' /\ ~open THEN openings + 1 ELSE openings
        /\ gap' = (gap \/ pending' = 0)
    BY <1>2 DEF AudioBlock
  <2>2. CascadeInv' /\ TypeOK' /\ GateOwes'
    BY <1>0, <1>1, <2>1, GateStep DEF PathInv
  <2>3. writing = "no"
    BY <1>0, <2>1 DEF SinkWrites
  <2>4. gap' \in BOOLEAN
    BY <2>1, Zenon
  <2>5. openings' \in Nat /\ openings <= openings' /\ openings \in Nat
    BY <1>0, <2>1 DEF PathTypeOK
  <2>6. PathTypeOK'
    <3>1. /\ consecutive' \in 0..MinSpeechFrames /\ hangover' \in 0..HangoverFrames
          /\ open' \in BOOLEAN /\ quiet' \in 0..MaxQuiet
      BY <1>0, <2>1, GateStep DEF PathInv
    <3>2. blocks' \in 0..MaxBlocks
      BY <1>0, <2>1 DEF PathTypeOK
    <3>3. heard' \in 0..openings' /\ cascadeOf' \in 0..openings'
      BY <1>0, <2>1, <2>5 DEF PathTypeOK, tickVars
    <3>4. QED BY <1>0, <2>1, <2>2, <2>4, <2>5, <3>1, <3>2, <3>3 DEF PathTypeOK, ringVars, tickVars
  <2>7. PathTypes'
    <3>1. \A slot \in 0..(FeatureSlotCount - 1) : slots[slot] \in FrameType
      BY <1>0 DEF PathTypeOK
    <3>2. \A slot \in 0..(FeatureSlotCount - 1) : slots[slot].opening <= openings'
      BY <1>0, <2>5, <3>1 DEF FrameType
    <3>3. QED BY <2>1, <2>6, <3>2 DEF PathTypes, ringVars
  <2>8. SinkWrites'
    BY <2>1, <2>3 DEF SinkWrites
  <2>9. QED BY <2>2, <2>6, <2>7, <2>8
<1>3. CASE AcquireWrite
  <2>1. UNCHANGED <<vars, ringVars, gateVars, pending, blocks, openings, tickVars, gap, spoiled>>
        /\ pending > 0 /\ writing' \in {"drop", "fill"}
    BY <1>3 DEF AcquireWrite
  <2>2. QED BY <1>0, <1>1, <2>1
        DEF PathTypes, PathTypeOK, GateOwes, SinkWrites, ringVars, gateVars, tickVars
<1>4. CASE DropOldest
  <2>1. /\ UNCHANGED <<vars, slots, head, gateVars, pending, blocks, openings, tickVars>>
        /\ writing = "drop" /\ writing' = "fill" /\ tail' = tail + 1 /\ gap' = TRUE
        /\ spoiled' = (spoiled \/ reading # "no")
    BY <1>4 DEF DropOldest
  <2>2. spoiled' \in BOOLEAN /\ gap' \in BOOLEAN
    BY <2>1, Zenon
  <2>3. QED BY <1>0, <1>1, <2>1, <2>2
        DEF PathTypes, PathTypeOK, GateOwes, SinkWrites, gateVars, tickVars
<1>5. CASE Fill
  <2>1. /\ UNCHANGED <<vars, head, tail, gateVars, pending, blocks, openings, tickVars, gap, spoiled>>
        /\ writing = "fill" /\ writing' = "commit"
        /\ slots' = [slots EXCEPT ![SlotOf(head)] = GateNow]
    BY <1>5 DEF Fill
  <2>2. /\ slots' \in [0..(FeatureSlotCount - 1) -> FrameType]
        /\ \A slot \in 0..(FeatureSlotCount - 1) : slots'[slot].opening <= openings
    <3>1. GateNow \in FrameType /\ GateNow.opening = openings /\ openings \in Nat
      BY <1>0, LineTypes DEF GateNow, PathTypeOK
    <3>2. slots \in [0..(FeatureSlotCount - 1) -> FrameType]
      BY <1>0 DEF PathTypeOK
    <3>3. slots' \in [0..(FeatureSlotCount - 1) -> FrameType]
      BY <2>1, <3>1, <3>2
    <3>4. ASSUME NEW slot \in 0..(FeatureSlotCount - 1) PROVE slots'[slot].opening <= openings
      <4>1. slots'[slot] = IF slot = SlotOf(head) THEN GateNow ELSE slots[slot]
        BY <2>1, <3>2
      <4>2. slots[slot].opening <= openings
        BY <1>0
      <4>3. QED BY <3>1, <4>1, <4>2
    <3>5. QED BY <3>3, <3>4
  <2>3. PathTypes' /\ GateOwes'
    BY <1>0, <1>1, <2>1, <2>2 DEF PathTypes, PathTypeOK, GateOwes, gateVars, tickVars
  <2>4. SinkWrites'
    <3>1. GateNow' = GateNow
      BY <2>1 DEF GateNow, gateVars
    <3>2. FrameAt(head)' = GateNow
      BY <1>5, FillElsewhere
    <3>3. QED BY <1>0, <2>1, <3>1, <3>2 DEF SinkWrites
  <2>5. QED BY <1>1, <2>1, <2>3, <2>4
<1>6. CASE CommitWrite
  <2>1. /\ UNCHANGED <<vars, slots, tail, gateVars, blocks, openings, tickVars, gap, spoiled>>
        /\ writing = "commit" /\ writing' = "no" /\ head' = head + 1 /\ pending' = pending - 1
    BY <1>6 DEF CommitWrite
  <2>2. pending' \in 0..MelsPerBlock
    BY <1>0, <2>1 DEF PathTypeOK, SinkWrites
  <2>3. QED BY <1>0, <1>1, <2>1, <2>2
        DEF PathTypes, PathTypeOK, GateOwes, SinkWrites, gateVars, tickVars
<1>7. CASE LoadTail \/ AcquireRead \/ CommitRead
  <2>1. /\ UNCHANGED <<vars, slots, head, sinkVars, heard, cascadeOf, gap, spoiled>>
        /\ reading' \in {"no", "loaded", "use", "commit"}
        /\ tail' \in Nat /\ cTail' \in Nat
    BY <1>0, <1>7 DEF LoadTail, AcquireRead, CommitRead, ringVars, PathTypeOK
  <2>2. QED BY <1>0, <1>1, <2>1
        DEF PathTypes, PathTypeOK, GateOwes, SinkWrites, FrameAt, GateNow, sinkVars, gateVars
<1>8. CASE UseSlot
  <2>1. UNCHANGED <<ringVars, sinkVars, cTail, gap, spoiled>> /\ reading' = "commit"
    BY <1>8 DEF UseSlot
  <2>2. CascadeInv' /\ TypeOK'
    BY <1>8, UseHears DEF CascadeInv
  <2>3. heard' \in 0..openings' /\ cascadeOf' \in 0..openings'
    <3>1. FrameAt(cTail) \in FrameType /\ FrameAt(cTail).opening <= openings
      BY <1>0, LineTypes DEF PathTypeOK
    <3>2. heard' = FrameAt(cTail).opening /\ cascadeOf' \in {heard', cascadeOf}
      BY <1>8, UseHears
    <3>3. QED BY <1>0, <2>1, <3>1, <3>2 DEF PathTypeOK, FrameType, sinkVars
  <2>4. QED BY <1>0, <2>1, <2>2, <2>3
        DEF PathTypes, PathTypeOK, GateOwes, SinkWrites, FrameAt, GateNow, sinkVars, gateVars, ringVars
<1>9. QED BY <1>2, <1>3, <1>4, <1>5, <1>6, <1>7, <1>8 DEF PathNext, FrameSink, InferenceTick

(* The indices keep their shape unless a drop falls into a read.           *)
LEMMA RingShapeNext == PathInv /\ PathNext => RingShape'
<1> SUFFICES ASSUME PathInv, PathNext, ~spoiled' PROVE RingShape'
  BY DEF RingShape
<1> USE PathAssumption
<1>0. /\ head \in Nat /\ tail \in Nat /\ cTail \in Nat /\ RingShape /\ SinkWrites
      /\ writing \in {"no", "drop", "fill", "commit"}
  BY DEF PathInv, PathTypes, PathTypeOK
<1>1. ~spoiled
  <2>1. spoiled => spoiled'
    BY DEF PathNext, FrameSink, InferenceTick, AudioBlock, AcquireWrite, DropOldest, Fill,
           CommitWrite, LoadTail, AcquireRead, UseSlot, CommitRead
  <2>2. QED BY <2>1
<1>2. CASE AudioBlock
  BY <1>0, <1>1, <1>2 DEF AudioBlock, RingShape, ringVars, tickVars
<1>3. CASE AcquireWrite
  BY <1>0, <1>1, <1>3 DEF AcquireWrite, Full, RingShape, ringVars, tickVars
<1>4. CASE DropOldest
  <2>1. reading = "no"
    BY <1>4 DEF DropOldest
  <2>2. QED BY <1>0, <1>1, <1>4, <2>1 DEF DropOldest, RingShape, tickVars
<1>5. CASE Fill
  BY <1>0, <1>1, <1>5 DEF Fill, RingShape, tickVars
<1>6. CASE CommitWrite
  BY <1>0, <1>1, <1>6 DEF CommitWrite, RingShape, tickVars
<1>7. CASE LoadTail
  BY <1>0, <1>1, <1>7 DEF LoadTail, RingShape, ringVars, sinkVars
<1>8. CASE AcquireRead
  BY <1>0, <1>1, <1>8 DEF AcquireRead, RingShape, ringVars, sinkVars
<1>9. CASE UseSlot
  BY <1>0, <1>1, <1>9 DEF UseSlot, RingShape, ringVars, sinkVars
<1>10. CASE CommitRead
  BY <1>0, <1>1, <1>10 DEF CommitRead, RingShape, sinkVars
<1>11. QED BY <1>2, <1>3, <1>4, <1>5, <1>6, <1>7, <1>8, <1>9, <1>10
          DEF PathNext, FrameSink, InferenceTick

(* The line stays in order, and a cascade begins only in a later opening   *)
(* than the one before, unless a drop falls into a read.                   *)
LEMMA InOrderNext ==
  PathInv /\ PathNext
    => InOrder' /\ (idCounter' # idCounter /\ ~spoiled => heard' > cascadeOf)
<1> SUFFICES ASSUME PathInv, PathNext
             PROVE  InOrder' /\ (idCounter' # idCounter /\ ~spoiled => heard' > cascadeOf)
  OBVIOUS
<1>0. /\ head \in Nat /\ tail \in Nat /\ Unheard \in Nat /\ cTail \in Nat
      /\ heard \in Nat /\ cascadeOf \in Nat /\ openings \in Nat
      /\ LastHeard \in FrameType /\ GateNow \in FrameType
      /\ \A i \in Nat : FrameAt(i) \in FrameType
      /\ RingShape /\ InOrder /\ PathTypes /\ SinkWrites
      /\ LastHeard.opening = heard /\ LastHeard.speech = prevSpeech
  <2>1. heard \in Nat /\ cascadeOf \in Nat
    BY DEF PathInv, PathTypes, PathTypeOK
  <2>2. QED BY <2>1, LineTypes DEF PathInv, PathTypes, PathTypeOK, LastHeard
<1>1. CASE spoiled'
  <2>1. spoiled \/ DropOldest
    BY <1>1 DEF PathNext, FrameSink, InferenceTick, AudioBlock, AcquireWrite, DropOldest, Fill,
           CommitWrite, LoadTail, AcquireRead, UseSlot, CommitRead
  <2>2. DropOldest => UNCHANGED idCounter
    BY DEF DropOldest, vars
  <2>3. QED BY <1>1, <2>1, <2>2 DEF InOrder
<1>2. CASE ~spoiled'
  <2>0. ~spoiled
    BY <1>2 DEF PathNext, FrameSink, InferenceTick, AudioBlock, AcquireWrite, DropOldest, Fill,
           CommitWrite, LoadTail, AcquireRead, UseSlot, CommitRead
  <2>1. /\ cascadeOf <= heard /\ Later(LastHeard, GateNow)
        /\ \A i \in Unheard..(head - 1) :
              Later(LastHeard, FrameAt(i)) /\ Later(FrameAt(i), GateNow)
        /\ \A i, j \in Unheard..(head - 1) : i < j => Later(FrameAt(i), FrameAt(j))
    BY <1>0, <2>0 DEF InOrder
  <2>2. CASE UseSlot
    <3>1. /\ reading = "use" /\ reading' = "commit" /\ cTail = tail /\ tail < head
          /\ Unheard = tail /\ Unheard' = tail + 1
          /\ head' = head /\ GateNow' = GateNow /\ \A i \in Nat : FrameAt(i)' = FrameAt(i)
      BY <1>0, <2>0, <2>2
         DEF UseSlot, Unheard, RingShape, ringVars, sinkVars, gateVars, GateNow, FrameAt
    <3>2. /\ LastHeard' = FrameAt(tail) /\ heard' = FrameAt(tail).opening
          /\ idCounter' = IF ~prevSpeech /\ FrameAt(tail).speech THEN idCounter + 1
                          ELSE idCounter
          /\ cascadeOf' = IF idCounter' # idCounter THEN heard' ELSE cascadeOf
      BY <2>2, <3>1, UseHears
    <3>3. FrameAt(tail) \in FrameType /\ Later(LastHeard, FrameAt(tail))
      BY <1>0, <2>1, <3>1
    <3>4. heard <= heard' /\ heard' \in Nat /\ cascadeOf' <= heard'
      BY <1>0, <2>1, <3>2, <3>3 DEF Later, FrameType
    <3>5. idCounter' # idCounter => heard' > cascadeOf
      BY <1>0, <2>1, <3>2, <3>3 DEF Later, FrameType
    <3>6. /\ Later(FrameAt(tail), GateNow)
          /\ \A i \in (tail + 1)..(head - 1) :
                Later(FrameAt(tail), FrameAt(i)) /\ Later(FrameAt(i), GateNow)
          /\ \A i, j \in (tail + 1)..(head - 1) : i < j => Later(FrameAt(i), FrameAt(j))
      BY <1>0, <2>1, <3>1
    <3>7. Later(LastHeard, GateNow)'
      BY <3>1, <3>2, <3>6 DEF Later
    <3>8. \A i \in (tail + 1)..(head - 1) :
             Later(LastHeard', FrameAt(i)') /\ Later(FrameAt(i)', GateNow')
      BY <1>0, <3>1, <3>2, <3>6
    <3>9. \A i, j \in (tail + 1)..(head - 1) : i < j => Later(FrameAt(i)', FrameAt(j)')
      BY <1>0, <3>1, <3>6
    <3>10. QED BY <3>1, <3>4, <3>5, <3>7, <3>8, <3>9 DEF InOrder, Later
  <2>3. ASSUME UNCHANGED vars, UNCHANGED <<heard, cascadeOf>>, GateNow' \in FrameType,
               Later(GateNow, GateNow'), Unheard' \in Nat, Unheard' >= Unheard,
               \A i \in Unheard..(head - 1) : FrameAt(i)' = FrameAt(i),
               \/ head' = head
               \/ head' = head + 1 /\ slots'[SlotOf(head)] = GateNow /\ GateNow' = GateNow
        PROVE  InOrder' /\ idCounter' = idCounter
    <3>1. LastHeard' = LastHeard /\ idCounter' = idCounter
      BY <2>3 DEF LastHeard, vars
    <3>2. Later(LastHeard, GateNow')
      BY <1>0, <2>1, <2>3, LineRules
    <3>3. ASSUME NEW i \in Unheard'..(head' - 1)
          PROVE  /\ Later(LastHeard, FrameAt(i)') /\ Later(FrameAt(i)', GateNow')
                 /\ \A j \in Unheard'..(head' - 1) : i < j => Later(FrameAt(i)', FrameAt(j)')
      <4>1. CASE i <= head - 1
        <5>1. i \in Unheard..(head - 1) /\ i \in Nat
          BY <1>0, <2>3, <4>1
        <5>2. FrameAt(i)' = FrameAt(i) /\ FrameAt(i) \in FrameType
          BY <1>0, <2>3, <5>1
        <5>3. Later(LastHeard, FrameAt(i)) /\ Later(FrameAt(i), GateNow)
          BY <2>1, <5>1
        <5>4. Later(FrameAt(i), GateNow')
          BY <1>0, <2>3, <5>2, <5>3, LineRules
        <5>5. ASSUME NEW j \in Unheard'..(head' - 1), i < j
              PROVE  Later(FrameAt(i), FrameAt(j)')
          <6>1. CASE j <= head - 1
            <7>1. j \in Unheard..(head - 1)
              BY <1>0, <2>3, <6>1
            <7>2. FrameAt(j)' = FrameAt(j) /\ Later(FrameAt(i), FrameAt(j))
              BY <2>1, <2>3, <5>1, <5>5, <7>1
            <7>3. QED BY <7>2
          <6>2. CASE ~(j <= head - 1)
            <7>1. j = head /\ FrameAt(j)' = GateNow
              BY <1>0, <2>3, <6>2 DEF FrameAt
            <7>2. QED BY <5>3, <7>1
          <6>3. QED BY <6>1, <6>2
        <5>6. QED BY <5>2, <5>3, <5>4, <5>5
      <4>2. CASE ~(i <= head - 1)
        <5>1. i = head /\ head' = head + 1 /\ FrameAt(i)' = GateNow /\ GateNow' = GateNow
          BY <1>0, <2>3, <4>2 DEF FrameAt
        <5>2. Later(LastHeard, GateNow) /\ Later(GateNow, GateNow)
          BY <1>0, <2>1, LineRules
        <5>3. \A j \in Unheard'..(head' - 1) : ~(i < j)
          BY <1>0, <2>3, <5>1
        <5>4. QED BY <5>1, <5>2, <5>3
      <4>3. QED BY <4>1, <4>2
    <3>4. cascadeOf' <= heard'
      BY <2>1, <2>3
    <3>5. QED BY <3>1, <3>2, <3>3, <3>4 DEF InOrder, Later
  <2>4. Later(GateNow, GateNow)
    BY <1>0, LineRules
  <2>5. CASE AudioBlock
    <3>1. /\ UNCHANGED <<vars, ringVars, heard, cascadeOf, reading>>
          /\ openings' = IF open' /\ ~open THEN openings + 1 ELSE openings
      BY <2>5 DEF AudioBlock, tickVars
    <3>2. GateNow' \in FrameType
      <4>1. open' \in BOOLEAN /\ openings' \in Nat
        BY PathTypesNext DEF PathTypes, PathTypeOK
      <4>2. QED BY <4>1 DEF GateNow, FrameType
    <3>3. Later(GateNow, GateNow')
      BY <1>0, <3>1 DEF Later, GateNow
    <3>4. Unheard' = Unheard /\ head' = head /\ \A i \in Nat : FrameAt(i)' = FrameAt(i)
      BY <3>1 DEF Unheard, FrameAt, ringVars
    <3>5. QED BY <1>0, <2>3, <3>1, <3>2, <3>3, <3>4
  <2>6. CASE AcquireWrite
    <3>1. UNCHANGED <<vars, ringVars, gateVars, openings, tickVars>>
      BY <2>6 DEF AcquireWrite
    <3>2. /\ Unheard' = Unheard /\ head' = head /\ \A i \in Nat : FrameAt(i)' = FrameAt(i)
          /\ GateNow' = GateNow /\ UNCHANGED <<heard, cascadeOf>>
      BY <3>1 DEF Unheard, FrameAt, GateNow, ringVars, gateVars, tickVars
    <3>3. QED BY <1>0, <2>3, <2>4, <3>1, <3>2
  <2>7. CASE DropOldest
    <3>1. /\ UNCHANGED <<vars, slots, head, gateVars, openings, tickVars>>
          /\ tail' = tail + 1
      BY <2>7 DEF DropOldest
    <3>2. /\ Unheard' = Unheard + 1 /\ head' = head /\ \A i \in Nat : FrameAt(i)' = FrameAt(i)
          /\ GateNow' = GateNow /\ UNCHANGED <<heard, cascadeOf>>
      BY <1>0, <3>1 DEF Unheard, FrameAt, GateNow, gateVars, tickVars
    <3>3. QED BY <1>0, <2>3, <2>4, <3>1, <3>2
  <2>8. CASE Fill
    <3>1. UNCHANGED <<vars, head, tail, gateVars, openings, tickVars>>
      BY <2>8 DEF Fill
    <3>2. /\ Unheard' = Unheard /\ GateNow' = GateNow /\ UNCHANGED <<heard, cascadeOf>>
          /\ tail <= Unheard
      BY <1>0, <3>1 DEF Unheard, GateNow, gateVars, tickVars
    <3>3. \A i \in Unheard..(head - 1) : FrameAt(i)' = FrameAt(i)
      BY <1>0, <2>0, <2>8, <3>2, FillElsewhere
    <3>4. QED BY <1>0, <2>3, <2>4, <3>1, <3>2, <3>3
  <2>9. CASE CommitWrite
    <3>1. /\ UNCHANGED <<vars, slots, tail, gateVars, openings, tickVars>>
          /\ writing = "commit" /\ head' = head + 1
      BY <2>9 DEF CommitWrite
    <3>2. /\ Unheard' = Unheard /\ \A i \in Nat : FrameAt(i)' = FrameAt(i)
          /\ GateNow' = GateNow /\ UNCHANGED <<heard, cascadeOf>>
      BY <3>1 DEF Unheard, FrameAt, GateNow, gateVars, tickVars
    <3>3. slots'[SlotOf(head)] = GateNow
      BY <1>0, <3>1 DEF SinkWrites, FrameAt
    <3>4. QED BY <1>0, <2>3, <2>4, <3>1, <3>2, <3>3
  <2>10. CASE LoadTail \/ AcquireRead
    <3>1. /\ UNCHANGED <<vars, ringVars, sinkVars, heard, cascadeOf>>
          /\ reading # "commit" /\ reading' # "commit"
      BY <2>10 DEF LoadTail, AcquireRead
    <3>2. /\ Unheard' = Unheard /\ head' = head /\ \A i \in Nat : FrameAt(i)' = FrameAt(i)
          /\ GateNow' = GateNow
      BY <3>1 DEF Unheard, FrameAt, GateNow, ringVars, sinkVars, gateVars
    <3>3. QED BY <1>0, <2>3, <2>4, <3>1, <3>2
  <2>11. CASE CommitRead
    <3>1. /\ UNCHANGED <<vars, slots, head, sinkVars, heard, cascadeOf>>
          /\ reading = "commit" /\ reading' = "no" /\ tail' = tail + 1
      BY <2>11 DEF CommitRead
    <3>2. /\ Unheard' = Unheard /\ \A i \in Nat : FrameAt(i)' = FrameAt(i)
          /\ GateNow' = GateNow
      BY <3>1 DEF Unheard, FrameAt, GateNow, sinkVars, gateVars
    <3>3. QED BY <1>0, <2>3, <2>4, <3>1, <3>2
  <2>12. QED BY <2>2, <2>5, <2>6, <2>7, <2>8, <2>9, <2>10, <2>11
             DEF PathNext, FrameSink, InferenceTick
<1>3. QED BY <1>1, <1>2

(* While every block leaves its frames, none goes missing from the line.   *)
LEMMA NoneMissingNext == PathInv /\ PathNext => NoneMissing'
<1> SUFFICES ASSUME PathInv, PathNext, ~gap' PROVE NoneMissing'
  BY DEF NoneMissing
<1>0. /\ head \in Nat /\ tail \in Nat /\ Unheard \in Nat /\ cTail \in Nat /\ pending \in Nat
      /\ heard \in Nat /\ openings \in Nat /\ idCounter \in Nat
      /\ LastHeard \in FrameType /\ GateNow \in FrameType
      /\ \A i \in Nat : FrameAt(i) \in FrameType
      /\ RingShape /\ NoneMissing /\ SinkWrites
      /\ LastHeard.opening = heard /\ LastHeard.speech = prevSpeech
  <2>1. heard \in Nat /\ pending \in Nat /\ idCounter \in Nat
    BY PathAssumption DEF PathInv, PathTypes, PathTypeOK, TypeOK
  <2>2. QED BY <2>1, LineTypes DEF PathInv, PathTypes, PathTypeOK, LastHeard
<1>1. ~gap /\ spoiled' = spoiled
  <2>1. ~DropOldest
    BY DEF DropOldest
  <2>2. spoiled' = spoiled
    BY <2>1 DEF PathNext, FrameSink, InferenceTick, AudioBlock, AcquireWrite, Fill,
                CommitWrite, LoadTail, AcquireRead, UseSlot, CommitRead
  <2>3. AudioBlock => ~gap
    BY Zenon DEF AudioBlock
  <2>4. AudioBlock \/ gap' = gap
    BY <2>1 DEF PathNext, FrameSink, InferenceTick, AcquireWrite, Fill,
                CommitWrite, LoadTail, AcquireRead, UseSlot, CommitRead
  <2>5. QED BY <2>2, <2>3, <2>4
<1>2. /\ ~spoiled /\ tail <= head /\ idCounter = heard
      /\ \A i \in Unheard..(head - 1) : Following(Before(i), FrameAt(i))
      /\ Following(Before(head), GateNow)
      /\ pending = 0 => Before(head) = GateNow
  BY <1>0, <1>1 DEF NoneMissing
<1>3. tail <= Unheard /\ Unheard <= head
  BY <1>0, <1>2 DEF RingShape, Unheard
<1>4. Following(GateNow, GateNow)
  BY <1>0, LineRules
<1>5. ASSUME UNCHANGED <<heard, idCounter, prevSpeech>>, tail' <= head', Unheard' = Unheard,
             \A i \in Unheard..(head - 1) : FrameAt(i)' = FrameAt(i),
             \/ /\ head' = head /\ Following(Before(head), GateNow')
                /\ pending' = 0 => Before(head) = GateNow'
             \/ head' = head + 1 /\ slots'[SlotOf(head)] = GateNow /\ GateNow' = GateNow
      PROVE  NoneMissing'
  <2>1. LastHeard' = LastHeard
    BY <1>5 DEF LastHeard
  <2>2. \A i \in Unheard..head : Before(i)' = Before(i)
    BY <1>0, <1>3, <1>5, <2>1 DEF Before
  <2>3. \A i \in Unheard..(head - 1) : Following(Before(i)', FrameAt(i)')
    BY <1>0, <1>2, <1>5, <2>2
  <2>4. CASE head' = head /\ Following(Before(head), GateNow')
             /\ (pending' = 0 => Before(head) = GateNow')
    <3>1. Before(head)' = Before(head)
      BY <1>0, <1>3, <2>2, <2>4
    <3>2. QED BY <1>1, <1>2, <1>5, <2>3, <2>4, <3>1 DEF NoneMissing, Following
  <2>5. CASE head' = head + 1 /\ slots'[SlotOf(head)] = GateNow /\ GateNow' = GateNow
    <3>1. \A i \in {head} : Before(i)' = Before(i) /\ FrameAt(i)' = GateNow
      BY <1>0, <1>3, <2>2, <2>5 DEF FrameAt
    <3>2. \A i \in Unheard..(head' - 1) : Following(Before(i)', FrameAt(i)')
      BY <1>0, <1>2, <1>3, <2>3, <2>5, <3>1
    <3>3. Before(head)' = GateNow
      BY <1>0, <1>3, <1>5, <2>5 DEF Before, FrameAt
    <3>4. QED BY <1>1, <1>2, <1>4, <1>5, <2>5, <3>2, <3>3 DEF NoneMissing, Following
  <2>6. QED BY <1>5, <2>4, <2>5
<1>6. CASE AudioBlock
  <2>1. /\ UNCHANGED <<vars, ringVars, tickVars>> /\ pending = 0 /\ pending' # 0
        /\ openings' = IF open' /\ ~open THEN openings + 1 ELSE openings
    BY <1>6 DEF AudioBlock
  <2>2. /\ Unheard' = Unheard /\ \A i \in Nat : FrameAt(i)' = FrameAt(i)
        /\ UNCHANGED <<head, tail, heard, idCounter, prevSpeech>>
    BY <2>1 DEF Unheard, FrameAt, ringVars, tickVars, vars
  <2>3. open' \in BOOLEAN /\ open \in BOOLEAN
    BY PathTypesNext DEF PathTypes, PathTypeOK, PathInv
  <2>4. Following(GateNow, GateNow')
    BY <1>0, <2>1, <2>3 DEF Following, GateNow
  <2>5. QED BY <1>0, <1>2, <1>5, <2>1, <2>2, <2>4
<1>7. CASE AcquireWrite
  <2>1. UNCHANGED <<vars, ringVars, gateVars, pending, openings, tickVars>>
    BY <1>7 DEF AcquireWrite
  <2>2. /\ Unheard' = Unheard /\ \A i \in Nat : FrameAt(i)' = FrameAt(i) /\ GateNow' = GateNow
        /\ UNCHANGED <<head, tail, heard, idCounter, prevSpeech>>
    BY <2>1 DEF Unheard, FrameAt, GateNow, ringVars, gateVars, tickVars, vars
  <2>3. QED BY <1>0, <1>2, <1>5, <2>1, <2>2
<1>8. CASE DropOldest
  BY <1>8 DEF DropOldest
<1>9. CASE Fill
  <2>1. UNCHANGED <<vars, head, tail, gateVars, pending, openings, tickVars>>
    BY <1>9 DEF Fill
  <2>2. /\ Unheard' = Unheard /\ GateNow' = GateNow
        /\ UNCHANGED <<head, tail, heard, idCounter, prevSpeech>>
    BY <2>1 DEF Unheard, GateNow, gateVars, tickVars, vars
  <2>3. \A i \in Unheard..(head - 1) : FrameAt(i)' = FrameAt(i)
    BY <1>0, <1>2, <1>3, <1>9, FillElsewhere
  <2>4. QED BY <1>0, <1>2, <1>5, <2>1, <2>2, <2>3
<1>10. CASE CommitWrite
  <2>1. /\ UNCHANGED <<vars, slots, tail, gateVars, openings, tickVars>>
        /\ writing = "commit" /\ head' = head + 1
    BY <1>10 DEF CommitWrite
  <2>2. /\ Unheard' = Unheard /\ \A i \in Nat : FrameAt(i)' = FrameAt(i) /\ GateNow' = GateNow
        /\ UNCHANGED <<tail, heard, idCounter, prevSpeech>>
    BY <2>1 DEF Unheard, FrameAt, GateNow, gateVars, tickVars, vars
  <2>3. slots'[SlotOf(head)] = GateNow
    BY <1>0, <2>1 DEF SinkWrites, FrameAt
  <2>4. QED BY <1>0, <1>2, <1>5, <2>1, <2>2, <2>3
<1>11. CASE LoadTail \/ AcquireRead
  <2>1. /\ UNCHANGED <<vars, ringVars, sinkVars, heard, cascadeOf>>
        /\ reading # "commit" /\ reading' # "commit"
    BY <1>11 DEF LoadTail, AcquireRead
  <2>2. /\ Unheard' = Unheard /\ \A i \in Nat : FrameAt(i)' = FrameAt(i) /\ GateNow' = GateNow
        /\ UNCHANGED <<head, tail, heard, idCounter, prevSpeech, pending>>
    BY <2>1 DEF Unheard, FrameAt, GateNow, ringVars, sinkVars, gateVars, vars
  <2>3. QED BY <1>0, <1>2, <1>5, <2>1, <2>2
<1>12. CASE UseSlot
  <2>1. /\ reading = "use" /\ cTail = tail /\ tail < head
        /\ Unheard = tail /\ Unheard' = tail + 1 /\ UNCHANGED <<head, tail, pending>>
        /\ GateNow' = GateNow /\ \A i \in Nat : FrameAt(i)' = FrameAt(i)
    BY <1>0, <1>2, <1>12
       DEF UseSlot, Unheard, RingShape, ringVars, sinkVars, gateVars, GateNow, FrameAt
  <2>2. /\ LastHeard' = FrameAt(tail) /\ heard' = FrameAt(tail).opening
        /\ idCounter' = IF ~prevSpeech /\ FrameAt(tail).speech THEN idCounter + 1 ELSE idCounter
    BY <1>12, <2>1, UseHears
  <2>3. Following(LastHeard, FrameAt(tail))
    BY <1>0, <1>2, <2>1 DEF Before
  <2>4. idCounter' = heard'
    BY <1>0, <1>2, <2>2, <2>3 DEF Following
  <2>5. \A i \in (tail + 1)..head : Before(i)' = Before(i)
    BY <1>0, <2>1, <2>2 DEF Before
  <2>6. \A i \in (tail + 1)..(head - 1) : Following(Before(i)', FrameAt(i)')
    BY <1>0, <1>2, <2>1, <2>5
  <2>7. Before(head)' = Before(head)
    BY <1>0, <2>1, <2>5
  <2>8. QED BY <1>1, <1>2, <2>1, <2>4, <2>6, <2>7 DEF NoneMissing, Following
<1>13. CASE CommitRead
  <2>1. /\ UNCHANGED <<vars, slots, head, sinkVars, heard, cascadeOf>>
        /\ reading = "commit" /\ reading' = "no" /\ tail' = tail + 1
    BY <1>13 DEF CommitRead
  <2>2. /\ Unheard' = Unheard /\ \A i \in Nat : FrameAt(i)' = FrameAt(i) /\ GateNow' = GateNow
        /\ UNCHANGED <<head, heard, idCounter, prevSpeech, pending>> /\ tail' <= head
    BY <1>3, <2>1 DEF Unheard, FrameAt, GateNow, sinkVars, gateVars, vars
  <2>3. QED BY <1>0, <1>2, <1>5, <2>1, <2>2
<1>14. QED BY <1>6, <1>7, <1>8, <1>9, <1>10, <1>11, <1>12, <1>13
           DEF PathNext, FrameSink, InferenceTick

(* Every reachable state of the path satisfies every part.                 *)
LEMMA PathInvariant == PathSpec => []PathInv
<1>1. PathInv /\ [PathNext]_<<vars, pathVars>> => PathInv'
  <2>1. CASE PathNext
    BY <2>1, PathTypesNext, RingShapeNext, InOrderNext, NoneMissingNext DEF PathInv
  <2>2. CASE UNCHANGED <<vars, pathVars>>
    <3> SUFFICES ASSUME PathInv PROVE PathInv'
      BY <2>2
    <3>1. CascadeInv'
      BY <2>2, CascadeStep DEF PathInv
    <3>2. TypeOK'
      BY <3>1 DEF CascadeInv
    <3>3. PathTypes' /\ GateOwes'
      BY <2>2, <3>2
         DEF PathInv, PathTypes, PathTypeOK, GateOwes, pathVars, ringVars, sinkVars, tickVars, gateVars
    <3>4. SinkWrites' /\ RingShape'
      BY <2>2
         DEF PathInv, SinkWrites, RingShape, FrameAt, GateNow, pathVars, ringVars, sinkVars,
             tickVars, gateVars
    <3>5. UNCHANGED <<Unheard, LastHeard, GateNow, head, tail, spoiled, gap, cascadeOf, heard,
                      idCounter, pending, slots>>
      BY <2>2 DEF Unheard, LastHeard, GateNow, pathVars, ringVars, sinkVars, tickVars, gateVars, vars
    <3>6. InOrder' /\ NoneMissing'
      BY <3>5 DEF PathInv, InOrder, NoneMissing, Later, Following, Before, FrameAt
    <3>7. QED BY <3>1, <3>3, <3>4, <3>6 DEF PathInv
  <2>3. QED BY <2>1, <2>2
<1>2. QED BY <1>1, PathInitial, PTL DEF PathSpec

(* Counters, gate and ring stay in their bounds, however often the ring    *)
(* overflows, also when a drop falls into a read.                          *)
THEOREM PathTypesHold == PathSpec => []PathTypeOK
<1>1. PathInv => PathTypeOK
  BY DEF PathInv, PathTypes
<1>2. QED BY <1>1, PathInvariant, PTL

(* As long as every block leaves its frames in the ring, the detector has  *)
(* started a cascade for every opening of the gate it heard.               *)
THEOREM PathEveryOpeningHeard == PathSpec => []EveryOpeningHeard
<1>1. PathInv => EveryOpeningHeard
  BY DEF PathInv, NoneMissing, EveryOpeningHeard
<1>2. QED BY <1>1, PathInvariant, PTL

(* One opening of the gate, at most one cascade, hence at most one         *)
(* detection, over dropped frames too, until a drop falls between the      *)
(* tick's load of tail_ and its commitRead: the detector sees an edge only *)
(* where the gate was closed and opened again.                             *)
THEOREM PathOneCascade == PathSpec => OneCascadePerOpening
<1> DEFINE OneCascade == idCounter' # idCounter /\ ~spoiled => heard' > cascadeOf
<1>1. PathInv /\ [PathNext]_<<vars, pathVars>> => [OneCascade]_<<vars, pathVars>>
  BY InOrderNext
<1>2. QED BY <1>1, PathInvariant, PTL DEF PathSpec, OneCascadePerOpening

(* The gate opens again only after hangoverFrames quiet blocks in a row.   *)
THEOREM PathHangover == PathSpec => HangoverHolds
<1> DEFINE Bridged == openings' > openings /\ openings > 0 => quiet >= HangoverFrames
<1>1. PathInv /\ [PathNext]_<<vars, pathVars>> => [Bridged]_<<vars, pathVars>>
  <2> SUFFICES ASSUME PathInv, PathNext, openings' > openings PROVE quiet >= HangoverFrames
    OBVIOUS
  <2>1. openings \in Nat
    BY DEF PathInv, PathTypes, PathTypeOK
  <2>2. AudioBlock \/ UNCHANGED openings
    BY DEF PathNext, FrameSink, InferenceTick, AcquireWrite, DropOldest, Fill, CommitWrite,
           LoadTail, AcquireRead, UseSlot, CommitRead, sinkVars
  <2>3. Gate!Process /\ open' /\ ~open
    BY <2>1, <2>2 DEF AudioBlock
  <2>4. QED BY <2>3, GateStep DEF PathInv
<1>2. QED BY <1>1, PathInvariant, PTL DEF PathSpec, HangoverHolds

(* On its path the detector is fed only flags a gate gave, if not always   *)
(* in their order, and every step of the path is one of the detector alone *)
(* or leaves it as it is: so all that holds of the detector for every      *)
(* input holds of it here.                                                 *)
THEOREM PathImplementsDetector == PathSpec => Spec
<1>1. PathInit => Init
  BY DEF PathInit
<1>2. PathInv /\ [PathNext]_<<vars, pathVars>> => [Next]_vars
  <2> SUFFICES ASSUME PathInv, [PathNext]_<<vars, pathVars>> PROVE [Next]_vars
    OBVIOUS
  <2>1. CASE UseSlot
    <3>1. PushFeature(FrameAt(cTail).speech) /\ FrameAt(cTail) \in FrameType
      BY <2>1, LineTypes DEF UseSlot, FrameAt, PathInv, PathTypes, PathTypeOK
    <3>2. QED BY <3>1 DEF Next, FrameType
  <2>2. UseSlot \/ UNCHANGED vars
    BY DEF PathNext, FrameSink, InferenceTick, AudioBlock, AcquireWrite, DropOldest, Fill,
           CommitWrite, LoadTail, AcquireRead, CommitRead
  <2>3. QED BY <2>1, <2>2
<1>3. QED BY <1>1, <1>2, PathInvariant, PTL DEF PathSpec, Spec

(* Hence whatever the ring drops and however the gate chops the speech,    *)
(* the detector behind them implements WakeSpotter.                        *)
THEOREM PathImplementsSpotter == PathSpec => ImplementsSpotter
BY PathImplementsDetector, CascadeImplementsSpotter

(* The detections of the path stand on M fresh positive scores and on an   *)
(* inference every hop, as those of the detector alone do.                 *)
THEOREM PathSmoothed == PathSpec => SmoothedDetection /\ InferenceCadence
BY PathImplementsDetector, CascadeSmoothed, CascadeCadence

=============================================================================
