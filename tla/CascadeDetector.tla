-------------------------- MODULE CascadeDetector ---------------------------
(***************************************************************************)
(* core/detect/Stage1Detector: the windowed detection cascade.  It lives on*)
(* the Inference thread alone, so pushFeature is one step: the frame's VAD *)
(* flag is its input, and so are the answers of the two models when it     *)
(* runs them.  A model's answer is what the code tells apart: the call     *)
(* failed, the calibrated score is below the threshold, or at or above it. *)
(*                                                                         *)
(* now, lastId, lastAt, lastInferAt, lastInferId, scores, spent: histories.  *)
(***************************************************************************)
EXTENDS Integers, Sequences

CONSTANTS
  WindowFrames,        \* cfg_.stage1WindowFrames
  HopFrames,           \* cfg_.stage1HopFrames
  ConsecutiveWindows,  \* cfg_.stage1ConsecutiveWindows
  RefractoryFrames,    \* cfg_.refractoryFrames
  MaxFrames            \* bound: frames pushed

ASSUME CascadeAssumption ==
  /\ WindowFrames \in Nat \ {0}
  /\ HopFrames \in Nat
  /\ ConsecutiveWindows \in Int
  /\ RefractoryFrames \in Nat
  /\ MaxFrames \in Nat

VARIABLES
  fsm,                  \* fsm_.state()
  prevSpeech,           \* prevSpeech_
  framesFilled,         \* framesFilled_: rows in the window
  framesSinceInfer,     \* framesSinceInfer_
  refractory,           \* refractory_
  consecutivePositive,  \* consecutivePositive_
  currentId,            \* currentId_ (0: the empty id)
  idCounter,            \* idCounter_
  arena,                \* whether the constructor's arena_.reserve got its memory
  stage2,               \* stage2Backend_ && cfg_.stage2Enabled
  now,                  \* frames pushed
  lastId, lastAt,       \* id and frame of the last detection (frame 0: none since reset)
  lastInferAt, lastInferId,  \* frame and cascade of the last Stage-1 inference
  scores,               \* what Stage-1 answered since the last reset
  spent                 \* how many of those the last Stage-1 trigger had used up

decision == <<refractory, consecutivePositive>>
wiring   == <<arena, stage2>>
history  == <<lastId, lastAt, lastInferAt, lastInferId, scores, spent>>
vars == <<fsm, prevSpeech, framesFilled, framesSinceInfer, decision, currentId,
          idCounter, wiring, now, history>>

States == {"Idle", "VadTriggered", "Stage1Running", "Stage2Running",
           "DetectionConfirmed"}

\* The cascade's transition function: an event a state does not name leaves it.
transition(s, e) ==
  CASE s = "Idle" /\ e = "VadOpened"                  -> "VadTriggered"
    [] s = "VadTriggered" /\ e = "Stage1Started"      -> "Stage1Running"
    [] s = "Stage1Running" /\ e = "Stage1Fired"       -> "Stage2Running"
    [] s = "Stage1Running" /\ e = "Stage1Rejected"    -> "VadTriggered"
    [] s = "Stage2Running" /\ e = "Stage2Fired"       -> "DetectionConfirmed"
    [] s = "Stage2Running" /\ e = "Stage2Rejected"    -> "VadTriggered"
    [] s = "DetectionConfirmed" /\ e = "VadOpened"    -> "VadTriggered"
    [] s # "Idle" /\ e = "VadClosed"                  -> "Idle"
    [] OTHER                                          -> s

\* M consecutive windows, at least one.
Needed == IF ConsecutiveWindows > 0 THEN ConsecutiveWindows ELSE 1

Init ==
  /\ fsm = "Idle" /\ prevSpeech = FALSE
  /\ framesFilled = 0 /\ framesSinceInfer = 0
  /\ refractory = 0 /\ consecutivePositive = 0
  /\ currentId = 0 /\ idCounter = 0
  /\ arena \in BOOLEAN /\ stage2 \in BOOLEAN
  /\ now = 0 /\ lastId = 0 /\ lastAt = 0
  /\ lastInferAt = 0 /\ lastInferId = 0 /\ scores = <<>> /\ spent = 0

-----------------------------------------------------------------------------
(* What every pushFeature does before it may infer.                        *)

\* mutant: the count is aged whether or not anything is left of it
RefractoryUnguarded == refractory - 1

RefractoryNow == IF refractory > 0 THEN refractory - 1 ELSE refractory

FilledNow == IF framesFilled < WindowFrames THEN framesFilled + 1 ELSE framesFilled

\* mutant: every speech frame counts as an edge
OpensOnSpeech(speech) == speech

Opens(speech)  == speech /\ ~prevSpeech
Closes(speech) == ~speech /\ prevSpeech

\* A VAD-open edge starts a cascade, and mints its id, from two states only.
StartsCascade(speech) == Opens(speech) /\ fsm \in {"Idle", "DetectionConfirmed"}

IdNow(speech) == IF StartsCascade(speech) THEN idCounter + 1 ELSE currentId

\* mutant: a closing gate does not end the cascade
FsmNeverCloses(speech) ==
  IF StartsCascade(speech) THEN transition(fsm, "VadOpened") ELSE fsm

FsmNow(speech) ==
  IF StartsCascade(speech) THEN transition(fsm, "VadOpened")
  ELSE IF Closes(speech)   THEN transition(fsm, "VadClosed")
  ELSE fsm

\* An open edge lets the next full window infer at once.
SinceInferNow(speech) ==
  (IF Opens(speech) THEN HopFrames ELSE framesSinceInfer) + 1

Infers(speech) ==
  /\ speech
  /\ FsmNow(speech) \in {"VadTriggered", "Stage1Running"}
  /\ RefractoryNow = 0
  /\ FilledNow >= WindowFrames
  /\ SinceInferNow(speech) >= HopFrames

Frame(speech) ==
  /\ now < MaxFrames
  /\ now' = now + 1
  /\ prevSpeech' = speech
  /\ framesFilled' = FilledNow
  /\ currentId' = IdNow(speech)
  /\ idCounter' = IF StartsCascade(speech) THEN idCounter + 1 ELSE idCounter
  /\ UNCHANGED wiring

-----------------------------------------------------------------------------
(* pushFeature, one action per outcome.                                    *)

\* The frame only ages the counters and moves the cascade along its VAD edge.
SkipFrame(speech) ==
  /\ Frame(speech)
  /\ ~Infers(speech)
  /\ fsm' = FsmNow(speech)
  /\ framesSinceInfer' = SinceInferNow(speech)
  /\ refractory' = RefractoryNow
  /\ UNCHANGED <<consecutivePositive, history>>

Started(speech) == transition(FsmNow(speech), "Stage1Started")

\* mutant: the hop counter is not restarted by an inference
RunStage1KeepsHop(speech) ==
  /\ Frame(speech)
  /\ Infers(speech)
  /\ framesSinceInfer' = SinceInferNow(speech)

\* runStage1 is entered.
RunStage1(speech) ==
  /\ Frame(speech)
  /\ Infers(speech)
  /\ framesSinceInfer' = 0

\* The arena has no room for the window: return with Stage-1 still "running".
Stage1NoArena(speech) ==
  /\ RunStage1(speech) /\ ~arena
  /\ fsm' = Started(speech)
  /\ refractory' = RefractoryNow
  /\ UNCHANGED <<consecutivePositive, history>>

\* backend_.infer was called and answered `result`.
Inferred(speech, result) ==
  /\ RunStage1(speech) /\ arena
  /\ scores' = IF result = "failed" THEN scores ELSE Append(scores, result)
  /\ lastInferAt' = now' /\ lastInferId' = currentId'

Stage1Failed(speech) ==
  /\ Inferred(speech, "failed")
  /\ fsm' = transition(Started(speech), "Stage1Rejected")
  /\ refractory' = RefractoryNow
  /\ UNCHANGED <<consecutivePositive, lastId, lastAt, spent>>

\* mutant: a below-threshold window leaves the run of positive windows alone
Stage1LowKeepsRun(speech) ==
  /\ Inferred(speech, "low")
  /\ fsm' = transition(Started(speech), "Stage1Rejected")
  /\ refractory' = RefractoryNow
  /\ UNCHANGED <<consecutivePositive, lastId, lastAt, spent>>

\* A below-threshold window breaks the run of positive windows.
Stage1Low(speech) ==
  /\ Inferred(speech, "low")
  /\ fsm' = transition(Started(speech), "Stage1Rejected")
  /\ refractory' = RefractoryNow
  /\ consecutivePositive' = 0
  /\ UNCHANGED <<lastId, lastAt, spent>>

\* Positive, but not yet enough consecutive windows: stay armed.
Stage1Pending(speech) ==
  /\ Inferred(speech, "high")
  /\ consecutivePositive + 1 < Needed
  /\ fsm' = transition(Started(speech), "Stage1Rejected")
  /\ refractory' = RefractoryNow
  /\ consecutivePositive' = consecutivePositive + 1
  /\ UNCHANGED <<lastId, lastAt, spent>>

\* Enough positive windows: the run is spent and Stage-2 is entered.
Stage1Fired(speech) ==
  /\ Inferred(speech, "high")
  /\ consecutivePositive + 1 >= Needed
  /\ consecutivePositive' = 0
  /\ spent' = Len(scores')

Fired(speech) == transition(Started(speech), "Stage1Fired")

\* Stage-2 has no arena left, fails, or scores below its threshold.
Stage2Rejected(speech) ==
  /\ Stage1Fired(speech) /\ stage2
  /\ fsm' = transition(Fired(speech), "Stage2Rejected")
  /\ refractory' = RefractoryNow
  /\ UNCHANGED <<lastId, lastAt>>

\* mutant: confirm() arms one frame less
ConfirmShort(speech) ==
  /\ Stage1Fired(speech)
  /\ fsm' = transition(Fired(speech), "Stage2Fired")
  /\ refractory' = IF RefractoryFrames > 0 THEN RefractoryFrames - 1 ELSE 0
  /\ lastId' = currentId' /\ lastAt' = now'

\* Stage-2 agrees, or is not wired: confirm() emits the DetectionEvent.
Confirm(speech) ==
  /\ Stage1Fired(speech)
  /\ fsm' = transition(Fired(speech), "Stage2Fired")
  /\ refractory' = RefractoryFrames
  /\ lastId' = currentId' /\ lastAt' = now'

PushFeature(speech) ==
  \/ SkipFrame(speech) \/ Stage1NoArena(speech) \/ Stage1Failed(speech)
  \/ Stage1Low(speech) \/ Stage1Pending(speech)
  \/ Stage2Rejected(speech) \/ Confirm(speech)

\* reset(): everything but the id counter.
Reset ==
  /\ fsm' = "Idle" /\ prevSpeech' = FALSE
  /\ framesFilled' = 0 /\ framesSinceInfer' = 0
  /\ refractory' = 0 /\ consecutivePositive' = 0
  /\ currentId' = 0
  /\ lastAt' = 0 /\ scores' = <<>> /\ spent' = 0
  /\ UNCHANGED <<idCounter, wiring, now, lastId, lastInferAt, lastInferId>>

Next == (\E speech \in BOOLEAN : PushFeature(speech)) \/ Reset

Spec == Init /\ [][Next]_vars

-----------------------------------------------------------------------------
(* Properties.                                                             *)

\* Type invariant: the counters are naturals and the cascade is in one of its states.
TypeOK ==
  /\ fsm \in States /\ prevSpeech \in BOOLEAN
  /\ framesFilled \in 0..WindowFrames /\ framesSinceInfer \in Nat
  /\ refractory \in 0..RefractoryFrames /\ consecutivePositive \in 0..(Needed - 1)
  /\ currentId \in Nat /\ idCounter \in Nat
  /\ arena \in BOOLEAN /\ stage2 \in BOOLEAN
  /\ now \in Nat /\ lastId \in Nat /\ lastAt \in Nat
  /\ lastInferAt \in Nat /\ lastInferId \in Nat
  /\ scores \in Seq({"low", "high"}) /\ spent \in Nat

(* Between two frames the cascade is idle exactly when the last frame was  *)
(* not speech, never rests in Stage-2, and rests in Stage-1 only when the  *)
(* arena was never there: so every VAD-open edge finds it idle, and mints. *)
CascadeFollowsGate ==
  /\ fsm = "Idle" <=> ~prevSpeech
  /\ fsm # "Stage2Running"
  /\ fsm = "Stage1Running" => ~arena

(* The frames from the first to the last of k + 1 windows that count, at   *)
(* the least.  A gate that closes and opens again overrides the hop, and   *)
(* takes two frames to do so.                                              *)
Spread(k) == IF HopFrames > 1 THEN 2 * k ELSE k

(* From one detection to the next: the first window is scored when the     *)
(* refractory count, which ages before the test, reaches zero, and M of    *)
(* them are needed.                                                        *)
DetectionGap == RefractoryFrames + Spread(Needed - 1)

(* The detector is a WakeSpotter: one detection per cascade (fresh ids,    *)
(* even across reset), detections at least DetectionGap frames apart.      *)
Spotter == INSTANCE WakeSpotter WITH Gap <- DetectionGap, minted <- idCounter
ImplementsSpotter == Spotter!Spec

(* Posterior smoothing: a detection stands on the last M scores, all of    *)
(* them positive and none of them used by an earlier Stage-1 trigger.      *)
SmoothedDetection ==
  [][lastId' # lastId
       => LET n == Len(scores')
          IN  /\ n - Needed >= spent
              /\ \A i \in (n - Needed + 1)..n : scores'[i] = "high"]_vars

(* Cadence: no inference before the window is full of frames heard since   *)
(* the last reset, and within one cascade inferences are a hop apart.      *)
InferenceCadence ==
  [][lastInferAt' # lastInferAt
       => /\ framesFilled' = WindowFrames
          /\ lastInferId' = lastInferId => lastInferAt' - lastInferAt >= HopFrames]_vars
=============================================================================
