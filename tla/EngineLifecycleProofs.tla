----------------------- MODULE EngineLifecycleProofs ------------------------
(***************************************************************************)
(* Proofs about EngineLifecycle, for any ring capacities and any number of *)
(* messages and starts.                                                    *)
(***************************************************************************)
EXTENDS EngineLifecycle, SequenceTheorems, TLAPS

-----------------------------------------------------------------------------
(* The inductive invariant, part by part.                                  *)

Alone(r) == thread[r] = "none"

Up   == mic # "closed" /\ audioRunning /\ \A r \in Roles : ~Alone(r)
Down == mic = "closed" /\ ~audioRunning /\ \A r \in Roles : Alone(r)

\* How far start() has come, ...
Starting ==
  /\ app = "spawnAudio" =>
       mic # "closed" /\ ~audioRunning /\ \A r \in Roles : Alone(r)
  /\ app = "spawnInference" =>
       mic # "closed" /\ audioRunning /\ ~Alone("audio") /\ Alone("inference") /\ Alone("callback")
  /\ app = "spawnCallback" =>
       mic # "closed" /\ audioRunning /\ ~Alone("audio") /\ ~Alone("inference") /\ Alone("callback")
  /\ app = "announce" => Up

\* ... and stop().  Between two calls the engine is wholly up or wholly down.
Stopping ==
  /\ app \in {"stopAudio", "joinAudio", "stopAll", "joinInference", "joinCallback"} =>
       mic = "closed"
  /\ app \in {"joinAudio", "stopAll", "joinInference", "joinCallback"} => ~audioRunning
  /\ app \in {"stopAll", "joinInference", "joinCallback"} => Alone("audio")
  /\ app = "joinCallback" => Alone("inference")

Between ==
  /\ app \in {"idle", "openMic", "closeMic"} => Up \/ Down
  /\ state = "kStopped" => app = "idle" /\ Down

\* The Callback thread holds a message exactly while it calls the listener.
Holding == inHand # 0 <=> thread["callback"] = "call"

\* What waits is numbered on from what is handled or in hand.
Taken == IF inHand = 0 THEN handled ELSE inHand

Numbered ==
  /\ inHand # 0 => inHand = handled + 1
  /\ Len(cbQueue) = posted - Taken
  /\ \A i \in 1..Len(cbQueue) : cbQueue[i] = Taken + i

EngineInv == TypeOK /\ Starting /\ Stopping /\ Between /\ Holding /\ Numbered

-----------------------------------------------------------------------------
(* Lemmas.                                                                 *)

(* The initial state satisfies every part.                                 *)
LEMMA EngineInit == Init => EngineInv
<1> SUFFICES ASSUME Init PROVE EngineInv
  OBVIOUS
<1> USE EngineAssumption DEF Init
<1>1. TypeOK
  <2>1. /\ detector \in BOOLEAN /\ wakeWord \in BOOLEAN /\ listener \in BOOLEAN
        /\ audioRunning \in BOOLEAN /\ stopRequested \in [Roles -> BOOLEAN]
    BY Zenon
  <2>2. QED BY <2>1 DEF TypeOK, States
<1>2. Starting /\ Stopping /\ Between /\ Holding
  BY DEF Starting, Stopping, Between, Up, Down, Alone, Holding, Roles
<1>3. Numbered
  BY DEF Numbered, Taken
<1>4. QED BY <1>1, <1>2, <1>3 DEF EngineInv

(* The step of a call that leaves the queue and the Callback thread's hands*)
(* alone, and one that posts a message.                                    *)
LEMMA NumberedSame ==
  ASSUME Numbered, UNCHANGED <<queueVars, callVars>>
  PROVE  Numbered'
BY DEF Numbered, Taken, queueVars, callVars

LEMMA NumberedPost ==
  ASSUME TypeOK, Numbered, Post, UNCHANGED callVars
  PROVE  Numbered' /\ cbQueue' \in Seq(Nat) /\ posted' \in Nat
<1>1. /\ cbQueue' \in Seq(Nat) /\ Len(cbQueue') = Len(cbQueue) + 1
      /\ \A i \in 1..Len(cbQueue) : cbQueue'[i] = cbQueue[i]
      /\ cbQueue'[Len(cbQueue) + 1] = posted + 1
      /\ Len(cbQueue) \in Nat
  BY AppendProperties, LenProperties DEF TypeOK, Post
<1>2. QED BY <1>1 DEF TypeOK, Numbered, Taken, Post, callVars

(* The head of the queue is the message after the one taken last.          *)
LEMMA NumberedPop ==
  ASSUME TypeOK, Numbered, inHand = 0, cbQueue # <<>>
  PROVE  /\ Head(cbQueue) = handled + 1
         /\ Tail(cbQueue) \in Seq(Nat)
         /\ Len(Tail(cbQueue)) = posted - (handled + 1)
         /\ \A i \in 1..Len(Tail(cbQueue)) : Tail(cbQueue)[i] = (handled + 1) + i
<1>1. /\ cbQueue \in Seq(Nat) /\ Head(cbQueue) = cbQueue[1]
      /\ Tail(cbQueue) \in Seq(Nat) /\ Len(Tail(cbQueue)) = Len(cbQueue) - 1
      /\ \A i \in 1..Len(Tail(cbQueue)) : Tail(cbQueue)[i] = cbQueue[i + 1]
      /\ Len(cbQueue) \in Nat /\ Len(cbQueue) # 0
  BY HeadTailProperties, LenProperties, EmptySeq DEF TypeOK
<1>2. QED BY <1>1 DEF TypeOK, Numbered, Taken

-----------------------------------------------------------------------------
(* Types.                                                                  *)

(* Every step keeps the types.                                             *)
LEMMA EngineTypeNext == EngineInv /\ [Next]_vars => TypeOK'
<1> SUFFICES ASSUME EngineInv, [Next]_vars PROVE TypeOK'
  OBVIOUS
<1>0. TypeOK /\ Holding /\ Numbered
  BY DEF EngineInv
<1> USE EngineAssumption DEF TypeOK, apiVars, audioVars, threadVars, ringVars, queueVars, callVars
<1>1. CASE Calls
  <2>1. /\ detector' \in BOOLEAN /\ wakeWord' \in BOOLEAN /\ listener' \in BOOLEAN
        /\ audioRunning' \in BOOLEAN
    BY <1>0, <1>1, Zenon
       DEF Calls, Initialize, AddWakeWord, SetListener, StartBegin, StopBegin
  <2>2. cbQueue' \in Seq(Nat) /\ posted' \in Nat
    BY <1>0, <1>1, NumberedPost
       DEF Calls, Initialize, AddWakeWord, SetListener, StartBegin, StopBegin
  <2>3. QED
    BY <1>0, <1>1, <2>1, <2>2
       DEF Calls, Initialize, AddWakeWord, SetListener, StartBegin, StopBegin, AppGoto, States
<1>2. CASE StartSteps
  <2> USE <1>0, <1>2
      DEF StartSteps, OpenMicRefused, OpenMic, SpawnAudio, SpawnInference, SpawnCallback,
          StartDone
  <2>1. /\ detector' \in BOOLEAN /\ wakeWord' \in BOOLEAN /\ listener' \in BOOLEAN
        /\ audioRunning' \in BOOLEAN
    BY Zenon
  <2>2. cbQueue' \in Seq(Nat) /\ posted' \in Nat
    BY NumberedPost
  <2>3. thread' \in [Roles -> {"none", "check", "tick", "call", "exited"}]
        /\ stopRequested' \in [Roles -> BOOLEAN]
    BY DEF Spawn
  <2>4. QED BY <2>1, <2>2, <2>3 DEF AppGoto, States
<1>3. CASE StopSteps
  <2> USE <1>0, <1>3
      DEF StopSteps, CloseMic, StopAudio, JoinAudio, StopAll, JoinInference, JoinCallback
  <2>1. /\ detector' \in BOOLEAN /\ wakeWord' \in BOOLEAN /\ listener' \in BOOLEAN
        /\ audioRunning' \in BOOLEAN
    BY Zenon
  <2>2. thread' \in [Roles -> {"none", "check", "tick", "call", "exited"}]
        /\ stopRequested' \in [Roles -> BOOLEAN]
    BY DEF Join
  <2>3. QED BY <2>1, <2>2 DEF AppGoto, States
<1>4. CASE Capture \/ LoseDevice
  BY <1>0, <1>4 DEF Capture, LoseDevice, AtMost
<1>5. CASE AudioThread \/ InferenceThread
  <2> USE <1>0, <1>5
      DEF AudioThread, InferenceThread, CheckStop, EndTick, AudioDrain, InferenceDrain
  <2>1. cbQueue' \in Seq(Nat) /\ posted' \in Nat
    BY NumberedPost
  <2>2. QED BY <2>1 DEF AtMost, Roles
<1>6. CASE CallbackThread
  <2>1. CASE DiscardMessage \/ PopMessage
    <3>1. inHand = 0 /\ cbQueue # <<>>
      BY <1>0, <2>1 DEF DiscardMessage, PopMessage, Holding
    <3>2. Tail(cbQueue) \in Seq(Nat) /\ Head(cbQueue) \in Nat
      BY <1>0, <3>1, NumberedPop
    <3>3. QED BY <1>0, <2>1, <3>2 DEF DiscardMessage, PopMessage, Roles
  <2>2. CASE CheckStop("callback") \/ EndTick("callback", cbQueue = <<>>) \/ CallReturns
    BY <1>0, <2>2 DEF CheckStop, EndTick, CallReturns, Roles
  <2>3. QED BY <1>6, <2>1, <2>2 DEF CallbackThread
<1>7. CASE UNCHANGED vars
  BY <1>0, <1>7 DEF vars
<1>8. QED
  BY <1>1, <1>2, <1>3, <1>4, <1>5, <1>6, <1>7 DEF Next

-----------------------------------------------------------------------------
(* Messages.                                                               *)

(* Every step keeps the numbering of the messages.                         *)
LEMMA EngineNumberedNext ==
  EngineInv /\ [Next]_vars => Holding' /\ Numbered'
<1> SUFFICES ASSUME EngineInv, [Next]_vars PROVE Holding' /\ Numbered'
  OBVIOUS
<1>0. TypeOK /\ Holding /\ Numbered /\ Starting
  BY DEF EngineInv
<1>1. CASE Calls
  <2>1. Holding'
    BY <1>0, <1>1
       DEF Holding, Calls, Initialize, AddWakeWord, SetListener, StartBegin, StopBegin,
           threadVars, callVars
  <2>2. Numbered'
    BY <1>0, <1>1, NumberedSame, NumberedPost
       DEF Calls, Initialize, AddWakeWord, SetListener, StartBegin, StopBegin
  <2>3. QED BY <2>1, <2>2
<1>2. CASE StartSteps
  <2> USE <1>0, <1>2
      DEF StartSteps, OpenMicRefused, OpenMic, SpawnAudio, SpawnInference, SpawnCallback,
          StartDone
  <2>1. Holding'
    BY DEF TypeOK, Holding, Starting, Alone, AppGoto, Spawn, Roles, threadVars, callVars
  <2>2. Numbered'
    BY NumberedSame, NumberedPost
  <2>3. QED BY <2>1, <2>2
<1>3. CASE StopSteps
  <2> USE <1>0, <1>3
      DEF StopSteps, CloseMic, StopAudio, JoinAudio, StopAll, JoinInference, JoinCallback
  <2>1. Holding'
    BY DEF TypeOK, Holding, Join, Roles, threadVars, callVars
  <2>2. Numbered'
    BY NumberedSame
  <2>3. QED BY <2>1, <2>2
<1>4. CASE Capture \/ LoseDevice
  BY <1>0, <1>4, NumberedSame DEF Capture, LoseDevice, Holding, threadVars, callVars
<1>5. CASE AudioThread \/ InferenceThread
  <2> USE <1>0, <1>5
      DEF AudioThread, InferenceThread, CheckStop, EndTick, AudioDrain, InferenceDrain
  <2>1. Holding'
    BY DEF TypeOK, Holding, Roles, threadVars, callVars
  <2>2. Numbered'
    BY NumberedSame, NumberedPost
  <2>3. QED BY <2>1, <2>2
<1>6. CASE CheckStop("callback") \/ EndTick("callback", cbQueue = <<>>)
  BY <1>0, <1>6, NumberedSame DEF TypeOK, Holding, CheckStop, EndTick, Roles, callVars
<1>7. CASE DiscardMessage
  BY <1>0, <1>7, NumberedPop DEF TypeOK, Holding, Numbered, Taken, DiscardMessage, Roles
<1>8. CASE PopMessage
  BY <1>0, <1>8, NumberedPop DEF TypeOK, Holding, Numbered, Taken, PopMessage, Roles
<1>9. CASE CallReturns
  BY <1>0, <1>9 DEF TypeOK, Holding, Numbered, Taken, CallReturns, Roles, queueVars
<1>10. CASE UNCHANGED vars
  BY <1>0, <1>10, NumberedSame DEF vars, Holding, threadVars, callVars
<1>11. QED
  BY <1>1, <1>2, <1>3, <1>4, <1>5, <1>6, <1>7, <1>8, <1>9, <1>10 DEF Next, CallbackThread

-----------------------------------------------------------------------------
(* start() and stop().                                                     *)

(* What the device and the threads do leaves every thread where it counts  *)
(* as there, and the stream open or closed as it was.                      *)
LEMMA ThreadsStay ==
  ASSUME TypeOK,
         Capture \/ LoseDevice \/ AudioThread \/ InferenceThread \/ CallbackThread
  PROVE  /\ \A r \in Roles : Alone(r)' <=> Alone(r)
         /\ mic' = "closed" <=> mic = "closed"
         /\ audioRunning' = audioRunning
         /\ app' = app /\ state' = state
BY DEF TypeOK, Capture, LoseDevice, AudioThread, InferenceThread, CallbackThread, CheckStop,
       EndTick, AudioDrain, InferenceDrain, DiscardMessage, PopMessage, CallReturns, Alone,
       Roles, apiVars, audioVars, threadVars

(* Every step keeps what is known of the calls and of the threads.         *)
LEMMA EngineControlNext ==
  EngineInv /\ [Next]_vars => Starting' /\ Stopping' /\ Between'
<1> SUFFICES ASSUME EngineInv, [Next]_vars PROVE Starting' /\ Stopping' /\ Between'
  OBVIOUS
<1>0. TypeOK /\ Starting /\ Stopping /\ Between
  BY DEF EngineInv
<1> USE DEF Starting, Stopping, Between, Up, Down
<1>1. CASE Calls
  BY <1>0, <1>1
     DEF Calls, Initialize, AddWakeWord, SetListener, StartBegin, StopBegin, AppGoto, Alone,
         audioVars, threadVars
<1>2. CASE StartSteps
  BY <1>0, <1>2
     DEF TypeOK, StartSteps, OpenMicRefused, OpenMic, SpawnAudio, SpawnInference,
         SpawnCallback, StartDone, AppGoto, Spawn, Alone, Roles, apiVars, audioVars, threadVars
<1>3. CASE StopSteps
  BY <1>0, <1>3
     DEF TypeOK, StopSteps, CloseMic, StopAudio, JoinAudio, StopAll, JoinInference,
         JoinCallback, AppGoto, Join, Alone, Roles, apiVars, audioVars, threadVars
<1>4. CASE Capture \/ LoseDevice \/ AudioThread \/ InferenceThread \/ CallbackThread
  BY <1>0, <1>4, ThreadsStay DEF Roles
<1>5. CASE UNCHANGED vars
  BY <1>0, <1>5 DEF vars, Alone, apiVars, audioVars, threadVars
<1>6. QED BY <1>1, <1>2, <1>3, <1>4, <1>5 DEF Next

-----------------------------------------------------------------------------
(* The theorems.                                                           *)

(* The invariant holds of every reachable state.                           *)
LEMMA EngineInvariant == Spec => []EngineInv
<1>1. EngineInv /\ [Next]_vars => EngineInv'
  BY EngineTypeNext, EngineNumberedNext, EngineControlNext DEF EngineInv
<1>2. QED BY <1>1, EngineInit, PTL DEF Spec

(* The engine's fields, rings and queue keep their types and bounds.       *)
THEOREM EngineTypeOK == Spec => []TypeOK
<1>1. EngineInv => TypeOK
  BY DEF EngineInv
<1>2. QED BY <1>1, EngineInvariant, PTL

(* When stop() has returned, nothing of the engine runs.                   *)
THEOREM EngineQuiescentWhenStopped == Spec => []QuiescentWhenStopped
<1>1. EngineInv => QuiescentWhenStopped
  BY DEF EngineInv, Between, Down, Alone, Holding, QuiescentWhenStopped, Roles
<1>2. QED BY <1>1, EngineInvariant, PTL

(* However often it is called, start() makes no second thread of a role.   *)
THEOREM EngineOneThreadPerRole == Spec => []OneThreadPerRole
<1>1. EngineInv => OneThreadPerRole
  BY DEF EngineInv, Starting, Alone, OneThreadPerRole, Roles
<1>2. QED BY <1>1, EngineInvariant, PTL

(* Messages reach the listener once, in the order posted, over restarts.   *)
THEOREM EngineMessagesInOrder == Spec => []MessagesInOrder
<1>1. EngineInv => MessagesInOrder
  <2> SUFFICES ASSUME EngineInv PROVE MessagesInOrder
    OBVIOUS
  <2> DEFINE hand == IF inHand = 0 THEN <<>> ELSE <<inHand>>
             due  == [i \in 1..(posted - handled) |-> handled + i]
  <2>0. TypeOK /\ Numbered
    BY DEF EngineInv
  <2>1. /\ hand \in Seq(Nat) /\ cbQueue \in Seq(Nat) /\ Len(cbQueue) \in Nat
        /\ Len(hand) = IF inHand = 0 THEN 0 ELSE 1
        /\ inHand # 0 => hand[1] = inHand
    BY <2>0, LenProperties DEF TypeOK
  <2> HIDE DEF hand
  <2>2. /\ hand \o cbQueue \in Seq(Nat)
        /\ Len(hand \o cbQueue) = Len(hand) + Len(cbQueue)
        /\ \A i \in 1..(Len(hand) + Len(cbQueue)) :
             (hand \o cbQueue)[i] = IF i <= Len(hand) THEN hand[i] ELSE cbQueue[i - Len(hand)]
    BY <2>1, ConcatProperties
  <2>3. /\ Len(hand) + Len(cbQueue) = posted - handled
        /\ \A i \in 1..(posted - handled) : (hand \o cbQueue)[i] = handled + i
    <3>1. /\ posted \in Nat /\ handled \in Nat /\ inHand \in Nat
          /\ Taken = handled + Len(hand)
          /\ Len(cbQueue) = posted - Taken
          /\ \A i \in 1..Len(cbQueue) : cbQueue[i] = Taken + i
      BY <2>0, <2>1 DEF TypeOK, Numbered, Taken
    <3>2. CASE inHand = 0
      BY <2>1, <2>2, <3>1, <3>2
    <3>3. CASE inHand # 0
      <4>1. Len(hand) = 1 /\ hand[1] = handled + 1
        BY <2>0, <2>1, <3>3 DEF Numbered
      <4>2. Len(hand) + Len(cbQueue) = posted - handled
        BY <2>1, <3>1, <4>1
      <4>3. ASSUME NEW i \in 1..(posted - handled)
            PROVE  (hand \o cbQueue)[i] = handled + i
        <5>1. (hand \o cbQueue)[i] = IF i <= 1 THEN hand[i] ELSE cbQueue[i - 1]
          BY <2>2, <4>1, <4>2
        <5>2. CASE i = 1
          BY <4>1, <5>1, <5>2
        <5>3. CASE i # 1
          <6>1. i - 1 \in 1..Len(cbQueue)
            BY <2>1, <3>1, <4>1, <4>2, <5>3
          <6>2. cbQueue[i - 1] = Taken + (i - 1)
            BY <3>1, <6>1
          <6>3. i \in Int /\ ~(i <= 1) /\ Taken + (i - 1) = handled + i
            BY <3>1, <4>1, <5>3
          <6>4. QED BY <5>1, <6>2, <6>3
        <5>4. QED BY <5>2, <5>3
      <4>4. QED BY <4>2, <4>3
    <3>4. QED BY <3>2, <3>3
  <2>4. posted - handled \in Nat /\ handled \in Nat
    BY <2>0, <2>1, <2>3 DEF TypeOK
  <2>5. due \in Seq(Nat) /\ Len(due) = posted - handled
    BY <2>4, IsASeq
  <2>6. hand \o cbQueue = due
    BY <2>2, <2>3, <2>5, SeqEqual
  <2>7. QED BY <2>6 DEF hand, MessagesInOrder
<1>2. QED BY <1>1, EngineInvariant, PTL
=============================================================================
