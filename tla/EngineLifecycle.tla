-------------------------- MODULE EngineLifecycle ---------------------------
(***************************************************************************)
(* core/engine/WakeWordEngine with core/audio/AudioPipeline's thread,      *)
(* core/scheduler and the microphone of OboeAudioInput: the application's  *)
(* calls, one step of them at a time, against the capture callback and the *)
(* Audio, Inference and Callback threads.                                  *)
(*                                                                         *)
(* The two rings are depths here (RingBuffer has their insides), and a     *)
(* message to the listener is its number: the n-th one posted.             *)
(***************************************************************************)
EXTENDS Integers, Sequences

CONSTANTS
  PcmSlots, FeatureSlots,  \* capacities of the two kDropOldest rings
  MaxPosted,               \* bound: detections and initialisations stop there
  MaxStarts                \* bound: calls of start()

ASSUME EngineAssumption ==
  /\ PcmSlots \in Nat \ {0} /\ FeatureSlots \in Nat \ {0}
  /\ MaxPosted \in Nat /\ MaxStarts \in Nat

Roles == {"audio", "inference", "callback"}

VARIABLES
  state,         \* state_
  detector,      \* detector_ is there
  wakeWord,      \* wakeWords_ has its one entry
  listener,      \* listener_ is not null
  app,           \* where the application thread is inside start() or stop()
  starts,        \* calls of start() so far
  mic,           \* the capture stream: "closed", "open", "lost" (device gone)
  audioRunning,  \* AudioPipeline::running_
  thread,        \* each ManagedThread: "none", or where its run() is
  stopRequested, \* and its stopRequested_
  pcm, features, \* depths of the PCM ring and of the feature ring
  cbQueue,       \* cbQueue_
  inHand,        \* the message the Callback thread has popped (0: none)
  posted,        \* messages posted so far
  handled        \* messages the Callback thread is done with

apiVars    == <<state, detector, wakeWord, listener, starts>>
audioVars  == <<mic, audioRunning>>
threadVars == <<thread, stopRequested>>
ringVars   == <<pcm, features>>
queueVars  == <<cbQueue, posted>>
callVars   == <<inHand, handled>>
vars == <<apiVars, app, audioVars, threadVars, ringVars, queueVars, callVars>>

Init ==
  /\ state = "kUninitialized"
  /\ detector = FALSE /\ wakeWord = FALSE /\ listener = FALSE
  /\ app = "idle" /\ starts = 0
  /\ mic = "closed" /\ audioRunning = FALSE
  /\ thread = [r \in Roles |-> "none"] /\ stopRequested = [r \in Roles |-> FALSE]
  /\ pcm = 0 /\ features = 0
  /\ cbQueue = <<>> /\ posted = 0 /\ inHand = 0 /\ handled = 0

\* mutant: the newest message goes first
PostFirst == cbQueue' = <<posted + 1>> \o cbQueue /\ posted' = posted + 1

\* enqueueCallback: push under cbMutex_.
Post == cbQueue' = Append(cbQueue, posted + 1) /\ posted' = posted + 1

-----------------------------------------------------------------------------
(* The application's calls that are one step.                              *)

\* initialize(): a model that does not load returns before anything here changes.
Initialize ==
  /\ app = "idle" /\ posted < MaxPosted
  /\ detector' = TRUE /\ state' = "kInitialized"
  /\ Post
  /\ UNCHANGED <<wakeWord, listener, starts, app, audioVars, threadVars, ringVars, callVars>>

\* addWakeWord(): the first one; a second one is refused.
AddWakeWord ==
  /\ app = "idle" /\ ~wakeWord
  /\ wakeWord' = TRUE
  /\ UNCHANGED <<state, detector, listener, starts, app, audioVars, threadVars,
                 ringVars, queueVars, callVars>>

SetListener ==
  /\ app = "idle" /\ ~listener
  /\ listener' = TRUE
  /\ UNCHANGED <<state, detector, wakeWord, starts, app, audioVars, threadVars,
                 ringVars, queueVars, callVars>>

-----------------------------------------------------------------------------
(* start().                                                                *)

AppGoto(from, to) == app = from /\ app' = to

\* Refused without a detector or a wake word (nothing changes); nothing checks
\* that the engine is not running already.
StartBegin ==
  /\ AppGoto("idle", "openMic")
  /\ detector /\ wakeWord /\ starts < MaxStarts
  /\ state' = "kStarting" /\ starts' = starts + 1
  /\ UNCHANGED <<detector, wakeWord, listener, audioVars, threadVars, ringVars,
                 queueVars, callVars>>

\* OboeAudioInput::start refuses a second stream; start() returns, still kStarting.
OpenMicRefused ==
  /\ AppGoto("openMic", "idle")
  /\ UNCHANGED <<apiVars, audioVars, threadVars, ringVars, queueVars, callVars>>

\* mutant: a second stream is opened over the first
OpenMicAgain ==
  /\ AppGoto("openMic", "spawnAudio")
  /\ mic' = "open"
  /\ UNCHANGED <<apiVars, audioRunning, threadVars, ringVars, queueVars, callVars>>

OpenMic ==
  /\ mic = "closed"
  /\ AppGoto("openMic", "spawnAudio")
  /\ mic' = "open"
  /\ UNCHANGED <<apiVars, audioRunning, threadVars, ringVars, queueVars, callVars>>

\* spawnLoop: a new ManagedThread, started.
Spawn(r) ==
  /\ thread' = [thread EXCEPT ![r] = "check"]
  /\ stopRequested' = [stopRequested EXCEPT ![r] = FALSE]

\* AudioPipeline::start: nothing when it is running.
SpawnAudio ==
  /\ AppGoto("spawnAudio", "spawnInference")
  /\ audioRunning' = TRUE
  /\ IF audioRunning THEN UNCHANGED threadVars ELSE Spawn("audio")
  /\ UNCHANGED <<apiVars, mic, ringVars, queueVars, callVars>>

SpawnInference ==
  /\ AppGoto("spawnInference", "spawnCallback")
  /\ Spawn("inference")
  /\ UNCHANGED <<apiVars, audioVars, ringVars, queueVars, callVars>>

SpawnCallback ==
  /\ AppGoto("spawnCallback", "announce")
  /\ Spawn("callback")
  /\ UNCHANGED <<apiVars, audioVars, ringVars, queueVars, callVars>>

StartDone ==
  /\ AppGoto("announce", "idle")
  /\ state' = "kRunning"
  /\ Post
  /\ UNCHANGED <<detector, wakeWord, listener, starts, audioVars, threadVars, ringVars,
                 callVars>>

-----------------------------------------------------------------------------
(* stop(), and ~WakeWordEngine, which calls it.                            *)

\* A stopped or never initialised engine has nothing to stop.
StopBegin ==
  /\ AppGoto("idle", "closeMic")
  /\ state \notin {"kStopped", "kUninitialized"}
  /\ state' = "kStopping"
  /\ UNCHANGED <<detector, wakeWord, listener, starts, audioVars, threadVars, ringVars,
                 queueVars, callVars>>

\* mutant: the stream is left open
CloseMicForgotten ==
  /\ AppGoto("closeMic", "stopAudio")
  /\ UNCHANGED <<apiVars, audioVars, threadVars, ringVars, queueVars, callVars>>

CloseMic ==
  /\ AppGoto("closeMic", "stopAudio")
  /\ mic' = "closed"
  /\ UNCHANGED <<apiVars, audioRunning, threadVars, ringVars, queueVars, callVars>>

\* AudioPipeline::stop: nothing when it is not running.
StopAudio ==
  /\ AppGoto("stopAudio", "joinAudio")
  /\ audioRunning' = FALSE
  /\ stopRequested' = IF audioRunning THEN [stopRequested EXCEPT !["audio"] = TRUE]
                      ELSE stopRequested
  /\ UNCHANGED <<apiVars, mic, thread, ringVars, queueVars, callVars>>

\* join() waits for run() to return; a thread that is not joinable is passed over.
Join(r) ==
  /\ thread[r] \in {"none", "exited"}
  /\ thread' = [thread EXCEPT ![r] = "none"]

JoinAudio ==
  /\ AppGoto("joinAudio", "stopAll")
  /\ Join("audio")
  /\ UNCHANGED <<apiVars, audioVars, stopRequested, ringVars, queueVars, callVars>>

\* Scheduler::joinAll: stopAll, then join in the order of creation.
StopAll ==
  /\ AppGoto("stopAll", "joinInference")
  /\ stopRequested' = [r \in Roles |-> TRUE]
  /\ UNCHANGED <<apiVars, audioVars, thread, ringVars, queueVars, callVars>>

JoinInference ==
  /\ AppGoto("joinInference", "joinCallback")
  /\ Join("inference")
  /\ UNCHANGED <<apiVars, audioVars, stopRequested, ringVars, queueVars, callVars>>

\* mutant: the Callback thread is not waited for
JoinCallbackSkipped ==
  /\ AppGoto("joinCallback", "idle")
  /\ state' = "kStopped"
  /\ UNCHANGED <<detector, wakeWord, listener, starts, audioVars, threadVars,
                 ringVars, queueVars, callVars>>

\* The last join; kStopped is set and not posted.
JoinCallback ==
  /\ AppGoto("joinCallback", "idle")
  /\ Join("callback")
  /\ state' = "kStopped"
  /\ UNCHANGED <<detector, wakeWord, listener, starts, audioVars, stopRequested,
                 ringVars, queueVars, callVars>>

-----------------------------------------------------------------------------
(* The device and the threads.                                             *)

AtMost(n, capacity) == IF n > capacity THEN capacity ELSE n

\* onAudioReady -> onCaptureFrame: one block into the PCM ring.
Capture ==
  /\ mic = "open"
  /\ pcm' = AtMost(pcm + 1, PcmSlots)
  /\ UNCHANGED <<apiVars, app, audioVars, threadVars, features, queueVars, callVars>>

\* The device goes away; onErrorAfterClose has no handler to call.
LoseDevice ==
  /\ mic = "open"
  /\ mic' = "lost"
  /\ UNCHANGED <<apiVars, app, audioRunning, threadVars, ringVars, queueVars, callVars>>

\* ManagedThread::run between two ticks.
CheckStop(r) ==
  /\ thread[r] = "check"
  /\ thread' = [thread EXCEPT ![r] = IF stopRequested[r] THEN "exited" ELSE "tick"]
  /\ UNCHANGED <<apiVars, app, audioVars, stopRequested, ringVars, queueVars, callVars>>

\* A tick is over: the ring, or the queue, was found empty.
EndTick(r, empty) ==
  /\ thread[r] = "tick" /\ empty
  /\ thread' = [thread EXCEPT ![r] = "check"]
  /\ UNCHANGED <<apiVars, app, audioVars, stopRequested, ringVars, queueVars, callVars>>

\* audioThreadTick drains the PCM ring; a block completes a mel frame or none.
AudioDrain ==
  /\ thread["audio"] = "tick" /\ pcm > 0
  /\ pcm' = pcm - 1
  /\ features' \in {features, AtMost(features + 1, FeatureSlots)}
  /\ UNCHANGED <<apiVars, app, audioVars, threadVars, queueVars, callVars>>

\* inferenceThreadTick drains the feature ring; a frame confirms a detection or not.
InferenceDrain ==
  /\ thread["inference"] = "tick" /\ features > 0
  /\ features' = features - 1
  /\ (posted < MaxPosted /\ Post) \/ UNCHANGED queueVars
  /\ UNCHANGED <<apiVars, app, audioVars, threadVars, pcm, callVars>>

\* callbackThreadTick pops one message under cbMutex_; without a listener that is all ...
DiscardMessage ==
  /\ thread["callback"] = "tick" /\ cbQueue # <<>> /\ ~listener
  /\ cbQueue' = Tail(cbQueue) /\ handled' = Head(cbQueue)
  /\ thread' = [thread EXCEPT !["callback"] = "check"]
  /\ UNCHANGED <<apiVars, app, audioVars, stopRequested, ringVars, posted, inHand>>

\* ... and with one it is called, outside the mutex, ...
PopMessage ==
  /\ thread["callback"] = "tick" /\ cbQueue # <<>> /\ listener
  /\ inHand' = Head(cbQueue) /\ cbQueue' = Tail(cbQueue)
  /\ thread' = [thread EXCEPT !["callback"] = "call"]
  /\ UNCHANGED <<apiVars, app, audioVars, stopRequested, ringVars, posted, handled>>

\* mutant: the thread ends with the listener's call
CallEndsThread ==
  /\ thread["callback"] = "call"
  /\ handled' = inHand /\ inHand' = 0
  /\ thread' = [thread EXCEPT !["callback"] = "exited"]
  /\ UNCHANGED <<apiVars, app, audioVars, stopRequested, ringVars, queueVars>>

\* ... and returns.
CallReturns ==
  /\ thread["callback"] = "call"
  /\ handled' = inHand /\ inHand' = 0
  /\ thread' = [thread EXCEPT !["callback"] = "check"]
  /\ UNCHANGED <<apiVars, app, audioVars, stopRequested, ringVars, queueVars>>

StartSteps == OpenMicRefused \/ OpenMic \/ SpawnAudio \/ SpawnInference \/ SpawnCallback
                \/ StartDone
StopSteps == CloseMic \/ StopAudio \/ JoinAudio \/ StopAll \/ JoinInference \/ JoinCallback

Calls == Initialize \/ AddWakeWord \/ SetListener \/ StartBegin \/ StopBegin

AudioThread     == CheckStop("audio") \/ EndTick("audio", pcm = 0) \/ AudioDrain
InferenceThread == CheckStop("inference") \/ EndTick("inference", features = 0)
                     \/ InferenceDrain
CallbackThread  == CheckStop("callback") \/ EndTick("callback", cbQueue = <<>>)
                     \/ DiscardMessage \/ PopMessage \/ CallReturns

Next ==
  \/ Calls \/ StartSteps \/ StopSteps
  \/ Capture \/ LoseDevice
  \/ AudioThread \/ InferenceThread \/ CallbackThread

Spec == Init /\ [][Next]_vars

(* The operating system runs every thread, a call once made goes on, and a *)
(* listener returns.  Nobody has to call, speak, or unplug the microphone. *)
FairSpec ==
  /\ Spec
  /\ WF_vars(StartSteps) /\ WF_vars(StopSteps)
  /\ WF_vars(AudioThread) /\ WF_vars(InferenceThread) /\ WF_vars(CallbackThread)

-----------------------------------------------------------------------------
(* Properties.                                                             *)

States == {"kUninitialized", "kInitialized", "kStarting", "kRunning", "kStopping", "kStopped"}

\* Type invariant.
TypeOK ==
  /\ state \in States
  /\ detector \in BOOLEAN /\ wakeWord \in BOOLEAN /\ listener \in BOOLEAN
  /\ app \in {"idle", "openMic", "spawnAudio", "spawnInference", "spawnCallback", "announce",
              "closeMic", "stopAudio", "joinAudio", "stopAll", "joinInference", "joinCallback"}
  /\ starts \in 0..MaxStarts
  /\ mic \in {"closed", "open", "lost"} /\ audioRunning \in BOOLEAN
  /\ thread \in [Roles -> {"none", "check", "tick", "call", "exited"}]
  /\ stopRequested \in [Roles -> BOOLEAN]
  /\ pcm \in 0..PcmSlots /\ features \in 0..FeatureSlots
  /\ cbQueue \in Seq(Nat) /\ posted \in Nat /\ inHand \in Nat /\ handled \in Nat

(* When stop() has returned, nothing of the engine runs: every thread is   *)
(* joined, the stream is closed and the listener is not being called, so   *)
(* the engine and the listener may be destroyed.                           *)
QuiescentWhenStopped ==
  state = "kStopped" =>
    /\ \A r \in Roles : thread[r] = "none"
    /\ mic = "closed" /\ ~audioRunning /\ inHand = 0

(* start() never makes a second thread of a role, even after a start that  *)
(* failed, a lost device or a start() too many: each ring keeps the single *)
(* consumer it needs.                                                      *)
OneThreadPerRole ==
  /\ app = "spawnAudio"     => thread["audio"] = "none" /\ ~audioRunning
  /\ app \in {"spawnAudio", "spawnInference"} => thread["inference"] = "none"
  /\ app \in {"spawnAudio", "spawnInference", "spawnCallback"} => thread["callback"] = "none"

(* Messages reach the Callback thread once, in the order posted, whichever *)
(* thread posted them and however often the engine is restarted.           *)
MessagesInOrder ==
  (IF inHand = 0 THEN <<>> ELSE <<inHand>>) \o cbQueue
    = [i \in 1..(posted - handled) |-> handled + i]

(* stop() returns: its order (stream, Audio thread, then the others) lets  *)
(* every drain loop it waits for come to an end.                           *)
StopReturns == state = "kStopping" ~> state = "kStopped"

(* While the Callback thread is there, a message posted is handled.        *)
Delivers ==
  \A n \in 1..(MaxPosted + MaxStarts) :
    posted >= n ~> handled >= n \/ thread["callback"] = "none"
=============================================================================
