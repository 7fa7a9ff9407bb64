# Aura wake-word engine: TLA+ models, checks and proofs

This directory specifies the on-device wake-word engine of this repository
(`core/`, with the parts of `sdk/` that drive it), the onboarding pipeline
that trains and ships its models (`serve_train.py` and what it runs), the scripts
that generate synthetic clips (`wakeword_datagen/`) and the tools that train,
quantise, evaluate and calibrate keyword models (`tools/`): TLA+ modules translated from
the source, TLC configurations that check them on small instances, and proofs
checked by TLAPS that hold for every value of the constants. `PROJECT.json`
lists the runs, the lines each definition models, the hazards, the findings and
the theorems.

## The system

Sound goes through a chain of hand-offs, each on its own thread:

```
Oboe capture callback --PCM ring--> Audio thread --feature ring--> Inference thread --queue--> Callback thread
   (OboeAudioInput)                  DSP, VAD gate,                 detection cascade            listener
                                     log-Mel
```

The application thread creates and drives all of it (`WakeWordEngine`); a model
manager holds the memory-mapped models and can swap them while they are in use.

Off the device, `serve_train.py` turns a customer's dataset into a bundle. It runs
`train.py` (cached features, Stage-1 and Stage-2 models, labels, calibration, then
`tools/bundle.py`) and `evaluate.py` as child processes, and finds the zip to
report by its name. The steps share only files: `dist/_work/<slug>` and
`dist/<slug>_v<version>`, which outlive the job that wrote them.

The clips come from `wakeword_datagen/`: one script per speech engine, run by
`run_all.py` or by hand, again and again, over hours, into one directory that is
their only memory. The research models come from `tools/`: trainers that cache their
features, and tools that compare, evaluate and calibrate whatever models are on disk.

| component | state it keeps | operations | what is hard | what makes it correct |
|---|---|---|---|---|
| slot ring, `core/common/ring_buffer.h` | slots, `head_`, `tail_`, `dropCount_` | `acquireWrite`/`commitWrite` (one producer), `acquireRead`/`commitRead` (one consumer) | two threads, no lock; drop-oldest lets the producer move the consumer's index | a slot is never shared, depth within capacity, FIFO, exact counts, a polling consumer drains |
| `core/detect/Stage1Detector` | cascade state machine, window, hop, refractory and run counters, id counter | `pushFeature`, `reset` | counters that interact over edges of the gate, failed inferences, resets | one fresh id per detection, refractory gap, M fresh positive windows, hop cadence |
| `core/detect/StreamingDetector` | run and refractory counters, id counter | `pushFrame`, `reset` | runs that straddle the refractory period | same promises, frame by frame; never deaf |
| `core/vad/VadGate.h` | consecutive, hangover, open | `process`, `reset` | thresholds at their boundary | opens for speech, bridging of dips |
| `core/engine/WakeWordEngine` | `state_`, detector, wake words, rings, callback queue, threads | `initialize`, `addWakeWord`, `setListener`, `start`, `stop` | start and stop against four threads, failed opens, restarts | quiescence after stop, one thread per role, ordered messages, stop returns |
| `core/audio/AudioPipeline` | `running_`, PCM ring, sink | `onCaptureFrame`, thread tick, `start`, `stop` | runs between the capture callback and its thread | as above |
| `core/scheduler` | threads, stop flags | `spawnLoop`, `stopAll`, `joinAll` | a tick that drains must come to an end | as above |
| `core/platform/android/OboeAudioInput` | stream, handler | `start`, `stop`, `onAudioReady`, `onErrorAfterClose` | the device can go away | a lost stream is re-opened |
| `core/model/ModelManager` | staged, active, previous and retired regions; `inFlight_`, `generation_` | `stage`, `activate`, `rollback`, `current`, `beginInference`/`endInference` | unmapping while an inference reads; reuse of addresses | no use after unmap, no leak, handles match regions, retired regions go |
| `core/config/ConfigProvider.h`, `core/common/lockorder.cpp` | snapshot, handlers; held levels | `current`, `applyOverride`; `lock`, `unlock` | handlers run under the lock | no self-deadlock (not modelled yet) |
| `core/vad/SileroVad`, `core/features`, `core/audio/Resampler.h`, `core/runtime/StreamingWindow.h` | sample and frame buffers | `process`, `push` | partial chunks | frame counts (not modelled yet) |
| `sdk/kotlin` JNI bindings | engine bundle, listener object | `native*` calls | listener replaced while it is called | (not modelled yet) |
| `serve_train.py`, `train.py`, `tools/aura_train.py`, `tools/aura_data.py`, `tools/bundle.py`, `evaluate.py` | feature cache, models, labels, bundle directory, zip | an onboarding job, step by step | files of earlier jobs; kills and failures that leave half a file or half a directory | a bundle that verifies is one build; the zip reported is the one built; trained on the dataset given, measured on unseen voices |
| `wakeword_datagen/` (`run_all.py`, `generators/*`, `gen_kokoro.py`, `gen_parler.py`, `augment.py`), `tools/sarvam_tts_gen.py` | the clips on disk, voice files, config.json; a run's counters | a run of one engine, with or without a limit | interruptions, failed calls, caps and time budgets, existence taken for completeness | nothing made twice, limits kept, a clean report means a whole plan, re-runs finish it |
| `tools/heym_*`, `tools/aura_*`, `tools/experimental/`, `tools/calibrate.py` | recordings, feature caches, models, labels.json, reports | train, quantise, evaluate, calibrate | recordings added meanwhile; caches and models of any age; torn files | every number is of speakers the model never heard; an ablation compares one training; calibration never hurts |
| `benchmarks/`, `tools/libri/` builders | none | one-shot scripts | none here | (not modelled) |

## The modules

**`RingBuffer`** models `ring_buffer.h` one atomic access at a time: the load of
the other index, the drop-oldest `fetch_add`, the caller's fill and use of the
slot (a first and a last step each, so that they can overlap) and each commit.
`head`, `tail`, `slots` and `dropCount` are the fields; `ppc` and `cpc` say where
each thread is between acquire and commit; `cTail` is the consumer's loaded
tail. `accepted` and `delivered` are histories. `Size` is the unsigned
subtraction, taken modulo a constant (2^64 in the code, 64 in the runs: larger
than any index they reach). The policy is fixed at the start, and either. Steps are sequentially consistent; the code's
acquire/release pairs order index and payload the same way between the two
threads. A payload is its frame's number, -1 when half written.

**`FrameQueue`** is the abstract specification of a kDropNewest ring: a bounded
FIFO queue that refuses only when full. `RingBuffer` implements it with
`sent <- accepted, received <- delivered, refused <- dropCount`; a ring that drops
its oldest frames is no such queue and is left out of the mapping (`IfNewest`).

**`CascadeDetector`** models `Stage1Detector`. It lives on one thread, so
`pushFeature` is one step with one action per outcome: `SkipFrame` (no
inference), `Stage1NoArena`, `Stage1Failed`, `Stage1Low`, `Stage1Pending`,
`Stage2Rejected`, `Confirm`; and `Reset`. The frame's VAD flag and the models'
answers are inputs; an answer is what the code tells apart. `transition` is the
code's transition function, and the composite operators (`Started`, `Fired`,
`FsmNow`) apply it in the code's order. Whether the arena was allocated and
whether a Stage-2 is wired are fixed at the start and free.

**`StreamingDetector`** models `pushFrame` and `reset` the same way.

**`WakeSpotter`** is the abstract specification of both detectors: a detection
carries an id minted since the previous detection, and detections are at least
`Gap` frames apart unless a reset comes between. `StreamingDetector` implements it
with `Gap = refractoryFrames + 1`, `CascadeDetector` with `DetectionGap`, which is
`refractoryFrames` and what M windows take from the first to the last: the edge of a
new cascade scores its frame at once, so they are two frames apart, or one when the
hop is one.

**`VadGate`** models the gate over the VAD's answer, block by block.

**`DetectionPath`** composes the gate, the feature ring and `CascadeDetector` as
`WakeWordEngine::buildAudioSink` and `inferenceThreadTick` do. A block is heard once by
the gate (`AudioBlock`) and every mel frame it completes carries that answer. The ring is
kDropOldest at the grain of its shared accesses: the sink loads `tail_` and decides
(`AcquireWrite`), drops (`DropOldest`), fills its slot, commits; the tick loads `tail_`,
tests it, uses the slot in place (`UseSlot`, with the flag as it stands then), commits. So
a drop can hand the slot in use to the sink. `gap` and `spoiled` are histories: a
block left no frame or a frame was dropped; a drop fell between the tick's load of
`tail_` and its `commitRead`. A frame carries, as a history, the number of its opening.

**`EngineLifecycle`** models the application's calls a step at a time against the
capture callback and the Audio, Inference and Callback threads: `start()` is
`StartBegin`, `OpenMic` (or `OpenMicRefused`), the three spawns and `StartDone`;
`stop()` is `StopBegin`, `CloseMic`, `StopAudio`, the joins. A thread is at
`check` (reading its stop flag), in its `tick`, in the listener's `call`, or
`exited`; a tick drains its ring before it ends, as the code's `while` loops do.
The rings are depths. Messages are numbered in the order posted. One
application thread makes the calls, which is the contract of the interface.

**`ModelManager`** models hot-swap at the grain of `mu_` and of the two atomics:
`stage` maps the file before it takes the lock; `activate` and `rollback` swap
and go on to `tryUnmapRetired`, which loads `inFlight_` in one step and unmaps in
a later one; the inference bracket is `BeginInference`, `Current`,
`EndInference`, and `LastOut` for the thread that saw the count reach zero. An
unmapped address can be handed out again, so a handle keeps the version of the
model it was made for. A caller may keep every handle `stage` returned (`issued`) and
`Activate` takes any of them whose address is the staged one, as the code does; `stale`
records that one of them was made for an earlier mapping, `found` what an
inference's address held when it got it. `Destroy` is the destructor.

**`Onboarding`** models jobs for one wake word, one after the other. `pc` is what
the running job does next, one action per file it writes: features (`LoadCache`
or `BuildFeatures`), models, labels, calibration, then the steps of
`build_bundle` (`ClearDirectory` to `WriteZip`), evaluation, and `ReportCard`,
which applies `locate_bundle`. A dataset is its set of speakers, a model the
speakers it heard and the number of its job, a digest the content it digests.
`work`, `bundle` and `zip` are the files that outlive a job. `Die` is a kill or an
uncaught exception, `BundleFails` an exception `train.py` catches; both may leave
the file being written `Torn` (`WorkCutShort`, `DistCutShort`), and a `rmtree` cut
short leaves any of the files. `built`, `measured` and `report` are histories of
the job. The Silero file and INTEGRATION.md are in every build and are left out.

**`ClipGeneration`** models the eleven scripts that write clips. File names carry the
engine, so a behaviour is about one engine, chosen at the start; `run_all.py` is a
sequence of such runs, each behind its own `try`. A run is `StartRun`, the
engine's `...Start` (imports, voices, models, the plan it makes), its jobs, `EndRun`.
A plan is the code's list in the code's order, because limits, caps and time budgets cut
it: `CapEach` per category before looking at the disk (eSpeak, SAPI, gTTS, Piper),
`Stop` while running (Bark, Sarvam, IndicTTS), `AugmentPlan` over sources. A job
writes one clip, or all the speeds, samples or copies of one phrase
(`GttsVariant` and its like, one clip a step). `Exists` is `os.path.exists`: a clip cut
short by a failed or killed writer exists. `Interrupted` is a kill, or the exception
`run_all.py` catches, at any point; it may leave the clip being written, a Piper voice or
IndicTTS's config.json torn, or Parler's `.tmp.wav`. `Alike` phrases have one file name,
as "hey aura" and "hey Aura" do. A variant of a Piper phrase is one of its voices, each with a
file of its own: `PiperStart` downloads what is missing, skips the voices it cannot get and
goes on with the others (`Ensured`, `OfVoices`). One language stands for IndicTTS's several;
the sources of the augmentation are given. `CalmDown` is the assumption of
`RerunsComplete`: from there on nothing fails.

**`KeywordTraining`** models three tracks that share no file: "heym" (`heym_train`,
`streaming_train`, `heym_qat`, `heym_eval` over one cache), "libri" (`libri_train`, whose
held-out speakers are drawn from the clips present) and "aura" (`aura_train`, then
`calibrate` on what it wrote; there the unit held out is the accent). Tools run by hand,
one at a time, step by step: `LoadCache` or `BuildTrain` and `BuildTest`, the exports,
the report. A model is the set of speakers it heard; a report (`claim`) names the
models it is about and the speakers they were measured on. `AddSpeaker` may come between
any two steps, the cache may be removed, and a tool that `Dies` may leave what it was
writing torn. `seeded` is what `RandomState(HELDOUT_SEED)` picks for each number of
speakers: any choice of the right size. `ScoreStage` lets every method be better or worse,
per stage; `Chosen` is `calibrate.py`'s choice.

**`RingBufferProofs`, `CascadeProofs`, `StreamingProofs`, `ModelManagerProofs`,
`EngineLifecycleProofs`, `OnboardingProofs`, `ClipGenerationProofs` and
`KeywordTrainingProofs`** hold the theorems, each about the module it is named for;
`CascadeProofs` also those about `DetectionPath`, which they build on.

## The runs

All runs are exhaustive over the instance their `.cfg` gives.

| run | bounds | what it shows |
|---|---|---|
| `ring` | 3 slots, 8 frames offered, either policy | kDropNewest is the bounded FIFO `FrameQueue` with its fairness, with exclusive slots and the depth bound; under both policies fills take free slots, the accounting is exact and the consumer drains |
| `ring_depth` | 3 slots, 7 frames offered | violation, see Findings |
| `cascade` | window 2, hop 2, M = 2, refractory 5, 13 frames | the four properties of the cascade and its refinement of `WakeSpotter`, over all flags, answers, resets, with and without arena and Stage-2 |
| `streaming` | M = 2, refractory 3, 12 frames | the streaming detector's properties and refinement |
| `path` | window 2, hop 1, M = 1, refractory 1, debounce 2, hangover 2, ring of 3, up to 2 mel frames per block, 5 blocks, 4 frames heard | utterances and cascades across the two threads and a ring that drops |
| `model` | 1 updater, 1 reader, 5 addresses, 4 files mapped | safety and reclamation of hot-swap, whichever handle is activated |
| `engine` | rings of 1, 3 messages, 2 starts | lifecycle safety and liveness |
| `onboarding` | 3 speakers, 1 of them held out, 2 versions, 2 jobs | what a job ships is one whole build, the one it reports, measured on unseen voices |
| `onboarding_stale` | same | violation |
| `clips` | 2 positives with one name where names are slugs, 1 negative, 2 variants, limit 1 | idempotence, limits, honest reports and completion of the generators |
| `clips_limit` | same | violation |
| `training` | 3 speakers, 2 of them held out (1 for calibration), 4 tool runs | every number reported is of unseen speakers; one training per ablation; calibration |

Why the bounds are enough. The ring's protocol depends on `head - tail` and on
the slots modulo the capacity: three slots and seven frames wrap the ring twice
and let either index overtake the other's loaded copy. The detectors' counters
all restart within a window, a run or a refractory period, and thirteen frames hold
two detections with everything that can happen between; the refractory period is long enough
to set the distance between them (with `DetectionGap + 1` the run fails); past that the
theorems take over. In `path`, five blocks make two openings of the gate and fill
the ring of three past its end, so that a drop can fall anywhere in a read: without
`~spoiled`, `OneCascadePerOpening` fails there. In
`model`, four mappings fill the roles staged, active, previous and retired at
once, and leave one address; three of them suffice to activate the handle of an earlier mapping. In `engine`, two starts give a restart, a
start over a running engine and a start after a failed one. In `onboarding`, two
jobs are what a leftover needs, the one that leaves it and the one that meets it;
three speakers make two datasets with different training voices and a held-out
one, two versions a rebuild and an upgrade. In `clips`, the number of runs has no
bound: the directory and the run's counters are finite. Three phrases and two variants let
a limit of one fall inside a category, a job and a phrase, and two categories make the
caps per category and in all differ. In `training`, three speakers are the least with one to
train on, one to calibrate and one to measure; for "libri" the held-out speaker changes when one is added.
Four runs are train, compare, retrain after the cache is removed, compare again.

Deadlock is not checked in `path`, `model`, `engine`, `onboarding`,
`onboarding_stale` and `training`: the bounds end them, and a stopped engine, an idle
manager, a silent microphone, a last job or a last tool really stops.

The type invariants `PathTypeOK` and the `TypeOK` of `ModelManager` and `EngineLifecycle`
hold too; they are left out of the runs because the theorems cover them. The other proof
modules state their own.

The inductive invariants of the proofs were checked on the instances of the runs before
they were proved (`EngineInv`, `TrainingSafe`, `FifoInv`, `ServedInv`, `PathInv`, `OnboardingInv` and
the parts named in `ClipGenerationProofs`: 31 thousand to 6 million states). To repeat it, give a proof module the run's cfg
with the invariant in it.

Side checks worth keeping in mind: without `~stale`, `HandlesMatchRegions` fails with a single
updater, because `activate` compares addresses only (`ModelManager.cpp:55`). Stage A, at a1;
stage B, which unmaps a1; stage C, at a1 again; activate A: the manager serves A's handle,
its size and generation with it, for the region of C. `NoUseAfterUnmap` and `OneOwner` hold
all the same: the address is right, the description is not.

Every property of every passing run has a mutant, an operator just before the
definition it replaces, that changes the model the way a plausible bug would
and that TLC must find.

### Fairness

`RingBuffer!FairSpec`: the consumer thread polls for ever
(`ManagedThread::run`), and a write begun is finished (nothing between
`acquireWrite` and `commitWrite` waits). `EngineLifecycle!FairSpec`: threads are
scheduled, a call once made goes on, a listener returns
(`aura_sas.md` section 6 forbids it to re-enter). `ModelManager!FairSpec`: a
bracket once opened is closed and a lock once taken is released. Nothing obliges
the microphone to capture, a device to stay, the application to call or an
inference to begin. All of that is weak fairness. `ClipGeneration!Spec`: a running script
goes on (weak), and somebody runs the engine in full now and then (strong, because a
script under way disables it): `wakeword_datagen/README.md:180` and `gen_bark.py:12` tell the
user to, and `RerunsComplete` is about nothing else. `KeywordTraining` states no fairness.

## Findings

1. **Drop-oldest can shut the ring** (`ring_depth`). The drop is decided on one
   tail and applied to another (`ring_buffer.h:70-77`). If the consumer empties
   the ring in between, `tail_` passes `head_`, a committed frame is skipped
   without a count, and one more `commitRead` on the old tail leaves
   `tail_ = head_ + 1`. From then on the depth reads 2^64 - 1, every write takes
   the ring for full and advances `tail_` again, and the consumer never sees a
   frame; nothing resets the ring on restart.
2. **A re-onboarded customer gets the old training data** (`onboarding_stale`). The
   feature cache is `dist/_work/<slug>/<slug>_features.npz`, keyed by the wake word
   alone and never cleared, so a later job for the same phrase trains on the
   first job's features whatever dataset it is given (`aura_train.py:90`).
   SAAS.md:109 promises an upgrade from the new dataset; between two customers with
   the same phrase it is also what SAAS.md:186 rules out. What survives it:
   `SpeakerIndependent`, because the split is by a hash of the speaker and so the
   same in every dataset.
3. **Two generators make more clips than their limit** (`clips_limit`). IndicTTS looks at
   its cap between phrases only (`gen_indictts.py:213`), and a phrase makes a clip per voice
   and speed; gTTS cuts its list of phrases (`gen_gtts.py:61`) and then makes a clip per speed
   of each. `run_all.py:12` says "<=3 new clips per engine per category" of `--limit 3`,
   `run_all.py:63` "max NEW clips per engine per category", `wakeword_datagen/README.md:117`
   "Max **new** clips per engine per category", and `gen_indictts.py:265` of its own option
   "cap NEW clips this run". What they keep to is `LooserLimit`: a limit of phrases for gTTS,
   less than one phrase too many for IndicTTS. The other limits are kept (`NewClipsBounded`).

Also seen while modelling, and covered by no run of its own:

In the engine:

- Under kDropOldest, the policy of both rings of the engine, the slot `acquireWrite`
  returns on a full ring is the one the consumer is processing in place;
  `IAudioPipeline.h:27-28` says the consumer owns it exclusively. `ExclusiveSlot` is
  false of `RingBuffer` with that policy (`ring_buffer.h:77`).
- What that does to the detector: a full ring of three holds speech, silence, silence, and
  the tick is about to use the first. The sink drops it and fills its slot with a frame of the
  next opening; the detector hears that frame early and mints an id, `commitRead` skips the
  second frame, the third closes the cascade, and the new frame, heard again in its turn,
  mints a second id in the same opening. `OneCascadePerOpening` excepts such reads by
  `~spoiled`. The shipped ring has 256 slots (`Config.h:108`): the Inference thread has to be
  that far behind.
- The debounce debounces nothing when there is a hangover: the first speech block
  loads the hangover, and that opens the gate (`VadGate.h:22`, against Config.h:37).
- The windowed refractory period is a frame shorter than Config.h:64 says
  (`Stage1Detector.cpp:237` decrements before the test): N - 1 frames are
  suppressed, where the streaming detector suppresses N. With M = 1 `DetectionGap` is
  N: the Nth frame after a detection can bring the next.
- A lost device is never re-opened: nothing registers the handler that
  `OboeAudioInput.cpp:88` counts on. `EngineLifecycle` reaches that state and
  leaves it only by `stop()`.
- `kStopped` is never posted, and messages left at `stop()` reach the listener
  after the next `start()`. A second `start()` while running is refused by the
  microphone but leaves `state_` at `kStarting` and has already replaced the frame
  sink. A later `initialize()` restarts the correlation ids.
- `rollback` serves a handle whose generation is older than `generation()`; the
  engine does not bracket its inferences yet.

In the onboarding pipeline:

- A feature cache torn by a kill is met by every later job of the wake word, and
  kills it; so does the cache of a dataset without positive training clips, which
  is written before `train.py` refuses it.
- A failed bundle step is caught (`train.py:263`) and the job exits 0 with
  whatever zip `locate_bundle` finds: an earlier build's of the same version, a
  half-written one, or, when neither directory nor zip of the version is there, the
  newest zip of the wake word. `BuiltIsDelivered` is of jobs whose bundle was built.
- `serve_train.py --dist-root` moves where the job looks, not where `train.py`
  writes: with another root than `dist` the job never finds its zip.
- Calibration is fitted on clips of the test split, and `evaluate.py` reports the
  calibration error on the same clips.

In the clip generators:

- A clip cut short exists, so no later run repairs it, in every script but Parler's
  (`gen_kokoro.py:66`); a leftover `<clip>.tmp.wav` of Parler's ends in `.wav` and is
  loaded as a clip.
- `augment.py`'s limit cuts a list that starts with all the positives.
- IndicTTS counts a clip that ffmpeg failed to write as neither made nor failed, and a
  language that did not load as no failure: `CleanReportCovers` is of the other engines.
- Piper prints and skips a voice it could not download (`gen_piper.py:67`) and counts it
  nowhere: a full run reports no failure with that voice's clips missing. `CleanReportCovers`
  excepts the clips of a voice whose files are missing or torn.
- A Piper voice torn in download is taken for good; a torn IndicTTS config.json keeps its
  language from ever loading. `RerunsComplete` excepts both.
- `augment.py:9` says seeded and reproducible, but one generator is shared by all clips
  and skipped ones draw nothing from it: a resumed run makes other audio than an
  uninterrupted one.
- `resume.sh` counts negatives only, so a run that made positives is taken for one without
  progress, and it greps a log that earlier attempts wrote to.

In the training tools:

- `aura_train.py:183` keeps one cache for the default dataset and for `--dataset-dir`: the
  second trains and is measured on the first (finding 2 once more).
- Every trainer keeps the epoch with the best F1 on the test split, and `calibrate.py`
  chooses its method on the half it reports: `MeasuredOnUnseen` says the speakers are
  unseen, not that nothing was chosen on them.
- `libri_train.py:180` lists the held-out speakers of the clips present at the end; with a
  cached split, or after recordings were added, the list may name speakers of the
  training half. `streaming_train.py:128` puts its metrics beside those of a DS-CNN that may have been
  trained and tested on an earlier cache.
- The calibration stays in labels.json when the models are trained again, and a torn
  labels.json is read as no calibration. A stage that was missing gets Platt parameters
  a = 1, b = 0 called an identity (`calibrate.py:402`); the sigmoid of one logit is not
  the softmax.
- `heym_eval.py`'s `decide` is not `Stage1Detector`: its run counter and refractory
  period follow other rules than the engine's.

## What is proved

Every invariant and every action property that a passing run checks is a theorem, for
every value of the constants: capacities, windows, M, periods, numbers of threads,
speakers, updaters, held-out sets, versions, phrases, variants, limits, and lengths of run. The only
assumptions are the named ones of the modules. They say that a ring has a slot, a window
has a frame, a grid a variant, that counts are naturals (M may be any integer, as in the
code), that held-out speakers are speakers and that model values standing for "nothing" are
none of the data. The conditions under which a property holds (the ring's policy,
`~spoiled`, `~stale`) stand in the property, and the runs check it as it is proved. The constants that only bound a run
(`MaxFrames`, `MaxBlocks`, `MaxStages`, `MaxJobs`, ...) are any naturals.

**Ring.** `RingTypeOK`, `RingFillTakesFreeSlot` and `RingAccounting` hold under
either policy. The argument for the second: `Room` (the gap `head - tail` is
within the capacity, strictly so from `acquireWrite` to `commitWrite`) is
inductive, and indices less than a capacity apart are in different slots
(`SlotsDistinct`). Under kDropNewest `FifoInv` is inductive: only the consumer
moves `tail`, so the tail it loaded stays current (`FifoIndices`); the unread
slots hold the accepted frames in order (`FifoContent`); what was delivered is a
prefix of what was accepted (`FifoHistory`). From it follow `RingExclusiveSlot`,
`RingDepthBounded` and `RingImplementsQueue`. Under kDropOldest the last three
are false (finding 1, and the shared slot), so they are of kDropNewest; the policy never
changes (`PolicyFixed`).

**Cascade.** None of the properties is inductive alone. `CascadeInv` adds to the
types and `CascadeFollowsGate`: `FreshIds` (the last detection's id is below the
current cascade's while one can still fire), `RefractoryOwed` (the count left
covers what is missing to `lastAt + refractoryFrames`), `Streak` (the positive
windows counted are the last scores, none used before), `HopOwed` (the hop
counter is not ahead of the frames since the last inference of the cascade) and
`WindowsApart` (the windows counted so far began after the refractory period and lie at
least `Spread` apart, which gives `DetectionGap`).
From it: `CascadeTypeOK`, `CascadeGate`, `CascadeSmoothed`, `CascadeCadence`, and
the refinement `CascadeImplementsSpotter`.

**Streaming detector.** `StreamingInv` adds `RunIds`, `RefractoryLeft` (the exact
count left) and `RunCounted` (the run counted equals the positive frames since
the period ended). From it: `StreamingTypeOK`, `StreamingNeverDeaf`,
`StreamingStandsOnRun`, `StreamingImplementsSpotter`.

**Detection path.** Two identifiers minted in one opening of the gate would need an edge
that the detector sees and the gate never made; frames dropped in between are what could
make one. The invariant reads the last frame the detector was given, the frames of the ring
it has not been given (from `Unheard` to the head) and the gate as it is now as one line.
`RingShape` keeps the line whole until a drop falls into a read: the tick's slot is the one at
`tail_`, what is unread is within the capacity, and only the frame being written may be dropped
before it is committed, so a fill lands outside the line (`SlotsApart`, `FillElsewhere`).
`InOrder`: of any two frames of the line the later one has the greater opening number if speech
begins between them. It survives the loss of frames from its front, since a part of an ordered
line is ordered: `PathOneCascade`, while `~spoiled`. `NoneMissing`: while every
block left its frames, neighbours in the line follow each other, which gives
`PathEveryOpeningHeard`. `GateOwes` (the hangover left covers what is missing to
`HangoverFrames` quiet blocks) gives `PathHangover`. `PathImplementsDetector` shows that the
path is a refinement of `CascadeDetector`, drops and spoiled reads included: every theorem about
the cascade holds on it, among them the refinement of `WakeSpotter` (`PathImplementsSpotter`,
`PathSmoothed`).

**Model manager.** `OwnershipInv`, for any updaters and readers: who is where, `mu_` is held by
the one thread between its swap and the release (`Locked`), `inFlight_` is the number of readers
inside the bracket (`Counted`, by cardinality), the roles are different regions and they are
what is mapped (`Apart`, `Covered`). `ModelOneOwner` follows. `ServedInv` adds that nobody reads
while a thread unmaps (`NobodyReads`), that the region a reader took is still in a role and holds
what it held (`ReadersHold`), and `HandlesMatchRegions`, which is inductive beside them: a handle
`activate` accepts has the staged address, and can be of another mapping there only if
`stale` is set. It gives `ModelNoUseAfterUnmap`, whatever handles are activated, and
`ModelHandlesMatchRegions`.

**Engine.** `EngineInv`: between two calls the engine is wholly up or wholly down (`Between`), how
much of it is up at each step of `start()` and `stop()` (`Starting`, `Stopping`), the Callback
thread holds a message exactly while it calls the listener (`Holding`), and the queue
holds the numbers after the one handled last (`Numbered`). From it `EngineQuiescentWhenStopped`,
`EngineOneThreadPerRole` and `EngineMessagesInOrder`.

**Onboarding.** A manifest is believed, so the proof is about what is beside it:
`Manifested` (a manifest digests one build, and each file beside it is the one digested or
gone), `Building` (the directory of the build under way has no manifest until the end and
holds this job's files so far), `Working` (past each phase the working directory holds this
job's files), `Delivering` and `Measuring` (the zip and the measurement are of them).
`OnboardingVerifiedIsOneBuild` says that nothing a verification accepts mixes two builds, though a
kill may stop the removal of the old directory anywhere. `OnboardingBuiltIsDelivered` needs
itself in the invariant. `OnboardingSpeakerIndependent` rests on the types: every
model on disk, of any age, heard training speakers only.

**Clip generation.** One lemma (`JobIs`) brings the jobs of the eleven scripts to five shapes:
the list is dropped, its head is tried, passed over or opened as a batch, or a clip of the batch is tried;
the lemmas about the plans say what the grids, the caps, the list of what is missing and Parler's
interleaving of the two categories contain. `Fresh` (scripts that write without looking hold
only clips that are missing, each once) gives `ClipsKept`; `Covering` (a run that may
still end clean has every clip, but those of the voices that are not there, on disk, in the
batch or in the list) gives `ClipsCovered`.
`ByCategory` and `InTotal` bound what was made plus what may come (the batch and the list) and give
`ClipsBounded`, and `ClipsLooselyBounded` for the two engines of finding 3. `ClipParlerSwapsWhole` is inductive with the types.

**Training tools.** `Unheard` follows the recordings: outside the libri track a held-out speaker is in
no training half, cache, model or session; in every track the two halves of
one split are disjoint. `Ablation` says which of the three models of `heym_qat` are this run's at each
step, `Fitted` that a stage is fitted and measured on different accents and that labels.json has the
choice made from these results. From them `TrainingMeasuredOnUnseen`, `TrainingSameTraining` and
`TrainingMethodNeverHurts`; the last also needs that `Chosen` is well defined, a minimum over
a finite set of naturals (`ChosenBest`).

Model-checked only: liveness under fairness (`Drains`, `StopReturns`, `Delivers`,
`RetiredUnmapped`, `RerunsComplete` and the fairness half of `ImplementsFairQueue`), which is out
of the prover's reach, and the three violations. `VadGate` has no theorem of its own; `GateStep` in
`CascadeProofs` is what the path needs of it.

## What is not modelled

- Numeric code: DSP, log-Mel, resampling, the models, calibration. Their results
  are inputs wherever control depends on them.
- `pumpForTest` and `drainOnceForTest`, the single-threaded test drives.
- The undefined behaviour of calls the contract forbids: `initialize()` or a
  second `setFrameSink` on a running engine, `stop()` from a listener. The calls
  themselves are in `EngineLifecycle`; the data race they cause is not.
- Weak memory: see `RingBuffer` above.
- Failed mappings and failed signature checks leave the manager as it was (a
  failed check cannot happen in this version) and are no action.
- In `Onboarding`: two jobs at once, signatures, a dist root other than `dist`, and
  a dataset that changes while its job runs. A speaker has clips of both classes.
- In `ClipGeneration`: two scripts at once, clips deleted by hand, several languages
  of IndicTTS, the sources of the augmentation changing.
- In `KeywordTraining`: `aura_train --dataset-dir`, `heym_eval --calibration`, tools run at
  the same time, recordings removed, what training learns. The tools of
  `tools/experimental` look for `.data` one directory too low since they were moved; the
  model has them see the one of `tools/`.
- Benchmarks, dataset builders and plain scripts: each reads its inputs and writes its
  output once, with no state to come back to.

## Plan

Every safety and action property of the runs is proved. What is left to prove:

1. Of the ring under kDropOldest: the state of finding 1 is the worst one. `tail_` is never more than one
   ahead of `head_`, and while it is not ahead what is delivered is a subsequence of what
   was accepted.
2. The safety steps that liveness rests on: for `StopReturns`, a measure that each step of
   a stopping engine lowers; for `Drains`, that a poll of a ring that is not shut delivers a frame.

Then what is left of the model:

3. `FrontEnd`: sample counts through the resampler, the 512-sample chunks of
   `SileroVad`, the overlap buffer of `LogMelExtractor` and `StreamingWindow`;
   how old the answer a frame carries can be. It takes the place of the
   nondeterministic block of `DetectionPath`.
4. `ConfigProvider` with the lock-order checker: precedence of overrides, handlers
   under the lock, monotonic snapshots.
5. The JNI listener and its owner, composed with `EngineLifecycle`.
