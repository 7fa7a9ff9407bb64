--------------------------- MODULE ClipGeneration ---------------------------
(***************************************************************************)
(* wakeword_datagen/ and tools/sarvam_tts_gen.py: the scripts that write   *)
(* the synthetic clips, one per speech engine, and the augmentation pass.  *)
(* Every script may be run again and again, interrupted anywhere, and      *)
(* leaves what exists alone: the directory is its only memory.  The names  *)
(* of the clips carry the engine, so a behaviour is about one engine.      *)
(*                                                                         *)
(* A clip is <<negative, phrase, variant>>.  It is cut when ffmpeg or the  *)
(* WAV writer failed or was killed while writing it.                       *)
(***************************************************************************)
EXTENDS Integers, Sequences, FiniteSets

CONSTANTS
  Positives, Negatives,  \* numbers of phrases of each category
  Alike,     \* positives that slug() spells alike ("hey aura", "hey Aura")
  Variants,  \* speeds, pitches, voices, samples or augmented copies per phrase
  Limit      \* what --limit, --max or --max-clips says when given

ASSUME ClipAssumption ==
  /\ Positives \in Nat /\ Negatives \in Nat
  /\ Variants \in Nat \ {0} /\ Limit \in Nat \ {0}
  /\ Alike \subseteq 1..Positives

VARIABLES
  engine,   \* whose script; fixed
  calm,     \* from here on nothing fails and nobody interrupts
  phase,    \* "idle" between runs, "setup", "run"
  limit,    \* the run's limit, 0 for none
  outcome,  \* what became of the latest run
  todo,     \* jobs left; the head is under way
  batch,    \* clips left of a job whose audio is there
  disk,     \* the output directory
  tmp,      \* clips whose <name>.tmp.wav exists (Parler)
  made, failed, netDead,  \* the run's counters and net_dead
  voices,   \* the voice files (Piper): a variant is a voice
  config    \* config.json (IndicTTS)

vars == <<engine, calm, phase, limit, outcome, todo, batch, disk, tmp,
          made, failed, netDead, voices, config>>
world   == <<engine, calm, limit>>
files   == <<voices, config>>
counts  == <<made, failed>>
control == <<phase, outcome>>

Engines == {"espeak", "sapi", "piper", "gtts", "bark", "indictts", "pipergen",
            "kokoro", "parler", "sarvam", "augment"}

\* Scripts that name their clips by slug(phrase) and read phrases.json.
BySlug == {"espeak", "sapi", "piper", "gtts", "indictts", "pipergen"}

slug(negative, i) == IF ~negative /\ engine \in BySlug /\ i \in Alike THEN 0 ELSE i

out_path(negative, i, v) == <<negative, slug(negative, i), v>>

Phrases(negative) == IF negative THEN 1..Negatives ELSE 1..Positives

Clips == UNION {{out_path(negative, i, v) : i \in Phrases(negative), v \in 1..Variants}
                  : negative \in BOOLEAN}

Exists(c) == disk[c] # "absent"
MadeInAll == made[FALSE] + made[TRUE]

Init ==
  /\ engine \in Engines /\ calm = FALSE
  /\ phase = "idle" /\ limit = 0 /\ outcome = "none"
  /\ todo = <<>> /\ batch = {}
  /\ disk = [c \in Clips |-> "absent"] /\ tmp = {}
  /\ made = [negative \in BOOLEAN |-> 0] /\ failed = 0 /\ netDead = FALSE
  /\ voices = [v \in 1..Variants |-> IF engine = "piper" THEN "absent" ELSE "good"]
  /\ config = "good"

-----------------------------------------------------------------------------
(* Plans: the sequence of jobs, a job being the set of clips it writes.    *)

\* One job per clip, the phrases innermost; one job per phrase.
Grid ==
  [negative \in BOOLEAN |->
     LET n == Cardinality(Phrases(negative))
     IN  [k \in 1 .. n * Variants |->
            {out_path(negative, ((k - 1) % n) + 1, ((k - 1) \div n) + 1)}]]
PerPhrase ==
  [negative \in BOOLEAN |->
     [i \in Phrases(negative) |-> {out_path(negative, i, v) : v \in 1..Variants}]]

Both(plan) == plan[FALSE] \o plan[TRUE]

Cap(jobs) ==
  IF limit = 0 \/ limit > Len(jobs) THEN jobs ELSE SubSeq(jobs, 1, limit)

\* --limit cuts each category's list, before anything is looked up on disk.
CapEach(plan) == Cap(plan[FALSE]) \o Cap(plan[TRUE])

\* _clean_sources()[:limit]: one list, the positives first.
AugmentPlan == Cap(Both(PerPhrase))

\* The jobs at some places of a list, in their order.
At(jobs, places) ==
  LET rank(i) == Cardinality({j \in places : j <= i})
  IN  [k \in 1..Cardinality(places) |-> jobs[CHOOSE i \in places : rank(i) = k]]

\* The jobs with a clip that does not exist at the start of the run.
NotOnDisk(jobs) == At(jobs, {i \in DOMAIN jobs : \E c \in jobs[i] : ~Exists(c)})

\* The clips of some voices only.
OfVoices(ready) ==
  [negative \in BOOLEAN |->
     At(Grid[negative], {i \in DOMAIN Grid[negative] : \A c \in Grid[negative][i] : c[3] \in ready})]

\* build_jobs: two negatives after each positive, while there are any.
ParlerPlan ==
  LET pos == Grid[FALSE]
      neg == Grid[TRUE]
      Lesser(a, b) == IF a < b THEN a ELSE b
      Place == [job \in ({1} \X DOMAIN pos) \cup ({2} \X DOMAIN neg) |->
                  IF job[1] = 1 THEN job[2] + Lesser(Len(neg), 2 * (job[2] - 1))
                                ELSE job[2] + Lesser(Len(pos), (job[2] + 1) \div 2)]
  IN  [k \in 1 .. Len(pos) + Len(neg) |->
         LET job == CHOOSE j \in DOMAIN Place : Place[j] = k
         IN  IF job[1] = 1 THEN pos[job[2]] ELSE neg[job[2]]]

-----------------------------------------------------------------------------
(* A run starts, ends, is refused or interrupted.                          *)

Limits == CASE engine \in {"kokoro", "parler", "pipergen"} -> {0}
            [] engine = "bark" -> {Limit}
            [] OTHER -> {0, Limit}

\* run_all.py, or the engine's own main().
StartRun(l) ==
  /\ phase = "idle" /\ l \in Limits
  /\ limit' = l /\ phase' = "setup" /\ outcome' = "running"
  /\ made' = [negative \in BOOLEAN |-> 0] /\ failed' = 0 /\ netDead' = FALSE
  /\ UNCHANGED <<engine, calm, todo, batch, disk, tmp, files>>

Begin(jobs) ==
  /\ phase' = "run" /\ todo' = jobs
  /\ UNCHANGED <<world, outcome, batch, disk, tmp, counts, netDead>>

\* "available": False, or an exit: nothing is generated.
Leave(how) ==
  /\ phase' = "idle" /\ outcome' = how
  /\ UNCHANGED <<world, todo, batch, disk, tmp, counts, netDead>>

Refused == ~calm /\ Leave("unavailable")

Starting(e) == phase = "setup" /\ engine = e

EspeakStart == Starting("espeak") /\ UNCHANGED files /\ (Refused \/ Begin(CapEach(Grid)))

SapiStart == Starting("sapi") /\ UNCHANGED files /\ (Refused \/ Begin(CapEach(Grid)))

GttsStart == Starting("gtts") /\ UNCHANGED files /\ (Refused \/ Begin(CapEach(PerPhrase)))

\* ensure_voices: files that exist are taken for good, whatever they hold; the others
\* are downloaded.  A voice whose download failed is skipped, and may be left torn.
Ensured(new, ready) ==
  \A v \in 1..Variants :
    IF voices[v] # "absent" THEN new[v] = voices[v] /\ v \in ready
                            ELSE (v \in ready <=> new[v] = "good") /\ (calm => v \in ready)

\* The run goes on with the voices it has, and is available if it has any.
PiperStart ==
  /\ Starting("piper") /\ UNCHANGED config
  /\ \/ Refused /\ UNCHANGED voices
     \/ \E ready \in SUBSET (1..Variants) :
          /\ voices' \in [1..Variants -> {"absent", "good", "torn"}] /\ Ensured(voices', ready)
          /\ IF ready = {} THEN Leave("unavailable") ELSE Begin(CapEach(OfVoices(ready)))

\* Only what is missing is loaded for, and the model only for that.
BarkStart ==
  /\ Starting("bark") /\ UNCHANGED files
  /\ IF NotOnDisk(Both(Grid)) = <<>> THEN Leave("done")
                                     ELSE Refused \/ Begin(NotOnDisk(Both(Grid)))

\* A language whose config.json does not parse, or whose model does not load, is
\* skipped, and the run goes on to its report.
IndicStart ==
  /\ Starting("indictts") /\ UNCHANGED files
  /\ \/ (config = "torn" \/ ~calm) /\ Leave("done")
     \/ config = "good" /\ Begin(Both(PerPhrase))

SarvamStart == Starting("sarvam") /\ UNCHANGED files /\ (Refused \/ Begin(NotOnDisk(Both(Grid))))

KokoroStart == Starting("kokoro") /\ UNCHANGED files /\ Begin(Both(Grid))

ParlerStart == Starting("parler") /\ UNCHANGED files /\ Begin(ParlerPlan)

PipergenStart == Starting("pipergen") /\ UNCHANGED files /\ Begin(Both(PerPhrase))

AugmentStart == Starting("augment") /\ UNCHANGED files /\ Begin(AugmentPlan)

Setup ==
  \/ EspeakStart \/ SapiStart \/ GttsStart \/ PiperStart \/ BarkStart \/ IndicStart
  \/ SarvamStart \/ KokoroStart \/ ParlerStart \/ PipergenStart \/ AugmentStart

-----------------------------------------------------------------------------
(* One clip.                                                               *)

\* ffmpeg writes the clip in place.
Write(c) ==
  /\ disk' = [disk EXCEPT ![c] = "whole"] /\ made' = [made EXCEPT ![c[1]] = @ + 1]
  /\ UNCHANGED <<failed, tmp>>

\* No audio, or ffmpeg failed and may have left its beginning.
Fail(c) ==
  /\ ~calm /\ failed' = failed + 1
  /\ disk' \in {disk, [disk EXCEPT ![c] = "cut"]}
  /\ UNCHANGED <<made, tmp>>

NoClip(n) == failed' = failed + n /\ UNCHANGED <<disk, made, tmp>>

Skip == UNCHANGED <<disk, counts, tmp>>

-----------------------------------------------------------------------------
(* The loops: one job, or one clip of a job whose audio is there.          *)

Going(e) == phase = "run" /\ engine = e /\ todo # <<>> /\ batch = {}

\* The head of the list is dealt with; more is what is left to write of it.
Dealt(more) ==
  /\ todo' = Tail(todo) /\ batch' = more
  /\ UNCHANGED <<world, control, files>>

Stop ==
  /\ todo' = <<>> /\ outcome' = "stopped"
  /\ Skip /\ UNCHANGED <<world, phase, batch, netDead, files>>

Missing == {c \in Head(todo) : ~Exists(c)}

\* Everywhere a clip that exists is skipped, whatever it holds.
EspeakSynth(c) == Write(c) \/ Fail(c)
EspeakJob ==
  /\ Going("espeak") /\ Dealt({}) /\ UNCHANGED netDead
  /\ \E c \in Head(todo) : IF Exists(c) THEN Skip ELSE EspeakSynth(c)

SapiSynth(c) == Write(c) \/ Fail(c)
SapiJob ==
  /\ Going("sapi") /\ Dealt({}) /\ UNCHANGED netDead
  /\ \E c \in Head(todo) : IF Exists(c) THEN Skip ELSE SapiSynth(c)

\* A torn voice file synthesises nothing.
PiperSynth(c) == IF voices[c[3]] = "torn" THEN NoClip(1) ELSE Write(c) \/ Fail(c)
PiperJob ==
  /\ Going("piper") /\ Dealt({}) /\ UNCHANGED netDead
  /\ \E c \in Head(todo) : IF Exists(c) THEN Skip ELSE PiperSynth(c)

\* No samples count as an error, like an exception.
KokoroSynth(c) == Write(c) \/ Fail(c)
KokoroJob ==
  /\ Going("kokoro") /\ Dealt({}) /\ UNCHANGED netDead
  /\ \E c \in Head(todo) : IF Exists(c) THEN Skip ELSE KokoroSynth(c)

\* mutant: one clip more than the cap
BarkFullLate == MadeInAll > limit

BarkFull == MadeInAll >= limit

\* The cap on new clips and the time budget are looked at before each clip; the
\* budget is not spent before the first.
BarkJob ==
  /\ Going("bark")
  /\ \/ (BarkFull \/ MadeInAll + failed > 0) /\ Stop
     \/ ~BarkFull /\ (\E c \in Head(todo) : Write(c) \/ Fail(c)) /\ Dealt({}) /\ UNCHANGED netDead

SarvamSynth(c) == Write(c) \/ Fail(c)
SarvamJob ==
  /\ Going("sarvam")
  /\ IF limit # 0 /\ MadeInAll >= limit
       THEN Stop
       ELSE (\E c \in Head(todo) : SarvamSynth(c)) /\ Dealt({}) /\ UNCHANGED netDead

\* mutant: the temporary file is copied, not renamed
CopyAside(c) == tmp' = tmp \cup {c}

Rename(c) == tmp' = tmp \ {c}

\* write_16k: ffmpeg into <clip>.tmp.wav, renamed when it is whole.
ParlerSynth(c) ==
  \/ /\ disk' = [disk EXCEPT ![c] = "whole"] /\ Rename(c)
     /\ made' = [made EXCEPT ![c[1]] = @ + 1] /\ UNCHANGED failed
  \/ /\ ~calm /\ tmp' \in {tmp, tmp \cup {c}}
     /\ failed' = failed + 1 /\ UNCHANGED <<disk, made>>

\* mutant: the time the model takes to load counts against the deadline
DeadlineFromStart == TRUE

\* time.time() - loop_start > DEADLINE_S: not before the first synthesis.
DeadlineCanPass == MadeInAll + failed > 0

ParlerJob ==
  /\ Going("parler")
  /\ \/ Missing # {} /\ DeadlineCanPass /\ Stop
     \/ /\ \E c \in Head(todo) : IF Exists(c) THEN Skip ELSE ParlerSynth(c)
        /\ Dealt({}) /\ UNCHANGED netDead

\* mutant: the clips of a call that failed are not counted
FetchFailsUncounted == Skip /\ netDead' = (MadeInAll = 0)

\* The third attempt failed.  Before the first clip of the run: no more calls.
FetchFails == NoClip(Cardinality(Missing)) /\ netDead' = (MadeInAll = 0)

\* One network call per phrase with a clip missing.
GttsJob ==
  /\ Going("gtts")
  /\ CASE Missing = {} -> Skip /\ Dealt({}) /\ UNCHANGED netDead
       [] Missing # {} /\ netDead ->
            NoClip(Cardinality(Missing)) /\ Dealt({}) /\ UNCHANGED netDead
       [] OTHER -> \/ Skip /\ Dealt(Head(todo)) /\ UNCHANGED netDead
                   \/ ~calm /\ FetchFails /\ Dealt({})

\* The limit stops a language before a phrase or a voice.
IndicJob ==
  /\ Going("indictts")
  /\ IF limit # 0 /\ MadeInAll >= limit
       THEN Stop
       ELSE /\ UNCHANGED netDead
            /\ \/ Missing = {} /\ Skip /\ Dealt({})
               \/ Missing # {} /\ Skip /\ Dealt(Head(todo))
               \/ Missing # {} /\ ~calm /\ NoClip(1) /\ Dealt({})

\* gen_phrase: the generator makes every sample again, the missing ones are written.
PipergenJob ==
  /\ Going("pipergen") /\ UNCHANGED netDead
  /\ \/ Skip /\ Dealt(Missing)
     \/ Missing # {} /\ ~calm /\ NoClip(Cardinality(Missing)) /\ Dealt({})

\* A source that does not read counts as one failure.
AugmentJob ==
  /\ Going("augment") /\ UNCHANGED netDead
  /\ \/ Skip /\ Dealt(Head(todo))
     \/ ~calm /\ NoClip(1) /\ Dealt({})

\* The clips of a job, one after the other.
NextVariant(e, c) ==
  /\ phase = "run" /\ engine = e
  /\ \A d \in batch : c[3] <= d[3]
  /\ batch' = batch \ {c}
  /\ UNCHANGED <<world, control, todo, netDead, files>>

\* mutant: the clips are made afresh from the audio that was fetched
GttsAfresh(c) == Write(c) \/ Fail(c)

GttsSynth(c) == IF Exists(c) THEN Skip ELSE Write(c) \/ Fail(c)
GttsVariant == \E c \in batch : NextVariant("gtts", c) /\ GttsSynth(c)

\* write_variants: a clip that ffmpeg failed to write is counted as neither.
IndicSynth(c) ==
  IF Exists(c) THEN Skip
  ELSE \/ Write(c)
       \/ ~calm /\ disk' \in {disk, [disk EXCEPT ![c] = "cut"]} /\ UNCHANGED <<counts, tmp>>
IndicVariant == \E c \in batch : NextVariant("indictts", c) /\ IndicSynth(c)

PipergenSynth(c) == Write(c) \/ Fail(c)
PipergenVariant == \E c \in batch : NextVariant("pipergen", c) /\ PipergenSynth(c)

AugmentSynth(c) == IF Exists(c) THEN Skip ELSE Write(c) \/ Fail(c)
AugmentVariant == \E c \in batch : NextVariant("augment", c) /\ AugmentSynth(c)

Job ==
  \/ EspeakJob \/ SapiJob \/ PiperJob \/ KokoroJob \/ BarkJob \/ SarvamJob \/ ParlerJob
  \/ GttsJob \/ GttsVariant \/ IndicJob \/ IndicVariant
  \/ PipergenJob \/ PipergenVariant \/ AugmentJob \/ AugmentVariant

\* The report; it says nothing of a list that was cut.
EndRun ==
  /\ phase = "run" /\ todo = <<>> /\ batch = {}
  /\ phase' = "idle"
  /\ outcome' = IF outcome = "running" THEN "done" ELSE outcome
  /\ UNCHANGED <<world, todo, batch, disk, tmp, counts, netDead, files>>

\* The clips the next step may be writing.
Writing ==
  IF batch # {} THEN {c \in batch : ~Exists(c) /\ \A d \in batch : c[3] <= d[3]}
  ELSE IF todo = <<>> \/ engine \in {"gtts", "indictts", "pipergen", "augment"} THEN {}
  ELSE Missing

\* Killed, or an exception nobody catches before run_all.py does: the counters are
\* gone.  A clip, a voice file or config.json (patch_config rewrites it in place) may
\* be half written.
Interrupted ==
  /\ phase # "idle" /\ ~calm
  /\ phase' = "idle" /\ outcome' = "interrupted" /\ todo' = <<>> /\ batch' = {}
  /\ made' = [negative \in BOOLEAN |-> 0] /\ failed' = 0 /\ netDead' = FALSE
  /\ \/ UNCHANGED <<disk, tmp, files>>
     \/ \E c \in Writing :
          /\ IF engine = "parler"
               THEN tmp' = tmp \cup {c} /\ UNCHANGED disk
               ELSE disk' = [disk EXCEPT ![c] = "cut"] /\ UNCHANGED tmp
          /\ UNCHANGED files
     \/ /\ phase = "setup"
        /\ UNCHANGED <<disk, tmp>>
        /\ \/ /\ engine = "piper" /\ UNCHANGED config
              /\ voices' \in [1..Variants -> {"absent", "good", "torn"}]
              /\ \A v \in 1..Variants : voices[v] # "absent" => voices'[v] = voices[v]
           \/ engine = "indictts" /\ config' = "torn" /\ UNCHANGED voices
  /\ UNCHANGED world

\* From some point on the engines, the disk and the network work.
CalmDown ==
  /\ ~calm /\ calm' = TRUE
  /\ UNCHANGED <<engine, limit, control, todo, batch, disk, tmp, counts, netDead, files>>

Next == (\E l \in {0, Limit} : StartRun(l)) \/ Setup \/ Job \/ EndRun \/ Interrupted \/ CalmDown

\* A run under way goes on; somebody runs the script again, now and then in full.
FullRun == StartRun(IF engine = "bark" THEN Limit ELSE 0)

Spec == Init /\ [][Next]_vars /\ WF_vars(Setup \/ Job \/ EndRun) /\ SF_vars(FullRun)

-----------------------------------------------------------------------------
(* Properties.                                                             *)

AllExist == \A c \in Clips : Exists(c)

\* "Idempotent": whatever engine, limit, failure or interruption, a clip that exists
\* is never written again, not even one that was cut short.
ExistingClipsKept ==
  [][\A c \in Clips : Exists(c) => disk'[c] = disk[c]]_vars

\* "Max new clips per engine per category" (run_all.py), per run (Bark, Sarvam), and at
\* most k copies of each clean clip the cap lets in (augment.py): whatever exists, a
\* limited run adds no more.  gTTS and IndicTTS do: see DocumentedLimit.
NewClipsBounded ==
  limit # 0 =>
    CASE engine \in {"espeak", "sapi", "piper"} -> \A n \in BOOLEAN : made[n] <= limit
      [] engine \in {"bark", "sarvam"} -> MadeInAll <= limit
      [] engine = "augment" -> MadeInAll <= limit * Variants
      [] OTHER -> TRUE

\* What the documents say of the two others: "max NEW clips per engine per category" of
\* gTTS, which run_all.py runs, and "cap NEW clips this run" of IndicTTS.  gTTS cuts a
\* list of phrases, with a clip per speed; IndicTTS looks at the cap between phrases.
DocumentedLimit ==
  limit # 0 => /\ engine = "gtts" => \A n \in BOOLEAN : made[n] <= limit
               /\ engine = "indictts" => MadeInAll <= limit

\* What they keep to instead.
LooserLimit ==
  limit # 0 => /\ engine = "gtts" => \A n \in BOOLEAN : made[n] <= limit * Variants
               /\ engine = "indictts" => MadeInAll < limit + Variants

\* A full run that came to its end and reports no failure left no clip of the plan out,
\* but those of a Piper voice whose files it could not get: that voice is skipped and
\* counted nowhere.  IndicTTS is the exception: see IndicStart and IndicSynth.
CleanReportCovers ==
  /\ phase = "idle" /\ outcome = "done" /\ failed = 0 /\ engine # "indictts"
  /\ limit = 0 \/ engine \in {"bark", "sarvam"}
  => \A c \in Clips : voices[c[3]] = "good" => Exists(c)

\* Parler's clips are whole, and nothing half written stays beside one that exists.
ParlerSwapsWhole ==
  engine = "parler" =>
    \A c \in Clips : disk[c] # "cut" /\ (Exists(c) => c \notin tmp)

\* Once nothing fails any more, re-running the script makes the whole plan, through
\* time budgets and caps, unless a torn voice or configuration file is in the way.
RerunsComplete ==
  calm /\ config # "torn" /\ (\A v \in 1..Variants : voices[v] # "torn") ~> AllExist
=============================================================================
