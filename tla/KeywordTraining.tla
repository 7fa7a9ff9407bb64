-------------------------- MODULE KeywordTraining --------------------------
(***************************************************************************)
(* tools/: from recorded speakers to models and to the numbers reported    *)
(* about them.  Three tracks that share no file: "heym" (heym_train,       *)
(* streaming_train, heym_qat, heym_eval), "libri" (libri_train) and "aura" *)
(* (aura_train on its default dataset, calibrate on the models it wrote).  *)
(* Tools are run by hand, one at a time; recordings are added at any time; *)
(* a tool that dies, killed or by what it cannot read, may leave the file  *)
(* it was writing torn.                                                    *)
(*                                                                         *)
(* A model is the set of speakers it heard, features are the speakers of   *)
(* the two splits.  In the aura track a speaker stands for an accent, which*)
(* is what that track holds out.  The Speech Commands and the noise that   *)
(* are mixed into the training negatives have no speaker here.  The tools  *)
(* of tools/experimental are taken to see the .data of tools/.             *)
(***************************************************************************)
EXTENDS Integers, Sequences, FiniteSets, FiniteSetsExt

CONSTANTS
  N,          \* speakers are 1..N
  HeldOut,    \* TEST_SPEAKERS (heym_data), TEST_ACCENTS (aura_data)
  Calib,      \* CALIB_ACCENTS; EVAL_ACCENTS are the other held-out accents
  MaxRuns,    \* bound: tools started
  None, Absent, Torn

ASSUME TrainingAssumption ==
  /\ N \in Nat /\ MaxRuns \in Nat
  /\ HeldOut \subseteq 1..N /\ Calib \subseteq HeldOut

VARIABLES
  track,   \* fixed
  seeded,  \* libri: the positions HELDOUT_SEED picks among n speakers; fixed
  data,    \* speakers with clips on disk
  cache,   \* heym_feat2.npz, libri_feat.npz, aura_feat.npz
  file,    \* the .onnx files
  labels,  \* labels.json: the calibration method it names
  runs, tool, step,  \* the tool under way and what it does next
  split,   \* its TEST_SPEAKERS, None before the first items()
  feat,    \* its Xtr and Xte
  scored,  \* the models it measures, with what it found
  claim    \* what the latest report says it is about

vars  == <<track, seeded, data, cache, file, labels, runs, tool, step, split, feat, scored, claim>>
fixed == <<track, seeded>>
local == <<split, feat, scored>>

Speakers == 1..N
NoFeat == [tr |-> {}, te |-> {}]
Methods == {"none", "platt", "temperature"}
Tools == [heym  |-> {"heym_train", "streaming_train", "heym_qat", "heym_eval"},
          libri |-> {"libri_train"},
          aura  |-> {"aura_train", "calibrate"}]
Steps == {"cache", "buildTest", "train", "ptq", "export", "measure", "open", "stage1", "stage2",
          "choose", "report"}
Trainers == {"heym_train", "libri_train", "aura_train"}
Files == {"stage1", "stage2", "streaming", "fp32", "ptq", "qat"}

ASSUME NamesAssumption == None \notin Steps \cup UNION {Tools[t] : t \in DOMAIN Tools}

Readable(x) == x \notin {Absent, Torn}

\* n_hold: a fifth of n, rounded (never a tie), at least 1; none of none.
HoldCount(n) == IF n = 0 THEN 0 ELSE Max({1, (2 * n + 5) \div 10})

\* The speakers of present whose position, once sorted, is one of the seeded ones.
heldout_speakers(present) ==
  {s \in present : Cardinality({t \in present : t <= s}) \in seeded[Cardinality(present)]}

Init ==
  /\ track \in DOMAIN Tools
  /\ seeded \in IF track = "libri"
                  THEN {f \in [0..N -> SUBSET Speakers] :
                          \A n \in 0..N : f[n] \subseteq 1..n /\ Cardinality(f[n]) = HoldCount(n)}
                  ELSE {[n \in 0..N |-> {}]}
  /\ data \in SUBSET Speakers
  /\ cache = Absent /\ file = [f \in Files |-> Absent] /\ labels = "none"
  /\ runs = 0 /\ tool = None /\ step = None
  /\ split = None /\ feat = NoFeat /\ scored = <<>>
  /\ claim = None

-----------------------------------------------------------------------------
(* The operator: adds recordings at any time, removes the cache, starts a tool. *)

AddSpeaker ==
  /\ \E s \in Speakers \ data : data' = data \cup {s}
  /\ UNCHANGED <<fixed, cache, file, labels, runs, tool, step, local, claim>>

RemoveCache ==
  /\ tool = None /\ cache # Absent /\ cache' = Absent
  /\ UNCHANGED <<fixed, data, file, labels, runs, tool, step, local, claim>>

Start(t) ==
  /\ tool = None /\ runs < MaxRuns
  /\ runs' = runs + 1 /\ tool' = t /\ claim' = None
  /\ step' = CASE t = "heym_eval" -> "open"
               [] t = "calibrate" -> "stage1"
               [] OTHER -> "cache"
  /\ t = "calibrate" => labels # Torn
  /\ UNCHANGED <<fixed, data, cache, file, labels, local>>

\* The process is gone, with what it held.
Gone == tool' = None /\ step' = None /\ split' = None /\ feat' = NoFeat /\ scored' = <<>>

\* What the tool may be writing in place at this step.
BeingWritten ==
  CASE step = "train" -> (CASE tool = "heym_qat" -> {"fp32"}
                            [] tool = "streaming_train" -> {"streaming"}
                            [] OTHER -> {"stage1", "stage2"})
    [] step = "ptq" -> {"ptq"}
    [] step = "export" -> {"qat"}
    [] OTHER -> {}

Dies ==
  /\ tool # None /\ Gone
  /\ \/ UNCHANGED <<cache, file, labels>>
     \/ step = "buildTest" /\ cache' = Torn /\ UNCHANGED <<file, labels>>
     \/ \E f \in BeingWritten : file' = [file EXCEPT ![f] = Torn] /\ UNCHANGED <<cache, labels>>
     \/ step = "choose" /\ labels' = Torn /\ UNCHANGED <<cache, file>>
  /\ UNCHANGED <<fixed, data, runs, claim>>

-----------------------------------------------------------------------------
(* Features: the cache if there is one, and only a trainer makes one. *)

LoadCache ==
  /\ step = "cache" /\ Readable(cache)
  /\ feat' = cache /\ step' = "train"
  /\ UNCHANGED <<fixed, data, cache, file, labels, runs, tool, split, scored, claim>>

BuildTrain ==
  /\ step = "cache" /\ cache = Absent /\ tool \in Trainers
  /\ split' = IF track = "libri" THEN heldout_speakers(data) ELSE HeldOut
  /\ feat' = [feat EXCEPT !.tr = data \ split']
  /\ step' = "buildTest"
  /\ UNCHANGED <<fixed, data, cache, file, labels, runs, tool, scored, claim>>

\* mutant: the held-out speakers of the speakers there are by now.
TestSplitAfresh == data \cap (IF track = "libri" THEN heldout_speakers(data) ELSE split)

\* items("test"): TEST_SPEAKERS was filled by items("train").
TestSplit == data \cap split

BuildTest ==
  /\ step = "buildTest"
  /\ feat' = [feat EXCEPT !.te = TestSplit]
  /\ cache' = feat' /\ step' = "train"
  /\ UNCHANGED <<fixed, data, file, labels, runs, tool, split, scored, claim>>

-----------------------------------------------------------------------------
(* Training: heym_train, libri_train and aura_train export one of the two    *)
(* stages (--arch), streaming_train its own file.                            *)

TrainAndExport ==
  /\ step = "train" /\ tool # "heym_qat"
  /\ \E f \in BeingWritten : file' = [file EXCEPT ![f] = feat.tr]
  /\ step' = "report"
  /\ UNCHANGED <<fixed, data, cache, labels, runs, tool, local, claim>>

Report(about) == claim' = about /\ Gone

\* The metrics .json beside the model.
ReportTraining ==
  /\ step = "report" /\ tool # "calibrate"
  /\ Report([by |-> tool, heard |-> {feat.tr}, fit |-> {}, tested |-> feat.te])
  /\ UNCHANGED <<fixed, data, cache, file, labels, runs>>

-----------------------------------------------------------------------------
(* heym_qat: the float baseline, its plain PTQ, and the QAT model, exported  *)
(* from the quantised graph or, when that fails, from its float weights.     *)

TrainFloat ==
  /\ step = "train" /\ tool = "heym_qat"
  /\ file' = [file EXCEPT !["fp32"] = feat.tr] /\ step' = "ptq"
  /\ UNCHANGED <<fixed, data, cache, labels, runs, tool, local, claim>>

Ptq ==
  /\ step = "ptq" /\ Readable(file["fp32"])
  /\ file' = [file EXCEPT !["ptq"] = file["fp32"]] /\ step' = "export"
  /\ UNCHANGED <<fixed, data, cache, labels, runs, tool, local, claim>>

\* mutant: a failed export goes on with the file that is there.
ExportQatOrKeep ==
  /\ step = "export"
  /\ \E heard \in {feat.tr} \cup ({file["qat"]} \ {Absent, Torn}) :
        file' = [file EXCEPT !["qat"] = heard]
  /\ step' = "measure"
  /\ UNCHANGED <<fixed, data, cache, labels, runs, tool, local, claim>>

\* The QAT model stems from this run's baseline, fine-tuned on the same Xtr.
ExportQat ==
  /\ step = "export"
  /\ file' = [file EXCEPT !["qat"] = feat.tr] /\ step' = "measure"
  /\ UNCHANGED <<fixed, data, cache, labels, runs, tool, local, claim>>

MeasureAblation ==
  /\ step = "measure" /\ tool = "heym_qat"
  /\ \A f \in {"fp32", "ptq", "qat"} : Readable(file[f])
  /\ Report([by |-> tool, heard |-> {file[f] : f \in {"fp32", "ptq", "qat"}},
             fit |-> {}, tested |-> feat.te])
  /\ UNCHANGED <<fixed, data, cache, file, labels, runs>>

-----------------------------------------------------------------------------
(* heym_eval: models as they are on disk, a missing Stage-2 left out; clips  *)
(* of the held-out speakers as they are on disk by then.                     *)

OpenSessions ==
  /\ step = "open" /\ Readable(file["stage1"])
  /\ \/ scored' = <<[heard |-> file["stage1"]]>>
     \/ /\ Readable(file["stage2"])
        /\ scored' = <<[heard |-> file["stage1"]], [heard |-> file["stage2"]]>>
  /\ step' = "measure"
  /\ UNCHANGED <<fixed, data, cache, file, labels, runs, tool, split, feat, claim>>

MeasureCascade ==
  /\ step = "measure" /\ tool = "heym_eval"
  /\ Report([by |-> tool, heard |-> {scored[i].heard : i \in DOMAIN scored},
             fit |-> {}, tested |-> data \cap HeldOut])
  /\ UNCHANGED <<fixed, data, cache, file, labels, runs>>

-----------------------------------------------------------------------------
(* calibrate: each stage there is, fitted on one half of the held-out        *)
(* accents and measured on the other; then one method for both.              *)

NextStage == IF step = "stage1" THEN "stage2" ELSE "choose"

SkipStage ==
  /\ step \in {"stage1", "stage2"} /\ file[step] = Absent /\ step' = NextStage
  /\ UNCHANGED <<fixed, data, cache, file, labels, runs, tool, local, claim>>

\* degraded: the methods whose eval AUROC is below the uncalibrated one.
ScoreStage ==
  /\ step \in {"stage1", "stage2"} /\ Readable(file[step]) /\ step' = NextStage
  /\ \E degraded \in SUBSET (Methods \ {"none"}), ece \in [Methods -> 0..1] :
        scored' = Append(scored, [heard |-> file[step], fit |-> data \cap Calib,
                                  tested |-> data \cap (HeldOut \ Calib),
                                  degraded |-> degraded, ece |-> ece])
  /\ UNCHANGED <<fixed, data, cache, file, labels, runs, tool, split, feat, claim>>

Results == {scored[i] : i \in DOMAIN scored}

\* mutant: one stage it does not degrade is enough.
MethodOkSomewhere(m) == \E i \in DOMAIN scored : m \notin scored[i].degraded

method_ok(m) == \A i \in DOMAIN scored : m \notin scored[i].degraded

\* Summed over the stages scored: both, or one of them.
method_ece(results, m) ==
  LET ece(i) == IF i \in DOMAIN results THEN results[i].ece[m] ELSE 0
  IN  ece(1) + ece(2)

\* The first of none, platt, temperature with the least summed ECE.
Chosen ==
  LET rank  == [none |-> 0, platt |-> 1, temperature |-> 2]
      cost  == [m \in Methods |-> 3 * method_ece(scored, m) + rank[m]]
      ok    == {m \in Methods : method_ok(m)}
  IN  CHOOSE m \in ok : \A other \in ok : cost[m] <= cost[other]

WriteLabels ==
  /\ step = "choose" /\ scored # <<>>
  /\ labels' = Chosen /\ step' = "report"
  /\ UNCHANGED <<fixed, data, cache, file, runs, tool, local, claim>>

ReportCalibration ==
  /\ step = "report" /\ tool = "calibrate"
  /\ Report([by |-> tool, heard |-> {r.heard : r \in Results},
             fit |-> UNION {r.fit : r \in Results}, tested |-> UNION {r.tested : r \in Results},
             stages |-> scored, method |-> labels])
  /\ UNCHANGED <<fixed, data, cache, file, labels, runs>>

-----------------------------------------------------------------------------
Next ==
  \/ AddSpeaker \/ RemoveCache
  \/ \E t \in Tools[track] : Start(t)
  \/ Dies
  \/ LoadCache \/ BuildTrain \/ BuildTest
  \/ TrainAndExport \/ ReportTraining
  \/ TrainFloat \/ Ptq \/ ExportQat \/ MeasureAblation
  \/ OpenSessions \/ MeasureCascade
  \/ SkipStage \/ ScoreStage \/ WriteLabels \/ ReportCalibration

Spec == Init /\ [][Next]_vars

-----------------------------------------------------------------------------
(* A number reported about a model is measured on speakers the model never   *)
(* heard, and a calibration on accents it was not fitted on, whatever is     *)
(* added to the dataset while tools run and between them, and however old    *)
(* the cache and the models are (libri_data.py:10, calibrate.py:14-16).      *)
MeasuredOnUnseen ==
  claim # None =>
    /\ \A heard \in claim.heard : heard \cap claim.tested = {}
    /\ claim.fit \cap claim.tested = {}

(* The three models of heym_qat's ablation heard the same speakers: no file  *)
(* of an earlier run is measured beside those of this one, so that the       *)
(* quantisation is what the report compares (heym_qat.py:20-22).             *)
SameTraining ==
  claim # None /\ claim.by = "heym_qat" => Cardinality(claim.heard) = 1

(* The one method calibrate writes lowers no stage's AUROC and, over the     *)
(* stages together, leaves the ECE no higher than without calibration        *)
(* (calibrate.py:373-386), although it is chosen for both stages at once.    *)
MethodNeverHurts ==
  claim # None /\ claim.by = "calibrate" =>
    /\ \A i \in DOMAIN claim.stages : claim.method \notin claim.stages[i].degraded
    /\ method_ece(claim.stages, claim.method) <= method_ece(claim.stages, "none")
=============================================================================
