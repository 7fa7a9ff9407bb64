----------------------- MODULE KeywordTrainingProofs -----------------------
(***************************************************************************)
(* Proofs about KeywordTraining: what a report claims about unseen         *)
(* speakers, about the ablation's three models and about the calibration   *)
(* method, for every number of speakers, every held-out set and however    *)
(* many tools are run.                                                     *)
(*                                                                         *)
(* The argument follows the recordings: a held-out speaker never enters    *)
(* what a heym or aura trainer reads, hence no cache, no model and no      *)
(* session opened on one; in the libri track, whose split is drawn again   *)
(* on every run, only one run's own two halves are kept apart.             *)
(***************************************************************************)
EXTENDS KeywordTraining, FiniteSetTheorems, SequenceTheorems, TLAPS

Split  == [tr : SUBSET Speakers, te : SUBSET Speakers]
Opened == [heard : SUBSET Speakers]
Scored == [heard : SUBSET Speakers, fit : SUBSET Speakers, tested : SUBSET Speakers,
           degraded : SUBSET (Methods \ {"none"}), ece : [Methods -> 0..1]]

TypeOK ==
  /\ track \in DOMAIN Tools
  /\ data \in SUBSET Speakers
  /\ cache \in Split \cup {Absent, Torn}
  /\ file \in [Files -> (SUBSET Speakers) \cup {Absent, Torn}]
  /\ labels \in Methods \cup {Torn}
  /\ tool \in Tools[track] \cup {None} /\ step \in Steps \cup {None}
  /\ split \in (SUBSET Speakers) \cup {None}
  /\ feat \in Split
  /\ scored \in IF tool = "calibrate" THEN Seq(Scored) ELSE Seq(Opened)

\* Two halves that share no speaker; outside the libri track, and no held-out one to train on.
Halves(s) == s.tr \cap s.te = {} /\ (track # "libri" => s.tr \cap HeldOut = {})

(* What the tool under way holds, at each of its steps. *)
UnderWay ==
  /\ tool = None => step = None /\ scored = <<>> /\ feat = NoFeat
  /\ tool # None => step # None
  /\ step = "cache" => feat = NoFeat
  /\ step = "buildTest" =>
        split \in SUBSET Speakers /\ feat.tr \cap split = {} /\ (track # "libri" => split = HeldOut)
  /\ tool = "calibrate" => step \in {"stage1", "stage2", "choose", "report"}
  /\ tool = "heym_eval" => step \in {"open", "measure"}
  /\ tool = "heym_qat" => step \in {"cache", "buildTest", "train", "ptq", "export", "measure"}
  /\ tool \notin {"calibrate", "heym_eval", "heym_qat"} =>
        step \in {"cache", "buildTest", "train", "report", None}

(* Nothing read, cached, written or opened heard a held-out speaker. *)
Unheard ==
  /\ Halves(feat)
  /\ Readable(cache) => Halves(cache)
  /\ track # "libri" =>
       /\ \A f \in Files : Readable(file[f]) => file[f] \cap HeldOut = {}
       /\ \A i \in DOMAIN scored : scored[i].heard \cap HeldOut = {}

(* heym_qat's models of this run. *)
Ablation ==
  tool = "heym_qat" =>
    /\ step \in {"ptq", "export", "measure"} => file["fp32"] = feat.tr
    /\ step \in {"export", "measure"} => file["ptq"] = feat.tr
    /\ step = "measure" => file["qat"] = feat.tr

(* calibrate: at most one result per stage, fitted and measured on different *)
(* accents, and the method is chosen from these results.                     *)
Fitted ==
  /\ tool = "calibrate" =>
       /\ Len(scored) <= 2
       /\ step = "stage1" => scored = <<>>
       /\ step = "stage2" => Len(scored) <= 1
       /\ \A i \in DOMAIN scored : scored[i].fit \subseteq Calib /\ scored[i].tested \subseteq HeldOut \ Calib
       /\ step = "report" => labels = Chosen
  
TrainingInv == TypeOK /\ UnderWay /\ Unheard /\ Ablation /\ Fitted

TrainingSafe == TrainingInv /\ MeasuredOnUnseen /\ SameTraining /\ MethodNeverHurts

-----------------------------------------------------------------------------
(* Lemmas about the operators.                                             *)

(* No tool and no step is none.                                            *)
LEMMA NoneIsNoTool ==
  /\ None # "calibrate" /\ None # "heym_eval" /\ None # "heym_qat"
  /\ \A t \in DOMAIN Tools : \A x \in Tools[t] : x # None
  /\ \A x \in Steps : x # None
<1>1. \A t \in DOMAIN Tools : \A x \in Tools[t] : x # None
  BY NamesAssumption
<1>2. "calibrate" \in Tools.aura /\ "heym_eval" \in Tools.heym /\ "heym_qat" \in Tools.heym
  BY DEF Tools
<1>3. {"aura", "heym"} \subseteq DOMAIN Tools
  BY DEF Tools
<1>4. QED BY <1>1, <1>2, <1>3, NamesAssumption

(* Before a measurement there are no results.                              *)
LEMMA NoResults == <<>> \in Seq(Scored) /\ <<>> \in Seq(Opened)
OBVIOUS

(* The speakers the seeded positions pick are among those present.         *)
LEMMA HeldoutPresent == \A present : heldout_speakers(present) \subseteq present
BY DEF heldout_speakers

(* A method's summed ECE is a natural number.                              *)
LEMMA EceType ==
  ASSUME NEW results \in Seq(Scored), NEW m \in Methods
  PROVE  method_ece(results, m) \in Nat
<1>1. ASSUME NEW i \in DOMAIN results PROVE results[i].ece[m] \in 0..1
  <2>1. results[i] \in Scored
    OBVIOUS
  <2>2. QED BY <2>1 DEF Scored
<1>2. QED BY <1>1 DEF method_ece

(* The chosen method degrades no stage and costs no more than none at all. *)
LEMMA ChosenBest ==
  ASSUME scored \in Seq(Scored)
  PROVE  /\ Chosen \in Methods
         /\ method_ok(Chosen)
         /\ method_ece(scored, Chosen) <= method_ece(scored, "none")
<1> DEFINE rank == [none |-> 0, platt |-> 1, temperature |-> 2]
           cost == [m \in Methods |-> 3 * method_ece(scored, m) + rank[m]]
           ok   == {m \in Methods : method_ok(m)}
<1>1. \A m \in Methods : method_ece(scored, m) \in Nat
  BY EceType
<1>2. \A m \in Methods : rank[m] \in Nat
  BY DEF Methods
<1>3. \A m \in Methods : cost[m] \in Nat
  BY <1>1, <1>2
<1>4. "none" \in ok
  <2>1. ASSUME NEW i \in DOMAIN scored PROVE "none" \notin scored[i].degraded
    <3>1. scored[i] \in Scored
      OBVIOUS
    <3>2. QED BY <3>1 DEF Scored
  <2>2. QED BY <2>1 DEF method_ok, Methods
<1>5. \E m \in ok : \A other \in ok : cost[m] <= cost[other]
  <2> HIDE DEF cost
  <2>1. ok \subseteq {"none", "platt", "temperature"}
    BY DEF Methods
  <2>2. \A m \in ok : cost[m] \in Nat
    BY <1>3 DEF ok
  <2> HIDE DEF ok
  <2>3. QED BY <1>4, <2>1, <2>2
<1>6. Chosen \in ok /\ \A other \in ok : cost[Chosen] <= cost[other]
  BY <1>5 DEF Chosen
<1>7. cost[Chosen] <= cost["none"]
  BY <1>4, <1>6
<1>8. Chosen \in Methods /\ "none" \in Methods
  BY <1>4, <1>6
<1>9. 3 * method_ece(scored, Chosen) + rank[Chosen] <= 3 * method_ece(scored, "none")
  BY <1>1, <1>7, <1>8
<1>10. QED BY <1>1, <1>2, <1>6, <1>8, <1>9

-----------------------------------------------------------------------------
(* The parts of the invariant.                                             *)

(* Each step is a step of one tool or of a few.                            *)
LEMMA ToolAt ==
  ASSUME TypeOK, UnderWay
  PROVE  /\ step \in {"stage1", "stage2", "choose"} => tool = "calibrate"
         /\ step # None => tool # None
         /\ step = "open" => tool = "heym_eval"
         /\ step \in {"ptq", "export"} => tool = "heym_qat"
         /\ step = "report" => tool \in {"heym_train", "streaming_train", "libri_train", "aura_train", "calibrate"}
         /\ step \in {"cache", "buildTest", "train"} => tool \notin {"calibrate", "heym_eval"}
<1>1. \A x \in Steps : x # None
  BY NoneIsNoTool
<1>2. step # None => tool # None
  BY DEF UnderWay
<1>3. tool # None => tool \in {"heym_train", "streaming_train", "heym_qat", "heym_eval", "libri_train", "aura_train", "calibrate"}
  BY DEF TypeOK, Tools
<1>4. QED BY <1>1, <1>2, <1>3 DEF UnderWay, Steps

(* A process that is gone holds nothing.                                   *)
LEMMA GoneHolds ==
  ASSUME Gone, track' = track, track \in DOMAIN Tools
  PROVE  /\ tool' \in Tools'[track'] \cup {None} /\ step' \in Steps' \cup {None}
         /\ split' \in (SUBSET Speakers') \cup {None}
         /\ feat' \in Split'
         /\ scored' \in IF tool' = "calibrate" THEN Seq(Scored') ELSE Seq(Opened')
         /\ UnderWay'
<1>1. tool' = None /\ step' = None /\ split' = None /\ scored' = <<>> /\ feat' = NoFeat
  BY DEF Gone
<1>2. NoFeat \in Split
  BY DEF NoFeat, Split
<1>3. UnderWay'
  BY <1>1, NoneIsNoTool, NamesAssumption DEF UnderWay, Steps
<1>4. QED BY <1>1, <1>2, <1>3, NoneIsNoTool, NoResults

(* The initial state satisfies every part.                                 *)
LEMMA TrainingInit == Init => TrainingSafe
<1> SUFFICES ASSUME Init PROVE TrainingSafe
  OBVIOUS
<1>1. TypeOK
  <2>1. tool \in Tools[track] \cup {None} /\ step \in Steps \cup {None} /\ track \in DOMAIN Tools
    BY DEF Init
  <2>2. data \in SUBSET Speakers /\ cache \in Split \cup {Absent, Torn} /\ labels \in Methods \cup {Torn}
    BY DEF Init, Methods
  <2>3. file \in [Files -> (SUBSET Speakers) \cup {Absent, Torn}]
    BY DEF Init
  <2>4. feat \in Split /\ split \in (SUBSET Speakers) \cup {None}
    BY DEF Init, Split, NoFeat
  <2>5. scored \in Seq(Opened) /\ tool # "calibrate"
    BY NoneIsNoTool, NoResults DEF Init
  <2>6. QED BY <2>1, <2>2, <2>3, <2>4, <2>5 DEF TypeOK
<1>2. UnderWay
  BY NoneIsNoTool, NamesAssumption DEF Init, UnderWay, Steps
<1>3. Unheard
  BY DEF Init, Unheard, Halves, NoFeat, Readable, Files
<1>4. Ablation /\ Fitted
  BY NoneIsNoTool DEF Init, Ablation, Fitted
<1>5. QED BY <1>1, <1>2, <1>3, <1>4
          DEF Init, TrainingSafe, TrainingInv, MeasuredOnUnseen, SameTraining, MethodNeverHurts

(* Every step keeps the types.                                             *)
LEMMA TrainingTypeNext == TrainingInv /\ [Next]_vars => TypeOK'
<1> SUFFICES ASSUME TrainingInv, [Next]_vars PROVE TypeOK'
  OBVIOUS
<1> USE TrainingAssumption, NamesAssumption, NoneIsNoTool, NoResults
    DEF TrainingInv, TypeOK, UnderWay, Speakers
<1>0. /\ step \in {"stage1", "stage2", "choose"} => tool = "calibrate"
      /\ step \in {"cache", "buildTest", "train"} => tool \notin {"calibrate", "heym_eval"}
      /\ step = "open" => tool = "heym_eval"
      /\ step # None => tool # None
  BY ToolAt
<1>1. CASE AddSpeaker \/ RemoveCache
  BY <1>0, <1>1 DEF AddSpeaker, RemoveCache, fixed, local
<1>2. ASSUME NEW t \in Tools[track], Start(t) PROVE TypeOK'
  BY <1>0, <1>2 DEF Start, fixed, local, Steps, Tools, Opened
<1>3. CASE Dies
  <2>1. Gone /\ UNCHANGED fixed /\ UNCHANGED data
    BY <1>3 DEF Dies
  <2>2. /\ cache' \in {cache, Torn} /\ labels' \in {labels, Torn}
        /\ file' = file \/ \E f \in BeingWritten : file' = [file EXCEPT ![f] = Torn]
    BY <1>3 DEF Dies
  <2>3. BeingWritten \subseteq Files
    BY DEF BeingWritten, Files
  <2>4. QED BY <2>1, <2>2, <2>3, GoneHolds DEF fixed
<1>4. CASE LoadCache \/ BuildTrain \/ BuildTest
  BY <1>0, <1>4, HeldoutPresent
     DEF LoadCache, BuildTrain, BuildTest, TestSplit, Readable, Split, Steps, fixed, local
<1>5. CASE TrainAndExport \/ TrainFloat \/ Ptq \/ ExportQat
  BY <1>0, <1>5
     DEF TrainAndExport, TrainFloat, Ptq, ExportQat, BeingWritten, Readable, Split, Steps,
              Files, fixed, local
<1>6. CASE ReportTraining \/ MeasureAblation \/ MeasureCascade \/ ReportCalibration
  <2>1. Gone /\ UNCHANGED <<fixed, data, cache, file, labels>>
    BY <1>6 DEF ReportTraining, MeasureAblation, MeasureCascade, ReportCalibration, Report
  <2>2. QED BY <2>1, GoneHolds DEF fixed
<1>7. CASE OpenSessions
  <2>1. /\ Readable(file["stage1"]) /\ step' = "measure" /\ tool = "heym_eval"
        /\ UNCHANGED <<fixed, data, cache, file, labels, tool, split, feat>>
    BY <1>0, <1>7 DEF OpenSessions
  <2>2. /\ file["stage1"] \in SUBSET Speakers
        /\ Readable(file["stage2"]) => file["stage2"] \in SUBSET Speakers
    BY <2>1 DEF Files, Readable
  <2>3. scored' \in Seq(Opened)
    <3>1. CASE scored' = <<[heard |-> file["stage1"]]>>
      BY <2>2, <3>1 DEF Opened
    <3>2. CASE /\ Readable(file["stage2"])
               /\ scored' = <<[heard |-> file["stage1"]], [heard |-> file["stage2"]]>>
      BY <2>2, <3>2 DEF Opened
    <3>3. QED BY <1>7, <3>1, <3>2 DEF OpenSessions
  <2>4. QED BY <2>1, <2>3 DEF Steps, fixed
<1>8. CASE SkipStage
  BY <1>0, <1>8 DEF SkipStage, NextStage, Steps, fixed, local
<1>9. CASE ScoreStage
  <2> PICK degraded \in SUBSET (Methods \ {"none"}), ece \in [Methods -> 0..1] :
        scored' = Append(scored, [heard |-> file[step], fit |-> data \cap Calib,
                                  tested |-> data \cap (HeldOut \ Calib),
                                  degraded |-> degraded, ece |-> ece])
    BY <1>0, <1>9 DEF ScoreStage
  <2>1. [heard |-> file[step], fit |-> data \cap Calib, tested |-> data \cap (HeldOut \ Calib),
         degraded |-> degraded, ece |-> ece] \in Scored
    <3>1. step \in Files /\ Readable(file[step])
      BY <1>9 DEF ScoreStage, Files
    <3>2. file[step] \in SUBSET Speakers
      BY <3>1 DEF Readable
    <3>3. data \cap Calib \in SUBSET Speakers /\ data \cap (HeldOut \ Calib) \in SUBSET Speakers
      OBVIOUS
    <3>4. QED BY <3>2, <3>3 DEF Scored
  <2>2. tool = "calibrate"
    BY <1>0, <1>9 DEF ScoreStage
  <2>3. scored' \in Seq(Scored)
    BY <2>1, <2>2, AppendProperties
  <2>4. QED BY <1>0, <1>9, <2>2, <2>3 DEF ScoreStage, NextStage, Steps, fixed
<1>10. CASE WriteLabels
  <2>1. tool = "calibrate"
    BY <1>0, <1>10 DEF WriteLabels
  <2>2. QED BY <1>0, <1>10, <2>1, ChosenBest DEF WriteLabels, Steps, fixed, local
<1>11. CASE UNCHANGED vars
  BY <1>11 DEF vars, fixed, local
<1>12. QED BY <1>1, <1>2, <1>3, <1>4, <1>5, <1>6, <1>7, <1>8, <1>9, <1>10, <1>11 DEF Next

(* Every step keeps what the tool under way holds.                         *)
LEMMA TrainingUnderWayNext == TrainingInv /\ [Next]_vars => UnderWay'
<1> SUFFICES ASSUME TrainingInv, [Next]_vars PROVE UnderWay'
  OBVIOUS
<1> USE TrainingAssumption, NamesAssumption, NoneIsNoTool, NoResults
    DEF TrainingInv, TypeOK, UnderWay, Speakers
<1>0. /\ step \in {"stage1", "stage2", "choose"} => tool = "calibrate"
      /\ step \in {"cache", "buildTest", "train"} => tool \notin {"calibrate", "heym_eval"}
      /\ step = "open" => tool = "heym_eval"
      /\ step # None => tool # None
  BY ToolAt
<1>1. CASE AddSpeaker \/ RemoveCache
  BY <1>0, <1>1 DEF AddSpeaker, RemoveCache, fixed, local
<1>2. ASSUME NEW t \in Tools[track], Start(t) PROVE UnderWay'
  BY <1>0, <1>2 DEF Start, fixed, local, Steps, Tools
<1>3. CASE Dies
  BY <1>3, GoneHolds DEF Dies, fixed
<1>4. CASE LoadCache \/ BuildTrain \/ BuildTest
  BY <1>0, <1>4, HeldoutPresent
     DEF LoadCache, BuildTrain, BuildTest, TestSplit, Readable, Split, Steps, fixed, local, Trainers
<1>5. CASE TrainAndExport \/ TrainFloat \/ Ptq \/ ExportQat
  BY <1>0, <1>5 DEF TrainAndExport, TrainFloat, Ptq, ExportQat, Steps, Tools, fixed, local
<1>6. CASE ReportTraining \/ MeasureAblation \/ MeasureCascade \/ ReportCalibration
  <2>1. Gone /\ UNCHANGED fixed
    BY <1>6 DEF ReportTraining, MeasureAblation, MeasureCascade, ReportCalibration, Report
  <2>2. QED BY <2>1, GoneHolds DEF fixed
<1>7. CASE OpenSessions
  BY <1>0, <1>7 DEF OpenSessions, Steps, fixed
<1>8. CASE SkipStage
  BY <1>0, <1>8 DEF SkipStage, NextStage, Steps, fixed, local
<1>9. CASE ScoreStage
  BY <1>0, <1>9 DEF ScoreStage, NextStage, Steps, fixed, local
<1>10. CASE WriteLabels
  BY <1>0, <1>10 DEF WriteLabels, Steps, fixed, local
<1>11. CASE UNCHANGED vars
  BY <1>11 DEF vars, fixed, local
<1>12. QED BY <1>1, <1>2, <1>3, <1>4, <1>5, <1>6, <1>7, <1>8, <1>9, <1>10, <1>11 DEF Next

(* A file read is a set of speakers.                                       *)
LEMMA FilesReadable ==
  ASSUME TypeOK, NEW f \in Files, Readable(file[f])
  PROVE  file[f] \in SUBSET Speakers
BY DEF TypeOK, Readable

(* Every step keeps the held-out speakers out.                             *)
LEMMA TrainingUnheardNext == TrainingInv /\ [Next]_vars => Unheard'
<1> SUFFICES ASSUME TrainingInv, [Next]_vars PROVE Unheard'
  OBVIOUS
<1> USE TrainingAssumption, NoneIsNoTool
   DEF TrainingInv, TypeOK, UnderWay, Speakers, Unheard, Halves
<1>0. /\ step \in {"stage1", "stage2", "choose"} => tool = "calibrate"
      /\ step \in {"cache", "buildTest", "train"} => tool \notin {"calibrate", "heym_eval"}
      /\ step = "open" => tool = "heym_eval"
      /\ step \in {"ptq", "export"} => tool = "heym_qat"
      /\ step # None => tool # None
  BY ToolAt
<1>1. CASE AddSpeaker \/ RemoveCache
  BY <1>1 DEF AddSpeaker, RemoveCache, fixed, local, Readable
<1>2. ASSUME NEW t \in Tools[track], Start(t) PROVE Unheard'
  BY <1>2 DEF Start, fixed, local, Readable
<1>3. CASE Dies
  <2>1. Gone /\ UNCHANGED fixed
    BY <1>3 DEF Dies
  <2>2. cache' \in {cache, Torn}
    BY <1>3 DEF Dies
  <2>3. \A f \in Files : file'[f] \in {file[f], Torn}
    BY <1>3 DEF Dies
  <2>4. QED BY <2>1, <2>2, <2>3 DEF Gone, fixed, NoFeat, Readable
<1>4. CASE LoadCache
  BY <1>4 DEF LoadCache, fixed, Readable
<1>5. CASE BuildTrain
  BY <1>0, <1>5 DEF BuildTrain, NoFeat, fixed, Readable
<1>6. CASE BuildTest
  <2>1. feat' = [feat EXCEPT !.te = data \cap split] /\ cache' = feat'
    BY <1>6 DEF BuildTest, TestSplit
  <2>2. feat'.tr = feat.tr /\ feat'.te = data \cap split
    BY <2>1 DEF Split
  <2>3. QED BY <1>6, <2>1, <2>2 DEF BuildTest, fixed, Readable
<1>7. CASE TrainAndExport \/ TrainFloat \/ Ptq \/ ExportQat
  <2>1. \A f \in Files : file'[f] \in {file[f], feat.tr, file["fp32"]}
    BY <1>7 DEF TrainAndExport, TrainFloat, Ptq, ExportQat
  <2>2. UNCHANGED <<fixed, cache, feat, scored>>
    BY <1>7 DEF TrainAndExport, TrainFloat, Ptq, ExportQat, local
  <2>3. "fp32" \in Files
    BY DEF Files
  <2>4. QED BY <2>1, <2>2, <2>3 DEF fixed, Readable
<1>8. CASE ReportTraining \/ MeasureAblation \/ MeasureCascade \/ ReportCalibration
  <2>1. Gone /\ UNCHANGED <<fixed, cache, file>>
    BY <1>8 DEF ReportTraining, MeasureAblation, MeasureCascade, ReportCalibration, Report
  <2>2. QED BY <2>1 DEF Gone, fixed, NoFeat, Readable
<1>9. CASE OpenSessions
  <2>1. {"stage1", "stage2"} \subseteq Files
    BY DEF Files
  <2>2. \A i \in DOMAIN scored' :
           \E f \in {"stage1", "stage2"} : Readable(file[f]) /\ scored'[i].heard = file[f]
    BY <1>9 DEF OpenSessions
  <2>3. QED BY <1>9, <2>1, <2>2 DEF OpenSessions, fixed, Readable
<1>10. CASE SkipStage \/ WriteLabels
  BY <1>10 DEF SkipStage, WriteLabels, fixed, local, Readable
<1>11. CASE ScoreStage
  <2>1. step \in Files /\ Readable(file[step]) /\ UNCHANGED <<fixed, cache, file, feat>>
    BY <1>11 DEF ScoreStage, Files
  <2>2. scored \in Seq(Scored)
    BY <1>0, <1>11 DEF ScoreStage
  <2>3. \A i \in DOMAIN scored' :
           \/ scored'[i].heard = file[step]
           \/ i \in DOMAIN scored /\ scored'[i] = scored[i]
    BY <1>11, <2>2, AppendProperties DEF ScoreStage
  <2>4. QED BY <2>1, <2>3 DEF fixed, Readable
<1>12. CASE UNCHANGED vars
  BY <1>12 DEF vars, fixed, local, Readable
<1>13. QED BY <1>1, <1>2, <1>3, <1>4, <1>5, <1>6, <1>7, <1>8, <1>9, <1>10, <1>11, <1>12 DEF Next

(* Every step keeps what is known of the ablation's models.                *)
LEMMA TrainingAblationNext == TrainingInv /\ [Next]_vars => Ablation'
<1> SUFFICES ASSUME TrainingInv, [Next]_vars PROVE Ablation'
  OBVIOUS
<1> USE TrainingAssumption, NoneIsNoTool DEF TrainingInv, TypeOK, UnderWay, Speakers, Ablation
<1>0. /\ step \in {"stage1", "stage2", "choose"} => tool = "calibrate"
      /\ step \in {"cache", "buildTest", "train"} => tool \notin {"calibrate", "heym_eval"}
      /\ step = "open" => tool = "heym_eval"
      /\ step \in {"ptq", "export"} => tool = "heym_qat"
      /\ step # None => tool # None
  BY ToolAt
<1>1. CASE AddSpeaker \/ RemoveCache \/ OpenSessions \/ SkipStage \/ ScoreStage \/ WriteLabels
  BY <1>1 DEF AddSpeaker, RemoveCache, OpenSessions, SkipStage, ScoreStage, WriteLabels,
              fixed, local, NextStage
<1>2. ASSUME NEW t \in Tools[track], Start(t) PROVE Ablation'
  BY <1>2 DEF Start, fixed, local
<1>3. CASE Dies \/ ReportTraining \/ MeasureAblation \/ MeasureCascade \/ ReportCalibration
  BY <1>3 DEF Dies, ReportTraining, MeasureAblation, MeasureCascade, ReportCalibration, Report, Gone
<1>4. CASE LoadCache \/ BuildTrain \/ BuildTest
  BY <1>4 DEF LoadCache, BuildTrain, BuildTest
<1>5. CASE TrainAndExport \/ TrainFloat \/ Ptq \/ ExportQat
  BY <1>0, <1>5 DEF TrainAndExport, TrainFloat, Ptq, ExportQat, local, Files
<1>6. CASE UNCHANGED vars
  BY <1>6 DEF vars, local
<1>7. QED BY <1>1, <1>2, <1>3, <1>4, <1>5, <1>6 DEF Next

(* Every step keeps what is known of the stages scored.                    *)
LEMMA TrainingFittedNext == TrainingInv /\ [Next]_vars => Fitted'
<1> SUFFICES ASSUME TrainingInv, [Next]_vars PROVE Fitted'
  OBVIOUS
<1> USE TrainingAssumption, NoneIsNoTool DEF TrainingInv, TypeOK, UnderWay, Speakers, Fitted
<1>0. /\ step \in {"stage1", "stage2", "choose"} => tool = "calibrate"
      /\ step \in {"cache", "buildTest", "train"} => tool \notin {"calibrate", "heym_eval"}
      /\ step = "open" => tool = "heym_eval"
      /\ step \in {"ptq", "export"} => tool = "heym_qat"
      /\ step # None => tool # None
  BY ToolAt
<1>00. Chosen' = Chosen \/ scored' # scored
  BY DEF Chosen, method_ok, method_ece
<1>1. CASE AddSpeaker \/ RemoveCache
  BY <1>00, <1>1 DEF AddSpeaker, RemoveCache, fixed, local
<1>2. ASSUME NEW t \in Tools[track], Start(t) PROVE Fitted'
  BY <1>00, <1>2 DEF Start, fixed, local
<1>3. CASE Dies \/ ReportTraining \/ MeasureAblation \/ MeasureCascade \/ ReportCalibration
  BY <1>3 DEF Dies, ReportTraining, MeasureAblation, MeasureCascade, ReportCalibration, Report, Gone
<1>4. CASE LoadCache \/ BuildTrain \/ BuildTest \/ TrainAndExport \/ TrainFloat \/ Ptq \/ ExportQat
           \/ OpenSessions
  <2>1. tool' = tool /\ tool # "calibrate"
    BY <1>0, <1>4 DEF LoadCache, BuildTrain, BuildTest, TrainAndExport, TrainFloat, Ptq, ExportQat,
                      OpenSessions
  <2>2. QED BY <2>1
<1>5. CASE SkipStage
  BY <1>00, <1>5 DEF SkipStage, NextStage, local
<1>6. CASE ScoreStage
  <2> PICK degraded \in SUBSET (Methods \ {"none"}), ece \in [Methods -> 0..1] :
        scored' = Append(scored, [heard |-> file[step], fit |-> data \cap Calib,
                                  tested |-> data \cap (HeldOut \ Calib),
                                  degraded |-> degraded, ece |-> ece])
    BY <1>6 DEF ScoreStage
  <2>1. tool = "calibrate" /\ scored \in Seq(Scored)
    BY <1>0, <1>6 DEF ScoreStage
  <2>2. Len(scored') = Len(scored) + 1
    BY <2>1, AppendProperties
  <2>3. \A i \in DOMAIN scored' :
           \/ i \in DOMAIN scored /\ scored'[i] = scored[i]
           \/ scored'[i].fit = data \cap Calib /\ scored'[i].tested = data \cap (HeldOut \ Calib)
    BY <2>1, AppendProperties
  <2>4. QED BY <1>6, <2>1, <2>2, <2>3 DEF ScoreStage, NextStage
<1>7. CASE WriteLabels
  BY <1>0, <1>00, <1>7 DEF WriteLabels, local
<1>8. CASE UNCHANGED vars
  BY <1>00, <1>8 DEF vars, local
<1>9. QED BY <1>1, <1>2, <1>3, <1>4, <1>5, <1>6, <1>7, <1>8 DEF Next

-----------------------------------------------------------------------------
(* The reports.                                                            *)

(* A trainer's report: the features it trained on, and their test half.    *)
LEMMA TrainerReports ==
  ASSUME TrainingInv, ReportTraining
  PROVE  MeasuredOnUnseen' /\ SameTraining' /\ MethodNeverHurts'
<1>1. step = "report" /\ tool # "calibrate" /\ step # None
  BY NoneIsNoTool DEF ReportTraining, Steps
<1>2. tool # "heym_qat"
  BY <1>1 DEF TrainingInv, UnderWay
<1>3. claim' = [by |-> tool, heard |-> {feat.tr}, fit |-> {}, tested |-> feat.te]
  BY DEF ReportTraining, Report
<1>4. feat.tr \cap feat.te = {}
  BY DEF TrainingInv, Unheard, Halves
<1>5. QED BY <1>1, <1>2, <1>3, <1>4 DEF MeasuredOnUnseen, SameTraining, MethodNeverHurts

(* The ablation's report: three models of this run's training speakers.    *)
LEMMA AblationReports ==
  ASSUME TrainingInv, MeasureAblation
  PROVE  MeasuredOnUnseen' /\ SameTraining' /\ MethodNeverHurts'
<1>1. claim'.by = "heym_qat" /\ claim'.fit = {} /\ claim'.tested = feat.te
  BY DEF MeasureAblation, Report
<1>2. claim'.heard = {feat.tr}
  <2>1. claim'.heard = {file[f] : f \in {"fp32", "ptq", "qat"}}
    BY DEF MeasureAblation, Report
  <2>2. \A f \in {"fp32", "ptq", "qat"} : file[f] = feat.tr
    BY DEF MeasureAblation, TrainingInv, Ablation
  <2>3. QED BY <2>1, <2>2
<1>3. feat.tr \cap feat.te = {}
  BY DEF TrainingInv, Unheard, Halves
<1>4. Cardinality(claim'.heard) = 1
  BY <1>2, FS_Singleton
<1>5. QED BY <1>1, <1>2, <1>3, <1>4 DEF MeasuredOnUnseen, SameTraining, MethodNeverHurts

(* heym_eval's report: models of any age, held-out speakers of today.      *)
LEMMA CascadeReports ==
  ASSUME TrainingInv, MeasureCascade
  PROVE  MeasuredOnUnseen' /\ SameTraining' /\ MethodNeverHurts'
<1>1. /\ claim'.by = "heym_eval" /\ claim'.fit = {} /\ claim'.tested = data \cap HeldOut
      /\ claim'.heard = {scored[i].heard : i \in DOMAIN scored}
  BY DEF MeasureCascade, Report
<1>2. track # "libri"
  <2>1. tool = "heym_eval" /\ tool \in Tools[track] \cup {None} /\ Tools["libri"] = {"libri_train"}
    BY DEF MeasureCascade, TrainingInv, TypeOK, Tools
  <2>2. QED BY <2>1, NoneIsNoTool
<1>3. \A i \in DOMAIN scored : scored[i].heard \cap HeldOut = {}
  BY <1>2 DEF TrainingInv, Unheard
<1>4. QED BY <1>1, <1>3 DEF MeasuredOnUnseen, SameTraining, MethodNeverHurts

(* calibrate's report: the stages scored, and the method chosen from them. *)
LEMMA CalibrationReports ==
  ASSUME TrainingInv, ReportCalibration
  PROVE  MeasuredOnUnseen' /\ SameTraining' /\ MethodNeverHurts'
<1>1. /\ claim'.by = "calibrate" /\ claim'.stages = scored /\ claim'.method = labels
      /\ claim'.heard = {r.heard : r \in Results}
      /\ claim'.fit = UNION {r.fit : r \in Results}
      /\ claim'.tested = UNION {r.tested : r \in Results}
  BY DEF ReportCalibration, Report
<1>2. track # "libri" /\ tool = "calibrate" /\ step = "report"
  <2>1. tool = "calibrate" /\ tool \in Tools[track] \cup {None} /\ Tools["libri"] = {"libri_train"}
    BY DEF ReportCalibration, TrainingInv, TypeOK, Tools
  <2>2. QED BY <2>1, NoneIsNoTool DEF ReportCalibration
<1>3. \A r \in Results :
         r.heard \cap HeldOut = {} /\ r.fit \subseteq Calib /\ r.tested \subseteq HeldOut \ Calib
  BY <1>2 DEF TrainingInv, Unheard, Fitted, Results
<1>4. MeasuredOnUnseen'
  BY <1>1, <1>3 DEF MeasuredOnUnseen
<1>5. scored \in Seq(Scored) /\ labels = Chosen
  BY <1>2 DEF TrainingInv, TypeOK, Fitted
<1>6. method_ok(Chosen) /\ method_ece(scored, Chosen) <= method_ece(scored, "none")
  BY <1>5, ChosenBest
<1>7. MethodNeverHurts'
  BY <1>1, <1>5, <1>6 DEF MethodNeverHurts, method_ok, method_ece
<1>8. QED BY <1>1, <1>4, <1>7 DEF SameTraining

(* No other step makes a claim.                                            *)
LEMMA TrainingClaimsNext ==
  TrainingSafe /\ [Next]_vars => MeasuredOnUnseen' /\ SameTraining' /\ MethodNeverHurts'
<1> SUFFICES ASSUME TrainingSafe, [Next]_vars
             PROVE  MeasuredOnUnseen' /\ SameTraining' /\ MethodNeverHurts'
  OBVIOUS
<1>1. CASE ReportTraining \/ MeasureAblation \/ MeasureCascade \/ ReportCalibration
  BY <1>1, TrainerReports, AblationReports, CascadeReports, CalibrationReports DEF TrainingSafe
<1>2. CASE claim' = None
  BY <1>2 DEF MeasuredOnUnseen, SameTraining, MethodNeverHurts
<1>3. CASE UNCHANGED claim
  BY <1>3 DEF TrainingSafe, MeasuredOnUnseen, SameTraining, MethodNeverHurts, method_ece
<1>4. claim' = None \/ UNCHANGED claim \/ ReportTraining \/ MeasureAblation \/ MeasureCascade
        \/ ReportCalibration
  BY DEF Next, vars, AddSpeaker, RemoveCache, Start, Dies, LoadCache, BuildTrain, BuildTest,
         TrainAndExport, TrainFloat, Ptq, ExportQat, OpenSessions, SkipStage, ScoreStage, WriteLabels
<1>5. QED BY <1>1, <1>2, <1>3, <1>4

(* The invariant holds of every reachable state.                           *)
LEMMA TrainingInvariant == Spec => []TrainingSafe
<1>1. TrainingSafe /\ [Next]_vars => TrainingSafe'
  BY TrainingTypeNext, TrainingUnderWayNext, TrainingUnheardNext, TrainingAblationNext,
     TrainingFittedNext, TrainingClaimsNext DEF TrainingSafe, TrainingInv
<1>2. QED BY <1>1, TrainingInit, PTL DEF Spec

-----------------------------------------------------------------------------
(* The theorems.                                                           *)

(* Files, caches and what a tool holds have their types, whatever dies.    *)
THEOREM TrainingTypeOK == Spec => []TypeOK
<1>1. TrainingSafe => TypeOK
  BY DEF TrainingSafe, TrainingInv
<1>2. QED BY <1>1, TrainingInvariant, PTL

(* Whatever is added to the dataset and however old caches and models are, *)
(* a reported number is about speakers the model never heard, and a        *)
(* calibration about accents it was not fitted on (heym_data.py:15-16,     *)
(* libri_data.py:10, calibrate.py:14-16).                                  *)
THEOREM TrainingMeasuredOnUnseen == Spec => []MeasuredOnUnseen
<1>1. TrainingSafe => MeasuredOnUnseen
  BY DEF TrainingSafe
<1>2. QED BY <1>1, TrainingInvariant, PTL

(* The three models of a reported ablation heard the same speakers, with   *)
(* files of earlier and of dead runs on disk (heym_qat.py:20-22).          *)
THEOREM TrainingSameTraining == Spec => []SameTraining
<1>1. TrainingSafe => SameTraining
  BY DEF TrainingSafe
<1>2. QED BY <1>1, TrainingInvariant, PTL

(* The method calibrate reports degrades neither stage and costs no more   *)
(* ECE than none, whichever stages there are (calibrate.py:373-386).       *)
THEOREM TrainingMethodNeverHurts == Spec => []MethodNeverHurts
<1>1. TrainingSafe => MethodNeverHurts
  BY DEF TrainingSafe
<1>2. QED BY <1>1, TrainingInvariant, PTL
=============================================================================
