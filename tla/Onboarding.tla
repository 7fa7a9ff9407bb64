----------------------------- MODULE Onboarding -----------------------------
(***************************************************************************)
(* serve_train.py: from a customer's dataset to a bundle, job after job    *)
(* for one wake word.  A job runs train.py (features, models, labels,      *)
(* calibration, then tools/bundle.py) and evaluate.py, and reports a zip.  *)
(* dist/_work/<slug> and dist/ outlive a job; a job can be killed or fail  *)
(* at any write, which leaves the file it was writing torn.                *)
(*                                                                         *)
(* Data: a dataset is the set of its speakers; a model is the speakers it  *)
(* heard and the number of its job; a digest is the content it digests.    *)
(***************************************************************************)
EXTENDS Integers

CONSTANTS
  Speakers,  \* who may be recorded
  HeldOut,   \* the speakers _is_test_speaker picks, by a hash of the name
  Versions,  \* bundle versions (1, 2, ...)
  MaxJobs,   \* bound: onboarding jobs
  Absent,    \* no such file
  Torn       \* a file left half written

ASSUME OnboardingAssumption ==
  /\ HeldOut \subseteq Speakers
  /\ MaxJobs \in Nat

VARIABLES
  job,       \* the latest job's number and options
  pc,        \* what the job does next; "idle" between jobs
  features,  \* the dataset behind Xtr, ytr, Xte, yte
  work,      \* dist/_work/<slug>
  bundle,    \* dist/<slug>_v<version>/, by version
  zip,       \* dist/<slug>_v<version>.zip, by version
  measured,  \* what evaluate.py printed, if it did
  built,     \* history: whether the job's build_bundle returned
  report     \* the deliverable a job that exited 0 names

vars == <<job, pc, features, work, bundle, zip, measured, built, report>>
distVars == <<bundle, zip>>
outVars  == <<measured, built, report>>

Payload == {"stage1", "stage2", "labels"}
NoBundle == [f \in Payload \cup {"manifest"} |-> Absent]

\* What the files hold when they are whole; a manifest digests what is there.
Models    == [by : Nat, heard : SUBSET (Speakers \ HeldOut)]
Labels    == [by : Nat, stage2 : BOOLEAN]
Manifests == [Payload -> Models \cup Labels \cup {Absent}]
Bundles   == [Payload \cup {"manifest"} -> Models \cup Labels \cup Manifests \cup {Absent, Torn}]

ASSUME NamesAssumption ==
  /\ Absent # Torn
  /\ \A name \in {Absent, Torn} : name \notin Models \cup Labels \cup Manifests \cup Bundles

\* mutant: the last tenth of the clips is held out, not a fixed set of speakers
TestByPosition(data) ==
  IF data = {} THEN {} ELSE {CHOOSE s \in data : TRUE}

\* items(split): the speaker-independent split of a dataset.
Test(data) == data \cap HeldOut
Train(data) == data \ Test(data)

Init ==
  /\ job = [no |-> 0, data |-> {}, version |-> 1, stage2 |-> FALSE]
  /\ pc = "idle" /\ features = {}
  /\ work = [cache |-> Absent, stage1 |-> Absent, stage2 |-> Absent, labels |-> Absent]
  /\ bundle = [v \in Versions |-> Absent] /\ zip = [v \in Versions |-> Absent]
  /\ measured = Absent /\ built = FALSE /\ report = Absent

-----------------------------------------------------------------------------
(* train.py.                                                               *)

\* The dataset is what the customer has by now; the version may be reused (it is the date).
StartJob ==
  /\ pc = "idle" /\ job.no < MaxJobs
  /\ \E data \in (SUBSET Speakers) \ {{}}, v \in Versions, on \in BOOLEAN :
       job' = [no |-> job.no + 1, data |-> data, version |-> v, stage2 |-> on]
  /\ pc' = "features"
  /\ measured' = Absent /\ built' = FALSE /\ report' = Absent
  /\ UNCHANGED <<features, work, distVars>>

\* main() goes on, or exits when no positive clip is in the training split.
Proceed(data) ==
  /\ features' = data
  /\ pc' = IF Train(data) = {} THEN "idle" ELSE "stage1"

\* prepare_features finds the cache.  A torn one does not load: train.py dies.
LoadCache ==
  /\ pc = "features" /\ work.cache # Absent
  /\ IF work.cache = Torn
       THEN pc' = "idle" /\ UNCHANGED features
       ELSE Proceed(work.cache)
  /\ UNCHANGED <<job, work, distVars, outVars>>

BuildFeatures ==
  /\ pc = "features" /\ work.cache = Absent
  /\ work' = [work EXCEPT !.cache = job.data]
  /\ Proceed(job.data)
  /\ UNCHANGED <<job, distVars, outVars>>

Model == [by |-> job.no, heard |-> Train(features)]

ExportStage1 ==
  /\ pc = "stage1"
  /\ work' = [work EXCEPT !.stage1 = Model]
  /\ pc' = IF job.stage2 THEN "stage2" ELSE "labels"
  /\ UNCHANGED <<job, features, distVars, outVars>>

ExportStage2 ==
  /\ pc = "stage2"
  /\ work' = [work EXCEPT !.stage2 = Model]
  /\ pc' = "labels"
  /\ UNCHANGED <<job, features, distVars, outVars>>

WriteLabels ==
  /\ pc = "labels"
  /\ work' = [work EXCEPT !.labels = [by |-> job.no, stage2 |-> job.stage2]]
  /\ pc' = "calibrate"
  /\ UNCHANGED <<job, features, distVars, outVars>>

\* The block is added, or skipped; an exception of the write is caught too.
Calibrate ==
  /\ pc = "calibrate"
  /\ \E labels \in {work.labels, Torn} : work' = [work EXCEPT !.labels = labels]
  /\ pc' = "clear"
  /\ UNCHANGED <<job, features, distVars, outVars>>

-----------------------------------------------------------------------------
(* build_bundle.                                                           *)

Put(file, content) == bundle' = [bundle EXCEPT ![job.version][file] = content]

\* mutant: the directory of an earlier build is kept
KeepDirectory ==
  /\ pc = "clear"
  /\ bundle' = IF bundle[job.version] = Absent
                 THEN [bundle EXCEPT ![job.version] = NoBundle] ELSE bundle
  /\ pc' = "copy1"
  /\ UNCHANGED <<job, features, work, zip, outVars>>

\* rmtree, makedirs.
ClearDirectory ==
  /\ pc = "clear"
  /\ bundle' = [bundle EXCEPT ![job.version] = NoBundle]
  /\ pc' = "copy1"
  /\ UNCHANGED <<job, features, work, zip, outVars>>

CopyStage1 ==
  /\ pc = "copy1"
  /\ Put("stage1", work.stage1)
  /\ pc' = IF job.stage2 THEN "copy2" ELSE "copyLabels"
  /\ UNCHANGED <<job, features, work, zip, outVars>>

CopyStage2 ==
  /\ pc = "copy2"
  /\ Put("stage2", work.stage2)
  /\ pc' = "copyLabels"
  /\ UNCHANGED <<job, features, work, zip, outVars>>

\* Labels that do not parse raise: see BundleFails.
CopyLabels ==
  /\ pc = "copyLabels" /\ work.labels # Torn
  /\ Put("labels", work.labels)
  /\ pc' = "manifest"
  /\ UNCHANGED <<job, features, work, zip, outVars>>

\* The digest of every file of the directory.
WriteManifest ==
  /\ pc = "manifest"
  /\ Put("manifest", [f \in Payload |-> bundle[job.version][f]])
  /\ pc' = "zip"
  /\ UNCHANGED <<job, features, work, zip, outVars>>

\* mutant: a zip of that name is not written again
KeepZip ==
  /\ pc = "zip"
  /\ zip' = IF zip[job.version] # Absent THEN zip
            ELSE [zip EXCEPT ![job.version] =
                             [by |-> job.no, holds |-> bundle[job.version]]]
  /\ built' = TRUE
  /\ pc' = "evaluate"
  /\ UNCHANGED <<job, features, work, bundle, measured, report>>

WriteZip ==
  /\ pc = "zip"
  /\ zip' = [zip EXCEPT ![job.version] = [by |-> job.no, holds |-> bundle[job.version]]]
  /\ built' = TRUE
  /\ pc' = "evaluate"
  /\ UNCHANGED <<job, features, work, bundle, measured, report>>

-----------------------------------------------------------------------------
(* Half-done steps.                                                        *)

WorkFile == [features |-> "cache", stage1 |-> "stage1", stage2 |-> "stage2",
             labels |-> "labels", calibrate |-> "labels"]
BundleFile == [copy1 |-> "stage1", copy2 |-> "stage2", copyLabels |-> "labels",
               manifest |-> "manifest"]
BundleStep == (DOMAIN BundleFile) \cup {"clear", "zip"}

\* What a write of train.py cut short leaves.
WorkCutShort ==
  \/ UNCHANGED work
  \/ /\ pc \in DOMAIN WorkFile /\ (pc = "features" => work.cache = Absent)
     /\ work' = [work EXCEPT ![WorkFile[pc]] = Torn]

\* What a step of build_bundle cut short leaves: rmtree may have removed any of the files.
DistCutShort ==
  LET v == job.version
  IN  \/ UNCHANGED distVars
      \/ /\ pc = "clear" /\ bundle[v] # Absent
         /\ \E gone \in SUBSET DOMAIN NoBundle :
              bundle' = [bundle EXCEPT ![v] =
                           [f \in DOMAIN NoBundle |-> IF f \in gone THEN Absent ELSE @[f]]]
         /\ UNCHANGED zip
      \/ pc = "clear" /\ bundle' = [bundle EXCEPT ![v] = Absent] /\ UNCHANGED zip
      \/ pc \in DOMAIN BundleFile /\ Put(BundleFile[pc], Torn) /\ UNCHANGED zip
      \/ /\ pc = "zip"
         /\ \E left \in {Absent, [by |-> job.no, holds |-> Torn]} :
              zip' = [zip EXCEPT ![v] = left]
         /\ UNCHANGED bundle

\* The job is killed, or train.py exits on an exception it does not catch.
Die ==
  /\ pc # "idle"
  /\ WorkCutShort /\ DistCutShort
  /\ pc' = "idle"
  /\ UNCHANGED <<job, features, outVars>>

\* build_bundle raises: train.py says "bundle step skipped" and exits 0.
BundleFails ==
  /\ pc \in BundleStep
  /\ DistCutShort
  /\ pc' = "evaluate"
  /\ UNCHANGED <<job, features, work, outVars>>

-----------------------------------------------------------------------------
(* evaluate.py and the report card.                                        *)

Evaluate ==
  /\ pc = "evaluate" /\ work.labels # Torn /\ Test(job.data) # {}
  /\ measured' = [on |-> Test(job.data), stage1 |-> work.stage1,
                  stage2 |-> IF work.labels.stage2 THEN work.stage2 ELSE Absent]
  /\ pc' = "report"
  /\ UNCHANGED <<job, features, work, distVars, built, report>>

\* It exits non-zero: serve_train.py warns and goes on.
EvaluateFails ==
  /\ pc = "evaluate"
  /\ pc' = "report"
  /\ UNCHANGED <<job, features, work, distVars, outVars>>

\* locate_bundle: the job's own, else the newest zip of the wake word.
Located ==
  LET v == job.version
      zips == {u \in Versions : zip[u] # Absent}
  IN  IF bundle[v] # Absent \/ zip[v] # Absent THEN zip[v]
      ELSE IF zips = {} THEN Absent
      ELSE zip[CHOOSE u \in zips : \A w \in zips : zip[u].by >= zip[w].by]

\* Absent: no zip, exit 2.
ReportCard ==
  /\ pc = "report"
  /\ report' = Located
  /\ pc' = "idle"
  /\ UNCHANGED <<job, features, work, distVars, measured, built>>

Next ==
  \/ StartJob \/ LoadCache \/ BuildFeatures
  \/ ExportStage1 \/ ExportStage2 \/ WriteLabels \/ Calibrate
  \/ ClearDirectory \/ CopyStage1 \/ CopyStage2 \/ CopyLabels \/ WriteManifest \/ WriteZip
  \/ Die \/ BundleFails \/ Evaluate \/ EvaluateFails \/ ReportCard

Spec == Init /\ [][Next]_vars

-----------------------------------------------------------------------------
(* Properties.                                                             *)

\* verify_bundle: every file of the manifest is there and as digested.
Verifies(dir) ==
  /\ dir \notin {Absent, Torn}
  /\ dir.manifest \notin {Absent, Torn}
  /\ \A f \in Payload : dir.manifest[f] # Absent => dir[f] = dir.manifest[f]

(* A bundle that verifies is one build, whatever was killed or left by     *)
(* earlier builds of the version: all its files are of one job, and a      *)
(* Stage-2 model is there exactly when the labels promise it.              *)
VerifiedIsOneBuild ==
  \A v \in Versions : Verifies(bundle[v]) =>
    LET dir == bundle[v]
    IN  /\ dir.labels # Absent /\ \A f \in Payload : dir[f] # Torn
        /\ \A f \in Payload : dir[f] # Absent => dir[f].by = dir.labels.by
        /\ dir.labels.stage2 <=> dir.stage2 # Absent

(* When the job's bundle was built, the zip it reports is that bundle,     *)
(* whole, and the report card measured the models that are in it.          *)
BuiltIsDelivered ==
  built /\ report # Absent =>
    /\ report.by = job.no /\ Verifies(report.holds)
    /\ measured # Absent => \A f \in {"stage1", "stage2"} : measured[f] = report.holds[f]

(* The report card is of unseen voices: no speaker it measured was heard   *)
(* in training, even when the features came from an earlier dataset.       *)
SpeakerIndependent ==
  measured # Absent =>
    \A f \in {"stage1", "stage2"} :
      measured[f] # Absent => measured[f].heard \cap measured.on = {}

(* "Re-onboard the same customer with a new dataset -> new version [...]   *)
(* a clean in-place upgrade": the model a job built and reports heard the  *)
(* training split of the dataset the job was given.                        *)
TrainedOnThisDataset ==
  built /\ report # Absent => report.holds.stage1.heard = Train(job.data)
=============================================================================
