-------------------------- MODULE OnboardingProofs --------------------------
(***************************************************************************)
(* Proofs about Onboarding: what a bundle that verifies contains, what a   *)
(* job delivers and on whom it is measured, for any speakers, any set of   *)
(* them held out, any versions and any number of jobs, killed or failing   *)
(* at any write.                                                           *)
(***************************************************************************)
EXTENDS Onboarding, TLAPS

Names == {Absent, Torn}
WorkFiles == [cache : (SUBSET Speakers) \cup Names, stage1 : Models \cup Names,
              stage2 : Models \cup Names, labels : Labels \cup Names]
Zips == [by : Nat, holds : Bundles \cup {Torn}]

JobType ==
  /\ job \in [no : Nat, data : SUBSET Speakers, version : Versions \cup {1}, stage2 : BOOLEAN]
  /\ pc \in {"idle", "features", "stage1", "stage2", "labels", "calibrate", "clear", "copy1", "copy2",
             "copyLabels", "manifest", "zip", "evaluate", "report"}
  /\ pc # "idle" => job.version \in Versions
  /\ features \in SUBSET Speakers
  /\ built \in BOOLEAN

DistType ==
  /\ bundle \in [Versions -> Bundles \cup {Absent}]
  /\ zip \in [Versions -> Zips \cup {Absent}]

TypeOK == JobType /\ work \in WorkFiles /\ DistType

(* The phases of a job: once a file is written, it is this job's. *)
Past1 == {"stage2", "labels", "calibrate", "clear", "copy1", "copy2", "copyLabels", "manifest",
          "zip", "evaluate", "report"}
Past2 == Past1 \ {"stage2"}
PastLabels == {"clear", "copy1", "copy2", "copyLabels", "manifest", "zip", "evaluate", "report"}

JobLabels == [by |-> job.no, stage2 |-> job.stage2]

Working ==
  /\ pc \in Past1 => work.stage1 \in Models /\ work.stage1.by = job.no
  /\ pc \in Past2 /\ job.stage2 => work.stage2 \in Models /\ work.stage2.by = job.no
  /\ pc = "calibrate" => work.labels = JobLabels
  /\ pc \in PastLabels => work.labels \in {JobLabels, Torn}
  /\ pc \in {"stage2", "copy2"} => job.stage2

\* The files of a build: one job's models, and the Stage-2 its labels promise.
OneBuild(files) ==
  /\ files["stage1"] \in Models /\ files["labels"] \in Labels
  /\ files["stage1"].by = files["labels"].by
  /\ IF files["labels"].stage2
       THEN files["stage2"] \in Models /\ files["stage2"].by = files["labels"].by
       ELSE files["stage2"] = Absent

(* A manifest describes one build, and what is left of it beside the manifest. *)
Manifested ==
  \A v \in Versions :
    bundle[v] # Absent /\ bundle[v]["manifest"] \notin Names =>
      /\ OneBuild(bundle[v]["manifest"])
      /\ \A f \in Payload : bundle[v][f] \in {bundle[v]["manifest"][f], Absent}

(* The directory of the build under way, which has no manifest until the end. *)
Building ==
  LET dir == bundle[job.version]
  IN  /\ pc \in {"copy1", "copy2", "copyLabels", "manifest"} =>
           dir # Absent /\ dir["manifest"] = Absent
      /\ pc = "copy1" => dir["stage2"] = Absent
      /\ pc \in {"copy2", "copyLabels", "manifest"} => dir["stage1"] = work.stage1
      /\ pc = "copy2" => dir["stage2"] = Absent
      /\ pc \in {"copyLabels", "manifest"} =>
           dir["stage2"] = IF job.stage2 THEN work.stage2 ELSE Absent
      /\ pc = "manifest" => dir["labels"] = JobLabels /\ work.labels = JobLabels
      
\* The bundle of the job's version is what the job made, and it verifies.
Whole ==
  LET dir == bundle[job.version]
  IN  /\ dir # Absent /\ Verifies(dir) /\ work.labels = JobLabels
      /\ dir["stage1"] = work.stage1
      /\ dir["stage2"] = IF job.stage2 THEN work.stage2 ELSE Absent

(* Once built, the zip holds that bundle. *)
Delivering ==
  /\ pc = "zip" => Whole
  /\ built => pc \in {"evaluate", "report", "idle"}
  /\ built /\ pc \in {"evaluate", "report"} =>
       Whole /\ zip[job.version] = [by |-> job.no, holds |-> bundle[job.version]]
  /\ report # Absent => pc = "idle"

(* What evaluate.py measured: the models of the working directory. *)
Measuring ==
  /\ measured # Absent => pc \in {"report", "idle"} /\ measured.on \subseteq HeldOut
                          /\ \A f \in {"stage1", "stage2"} : measured[f] \in Models \cup {Absent}
  /\ measured # Absent /\ pc = "report" =>
       /\ measured["stage1"] = work.stage1
       /\ measured["stage2"] = IF job.stage2 THEN work.stage2 ELSE Absent

OnboardingInv ==
  /\ TypeOK /\ Working /\ Manifested /\ Building /\ Delivering /\ Measuring
  /\ BuiltIsDelivered

-----------------------------------------------------------------------------
(* Lemmas about the operators.                                             *)

(* The training split has no held-out speaker, and the test split no other.*)
LEMMA SplitsApart ==
  ASSUME NEW data \in SUBSET Speakers
  PROVE  Train(data) \in SUBSET (Speakers \ HeldOut) /\ Test(data) \subseteq HeldOut
BY DEF Train, Test

(* An emptied directory is a bundle of no file.                            *)
LEMMA NoBundleType == NoBundle \in Bundles /\ \A f \in Payload \cup {"manifest"} : NoBundle[f] = Absent
BY DEF NoBundle, Bundles

(* The model of the job under way.                                         *)
LEMMA ModelType == JobType => Model \in Models /\ Model.by = job.no
BY SplitsApart DEF JobType, Model, Models

(* Writing one file of the job's bundle leaves its others, and the other   *)
(* bundles, as they were.                                                  *)
LEMMA PutFile ==
  ASSUME DistType, job.version \in Versions, bundle[job.version] # Absent,
         NEW file \in Payload \cup {"manifest"},
         NEW content \in Models \cup Labels \cup Manifests \cup {Absent, Torn},
         Put(file, content)
  PROVE  /\ bundle' \in [Versions -> Bundles \cup {Absent}]
         /\ bundle'[job.version] # Absent
         /\ bundle'[job.version][file] = content
         /\ \A f \in (Payload \cup {"manifest"}) \ {file} : bundle'[job.version][f] = bundle[job.version][f]
         /\ \A u \in Versions \ {job.version} : bundle'[u] = bundle[u]
<1> DEFINE dir == bundle[job.version]
<1>1. dir \in Bundles
  BY DEF DistType
<1>2. bundle' = [bundle EXCEPT ![job.version] = [dir EXCEPT ![file] = content]]
  BY DEF Put, DistType
<1>3. [dir EXCEPT ![file] = content] \in Bundles
  BY <1>1 DEF Bundles
<1>4. /\ [dir EXCEPT ![file] = content][file] = content
      /\ \A f \in (Payload \cup {"manifest"}) \ {file} : [dir EXCEPT ![file] = content][f] = dir[f]
  BY <1>1 DEF Bundles
<1> HIDE DEF dir
<1>5. bundle'[job.version] = [dir EXCEPT ![file] = content]
  BY <1>2 DEF DistType
<1>6. \A u \in Versions \ {job.version} : bundle'[u] = bundle[u]
  BY <1>2 DEF DistType
<1>7. bundle' \in [Versions -> Bundles \cup {Absent}]
  BY <1>2, <1>3 DEF DistType
<1>8. [dir EXCEPT ![file] = content] # Absent
  BY <1>3, NamesAssumption
<1>9. QED BY <1>4, <1>5, <1>6, <1>7, <1>8 DEF dir

(* The steps of build_bundle.                                              *)
LEMMA AtBundle ==
  /\ DOMAIN BundleFile = {"copy1", "copy2", "copyLabels", "manifest"}
  /\ BundleStep = {"clear", "copy1", "copy2", "copyLabels", "manifest", "zip"}
BY DEF BundleStep, BundleFile

(* A build cut short leaves a bundle of fewer files, or a torn one where   *)
(* it was writing; the zip of its version, or no zip, or a torn one.       *)
LEMMA DistLeft ==
  ASSUME TypeOK, Building, pc # "idle", DistCutShort
  PROVE  /\ DistType'
         /\ \A u \in Versions \ {job.version} : bundle'[u] = bundle[u] /\ zip'[u] = zip[u]
         /\ pc \notin {"clear", "copy1", "copy2", "copyLabels", "manifest"} => bundle' = bundle
         /\ pc # "zip" => zip' = zip
         /\ pc = "clear" =>
              \/ bundle' = bundle
              \/ bundle'[job.version] = Absent
              \/ bundle'[job.version] # Absent /\ bundle[job.version] # Absent
                 /\ \A f \in Payload \cup {"manifest"} : bundle'[job.version][f] \in {bundle[job.version][f], Absent}
         /\ pc \in {"copy1", "copy2", "copyLabels", "manifest"} =>
              bundle'[job.version] # Absent /\ bundle'[job.version]["manifest"] \in Names
<1> DEFINE v == job.version
<1>0. v \in Versions /\ DistType /\ DOMAIN NoBundle = Payload \cup {"manifest"}
  BY DEF TypeOK, JobType, NoBundle
<1>1. CASE UNCHANGED distVars
  BY <1>0, <1>1 DEF distVars, DistType, Building, Names
<1>2. CASE /\ pc = "clear" /\ bundle[v] # Absent
           /\ \E gone \in SUBSET DOMAIN NoBundle :
                bundle' = [bundle EXCEPT ![v] =
                             [f \in DOMAIN NoBundle |-> IF f \in gone THEN Absent ELSE @[f]]]
           /\ UNCHANGED zip
  <2> PICK gone \in SUBSET DOMAIN NoBundle :
                bundle' = [bundle EXCEPT ![v] =
                             [f \in DOMAIN NoBundle |-> IF f \in gone THEN Absent ELSE bundle[v][f]]]
    BY <1>2, <1>0 DEF DistType
  <2> DEFINE left == [f \in Payload \cup {"manifest"} |-> IF f \in gone THEN Absent ELSE bundle[v][f]]
  <2>1. bundle[v] \in Bundles
    BY <1>0, <1>2 DEF DistType
  <2>2. left \in Bundles
    BY <2>1 DEF Bundles
  <2>3. \A f \in Payload \cup {"manifest"} : left[f] \in {bundle[v][f], Absent}
    OBVIOUS
  <2>4. bundle' = [bundle EXCEPT ![v] = left]
    BY <1>0
  <2>5. left # Absent
    BY <2>2, NamesAssumption
  <2> HIDE DEF left
  <2>6. bundle'[v] = left /\ \A u \in Versions \ {v} : bundle'[u] = bundle[u]
    BY <1>0, <2>4 DEF DistType
  <2>7. bundle' \in [Versions -> Bundles \cup {Absent}]
    BY <1>0, <2>2, <2>4 DEF DistType
  <2>8. QED BY <1>0, <1>2, <2>3, <2>5, <2>6, <2>7 DEF DistType
<1>3. CASE pc = "clear" /\ bundle' = [bundle EXCEPT ![v] = Absent] /\ UNCHANGED zip
  BY <1>0, <1>3 DEF DistType
<1>4. CASE pc \in DOMAIN BundleFile /\ Put(BundleFile[pc], Torn) /\ UNCHANGED zip
  <2>1. /\ pc \in {"copy1", "copy2", "copyLabels", "manifest"}
        /\ BundleFile[pc] \in Payload \cup {"manifest"}
    BY <1>4 DEF BundleFile, Payload
  <2>2. bundle[v] # Absent /\ bundle[v]["manifest"] = Absent
    BY <2>1 DEF Building
  <2>3. /\ bundle' \in [Versions -> Bundles \cup {Absent}]
        /\ bundle'[v] # Absent
        /\ bundle'[v][BundleFile[pc]] = Torn
        /\ \A f \in (Payload \cup {"manifest"}) \ {BundleFile[pc]} : bundle'[v][f] = bundle[v][f]
        /\ \A u \in Versions \ {v} : bundle'[u] = bundle[u]
    BY <1>0, <1>4, <2>1, <2>2, PutFile
  <2>4. bundle'[v]["manifest"] \in Names
    BY <2>2, <2>3 DEF Names
  <2>5. QED BY <1>0, <1>4, <2>1, <2>3, <2>4 DEF DistType
<1>5. CASE /\ pc = "zip"
           /\ \E left \in {Absent, [by |-> job.no, holds |-> Torn]} : zip' = [zip EXCEPT ![v] = left]
           /\ UNCHANGED bundle
  <2>1. [by |-> job.no, holds |-> Torn] \in Zips
    BY DEF TypeOK, JobType, Zips
  <2>2. QED BY <1>0, <1>5, <2>1 DEF DistType
<1>6. QED BY <1>1, <1>2, <1>3, <1>4, <1>5 DEF DistCutShort

-----------------------------------------------------------------------------
(* The parts of the invariant.                                             *)

(* The initial state satisfies every part.                                 *)
LEMMA OnboardingInit == Init => OnboardingInv
<1> SUFFICES ASSUME Init PROVE OnboardingInv
  OBVIOUS
<1>1. JobType
  BY DEF Init, JobType
<1>2. work \in WorkFiles
  BY DEF Init, WorkFiles, Names
<1>3. DistType
  BY DEF Init, DistType
<1>4. Manifested
  BY DEF Init, Manifested
<1>5. QED BY <1>1, <1>2, <1>3, <1>4

             DEF Init, OnboardingInv, TypeOK, Working, Building, Delivering, Measuring, BuiltIsDelivered,
              Past1, Past2, PastLabels

(* Every step keeps the types of the job and of the features.              *)
LEMMA OnboardingJobNext == OnboardingInv /\ [Next]_vars => JobType'
<1> SUFFICES ASSUME OnboardingInv, [Next]_vars PROVE JobType'
  OBVIOUS
<1> USE DEF OnboardingInv, TypeOK, JobType
<1>1. CASE StartJob
  <2> PICK data \in SUBSET Speakers, v \in Versions, on \in BOOLEAN :
        job' = [no |-> job.no + 1, data |-> data, version |-> v, stage2 |-> on]
    BY <1>1 DEF StartJob
  <2>1. [no |-> job.no + 1, data |-> data, version |-> v, stage2 |-> on]
          \in [no : Nat, data : SUBSET Speakers, version : Versions \cup {1}, stage2 : BOOLEAN]
    OBVIOUS
  <2>2. job'.version \in Versions
    OBVIOUS
  <2>3. QED BY <1>1, <2>1, <2>2 DEF StartJob
<1>2. CASE LoadCache
  <2>1. work.cache \notin Names => work.cache \in SUBSET Speakers
    BY DEF WorkFiles
  <2>2. QED BY <1>2, <2>1 DEF LoadCache, Proceed, outVars, Names
<1>3. CASE BuildFeatures
  BY <1>3 DEF BuildFeatures, Proceed, outVars
<1>4. CASE ExportStage1 \/ ExportStage2 \/ WriteLabels \/ Calibrate \/ ClearDirectory \/ CopyStage1
           \/ CopyStage2 \/ CopyLabels \/ WriteManifest \/ WriteZip
  BY <1>4
     DEF ExportStage1, ExportStage2, WriteLabels, Calibrate, ClearDirectory, CopyStage1, CopyStage2,
              CopyLabels, WriteManifest, WriteZip, outVars
<1>5. CASE Die \/ BundleFails \/ Evaluate \/ EvaluateFails \/ ReportCard
  <2>1. pc # "idle"
    BY <1>5, AtBundle DEF Die, BundleFails, Evaluate, EvaluateFails, ReportCard
  <2>2. /\ UNCHANGED <<job, features, built>> /\ pc' \in {"idle", "evaluate", "report"}
    BY <1>5 DEF Die, BundleFails, Evaluate, EvaluateFails, ReportCard, outVars
  <2>3. QED BY <2>1, <2>2
<1>6. CASE UNCHANGED vars
  BY <1>6 DEF vars, outVars
<1>7. QED BY <1>1, <1>2, <1>3, <1>4, <1>5, <1>6 DEF Next

(* Every step keeps the types of the working files.                        *)
LEMMA OnboardingWorkNext == OnboardingInv /\ [Next]_vars => (work \in WorkFiles)'
<1> SUFFICES ASSUME OnboardingInv, [Next]_vars PROVE work' \in WorkFiles
  BY DEF WorkFiles, Names, Models, Labels
<1> USE DEF OnboardingInv, TypeOK, WorkFiles, Names
<1>1. CASE BuildFeatures
  BY <1>1 DEF BuildFeatures, JobType
<1>2. CASE ExportStage1 \/ ExportStage2
  BY <1>2, ModelType DEF ExportStage1, ExportStage2
<1>3. CASE WriteLabels
  <2>1. [by |-> job.no, stage2 |-> job.stage2] \in Labels
    BY DEF Labels, JobType
  <2>2. QED BY <1>3, <2>1 DEF WriteLabels
<1>4. CASE Calibrate
  BY <1>4 DEF Calibrate
<1>5. CASE Die
  <2>1. pc \in DOMAIN WorkFile => WorkFile[pc] \in {"cache", "stage1", "stage2", "labels"}
    BY DEF WorkFile
  <2>2. \/ UNCHANGED work
        \/ \E f \in {"cache", "stage1", "stage2", "labels"} : work' = [work EXCEPT ![f] = Torn]
    BY <1>5, <2>1 DEF Die, WorkCutShort
  <2>3. QED BY <2>2
<1>6. UNCHANGED work \/ BuildFeatures \/ ExportStage1 \/ ExportStage2 \/ WriteLabels \/ Calibrate \/ Die
  BY DEF Next, vars, StartJob, LoadCache, ClearDirectory, CopyStage1, CopyStage2, CopyLabels,
         WriteManifest, WriteZip, BundleFails, Evaluate, EvaluateFails, ReportCard
<1>7. QED BY <1>1, <1>2, <1>3, <1>4, <1>5, <1>6

(* Every step keeps the types of the bundles and of the zips.              *)
LEMMA OnboardingDistNext == OnboardingInv /\ [Next]_vars => DistType'
<1> SUFFICES ASSUME OnboardingInv, [Next]_vars PROVE DistType'
  OBVIOUS
<1>0. TypeOK /\ Building /\ JobType /\ DistType /\ work \in WorkFiles
  BY DEF OnboardingInv, TypeOK
<1>1. CASE ClearDirectory
  BY <1>0, <1>1, NoBundleType DEF ClearDirectory, DistType
<1>2. CASE CopyStage1 \/ CopyStage2 \/ CopyLabels \/ WriteManifest
  <2>1. /\ pc \in {"copy1", "copy2", "copyLabels", "manifest"} /\ job.version \in Versions /\ UNCHANGED zip
        /\ bundle[job.version] # Absent
    BY <1>0, <1>2 DEF CopyStage1, CopyStage2, CopyLabels, WriteManifest, JobType, Building
  <2>2. CASE CopyStage1 \/ CopyStage2 \/ CopyLabels
    <3>1. {work.stage1, work.stage2, work.labels} \subseteq Models \cup Labels \cup Manifests \cup {Absent, Torn}
      BY <1>0 DEF WorkFiles, Names
    <3>2. QED
      BY <1>0, <2>1, <2>2, <3>1, PutFile DEF CopyStage1, CopyStage2, CopyLabels, Payload, DistType
  <2>3. CASE WriteManifest
    <3>1. [f \in Payload |-> bundle[job.version][f]] \in Manifests
      <4>1. work.stage1 \in Models /\ (job.stage2 => work.stage2 \in Models)
        BY <2>3 DEF OnboardingInv, Working, WriteManifest, Past1, Past2
      <4>2. JobLabels \in Labels
        BY <1>0 DEF JobLabels, Labels, JobType
      <4>3. \A f \in Payload : bundle[job.version][f] \in Models \cup Labels \cup {Absent}
        BY <1>0, <2>3, <4>1, <4>2 DEF Building, Payload, WriteManifest
      <4>4. QED BY <4>3 DEF Manifests
    <3>2. QED BY <1>0, <2>1, <2>3, <3>1, PutFile DEF WriteManifest, DistType
  <2>4. QED BY <1>2, <2>2, <2>3
<1>3. CASE WriteZip
  <2>1. bundle[job.version] \in Bundles /\ job.version \in Versions
    BY <1>0, <1>3 DEF OnboardingInv, Delivering, Whole, WriteZip, DistType, JobType
  <2>2. [by |-> job.no, holds |-> bundle[job.version]] \in Zips
    BY <1>0, <2>1 DEF Zips, JobType
  <2>3. QED BY <1>0, <1>3, <2>2 DEF WriteZip, DistType
<1>4. CASE Die \/ BundleFails
  <2>1. pc # "idle" /\ DistCutShort
    BY <1>4 DEF Die, BundleFails, BundleStep, BundleFile
  <2>2. QED BY <1>0, <2>1, DistLeft
<1>5. UNCHANGED distVars \/ ClearDirectory \/ CopyStage1 \/ CopyStage2 \/ CopyLabels \/ WriteManifest
        \/ WriteZip \/ Die \/ BundleFails
  BY
     DEF Next, vars, distVars, StartJob, LoadCache, BuildFeatures, ExportStage1, ExportStage2, WriteLabels,
         Calibrate, Evaluate, EvaluateFails, ReportCard
<1>6. QED BY <1>0, <1>1, <1>2, <1>3, <1>4, <1>5 DEF distVars, DistType

(* Every step keeps the files of train.py the job's own.                   *)
LEMMA OnboardingWorkingNext == OnboardingInv /\ [Next]_vars => Working'
<1> SUFFICES ASSUME OnboardingInv, [Next]_vars PROVE Working'
  OBVIOUS
<1> USE DEF OnboardingInv, TypeOK, WorkFiles, Working, Past1, Past2, PastLabels, JobLabels
<1>1. CASE StartJob \/ LoadCache \/ BuildFeatures
  BY <1>1 DEF StartJob, LoadCache, BuildFeatures, Proceed
<1>2. CASE ExportStage1 \/ ExportStage2
  BY <1>2, ModelType DEF ExportStage1, ExportStage2
<1>3. CASE WriteLabels \/ Calibrate
  BY <1>3 DEF WriteLabels, Calibrate
<1>4. CASE ClearDirectory \/ CopyStage1 \/ CopyStage2 \/ CopyLabels \/ WriteManifest \/ WriteZip
  BY <1>4 DEF ClearDirectory, CopyStage1, CopyStage2, CopyLabels, WriteManifest, WriteZip
<1>5. CASE Die
  BY <1>5 DEF Die
<1>6. CASE BundleFails
  BY <1>6, AtBundle DEF BundleFails
<1>7. CASE Evaluate \/ EvaluateFails \/ ReportCard
  BY <1>7 DEF Evaluate, EvaluateFails, ReportCard
<1>8. CASE UNCHANGED vars
  BY <1>8 DEF vars
<1>9. QED BY <1>1, <1>2, <1>3, <1>4, <1>5, <1>6, <1>7, <1>8 DEF Next

(* Every step keeps what is beside a manifest what the manifest describes. *)
LEMMA OnboardingManifestedNext == OnboardingInv /\ [Next]_vars => Manifested'
<1> SUFFICES ASSUME OnboardingInv, [Next]_vars PROVE Manifested'
  OBVIOUS
<1>0. TypeOK /\ Working /\ Building /\ Manifested /\ JobType /\ DistType
  BY DEF OnboardingInv, TypeOK
<1> DEFINE Fine(dir) ==
      dir # Absent /\ dir["manifest"] \notin Names =>
        /\ OneBuild(dir["manifest"])
        /\ \A f \in Payload : dir[f] \in {dir["manifest"][f], Absent}
           Others == \A u \in Versions \ {job.version} : bundle'[u] = bundle[u]
<1>1. ASSUME Others, Fine(bundle'[job.version]) PROVE Manifested'
  BY <1>0, <1>1 DEF Manifested, OneBuild, Names, Models, Labels
<1>2. Absent \in Names
  BY DEF Names
<1>3. CASE ClearDirectory
  <2>1. bundle'[job.version] = NoBundle /\ Others
    BY <1>0, <1>3 DEF ClearDirectory, DistType, JobType
  <2>2. QED BY <1>1, <1>2, <2>1, NoBundleType
<1>4. CASE CopyStage1 \/ CopyStage2 \/ CopyLabels
  <2>1. /\ pc \in {"copy1", "copy2", "copyLabels"} /\ job.version \in Versions
        /\ bundle[job.version] # Absent /\ bundle[job.version]["manifest"] = Absent
    BY <1>0, <1>4 DEF CopyStage1, CopyStage2, CopyLabels, JobType, Building
  <2>2. {work.stage1, work.stage2, work.labels} \subseteq Models \cup Labels \cup Manifests \cup {Absent, Torn}
    BY <1>0 DEF TypeOK, WorkFiles, Names
  <2>3. bundle'[job.version]["manifest"] = bundle[job.version]["manifest"] /\ Others
    BY <1>0, <1>4, <2>1, <2>2, PutFile DEF CopyStage1, CopyStage2, CopyLabels, Payload
  <2>4. QED BY <1>1, <1>2, <2>1, <2>3
<1>5. CASE WriteManifest
  <2> DEFINE digests == [f \in Payload |-> bundle[job.version][f]]
  <2>1. /\ pc = "manifest" /\ job.version \in Versions /\ bundle[job.version] # Absent
        /\ bundle[job.version]["stage1"] = work.stage1
        /\ bundle[job.version]["stage2"] = IF job.stage2 THEN work.stage2 ELSE Absent
        /\ bundle[job.version]["labels"] = JobLabels
    BY <1>0, <1>5 DEF WriteManifest, JobType, Building
  <2>2. /\ work.stage1 \in Models /\ work.stage1.by = job.no
        /\ job.stage2 => work.stage2 \in Models /\ work.stage2.by = job.no
        /\ JobLabels \in Labels /\ JobLabels.by = job.no /\ JobLabels.stage2 = job.stage2
    BY <1>0, <2>1 DEF Working, Past1, Past2, JobLabels, Labels, JobType
  <2>3. digests \in Manifests
    BY <2>1, <2>2 DEF Payload, Manifests
  <2>4. OneBuild(digests)
    BY <2>1, <2>2 DEF OneBuild, Payload
  <2>5. Put("manifest", digests)
    BY <1>5 DEF WriteManifest
  <2>6. \A f \in Payload : digests[f] = bundle[job.version][f]
    OBVIOUS
  <2> HIDE DEF digests
  <2>7. /\ bundle'[job.version]["manifest"] = digests /\ Others
        /\ \A f \in Payload : bundle'[job.version][f] = bundle[job.version][f]
    BY <1>0, <2>1, <2>3, <2>5, PutFile DEF Payload
  <2>8. QED BY <1>1, <2>4, <2>6, <2>7
<1>6. CASE Die \/ BundleFails
  <2>1. pc # "idle" /\ DistCutShort
    BY <1>6, AtBundle DEF Die, BundleFails
  <2>2. Others /\ job.version \in Versions
    BY <1>0, <2>1, DistLeft DEF JobType
  <2>3. Fine(bundle[job.version])
    BY <1>0, <2>2 DEF Manifested
  <2>4. CASE pc = "clear"
    <3>1. CASE bundle' = bundle
      BY <1>1, <2>2, <2>3, <3>1
    <3>2. CASE bundle'[job.version] = Absent
      BY <1>1, <2>2, <3>2
    <3>3. CASE /\ bundle'[job.version] # Absent /\ bundle[job.version] # Absent
               /\ \A f \in Payload \cup {"manifest"} :
                     bundle'[job.version][f] \in {bundle[job.version][f], Absent}
      BY <1>1, <1>2, <2>2, <2>3, <3>3
    <3>4. QED BY <1>0, <2>1, <2>4, <3>1, <3>2, <3>3, DistLeft
  <2>5. CASE pc \in {"copy1", "copy2", "copyLabels", "manifest"}
    BY <1>0, <1>1, <2>1, <2>2, <2>5, DistLeft
  <2>6. CASE pc \notin {"clear", "copy1", "copy2", "copyLabels", "manifest"}
    BY <1>0, <1>1, <2>1, <2>2, <2>3, <2>6, DistLeft
  <2>7. QED BY <2>4, <2>5, <2>6
<1>7. UNCHANGED bundle \/ ClearDirectory \/ CopyStage1 \/ CopyStage2 \/ CopyLabels \/ WriteManifest
        \/ Die \/ BundleFails
  BY
     DEF Next, vars, distVars, StartJob, LoadCache, BuildFeatures, ExportStage1, ExportStage2, WriteLabels,
         Calibrate, WriteZip, Evaluate, EvaluateFails, ReportCard
<1>8. CASE UNCHANGED bundle
  BY <1>0, <1>8 DEF Manifested, OneBuild, Names, Models, Labels
<1>9. QED BY <1>3, <1>4, <1>5, <1>6, <1>7, <1>8

(* Every step keeps the bundle under way what was written.                 *)
LEMMA OnboardingBuildingNext == OnboardingInv /\ [Next]_vars => Building'
<1> SUFFICES ASSUME OnboardingInv, [Next]_vars PROVE Building'
  OBVIOUS
<1>0. TypeOK /\ Working /\ Building /\ JobType /\ DistType
  BY DEF OnboardingInv, TypeOK
<1>1. CASE ClearDirectory
  <2>1. bundle'[job.version] = NoBundle /\ NoBundle # Absent /\ pc' = "copy1" /\ UNCHANGED <<job, work>>
    BY <1>0, <1>1, NoBundleType, NamesAssumption DEF ClearDirectory, DistType, JobType
  <2>2. QED BY <2>1, NoBundleType DEF Building, Payload
<1>2. CASE CopyStage1 \/ CopyStage2 \/ CopyLabels
  <2>1. /\ pc \in {"copy1", "copy2", "copyLabels"} /\ job.version \in Versions
        /\ bundle[job.version] # Absent /\ bundle[job.version]["manifest"] = Absent
    BY <1>0, <1>2 DEF CopyStage1, CopyStage2, CopyLabels, JobType, Building
  <2>2. {work.stage1, work.stage2, work.labels} \subseteq Models \cup Labels \cup Manifests \cup {Absent, Torn}
    BY <1>0 DEF TypeOK, WorkFiles, Names
  <2>3. CASE CopyStage1
    <3>1. /\ bundle'[job.version] # Absent /\ bundle'[job.version]["stage1"] = work.stage1
          /\ \A f \in (Payload \cup {"manifest"}) \ {"stage1"} : bundle'[job.version][f] = bundle[job.version][f]
      BY <1>0, <2>1, <2>2, <2>3, PutFile DEF CopyStage1, Payload
    <3>2. QED BY <1>0, <2>1, <2>3, <3>1 DEF CopyStage1, Building, Payload
  <2>4. CASE CopyStage2
    <3>1. /\ bundle'[job.version] # Absent /\ bundle'[job.version]["stage2"] = work.stage2
          /\ \A f \in (Payload \cup {"manifest"}) \ {"stage2"} : bundle'[job.version][f] = bundle[job.version][f]
      BY <1>0, <2>1, <2>2, <2>4, PutFile DEF CopyStage2, Payload
    <3>2. job.stage2
      BY <1>0, <2>4 DEF CopyStage2, Working
    <3>3. QED BY <1>0, <2>1, <2>4, <3>1, <3>2 DEF CopyStage2, Building, Payload
  <2>5. CASE CopyLabels
    <3>1. /\ bundle'[job.version] # Absent /\ bundle'[job.version]["labels"] = work.labels
          /\ \A f \in (Payload \cup {"manifest"}) \ {"labels"} : bundle'[job.version][f] = bundle[job.version][f]
      BY <1>0, <2>1, <2>2, <2>5, PutFile DEF CopyLabels, Payload
    <3>2. work.labels = JobLabels
      BY <1>0, <2>5 DEF CopyLabels, Working, PastLabels
    <3>3. QED BY <1>0, <2>1, <2>5, <3>1, <3>2 DEF CopyLabels, Building, Payload, JobLabels
  <2>6. QED BY <1>2, <2>3, <2>4, <2>5
<1>3. CASE UNCHANGED vars
  BY <1>0, <1>3 DEF vars, Building, JobLabels
<1>4. \/ pc' \notin {"copy1", "copy2", "copyLabels", "manifest"}
      \/ ClearDirectory \/ CopyStage1 \/ CopyStage2 \/ CopyLabels \/ UNCHANGED vars
  BY DEF Next, StartJob, LoadCache, BuildFeatures, Proceed, ExportStage1, ExportStage2, WriteLabels,
         Calibrate, WriteManifest, WriteZip, Die, BundleFails, Evaluate, EvaluateFails, ReportCard
<1>5. QED BY <1>1, <1>2, <1>3, <1>4 DEF Building

(* What the job made stays whole while nothing is written.                 *)
LEMMA WholeSame ==
  ASSUME Whole, UNCHANGED <<job, work, bundle>>
  PROVE  Whole'
BY DEF Whole, Verifies, JobLabels

(* Every step keeps the zip the bundle it was made of.                     *)
LEMMA OnboardingDeliveringNext == OnboardingInv /\ [Next]_vars => Delivering'
<1> SUFFICES ASSUME OnboardingInv, [Next]_vars PROVE Delivering'
  OBVIOUS
<1>0. TypeOK /\ Working /\ Building /\ Delivering /\ JobType /\ DistType
  BY DEF OnboardingInv, TypeOK
<1>1. CASE WriteManifest
  <2> DEFINE digests == [f \in Payload |-> bundle[job.version][f]]
  <2>1. /\ pc = "manifest" /\ job.version \in Versions /\ bundle[job.version] # Absent
        /\ bundle[job.version]["stage1"] = work.stage1
        /\ bundle[job.version]["stage2"] = IF job.stage2 THEN work.stage2 ELSE Absent
        /\ bundle[job.version]["labels"] = JobLabels /\ work.labels = JobLabels
    BY <1>0, <1>1 DEF WriteManifest, JobType, Building
  <2>2. digests \in Manifests
    <3>1. work.stage1 \in Models /\ (job.stage2 => work.stage2 \in Models) /\ JobLabels \in Labels
      BY <1>0, <2>1 DEF Working, Past1, Past2, JobLabels, Labels, JobType
    <3>2. QED BY <2>1, <3>1 DEF Payload, Manifests
  <2>3. Put("manifest", digests)
    BY <1>1 DEF WriteManifest
  <2>4. \A f \in Payload : digests[f] = bundle[job.version][f]
    OBVIOUS
  <2> HIDE DEF digests
  <2>5. /\ bundle' \in [Versions -> Bundles \cup {Absent}]
        /\ bundle'[job.version] # Absent /\ bundle'[job.version]["manifest"] = digests
        /\ \A f \in Payload : bundle'[job.version][f] = bundle[job.version][f]
    BY <1>0, <2>1, <2>2, <2>3, PutFile DEF Payload
  <2>6. Verifies(bundle'[job.version])
    BY <2>1, <2>2, <2>4, <2>5, NamesAssumption DEF Verifies
  <2>7. UNCHANGED <<job, work, built, report>> /\ pc' = "zip"
    BY <1>1 DEF WriteManifest, outVars
  <2>8. Whole'
    <3>1. bundle'[job.version]["stage1"] = work.stage1
      BY <2>1, <2>5 DEF Payload
    <3>2. bundle'[job.version]["stage2"] = IF job.stage2 THEN work.stage2 ELSE Absent
      BY <2>1, <2>5 DEF Payload
    <3>3. job' = job /\ work' = work /\ work.labels = JobLabels
      BY <2>1, <2>7
    <3> HIDE DEF Verifies
    <3>4. QED BY <2>5, <2>6, <3>1, <3>2, <3>3 DEF Whole, JobLabels, Verifies
  <2>9. QED BY <1>0, <2>1, <2>7, <2>8 DEF Delivering
<1>2. CASE WriteZip
  <2>1. pc = "zip" /\ pc' = "evaluate" /\ UNCHANGED <<job, work, bundle, report>>
        /\ zip' = [zip EXCEPT ![job.version] = [by |-> job.no, holds |-> bundle[job.version]]]
    BY <1>2 DEF WriteZip
  <2>2. Whole' /\ job.version \in Versions
    BY <1>0, <2>1, WholeSame DEF Delivering, JobType
  <2>3. zip'[job.version] = [by |-> job.no, holds |-> bundle[job.version]]
    BY <1>0, <2>1, <2>2 DEF DistType
  <2>4. QED BY <1>0, <2>1, <2>2, <2>3 DEF Delivering
<1>3. CASE Evaluate \/ EvaluateFails
  <2>1. pc = "evaluate" /\ pc' = "report" /\ UNCHANGED <<job, work, bundle, zip, built, report>>
    BY <1>3 DEF Evaluate, EvaluateFails, distVars, outVars
  <2>2. QED BY <1>0, <2>1, WholeSame DEF Delivering
<1>4. CASE BundleFails
  <2>1. pc \notin {"evaluate", "report", "idle"} /\ pc' = "evaluate" /\ UNCHANGED <<built, report>>
    BY <1>4, AtBundle DEF BundleFails, outVars
  <2>2. QED BY <1>0, <2>1 DEF Delivering
<1>5. CASE Die \/ ReportCard
  <2>1. pc' = "idle" /\ built' = built
    BY <1>5 DEF Die, ReportCard, outVars
  <2>2. QED BY <1>0, <2>1 DEF Delivering
<1>6. CASE StartJob
  BY <1>6 DEF StartJob, Delivering
<1>7. CASE LoadCache \/ BuildFeatures \/ ExportStage1 \/ ExportStage2 \/ WriteLabels \/ Calibrate
           \/ ClearDirectory \/ CopyStage1 \/ CopyStage2 \/ CopyLabels
  <2>1. pc \notin {"evaluate", "report", "idle"} /\ pc' # "zip" /\ UNCHANGED <<built, report>>
    BY <1>7
       DEF LoadCache, BuildFeatures, Proceed, ExportStage1, ExportStage2, WriteLabels, Calibrate,
                ClearDirectory, CopyStage1, CopyStage2, CopyLabels, outVars
  <2>2. QED BY <1>0, <2>1 DEF Delivering
<1>8. CASE UNCHANGED vars
  BY <1>0, <1>8, WholeSame DEF vars, Delivering
<1>9. QED BY <1>1, <1>2, <1>3, <1>4, <1>5, <1>6, <1>7, <1>8 DEF Next

(* Every step keeps what was measured the job's own models.                *)
LEMMA OnboardingMeasuringNext == OnboardingInv /\ [Next]_vars => Measuring'
<1> SUFFICES ASSUME OnboardingInv, [Next]_vars PROVE Measuring'
  OBVIOUS
<1>0. TypeOK /\ Working /\ Measuring /\ JobType
  BY DEF OnboardingInv, TypeOK
<1>1. CASE Evaluate
  <2>1. work.labels = JobLabels /\ work.stage1 \in Models /\ (job.stage2 => work.stage2 \in Models)
    BY <1>0, <1>1 DEF Evaluate, Working, Past1, Past2, PastLabels
  <2>2. /\ measured'.on = Test(job.data) /\ measured'["stage1"] = work.stage1
        /\ measured'["stage2"] = IF job.stage2 THEN work.stage2 ELSE Absent
    BY <1>1, <2>1 DEF Evaluate, JobLabels
  <2>3. measured'.on \subseteq HeldOut
    BY <2>2 DEF Test
  <2>4. pc' = "report" /\ UNCHANGED <<job, work>>
    BY <1>1 DEF Evaluate
  <2>5. QED BY <2>1, <2>2, <2>3, <2>4 DEF Measuring, Models
<1>2. CASE StartJob
  BY <1>2 DEF StartJob, Measuring
<1>3. CASE EvaluateFails
  BY <1>0, <1>3 DEF EvaluateFails, outVars, Measuring, Models
<1>4. CASE Die \/ ReportCard
  BY <1>0, <1>4 DEF Die, ReportCard, outVars, Measuring, Models
<1>5. CASE UNCHANGED vars
  BY <1>0, <1>5 DEF vars, Measuring, Models
<1>6. CASE LoadCache \/ BuildFeatures \/ ExportStage1 \/ ExportStage2 \/ WriteLabels \/ Calibrate
           \/ ClearDirectory \/ CopyStage1 \/ CopyStage2 \/ CopyLabels \/ WriteManifest \/ WriteZip
           \/ BundleFails
  <2>1. pc \notin {"report", "idle"} /\ UNCHANGED measured
    BY <1>6, AtBundle
       DEF LoadCache, BuildFeatures, Proceed, ExportStage1, ExportStage2, WriteLabels,
                Calibrate, ClearDirectory, CopyStage1, CopyStage2, CopyLabels, WriteManifest, WriteZip,
                BundleFails, outVars
  <2>2. QED BY <1>0, <2>1 DEF Measuring
<1>7. QED BY <1>1, <1>2, <1>3, <1>4, <1>5, <1>6 DEF Next

(* What is reported of a build that succeeded is that build.               *)
LEMMA OnboardingDeliveredNext == OnboardingInv /\ [Next]_vars => BuiltIsDelivered'
<1> SUFFICES ASSUME OnboardingInv, [Next]_vars PROVE BuiltIsDelivered'
  OBVIOUS
<1>0. TypeOK /\ Delivering /\ Measuring /\ BuiltIsDelivered
  BY DEF OnboardingInv
<1>1. CASE ReportCard
  <2>1. pc = "report" /\ report' = Located /\ UNCHANGED <<job, built, measured>>
    BY <1>1 DEF ReportCard
  <2>2. SUFFICES ASSUME built PROVE BuiltIsDelivered'
    BY <2>1 DEF BuiltIsDelivered
  <2>3. Whole /\ zip[job.version] = [by |-> job.no, holds |-> bundle[job.version]]
    BY <1>0, <2>1, <2>2 DEF Delivering
  <2>4. Located = zip[job.version] /\ Verifies(bundle[job.version])
    BY <2>3 DEF Located, Whole
  <2>5. report'.by = job.no /\ report'.holds = bundle[job.version]
    BY <2>1, <2>3, <2>4
  <2>6. measured # Absent => \A f \in {"stage1", "stage2"} : measured[f] = bundle[job.version][f]
    BY <1>0, <2>1, <2>3 DEF Measuring, Whole
  <2>7. QED BY <2>1, <2>4, <2>5, <2>6 DEF BuiltIsDelivered, Verifies
<1>2. CASE StartJob
  BY <1>2 DEF StartJob, BuiltIsDelivered
<1>3. CASE UNCHANGED <<job, built, measured, report>>
  BY <1>0, <1>3 DEF BuiltIsDelivered, Verifies
<1>4. CASE report' = Absent
  BY <1>4 DEF BuiltIsDelivered
<1>5. CASE ~ReportCard /\ ~StartJob /\ ~UNCHANGED vars
  <2>1. pc # "idle" /\ report' = report
    BY <1>5, AtBundle
       DEF Next, LoadCache, BuildFeatures, ExportStage1, ExportStage2, WriteLabels, Calibrate,
           ClearDirectory, CopyStage1, CopyStage2, CopyLabels, WriteManifest, WriteZip, Die, BundleFails,
           Evaluate, EvaluateFails, outVars
  <2>2. QED BY <1>0, <1>4, <2>1 DEF Delivering
<1>6. QED BY <1>1, <1>2, <1>3, <1>5 DEF vars

(* The invariant holds of every reachable state.                           *)
LEMMA OnboardingInvariant == Spec => []OnboardingInv
<1>1. OnboardingInv /\ [Next]_vars => OnboardingInv'
  <2>1. OnboardingInv /\ [Next]_vars => TypeOK'
    BY OnboardingJobNext, OnboardingWorkNext, OnboardingDistNext DEF TypeOK
  <2>2. QED BY <2>1, OnboardingWorkingNext, OnboardingManifestedNext, OnboardingBuildingNext,
               OnboardingDeliveringNext, OnboardingMeasuringNext, OnboardingDeliveredNext
                  DEF OnboardingInv
<1>2. QED BY <1>1, OnboardingInit, PTL DEF Spec

-----------------------------------------------------------------------------
(* The theorems.                                                           *)

(* Every file of every job holds what its kind holds, nothing, or a torn   *)
(* write: in particular no model on disk ever heard a held-out speaker.    *)
THEOREM OnboardingTypeOK == Spec => []TypeOK
<1>1. OnboardingInv => TypeOK
  BY DEF OnboardingInv
<1>2. QED BY <1>1, OnboardingInvariant, PTL

(* A bundle that verifies is one build, whatever was killed or left behind *)
(* by earlier builds of its version (bundle.py, build_bundle).             *)
THEOREM OnboardingVerifiedIsOneBuild == Spec => []VerifiedIsOneBuild
<1>1. OnboardingInv => VerifiedIsOneBuild
  <2> SUFFICES ASSUME OnboardingInv, NEW v \in Versions, Verifies(bundle[v])
               PROVE  LET dir == bundle[v]
                      IN  /\ dir.labels # Absent /\ \A f \in Payload : dir[f] # Torn
                          /\ \A f \in Payload : dir[f] # Absent => dir[f].by = dir.labels.by
                          /\ dir.labels.stage2 <=> dir.stage2 # Absent
    BY DEF VerifiedIsOneBuild
  <2> DEFINE dir == bundle[v]
             digests == dir["manifest"]
  <2>1. dir # Absent /\ digests \notin Names /\ \A f \in Payload : digests[f] # Absent => dir[f] = digests[f]
    BY DEF Verifies, Names
  <2>2. OneBuild(digests) /\ \A f \in Payload : dir[f] \in {digests[f], Absent}
    BY <2>1 DEF OnboardingInv, Manifested
  <2>3. \A f \in Payload : dir[f] = digests[f]
    BY <2>1, <2>2
  <2> HIDE DEF digests
  <2>4. OneBuild(dir)
    BY <2>2, <2>3 DEF OneBuild, Payload
  <2> HIDE DEF dir
  <2>5. /\ dir["labels"] # Absent /\ \A f \in Payload : dir[f] # Torn
        /\ \A f \in Payload : dir[f] # Absent => dir[f].by = dir["labels"].by
        /\ dir["labels"].stage2 <=> dir["stage2"] # Absent
    BY <2>4, NamesAssumption DEF OneBuild, Payload, Labels
  <2>6. QED BY <2>5 DEF dir
<1>2. QED BY <1>1, OnboardingInvariant, PTL

(* The zip a job names is the bundle it built, whole, and the report card  *)
(* is of the models in it (serve_train.py, locate_bundle).                 *)
THEOREM OnboardingBuiltIsDelivered == Spec => []BuiltIsDelivered
<1>1. OnboardingInv => BuiltIsDelivered
  BY DEF OnboardingInv
<1>2. QED BY <1>1, OnboardingInvariant, PTL

(* The report card is of speakers the models never heard, however old the  *)
(* features they were trained on.                                          *)
THEOREM OnboardingSpeakerIndependent == Spec => []SpeakerIndependent
<1>1. OnboardingInv => SpeakerIndependent
  BY DEF OnboardingInv, Measuring, SpeakerIndependent, Models
<1>2. QED BY <1>1, OnboardingInvariant, PTL
=============================================================================
