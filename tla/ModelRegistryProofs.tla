-------------------------- MODULE ModelRegistryProofs --------------------------
(* Theorems about ModelRegistry, for any trainings and scoring threads. *)
EXTENDS ModelRegistry, TLAPS

\* A file holds what its name says, unless it is missing or torn
FilesMatchNames ==
  \A v \in Version : pkl[v] \in {v.base, None, Torn} /\ meta[v] \in {v, None, Torn}

\* What the running command has achieved by each step
Progress ==
  /\ step \in {"rename", "copy", "copying", "unlink"} => job.command = "retrain"
  /\ step \in {"dumped", "describe", "rename"} /\ ~job.elsewhere =>
       pkl[Trained] = job.base
  /\ step \in {"copy", "copying", "unlink", "register", "registering"} /\ ~job.elsewhere =>
       pkl[Target] = job.base
  /\ step \in {"unlink", "register", "registering"} /\ ~job.elsewhere =>
       meta[Target] = Target
  /\ done # None => step = "idle"

\* A thread carries the metadata of the version whose model it will load
OneVersion ==
  \A s \in Scorer :
    /\ at[s] \in {"metadata", "model"} => entry[s] \in Version
    /\ at[s] = "model" => named[s] = entry[s]

IInv == /\ TypeOK
        /\ FilesMatchNames
        /\ Progress
        /\ OneVersion
        /\ ScoreNamesItsModel
        /\ CompletionHeals
        /\ RetrainedModelWhole

--------------------------------------------------------------------------------
\* Plain and retrained versions are different versions of the same trainings
LEMMA Versions ==
  /\ \A b \in Base : Plain(b) \in Version /\ Retrain(b) \in Version
  /\ \A b, c \in Base : Plain(b) # Retrain(c)
  /\ \A b \in Base : Plain(b).base = b /\ Retrain(b).base = b
  /\ \A v \in Version : v.base \in Base /\ (v = Plain(v.base) \/ v = Retrain(v.base))
BY DEF Version, Plain, Retrain

\* The versions a running command is about
LEMMA Commands ==
  ASSUME job \in Job
  PROVE  /\ job.base \in Base
         /\ Trained = Plain(job.base)
         /\ job.command = "train" => Target = Plain(job.base)
         /\ job.command # "train" => job.command = "retrain" /\ Target = Retrain(job.base)
         /\ job.command = "retrain" => ~job.elsewhere
         /\ Trained \in Version /\ Target \in Version
         /\ Trained.base = job.base /\ Target.base = job.base
BY Versions DEF Job, Trained, Target, Plain, Retrain, Version

\* The committed files satisfy the invariant
LEMMA Initially == Init => IInv
<1> SUFFICES ASSUME Init PROVE IInv
  OBVIOUS
<1> USE CommittedAssumption, ContentAssumption, Versions
<1>1. TypeOK
  BY DEF Init, TypeOK, Step
<1>2. FilesMatchNames /\ RetrainedModelWhole
  BY DEF Init, FilesMatchNames, RetrainedModelWhole
<1>3. Progress /\ OneVersion /\ ScoreNamesItsModel /\ CompletionHeals
  BY DEF Init, Progress, OneVersion, ScoreNamesItsModel, CompletionHeals
<1> QED
  BY <1>1, <1>2, <1>3 DEF IInv

\* A step of the training command leaves the threads alone
LEMMA TrainerKeepsThreads ==
  ASSUME IInv, UNCHANGED scorers
  PROVE  OneVersion' /\ ScoreNamesItsModel'
BY DEF IInv, scorers, OneVersion, ScoreNamesItsModel

\* A step of the training command between its start and its end: the files it
\* may change, and what holds of them after
LEMMA TrainPreserves ==
  ASSUME IInv, Train
  PROVE  IInv'
<1> USE ContentAssumption DEF files, scorers, Goto, Put
<1> DEFINE b == job.base
<1>1. job \in Job
  BY DEF IInv, TypeOK, Train, OpenModel, DumpModel, OpenMetadata, WriteMetadata,
     RenameModel, OpenCopy, WriteCopy, UnlinkMetadata, OpenRegistry, WriteRegistry
<1>2. /\ b \in Base
      /\ Trained = Plain(b)
      /\ job.command = "train" => Target = Plain(b)
      /\ job.command # "train" => job.command = "retrain" /\ Target = Retrain(b)
      /\ job.command = "retrain" => ~job.elsewhere
      /\ Trained \in Version /\ Target \in Version
      /\ Trained.base = b /\ Target.base = b
  BY <1>1, Commands
<1>3. UNCHANGED scorers
  BY DEF Train, OpenModel, DumpModel, OpenMetadata, WriteMetadata,
     RenameModel, OpenCopy, WriteCopy, UnlinkMetadata, OpenRegistry, WriteRegistry
<1>4. OneVersion' /\ ScoreNamesItsModel'
  BY <1>3, TrainerKeepsThreads
<1>5. job' = job => Trained' = Trained /\ Target' = Target
  BY DEF Trained, Target, Plain
<1> HIDE DEF b
<1>6. CASE OpenModel
  <2>1. TypeOK'
    BY <1>2, <1>6 DEF IInv, TypeOK, OpenModel, Step
  <2>2. FilesMatchNames' /\ RetrainedModelWhole'
    BY <1>2, <1>6, Versions DEF IInv, TypeOK, FilesMatchNames, RetrainedModelWhole, OpenModel
  <2>3. Progress' /\ CompletionHeals'
    BY <1>2, <1>6 DEF IInv, Progress, CompletionHeals, OpenModel
  <2> QED
    BY <1>4, <2>1, <2>2, <2>3 DEF IInv
<1>7. CASE DumpModel
  <2>1. TypeOK'
    BY <1>2, <1>7 DEF IInv, TypeOK, DumpModel, Step, b
  <2>2. FilesMatchNames' /\ RetrainedModelWhole'
    BY <1>2, <1>7, Versions
       DEF IInv, TypeOK, FilesMatchNames, RetrainedModelWhole, DumpModel, b
  <2>3. Progress' /\ CompletionHeals'
    BY <1>2, <1>5, <1>7 DEF IInv, TypeOK, Progress, CompletionHeals, DumpModel, b
  <2> QED
    BY <1>4, <2>1, <2>2, <2>3 DEF IInv
<1>8. CASE OpenMetadata \/ WriteMetadata
  <2>1. TypeOK'
    BY <1>2, <1>8 DEF IInv, TypeOK, OpenMetadata, WriteMetadata, Step
  <2>2. FilesMatchNames' /\ RetrainedModelWhole'
    BY <1>2, <1>8 DEF IInv, TypeOK, FilesMatchNames, RetrainedModelWhole, OpenMetadata, WriteMetadata
  <2>3. Progress' /\ CompletionHeals'
    BY <1>1, <1>2, <1>5, <1>8
       DEF IInv, TypeOK, Progress, CompletionHeals, OpenMetadata, WriteMetadata, Job, b
  <2> QED
    BY <1>4, <2>1, <2>2, <2>3 DEF IInv
<1>9. CASE RenameModel
  <2>1. pkl[Trained] = b /\ Trained # Target /\ Target = Retrain(b) /\ ~job.elsewhere
    BY <1>2, <1>9, Versions DEF IInv, Progress, RenameModel, b
  <2>2. TypeOK'
    BY <1>2, <1>9, <2>1 DEF IInv, TypeOK, RenameModel, Step
  <2>3. FilesMatchNames' /\ RetrainedModelWhole'
    BY <1>2, <1>9, <2>1, Versions
       DEF IInv, TypeOK, FilesMatchNames, RetrainedModelWhole, RenameModel
  <2>4. Progress' /\ CompletionHeals'
    BY <1>2, <1>5, <1>9, <2>1
       DEF IInv, TypeOK, Progress, CompletionHeals, RenameModel, b
  <2> QED
    BY <1>4, <2>2, <2>3, <2>4 DEF IInv
<1>10. CASE OpenCopy \/ WriteCopy \/ UnlinkMetadata
  <2>1. job.command = "retrain" /\ Trained # Target /\ ~job.elsewhere
    BY <1>2, <1>10, Versions DEF IInv, Progress, OpenCopy, WriteCopy, UnlinkMetadata
  <2>2. TypeOK'
    BY <1>2, <1>10 DEF IInv, TypeOK, OpenCopy, WriteCopy, UnlinkMetadata, Step
  <2>3. FilesMatchNames' /\ RetrainedModelWhole'
    BY <1>2, <1>10
       DEF IInv, TypeOK, FilesMatchNames, RetrainedModelWhole, OpenCopy, WriteCopy, UnlinkMetadata
  <2>4. Progress' /\ CompletionHeals'
    BY <1>2, <1>5, <1>10, <2>1
       DEF IInv, TypeOK, Progress, CompletionHeals, OpenCopy, WriteCopy, UnlinkMetadata
  <2> QED
    BY <1>4, <2>2, <2>3, <2>4 DEF IInv
<1>11. CASE OpenRegistry \/ WriteRegistry
  <2>1. TypeOK'
    BY <1>2, <1>11 DEF IInv, TypeOK, OpenRegistry, WriteRegistry, Step
  <2>2. FilesMatchNames' /\ RetrainedModelWhole'
    BY <1>11 DEF IInv, FilesMatchNames, RetrainedModelWhole, OpenRegistry, WriteRegistry
  <2>3. Progress' /\ CompletionHeals'
    BY <1>2, <1>5, <1>11
       DEF IInv, TypeOK, Progress, CompletionHeals, OpenRegistry, WriteRegistry, b
  <2> QED
    BY <1>4, <2>1, <2>2, <2>3 DEF IInv
<1> QED
  BY <1>6, <1>7, <1>8, <1>9, <1>10, <1>11 DEF Train

\* The start and the death of a command change no file
LEMMA StartAndCrashPreserve ==
  ASSUME IInv, StartTraining \/ CrashTraining
  PROVE  IInv'
<1> USE ContentAssumption DEF files, scorers
<1>1. OneVersion' /\ ScoreNamesItsModel'
  BY TrainerKeepsThreads DEF StartTraining, CrashTraining
<1>2. TypeOK'
  <2>1. CASE StartTraining
    BY <2>1 DEF IInv, TypeOK, StartTraining, Step
  <2>2. CASE CrashTraining
    BY <2>2 DEF IInv, TypeOK, CrashTraining, Step
  <2> QED
    BY <2>1, <2>2
<1>3. FilesMatchNames' /\ RetrainedModelWhole'
  BY DEF IInv, FilesMatchNames, RetrainedModelWhole, StartTraining, CrashTraining
<1>4. Progress' /\ CompletionHeals'
  BY DEF IInv, Progress, CompletionHeals, StartTraining, CrashTraining
<1> QED
  BY <1>1, <1>2, <1>3, <1>4 DEF IInv

\* A thread only reads the files
LEMMA ScorePreserves ==
  ASSUME IInv, NEW s \in Scorer, Score(s)
  PROVE  IInv'
<1> USE ContentAssumption DEF files, trainer, Continue, Finish
<1>1. UNCHANGED <<pkl, meta, registry, step, job, done, crashed>>
  BY DEF Score, ReadRegistry, ReadMetadata, LoadModel, LoadFails, Fallback
<1>2. FilesMatchNames' /\ RetrainedModelWhole' /\ CompletionHeals'
  BY <1>1 DEF IInv, FilesMatchNames, RetrainedModelWhole, CompletionHeals
<1>3. Progress'
  BY <1>1 DEF IInv, Progress, Trained, Target, Plain
<1>4. TypeOK' /\ OneVersion' /\ ScoreNamesItsModel'
  <2>1. CASE ReadRegistry(s)
    BY <2>1 DEF IInv, TypeOK, OneVersion, ScoreNamesItsModel, ReadRegistry
  <2>2. CASE ReadMetadata(s)
    <3>1. entry[s] \in Version /\ meta[entry[s]] \in {entry[s], None, Torn}
      BY <2>2 DEF IInv, OneVersion, FilesMatchNames, ReadMetadata
    <3> QED
      BY <2>2, <3>1 DEF IInv, TypeOK, OneVersion, ScoreNamesItsModel, ReadMetadata
  <2>3. CASE LoadModel(s)
    <3>1. /\ entry[s] \in Version /\ named[s] = entry[s]
          /\ pkl[entry[s]] = entry[s].base
      BY <2>3 DEF IInv, OneVersion, FilesMatchNames, LoadModel, ModelVersion
    <3> DEFINE r == [model |-> pkl[entry[s]], version |-> named[s]]
    <3>2. r \in Result /\ r.version.base = r.model
      BY <3>1, Versions DEF Result
    <3>3. /\ at' = [at EXCEPT ![s] = "idle"]
          /\ entry' = [entry EXCEPT ![s] = None]
          /\ named' = [named EXCEPT ![s] = None]
          /\ result' = [result EXCEPT ![s] = r]
      BY <2>3 DEF LoadModel, ModelVersion
    <3> HIDE DEF r
    <3> QED
      BY <1>1, <3>2, <3>3 DEF IInv, TypeOK, OneVersion, ScoreNamesItsModel
  <2>4. CASE LoadFails(s)
    BY <2>4 DEF IInv, TypeOK, OneVersion, ScoreNamesItsModel, LoadFails
  <2>5. CASE Fallback(s)
    <3> DEFINE r == [model |-> "placeholder", version |-> registry]
    <3>1. CASE registry \in Version
      <4>1. r \in Result /\ r.model = "placeholder"
        BY <3>1 DEF Result
      <4>2. /\ at' = [at EXCEPT ![s] = "idle"]
            /\ entry' = [entry EXCEPT ![s] = None]
            /\ named' = [named EXCEPT ![s] = None]
            /\ result' = [result EXCEPT ![s] = r]
        BY <2>5, <3>1 DEF Fallback
      <4> HIDE DEF r
      <4> QED
        BY <1>1, <4>1, <4>2 DEF IInv, TypeOK, OneVersion, ScoreNamesItsModel
    <3>2. CASE registry \notin Version
      BY <2>5, <3>2 DEF IInv, TypeOK, OneVersion, ScoreNamesItsModel, Fallback
    <3> QED
      BY <3>1, <3>2
  <2> QED
    BY <2>1, <2>2, <2>3, <2>4, <2>5 DEF Score
<1> QED
  BY <1>2, <1>3, <1>4 DEF IInv

\* Every step preserves the invariant
LEMMA Preserved == IInv /\ [Next]_vars => IInv'
<1> SUFFICES ASSUME IInv, [Next]_vars PROVE IInv'
  OBVIOUS
<1>1. CASE StartTraining \/ CrashTraining
  BY <1>1, StartAndCrashPreserve
<1>2. CASE Train
  BY <1>2, TrainPreserves
<1>3. CASE \E s \in Scorer : Score(s)
  BY <1>3, ScorePreserves
<1>4. CASE UNCHANGED vars
  BY <1>4 DEF vars, files, trainer, scorers, IInv, TypeOK, FilesMatchNames, Progress,
     OneVersion, ScoreNamesItsModel, CompletionHeals, RetrainedModelWhole,
     Trained, Target, Plain
<1> QED
  BY <1>1, <1>2, <1>3, <1>4 DEF Next

\* The invariant holds in every reachable state.
THEOREM InvariantHolds == Spec => []IInv
BY Initially, Preserved, PTL DEF Spec

\* Every variable has its type, in every reachable state.
THEOREM RegistryTypeCorrect == Spec => []TypeOK
<1>1. IInv => TypeOK
  BY DEF IInv
<1> QED
  BY <1>1, InvariantHolds, PTL

--------------------------------------------------------------------------------
\* However training and scoring interleave, and wherever commands die, a score
\* of a trained model carries that model's version.
THEOREM ScoresNameTheirModel == Spec => []ScoreNamesItsModel
<1>1. IInv => ScoreNamesItsModel
  BY DEF IInv
<1> QED
  BY <1>1, InvariantHolds, PTL

\* A training command that ends well with its files where scoring looks leaves a
\* usable registry, whatever earlier commands that died, or that wrote elsewhere
\* (--output-dir), left behind.
THEOREM CompletionAlwaysHeals == Spec => []CompletionHeals
<1>1. IInv => CompletionHeals
  BY DEF IInv
<1> QED
  BY <1>1, InvariantHolds, PTL

\* The model of a retrained version is whole or missing at all times.
THEOREM RetrainedModelAlwaysWhole == Spec => []RetrainedModelWhole
<1>1. IInv => RetrainedModelWhole
  BY DEF IInv
<1> QED
  BY <1>1, InvariantHolds, PTL
--------------------------------------------------------------------------------
(* When scoring may fail *)

\* As long as no command has died, the registry is torn only while it is being
\* registered in, and a model only while it is being dumped
TornInv ==
  /\ registry \in Version \cup {Torn}
  /\ registry = Torn => crashed \/ step = "registering"
  /\ \A v \in Version :
       pkl[v] = Torn =>
         crashed \/ (step = "dump" /\ v = Trained /\ ~job.elsewhere)

\* The committed files are whole
LEMMA TornInitially == Init => TornInv
BY CommittedAssumption, ContentAssumption, Versions DEF Init, TornInv

\* Opening a file tears it, writing it mends it, and what a renaming moves is
\* whole
LEMMA TrainTears ==
  ASSUME IInv, TornInv, Train
  PROVE  TornInv'
<1> USE ContentAssumption DEF files, Goto, Put
<1>1. job \in Job
  BY DEF IInv, TypeOK, Train, OpenModel, DumpModel, OpenMetadata, WriteMetadata,
     RenameModel, OpenCopy, WriteCopy, UnlinkMetadata, OpenRegistry, WriteRegistry
<1>2. /\ job.base \in Base /\ job.base # Torn
      /\ Trained \in Version /\ Target \in Version
      /\ pkl \in [Version -> Base \cup {None, Torn}]
  BY <1>1, Commands DEF IInv, TypeOK
<1>3. job' = job => Trained' = Trained
  BY DEF Trained, Plain
<1>4. CASE OpenModel
  BY <1>2, <1>3, <1>4 DEF TornInv, OpenModel
<1>5. CASE DumpModel
  BY <1>2, <1>3, <1>5 DEF TornInv, DumpModel
<1>6. CASE RenameModel
  <2>1. pkl[Trained] = job.base
    BY <1>1, <1>6, Commands DEF IInv, Progress, RenameModel
  <2>2. \A v \in Version : pkl'[v] = Torn => pkl[v] = Torn
    BY <1>2, <1>6, <2>1 DEF RenameModel
  <2> QED
    BY <1>3, <1>6, <2>2 DEF TornInv, RenameModel
<1>7. CASE OpenMetadata \/ WriteMetadata \/ OpenCopy \/ WriteCopy \/ UnlinkMetadata
  BY <1>3, <1>7 DEF TornInv, OpenMetadata, WriteMetadata, OpenCopy, WriteCopy, UnlinkMetadata
<1>8. CASE OpenRegistry
  BY <1>3, <1>8 DEF TornInv, OpenRegistry
<1>9. CASE WriteRegistry
  BY <1>2, <1>9 DEF TornInv, WriteRegistry
<1> QED
  BY <1>4, <1>5, <1>6, <1>7, <1>8, <1>9 DEF Train

\* Every step preserves the invariant
LEMMA TornPreserved == IInv /\ TornInv /\ [Next]_vars => TornInv'
<1> SUFFICES ASSUME IInv, TornInv, [Next]_vars PROVE TornInv'
  OBVIOUS
<1>1. CASE StartTraining
  BY <1>1 DEF StartTraining, TornInv, files
<1>2. CASE Train
  BY <1>2, TrainTears
<1>3. CASE CrashTraining
  BY <1>3 DEF CrashTraining, TornInv, files
<1>4. CASE (\E s \in Scorer : Score(s)) \/ UNCHANGED vars
  <2>1. UNCHANGED <<files, trainer>>
    BY <1>4 DEF Score, ReadRegistry, ReadMetadata, LoadModel, LoadFails, Fallback,
       Continue, Finish, vars
  <2> QED
    BY <2>1 DEF TornInv, Trained, Plain, files, trainer
<1> QED
  BY <1>1, <1>2, <1>3, <1>4 DEF Next

\* What fails has met a torn file
LEMMA FailureMeetsTorn ==
  ASSUME IInv, TornInv, NEW t \in Scorer, Score(t),
         NEW s \in Scorer, at[s] # "failed", at'[s] = "failed"
  PROVE  registry = Torn \/ \E v \in Version : pkl[v] = Torn
<1>0. at \in [Scorer -> {"idle", "metadata", "model", "fallback", "failed"}]
  BY DEF IInv, TypeOK
<1>1. CASE ReadRegistry(t) \/ ReadMetadata(t) \/ LoadModel(t)
  BY <1>0, <1>1 DEF ReadRegistry, ReadMetadata, LoadModel, Continue, Finish
<1>2. CASE LoadFails(t)
  <2>1. "failed" \in LoadErrors(pkl[ModelVersion(t)])
    BY <1>0, <1>2 DEF LoadFails, Continue
  <2>2. ModelVersion(t) \in Version
    BY <1>2 DEF LoadFails, ModelVersion, IInv, OneVersion
  <2> QED
    BY <2>1, <2>2 DEF LoadErrors
<1>3. CASE Fallback(t)
  BY <1>0, <1>3 DEF Fallback, Finish, TornInv
<1> QED
  BY <1>1, <1>2, <1>3 DEF Score

\* No thread begins to fail unless a file is being written or a command has died
FailsAroundWrites ==
  \A s \in Scorer :
    at[s] # "failed" /\ at'[s] = "failed" => crashed \/ step \in Writing

\* Only a thread's own step makes it fail, and then a file is torn
LEMMA EveryFailure == IInv /\ TornInv /\ [Next]_vars => FailsAroundWrites
<1> SUFFICES ASSUME IInv, TornInv, [Next]_vars,
                    NEW s \in Scorer, at[s] # "failed", at'[s] = "failed"
             PROVE  crashed \/ step \in Writing
  BY DEF FailsAroundWrites
<1>1. at' # at
  OBVIOUS
<1>2. ~(StartTraining \/ Train \/ CrashTraining \/ UNCHANGED vars)
  BY <1>1 DEF StartTraining, CrashTraining, Train, OpenModel, DumpModel, OpenMetadata,
     WriteMetadata, RenameModel, OpenCopy, WriteCopy, UnlinkMetadata, OpenRegistry,
     WriteRegistry, scorers, vars
<1>3. PICK t \in Scorer : Score(t)
  BY <1>2 DEF Next
<1>4. registry = Torn \/ \E v \in Version : pkl[v] = Torn
  BY <1>3, FailureMeetsTorn
<1> QED
  BY <1>4 DEF TornInv, Writing

\* Whatever is trained, renamed and registered while threads score, scoring
\* fails only while a training command is writing a file, or after one has died:
\* a model that is renamed away, or not there yet, costs no request its score.
THEOREM FailsAlwaysAroundWrites == Spec => FailsOnlyAroundWrites
BY InvariantHolds, TornInitially, TornPreserved, EveryFailure,
   PTL DEF Spec, FailsOnlyAroundWrites, FailsAroundWrites
================================================================================
