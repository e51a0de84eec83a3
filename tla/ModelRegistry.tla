----------------------------- MODULE ModelRegistry -----------------------------
(***************************************************************************)
(* The files scoring depends on, written by the training commands while      *)
(* requests read them: ml/registry/model_registry.json and, per version,     *)
(* ml_artifacts/<version>.pkl and <version>.json.                            *)
(*                                                                          *)
(* Every file but the renamed model is written in place: opening it cuts it  *)
(* to nothing, and it is whole again when the write has ended.  A reader, or *)
(* a crash, may come in between.  One training command runs at a time; the   *)
(* threads that score are many.                                              *)
(***************************************************************************)
EXTENDS Naturals

CONSTANTS
  None,      \* no such file, no such value
  Torn,      \* the content of a file while, or after, its writing is cut short
  Base,      \* what identifies a training: its seed and its number of rows
  Committed, \* the training whose retrained model the repository commits
  Scorer,    \* threads that score a case
  MayCrash   \* may a training command die between two steps?

ASSUME CommittedAssumption == Committed \in Base /\ MayCrash \in BOOLEAN

\* baseline-logreg-v1-seed-<seed>-rows-<rows>, with or without "retrain_"
Version == [base : Base, retrained : BOOLEAN]
Plain(b)   == [base |-> b, retrained |-> FALSE]
Retrain(b) == [base |-> b, retrained |-> TRUE]

\* A training command and its arguments: train_escalation_model may be told to
\* put the files elsewhere (--output-dir) than where scoring looks for them
Job == {j \in [command : {"train", "retrain"}, base : Base, elsewhere : BOOLEAN] :
          j.elsewhere => j.command = "train"}

ASSUME ContentAssumption ==
  /\ None # Torn
  /\ {None, Torn} \cap (Base \cup Version) = {}
  /\ None \notin Job

VARIABLES
  \* files, the first two in the directory scoring reads
  pkl,      \* <version>.pkl: the training it holds the model of
  meta,     \* <version>.json: the model_version it names
  registry, \* model_registry.json: the version of its active_model
  \* the training command
  step,     \* where it is
  job,      \* its command and arguments
  done,     \* the version it registered, once it has ended well with its files
            \* where scoring looks
  crashed,  \* has a training command ever died?
  \* scoring threads
  at,       \* where the thread is in its scoring
  entry,    \* the version its registry entry names
  named,    \* the model_version of the metadata it has loaded
  result    \* the outcome of its last scoring

files   == <<pkl, meta, registry>>
trainer == <<step, job, done, crashed>>
scorers == <<at, entry, named, result>>
vars    == <<files, trainer, scorers>>

Step == {"idle", "fit", "dump", "dumped", "describe", "rename", "copy",
         "copying", "unlink", "register", "registering"}

\* The steps between the truncation of a file and the end of its writing
Writing == {"dump", "describe", "copying", "registering"}

\* A ScoringResult or RiskPrediction: the model behind the score and its
\* model_version
Result == [model : Base \cup {"placeholder"}, version : Version]

Init ==
  /\ pkl = [v \in Version |-> IF v = Retrain(Committed) THEN Committed ELSE None]
  /\ meta = [v \in Version |-> IF v = Retrain(Committed) THEN v ELSE None]
  /\ registry = Retrain(Committed)
  /\ step = "idle"
  /\ job = None
  /\ done = None
  /\ crashed = FALSE
  /\ at = [s \in Scorer |-> "idle"]
  /\ entry = [s \in Scorer |-> None]
  /\ named = [s \in Scorer |-> None]
  /\ result = [s \in Scorer |-> None]

--------------------------------------------------------------------------------
(* The training commands *)

\* train_escalation_model or retrain_baseline_model is started
StartTraining ==
  /\ step = "idle"
  /\ job' \in Job
  /\ step' = "fit"
  /\ done' = None
  /\ UNCHANGED <<files, crashed, scorers>>

\* faulty: the wrapper trains straight into the files of the new version
Trained_Fault == [base |-> job.base, retrained |-> job.command = "retrain"]

\* The version train_and_save_baseline_model writes
Trained == Plain(job.base)

\* faulty: the wrapper registers the version the baseline trainer returned
Target_Fault == Plain(job.base)

\* The version the command registers in the end
Target == [base |-> job.base, retrained |-> job.command = "retrain"]

\* What the trainer writes: f is another file, if it writes elsewhere
Put(f, v, content) == IF job.elsewhere THEN f ELSE [f EXCEPT ![v] = content]

Goto(next) == step' = next /\ UNCHANGED <<job, done, crashed>>

OpenModel ==
  /\ step = "fit"
  /\ pkl' = Put(pkl, Trained, Torn)
  /\ Goto("dump")
  /\ UNCHANGED <<meta, registry, scorers>>

DumpModel ==
  /\ step = "dump"
  /\ pkl' = Put(pkl, Trained, job.base)
  /\ Goto("dumped")
  /\ UNCHANGED <<meta, registry, scorers>>

OpenMetadata ==
  /\ step = "dumped"
  /\ meta' = Put(meta, Trained, Torn)
  /\ Goto("describe")
  /\ UNCHANGED <<pkl, registry, scorers>>

WriteMetadata ==
  /\ step = "describe"
  /\ meta' = Put(meta, Trained, Trained)
  /\ Goto(IF job.command = "train" THEN "register" ELSE "rename")
  /\ UNCHANGED <<pkl, registry, scorers>>

\* _rename_training_outputs: the model is renamed in one step ...
RenameModel ==
  /\ step = "rename"
  /\ pkl' = [pkl EXCEPT ![Trained] = None, ![Target] = pkl[Trained]]
  /\ Goto("copy")
  /\ UNCHANGED <<meta, registry, scorers>>

\* ... while the metadata is written again under the new name, in place
OpenCopy ==
  /\ step = "copy"
  /\ meta' = [meta EXCEPT ![Target] = Torn]
  /\ Goto("copying")
  /\ UNCHANGED <<pkl, registry, scorers>>

WriteCopy ==
  /\ step = "copying"
  /\ meta' = [meta EXCEPT ![Target] = Target]
  /\ Goto("unlink")
  /\ UNCHANGED <<pkl, registry, scorers>>

UnlinkMetadata ==
  /\ step = "unlink"
  /\ meta' = [meta EXCEPT ![Trained] = None]
  /\ Goto("register")
  /\ UNCHANGED <<pkl, registry, scorers>>

\* register_active_model
OpenRegistry ==
  /\ step = "register"
  /\ registry' = Torn
  /\ Goto("registering")
  /\ UNCHANGED <<pkl, meta, scorers>>

WriteRegistry ==
  /\ step = "registering"
  /\ registry' = Target
  /\ step' = "idle"
  /\ done' = IF job.elsewhere THEN None ELSE Target
  /\ job' = None
  /\ UNCHANGED <<pkl, meta, crashed, scorers>>

\* The command is killed or runs out of disk: the files stay as they are
CrashTraining ==
  /\ MayCrash
  /\ step # "idle"
  /\ step' = "idle"
  /\ job' = None
  /\ crashed' = TRUE
  /\ UNCHANGED <<files, done, scorers>>

--------------------------------------------------------------------------------
(* Scoring: ml/services/scoring.py, then ml/scoring.py if that is unavailable *)

\* Thread s goes on at next with what it has read
Continue(s, next, e, n) ==
  /\ at' = [at EXCEPT ![s] = next]
  /\ entry' = [entry EXCEPT ![s] = e]
  /\ named' = [named EXCEPT ![s] = n]
  /\ UNCHANGED <<files, trainer, result>>

\* The scoring of s ends, with a result or with an error the caller sees
Finish(s, end, r) ==
  /\ at' = [at EXCEPT ![s] = end]
  /\ entry' = [entry EXCEPT ![s] = None]
  /\ named' = [named EXCEPT ![s] = None]
  /\ result' = [result EXCEPT ![s] = r]
  /\ UNCHANGED <<files, trainer>>

\* A registry that is missing (LookupError) or torn (JSONDecodeError) makes the
\* artefact unavailable
ReadRegistry(s) ==
  /\ at[s] \in {"idle", "failed"}
  /\ IF registry \in Version
       THEN Continue(s, "metadata", registry, None)
       ELSE Continue(s, "fallback", None, None)

ReadMetadata(s) ==
  /\ at[s] = "metadata"
  /\ IF meta[entry[s]] \in Version
       THEN Continue(s, "model", entry[s], meta[entry[s]])
       ELSE Continue(s, "fallback", None, None)

\* faulty: the path of the model is built from a registry entry read again
ModelVersion_Fault(s) == IF registry \in Version THEN registry ELSE entry[s]

\* The version whose model is loaded
ModelVersion(s) == entry[s]

\* The model is there, and gives the score
LoadModel(s) ==
  /\ at[s] = "model"
  /\ pkl[ModelVersion(s)] \in Base
  /\ Finish(s, "idle", [model |-> pkl[ModelVersion(s)], version |-> named[s]])

\* faulty: only errors of unpickling make the artefact unavailable
LoadErrors_Fault(f) == IF f = Torn THEN {"fallback", "failed"} ELSE {"failed"}

\* What pickle.load of a bad file leads to.  A missing file is a
\* FileNotFoundError; a file cut short an UnpicklingError, which is caught too,
\* or, where nothing is left to read, an EOFError, which is not.
LoadErrors(f) == IF f = Torn THEN {"fallback", "failed"} ELSE {"fallback"}

LoadFails(s) ==
  /\ at[s] = "model"
  /\ pkl[ModelVersion(s)] \notin Base
  /\ \/ /\ "fallback" \in LoadErrors(pkl[ModelVersion(s)])
        /\ Continue(s, "fallback", None, None)
     \/ /\ "failed" \in LoadErrors(pkl[ModelVersion(s)])
        /\ Finish(s, "failed", None)

\* faulty: whatever the registry holds is taken for a version
Fallback_Fault(s) ==
  /\ at[s] = "fallback"
  /\ Finish(s, "idle", [model |-> "placeholder", version |-> registry])

\* The placeholder needs no model, but takes its model_version from the
\* registry, which it reads once more and without a handler for errors
Fallback(s) ==
  /\ at[s] = "fallback"
  /\ IF registry \in Version
       THEN Finish(s, "idle", [model |-> "placeholder", version |-> registry])
       ELSE Finish(s, "failed", None)

--------------------------------------------------------------------------------
Train ==
  \/ OpenModel \/ DumpModel \/ OpenMetadata \/ WriteMetadata
  \/ RenameModel \/ OpenCopy \/ WriteCopy \/ UnlinkMetadata
  \/ OpenRegistry \/ WriteRegistry

Score(s) ==
  ReadRegistry(s) \/ ReadMetadata(s) \/ LoadModel(s) \/ LoadFails(s) \/ Fallback(s)

Next ==
  \/ StartTraining \/ Train \/ CrashTraining
  \/ \E s \in Scorer : Score(s)

Spec == Init /\ [][Next]_vars

--------------------------------------------------------------------------------
(* Properties *)

\* Every variable has its type.
TypeOK ==
  /\ pkl \in [Version -> Base \cup {None, Torn}]
  /\ meta \in [Version -> Version \cup {None, Torn}]
  /\ registry \in Version \cup {None, Torn}
  /\ step \in Step
  /\ job \in Job \cup {None}
  /\ step # "idle" => job # None
  /\ done \in Version \cup {None}
  /\ crashed \in BOOLEAN
  /\ at \in [Scorer -> {"idle", "metadata", "model", "fallback", "failed"}]
  /\ entry \in [Scorer -> Version \cup {None}]
  /\ named \in [Scorer -> Version \cup {None}]
  /\ result \in [Scorer -> Result \cup {None}]

\* A score of a trained model carries the version of that model, whatever is
\* trained, renamed and registered between the thread's reads of the registry,
\* the metadata and the model (load_active_model, score_return_case).
ScoreNamesItsModel ==
  \A s \in Scorer :
    result[s] # None /\ result[s].model # "placeholder" =>
      result[s].version.base = result[s].model

\* A training command that ends well, with its files where scoring looks, leaves
\* a registry that names its version and that version's files whole, whatever
\* crashes of earlier commands, or commands that wrote elsewhere, left behind:
\* running a command again repairs the registry.
CompletionHeals ==
  done # None => /\ registry = done
                 /\ pkl[done] = done.base
                 /\ meta[done] = done

\* The model of a retrained version is never torn, not even by a crash or by
\* retraining it while it is active (the replace of _rename_training_outputs).
RetrainedModelWhole == \A b \in Base : pkl[Retrain(b)] # Torn

\* Scoring fails only while a training command is writing a file, or after one
\* has died: a file that is missing, because a model is renamed away or not
\* there yet, never fails a request.
FailsOnlyAroundWrites ==
  [][\A s \in Scorer :
       at[s] # "failed" /\ at'[s] = "failed" => crashed \/ step \in Writing]_vars

\* If artefact-backed scoring is unavailable, a score is still produced
\* (docs/ml/operations.md, safe degradation).
ScoreAlwaysProduced == \A s \in Scorer : at[s] # "failed"
================================================================================
