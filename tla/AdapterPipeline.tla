--------------------------- MODULE AdapterPipeline ---------------------------
(***************************************************************************)
(* The LoRA pipeline of an agent (components/mlops/src/mlops.py and        *)
(* trainjob.py): prepare-dataset, train-lora, merge-export, evaluate,      *)
(* push-registry.  The pipeline engine runs the stages of a run one after  *)
(* the other, each in a pod of its own, and resumes a run at the stage     *)
(* that failed.  Stages share nothing but the objects they leave in S3     *)
(* and in the model registry; a pod may die between any two of its writes. *)
(*                                                                         *)
(* Training may be handed to a TrainJob.  A stage that no longer waits for *)
(* it does not stop it, so several jobs of a run may write one prefix.     *)
(* All merged checkpoints go to one destination that runs share.           *)
(*                                                                         *)
(* An object is kept as what its bytes come from: the weights (a version   *)
(* of the dataset and, when training is not deterministic, an attempt),    *)
(* and the classification it claims.                                       *)
(***************************************************************************)
EXTENDS Integers, SequencesExt

CONSTANTS
  Runs,
  Remote,         \* the runs trained by a TrainJob (MLOPS_TRAINJOB_ENABLED)
  Style,          \* the runs of a style corpus, synthetic and C1
  Probed,         \* the runs of an agent with a set of tool probes
  Merging,        \* the sets of runs whose pipeline may have the merge stage (skipMerge)
  RowSets,        \* the rows a query may return: their classifications, in order
  AdapterFiles,   \* the files of an adapter, in the order they are uploaded
  MergedFiles,    \* those of a merged checkpoint
  Deterministic,  \* MLOPS_DETERMINISTIC
  Overwrite,      \* MLOPS_MERGED_OVERWRITE
  MaxResumes,     \* bound: resumptions, of all runs together
  None

Levels == 1..3    \* C1 to C3
Samples == {"register_samples", "tool_samples"}
Registered == {"model_version", "model_artifact"}
Fixed == {"examples", "test", "dataset_manifest", "train_manifest", "merge_manifest",
          "gate_result", "registration"} \cup Samples \cup Registered
Names == Fixed \cup Range(AdapterFiles)

ASSUME RunsAssumption ==
  Remote \cup Style \cup Probed \subseteq Runs /\ Merging \subseteq SUBSET Runs
ASSUME RowsAssumption == RowSets \subseteq Seq(Levels) \ {<< >>}
ASSUME FilesAssumption ==
  /\ AdapterFiles \in Seq(STRING) \ {<< >>} /\ Range(AdapterFiles) \cap Fixed = {}
  /\ MergedFiles \in Seq(STRING) \ {<< >>} /\ Range(MergedFiles) \cap Names = {}
ASSUME SwitchesAssumption == Deterministic \in BOOLEAN /\ Overwrite \in BOOLEAN
ASSUME BoundAssumption == MaxResumes \in Nat

\* Every stage runs at most once more than it is resumed.
Attempts == 0 .. MaxResumes + 1
\* `conforms`: what is generated with the weights passes the gate's own halves.
Weights == [data : Attempts, attempt : Attempts, level : Levels, conforms : BOOLEAN]
\* `says` is the verdict of a gate result and the place an artifact points to;
\* of a style corpus, that its held-out split has a conversation to complete.
Content == [weights : SUBSET Weights, level : Levels,
            says : {"", "PASS", "FAIL", "adapter", "merged", "answerable"}]
Pods == [todo : Seq(Names \cup Range(MergedFiles)), doc : Content \cup {None}]
Jobs == [state : {"new", "running", "complete", "failed"}, pod : Pods]
\* A merged file, and the run that wrote it.
Merged == [run : Runs, weights : SUBSET Weights]
ASSUME NothingAssumption == None \notin Content \cup Merged

VARIABLES
  merges,        \* the runs with a merge stage
  stage,         \* the stage a run is at
  status,        \* and how far it is: see Statuses
  resumes,       \* how often a failed run was resumed
  pod,           \* what the pod of the stage has left to write
  jobs,          \* the TrainJobs submitted for a run, with their pods
  prepared,      \* how often a dataset was rendered for a run
  objects,       \* what S3 and the registry hold of a run
  destination,   \* what the shared destination of merged checkpoints holds
  overlapped     \* history: runs that listed the destination while another was merging

pipelineVars ==
  <<merges, stage, status, resumes, pod, jobs, prepared, objects, destination,
    overlapped>>

Stages == {"prepare-dataset", "train-lora", "merge-export", "evaluate", "push-registry"}
Statuses == {"ready", "running", "waiting", "listed", "failed", "done"}
Idle == [todo |-> << >>, doc |-> None]

PipelineTypeOK ==
  /\ merges \in Merging
  /\ stage \in [Runs -> Stages]
  /\ status \in [Runs -> Statuses]
  /\ resumes \in 0 .. MaxResumes
  /\ pod \in [Runs -> Pods]
  /\ jobs \in [Runs -> Seq(Jobs)] /\ \A r \in Runs : Len(jobs[r]) \in Attempts
  /\ prepared \in [Runs -> Attempts]
  /\ objects \in [Runs -> [Names -> Content \cup {None}]]
  /\ destination \in [Range(MergedFiles) -> Merged \cup {None}]
  /\ overlapped \subseteq Runs

PipelineInit ==
  /\ merges \in Merging
  /\ stage = [r \in Runs |-> "prepare-dataset"]
  /\ status = [r \in Runs |-> "ready"]
  /\ resumes = 0
  /\ pod = [r \in Runs |-> Idle]
  /\ jobs = [r \in Runs |-> << >>]
  /\ prepared = [r \in Runs |-> 0]
  /\ objects = [r \in Runs |-> [n \in Names |-> None]]
  /\ destination = [f \in Range(MergedFiles) |-> None]
  /\ overlapped = {}

-----------------------------------------------------------------------------
Has(r, name) == objects[r][name] # None

\* The stage's pod has read and computed what it needs: it is left to write.
Works(r, todo, doc) ==
  /\ status' = [status EXCEPT ![r] = "running"]
  /\ pod' = [pod EXCEPT ![r] = [todo |-> todo, doc |-> doc]]

\* A stage that raises, or whose pod is gone, fails.
Ends(r, how) ==
  /\ status' = [status EXCEPT ![r] = how]
  /\ pod' = [pod EXCEPT ![r] = Idle]

At(r, s) == stage[r] = s /\ status[r] = "ready"

\* put_json, put_text and upload_file replace an object; _registry_upsert
\* answers a conflict with the object that is there.
Store(r, name, doc) ==
  IF name \in Range(MergedFiles)
  THEN /\ destination' = [destination EXCEPT ![name] = [run |-> r, weights |-> doc.weights]]
       /\ UNCHANGED objects
  ELSE /\ objects' = [objects EXCEPT ![r][name] =
                        IF name \in Registered /\ @ # None THEN @ ELSE doc]
       /\ UNCHANGED destination

Write(r) ==
  /\ status[r] = "running" /\ pod[r].todo # << >>
  /\ Store(r, Head(pod[r].todo), pod[r].doc)
  /\ pod' = [pod EXCEPT ![r].todo = Tail(@)]
  /\ UNCHANGED <<merges, stage, status, resumes, jobs, prepared, overlapped>>

After(r) ==
  CASE stage[r] = "prepare-dataset" -> "train-lora"
    [] stage[r] = "train-lora" -> IF r \in merges THEN "merge-export" ELSE "evaluate"
    [] stage[r] = "merge-export" -> "evaluate"
    [] OTHER -> "push-registry"

\* The pod exits, and the engine starts the next stage.  evaluate exits
\* non-zero when its own result is not PASS.
Finish(r) ==
  /\ status[r] = "running" /\ pod[r].todo = << >>
  /\ IF stage[r] = "push-registry" THEN Ends(r, "done") /\ UNCHANGED stage
     ELSE IF stage[r] = "evaluate" /\ pod[r].doc.says # "PASS"
     THEN Ends(r, "failed") /\ UNCHANGED stage
     ELSE Ends(r, "ready") /\ stage' = [stage EXCEPT ![r] = After(r)]
  /\ UNCHANGED <<merges, resumes, jobs, prepared, objects, destination, overlapped>>

\* Any call of a stage may raise, and its pod may be evicted, at any time.
Fail(r) ==
  /\ status[r] \in {"running", "listed"}
  /\ Ends(r, "failed")
  /\ UNCHANGED <<merges, stage, resumes, jobs, prepared, objects, destination, overlapped>>

\* The engine runs the failed stage again, in a new pod.
Resume(r) ==
  /\ status[r] = "failed" /\ resumes < MaxResumes
  /\ resumes' = resumes + 1
  /\ status' = [status EXCEPT ![r] = "ready"]
  /\ UNCHANGED <<merges, stage, pod, jobs, prepared, objects, destination, overlapped>>

-----------------------------------------------------------------------------
(***************************************************************************)
(* prepare-dataset.  A grounding run renders rows, each with its own       *)
(* classification; a style corpus is C1.                                   *)
(***************************************************************************)
Escalate(current, candidate) == IF candidate > current THEN candidate ELSE current

\* The classification the manifest claims for rows rendered in this order.
Claimed(rows) ==
  LET upto[i \in 0 .. Len(rows)] == IF i = 0 THEN 1 ELSE Escalate(upto[i - 1], rows[i])
  IN  upto[Len(rows)]

Rows(r) == IF r \in Style THEN {<<1>>} ELSE RowSets

\* The corpus is taken as it is: its held-out split may be empty, or hold no
\* conversation of two messages or more.
HeldOut(r) == IF r \in Style THEN {"", "answerable"} ELSE {""}

PrepareDataset(r) ==
  /\ At(r, "prepare-dataset")
  /\ prepared' = [prepared EXCEPT ![r] = @ + 1]
  /\ \E rows \in Rows(r), heldOut \in HeldOut(r), conforms \in BOOLEAN :
       Works(r, IF r \in Style THEN <<"examples", "test", "dataset_manifest">>
                               ELSE <<"examples", "dataset_manifest">>,
             [weights |-> {[data |-> prepared[r] + 1, attempt |-> 0,
                            level |-> Max(Range(rows)), conforms |-> conforms]},
              level |-> Claimed(rows), says |-> heldOut])
  /\ UNCHANGED <<merges, stage, resumes, jobs, objects, destination, overlapped>>

-----------------------------------------------------------------------------
(***************************************************************************)
(* train-lora, in the stage's pod or in the pod of a TrainJob.             *)
(***************************************************************************)
\* Mutant of Trained: every attempt draws its own initial weights.
TrainedAnew(w, attempt) == [w EXCEPT !.attempt = attempt]

\* A deterministic training gives the same weights for the same dataset.
Trained(w, attempt) == [w EXCEPT !.attempt = IF Deterministic THEN 0 ELSE attempt]

\* Mutant of TrainingWrites: the manifest goes first.
ManifestFirst(r) == <<"train_manifest">> \o AdapterFiles \o <<"register_samples", "tool_samples">>

Answerable(r) == Has(r, "test") /\ objects[r]["test"].says = "answerable"

\* The samples are generated with the trained weights, from the held-out
\* split and from the tool probes.  A split that gives none leaves no object.
TrainingWrites(r) ==
  AdapterFiles
    \o (IF Answerable(r) THEN <<"register_samples">> ELSE << >>)
    \o (IF r \in Probed THEN <<"tool_samples">> ELSE << >>)
    \o <<"train_manifest">>

HasDataset(r) == Has(r, "dataset_manifest") /\ Has(r, "examples")

Training(r, attempt) ==
  [weights |-> {Trained(w, attempt) : w \in objects[r]["examples"].weights},
   level |-> objects[r]["dataset_manifest"].level, says |-> ""]

TrainLocal(r) ==
  /\ r \notin Remote /\ At(r, "train-lora")
  /\ IF HasDataset(r) THEN Works(r, TrainingWrites(r), Training(r, resumes + 1))
                      ELSE Ends(r, "failed")
  /\ UNCHANGED <<merges, stage, resumes, jobs, prepared, objects, destination, overlapped>>

\* What train-lora looks at when its TrainJob is complete: a train manifest,
\* of whichever attempt.
Verify(r) == IF Has(r, "train_manifest") THEN Works(r, << >>, None) ELSE Ends(r, "failed")

\* submit_and_wait: a complete TrainJob of the run is adopted; otherwise
\* another is created, whatever became of the earlier ones.
Submit(r) ==
  /\ r \in Remote /\ At(r, "train-lora")
  /\ IF \E j \in DOMAIN jobs[r] : jobs[r][j].state = "complete"
     THEN Verify(r) /\ UNCHANGED jobs
     ELSE /\ jobs' = [jobs EXCEPT ![r] = Append(@, [state |-> "new", pod |-> Idle])]
          /\ status' = [status EXCEPT ![r] = "waiting"]
          /\ UNCHANGED pod
  /\ UNCHANGED <<merges, stage, resumes, prepared, objects, destination, overlapped>>

Poll(r) ==
  /\ status[r] = "waiting" /\ Last(jobs[r]).state \in {"complete", "failed"}
  /\ IF Last(jobs[r]).state = "complete" THEN Verify(r) ELSE Ends(r, "failed")
  /\ UNCHANGED <<merges, stage, resumes, jobs, prepared, objects, destination, overlapped>>

\* The deadline passes, or the pod that waits is gone: the job goes on.
TimeOut(r) ==
  /\ status[r] = "waiting"
  /\ Ends(r, "failed")
  /\ UNCHANGED <<merges, stage, resumes, jobs, prepared, objects, destination, overlapped>>

JobStart(r, j) ==
  /\ jobs[r][j].state = "new"
  /\ jobs' = [jobs EXCEPT ![r][j] =
                IF HasDataset(r)
                THEN [state |-> "running",
                      pod |-> [todo |-> TrainingWrites(r), doc |-> Training(r, j)]]
                ELSE [state |-> "failed", pod |-> Idle]]
  /\ UNCHANGED <<merges, stage, status, resumes, pod, prepared, objects, destination,
                 overlapped>>

JobWrite(r, j) ==
  /\ jobs[r][j].state = "running" /\ jobs[r][j].pod.todo # << >>
  /\ Store(r, Head(jobs[r][j].pod.todo), jobs[r][j].pod.doc)
  /\ jobs' = [jobs EXCEPT ![r][j].pod.todo = Tail(@)]
  /\ UNCHANGED <<merges, stage, status, resumes, pod, prepared, overlapped>>

\* The trainer's pod exits: after its last write, or because it failed.
JobEnd(r, j) ==
  /\ jobs[r][j].state = "running"
  /\ jobs' = [jobs EXCEPT ![r][j] =
                [state |-> IF jobs[r][j].pod.todo = << >> THEN "complete" ELSE "failed",
                 pod |-> Idle]]
  /\ UNCHANGED <<merges, stage, status, resumes, pod, prepared, objects, destination,
                 overlapped>>

-----------------------------------------------------------------------------
(***************************************************************************)
(* merge-export.  The destination is listed, and written a download and a  *)
(* merge later.                                                            *)
(***************************************************************************)
Merger(r) == stage[r] = "merge-export" /\ status[r] \in {"listed", "running"}

\* Mutant of Refused: what the destination holds is not looked at.
NeverRefused(r) == FALSE

Refused(r) == ~Overwrite /\ \E f \in Range(MergedFiles) : destination[f] # None

ListDestination(r) ==
  /\ At(r, "merge-export")
  /\ IF Has(r, "train_manifest") /\ ~Refused(r)
     THEN /\ status' = [status EXCEPT ![r] = "listed"]
          /\ LET others == {s \in Runs \ {r} : Merger(s)}
             IN  overlapped' = IF others = {} THEN overlapped ELSE overlapped \cup others \cup {r}
          /\ UNCHANGED pod
     ELSE Ends(r, "failed") /\ UNCHANGED overlapped
  /\ UNCHANGED <<merges, stage, resumes, jobs, prepared, objects, destination>>

AdapterWeights(r) ==
  UNION {objects[r][f].weights : f \in {g \in Range(AdapterFiles) : Has(r, g)}}

MergeWrites(r) == MergedFiles \o <<"merge_manifest">>

MergeExport(r) ==
  /\ stage[r] = "merge-export" /\ status[r] = "listed"
  /\ IF \E f \in Range(AdapterFiles) : Has(r, f)
     THEN Works(r, MergeWrites(r), [weights |-> AdapterWeights(r), says |-> "",
                                    level |-> objects[r]["train_manifest"].level])
     ELSE Ends(r, "failed")
  /\ UNCHANGED <<merges, stage, resumes, jobs, prepared, objects, destination, overlapped>>

-----------------------------------------------------------------------------
(***************************************************************************)
(* evaluate and push-registry.                                             *)
(***************************************************************************)
\* The halves of the gate a run cannot pass without samples.
Halves(r) == (IF r \in Style THEN {"register_samples"} ELSE {})
               \cup (IF r \in Probed THEN {"tool_samples"} ELSE {})

Scored(r) == UNION {objects[r][h].weights : h \in {g \in Samples : Has(r, g)}}

\* The acceptance suite AND every half; a gate that cannot run is a FAIL.
Verdict(acceptance, scored) ==
  IF acceptance /\ \A w \in scored : w.conforms THEN "PASS" ELSE "FAIL"

\* A half without its samples raises before any result is written.  The
\* suite runs against what is deployed, so its outcome is free.
Evaluate(r) ==
  /\ At(r, "evaluate")
  /\ IF Has(r, "train_manifest") /\ \A h \in Halves(r) : Has(r, h)
     THEN \E acceptance \in BOOLEAN :
            Works(r, <<"gate_result">>, [weights |-> Scored(r),
                                         level |-> objects[r]["train_manifest"].level,
                                         says |-> Verdict(acceptance, Scored(r))])
     ELSE Ends(r, "failed")
  /\ UNCHANGED <<merges, stage, resumes, jobs, prepared, objects, destination, overlapped>>

\* Mutant of ArtifactUri: whatever is at the destination is this run's merge.
UriByDestination(r) ==
  IF \A f \in Range(MergedFiles) : destination[f] # None THEN "merged" ELSE "adapter"

ArtifactUri(r) == IF Has(r, "merge_manifest") THEN "merged" ELSE "adapter"

Passed(r) == Has(r, "gate_result") /\ objects[r]["gate_result"].says = "PASS"

PushRegistry(r) ==
  /\ At(r, "push-registry")
  /\ IF Passed(r) /\ Has(r, "train_manifest")
     THEN Works(r, <<"model_version", "model_artifact", "registration">>,
                [weights |-> {}, level |-> objects[r]["train_manifest"].level,
                 says |-> ArtifactUri(r)])
     ELSE Ends(r, "failed")
  /\ UNCHANGED <<merges, stage, resumes, jobs, prepared, objects, destination, overlapped>>

Stage(r) ==
  \/ PrepareDataset(r) \/ TrainLocal(r) \/ Submit(r) \/ Poll(r)
  \/ ListDestination(r) \/ MergeExport(r) \/ Evaluate(r) \/ PushRegistry(r)
  \/ Write(r) \/ Finish(r)

PipelineNext ==
  \E r \in Runs :
    \/ Stage(r) \/ TimeOut(r) \/ Fail(r) \/ Resume(r)
    \/ \E j \in DOMAIN jobs[r] : JobStart(r, j) \/ JobWrite(r, j) \/ JobEnd(r, j)

PipelineSpec == PipelineInit /\ [][PipelineNext]_pipelineVars

-----------------------------------------------------------------------------
(***************************************************************************)
(* Properties.                                                             *)
(***************************************************************************)
\* A manifest is the last word of what it describes: whoever finds it finds
\* every file of the adapter or of the merged checkpoint, and every sample
\* that the run's held-out split and its tool probes could give.  Trainers that
\* outlived their stage, and pods that died half-way, included.
Due(r) == {h \in Halves(r) : h = "register_samples" => Answerable(r)}

WholeOrUnseen ==
  \A r \in Runs :
    /\ Has(r, "train_manifest") => \A n \in Range(AdapterFiles) \cup Due(r) : Has(r, n)
    /\ Has(r, "merge_manifest") => \A f \in Range(MergedFiles) : destination[f] # None

\* The bytes an artifact of the registry points to.
ArtifactWeights(r) ==
  IF objects[r]["model_artifact"].says = "adapter" THEN AdapterWeights(r)
  ELSE UNION {destination[f].weights : f \in {g \in Range(MergedFiles) : destination[g] # None}}

\* What is registered passed its gate with every half it needs, a style run
\* whose training left no samples included, and is what the gate scored: none
\* of the late TrainJobs, resumed stages and other runs has put other weights
\* behind the artifact since.  Runs that merged at the same time are excepted:
\* nothing keeps their checkpoints apart.
RegisteredIsGated ==
  \A r \in Runs \ overlapped :
    Has(r, "model_artifact") =>
      /\ Passed(r) /\ \A h \in Halves(r) : Has(r, h)
      /\ Halves(r) # {} => ArtifactWeights(r) = objects[r]["gate_result"].weights
      /\ Halves(r) # {} => \A w \in ArtifactWeights(r) : w.conforms

\* What the registry says of an adapter is true, however often its last stage
\* was resumed: registration.json, written last, names the artifact that the
\* registry kept from the first attempt, and the classification was not
\* lowered since the rows the model was trained on.
LevelKept(r) == \A w \in AdapterWeights(r) : w.level <= objects[r]["model_version"].level

RegistrationAgrees ==
  \A r \in Runs :
    /\ Has(r, "registration") =>
         /\ Has(r, "model_version")
         /\ objects[r]["model_artifact"] = objects[r]["registration"]
    /\ Has(r, "model_version") => LevelKept(r)

\* The files at the shared destination are of two runs only when both had
\* listed it, and found it empty, before either wrote.
MixOnlyByRace ==
  \A f, g \in Range(MergedFiles) :
    (destination[f] # None /\ destination[g] # None /\ destination[f].run # destination[g].run)
      => {destination[f].run, destination[g].run} \subseteq overlapped

=============================================================================
