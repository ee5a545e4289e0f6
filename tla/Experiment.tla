----------------------------- MODULE Experiment -----------------------------
(***************************************************************************)
(* One directory of the experiment matrix (experiment.py): the artifacts   *)
(* that run_experiment_matrix leaves for one seed, in the order it writes  *)
(* them, and verify_experiment_manifest, which reads them all back.        *)
(*                                                                         *)
(* The process may be killed between any two writes and started again,     *)
(* with or without the canonical claim, in the same directory (the run id  *)
(* fixes configuration, benchmark, seeds, variants and source).  Training  *)
(* may come out differently each time, for the run id does not fix the     *)
(* runtime.  Every file but the copied benchmark is replaced atomically.   *)
(*                                                                         *)
(* Weights are the sequence of the trainings they went through; the hash   *)
(* of a file is its content; metrics are the trace they are computed from. *)
(* Evaluation is deterministic: a case's evidence is a function of the     *)
(* model.                                                                  *)
(***************************************************************************)
EXTENDS Integers, Sequences, FiniteSets, SequencesExt

CONSTANTS
    Matrix,        \* the selected variants, in order
    PpoVariants,   \* those that are not plain behaviour cloning
    Cases,         \* case ids of the test split, in order
    Draws,         \* what a training may come out as
    Protocols,     \* what configurations and benchmarks a user may bring
    None

Variants == ToSet(Matrix)

ASSUME MatrixAssumption ==
    /\ Matrix # <<>> /\ Matrix \in Seq(Variants) /\ IsInjective(Matrix)
    /\ Cases # <<>> /\ Cases \in Seq(ToSet(Cases)) /\ IsInjective(Cases)
    /\ PpoVariants \subseteq Variants
    /\ Protocols \subseteq [frozen: BOOLEAN,     \* seeds, variants, cases, labels
                         resampled: BOOLEAN,  \* bootstrap_samples >= 2
                         confidence: 1..99]   \* in percent

\* What the files hold.
Weights == Seq(Draws)
Payloads ==
    [variant: Variants, bc_checkpoint: Weights, before: Weights, after: Weights]
Checkpoints == [variant: Variants, weights: Weights, metadata: Payloads]
Traces == Seq([case: ToSet(Cases), policy: Weights])
Entries ==
    [variant: Variants, checkpoint: Checkpoints, trace: Traces, metrics: Traces,
     bc_checkpoint: Weights, before: Weights, after: Weights]
Claims == [canonical: BOOLEAN, outcomes: [Variants -> Traces]]
Manifests == [claim_mode: BOOLEAN, runs: Seq(Entries)]

\* A file that is there is not missing.
ASSUME NoneAssumption ==
    None \notin Weights \cup Payloads \cup Checkpoints \cup Claims \cup Manifests

VARIABLES
    protocol,    \* how this directory's run compares with the pre-registered one
    benchmark,   \* the copied benchmark: "absent", "torn" or "whole"
    reports,     \* which of the two derived benchmark reports exist
    shared,      \* bc-checkpoint.pt
    checkpoint,  \* checkpoint.pt of each variant
    training,    \* training.json
    guard,       \* run-integrity.json: the checkpoint it names
    trace,       \* traces.jsonl
    metrics,     \* metrics.json: the trace they were computed from
    recompute,   \* recompute.json, likewise
    claim,       \* claim-check.json: the traces it was computed from
    manifest,    \* run-manifest.json
    pc,          \* where the process is; "down" when there is none
    canonical,   \* require_canonical_claim
    bcModel,     \* the behaviour-cloned model in memory
    model,       \* the variant's model in memory
    results      \* entries of the variants done so far

setup == <<protocol, benchmark, reports, shared>>
evidence == <<checkpoint, training, guard, trace>>
derived == <<metrics, recompute, claim, manifest>>
memory == <<canonical, bcModel, model, results>>
vars == <<setup, evidence, derived, pc, memory>>

Nothing == [v \in Variants |-> None]
Put(f, v, x) == [f EXCEPT ![v] = x]

Init ==
    /\ protocol \in Protocols
    /\ benchmark = "absent" /\ reports = {} /\ shared = None
    /\ checkpoint = Nothing /\ training = Nothing /\ guard = Nothing
    /\ trace = [v \in Variants |-> <<>>]
    /\ metrics = Nothing /\ recompute = Nothing /\ claim = None /\ manifest = None
    /\ pc = "down"
    /\ canonical = FALSE /\ bcModel = None /\ model = None /\ results = <<>>

-----------------------------------------------------------------------------
(* Before the variants *)

\* _assert_canonical_claim_inputs: fail before training, with nothing written.
MayClaim == protocol.frozen /\ protocol.resampled

Start ==
    /\ pc \in {"down", "raised", "done"}
    /\ pc' = "snapshot"
    /\ canonical' \in {FALSE, MayClaim}
    /\ bcModel' = None /\ model' = None /\ results' = <<>>
    /\ UNCHANGED <<setup, evidence, derived>>

\* benchmark_dir may be the bundled copy itself: then nothing is copied.
KeepSnapshot ==
    /\ pc = "snapshot"
    /\ benchmark = "whole"
    /\ pc' = "action-validity"
    /\ UNCHANGED <<setup, evidence, derived, memory>>

\* shutil.copy2 opens the destination for writing ...
BeginSnapshot ==
    /\ pc = "snapshot"
    /\ benchmark' = "torn"
    /\ pc' = "copying"
    /\ UNCHANGED <<protocol, reports, shared, evidence, derived, memory>>

\* ... and has it whole again some time later.
EndSnapshot ==
    /\ pc = "copying"
    /\ benchmark' = "whole"
    /\ pc' = "action-validity"
    /\ UNCHANGED <<protocol, reports, shared, evidence, derived, memory>>

WriteReport ==
    /\ pc \in {"action-validity", "case-ids"}
    /\ reports' = reports \cup {pc}
    /\ pc' = IF pc = "action-validity" THEN "case-ids" ELSE "shared"
    /\ UNCHANGED <<protocol, benchmark, shared, evidence, derived, memory>>

SharedExists == shared # None

LoadShared ==
    /\ pc = "shared"
    /\ SharedExists
    /\ bcModel' = shared
    /\ pc' = "variant"
    /\ UNCHANGED <<setup, evidence, derived, canonical, model, results>>

TrainShared ==
    /\ pc = "shared"
    /\ ~SharedExists
    /\ \E d \in Draws : bcModel' = <<d>>
    /\ shared' = bcModel'
    /\ pc' = "variant"
    /\ UNCHANGED <<protocol, benchmark, reports, evidence, derived>>
    /\ UNCHANGED <<canonical, model, results>>

-----------------------------------------------------------------------------
(* One variant *)

Variant == Matrix[Len(results) + 1]

\* training.json, and the metadata inside the checkpoint.
Payload(v, after) ==
    [variant |-> v, bc_checkpoint |-> shared,
     before |-> bcModel, after |-> after]

\* save_checkpoint: the names are in the file, beside the weights.
Saved(v, weights) ==
    [variant |-> v, weights |-> weights, metadata |-> Payload(v, weights)]

\* load_checkpoint: of the variant it is asked for, and trained as that one.
Loads(file, v) == file.variant = v /\ file.metadata.variant = v

\* A BC variant is the shared model itself; PPO changes it.
DriftIsRight(v, before, after) == (v \in PpoVariants) # (after = before)

\* Mutant: a checkpoint without its training.json is partial, too.
PartialEitherWay(v) == (training[v] # None) # (checkpoint[v] # None)

\* Only this order of the two files cannot come from being killed.
PartialArtifacts(v) == training[v] # None /\ checkpoint[v] = None

\* Mutant: a variant counts as trained only with both files there.
TrainedWithRecord(v) == checkpoint[v] # None /\ training[v] # None

\* Mutant: nothing is ever reused.
NeverTrained(v) == FALSE

Trained(v) == checkpoint[v] # None

\* The evidence reused: training.json, or the metadata if it was never written.
Record(v) == IF training[v] = None THEN checkpoint[v].metadata ELSE training[v]

Reusable(v) ==
    /\ Loads(checkpoint[v], v)
    /\ checkpoint[v].metadata = Record(v)
    /\ Record(v) = Payload(v, checkpoint[v].weights)
    /\ DriftIsRight(v, bcModel, checkpoint[v].weights)

Refuse == pc' = "raised" /\ UNCHANGED <<training, checkpoint, model>>

\* A cached variant is loaded and checked against this run, or refused.
Reuse ==
    /\ pc = "variant"
    /\ Trained(Variant)
    /\ IF ~PartialArtifacts(Variant) /\ Reusable(Variant)
       THEN /\ model' = checkpoint[Variant].weights
            /\ training' = Put(training, Variant, Record(Variant))
            /\ pc' = "guard"
            /\ UNCHANGED checkpoint
       ELSE Refuse
    /\ UNCHANGED <<setup, guard, trace, derived, canonical, bcModel, results>>

\* train_ppo_variant works on a copy of the behaviour-cloned model.
StartingPoint == bcModel

\* Training, then save_checkpoint. A result refused in between (a variant that
\* did not train, a BC copy that did) is Training's PayloadRefused: nothing is
\* on disk yet, so to the directory it is a Crash.
Train ==
    /\ pc = "variant"
    /\ ~Trained(Variant)
    /\ IF ~PartialArtifacts(Variant)
       THEN /\ IF Variant \in PpoVariants
               THEN \E d \in Draws : model' = Append(StartingPoint, d)
               ELSE model' = bcModel
            /\ checkpoint' = Put(checkpoint, Variant, Saved(Variant, model'))
            /\ pc' = "training"
            /\ UNCHANGED training
       ELSE Refuse
    /\ UNCHANGED <<setup, guard, trace, derived, canonical, bcModel, results>>

WriteTraining ==
    /\ pc = "training"
    /\ training' = Put(training, Variant, Payload(Variant, model))
    /\ pc' = "guard"
    /\ UNCHANGED <<setup, checkpoint, guard, trace, derived, memory>>

\* ResumeGuard.authorize; EvaluationRun has its steps.
Authorize ==
    /\ pc = "guard"
    /\ guard' = IF guard[Variant] = None /\ trace[Variant] = <<>>
                THEN Put(guard, Variant, checkpoint[Variant]) ELSE guard
    /\ pc' = IF guard'[Variant] = checkpoint[Variant]
             THEN "evaluate" ELSE "raised"
    /\ UNCHANGED <<setup, checkpoint, training, trace, derived, memory>>

Evidence(case, weights) == [case |-> case, policy |-> weights]

CompletedCases(v) == {row.case : row \in ToSet(trace[v])}

\* The next case that the trace does not hold.
EvaluateCase ==
    /\ pc = "evaluate"
    /\ \E i \in DOMAIN Cases :
         /\ Cases[i] \notin CompletedCases(Variant)
         /\ \A j \in 1..(i - 1) : Cases[j] \in CompletedCases(Variant)
         /\ trace' = Put(trace, Variant,
                         Append(trace[Variant], Evidence(Cases[i], model)))
    /\ UNCHANGED <<setup, checkpoint, training, guard, derived, pc, memory>>

\* The exact case ids are there; compute_metrics and write_metrics.
WriteMetrics ==
    /\ pc = "evaluate"
    /\ CompletedCases(Variant) = ToSet(Cases)
    /\ metrics' = Put(metrics, Variant, trace[Variant])
    /\ pc' = "recompute"
    /\ UNCHANGED <<setup, evidence, recompute, claim, manifest, memory>>

Entry(v) ==
    [variant |-> v, checkpoint |-> checkpoint[v], trace |-> trace[v],
     metrics |-> metrics[v], bc_checkpoint |-> shared,
     before |-> bcModel, after |-> model]

\* recompute_metrics writes its report and says whether the two agree.
Recompute ==
    /\ pc = "recompute"
    /\ recompute' = Put(recompute, Variant, trace[Variant])
    /\ IF metrics[Variant] = trace[Variant]
       THEN /\ results' = Append(results, Entry(Variant))
            /\ pc' = IF Len(results) + 1 < Len(Matrix)
                     THEN "variant" ELSE "claim"
       ELSE pc' = "raised" /\ UNCHANGED results
    /\ UNCHANGED <<setup, evidence, metrics, claim, manifest>>
    /\ UNCHANGED <<canonical, bcModel, model>>

-----------------------------------------------------------------------------
(* After the variants *)

\* Every case once; an outcome for each then comes with it.
Covered(rows) ==
    Len(rows) = Len(Cases) /\ {row.case : row \in ToSet(rows)} = ToSet(Cases)

\* The gate's structural checks, confidence interval included.
GateIsCanonical ==
    /\ protocol.frozen /\ protocol.resampled /\ protocol.confidence = 95
    /\ \A v \in Variants : Covered(trace[v])

\* verify_canonical_claims: a report on the outcomes, canonical or not.
Report == [canonical |-> GateIsCanonical, outcomes |-> trace]

\* Mutant: a diagnostic rerun leaves the claim of an earlier canonical one.
KeepStaleClaim == IF canonical THEN Report ELSE claim

\* Derived claim evidence is rewritten or removed, never inherited.
ClaimOfRun == IF canonical THEN Report ELSE None

WriteClaim ==
    /\ pc = "claim"
    /\ claim' = ClaimOfRun
    /\ pc' = "manifest"
    /\ UNCHANGED <<setup, evidence, metrics, recompute, manifest, memory>>

WriteManifest ==
    /\ pc = "manifest"
    /\ manifest' = [claim_mode |-> canonical, runs |-> results]
    /\ pc' = "done"
    /\ UNCHANGED <<setup, evidence, metrics, recompute, claim, memory>>

\* The process is killed; what it had in memory is gone.
Crash ==
    /\ pc \notin {"down", "raised", "done"}
    /\ pc' = "down"
    /\ canonical' = FALSE /\ bcModel' = None /\ model' = None /\ results' = <<>>
    /\ UNCHANGED <<setup, evidence, derived>>

Run ==
    \/ KeepSnapshot \/ BeginSnapshot \/ EndSnapshot \/ WriteReport
    \/ LoadShared \/ TrainShared
    \/ Reuse \/ Train \/ WriteTraining \/ Authorize
    \/ EvaluateCase \/ WriteMetrics \/ Recompute \/ WriteClaim \/ WriteManifest

Next == Start \/ Run \/ Crash

Spec == Init /\ [][Next]_vars

-----------------------------------------------------------------------------
(* verify_experiment_manifest *)

\* _verify_checkpoint_policy_trace: the checkpoint plays the case once more, and
\* the whole trace, not just its outcome, has to come out alike.
PolicyTrace(row, weights) == row = Evidence(row.case, weights)

\* One entry of the manifest against the files it names.
EntryVerifies(entry) ==
    LET v == entry.variant IN
    /\ entry.bc_checkpoint = shared /\ entry.before = shared
    /\ entry.trace = trace[v]
    /\ checkpoint[v] # None /\ entry.checkpoint = checkpoint[v] /\ Loads(checkpoint[v], v)
    /\ entry.after = checkpoint[v].weights
    /\ training[v] = checkpoint[v].metadata
    /\ training[v] = [variant |-> v, bc_checkpoint |-> entry.bc_checkpoint,
                      before |-> entry.before, after |-> entry.after]
    /\ DriftIsRight(v, shared, entry.after)
    /\ guard[v] = checkpoint[v]
    /\ Covered(trace[v])
    /\ \A row \in ToSet(trace[v]) : PolicyTrace(row, checkpoint[v].weights)
    /\ metrics[v] = trace[v] /\ recompute[v] = trace[v]
    /\ entry.metrics = trace[v]

\* Everything but the claim evidence.
RunsVerify ==
    /\ reports = {"action-validity", "case-ids"}
    /\ [i \in DOMAIN manifest.runs |-> manifest.runs[i].variant] = Matrix
    /\ \A i \in DOMAIN manifest.runs : EntryVerifies(manifest.runs[i])

\* What is claimed recomputes, and is no less than a canonical claim.
ClaimVerifies ==
    IF manifest.claim_mode THEN claim = Report /\ Report.canonical ELSE claim = None

Verifies ==
    /\ manifest # None
    /\ benchmark = "whole"
    /\ RunsVerify
    /\ ClaimVerifies

-----------------------------------------------------------------------------
(* Properties *)

\* Each PPO variant is one training of its own away from the shared model,
\* whatever was cached: none goes on where another one stopped.
OneTrainingEach ==
    \A v \in Variants :
      \E own \in IF v \in PpoVariants THEN {<<d>> : d \in Draws} ELSE {<<>>} :
        checkpoint[v].weights = shared \o own

\* What the claim gate asks of a canonical run and no check before training does.
Registered == protocol.confidence = 95

\* Whatever earlier runs left behind, canonical or not and killed wherever,
\* a run that completes leaves a bundle the fail-closed verifier accepts, of
\* models that started alike.  The one exception: a canonical run with another
\* confidence than 95% is trained and evaluated in full before it is refused.
FinishedRunVerifies ==
    pc = "done" => OneTrainingEach /\ (Verifies <=> (canonical => Registered))

\* No kill leaves artifacts that later runs refuse: one can always resume.
NeverRefused == pc # "raised"

\* Evidence once written is final, even though training again would give
\* another model: resumed and repeated runs extend it and never replace it.
EvidenceIsFinal ==
    [][/\ shared # None => shared' = shared
       /\ \A v \in Variants :
            /\ checkpoint[v] # None => checkpoint'[v] = checkpoint[v]
            /\ training[v] # None => training'[v] = training[v]
            /\ guard[v] # None => guard'[v] = guard[v]
            /\ IsPrefix(trace[v], trace'[v])]_vars

\* A published manifest stays true while the directory is run again and again
\* and killed anywhere: at every moment, only a benchmark that is just being
\* copied or a change of claim mode under way keeps it from verifying.
PublishedStaysTrue ==
    manifest # None =>
      /\ RunsVerify
      /\ (claim # None) = manifest.claim_mode =>
           (ClaimVerifies <=> (manifest.claim_mode => Registered))

=============================================================================
