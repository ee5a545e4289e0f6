# Verification of agentic-tool-rl

agentic-tool-rl trains and evaluates policies that operate *transactional
business workflows* through structured tool calls. This directory holds TLA+
models of the parts whose correctness does not depend on numbers: the
environment that executes calls, the two sides of "grounding" (the candidate
menu and the action mask), the generators that make the tasks and everything
that plays them, the publication of benchmarks file by file, the update loops of
training, the evidence store that several processes append to, the protocol that
keeps evaluation runs with different inputs apart, and the resumable experiment
matrix built on them. TLC
checks them on small instances; TLAPS proves the safety properties of the
environment, the mask, everyone who plays a task, the store, the evaluation protocol,
the matrix, the publications, the rollouts and the training loop for every value of
their constants.

Paths below are relative to the repository root; package paths are relative to
`src/agentic_tool_rl/`.

## 1. The system

| component | code | state it keeps | operations | modelled |
|---|---|---|---|---|
| contracts | `contracts.py` | none (pydantic records) | validators | partly: as assumptions on constants |
| tool registry | `tools/registry.py` | business state of a task: `version`, `completed_nodes`, fields, `side_effects`, `processed_call_ids`, `idempotency_results`, `audit_log` | `validate`, `execute` | `WorkflowEnv` |
| workflow environment | `envs/workflow.py` | `steps_taken`, `done`, the business state | `reset`, `step`, `evaluate` | `WorkflowEnv`, `WorkflowTransactions` |
| candidate builder | `grounding/candidates.py` | none | `build_candidate_actions` | `Grounding` |
| action mask | `grounding/action_mask.py` | none | `validate`, `mask` | `Grounding` |
| trace store | `evaluation/trace_store.py` | a JSONL file; per process `_records`, `_valid_end`, `_inode` | construct, `append`, `completed_case_ids` | `TraceStore`, `AppendOnlyLog` |
| resume guard, case manifests | `evaluation/integrity.py` | `run-integrity.json` | `authorize`, `verify`, `assert_exact_case_ids` | `EvaluationRun` |
| evaluation loop | `training.py`, `cli.py` | position in the task list | `run_episode`, `evaluate_policy`, `evaluate` command | `EvaluationRun`, `Demonstration` |
| experiment matrix | `experiment.py` | the artifact tree of a run id | `run_experiment_matrix`, `verify_experiment_manifest` | `Experiment` |
| generators and oracle | `envs/benchmark*.py`, `envs/oracle.py` | none | build tasks, plans, splits; gates | `Benchmark`, `Suites` |
| demonstrations, progress data, validity data | `training.py`, `envs/action_validity.py` | position in a plan, draws | replay, continue, sample | `Demonstration`, `Sampling` |
| public baselines | `evaluation/public_baselines.py`, `evaluation/benchmark_v14.py` | none | select, run, write, verify | `Demonstration`, `Publication` |
| atomic files, benchmark persistence, acceptance | `evaluation/io.py`, `envs/persistence*.py`, `v14_acceptance.py` | files | write, verify | `Publication` |
| rollout buffer, GAE, shaping | `rollout/`, `algorithms/gae.py`, `algorithms/types.py`, `rewards/potential.py` | trajectories | add, extend, clear, batch | `Rollout` |
| training of a seed, policy updates | `training.py`, `algorithms/`, `models/progress_estimator.py` | weights, permutations, payloads | fit, update, collect, save | `Training` (losses are out of reach) |
| metrics, recomputation, claim gate | `evaluation/` | none | pure reports | `Experiment` (the claim gate's structural checks) |
| features, CLI, configuration, release scripts | | none | encoding, parsing, wiring | not modelled |

`PROJECT.json` lists them all with their sources, and under `hazards` each
place where this code is hard to test.

How they interact. `prepare_benchmark` generates splits of tasks and publishes
them. Oracle plans, replayed on those tasks, give the behaviour model its
demonstrations and the progress estimator its prefixes; each variant then copies
the behaviour model and improves its copy from its own rollouts. `run_episode` asks the builder for a menu, the mask for the
admissible part of it and the model for an index, and calls `step()`, which
calls `validate` and `execute`. The builder and the mask see only public
schemas and the visible part of the business state; the registry sees
everything. `evaluate_policy` runs an episode for each test case that the trace
store does not hold yet and appends its evidence. Before that, the guard binds
the output directory to the hashes of benchmark, configuration, source and
checkpoint. `run_experiment_matrix` does all of this for each variant, after its
training; the claim check and the manifest follow the last one, in a directory
named after the inputs. Processes share nothing but the directory.

What is hard here, and which property is about it:

- *Two rule sets that must agree* on public information, the mask and the
  registry, on every task the generators make: `MaskIsRight`, `MenuIsComplete`.
- *Retries and replays* with reused call ids and idempotency keys:
  `ExactlyOnceInOrder`, `CallIdNamesOneRequest`, `IdempotencyKeyOnce`.
- *Two records of one history*, the audit log that decides replays and the list of
  completed nodes that decides the rest: `HistoryAgrees`.
- *Labels that are true by construction of the task only*: which candidate is a
  positive, whether a continuation succeeds, what a goal-blind rule can win:
  `ExpertStates`, `WonExactlyOnPath`, `OneGoalPerTrajectory`, `PublicRulesAdvance`.
- *Sizes and remainders* of generated splits and of what is drawn from them: all
  of `Dataset`.
- *Files that describe one another*, replaced one by one: all of `Publication`.
- *Concurrent processes on one file*, its replacement, truncation, torn lines,
  failed writes: all of `TraceStore`.
- *Check-then-act* on the guard file, and durability of what was checked: all of
  `EvaluationRun`.
- *Resuming a sequence of artifacts that name one another*, when repeating a step
  would not give the same artifact: all of `Experiment`.
- *Credit across trajectory boundaries* of a flattened buffer, and *which weights
  a number belongs to*: all of `Learning`.

## 2. The modules

| module | what it is |
|---|---|
| `WorkflowEnv` | registry and environment of one task: an action for each of commit, answer (query or replay), refusal, reset |
| `WorkflowTransactions` | what the environment promises of an episode; `WorkflowEnv` implements it |
| `M_proofs` | theorems about `M`, for `M` each of `TraceStore`, `EvaluationRun`, `Experiment`, `Publication`, `Training`, `Learning` and `Dataset`; `Workflow_proofs` about `WorkflowEnv`, `Grounding` and `Demonstration` |
| `MCWorkflowEnv` | a small task with a hidden ledger, and the calls a policy may make |
| `Grounding` (extends `WorkflowEnv`) | builder and mask |
| `Demonstration` (extends `Grounding`) | everyone who plays a task: oracle, continuation policy, agent, public rules, dataset |
| `Benchmark` | the generators: from family, tier and topology to a whole task |
| `GeneratedTasks` | `Demonstration` on the tasks of `Benchmark` (`INSTANCE ... WITH` the picked task) |
| `MCGeneratedTasks` | lengths and goals |
| `Suites` (extends `Benchmark`) | how a v1.4 split is built, gated, and selected from |
| `Sampling` | rounds over strata and families, and the kinds of negatives |
| `Dataset`, `MCDataset` | `Suites` and `Sampling` side by side, and their sizes |
| `Publication` | three publishers' programs over one model of an atomic write |
| `TraceStore` | the store, step by step between the points where another process or a failure can intervene |
| `AppendOnlyLog` | what the store promises; `TraceStore` implements it |
| `MCTraceStore` | records and foreign files; two processes that share the path, or one that has it alone |
| `EvaluationRun` | guard and evaluation loop; uses the store as its specification `AppendOnlyLog` describes it: an append is one step |
| `MCEvaluationRun` | two tasks, three runs |
| `Experiment` | the artifacts of one seed of the matrix, write by write, and the verifier that reads them back |
| `MCExperiment` | one behaviour-cloned and two PPO variants, two cases |
| `Rollout` | the rewards of an episode, the buffer of trajectories, GAE and the sequence batch computed from it |
| `TrainingConfig` | what is fixed before a seed is trained, with the positivity that `config.py` and the update loops require |
| `Training` (extends `TrainingConfig`) | one seed: three models, their update loops, the variants one after the other |
| `Learning`, `MCLearning` | `Rollout` and `Training` side by side, and the numbers |

Conventions: definitions keep the names of the code where TLA+ allows it. Most
modules hold, before an operator, a *mutant* of it (commented as such): the
operator with a plausible mistake. Nothing in the model uses the mutants; each
is substituted to see that a property notices.

### WorkflowEnv

| TLA+ | code |
|---|---|
| `Validate` and the verdicts it is made of | `ToolRegistry.validate`, branch by branch in the code's order |
| `Apply` | the assignments of `execute()` |
| `Account` | the tail of `step()` |
| `CommitCall`, `AnswerCall`, `RejectCall` | `step()`, split by what `validate()` says |
| `Reset` | `reset()` |
| `Success`, `GoalsSatisfied` | `evaluate()` and `predicate_holds()` |
| `completed`, `processed`, `ledger`, `sideEffects`, ... | `completed_nodes`, `processed_call_ids`, `idempotency_results`, `side_effects`, ... |
| `outcome` | the `StepOutcome` of the last step |

A call is a record of tool name, arguments and call_id. Arguments take an
absent value and an ill-typed one besides proper ones; that is all that schema
validation can tell apart. `Request` is what `request_sha256` covers. A policy
may issue every call of `Calls` at every step. Left out: latencies, messages,
the numbers of the reward other than in hundredths, the copy of the state that
`execute()` works on (nothing runs between its assignments).

The assumptions say what both generators guarantee and the code relies on:
`TaskAssumption` (shapes, no optional arguments), `SchemaMatchesNode` (a
schema declares the side effect its nodes record, and asks for an idempotency
key only where a node carries a safety token) and `CallAssumption`. TLC
evaluates them on each task.

### Grounding

`MaskVerdict` transcribes `ActionMask.validate` in its order. `Menu` is
`build_candidate_actions`; where the code draws one schema from several with a
hash-seeded choice, the model's menu holds the call of every possible draw, so
what holds of all of `Menu` holds whatever the hash. The order of the menu is
left out. `PublicSchemas`, `PublicMirrorsTask` and `CandidateKeysAreOwn` say what
the public half of a generated task tells of its hidden half: a mutating, allowed
schema names the one node that carries its tool, repeats its predecessors, and asks
for approval where the node does; approval is granted by a predecessor; keys are one
per operation. `ArgumentsAreProper` says that no proper argument looks absent or
ill-typed, `Acyclic` that the DAG is one, and `WorkRemains` that an episode cannot be
over while operations are left: whoever writes a goal field writes what the goal asks
for (v1.3, where all operations are needed), or there are more operations than steps
(v1.4, whose budget is that of one lane). `OneWay` of `Demonstration` adds what the
plans are: in v1.3 all operations, within the budget (`WholeWorkflow`); in v1.4 the one
lane whose final operation writes this task's goal, where each final operation writes
all that goals are about and its lane takes the whole budget (`OneLane`).
`KeepsContracts` of `GeneratedTasks` joins
them; TLC evaluates it for both generators, every topology and every length from 6 to
15, and `Acyclic` for each task that is played (`PlansLeaveChoices` asks the like of the
plans of every length). The proofs assume them.

### Demonstration, Benchmark, GeneratedTasks

`Task13` is `_build_task`, `Task14` is `_build_group` for one goal: positions and
predecessors are those of the code (`Predecessors13`, `Prefix14`, `Lane14`),
hashed identifiers are the strings of what is hashed. The code keeps a few of the
legal orders, as hashes sort them, for oracle plans; here any legal order may be
one (`Upcoming`). Business fields that only mark an operation as done are left out;
nothing reads them.

| TLA+ | code |
|---|---|
| `ReplayPlan` | `replay_oracle`, `_replay_prefix`, the demonstration collectors |
| `FollowPositive`, `Stray` | `_run_fixed_continuation`; the chance of an error is a choice, and the error branch is absorbing as in the code |
| `AgentPlays` | `run_episode` under any policy, masked or not |
| `BaselinePlays` | R1 in `_case_trace` and `_run_public_baseline` |
| `Selectable`, `Advances`, `ReviewerShortcut` | what R0, R2, R3, R5, R6 and R4 choose from; wording and ties decide among them |
| `Challenge` | `_hidden_ledger_collision`, applied to the state itself instead of a copy; it ends the behaviour |
| `Optimal`, `Positive`, `ErrorPool` | `optimal_candidate_indices`, `_continuation_positive_indices`, `error_pool` |

`GeneratedTasks` picks a task in `Init` and instantiates `Demonstration` with it,
so the assumptions of `WorkflowEnv` become part of an invariant
(`MaskIsRight`: the generators keep the contract).

### Suites, Sampling, Dataset

`Walk` follows any one plan and counts the states with a choice, as
`validate_counterfactual_groups` does; `BuildFamily` and `Gate` build a split of
any size and refuse it if its plans might leave too few choices (`LeastChoices`,
which `PlansLeaveChoices` justifies); `SelectProgress` is the frozen contract of 90
strata or 100 groups. `Sampling` has `_balanced_progress_tasks` (without
replacement), `stratified_task_schedule` (with) and the cycle of kinds through
`generate_action_validity_dataset`, Python's rounding to even included. `Dataset`
is the union of the parts: they hand over finished lists and share no state while
they run.

### Publication

A file's content is its generation (seed and sizes determine every byte) and the
hashes it records of others, which are their contents. `Program` lists the writes
and checks of each publisher; each write is `WriteTemporary`, `Replace`, `Sync`, as in
`_write_bytes_atomic`, and may fail before or after the replacement. A publisher
starts over an older directory, whole or not. Two may overlap only for the same
generation: of different ones nothing in the code or its documents promises
anything. There is no power loss here; the fsyncs exist for it and their order is
the order of the actions.

### TraceStore

A file is a sequence of complete lines and, in `torn`, possibly the beginning
of one more. All lines have length one, so the byte offset `_valid_end` is a
number of lines and always falls between two. With lines of different lengths
the truncation of finding 1 may also leave the offset inside a line; the model
shows the milder case. The points between which something else may happen are the values of `pc`:

    down -> opening -> opened -> locked -> synced -> idle                 (__init__)
    idle -> opening -> opened -> locked -> synced -> writing -> flushing -> written -> idle
                                                                           (append)

The path check in the code runs after locking, after synchronizing and after
writing: `FindReplaced` is its failure, and a failure releases everything and
starts another round, `_MAX_PATH_RETRIES` at most (2 here; the code has 8, and
what matters is "the last round" and "not the last"). Outside events: `Replace`
(`os.replace` of the path), `Truncate`, `Crash` (the kernel drops the lock),
`FailWrite`, `FailSync`. The thread lock is left out: one caller per process.
`use` fixes for a behaviour whether processes overlap and which of these may happen.

### EvaluationRun

`Start ... Verify` are `ResumeGuard.authorize` with `verify`, one action for
each file-system call; `Open ... Finish` are `evaluate_policy` and the check of
exact case ids behind it. A power loss ends all runs and may take a directory
entry that no directory fsync has covered (`guardDurable`, `traceDurable`);
contents are synced by the code before the entry is made. Evaluation is
deterministic, so evidence is a function of case and inputs.

### Experiment

The variables up to `manifest` are the files under the run id's directory, the
rest is the memory of the one process. `pc` names the write that is next:

    down -> snapshot -> [copying ->] action-validity -> case-ids -> shared
    then for each variant: variant -> [training ->] guard -> evaluate -> recompute
    then claim -> manifest -> done

`Crash` is possible at each of them, `Start` after it or after an end, with
`require_canonical_claim` or without (the claim mode is not part of the run
id). What makes a run canonical is stated in three places, and `protocol` says
how the run at hand compares with the pre-registered one in all of them:
`MayClaim` (`_assert_canonical_claim_inputs`, before training), `GateIsCanonical`
(`verify_canonical_claims`, in the report) and `ClaimVerifies`. The first does not
look at the confidence level, which the other two want to be 95 %: a canonical
run configured otherwise is trained and evaluated in full, and then refused.
`FinishedRunVerifies` says that this is the only way to finish and be refused.
`Verifies` is `verify_experiment_manifest`: what it compares, with
`EntryVerifies` for one run, `RunsVerify` for all and `ClaimVerifies` for the
claim evidence.

Abstractions: one seed (seeds share only the benchmark and the two last files).
Weights are the sequence of trainings they went through, and a training may come
out differently each time (`Draws`): the seed fixes it only on one runtime, and
the run id does not fix the runtime. So a retraining that the code should avoid
is visible. A hash is the content; metrics and their recomputation are the trace
they come from; the claim's report is the traces it was computed from and whether
it is canonical; its interval and hypothesis are numbers. Replaying a
trace and re-deciding it with the checkpoint (`_replay_trace`,
`_verify_checkpoint_policy_trace`) is `PolicyTrace`, the comparison with `Evidence`. Every file
but the copied benchmark is replaced atomically (`evaluation/io.py`,
`save_checkpoint`), hence one step; torn trace lines are `TraceStore`'s subject
and the guard's own steps `EvaluationRun`'s. Two processes never overlap here:
nothing locks the directory, and no document promises that they may. The errors
raised between training and `save_checkpoint` (a PPO variant without an update, a BC
copy that moved) find nothing on disk: to the directory they are a `Crash`, and
`Training` has them as `PayloadRefused`.

### Rollout

`Add`, `AddTrajectory`, `Clear` and `Collect` (through `Extended`) are the
methods of `RolloutBuffer`; a refused record leaves the buffer as the code
leaves it. What `Collect` extends by is a finished episode under a fresh id, of
which nothing is refused (`CollectedIsNeverRefused`); an `extend()` that ends at a
refused record is reached as a sequence of `Add`s. `EpisodeStep` is one round of `run_episode` as far as rewards go: the
environment may end the episode at any step, in success or not, and critic and
estimator may answer anything. `Advantages` is the backward loop of
`compute_gae` over `Rows`, `GaeOf` the definition it is compared with, which
knows trajectories and no rows. `SequenceBatch` and `Validates` are
`as_sequence_ppo_batch` and `SequencePPOBatch.validate`. Numbers are integer
multiples of 1/64, gamma and lambda are 1/2 (lambda 1 in `CreditsAgree`), so
every division is exact: what floating point rounds is left out, and so are
features, masks and log-probabilities. `EvaluateEpisodes` keeps of
`_evaluate_episodes` which rows it gathers for which episode.

### Training, Learning

A model's weights are the number of optimizer steps behind them, or `NaN` once a
non-finite gradient has been applied; whether a gradient is finite is a choice at
every minibatch. `Update` is the body of all four loops (`bc.py`, `ppo.py`,
`sequence_ppo.py`, `progress_estimator.py`): any minibatch of rows not yet seen in
this epoch, and the check of the gradient where there is one (`GradientChecked`: not
in `ProgressEstimator.fit`, whose metrics raise instead, in
`EstimatorIsTrained`). `Collect`, `StartUpdate`, `NextIteration`, `Save` are
`train_ppo_variant` and what `run_experiment_matrix` does with its result.
`Collect`'s guard on `NaN` weights stands for the finiteness checks of the step
records; the `rollouts` part of `NothingNonFiniteLeaves` therefore holds by that
guard, and the property is about the shared models and the payloads.
Early stopping by `target_kl` is left out, as `train_ppo_variant` never sets it.
The rows of a buffer are a set of pairs of episode and step (`Rows`) and a payload's
`updates` counts a set of pairs of `update()` and optimizer step (`OptimizerSteps`),
so that both can be reasoned about without recursion; `Sampling` counts tasks and draws
in the same way (`Counted`). `Learning` is the union of `Rollout` and `Training`, which share no state: one looks into
the rows that the other counts.

## 3. What is checked

| run | instance | properties | shows |
|---|---|---|---|
| `registry` | 4 operations, two guarded and not ordered after the approval, one not idempotent; a ledger that already binds a key; budget 5; 159 calls | `TypeOK`, `HistoryAgrees`, `ExactlyOnceInOrder`, `CallIdNamesOneRequest`, `ApprovalPrecedesGuarded`, `IdempotencyKeyOnce`, `ImplementsEpisode` | whatever is called, in any order and number, commits are exactly-once, ordered, approved, audited, and paid by one key each; each step is a step of the abstract episode |
| `generated` | v1.3 tasks of length 6 of all four topologies; v1.4 worlds of length 6 of two topologies, with two lanes of 7 operations | `MaskIsRight`, `MenuIsComplete`, `ExpertStates`, `WonExactlyOnPath`, `OneGoalPerTrajectory`, `PublicRulesAdvance`, `EpisodeEnds` | mask and registry agree on every menu, and elsewhere differ only by what the mask cannot see; imitation always finds its positive; a shortest path is what wins, and in v1.4 one goal at most; R1 solves every v1.3 task and no rule ever wastes a step; every episode ends |
| `dataset` | plans of length 6 to 15; splits of 1 to 130, 250 and 500 groups; 3 strata of up to 3 tasks, up to 10 draws; 6 tasks of validity data | `PlansLeaveChoices`, `EverySizeIsUsable`, `EvenlyDrawn`, `EverySecondTaskChallenged` | what one stage makes is what the next one demands, for every size |
| `publication` | 2 publishers, 3 starts, 2 generations, 2 temporary names | `PassedIsComplete`, `FinishedIsPublished`, `TemporaryIsOwned` | a verdict that says passed stands over complete evidence, through kills, failures and reruns |
| `store_shared` | 2 processes, 3 records of 2 cases, 2 kills | `IndexIsBacked`, `InFlightIsProtected`, `ImplementsLog` | cooperating processes, killed at any step, implement the append-only log |
| `store_answers` | 3 records of 2 cases, the path replaced up to twice (also by a corrupt file); 2 processes at once, or one at a time with truncation, a failed write, a kill | `AnswersAreTrue` | each answer is true of the file that the path names when it is given |
| `store_truncated` | 2 processes, truncation | `AnswersAreTrue` **violated** | see findings |
| `store_failed_write` | 2 processes, one failed write | `StaysReadable` **violated** | see findings |
| `evaluation` | 2 runs of the same inputs, 1 of others, 2 tasks, a kill, a power loss | `DoneIsComplete`, `NeverConflicts`, `OneRunPerTrace`, `StartedRunEnds` | a trace never mixes evidence of different inputs; success means exactly one's own complete evidence; every started run ends |
| `evaluation_barrier` | the same without failures | `SafeToResume` **violated** | see findings |
| `experiment` | 3 variants, 2 cases, any number of kills and restarts, both claim modes, the pre-registered protocol and three that differ in one point, 2 outcomes of each training | `FinishedRunVerifies`, `NeverRefused`, `PublishedStaysTrue`, `EvidenceIsFinal` | no kill leaves artifacts a later run refuses; evidence once written is never replaced; a finished run leaves a bundle the verifier accepts (but for the confidence level of a canonical one), of variants that all started from the shared model |
| `learning` | 2 trajectories of users, 2 collected, up to 3 steps each, 4 rows together; 3 examples, minibatches of 2, 2 epochs, 2 iterations of 4 episodes, 3 variants | `TypeOK`, `CreditIsRight`, `SequenceIntact`, `EachUnitOncePerEpoch`, `OnPolicy`, `PayloadsAreSound`, `SharedModelsRest` | each step's advantage comes from its own trajectory alone; what is collected can always be trained on, each episode with its own steps; PPO learns from its own rollouts; nothing non-finite leaves a trainer |

Several of these are conjunctions of parts with names of their own:
`MaskIsRight` and `MenuIsComplete` of `MaskAgreesOnMenu`,
`MaskErrsOnlyOnHiddenState`, `MenuHasEveryStratum` and `WayForwardOffered` in
`Grounding`; `CreditIsRight` of `AdvantagesMatchDefinition`, `CreditsAgree` and
`ShapingTelescopes`, `SequenceIntact` of `SequenceReady` and `EpisodesKeepTheirSteps`
in `Rollout`; `PayloadsAreSound` of `NothingNonFiniteLeaves` and `PayloadsAddUp` in
`Training`.

Bounds, and why they are enough:

- `MaxSteps`: 5 on the registry's task leaves one step beside its 4 commits; a
  state reached after more wasted steps differs only in `stepsTaken`, which no guard
  but the budget reads. Generated tasks have the budgets of the code.
- Generated tasks: 6 is the shortest length the generators use, and holds every
  clause of the four topologies but the tails that repeat the last one; the walks of
  `dataset` go to 15, the longest. Two of the four goals of a group make two lanes
  and both kinds of final operation; the other two add lanes that no shortest path
  enters. v1.4 worlds are played with one topology of one root and one of two, the
  other two differ from them within a lane of three operations by one edge.
- Sizes: up to 130 groups each family gets 0 to 13, so every remainder and every
  tier of 0 to 5 occurs, and all the documented sizes.
- `Publication`: 3 starts let a job run over the directory of another, and a third
  repair it; two publishers take the same names in turn.
- Training: 3 rows and minibatches of 2 leave a short last minibatch; 4 episodes of 1 or
  2 steps, 5 steps at most, do so too for either kind of PPO.
- Calls: every argument takes each of its proper values, and each way of being
  wrong is tried for each kind of tool; versions run over all that can be
  current, and the stale and future ones. Two non-empty call ids are enough for
  reuse and for a second use that is not reuse.
- `Procs`: 2, so that every pair of steps can interleave; the lock makes a third
  process one more waiter. `MaxInodes` is the number of files the path may
  name: 3 lets every round of the retry loop, and the call after it, meet a new
  one. 2 kills let both processes be killed, or one twice.
- Files hold at most one record of each of two cases, so at most two lines.
- `Matrix`: a variant that is the shared model itself and two that change it, so
  that a second training follows a cached one and a cached one a training. Two
  draws are enough for "the same" and "another". Nothing is counted: kills and
  restarts are unbounded.
- `MaxAdded`: trajectories that are added as a whole have up to 2 records, any 2, so
  each reason to refuse a copy occurs; `TypeOK` is proved for any length.
- `MaxRows`: 4 rows hold trajectories of 3 and 1, 2 and 2, or 1, 1 and 2 steps, so
  each kind of boundary occurs, and 3 steps show the second power of gamma times
  lambda. Advantages and returns are affine in rewards and values, so two values
  of each tell apart what any would.
- `Runs`: two with the same inputs race to create the guard; the third is the
  one that must be kept out. One kill and one power loss at any step; runs start
  again any number of times.

Symmetry is used in `store_answers` (processes) and `learning` (names of
trajectories), where no liveness is checked. Deadlock is checked everywhere except
in `generated`, `dataset` and `publication`: an episode that is done, a finished
split and publishers that may not start again have no more steps.

Fairness. `GeneratedTasks` has weak fairness of `Next`: every player loops `while not
done: step()`, and any call, refused ones too, is a step, so nothing is assumed of
what it chooses; `Reset` is not part of it because no caller resets within the
loop. `FairSpec` of `EvaluationRun` has weak fairness of each run's
own steps: a process that was started keeps running. Starting, being killed
and losing power are never fair. The store has no liveness property: `flock`
makes no promise of fairness, and a path that is replaced for ever makes a call
give up after `_MAX_PATH_RETRIES`.

### Findings

1. **A truncation can go unnoticed** (`store_truncated`). `_synchronize`
   (`evaluation/trace_store.py:188`) recognises it by the size being below the
   cached offset. If the file is cut back and another process appends past the
   offset before the first one looks again, the stale index is kept, and
   `append()` of a record that the file no longer holds answers `False`
   ("already complete"). The comment at line 189 promises more.
2. **A failed write can make the file unreadable** (`store_failed_write`). When
   `write()` or `flush()` raises, the lock is released before the `with` block
   closes the handle, and closing flushes the rest of the buffer, unlocked,
   behind what another process has written meanwhile. The complete line that
   results is no record, and every later open raises `CorruptTraceStoreError`.
   It takes a second process: in `store_answers` the process that is alone has a
   failed write too, and is never told anything false.
3. **A run may be authorized before the guard is durable**
   (`evaluation_barrier`). `authorize()` starts with `if
   self.manifest_path.exists(): return self.verify(hashes)`, which skips the
   directory fsync that the comment at `evaluation/integrity.py:254-257` says a
   concurrent loser needs. `evaluation` shows that the evidence stays unmixed
   even so: a power loss that takes the guard takes, or has left behind, a
   trace, and `authorize()` refuses a trace without a guard.

## 4. What is proved

Eight modules hold proofs. Each proves an inductive invariant, from no more than the
assumptions that the component's module states of its constants and the hypotheses
of the theorem, and derives the properties from it. TLC checks the properties in the
component's run. No theorem bounds the number of processes, runs, variants, rows or
kills; where a module caps a counter, the theorem holds for every cap.

| theorem | property | for every |
|---|---|---|
| `Workflow_proofs` (environment) | | DAG, schemas, budget, calls |
| `TypeCorrect` | `TypeOK` | |
| `Invariance` | `IInv`, the inductive invariant | |
| `HistoryCorrect` | `HistoryAgrees` | |
| `ExactlyOnce` | `ExactlyOnceInOrder` | |
| `CallIdsUnique` | `CallIdNamesOneRequest` | |
| `ApprovalFirst` | `ApprovalPrecedesGuarded` | |
| `KeysPayOnce` | `IdempotencyKeyOnce` | |
| `ReplaysAreReal` | `ReplayNamesCommitted` | |
| `LedgerIsFinal` | `LedgerNeverRebinds` | |
| `EffectsAreAccounted` | `SideEffectsAreThoseOfCommits` | |
| `Refinement` | `ImplementsEpisode` | |
| `Workflow_proofs` (builder and mask) | | task whose public half mirrors its hidden half |
| `MaskErrsOnlyWhereBlind` | `MaskErrsOnlyOnHiddenState` | calls whatever |
| `MaskAgreesWithEnvironment` | `MaskAgreesOnMenu` | agent, masked or not |
| `WayForwardExists` | `WayForwardOffered` | agent, masked or not |
| `MenusAreComplete` | `MenuHasEveryStratum` | agent, masked or not; acyclic DAG, work that remains |
| `Workflow_proofs` (who plays) | | task that keeps the contracts, whatever its DAG and length; all players |
| `ExpertAlwaysShown` | `ExpertStates` | |
| `OnlyThePathWins` | `WonExactlyOnPath` | |
| `OneGoalAtMost` | `OneGoalPerTrajectory` | number of lanes and goals |
| `PublicRulesSolve` | `PublicRulesAdvance` | |
| `MenusServeEveryPlayer` | `MaskAgreesOnMenu`, `MenuHasEveryStratum`, `WayForwardOffered` | until a ledger is made to collide |
| `TraceStore_proofs` | | processes, records, files, retries, kills |
| `StoreInvariant` | the invariant | benign use |
| `LockExcludes` | two processes never hold the lock of one file | benign use |
| `WritesAreProtected` | `InFlightIsProtected` | benign use |
| `IndexesAreBacked` | `IndexIsBacked` | benign use, no truncation |
| `AnswersStayTrue` | `AnswersAreTrue` | benign use |
| `FilesStayReadable` | `StaysReadable` | benign use, readable imports |
| `StoreImplementsLog` | `ImplementsLog` | path left alone, no failed write |
| `EvaluationRun_proofs` | | runs, inputs, test tasks, kills, power losses |
| `EvaluationInvariant` | the invariant | |
| `OneRunPerTraceAlways` | `OneRunPerTrace` | |
| `AuthorizedRunsAgree` | `NeverConflicts` | |
| `DoneMeansComplete` | `DoneIsComplete` | |
| `Experiment_proofs` | | matrix, cases, outcomes of training, kills |
| `ExperimentInvariant` | the invariant | |
| `AlwaysResumable` | `NeverRefused` | |
| `EvidenceStays` | `EvidenceIsFinal` | |
| `ManifestStaysTrue` | `PublishedStaysTrue` | |
| `FinishedRunsVerify` | `FinishedRunVerifies` | |
| `Publication_proofs` | | publishers, generations, names, starts |
| `PublicationInvariant` | the invariant | |
| `TemporariesAreOwned` | `TemporaryIsOwned` | |
| `PassedMeansComplete` | `PassedIsComplete` | |
| `EndMeansPublished` | `FinishedIsPublished` | |
| `Training_proofs`, `Learning_proofs` | | matrix, sizes, epochs, iterations |
| `SeedInvariant` | the invariant | |
| `PayloadsSound` | `NothingNonFiniteLeaves`, `PayloadsAddUp` | |
| `EpochsAreComplete` | `EachUnitOncePerEpoch` | |
| `AlwaysOnPolicy` | `OnPolicy` | |
| `SharedModelsKept` | `SharedModelsRest` | |
| `PayloadsStaySound` | `PayloadsAreSound` | |
| `TrajectoriesAreWellFormed` | `TypeOK` of `Rollout` | trajectories, lengths, numbers |
| `CollectedIsNeverRefused` | `CollectedIsAccepted`, a part of `SequenceIntact` | the same |
| `EpisodesReachSequencePPO` | `SequenceIntact` | the same, and orders of drawing episodes |
| `NothingEarnedByShaping` | `ShapingTelescopes`, a part of `CreditIsRight` | the same |
| `CreditIsAlwaysRight` | `CreditIsRight` | the same |
| `Dataset_proofs` | | strata, stocks, draws, plans, tasks |
| `RoundsAreFair` | `EvenlyDrawn` | |
| `EverySecondChallenged` | `EverySecondTaskChallenged` | five states of two negatives each, plans of length 5 or more |

### The environment

`validate()` decides from several pieces of state that
`execute()` wrote separately, so no property is inductive alone. `IInv` joins:

- `TypeOK`, and `BudgetLeft`: an episode that is not done has steps left. It is
  what keeps `stepsTaken` within the budget and what the refinement needs of
  `remaining`.
- `HistoryAgrees`: entry *i* of the audit log is the commit of `completed[i]`.
  The replay check reads the audit log, the completion check `completed_nodes`;
  that they speak of the same operations is what makes a replay real.
- `ApprovalHasSource`: the approval token in the state is the initial one or the
  effect of a committed node. `validate()` looks only at the state; the property
  speaks of history.
- `LedgerHolds`: a key that an audit entry carries is bound in the ledger to
  that entry's operation. With it, the collision check excludes that a key is
  used by two operations, and `ExactlyOnceInOrder` that it is used twice by one.
- the properties themselves (`HistoryInv`).

`CommitFacts` and `CommitKey` collect what `validate()` guarantees when it lets
a first-time mutation through; each preservation step uses them and never the
body of `validate()`. `SchemaMatchesNode` is used exactly once, for keys: a tool
that asks for a key guards a node with a token, hence the collision check ran.
`ReplayNamesCommitted`, `LedgerNeverRebinds` and `SideEffectsAreThoseOfCommits` are proved
without a run of their own; the runs of the earlier theorems check the state they speak
of. The last counts entries by the cardinality of sets of indices, so one commit adds one
index to both sides (`CountsOneMore`, `CommitRecordsEffect`).

### The mask

`OneCall` follows one call through both rule sets, side by side, in any state that
satisfies `IInv` and `ApprovalStands`, and finds that they part in two places only:
a `call_id` that was spent and a key that is another operation's. Two facts make the rest
agree. The registry compares the token with the hidden node, the mask with the visible
state: by `ApprovalStands` an approval that a committed operation granted still stands, and a
guarded operation whose predecessors are complete has such a one. And the registry looks
for an exact replay before it looks at `completed_nodes`, the mask not at all: by
`HistoryAgrees` a replay repeats a completed operation. The second theorem adds, for
`AgentSpec` (only candidates are called), that used call_ids carry past versions
(`IdsArePast`) and that the builder's keys are free for their operations
(`LedgerIsOwn`), so that on menus nothing is hidden. Its hypothesis `[](Menu
\subseteq Calls)` only says that `Calls`, the calls that the environment's types
range over, includes those an agent makes.

`MenusAreComplete` needs that some operation is ready. `EpisodeInv` keeps the budget and
the goal in step with the operations done: a goal field, once written, stands
(`GoalStands`), and a step that commits nothing is paid for (`EpisodeIsBooked`). So with
`WorkRemains` an episode that goes on has operations left (`SomethingIsLeft`), and `Acyclic`
gives one of them whose predecessors are done. That every DAG without a cycle has such a
one in each subset is what `Acyclic` says, instead of an induction.

### Who plays a task

The theorems assume `GeneratedTask`, the contracts above, and that `Calls` includes
what is called: the menus and the next calls of the plan (`ProperCalls`). `PlayInv` has
three parts. `PlayersKeepRoles` says who may have strayed, and from which step on.
`Sound` is the environment's state under calls that carry their operation's own key:
`IInv`, the approvals, the keys and call ids of menus, the books of the episode, and that
the goal fields hold their first values or what one final operation wrote
(`FinalStands`). `PathIsBooked` keeps the books of the path: on it, each step did one
operation of the plan; off it, fewer of them are done than steps were taken, and a v1.3
continuation leaves one undone for good. The argument:

- A positive candidate is committed and does one of the plan's operations
  (`PositiveCommits`); a commit of one of them is a positive (`CommitIsPositive`), so
  any other step does none. No step does two: who is behind stays behind.
- A goal needs a final operation and with it the whole lane (`LaneIsCommitted`,
  committed operations being closed under predecessors), which takes the whole budget
  (`GoalTakesBudget`). So in v1.4 one step astray is one too many, and two goals would be
  the same function on the same fields.
- The plan, once done, wins (`PlanWins`), and nothing less does (`SuccessNeedsPlan`); an
  episode on the path cannot run out of budget before (`PathIsWon`).
- A plan that is not done has an operation that comes next (`SomethingIsUpcoming`), the
  menu offers it as the plan has it (`UpcomingIsOffered`), and what the rules select
  from unfinished work is committed (`RulesCommit`).

With the ledger tampered with, `Sound` ends, and so does the play of the dataset.

### The store

`Benign` excludes what findings 1 and 2 show to break the store: truncation and failed
writes next to another process; a process that is alone may meet both. The invariant gives each
process, by its `pc`, what it knows: from the path check after locking on, its file is
locked by it alone; from `_synchronize` on, its index is the whole file, which has no
torn tail but its own; everyone else's index is that of a prefix, which appending keeps. `Next`
changes one process and one file at a time, so each action has a step of its own and
the other processes are covered by one frame lemma. The refinement adds that
files read back (`AllClean`) and that there is one file (`OneFile`): a full refresh, an
incremental one and a repair of a torn tail are stutters, and the flush of a complete
line is the log's append.

### Evaluation, matrix, publication

- *Evaluation*: a run that was authorized goes on only while the guard names its
  inputs. Nobody overwrites a guard, and what a power loss takes leaves nobody running. Evidence
  without a guard can remain; then nobody gets past the probe. So the trace holds evidence of the
  guard's inputs alone, case by case in the order of the tasks.
- *Matrix*: a variant's files come into being in one order (checkpoint, record, guard,
  trace, metrics, recomputation), each determined by those before it, and none is
  replaced by another; `Disk` says so of each variant whatever the process does, the other
  parts what the process has in memory at each `pc`. Hence whatever a run finds it would have
  left there itself, and what a manifest names has settled.
- *Publication*: publishers that run at a time publish one generation, so a file put in
  place is whole and every other publisher replaces it by the same. An old verdict is gone
  before the first of its files is replaced, and a new one is written after a check
  of all of them.

### Training

The invariant says, phase by phase, whose weights are where: shared models rest while
a variant is trained; the variant's weights are the behaviour model's and one step more
for each optimizer step counted; rollouts carry the weights that the iteration's update set
out from. `UsesCounted` says that a row has been used once per finished epoch, and once
more unless it is still to come; with `NoMinibatchLeft` (only an empty rest has no
minibatch, which is where a short last slice matters) an epoch ends with no row unused. Sums are
cardinalities here, so that the library's theorems about finite sets replace
an induction. `Learning_proofs` carries the theorems over to the composition, whose
steps either are those of `Training` or leave it alone.

### Rollouts and samples

- *Buffer*: `RolloutInv` says that the buffer's trajectories are well formed under
  ids of their own, and that what the collector made is closed by a terminal step, the
  only one that pays the task reward. `append()` checks a record against the last one
  alone; `NextStep` shows that for a well-formed trajectory this is a check against its
  length, and `AppendKeepsForm` that the form is kept. `add_trajectory()` copies a
  trajectory record by record: if all are accepted, every prefix is well formed
  (`CopiedIsWellFormed`), an induction over the length. The library's induction theorems
  cannot be instantiated by the provers, but a set of naturals that is not all of them
  has a least stranger, by the theorem on minimal elements of well-founded relations:
  `Least` and `SetInduction` are induction stated for sets. `extend()` by a collected
  episode takes all of it (`WellFormedIsAccepted`), hence `CollectedIsNeverRefused`.
- *Rows and batches*: the buffer's lengths are summed by a fold, so the sums of prefixes
  are first shown to be what they should be by `SetInduction`; then the rows are those of
  the first trajectory, the second and so on, each in its order. An episode's first and
  last row bracket its own steps, and whatever order episodes are drawn in, what is
  gathered for one are these rows. A batch made of complete trajectories passes
  `Validates`: its episodes are contiguous and end in one terminal step.
- *Shaping*: `ShapingInv` says of the steps so far that their discounted shaping adds up to
  the discounted potential of the state reached minus that of the first, and of a terminal
  state the potential is 0. Numbers are multiples of a power of two large enough for
  `MaxLength` halvings, so each division on the way is exact.
- *Credit*: that the backward recursion over rows has a value at all is the point where
  induction over data was needed: the closed form (`Worth`, the sum over the rest of the
  row's own trajectory) satisfies the recursion's equation, so some function does, and any
  two that do agree from the last row backwards. A terminal flag or the next
  row's other trajectory cuts the sum, so no row hears of another trajectory. With lambda 1 the errors of an
  episode telescope (`ErrorsTelescope`), and both kinds of PPO credit it alike.
- *Rounds*: `InRound(n)` says that within a round every stratum has been served *n* times,
  once more if it is no longer waiting, or has run out. If none has stock, what was drawn
  is the stock itself, and the limit is reached.
- *Negatives*: a task takes ten turns, two more than twice the four kinds; so after an
  even number of tasks the kinds are level and the cursor is at the first, after an odd one
  the first two are one ahead and the cursor is at the third (`TurnsOfEven`, `TurnsOfOdd`).
  The ninth and the tenth turn are the only ones at the last operation, as rounded
  positions ascend (`QuartersAscend`), and the tenth is a safety negative's in every
  second task.

### Only model-checked

- `StartedRunEnds` and `EpisodeEnds`: liveness under fairness, and `ENABLED`, which the proof
  system does not handle. The three runs that end in a violation show what the code
  does not promise.
- `PlansLeaveChoices` and `EverySizeIsUsable`: particular data that recursive functions
  compute, and the least number of choices over all orders of a plan. The lengths that TLC
  walks are all that the generators use.
- That the generators keep the contracts: `generated` checks it of every task they make,
  as an assumption and in `MaskIsRight`. The theorems are about one task that keeps them;
  that `GeneratedTasks` instantiates them with such tasks is not composed by proof (the
  proof system cannot cite a theorem of an instance that has a parameter), nor is it
  proved that `MaskErrsOnlyOnHiddenState` and the account of side effects survive the
  ledger's tampering, which `MaskIsRight` and `PublicRulesAdvance` check too.

## 5. Not modelled

- Numbers: networks, losses, gradients, features, metrics, bootstrap statistics and
  the hypothesis the claim gate tests with them.
- Wording: goals and descriptions, and so what the text-matching baselines R3 to R5
  pick among the candidates they may pick, and their success rates below 80 %.
- Hashing and canonical JSON: a hash is the thing it is a hash of; equality is
  all the code asks of it.
- The thread lock of the store (one caller per process here), Windows fallbacks.
- Data-only contracts, parsing, CLI wiring, release scripts, reports.
- Part of an `os.link`-less file system's error path in `authorize()`: it raises.

## 6. Plan

Done, in this order: `WorkflowEnv` with its abstract episode and proofs,
`Grounding`, `TraceStore` with its abstract log, `EvaluationRun`, `Experiment`,
`Rollout`, `Benchmark` with `Demonstration` on its tasks, `Suites` and `Sampling`,
`Publication`, `Training`.

Then the proofs: `WorkflowEnv`, `TraceStore`, `EvaluationRun`, `Experiment`,
`Publication`, `Training`, `Grounding` with its menus, the samplers of `Dataset`, the
buffer of `Rollout` with its batches and credit, `Demonstration` on every task that keeps
the contracts.

Next: `PlansLeaveChoices` for plans of any length, topology by topology, and `KeepsContracts`
itself from the generators' recursive definitions.
