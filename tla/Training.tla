------------------------------ MODULE Training ------------------------------
(***************************************************************************)
(* One seed of training (training.py, algorithms/, models/): the behaviour *)
(* model and the progress estimator are fitted first, then each variant of *)
(* the matrix copies the behaviour model and improves its copy, iteration  *)
(* by iteration, with the rollouts that the copy itself has made.          *)
(*                                                                         *)
(* A model's weights are the number of optimizer steps behind them, or NaN *)
(* once a non-finite gradient has been applied.  Losses, learning rates    *)
(* and metrics other than the counts are left out.  So is target_kl, which *)
(* train_ppo_variant never sets.  A trainer's unit is a step, and for      *)
(* sequence PPO an episode.                                                *)
(***************************************************************************)
EXTENDS TrainingConfig, FiniteSets, SequencesExt, FiniteSetsExt

CONSTANTS
    MaxSteps,    \* bound on the steps of one iteration's rollouts
    None

VARIABLES
    pc,         \* "collect", "update", "raised" or "done"
    trainer,    \* who is at work: "bc", "progress" or an entry of Matrix
    weights,    \* of the three models in memory
    epoch, unseen, used,         \* update(): rows left in this epoch, their uses
    iteration,                   \* of train_ppo_variant
    rollouts,   \* the episodes collected in this iteration
    updates,    \* iteration_metrics: optimizer steps of each update() so far
    rolloutSteps,
    saved       \* the training payloads of the variants that are done

loop == <<epoch, unseen, used>>
counts == <<updates, rolloutSteps>>
vars == <<pc, trainer, weights, loop, iteration, rollouts, counts, saved>>

\* The rows of the buffer: the steps of all rollouts of this iteration.
Rows(episodes) ==
    UNION {{i} \X (1..episodes[i].steps) : i \in DOMAIN episodes}

Steps(episodes) == Cardinality(Rows(episodes))

\* What update() draws its permutations of.
Units(t, episodes) ==
    CASE t = "action"   -> Rows(episodes)
      [] t = "sequence" -> DOMAIN episodes
      [] OTHER          -> 1..Examples

Fresh(t, episodes) ==
    /\ epoch' = 1
    /\ unseen' = Units(t, episodes)
    /\ used' = [u \in Units(t, episodes) |-> 0]

\* The local variables of train_ppo_variant.
Reset ==
    rollouts' = <<>> /\ iteration' = 0 /\ updates' = <<>> /\ rolloutSteps' = 0

Init ==
    /\ pc = "update" /\ trainer = "bc"
    /\ weights = [bc |-> 0, progress |-> 0, variant |-> None]
    /\ epoch = 1 /\ unseen = Units("bc", <<>>)
    /\ used = [u \in Units("bc", <<>>) |-> 0]
    /\ rollouts = <<>> /\ iteration = 0 /\ updates = <<>> /\ rolloutSteps = 0
    /\ saved = <<>>

-----------------------------------------------------------------------------
(* Updates *)

\* Mutant: copy.copy(bc_model), whose parameters are bc_model's.
ShallowCopy == "bc"

\* The model that a variant's trainer and its rollouts hold: a deep copy.
Own == "variant"

Trained(t) == IF t \in {"bc", "progress"} THEN t ELSE Own

\* Mutant: sequence PPO alone looks at its gradient.
SequenceChecked(t) == t \in {"bc", "sequence"}

\* The trainers that raise before they apply a non-finite gradient.
GradientChecked(t) == t # "progress"

\* Mutant: an incomplete last batch is dropped.
FullBatches(rest) == {b \in SUBSET rest : Cardinality(b) = BatchSize}

\* The next slice of a random permutation, the last one possibly shorter.
Minibatches(rest) ==
    {b \in SUBSET rest :
       b # {} /\ Cardinality(b) = Min({BatchSize, Cardinality(rest)})}

\* One minibatch: forward, backward, the check of the gradient, the step.
Update ==
    /\ pc = "update"
    /\ \E batch \in Minibatches(unseen), finite \in BOOLEAN :
         LET m == Trained(trainer)
             old == weights[m]
         IN
         /\ finite => old # NaN
         /\ IF GradientChecked(trainer) /\ ~finite
            THEN pc' = "raised" /\ UNCHANGED <<weights, loop, updates>>
            ELSE /\ weights' = [weights EXCEPT ![m] =
                                  IF finite THEN old + 1 ELSE NaN]
                 /\ unseen' = unseen \ batch
                 /\ used' = [u \in DOMAIN used |->
                               used[u] + IF u \in batch THEN 1 ELSE 0]
                 /\ updates' = IF updates = <<>> THEN <<>>
                               ELSE [updates EXCEPT ![Len(updates)] = @ + 1]
                 /\ UNCHANGED <<pc, epoch>>
    /\ UNCHANGED <<trainer, iteration, rollouts, rolloutSteps, saved>>

EpochIsOver == pc = "update" /\ Minibatches(unseen) = {}

NextEpoch ==
    /\ EpochIsOver
    /\ epoch < Epochs
    /\ epoch' = epoch + 1
    /\ unseen' = DOMAIN used
    /\ UNCHANGED <<pc, trainer, weights, used, iteration, rollouts, counts, saved>>

UpdateIsOver == EpochIsOver /\ epoch = Epochs

-----------------------------------------------------------------------------
(* The phases of a seed *)

BehaviorIsTrained ==
    /\ UpdateIsOver
    /\ trainer = "bc"
    /\ trainer' = "progress"
    /\ Fresh("progress", <<>>)
    /\ UNCHANGED <<pc, weights, iteration, rollouts, counts, saved>>

\* A variant begins: it copies bc_model, and a PPO variant's trainer gets the
\* copy and collects.
Begin(v, done) ==
    /\ pc' = IF v > Len(Matrix) THEN "done" ELSE "collect"
    /\ trainer' = IF v > Len(Matrix) THEN None ELSE Matrix[v]
    /\ weights' = [weights EXCEPT !.variant =
                     IF v > Len(Matrix) THEN None ELSE weights.bc]
    /\ Reset /\ saved' = done

\* fit() ends with metrics, which raise if the probabilities are not finite.
EstimatorIsTrained ==
    /\ UpdateIsOver
    /\ trainer = "progress"
    /\ IF weights.progress = NaN
       THEN pc' = "raised"
            /\ UNCHANGED <<trainer, weights, iteration, rollouts, counts, saved>>
       ELSE Begin(1, <<>>)
    /\ UNCHANGED loop

\* Mutant: the behaviour model goes on making the rollouts.
BehaviorCollects == "bc"

\* Whose episodes collect_online_rollouts runs.
Collector == Own

\* One entry of stratified_task_schedule (Sampling) and the episode it leads to.
\* With NaN weights the records' own checks of finiteness stop the run: the guard.
Collect ==
    /\ pc = "collect" /\ trainer # "copy"
    /\ Len(rollouts) < Episodes
    /\ weights[Collector] # NaN
    /\ \E steps \in 1..2 :
         /\ Steps(rollouts) + steps + (Episodes - Len(rollouts) - 1) <= MaxSteps
         /\ rollouts' = Append(rollouts, [steps |-> steps, weights |-> weights[Collector]])
    /\ UNCHANGED <<pc, trainer, weights, loop, iteration, counts, saved>>

StartUpdate ==
    /\ pc = "collect" /\ trainer # "copy"
    /\ Len(rollouts) = Episodes
    /\ rolloutSteps' = rolloutSteps + Steps(rollouts)
    /\ pc' = "update"
    /\ Fresh(trainer, rollouts)
    /\ updates' = Append(updates, 0)
    /\ UNCHANGED <<trainer, weights, iteration, rollouts, saved>>

\* Mutant: the metrics of the last iteration stand for all.
LastUpdates(each) == IF each = <<>> THEN 0 ELSE Last(each)

\* The optimizer steps of all iterations, by iteration and number.
OptimizerSteps(each) == UNION {{i} \X (1..each[i]) : i \in DOMAIN each}

\* PPOMetrics.updates of a variant: the sum over its iterations.
SumUpdates(each) == Cardinality(OptimizerSteps(each))

NextIteration ==
    /\ UpdateIsOver
    /\ trainer \in {"action", "sequence"}
    /\ iteration + 1 < Iterations
    /\ iteration' = iteration + 1
    /\ pc' = "collect"
    /\ rollouts' = <<>>
    /\ UNCHANGED <<trainer, weights, loop, counts, saved>>

Payload ==
    [trainer |-> trainer, before |-> weights.bc, after |-> weights[Own],
     updates |-> SumUpdates(updates), steps |-> rolloutSteps]

\* run_experiment_matrix refuses drift without updates and updates without it.
PayloadRefused(p) == (p.trainer = "copy") # (p.after = p.before)

\* The variant's checkpoint and training.json; then the next variant.
Save ==
    /\ \/ pc = "collect" /\ trainer = "copy"
       \/ /\ UpdateIsOver /\ iteration + 1 = Iterations
          /\ trainer \in {"action", "sequence"}
    /\ ~PayloadRefused(Payload)
    /\ Begin(Len(saved) + 2, Append(saved, Payload))
    /\ UNCHANGED loop

\* The next seed, or a new process after an error.
NextSeed ==
    /\ pc \in {"done", "raised"}
    /\ pc' = "update" /\ trainer' = "bc"
    /\ weights' = [bc |-> 0, progress |-> 0, variant |-> None]
    /\ Fresh("bc", <<>>)
    /\ Reset /\ saved' = <<>>

Next ==
    \/ Update \/ NextEpoch
    \/ BehaviorIsTrained \/ EstimatorIsTrained
    \/ Collect \/ StartUpdate \/ NextIteration \/ Save
    \/ NextSeed

Spec == Init /\ [][Next]_vars

-----------------------------------------------------------------------------
(* Properties *)

\* An epoch shows every unit to the model exactly once, the rest that does not
\* fill a minibatch included, in each of the four update loops.
EachUnitOncePerEpoch ==
    EpochIsOver => \A u \in DOMAIN used : used[u] = epoch

\* PPO's ratios compare a model with itself: what an update learns from was
\* collected by the very weights that the update set out from, in the second
\* iteration as in the first.
OnPolicy ==
    pc = "update" /\ trainer \in {"action", "sequence"} =>
      \A i \in DOMAIN rollouts : weights[Own] = rollouts[i].weights + Last(updates)

\* All variants of a seed start from one behaviour model and are shaped by one
\* estimator: no variant's training changes either of them.
SharedModelsRest ==
    [][(pc \in {"collect", "update"} /\ trainer \notin {"bc", "progress"}) =>
         \A m \in {"bc", "progress"} : weights'[m] = weights[m]]_vars

\* No poisoned weights go anywhere: neither into a rollout, nor into a variant,
\* nor into a payload, although fit() itself never looks at its gradients. (For
\* rollouts it is Collect's guard that says so.)
NothingNonFiniteLeaves ==
    /\ trainer # "bc" => weights.bc # NaN
    /\ trainer \notin {"bc", "progress"} => weights.progress # NaN
    /\ \A i \in DOMAIN rollouts : rollouts[i].weights # NaN
    /\ \A i \in DOMAIN saved : saved[i].after # NaN

\* A payload accounts for its weights: they are the shared model's and as many
\* optimizer steps as it reports, over all iterations.
PayloadsAddUp ==
    \A i \in DOMAIN saved :
      /\ saved[i].before = weights.bc
      /\ saved[i].after = saved[i].before + saved[i].updates
      /\ saved[i].trainer = Matrix[i]

=============================================================================
