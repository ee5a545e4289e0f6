------------------------------ MODULE Rollout ------------------------------
(***************************************************************************)
(* What training learns from: run_episode's rewards (training.py), the     *)
(* buffer that keeps steps by trajectory (rollout/), generalised advantage *)
(* estimation over the flattened buffer (algorithms/gae.py), and the       *)
(* episode-shaped batch of sequence PPO.                                   *)
(*                                                                         *)
(* Users of the buffer add single records of several trajectories in any   *)
(* order, right or wrong, or whole trajectories; the collector runs an     *)
(* episode to its end and extends the buffer by it.                        *)
(*                                                                         *)
(* Numbers are integers, multiples of 1/Unit: gamma is 1/2, lambda 1/2 or  *)
(* 1, beta 1, and Unit is so large that every division below is exact.     *)
(* Candidates, features and log-probabilities are left out.                *)
(***************************************************************************)
EXTENDS Integers, Sequences, FiniteSets, SequencesExt, FiniteSetsExt

CONSTANTS
    UserIds,      \* trajectories added record by record, or as a whole
    EpisodeIds,   \* trajectories that the collector makes
    Unit,
    Potentials,   \* what the progress estimator may answer
    Values,       \* what the critic may answer
    Costs,        \* step_cost with or without the penalties of a bad step
    TaskSuccess, TaskFailure,
    MaxLength,    \* bound on an episode
    MaxAdded,     \* bound on a trajectory that is added as a whole
    MaxRows,      \* bound on the buffer
    None

ASSUME UnitAssumption ==
    /\ MaxLength \in Nat \ {0} /\ MaxAdded \in Nat
    /\ Unit \in Nat \ {0} /\ Unit % 2^(2 * MaxLength) = 0
    /\ \A x \in Potentials \cup Values \cup Costs \cup {TaskSuccess, TaskFailure} :
         x \in Int /\ x % Unit = 0

ASSUME IdAssumption == UserIds \cap EpisodeIds = {}

VARIABLES
    buffer,    \* RolloutBuffer._trajectories, in insertion order
    running    \* the episode that run_episode is in: its records and phi

vars == <<buffer, running>>

\* gamma^k * x
Discounted(x, k) == x \div 2^k

-----------------------------------------------------------------------------
(* RolloutBuffer and Trajectory *)

\* A user's record either carries a task reward or does not.
Records ==
    {[trajectory_id |-> id, step_index |-> n, value |-> Unit,
      task_reward |-> task, progress_reward |-> 0, reward |-> task + Unit,
      phi |-> 0, done |-> done] :
        id \in UserIds, n \in 0..(MaxLength - 1), task \in {0, TaskSuccess},
        done \in BOOLEAN}

UserSteps(id) == {r \in Records : r.trajectory_id = id}

Trajectories ==
    UNION {[trajectory_id: {id}, steps: BoundedSeq(UserSteps(id), MaxAdded)] : id \in UserIds}

\* Mutant: a terminal step no longer closes its trajectory.
AppendsAfterDone(trajectory, r) ==
    /\ r.trajectory_id = trajectory.trajectory_id
    /\ r.step_index = Len(trajectory.steps)

\* Trajectory.append
MayAppend(trajectory, r) ==
    LET steps == trajectory.steps IN
    /\ r.trajectory_id = trajectory.trajectory_id
    /\ steps # <<>> => ~Last(steps).done
    /\ r.step_index = IF steps = <<>> THEN 0 ELSE Last(steps).step_index + 1

Empty(id) == [trajectory_id |-> id, steps |-> <<>>]

\* Trajectory.append, which leaves the trajectory as it was when it raises.
Appended(trajectory, r) ==
    IF MayAppend(trajectory, r)
    THEN [trajectory_id |-> trajectory.trajectory_id, steps |-> Append(trajectory.steps, r)]
    ELSE trajectory

\* With the first k of several records appended.
Longer(trajectory, records, k) ==
    [trajectory_id |-> trajectory.trajectory_id,
     steps |-> trajectory.steps \o SubSeq(records, 1, k)]

\* How many of them are appended one by one, up to the first that is refused.
Accepted(trajectory, records) ==
    CHOOSE k \in 0..Len(records) :
      /\ \A j \in 1..k : MayAppend(Longer(trajectory, records, j - 1), records[j])
      /\ k < Len(records) => ~MayAppend(Longer(trajectory, records, k), records[k + 1])

Under(buf, id) == {i \in DOMAIN buf : buf[i].trajectory_id = id}

\* The trajectory that a record is for, new if the buffer has none.
Stored(buf, id) ==
    IF Under(buf, id) = {} THEN Empty(id) ELSE buf[CHOOSE i \in Under(buf, id) : TRUE]

\* A new trajectory is registered only after its first record is accepted.
Put(buf, trajectory) ==
    LET known == Under(buf, trajectory.trajectory_id)
    IN  IF known # {} THEN [i \in DOMAIN buf |-> IF i \in known THEN trajectory ELSE buf[i]]
        ELSE IF trajectory.steps = <<>> THEN buf
        ELSE Append(buf, trajectory)

Registered == {buffer[i].trajectory_id : i \in DOMAIN buffer}

\* add()
Added(buf, r) == Put(buf, Appended(Stored(buf, r.trajectory_id), r))

\* extend() by records of one trajectory: those before a refused one stay.
\* Collect has only finished episodes under fresh ids, so none is refused
\* there; an addition that ends midway is a sequence of Adds.
Extended(buf, id, records) ==
    LET old == Stored(buf, id) IN Put(buf, Longer(old, records, Accepted(old, records)))

\* add_trajectory() copies record by record, and keeps the copy if all is well.
MayCopy(trajectory) ==
    Accepted(Empty(trajectory.trajectory_id), trajectory.steps) = Len(trajectory.steps)

Rows == FlattenSeq([i \in DOMAIN buffer |-> buffer[i].steps])

-----------------------------------------------------------------------------
(* Actions *)

Init == buffer = <<>> /\ running = None

\* Bound: rows that may still come, those of the running episode counted.
Room ==
    MaxRows - Len(Rows) - IF running = None THEN 0 ELSE Len(running.steps)

Add ==
    /\ running = None
    /\ \E r \in Records : buffer' = Added(buffer, r)
    /\ UNCHANGED running
    /\ Room' >= 0

AddTrajectory ==
    /\ running = None
    /\ \E t \in Trajectories :
         /\ t.trajectory_id \notin Registered
         /\ MayCopy(t)
         /\ buffer' = Append(buffer, t)
    /\ UNCHANGED running
    /\ Room' >= 0

Clear ==
    /\ running = None
    /\ buffer' = <<>>
    /\ UNCHANGED running

\* Without progress reward the potential is 0 throughout.
StartEpisode ==
    /\ running = None
    /\ Room > 0
    /\ \E id \in EpisodeIds \ Registered, phi \in Potentials :
         running' = [trajectory_id |-> id, steps |-> <<>>, phi |-> phi]
    /\ UNCHANGED buffer

\* Mutant: the estimator is asked at a terminal state, too.
PhiNextEverywhere(done, phi) == phi

\* The potential of a terminal state is zero.
PhiNextUsed(done, phi) == IF done THEN 0 ELSE phi

\* beta * (gamma * phi_next - phi)
PotentialShaping(phi, phiNext) == Discounted(phiNext, 1) - phi

\* Mutant: failure is charged at every step that is not the success.
TaskRewardEveryStep(done, success) ==
    IF success THEN TaskSuccess ELSE TaskFailure

TaskReward(done, success) ==
    IF success THEN TaskSuccess ELSE IF done THEN TaskFailure ELSE 0

\* One round of run_episode's loop, whatever environment and models answer.
EpisodeStep ==
    /\ running # None
    /\ running.steps # <<>> => ~Last(running.steps).done
    /\ \E done, success \in BOOLEAN, value \in Values, cost \in Costs,
          answer \in Potentials :
         LET phiNext  == PhiNextUsed(done, answer)
             task     == TaskReward(done, success)
             progress == PotentialShaping(running.phi, phiNext)
         IN
         /\ success => done
         /\ Len(running.steps) + 1 = MaxLength \/ Room = 1 => done
         /\ running' =
              [running EXCEPT
                 !.steps = Append(@, [trajectory_id |-> running.trajectory_id,
                                      step_index |-> Len(running.steps),
                                      value |-> value,
                                      task_reward |-> task,
                                      progress_reward |-> progress,
                                      reward |-> task + progress + cost,
                                      phi |-> running.phi,
                                      done |-> done]),
                 !.phi = phiNext]
    /\ UNCHANGED buffer

\* collect_online_rollouts: the buffer is extended by the finished episode.
Collect ==
    /\ running # None
    /\ running.steps # <<>>
    /\ Last(running.steps).done
    /\ buffer' = Extended(buffer, running.trajectory_id, running.steps)
    /\ running' = None

Next == Add \/ AddTrajectory \/ Clear \/ StartEpisode \/ EpisodeStep \/ Collect

Spec == Init /\ [][Next]_vars

-----------------------------------------------------------------------------
(* compute_gae *)

\* Mutant: whatever is in the next row belongs to the same trajectory.
NextRowSame(rows, i) == i < Len(rows)

SameNextTrajectory(rows, i) ==
    /\ i < Len(rows)
    /\ rows[i].trajectory_id = rows[i + 1].trajectory_id

Bootstraps(rows, nextValues) ==
    IF nextValues # None
    THEN nextValues
    ELSE [i \in DOMAIN rows |->
            IF SameNextTrajectory(rows, i) /\ ~rows[i].done
            THEN rows[i + 1].value ELSE 0]

\* The backward loop; k of gamma * lambda = gamma^k is 2, or 1 for lambda = 1.
Advantages(rows, nextValues, k) ==
    LET bootstraps == Bootstraps(rows, nextValues)
        delta(i) ==
            rows[i].reward - rows[i].value
              + IF rows[i].done THEN 0 ELSE Discounted(bootstraps[i], 1)
        continues(i) == SameNextTrajectory(rows, i) /\ ~rows[i].done
        advantage[i \in DOMAIN rows] ==
            delta(i)
              + IF continues(i) THEN Discounted(advantage[i + 1], k) ELSE 0
    IN  advantage

-----------------------------------------------------------------------------
(* as_sequence_ppo_batch *)

Done(trajectory) == trajectory.steps # <<>> /\ Last(trajectory.steps).done

SequenceRefused ==
    \/ buffer = <<>>
    \/ \E i \in DOMAIN buffer : ~Done(buffer[i])
    \/ \E i \in DOMAIN buffer : \E r \in ToSet(Front(buffer[i].steps)) :
         r.task_reward # 0

\* Mutant: the first step is discounted already.
ReturnDiscountedOnce(steps) ==
    SumFunction([j \in DOMAIN steps |-> Discounted(steps[j].reward, j)])

DiscountedReturn(steps) ==
    SumFunction([j \in DOMAIN steps |-> Discounted(steps[j].reward, j - 1)])

DiscountedSum(rewards) ==
    SumFunction([j \in DOMAIN rewards |-> Discounted(rewards[j], j - 1)])

\* Rows before the i-th trajectory; "offset" in the code.
Offset(i) ==
    SumFunction([j \in 1..(i - 1) |-> Len(buffer[j].steps)])

SequenceBatch ==
    [episode_indices |->
        FlattenSeq([i \in DOMAIN buffer |->
                      [j \in DOMAIN buffer[i].steps |-> i]]),
     initial_state_indices |-> [i \in DOMAIN buffer |-> Offset(i) + 1],
     dones |-> [i \in DOMAIN Rows |-> Rows[i].done],
     discounted_returns |->
        [i \in DOMAIN buffer |-> DiscountedReturn(buffer[i].steps)],
     step_values |-> [i \in DOMAIN Rows |-> Rows[i].value],
     step_rewards |-> [i \in DOMAIN Rows |-> Rows[i].reward]]

\* SequencePPOBatch.validate(): the groups, their starts, ends and returns.
Validates(batch) ==
    LET n == Len(batch.episode_indices)
        group == batch.episode_indices
        starts == {j \in 1..n : j = 1 \/ group[j - 1] # group[j]}
        start == batch.initial_state_indices
        end(i) == IF i = Len(start) THEN n ELSE start[i + 1] - 1
    IN  /\ n > 0
        /\ group[1] = 1 /\ group[n] = Len(buffer)
        /\ \A j \in 1..(n - 1) : group[j + 1] - group[j] \in {0, 1}
        /\ IsInjective(start) /\ ToSet(start) = starts
        /\ \A i \in DOMAIN start : start[i] <= end(i)
        /\ \A j \in 1..n : batch.dones[j] = (\E i \in DOMAIN start : j = end(i))
        /\ \A i \in DOMAIN start :
             batch.discounted_returns[i] =
               DiscountedSum(SubSeq(batch.step_rewards, start[i], end(i)))

-----------------------------------------------------------------------------
(* SequencePPOTrainer._evaluate_episodes *)

\* The members of a set of numbers in ascending order.
InOrder(S) ==
    [k \in 1..Cardinality(S) |-> CHOOSE x \in S : Cardinality({y \in S : y <= x}) = k]

\* Mutant: initial values stay in the order of the buffer.
InBufferOrder(batch, selected, steps) ==
    LET starts == {batch.initial_state_indices[e] : e \in ToSet(selected)} IN
    InOrder({i \in DOMAIN steps : steps[i] \in starts})

\* torch.searchsorted: how many selected steps lie before each initial state.
InitialLocal(batch, selected, steps) ==
    [k \in DOMAIN selected |->
       1 + Cardinality({i \in DOMAIN steps :
                          steps[i] < batch.initial_state_indices[selected[k]]})]

\* For each selected episode the rows whose log-probabilities are added up, and
\* the row whose value is the critic's answer.
EvaluateEpisodes(batch, selected) ==
    LET group == batch.episode_indices
        steps == InOrder({j \in DOMAIN group : group[j] \in ToSet(selected)})
        local == InitialLocal(batch, selected, steps)
    IN  [log_probs |-> [k \in DOMAIN selected |->
                          {steps[i] : i \in {n \in DOMAIN steps :
                                               group[steps[n]] = selected[k]}}],
         initial_values |-> [k \in DOMAIN selected |-> steps[local[k]]]]

-----------------------------------------------------------------------------
(* Properties *)

\* Every trajectory in the buffer, and the one being collected, is a row of
\* steps 0, 1, 2, ... of its own, closed by a terminal step if by any.
WellFormed(trajectory) ==
    \A j \in DOMAIN trajectory.steps :
      LET r == trajectory.steps[j] IN
      /\ r.trajectory_id = trajectory.trajectory_id
      /\ r.step_index = j - 1
      /\ r.done => j = Len(trajectory.steps)
      /\ {r.value, r.reward, r.task_reward, r.progress_reward} \subseteq Int

\* Whatever is added, in whatever order: the buffer's trajectories are distinct
\* and well formed, although add() checks a record only against the last one.
TypeOK ==
    /\ \A i \in DOMAIN buffer : WellFormed(buffer[i])
    /\ \A i, j \in DOMAIN buffer :
         buffer[i].trajectory_id = buffer[j].trajectory_id => i = j
    /\ Registered \subseteq UserIds \cup EpisodeIds
    /\ running # None =>
         WellFormed(running) /\ running.trajectory_id \in EpisodeIds

\* GAE as it is defined, on one trajectory alone: the sum of its own later
\* temporal-difference errors, each discounted by (gamma * lambda)^distance.
GaeOf(i, j, nextValues) ==
    LET steps == buffer[i].steps
        last(m) == steps[m].done \/ (nextValues = None /\ m = Len(steps))
        after(m) ==
            IF last(m) THEN 0
            ELSE IF nextValues # None THEN nextValues[Offset(i) + m]
            ELSE steps[m + 1].value
        delta(m) ==
            steps[m].reward + Discounted(after(m), 1) - steps[m].value
    IN  SumFunction([m \in j..Len(steps) |-> Discounted(delta(m), 2 * (m - j))])

\* The backward pass over the flattened buffer gives each step the advantage it
\* has in its own trajectory, complete or cut short: nothing crosses from one
\* trajectory to the next, with supplied bootstrap values or without.
AdvantagesMatchDefinition ==
    \A nextValues \in {None} \cup [DOMAIN Rows -> {0, Unit}] :
      LET advantage == Advantages(Rows, nextValues, 2) IN
      \A i \in DOMAIN buffer : \A j \in DOMAIN buffer[i].steps :
        advantage[Offset(i) + j] = GaeOf(i, j, nextValues)

\* The two ways of assigning credit agree on what an episode was worth: with
\* lambda = 1, the action-level return of its first step is the sequence-level
\* return, which another function computes from other indices.
CreditsAgree ==
    ~SequenceRefused =>
      LET advantage == Advantages(Rows, None, 1)
          batch == SequenceBatch
      IN  \A i \in DOMAIN buffer :
            LET first == batch.initial_state_indices[i] IN
            advantage[first] + batch.step_values[first]
              = batch.discounted_returns[i]

\* At any point of an episode its discounted progress rewards amount to the
\* discounted potential it has reached less the one it started from, and in a
\* complete one to minus the latter: no behaviour earns anything by shaping.
ShapingTelescopes ==
    LET earned(steps) ==
            SumFunction([j \in DOMAIN steps |-> Discounted(steps[j].progress_reward, j - 1)])
    IN  /\ running # None /\ running.steps # <<>> =>
             earned(running.steps)
               = Discounted(running.phi, Len(running.steps))
                   - running.steps[1].phi
        /\ \A i \in DOMAIN buffer :
             buffer[i].trajectory_id \in EpisodeIds =>
               earned(buffer[i].steps) = -buffer[i].steps[1].phi

\* Sequence PPO can be fed: what was collected is never refused, ...
CollectedIsAccepted ==
    buffer # <<>> /\ Registered \subseteq EpisodeIds => ~SequenceRefused

\* ... and whatever is not refused passes the batch's own validation.
SequenceReady ==
    /\ CollectedIsAccepted
    /\ ~SequenceRefused => Validates(SequenceBatch)

\* Whichever episodes a minibatch draws, in whatever order: each ratio is made
\* of that episode's own steps, all of them, and each critic error of the value
\* of its own first step.
EpisodesKeepTheirSteps ==
    ~SequenceRefused =>
      \A selected \in UNION {SetToSeqs(s) : s \in SUBSET DOMAIN buffer \ {{}}} :
        LET evaluated == EvaluateEpisodes(SequenceBatch, selected) IN
        \A k \in DOMAIN selected :
          LET id == buffer[selected[k]].trajectory_id
              first == Rows[evaluated.initial_values[k]]
          IN  /\ evaluated.log_probs[k]
                   = {j \in DOMAIN Rows : Rows[j].trajectory_id = id}
              /\ first.trajectory_id = id /\ first.step_index = 0

=============================================================================
