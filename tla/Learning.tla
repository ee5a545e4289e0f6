------------------------------ MODULE Learning ------------------------------
(***************************************************************************)
(* What is learned from (Rollout) and how (Training).  The two parts share *)
(* no state here: Training counts the rows that Rollout looks into.        *)
(***************************************************************************)
EXTENDS Rollout, TrainingConfig

CONSTANT MaxSteps

VARIABLES part, pc, trainer, weights, epoch, unseen, used, iteration,
          rollouts, updates, rolloutSteps, saved

Seed == INSTANCE Training

seedVars == <<pc, trainer, weights, epoch, unseen, used, iteration,
              rollouts, updates, rolloutSteps, saved>>

\* Only the part that was chosen moves.
LearningInit == Init /\ Seed!Init /\ part \in {"rollout", "seed"}

LearningNext ==
    \/ part = "rollout" /\ Next /\ UNCHANGED <<part, seedVars>>
    \/ part = "seed" /\ Seed!Next /\ UNCHANGED <<part, vars>>

LearningSpec ==
    LearningInit /\ [][LearningNext]_<<part, seedVars, vars>>

-----------------------------------------------------------------------------
(* Properties *)

\* What PPO takes as credit is what the episodes earned: the backward pass over
\* the flattened buffer gives each step the advantage it has in its own
\* trajectory, both ways of assigning credit value an episode alike, and nothing
\* is earned by shaping (Rollout).
CreditIsRight == AdvantagesMatchDefinition /\ CreditsAgree /\ ShapingTelescopes

\* Collected episodes reach sequence PPO whole: the batch is never refused, and
\* every minibatch keeps each episode with its own steps (Rollout).
SequenceIntact == SequenceReady /\ EpisodesKeepTheirSteps

\* An epoch uses every row or episode once (Training).
EachUnitOncePerEpoch == Seed!EachUnitOncePerEpoch

\* PPO learns from its own weights' rollouts (Training).
OnPolicy == Seed!OnPolicy

\* Variants leave the shared models alone (Training).
SharedModelsRest == Seed!SharedModelsRest

\* Non-finite weights are caught before anyone uses them, and a variant's payload
\* accounts for every optimizer step behind its weights (Training).
PayloadsAreSound == Seed!NothingNonFiniteLeaves /\ Seed!PayloadsAddUp

=============================================================================
