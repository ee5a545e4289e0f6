--------------------------- MODULE TrainingConfig ---------------------------
(***************************************************************************)
(* What is fixed before a seed is trained: the variants of the matrix, the *)
(* sizes of the data sets, and the settings that config.py and the four    *)
(* update loops require to be positive.                                    *)
(***************************************************************************)
EXTENDS Integers, Sequences

CONSTANTS
    Matrix,      \* the variants' trainers, in order: "copy" is the BC variant
    Examples,    \* units that the behaviour model and the estimator learn from
    BatchSize,
    Epochs,
    Iterations,
    Episodes,    \* rollout_episodes
    NaN

ASSUME SettingsAssumption ==
    /\ Matrix \in Seq({"copy", "action", "sequence"})
    /\ {Examples, BatchSize, Epochs, Iterations, Episodes} \subseteq Nat \ {0}
    /\ NaN \notin Nat

=============================================================================
