------------------------------ MODULE Dataset -------------------------------
(***************************************************************************)
(* Everything that happens to tasks between the generators and training,   *)
(* each part by itself: the walk of one plan, the building of one split    *)
(* (Suites) and the draws from it (Sampling).                              *)
(***************************************************************************)
EXTENDS Suites

CONSTANTS SampledStrata, MaxStock, MaxDraws, PlanLengths, StatesPerTask,
          NegativesPerState, MaxTasks

\* What the samplers refuse: no tasks, no draws, no states of a task.
ASSUME SamplingAssumption ==
    /\ IsFiniteSet(SampledStrata)
    /\ MaxStock \in Nat /\ MaxDraws \in Nat /\ MaxTasks \in Nat
    /\ PlanLengths \subseteq Nat \ {0}
    /\ StatesPerTask \in Nat \ {0} /\ NegativesPerState \in Nat \ {0}

VARIABLES part, sampler, stock, wanted, round, drawn, tasks, cursor, negatives, challenges

Samples == INSTANCE Sampling WITH Strata <- SampledStrata

sampleVars == <<sampler, stock, wanted, round, drawn, tasks, cursor, negatives, challenges>>

allVars == <<part, vars, sampleVars>>

\* Only the part that was chosen moves; the others rest in one initial state.
Init ==
    /\ part \in {"walk", "build", "sample"}
    /\ WalkInit /\ (part # "walk" => topology = "diamond_tail" /\ length = 6)
    /\ SuiteInit /\ (part # "build" => split = "train" /\ size = 1)
    /\ Samples!Init /\ (part # "sample" => sampler = "validity")

Next ==
    \/ part = "walk" /\ Walk /\ UNCHANGED <<part, sampleVars>>
    \/ part = "build" /\ Build /\ UNCHANGED <<part, sampleVars>>
    \/ part = "sample" /\ Samples!Next /\ UNCHANGED <<part, vars>>

Spec == Init /\ [][Next]_allVars

-----------------------------------------------------------------------------
(* Properties *)

\* Rounds are fair, whichever order they are served in (Sampling).
EvenlyDrawn == Samples!EvenlyDrawn

\* Half of the tasks end with the hidden ledger collision (Sampling).
EverySecondTaskChallenged == Samples!EverySecondTaskChallenged

=============================================================================
