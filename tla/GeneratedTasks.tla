--------------------------- MODULE GeneratedTasks ---------------------------
(***************************************************************************)
(* Demonstration on the tasks that the generators of Benchmark make: one   *)
(* of them is picked, and then played.                                     *)
(***************************************************************************)
EXTENDS Benchmark, SequencesExt

CONSTANTS
    Lengths,         \* the lengths of the tasks played, in either generator
    Shapes14         \* the topologies of the v1.4 worlds among them

VARIABLES
    task,            \* the generated task; it never changes
    policy, prefix, strayed, challenged,
    completed, version, fields, sideEffects, processed, ledger, auditLog,
    stepsTaken, done, outcome

vars == <<task, policy, prefix, strayed, challenged, completed, version, fields,
          sideEffects, processed, ledger, auditLog, stepsTaken, done, outcome>>

KeysOf(t) == {t.key[n] : n \in DOMAIN t.key}

\* What a policy that ignores the menu may send: calls of a plan, early, late
\* or with one argument spoiled, under the call_id of the plan's own call.
PolicyCalls(t) ==
    LET written(n, position) ==
            [entity_id |-> "entity", operation_id |-> n, expected_version |-> position,
             approval_token |-> t.node[n].safety_token,
             idempotency_key |-> IF n \in DOMAIN t.key THEN t.key[n] ELSE None]
        spoiled(arguments) ==
            {arguments,
             [arguments EXCEPT !.entity_id = "missing-entity"],
             [arguments EXCEPT !.approval_token = "pending"],
             [arguments EXCEPT !.idempotency_key = None],
             [arguments EXCEPT !.expected_version = IllTyped]}
        positions == {0, t.optimal_steps - 1}
    IN  UNION {{[tool_name |-> t.node[n].tool_name, arguments |-> a,
                 call_id |-> <<"oracle", position, n>>] : a \in spoiled(written(n, position))} :
                 n \in t.target, position \in positions}

On(t) == INSTANCE Demonstration WITH
    Nodes <- t.nodes, Node <- t.node,
    Tools <- t.tools, Schema <- t.schema, Public <- t.public,
    StatusQuery <- "inspect_status", CandidateKey <- t.key,
    Entity <- "entity", WrongEntity <- "missing-entity",
    Forbidden <- {"force_complete"}, SideEffects <- t.effects,
    Fields <- DOMAIN InitialState, InitialFields <- InitialState,
    Values <- {None, "pending", "completed", "approved"} \cup GoalVariants,
    Keys <- KeysOf(t), BlankKeys <- {}, InitialLedger <- [k \in KeysOf(t) |-> None],
    GoalFields <- t.goal_fields, GoalNodes <- t.goal_nodes,
    MaxSteps <- t.max_steps,
    CallIds <- {NoCallId}, Calls <- PolicyCalls(t),
    Target <- t.target, OptimalSteps <- t.optimal_steps,
    Counterfactual <- t.goal_nodes = {},
    GoalPredicates <- {FinalEffects(v, v) : v \in GoalVariants}

\* The goals of a counterfactual group play alike; one of them is enough.
Tasks ==
    {Task13(topology, length) : topology \in ToSet(Topologies), length \in Lengths}
    \cup {Task14(topology, length, CHOOSE v \in GoalVariants : TRUE) :
            topology \in Shapes14, length \in Lengths}

Init == task \in Tasks /\ \E t \in {task} : On(t)!PlayInit

Next == (\E t \in {task} : On(t)!Play) /\ UNCHANGED task

Spec == Init /\ [][Next]_vars /\ WF_vars(Next)

-----------------------------------------------------------------------------
(* Properties *)

\* What WorkflowEnv and Grounding ask of a task: the task contract, well-formed
\* schemas that mirror the hidden nodes, a key of its own for each guarded
\* operation, a goal that the operations lead to; and what Demonstration asks,
\* that there is one way to it.
KeepsContracts(t) ==
    /\ On(t)!TaskAssumption /\ On(t)!SchemaMatchesNode
    /\ On(t)!PublicSchemas /\ On(t)!PublicMirrorsTask
    /\ On(t)!CandidateKeysAreOwn /\ On(t)!ArgumentsAreProper
    /\ On(t)!WorkRemains /\ On(t)!OneWay

\* The generators keep these contracts, and at every point of every episode the
\* mask and the environment label every candidate alike, error class included.
\* Also on calls that are on no menu, and with the colliding ledger of the dataset,
\* the mask is wrong only where it cannot know (Grounding; Workflow_proofs for
\* every task that keeps the contracts).
MaskIsRight ==
    \A t \in {task} :
      /\ stepsTaken = 0 => KeepsContracts(t) /\ On(t)!Acyclic
      /\ ~challenged => On(t)!MaskAgreesOnMenu
      /\ On(t)!MaskErrsOnlyOnHiddenState

\* Every menu of a generated task has all strata, rightly labelled, and whatever
\* has gone wrong before, each operation that the DAG allows is on it and would
\* be committed (Grounding).
MenuIsComplete ==
    ~challenged =>
      \A t \in {task} : On(t)!MenuHasEveryStratum /\ On(t)!WayForwardOffered

\* Imitation and the continuation policy never lack a positive (Demonstration).
ExpertStates == \A t \in {task} : On(t)!ExpertStates

\* An episode of a generated task is won exactly on a shortest path, by the
\* players and in the worlds for which that is meant (Demonstration).
WonExactlyOnPath == \A t \in {task} : On(t)!WonExactlyOnPath

\* The public rules always find work in a generated task, and R1 solves every
\* v1.3 task by a shortest path (Demonstration).  No player of any kind leaves a
\* forbidden side effect, as the baseline gate requires, and the effects that
\* evaluate() counts are those of the commits (WorkflowEnv).
PublicRulesAdvance ==
    \A t \in {task} : On(t)!PublicRulesAdvance /\ On(t)!SideEffectsAreThoseOfCommits

\* One trajectory in a v1.4 world wins one goal of its group (Demonstration).
OneGoalPerTrajectory == \A t \in {task} : On(t)!OneGoalPerTrajectory

\* Every episode of a generated task ends, whoever plays it (Demonstration).
EpisodeEnds == <>(done \/ challenged)

=============================================================================
