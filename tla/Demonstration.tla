--------------------------- MODULE Demonstration ---------------------------
(***************************************************************************)
(* A generated task in use.  Everything that plays episodes before and     *)
(* during training is here, on the environment and the menu of Grounding:  *)
(*   replay        an oracle plan is executed call by call                 *)
(*                 (envs/oracle.py, _deterministic_shortest_oracle_paths)  *)
(*   continuation  a prefix of a plan, then the fixed continuation policy  *)
(*                 that labels progress examples (_run_fixed_continuation) *)
(*   agent         any policy at all (run_episode)                         *)
(*   baseline      the public rule R1 (evaluation/public_baselines.py)     *)
(*   dataset       a prefix of a plan, then the hidden-ledger challenge    *)
(*                 (envs/action_validity.py)                               *)
(* Choices that the code draws from hashes are nondeterministic, and a     *)
(* plan may be any legal order of its operations.                          *)
(***************************************************************************)
EXTENDS Grounding

CONSTANTS
    Target,          \* operations of the task's oracle plans
    OptimalSteps,    \* task.optimal_steps
    Counterfactual,  \* is it a v1.4 task?
    GoalPredicates   \* the "eq" goals of every task of its group

(***************************************************************************)
(* What the generators promise of a plan, besides the contracts that       *)
(* Grounding states (GeneratedTasks checks both of each task it plays).    *)
(***************************************************************************)

\* _build_task: every operation is wanted, and there is time for them all.
WholeWorkflow ==
    /\ Target = Nodes /\ GoalNodes = Nodes
    /\ OptimalSteps = Cardinality(Nodes) /\ OptimalSteps <= MaxSteps

\* The operations that write what goals are about, and all that must be done for
\* one of them: checkpoints, and the prefix that these wait for.
Finals == {n \in Nodes : DOMAIN Node[n].effects \cap DOMAIN GoalFields # {}}

Lane(n) ==
    LET before(m) == Node[m].required_predecessors IN
    {n} \cup before(n) \cup UNION {before(m) : m \in before(n)}

\* _build_group: the goals of a group differ in the values of the same fields, a
\* final operation writes them all, and its lane takes the whole budget.  One lane
\* leads to this task's goal, and some other may be entered at once.
OneLane ==
    /\ OptimalSteps = MaxSteps /\ GoalNodes = {}
    /\ \A g \in GoalPredicates :
         /\ g \in [DOMAIN GoalFields -> Values]
         /\ \E f \in DOMAIN g : g[f] # InitialFields[f]
    /\ GoalFields \in GoalPredicates
    /\ \A n \in Finals :
         /\ DOMAIN GoalFields \subseteq DOMAIN Node[n].effects
         /\ Cardinality(Lane(n)) = MaxSteps
         /\ n \in Target <=> \A f \in DOMAIN GoalFields : Node[n].effects[f] = GoalFields[f]
         /\ n \in Target => Target = Lane(n)
    /\ Target \cap Finals # {}
    /\ \E n \in Nodes \ Target : Node[n].required_predecessors = {}

\* A plan is closed under prerequisites, and only tools for progress name its
\* operations.
OneWay ==
    /\ Target \subseteq Nodes
    /\ \A n \in Target : Node[n].required_predecessors \subseteq Target
    /\ \A t \in Tools \ Progress : Public[t].operation_id \notin Target
    /\ IF Counterfactual THEN OneLane ELSE WholeWorkflow

VARIABLES
    policy,      \* who plays
    prefix,      \* steps replayed from a plan before the policy takes over
    strayed,     \* some step was not on a shortest path to the goal
    challenged   \* the hidden ledger was made to collide

playVars == <<policy, prefix, strayed, challenged, vars>>

-----------------------------------------------------------------------------
(* Who chooses what *)

\* Operations that come next in some legal order of the plan.
Upcoming ==
    {n \in Target \ Committed : Node[n].required_predecessors \subseteq Committed}

\* _plan_calls: written from the hidden node, for the position in the plan.
PlanCall(n) ==
    [tool_name |-> Node[n].tool_name,
     arguments |-> [entity_id |-> Entity, operation_id |-> n,
                    expected_version |-> stepsTaken,
                    approval_token |-> Node[n].safety_token,
                    idempotency_key |-> IF Node[n].safety_token = None THEN None
                                        ELSE CandidateKey[n]],
     call_id |-> <<"oracle", stepsTaken, n>>]

\* Mutant: an operation that is already done still counts as progress.
OptimalAgain(call) ==
    /\ call.arguments.operation_id \in Target
    /\ call.arguments.entity_id = Entity
    /\ call.arguments.expected_version = Cardinality(Committed)
    /\ PrerequisitesMet(call.tool_name)

\* optimal_candidate_indices
Optimal(call) ==
    /\ call.arguments.operation_id \in Target \ Committed
    /\ call.arguments.entity_id = Entity
    /\ call.arguments.expected_version = Cardinality(Committed)
    /\ PrerequisitesMet(call.tool_name)

\* _continuation_positive_indices, which for v1.3 asks the environment.
Positive(call) ==
    IF Counterfactual THEN Optimal(call)
    ELSE call.arguments.operation_id \in Target \ Committed /\ Validate(call).valid

Positives == {call \in Menu : Positive(call)}

\* Mutant: once off the path, the policy may still do the right thing.
ErrorPoolAny == {call \in Menu : Validate(call).valid}

\* error_pool of the fixed policy
ErrorPool ==
    LET nonpositives == Menu \ Positives
        executable == {call \in nonpositives : Validate(call).valid}
    IN  IF executable # {} THEN executable
        ELSE IF nonpositives # {} THEN nonpositives
        ELSE Positives

\* What the public rules R0-R6 may select: what the mask lets through.
Selectable == {call \in Menu : MaskVerdict(call).valid}

\* Mutant: the rules do not look at completed_nodes.
UnfinishedUnread(call) == TRUE

Unfinished(call) == Public[call.tool_name].operation_id \notin Committed

\* What R2, R3, R5 and R6 rank, by depth, words and frontier; ties and words
\* make any of them possible.
Advances(selectable) ==
    {call \in selectable : Schema[call.tool_name].mutating /\ Unfinished(call)}

OrFallback(preferred, selectable) == IF preferred # {} THEN preferred ELSE selectable

\* PublicReadyGreedy.select, R1, which takes the first of them; the menu is shuffled.
PublicReadyGreedy(selectable) ==
    OrFallback({call \in Advances(selectable) : Public[call.tool_name].policy_allowed},
               selectable)

\* ReviewerCompositeShortcut.select, R4, which also considers queries.
ReviewerShortcut(selectable) ==
    OrFallback({call \in selectable : Unfinished(call)}, selectable)

ProgressPrefixes ==
    {0, OptimalSteps \div 3, (2 * OptimalSteps) \div 3, OptimalSteps - 1}

-----------------------------------------------------------------------------
(* Actions *)

PlayInit ==
    /\ \/ policy = "replay" /\ prefix = OptimalSteps
       \/ policy = "continuation" /\ prefix \in ProgressPrefixes
       \/ policy \in {"agent", "baseline"} /\ prefix = 0
       \/ policy = "dataset" /\ ~Counterfactual /\ prefix = OptimalSteps - 1
    /\ strayed = FALSE
    /\ challenged = FALSE
    /\ Init

Issue(call) ==
    /\ CommitCall(call) \/ AnswerCall(call) \/ RejectCall(call)
    /\ UNCHANGED <<policy, prefix, challenged>>

\* replay_oracle, _replay_prefix: the plan's own calls, not the menu's.
ReplayPlan ==
    /\ stepsTaken < prefix
    /\ \E n \in Upcoming : Issue(PlanCall(n))
    /\ UNCHANGED strayed

FollowPositive ==
    /\ policy = "continuation"
    /\ stepsTaken >= prefix
    /\ ~strayed
    /\ \E call \in Positives : Issue(call)
    /\ UNCHANGED strayed

\* The error branch is absorbing.
Stray ==
    /\ policy = "continuation"
    /\ stepsTaken >= prefix
    /\ \E call \in ErrorPool : Issue(call)
    /\ strayed' = TRUE

AgentPlays ==
    /\ policy = "agent"
    /\ \E call \in Menu :
         /\ Issue(call)
         /\ strayed' = (strayed \/ ~Positive(call))

\* _case_trace, _run_public_baseline
BaselinePlays ==
    /\ policy = "baseline"
    /\ \E call \in PublicReadyGreedy(Selectable) :
         /\ Issue(call)
         /\ strayed' = (strayed \/ ~Positive(call))

\* _hidden_ledger_collision: in a copy of the environment the key of the final
\* operation belongs to the operation the plan began with.
Challenge ==
    /\ policy = "dataset"
    /\ stepsTaken = prefix
    /\ ~challenged
    /\ ledger' = [k \in Keys |-> completed[1]]
    /\ challenged' = TRUE
    /\ UNCHANGED <<policy, prefix, strayed, completed, version, fields, sideEffects,
                   processed, auditLog, stepsTaken, done, outcome>>

Play ==
    ReplayPlan \/ FollowPositive \/ Stray \/ AgentPlays \/ BaselinePlays \/ Challenge

\* Each of these loops runs until its episode is over: `while not done: step`.
PlaySpec == PlayInit /\ [][Play]_playVars /\ WF_playVars(Play)

-----------------------------------------------------------------------------
(* Properties *)

\* Whatever anyone chooses, an episode that is played ends: every answer,
\* refusals and replays included, is paid for from the budget.
EpisodeEnds == <>(done \/ challenged)

\* As long as nobody has strayed, imitation has something to learn from: some
\* candidate is a positive, none of them is masked, and every operation that a
\* legal order allows next is among them with the very arguments of the plan
\* (collect_counterfactual_expert_batch and _oracle_index raise otherwise).
\* And in a counterfactual world there is always a safe way to go wrong.
ExpertStates ==
    ~strayed /\ ~done /\ ~challenged =>
      LET positives == Positives IN
      /\ positives # {}
      /\ \A call \in positives : MaskVerdict(call).valid
      /\ {Request(PlanCall(n)) : n \in Upcoming} \subseteq {Request(call) : call \in positives}
      /\ Counterfactual =>
           \E call \in Menu \ positives :
             /\ Schema[call.tool_name].mutating
             /\ MaskVerdict(call).valid
             /\ Validate(call) = Accepts(call.arguments.operation_id, FALSE)

\* The label of a continuation is what it is meant to be: it succeeds exactly
\* if it never left the path, for v1.3 because the error branch never returns
\* to the work, for v1.4 because no budget is left for one step astray,
\* whoever plays.  And the path is as long as optimal_steps says.
WonExactlyOnPath ==
    done =>
      /\ policy \notin {"agent", "baseline"} \/ Counterfactual => (Success <=> ~strayed)
      /\ Success /\ ~strayed => stepsTaken = OptimalSteps

\* One trajectory in a counterfactual world wins at most one of the group's
\* goals, and only when no budget is left to go for another: a policy that
\* does not read the goal scores at most one in four.
OneGoalPerTrajectory ==
    Counterfactual =>
      LET reached == {g \in GoalPredicates : \A f \in DOMAIN g : fields[f] = g[f]}
      IN  Cardinality(reached) <= 1 /\ (reached # {} => stepsTaken >= MaxSteps)

\* The public rules at work.  Wherever an episode has got to, each of them has
\* something to select that the environment accepts, and as long as it looks at
\* the menu for unfinished work it never wastes a step; so R1, which knows
\* nothing of the goal, plays a v1.3 task to its end by a shortest path: the
\* 1,000 of 1,000 of docs/results/posthoc-v1.3-public-ready.md.
PublicRulesAdvance ==
    ~challenged =>
      /\ ~done =>
           LET selectable == Selectable
               goalBlind == PublicReadyGreedy(selectable)
                               \cup OrFallback(Advances(selectable), selectable)
           IN  /\ selectable # {}
               /\ \A call \in ReviewerShortcut(selectable) : Validate(call).valid
               /\ \A call \in goalBlind :
                    Validate(call) = Accepts(call.arguments.operation_id, FALSE)
      /\ policy = "baseline" =>
           /\ Len(completed) = stepsTaken
           /\ ~Counterfactual => ~strayed /\ (done => Success /\ stepsTaken = OptimalSteps)

=============================================================================
