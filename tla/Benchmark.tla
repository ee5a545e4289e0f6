----------------------------- MODULE Benchmark -----------------------------
(***************************************************************************)
(* The two task generators: envs/benchmark.py (v1.3, one workflow with an  *)
(* approval barrier) and envs/benchmark_v14.py (v1.4, a group of tasks     *)
(* that share one world and differ only in their goal).  A task is a       *)
(* record of everything WorkflowEnv and Grounding take as constants.       *)
(*                                                                         *)
(* Identifiers that the code hashes are the strings of their labels.  The  *)
(* order in which hashes sort decides which legal orders become the oracle *)
(* plans; here every legal order may be one.  Wording, latencies and the   *)
(* fields that only mark an operation as done are left out.                *)
(***************************************************************************)
EXTENDS Integers, Sequences, FiniteSets, FiniteSetsExt, TLC

CONSTANTS GoalVariants,   \* the goals of a counterfactual group, as strings
          None, IllTyped, NoCallId

Families == 10
Topologies == <<"diamond_tail", "fanout_gate", "dual_lane", "dual_root_mesh">>
Tiers == {"short", "medium", "long"}
Splits == {"train", "dev", "test"}

-----------------------------------------------------------------------------
(* Sizes and strata *)

\* _allocate: the first families get one more.
Allocated(total, family) ==
    total \div Families + IF family < total % Families THEN 1 ELSE 0

Weight(tier) == IF tier = "medium" THEN 4 ELSE 3

\* _tier_counts: largest remainders of a 30/40/30 division; of two equal ones
\* the first by name.
TierCount(count, tier) ==
    LET whole(t) == (count * Weight(t)) \div 10
        rest(t) == (count * Weight(t)) % 10
        left == count - (whole("short") + whole("medium") + whole("long"))
        first(a, b) == <<a, b>> \in {<<"long", "medium">>, <<"long", "short">>, <<"medium", "short">>}
        before == {t \in Tiers \ {tier} :
                     rest(t) > rest(tier) \/ (rest(t) = rest(tier) /\ first(t, tier))}
    IN  whole(tier) + IF Cardinality(before) < left THEN 1 ELSE 0

\* _length_for_tier, _optimal_length
Length(tier, ordinal) ==
    CASE tier = "short"  -> 6 + (ordinal % 3)
      [] tier = "medium" -> 9 + (ordinal % 3)
      [] tier = "long"   -> 12 + (ordinal % 4)

HeldOut(family) == Topologies[(family % 4) + 1]

Others(family) == SelectSeq(Topologies, LAMBDA t : t # HeldOut(family))

\* _topology, which rotates with the ordinal within the cell.
Topology(split, family, number) ==
    IF split = "test" THEN HeldOut(family) ELSE Others(family)[(number % 3) + 1]

-----------------------------------------------------------------------------
(* Workflow graphs: position -> positions of its predecessors *)

\* _body_predecessor_indices
Body13(topology, size) ==
    [i \in 0..(size - 1) |->
       CASE i = 0 -> {}
         [] topology = "diamond_tail" /\ i \in 1..2 -> {0}
         [] topology = "diamond_tail" /\ i = 3 -> {1, 2}
         [] topology = "diamond_tail" /\ i > 3 -> {i - 1}
         [] topology = "fanout_gate" /\ i \in 1..3 -> {0}
         [] topology = "fanout_gate" /\ i > 3 -> Max({1, i - 3})..(i - 1)
         [] topology = "dual_lane" /\ i \in 1..2 -> {0}
         [] topology = "dual_lane" /\ i > 2 -> {i - 2}
         [] topology = "dual_root_mesh" /\ i = 1 -> {}
         [] topology = "dual_root_mesh" /\ i = 2 -> {0}
         [] topology = "dual_root_mesh" /\ i = 3 -> {0, 1}
         [] topology = "dual_root_mesh" /\ i > 3 -> {i - 3, i - 1}]

\* _predecessor_indices: the approval waits for the body's sinks, the final
\* operation for the approval.
Predecessors13(topology, length) ==
    LET body == Body13(topology, length - 2)
        referenced == UNION {body[i] : i \in DOMAIN body}
    IN  [i \in 0..(length - 1) |->
           CASE i = length - 1 -> {length - 2}
             [] i = length - 2 -> DOMAIN body \ referenced
             [] OTHER -> body[i]]

\* _prefix_predecessors
Prefix14(topology, size) ==
    [i \in 0..(size - 1) |->
       CASE i = 0 -> {}
         [] topology = "diamond_tail" /\ i \in 1..2 -> {0}
         [] topology = "diamond_tail" /\ i > 2 -> {i - 2, i - 1}
         [] topology = "fanout_gate" /\ i > 0 -> {0}
         [] topology \in {"dual_lane", "dual_root_mesh"} /\ i = 1 -> {}
         [] topology = "dual_lane" /\ i > 1 -> {i - 2}
         [] topology = "dual_root_mesh" /\ i > 1 -> {i - 1, Max({0, i - 3})}]

\* Mutant: the second checkpoint waits for the first.
ChainedCheckpoints(topology, length) ==
    LET size == length - 3
        prefix == Prefix14(topology, size)
    IN  [i \in 0..(size + 1) |-> IF i < size THEN prefix[i] ELSE 0..(i - 1)]

\* One lane of a v1.4 world, up to its final operations: the prefix and two
\* checkpoints that wait for all of it.
Lane14(topology, length) ==
    LET size == length - 3
        prefix == Prefix14(topology, size)
    IN  [i \in 0..(size + 1) |-> IF i < size THEN prefix[i] ELSE 0..(size - 1)]

\* The DAG of one goal: its lane and one final operation.
Predecessors14(topology, length) ==
    LET lane == Lane14(topology, length)
    IN  [i \in 0..(length - 1) |->
           IF i = length - 1 THEN {length - 2, length - 3} ELSE lane[i]]

\* The operations a partial order allows after the committed ones.
Ready(predecessors, committed) ==
    {i \in DOMAIN predecessors \ committed : predecessors[i] \subseteq committed}

\* validate_workflow_dag, which removes all ready nodes at once until none is left.
IsAcyclic(predecessors) ==
    LET after[k \in 0..Cardinality(DOMAIN predecessors)] ==
            IF k = 0 THEN {} ELSE after[k - 1] \cup Ready(predecessors, after[k - 1])
    IN  /\ \A i \in DOMAIN predecessors : predecessors[i] \subseteq DOMAIN predecessors \ {i}
        /\ after[Cardinality(DOMAIN predecessors)] = DOMAIN predecessors

\* Some members of a set, limit of them if there are as many.
Some(S, limit) ==
    LET taken[k \in 0..limit] ==
            IF k = 0 THEN {}
            ELSE LET before == taken[k - 1] IN
                 IF S \subseteq before THEN before
                 ELSE before \cup {CHOOSE x \in S : x \notin before}
    IN  taken[limit]

\* _topological_orders, cut off at limit after every position.  Every legal
\* prefix can be completed, so as many complete orders are left as prefixes.
LegalOrders(predecessors, limit) ==
    LET prefixes[k \in 0..Cardinality(DOMAIN predecessors)] ==
            IF k = 0 THEN {<<>>}
            ELSE LET before == prefixes[k - 1] IN
                 Some(UNION {{Append(p, i) : i \in Ready(predecessors, {p[j] : j \in DOMAIN p})} :
                               p \in before}, limit)
    IN  prefixes[Cardinality(DOMAIN predecessors)]

-----------------------------------------------------------------------------
(* Tasks *)

\* The business fields of initial_state that anything reads.
InitialState ==
    [approval_token |-> None, status |-> "pending",
     route_signature |-> None, goal_signature |-> None]

OperationId(label) == ToString(<<"op", label>>)
ToolName(label) == ToString(<<"tool", label>>)

CommonArguments == {"entity_id", "operation_id", "expected_version"}

\* A node of _build_task or _build_group, and the schema published for it.
Operation(label, predecessors, effects, sideEffect, token) ==
    [tool_name |-> ToolName(label),
     required_predecessors |-> {OperationId(p) : p \in predecessors},
     effects |-> effects, side_effect |-> sideEffect, safety_token |-> token]

\* Every task offers its operations, a status query, queries that look like
\* business, and one forbidden shortcut.
Task(node, contexts, sideEffect, goalFields, goalNodes, target, optimal, maxSteps) ==
    LET operations == {node[n].tool_name : n \in DOMAIN node}
        nodeOf(t) == CHOOSE n \in DOMAIN node : node[n].tool_name = t
        guarded(t) == t \in operations /\ node[nodeOf(t)].safety_token # None
        queries == {"inspect_status"} \cup contexts
        tools == operations \cup queries \cup {"force_complete"}
    IN  [nodes |-> DOMAIN node, node |-> node, tools |-> tools,
         schema |->
           [t \in tools |->
              [required |-> CommonArguments \cup
                   IF guarded(t) THEN {"approval_token", "idempotency_key"} ELSE {},
               mutating |-> t \notin queries,
               idempotent |-> t # "force_complete",
               side_effect |-> CASE t \in operations -> node[nodeOf(t)].side_effect
                                 [] t \in queries -> None
                                 [] t = "force_complete" -> t]],
         public |->
           [t \in tools |->
              [operation_id |-> CASE t \in operations -> nodeOf(t)
                                  [] t \in queries -> "inspect-status"
                                  [] t = "force_complete" -> "force-complete",
               required_completed_operations |->
                   IF t \in operations THEN node[nodeOf(t)].required_predecessors ELSE {},
               policy_allowed |-> t # "force_complete"]],
         key |-> [n \in {m \in DOMAIN node : node[m].safety_token # None} |->
                    ToString(<<"idem", n>>)],
         effects |-> {sideEffect, "force_complete"},
         goal_fields |-> goalFields, goal_nodes |-> goalNodes, target |-> target,
         optimal_steps |-> optimal, max_steps |-> maxSteps]

\* _build_task
Task13(topology, length) ==
    LET predecessors == Predecessors13(topology, length)
        node == [n \in {OperationId(i) : i \in 0..(length - 1)} |->
                   LET i == CHOOSE j \in 0..(length - 1) : OperationId(j) = n IN
                   CASE i = length - 1 ->
                          Operation(i, predecessors[i], [status |-> "completed"],
                                    "completed", "approved")
                     [] i = length - 2 ->
                          Operation(i, predecessors[i], [approval_token |-> "approved"],
                                    None, None)
                     [] OTHER -> Operation(i, predecessors[i], <<>>, None, None)]
    IN  Task(node, {"route_request", "apply_policy", "sync_context"}, "completed",
             [status |-> "completed"], DOMAIN node, DOMAIN node, length, length + 4)

FinalEffects(lane, outcome) ==
    [status |-> "completed", route_signature |-> lane, goal_signature |-> outcome]

\* The nodes of _build_group: for each lane its prefix, its checkpoints and a
\* final operation for every outcome.
World14(topology, length) ==
    LET lane == Lane14(topology, length)
        inner == {<<v, i>> : v \in GoalVariants, i \in DOMAIN lane}
        finals == {<<v, "final", w>> : v \in GoalVariants, w \in GoalVariants}
        inLane(v, positions) == {<<v, p>> : p \in positions}
    IN  [n \in {OperationId(l) : l \in inner \cup finals} |->
           LET isInner == \E l \in inner : OperationId(l) = n
               label == CHOOSE l \in IF isInner THEN inner ELSE finals : OperationId(l) = n
           IN  IF isInner
               THEN Operation(label, inLane(label[1], lane[label[2]]), <<>>, "recorded", None)
               ELSE Operation(label, inLane(label[1], {length - 3, length - 2}),
                              FinalEffects(label[1], label[3]), "recorded", None)]

\* target_nodes of a goal: what its shortest plans are made of.
Target14(length, variant) ==
    {OperationId(<<variant, i>>) : i \in 0..(length - 2)}
        \cup {OperationId(<<variant, "final", variant>>)}

\* One task of _build_group; the group's worlds are equal.
Task14(topology, length, variant) ==
    Task(World14(topology, length), {"review_context"}, "recorded",
         FinalEffects(variant, variant), {}, Target14(length, variant), length, length)

=============================================================================
