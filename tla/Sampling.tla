------------------------------ MODULE Sampling ------------------------------
(***************************************************************************)
(* How tasks are drawn from a split.                                       *)
(*   progress   _balanced_progress_tasks: rounds over the strata, without  *)
(*              replacement                                                *)
(*   schedule   stratified_task_schedule: rounds over the families, each   *)
(*              family's tasks in a cycle                                  *)
(*   validity   generate_action_validity_dataset: every task in order, the *)
(*              kinds of negatives in a cycle that runs on across states   *)
(*              and tasks                                                  *)
(* Shuffles are nondeterministic: a round serves its strata in any order.  *)
(***************************************************************************)
EXTENDS Integers, SequencesExt

CONSTANTS Strata,        \* strata or families
          MaxStock,      \* most tasks of one of them
          MaxDraws,      \* largest number of draws asked for
          PlanLengths,   \* optimal_steps of the tasks of the dataset
          StatesPerTask, NegativesPerState, MaxTasks

VARIABLES
    sampler,      \* which of the three
    stock,        \* tasks of each stratum
    wanted,       \* draws asked for
    round,        \* strata not yet served in this round
    drawn,        \* draws from each stratum
    tasks,        \* tasks of the dataset so far
    cursor,       \* invalid_cursor
    negatives,    \* negatives of each kind
    challenges    \* hidden ledger collisions among them

drawVars == <<stock, wanted, round, drawn>>
validityVars == <<tasks, cursor, negatives, challenges>>
vars == <<sampler, drawVars, validityVars>>

Kinds == <<"schema", "grounding", "precondition", "safety">>

-----------------------------------------------------------------------------
(* Draws *)

\* One pair for each of the counted tasks, or draws, of a stratum.
Counted(count) == UNION {{s} \X (1..count[s]) : s \in Strata}

Available == Cardinality(Counted(stock))
Drawn == Cardinality(Counted(drawn))

\* The sampler without replacement stops at the end of the stock.
Limit == IF sampler = "progress" /\ Available < wanted THEN Available ELSE wanted

InStock(s) == sampler = "progress" => drawn[s] < stock[s]

Init ==
    /\ sampler \in {"progress", "schedule", "validity"}
    /\ stock \in [Strata -> IF sampler = "validity" THEN {1} ELSE 1..MaxStock]
    /\ wanted \in IF sampler = "validity" THEN {1} ELSE 1..MaxDraws
    /\ round = {}
    /\ drawn = [s \in Strata |-> 0]
    /\ tasks = 0 /\ cursor = 0 /\ challenges = 0
    /\ negatives = [k \in ToSet(Kinds) |-> 0]

\* The strata of the next round; with none left the sampler raises.
StartRound ==
    /\ sampler # "validity"
    /\ round = {}
    /\ Drawn < Limit
    /\ round' = {s \in Strata : InStock(s)}
    /\ UNCHANGED <<sampler, stock, wanted, drawn, validityVars>>

\* Mutant: a stratum stays in the round until its stock is used up.
ServedWhenEmpty(s) == IF drawn[s] + 1 < stock[s] THEN round ELSE round \ {s}

Served(s) == round \ {s}

\* Position drawn % size in the stratum's shuffled list.
Draw ==
    /\ Drawn < Limit
    /\ \E s \in round :
         /\ drawn' = [drawn EXCEPT ![s] = @ + 1]
         /\ round' = Served(s)
    /\ UNCHANGED <<sampler, stock, wanted, validityVars>>

-----------------------------------------------------------------------------
(* The action-validity dataset *)

\* round(x / y) of Python: to the nearest, and to the even of two.
Rounded(x, y) ==
    LET low == x \div y
        twice == 2 * (x % y)
    IN  IF twice > y \/ (twice = y /\ low % 2 = 1) THEN low + 1 ELSE low

\* Mutant: positions are rounded down, in steps of a whole plan.
PositionsDown(length) == [i \in 0..(StatesPerTask - 1) |-> (i * length) \div StatesPerTask]

\* _state_positions
Positions(length) ==
    [i \in 0..(StatesPerTask - 1) |->
       IF StatesPerTask = 1 THEN 0 ELSE Rounded(i * (length - 1), StatesPerTask - 1)]

\* The kind of a task's negative and the plan position at which it is taken.
Negative(i, length) ==
    [kind |-> Kinds[((cursor + i) % 4) + 1],
     position |-> Positions(length)[i \div NegativesPerState]]

\* At the last operation a safety negative is the hidden ledger collision.
IsChallenge(negative, length) ==
    negative.kind = "safety" /\ negative.position = length - 1

SampleTask ==
    /\ sampler = "validity"
    /\ tasks < MaxTasks
    /\ \E length \in PlanLengths :
         LET slots == 0..(StatesPerTask * NegativesPerState - 1)
             ofKind(k) == {i \in slots : Negative(i, length).kind = k}
         IN  /\ negatives' = [k \in DOMAIN negatives |-> negatives[k] + Cardinality(ofKind(k))]
             /\ challenges' = challenges +
                  Cardinality({i \in slots : IsChallenge(Negative(i, length), length)})
             /\ cursor' = cursor + Cardinality(slots)
    /\ tasks' = tasks + 1
    /\ UNCHANGED <<sampler, drawVars>>

Next == StartRound \/ Draw \/ SampleTask

Spec == Init /\ [][Next]_vars

-----------------------------------------------------------------------------
(* Properties *)

\* No stratum gets ahead of another by more than one draw, unless that one is
\* used up, no task is drawn twice before all tasks of its stratum have been
\* drawn once, and the sampler without replacement never "exhausted tasks
\* early".
EvenlyDrawn ==
    /\ \A s, u \in Strata :
         drawn[s] > drawn[u] + 1 => sampler = "progress" /\ drawn[u] = stock[u]
    /\ sampler = "progress" => \A s \in Strata : drawn[s] <= stock[s]
    /\ sampler = "progress" /\ Drawn < Limit => \E s \in Strata : InStock(s)

\* With five states of two negatives each, whatever the lengths of the plans,
\* the kinds of negatives stay balanced across the dataset, each task's states
\* are distinct positions that include the last, and every second task, and
\* only it, ends with a hidden ledger collision: "500 hidden-ledger collision"
\* among the 1000 tasks (README.md:195).
EverySecondTaskChallenged ==
    sampler = "validity" =>
      /\ challenges = tasks \div 2
      /\ \A j, k \in DOMAIN negatives : negatives[j] <= negatives[k] + (tasks % 2)
      /\ \A length \in PlanLengths :
           Cardinality({Positions(length)[i] : i \in DOMAIN Positions(length)}) = StatesPerTask

=============================================================================
