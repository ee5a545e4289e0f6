------------------------ MODULE WorkflowTransactions ------------------------
(***************************************************************************)
(* What the environment promises of one episode, and nothing of how: the   *)
(* operations of a DAG are committed one at a time, each at most once and  *)
(* only after its predecessors; every call, whatever becomes of it, costs  *)
(* one unit of a fixed budget; nothing is committed after the end.         *)
(***************************************************************************)
EXTENDS Naturals

CONSTANTS Nodes, Predecessors, Budget

VARIABLES
    committed,   \* the operations committed so far
    remaining,   \* calls left
    ended        \* the episode is over

avars == <<committed, remaining, ended>>

Init ==
    /\ committed = {}
    /\ remaining = Budget
    /\ ended = FALSE

\* Every call is paid for, and the last affordable one ends the episode.
Spend ==
    /\ ~ended
    /\ remaining > 0
    /\ remaining' = remaining - 1
    /\ ended' \in BOOLEAN
    /\ remaining' = 0 => ended'

Commit(n) ==
    /\ n \notin committed
    /\ Predecessors[n] \subseteq committed
    /\ committed' = committed \cup {n}
    /\ Spend

NoCommit ==
    /\ UNCHANGED committed
    /\ Spend

\* reset(): a new episode of the same task.
Restart ==
    /\ committed' = {}
    /\ remaining' = Budget
    /\ ended' = FALSE

Next == (\E n \in Nodes : Commit(n)) \/ NoCommit \/ Restart

Spec == Init /\ [][Next]_avars
=============================================================================
