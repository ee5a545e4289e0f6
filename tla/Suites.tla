------------------------------- MODULE Suites -------------------------------
(***************************************************************************)
(* How a v1.4 split is put together and accepted: generate_counterfactual_ *)
(* tasks builds the groups family by family, validate_counterfactual_      *)
(* groups gates them, and _select_progress_tasks draws the training set of *)
(* the progress estimator.  The gate walks one shortest plan of each group *)
(* and counts the states that leave a choice; that walk is a part of the   *)
(* module, because how many it finds depends on the plan.                  *)
(*                                                                         *)
(* A group is identified by its family, its tier and its ordinal in that   *)
(* cell, which determine its length and its topology.                      *)
(***************************************************************************)
EXTENDS Benchmark, SequencesExt

CONSTANTS Sizes,     \* group counts of the splits that are built
          Walked     \* lengths of the plans that are walked

VARIABLES
    topology, length,  \* the plan that is walked
    committed,         \* its operations done so far
    choices,           \* states of the walk with several optimal actions
    split, size,       \* the split that is built
    family,            \* the next family
    groups,
    verdict            \* of the gate and of the progress sampler

walkVars == <<topology, length, committed, choices>>
suiteVars == <<split, size, family, groups, verdict>>
vars == <<walkVars, suiteVars>>

-----------------------------------------------------------------------------
(* The walk of one plan *)

Plan == Predecessors14(topology, length)

WalkInit ==
    /\ topology \in ToSet(Topologies)
    /\ length \in Walked
    /\ committed = {}
    /\ choices = 0

\* One oracle call: any operation that comes next in some legal order.
Walk ==
    \E i \in Ready(Plan, committed) :
      /\ committed' = committed \cup {i}
      /\ choices' = choices + IF Cardinality(Ready(Plan, committed)) >= 2 THEN 1 ELSE 0
      /\ UNCHANGED <<topology, length, suiteVars>>

\* How many choices every shortest plan of a topology leaves at least, the two
\* interchangeable checkpoints included.
LeastChoices(topo, len) ==
    LET size14 == len - 3 IN
    1 + CASE topo = "diamond_tail" -> 1
          [] topo = "fanout_gate" -> size14 - 2
          [] topo = "dual_lane" -> size14 \div 2
          [] topo = "dual_root_mesh" -> 1

-----------------------------------------------------------------------------
(* Building and gating a split *)

SuiteInit ==
    /\ split \in Splits
    /\ size \in Sizes
    /\ family = 0
    /\ groups = {}
    /\ verdict = "building"

FamilySize == Allocated(size, family)

\* Mutant: the last of the tiers takes all that the division leaves over.
CellsRest(f) ==
    LET whole(t) == (FamilySize * Weight(t)) \div 10
        count(t) == IF t = "long" THEN FamilySize - whole("short") - whole("medium") ELSE whole(t)
    IN  UNION {{[family |-> f, tier |-> t, ordinal |-> o] : o \in 0..(count(t) - 1)} : t \in Tiers}

\* The groups of one family: their seeds are shuffled, their cells are not.
Cells(f) ==
    UNION {{[family |-> f, tier |-> t, ordinal |-> o] :
              o \in 0..(TierCount(FamilySize, t) - 1)} : t \in Tiers}

LengthOf(g) == Length(g.tier, g.ordinal)

TopologyOf(g) == Topology(split, g.family, g.ordinal)

BuildFamily ==
    /\ family < Families
    /\ groups' = groups \cup Cells(family)
    /\ family' = family + 1
    /\ UNCHANGED <<walkVars, split, size, verdict>>

ExpertStates == MapThenSumSet(LengthOf, groups)

\* validate_counterfactual_groups: at least a fifth of the expert states has
\* several optimal actions.  Which plan a group is walked along is open.
Gate ==
    /\ family = Families
    /\ verdict = "building"
    /\ LET least(g) == LeastChoices(TopologyOf(g), LengthOf(g)) IN
       verdict' \in {"accepted"} \cup IF 5 * MapThenSumSet(least, groups) < ExpertStates THEN {"refused"} ELSE {}
    /\ UNCHANGED <<walkVars, split, size, family, groups>>

Stratum(g) == <<g.family, g.tier, TopologyOf(g)>>

Strata == {Stratum(g) : g \in groups}

\* _select_progress_tasks: one group of four from each of exactly 90 strata of
\* the training split, all of exactly 100 groups of the development split.
SelectProgress ==
    /\ verdict = "accepted"
    /\ verdict' = IF \/ split = "train" /\ Cardinality(Strata) = 90
                     \/ split = "dev" /\ Cardinality(groups) = 100
                  THEN "selected" ELSE "not selected"
    /\ UNCHANGED <<walkVars, split, size, family, groups>>

Build == BuildFamily \/ Gate \/ SelectProgress

-----------------------------------------------------------------------------
(* Properties *)

\* Every shortest plan of every topology and length offers the choices that
\* the quota of the gate counts on, whatever order the hashes sort it into,
\* and there are at least four such plans (two for v1.3), as the gates demand.
PlansLeaveChoices ==
    /\ committed = DOMAIN Plan => choices >= LeastChoices(topology, length)
    /\ committed = {} =>
         /\ IsAcyclic(Plan) /\ IsAcyclic(Predecessors13(topology, length))
         /\ Cardinality(LegalOrders(Plan, 4)) = 4
         /\ Cardinality(LegalOrders(Predecessors13(topology, length), 2)) = 2

\* No size of a split makes its own gate refuse it, and a training split can
\* supply the progress estimator exactly from the size on at which every cell
\* has three groups, although no count of a cell depends on the others.
EverySizeIsUsable ==
    /\ verdict # "refused"
    /\ verdict # "building" => Cardinality(groups) = size
    /\ split = "train" /\ verdict \in {"selected", "not selected"} =>
         (verdict = "selected" <=> size >= 90)
    /\ split = "dev" => (verdict = "selected" => size = 100)

=============================================================================
