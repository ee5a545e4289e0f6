-------------------------- MODULE Training_proofs --------------------------
(***************************************************************************)
(* What holds in every seed of training, for every matrix of variants and  *)
(* all settings that TrainingConfig allows.                                *)
(*                                                                         *)
(* The invariant says, phase by phase, whose weights are where: the shared *)
(* models rest while a variant is trained, the variant's weights are the   *)
(* behaviour model's and one step more for each update counted, and the    *)
(* rollouts carry the weights that the update of the iteration set out     *)
(* from.  Beside it, every unit of an epoch has been used once in each     *)
(* epoch so far, but for those of the current one still to come.           *)
(***************************************************************************)
EXTENDS Training, FiniteSetTheorems, TLAPS

Weights == Nat \cup {NaN, None}

Trainers == {"copy", "action", "sequence"}

\* What is kept of an episode, as far as its type goes.
Rollouts == [steps : 1..2, weights : Weights]

Payloads == [trainer : Trainers, before : Nat, after : Nat, updates : Nat, steps : Nat]

TypeCorrect ==
    /\ pc \in {"collect", "update", "raised", "done"}
    /\ weights \in [bc : Nat, progress : Nat \cup {NaN}, variant : Weights]
    /\ epoch \in Nat \ {0}
    /\ iteration \in Nat
    /\ rollouts \in Seq(Rollouts)
    /\ updates \in Seq(Nat)
    /\ rolloutSteps \in Nat

\* pc and trainer tell where the seed is.
AtWork == pc \in {"collect", "update"}

Shared == trainer \in {"bc", "progress"}

\* While the shared models are trained there is no variant yet; the estimator
\* alone may be poisoned, and only until it is looked at.
SharedPhase ==
    AtWork /\ Shared =>
      pc = "update" /\ rollouts = <<>> /\ updates = <<>> /\ saved = <<>>

\* A variant's weights are accounted for.
VariantPhase ==
    AtWork /\ ~Shared =>
      /\ Len(saved) < Len(Matrix)
      /\ trainer = Matrix[Len(saved) + 1]
      /\ weights.variant = weights.bc + SumUpdates(updates)
      /\ trainer = "copy" => pc = "collect" /\ updates = <<>>

\* Rollouts are the variant's own.
OwnRollouts ==
    AtWork /\ ~Shared =>
      /\ pc = "collect" => \A i \in DOMAIN rollouts : rollouts[i].weights = weights.variant
      /\ pc = "update" =>
           /\ updates # <<>>
           /\ \A i \in DOMAIN rollouts : weights.variant = rollouts[i].weights + Last(updates)

\* What has been collected carries numbers.
FiniteRollouts == \A i \in DOMAIN rollouts : rollouts[i].weights \in Nat

\* The estimator is sound once it has been looked at.
EstimatorSound == trainer \notin {"bc", "progress"} => weights.progress # NaN

\* The payloads so far.
PayloadsKept ==
    /\ saved \in Seq(Payloads)
    /\ Len(saved) <= Len(Matrix)
    /\ PayloadsAddUp

\* The rows and steps that are counted are finite sets.
Countable ==
    /\ IsFiniteSet(Rows(rollouts))
    /\ IsFiniteSet(OptimizerSteps(updates))

\* In the e-th epoch, a unit has been used e times, or is about to be.
UsesCounted ==
    pc = "update" =>
      /\ IsFiniteSet(DOMAIN used)
      /\ unseen \subseteq DOMAIN used
      /\ used = [u \in DOMAIN used |-> IF u \in unseen THEN epoch - 1 ELSE epoch]

Inv ==
    /\ TypeCorrect /\ SharedPhase /\ VariantPhase /\ OwnRollouts /\ FiniteRollouts
    /\ EstimatorSound /\ PayloadsKept /\ Countable /\ UsesCounted

-----------------------------------------------------------------------------
(* Sets that are counted *)

\* A finite set has a subset of every smaller size.
LEMMA SmallerSubset ==
  ASSUME NEW S, IsFiniteSet(S), NEW k \in Nat, k <= Cardinality(S)
  PROVE  \E T \in SUBSET S : Cardinality(T) = k
<1>1. Cardinality(S) \in Nat /\ ExistsBijection(1..Cardinality(S), S)
  BY FS_CardinalityType
<1>2. PICK n \in Nat : n = Cardinality(S)
  BY <1>1
<1>3. PICK f \in Bijection(1..n, S) : TRUE
  BY <1>1, <1>2 DEF ExistsBijection
<1>4. /\ f \in [1..n -> S]
      /\ \A i, j \in 1..n : f[i] = f[j] => i = j
  BY <1>3 DEF Bijection, Injection, Surjection, IsInjective
<1> DEFINE T == {f[i] : i \in 1..k}
           g == [i \in 1..k |-> f[i]]
<1>5. 1..k \subseteq 1..n
  BY <1>2
<1>6. g \in Bijection(1..k, T)
  BY <1>4, <1>5 DEF Bijection, Injection, Surjection, IsInjective
<1>7. ExistsBijection(1..k, T)
  BY <1>6 DEF ExistsBijection
<1>8. Cardinality(T) = k
  BY <1>7, FS_CountingElements
<1>9. T \in SUBSET S
  BY <1>4, <1>5
<1> QED
  BY <1>8, <1>9

LEMMA MinOfTwo ==
  ASSUME NEW a \in Int, NEW b \in Int
  PROVE  Min({a, b}) = IF a <= b THEN a ELSE b
  BY DEF Min

\* Only an empty set of units has no next minibatch: a rest that does not fill
\* one is a minibatch all the same.
LEMMA NoMinibatchLeft ==
  ASSUME NEW rest, IsFiniteSet(rest), Minibatches(rest) = {}
  PROVE  rest = {}
<1> SUFFICES ASSUME rest # {}
             PROVE  FALSE
  OBVIOUS
<1>1. PICK n \in Nat : n = Cardinality(rest)
  BY FS_CardinalityType
<1>2. n # 0
  BY <1>1, FS_EmptySet
<1>3. PICK k \in Nat : k = Min({BatchSize, Cardinality(rest)}) /\ k <= n /\ k # 0
  BY <1>1, <1>2, MinOfTwo, SettingsAssumption
<1>4. PICK b \in SUBSET rest : Cardinality(b) = k
  BY <1>1, <1>3, SmallerSubset
<1>5. b # {}
  BY <1>3, <1>4, FS_EmptySet
<1> QED
  BY <1>3, <1>4, <1>5 DEF Minibatches

LEMMA OptimizerStep ==
  ASSUME NEW each, NEW s
  PROVE  s \in OptimizerSteps(each)
           <=> \E i \in DOMAIN each : \E k \in 1..each[i] : s = <<i, k>>
  BY DEF OptimizerSteps

LEMMA Row ==
  ASSUME NEW episodes, NEW r
  PROVE  r \in Rows(episodes)
           <=> \E i \in DOMAIN episodes : \E k \in 1..episodes[i].steps : r = <<i, k>>
  BY DEF Rows

LEMMA NothingYet ==
  /\ IsFiniteSet(Rows(<<>>)) /\ IsFiniteSet(OptimizerSteps(<<>>))
  /\ SumUpdates(<<>>) = 0
<1>1. Rows(<<>>) = {} /\ OptimizerSteps(<<>>) = {}
  BY DEF Rows, OptimizerSteps
<1> QED
  BY <1>1, FS_EmptySet DEF SumUpdates

\* An update that has not made a step yet counts for nothing.
LEMMA SumOfAppended ==
  ASSUME NEW each \in Seq(Nat)
  PROVE  OptimizerSteps(Append(each, 0)) = OptimizerSteps(each)
<1> DEFINE more == Append(each, 0)
<1>1. /\ DOMAIN more = DOMAIN each \cup {Len(each) + 1}
      /\ \A i \in DOMAIN each : more[i] = each[i]
      /\ more[Len(each) + 1] = 0
  OBVIOUS
<1>2. 1..0 = {}
  OBVIOUS
<1>3. \A s : s \in OptimizerSteps(more) <=> s \in OptimizerSteps(each)
  <2> HIDE DEF more
  <2> QED
    BY <1>1, <1>2, OptimizerStep
<1> QED
  BY <1>3

\* One more step of the last update is one more in all.
LEMMA SumOfLonger ==
  ASSUME NEW each \in Seq(Nat), each # <<>>, IsFiniteSet(OptimizerSteps(each)),
         NEW more, DOMAIN more = DOMAIN each,
         \A i \in DOMAIN each : more[i] = IF i = Len(each) THEN each[i] + 1 ELSE each[i]
  PROVE  /\ IsFiniteSet(OptimizerSteps(more))
         /\ SumUpdates(more) = SumUpdates(each) + 1
<1>1. PICK n \in Nat, x \in Nat : n = Len(each) /\ n \in DOMAIN each /\ x = each[n]
  OBVIOUS
<1>2. /\ DOMAIN more = DOMAIN each
      /\ \A i \in DOMAIN each : i # n => more[i] = each[i]
      /\ more[n] = x + 1
  BY <1>1
<1>3. 1..(x + 1) = 1..x \cup {x + 1} /\ x + 1 \notin 1..x
  OBVIOUS
<1>4. \A s : s \in OptimizerSteps(more) <=> s \in OptimizerSteps(each) \/ s = <<n, x + 1>>
  <2>1. ASSUME NEW s \in OptimizerSteps(more)
        PROVE  s \in OptimizerSteps(each) \/ s = <<n, x + 1>>
    <3>1. PICK i \in DOMAIN more : \E k \in 1..more[i] : s = <<i, k>>
      BY OptimizerStep
    <3>2. PICK k \in 1..more[i] : s = <<i, k>>
      BY <3>1
    <3>3. CASE i = n
      BY <1>1, <1>2, <1>3, <3>2, <3>3, OptimizerStep
    <3>4. CASE i # n
      BY <1>2, <3>2, <3>4, OptimizerStep
    <3> QED
      BY <3>3, <3>4
  <2>2. ASSUME NEW s \in OptimizerSteps(each)
        PROVE  s \in OptimizerSteps(more)
    <3>1. PICK i \in DOMAIN each : \E k \in 1..each[i] : s = <<i, k>>
      BY OptimizerStep
    <3>2. PICK k \in 1..each[i] : s = <<i, k>>
      BY <3>1
    <3>3. k \in 1..more[i]
      BY <1>1, <1>2, <1>3, <3>1, <3>2
    <3> QED
      BY <1>2, <3>2, <3>3, OptimizerStep
  <2>3. <<n, x + 1>> \in OptimizerSteps(more)
    BY <1>1, <1>2, <1>3, OptimizerStep
  <2> QED
    BY <2>1, <2>2, <2>3
<1>5. OptimizerSteps(more) = OptimizerSteps(each) \cup {<<n, x + 1>>}
  BY <1>4
<1>6. <<n, x + 1>> \notin OptimizerSteps(each)
  BY <1>1, <1>3, OptimizerStep
<1>7. IsFiniteSet(OptimizerSteps(more))
  BY <1>5, FS_AddElement
<1>8. Cardinality(OptimizerSteps(more)) = Cardinality(OptimizerSteps(each)) + 1
  BY <1>5, <1>6, FS_AddElement
<1> QED
  BY <1>7, <1>8 DEF SumUpdates

\* One more episode brings finitely many rows.
LEMMA RowsOfAppended ==
  ASSUME NEW episodes \in Seq(Rollouts), IsFiniteSet(Rows(episodes)), NEW e \in Rollouts
  PROVE  IsFiniteSet(Rows(Append(episodes, e)))
<1> DEFINE n == Len(episodes) + 1
           more == Append(episodes, e)
<1>1. /\ DOMAIN more = DOMAIN episodes \cup {n}
      /\ \A i \in DOMAIN episodes : more[i] = episodes[i]
      /\ more[n] = e
  OBVIOUS
<1>2. 1..e.steps \subseteq {1, 2}
  BY DEF Rollouts
<1>3. Rows(more) \subseteq Rows(episodes) \cup {<<n, 1>>} \cup {<<n, 2>>}
  <2> HIDE DEF more, n
  <2>1. ASSUME NEW r \in Rows(more)
        PROVE  r \in Rows(episodes) \/ r = <<n, 1>> \/ r = <<n, 2>>
    <3>1. PICK i \in DOMAIN more : \E k \in 1..more[i].steps : r = <<i, k>>
      BY Row
    <3>2. CASE i = n
      BY <1>1, <1>2, <3>1, <3>2
    <3>3. CASE i # n
      BY <1>1, <3>1, <3>3, Row
    <3> QED
      BY <3>2, <3>3
  <2> QED
    BY <2>1
<1>4. IsFiniteSet(Rows(episodes) \cup {<<n, 1>>} \cup {<<n, 2>>})
  BY FS_AddElement
<1> QED
  BY <1>3, <1>4, FS_Subset

-----------------------------------------------------------------------------
(* What the invariant says of the state at hand *)

LEMMA MatrixEntries ==
  /\ Len(Matrix) \in Nat /\ DOMAIN Matrix = 1..Len(Matrix)
  /\ \A v \in 1..Len(Matrix) : Matrix[v] \in Trainers
  BY SettingsAssumption DEF Trainers

LEMMA VariantAtWork ==
  ASSUME Inv, AtWork, ~Shared
  PROVE  /\ weights.variant \in Nat /\ weights.progress # NaN
         /\ SumUpdates(updates) \in Nat
         /\ Len(saved) \in Nat /\ Len(saved) + 1 \in 1..Len(Matrix)
         /\ trainer \in Trainers
<1>1. SumUpdates(updates) \in Nat
  BY FS_CardinalityType DEF Inv, Countable, SumUpdates
<1>2. weights.variant \in Nat
  BY <1>1 DEF Inv, VariantPhase, TypeCorrect
<1>3. Len(saved) \in Nat /\ Len(saved) + 1 \in 1..Len(Matrix)
  BY MatrixEntries DEF Inv, VariantPhase, PayloadsKept
<1> QED
  BY <1>1, <1>2, <1>3, MatrixEntries DEF Inv, VariantPhase, EstimatorSound, Shared

\* Every epoch begins with all units unused in it.
LEMMA FreshIsCounted ==
  ASSUME NEW t, NEW episodes \in Seq(Rollouts), IsFiniteSet(Rows(episodes)),
         Fresh(t, episodes)
  PROVE  UsesCounted' /\ epoch' \in Nat \ {0}
<1>1. PICK units : units = Units(t, episodes)
  OBVIOUS
<1>2. IsFiniteSet(units)
  <2>1. IsFiniteSet(DOMAIN episodes) /\ IsFiniteSet(1..Examples)
    BY FS_Interval, SettingsAssumption
  <2> QED
    BY <1>1, <2>1 DEF Units
<1>3. epoch' = 1 /\ unseen' = units /\ used' = [u \in units |-> 0]
  BY <1>1 DEF Fresh
<1> QED
  BY <1>2, <1>3 DEF UsesCounted

\* When an epoch is over, every unit has been used as often as there were epochs.
LEMMA AllUnitsUsed ==
  ASSUME Inv, EpochIsOver
  PROVE  unseen = {} /\ used = [u \in DOMAIN used |-> epoch]
<1>1. IsFiniteSet(unseen)
  BY FS_Subset DEF Inv, UsesCounted, EpochIsOver
<1>2. unseen = {}
  BY <1>1, NoMinibatchLeft DEF EpochIsOver
<1> QED
  BY <1>2 DEF Inv, UsesCounted, EpochIsOver

-----------------------------------------------------------------------------
(* The steps *)

LEMMA InitInv == Init => Inv
<1> SUFFICES ASSUME Init
             PROVE  Inv
  OBVIOUS
<1>1. /\ pc = "update" /\ trainer = "bc" /\ epoch = 1 /\ iteration = 0
      /\ weights = [bc |-> 0, progress |-> 0, variant |-> None]
      /\ rollouts = <<>> /\ updates = <<>> /\ rolloutSteps = 0 /\ saved = <<>>
  BY DEF Init
<1>2. UsesCounted
  <2>1. PICK units : units = Units("bc", <<>>)
    OBVIOUS
  <2>2. unseen = units /\ used = [u \in units |-> 0]
    BY <2>1 DEF Init
  <2>3. units = 1..Examples
    BY <2>1 DEF Units
  <2>4. IsFiniteSet(1..Examples)
    BY FS_Interval, SettingsAssumption
  <2> QED
    BY <1>1, <2>2, <2>3, <2>4 DEF UsesCounted
<1>3. TypeCorrect
  BY <1>1 DEF TypeCorrect, Weights
<1>4. SharedPhase /\ VariantPhase /\ OwnRollouts /\ FiniteRollouts /\ EstimatorSound
  BY <1>1 DEF SharedPhase, VariantPhase, OwnRollouts, FiniteRollouts, EstimatorSound, Shared
<1>5. PayloadsKept /\ Countable
  BY <1>1, NothingYet, MatrixEntries DEF PayloadsKept, PayloadsAddUp, Countable
<1> QED
  BY <1>2, <1>3, <1>4, <1>5 DEF Inv

\* A minibatch is taken out of the units to come and used once more.
LEMMA BatchIsCounted ==
  ASSUME UsesCounted, pc = "update", epoch \in Nat \ {0}, UNCHANGED epoch,
         NEW batch \in SUBSET unseen, unseen' = unseen \ batch,
         used' = [u \in DOMAIN used |-> used[u] + IF u \in batch THEN 1 ELSE 0]
  PROVE  UsesCounted'
<1>1. DOMAIN used' = DOMAIN used
  OBVIOUS
<1>2. ASSUME NEW u \in DOMAIN used
      PROVE  used'[u] = IF u \in unseen' THEN epoch - 1 ELSE epoch
  <2>1. used[u] = IF u \in unseen THEN epoch - 1 ELSE epoch
    BY DEF UsesCounted
  <2> QED
    BY <2>1
<1> QED
  BY <1>1, <1>2 DEF UsesCounted

LEMMA UpdateStep ==
  ASSUME Inv, Update
  PROVE  Inv'
<1>1. PICK batch \in Minibatches(unseen), finite \in BOOLEAN :
        LET m == Trained(trainer)
            old == weights[m]
        IN
        /\ finite => old # NaN
        /\ IF GradientChecked(trainer) /\ ~finite
           THEN pc' = "raised" /\ UNCHANGED <<weights, loop, updates>>
           ELSE /\ weights' = [weights EXCEPT ![m] = IF finite THEN old + 1 ELSE NaN]
                /\ unseen' = unseen \ batch
                /\ used' = [u \in DOMAIN used |->
                              used[u] + IF u \in batch THEN 1 ELSE 0]
                /\ updates' = IF updates = <<>> THEN <<>>
                              ELSE [updates EXCEPT ![Len(updates)] = @ + 1]
                /\ UNCHANGED <<pc, epoch>>
  BY DEF Update
<1>2. pc = "update" /\ UNCHANGED <<trainer, iteration, rollouts, rolloutSteps, saved>>
  BY DEF Update
<1>3. AtWork /\ (Shared' <=> Shared)
  BY <1>2 DEF AtWork, Shared
<1>4. batch \subseteq unseen
  BY DEF Minibatches
<1>5. CASE GradientChecked(trainer) /\ ~finite
  <2>1. pc' = "raised" /\ UNCHANGED <<weights, epoch, unseen, used, updates>>
    BY <1>1, <1>5 DEF loop
  <2> QED
    BY <1>2, <2>1 DEF Inv, TypeCorrect, SharedPhase, VariantPhase, OwnRollouts,
      FiniteRollouts, EstimatorSound, PayloadsKept, PayloadsAddUp, Countable,
      UsesCounted, AtWork
<1>6. CASE ~(GradientChecked(trainer) /\ ~finite)
  <2>1. PICK m : m = Trained(trainer)
    OBVIOUS
  <2>2. /\ weights' = [weights EXCEPT ![m] = IF finite THEN weights[m] + 1 ELSE NaN]
        /\ finite => weights[m] # NaN
        /\ unseen' = unseen \ batch
        /\ used' = [u \in DOMAIN used |-> used[u] + IF u \in batch THEN 1 ELSE 0]
        /\ updates' = IF updates = <<>> THEN <<>>
                      ELSE [updates EXCEPT ![Len(updates)] = @ + 1]
        /\ UNCHANGED <<pc, epoch>>
    BY <1>1, <1>6, <2>1
  <2>3. UsesCounted'
    BY <1>2, <1>4, <2>2, BatchIsCounted DEF Inv, TypeCorrect
  <2>4. CASE Shared
    <3>1. m = trainer /\ trainer \in {"bc", "progress"}
      BY <2>1, <2>4 DEF Trained, Shared
    <3>2. rollouts = <<>> /\ updates = <<>> /\ saved = <<>>
      BY <1>3, <2>4 DEF Inv, SharedPhase
    <3>3. UNCHANGED <<updates, pc, epoch>>
      BY <2>2, <3>2
    <3>4. finite \/ trainer = "progress"
      BY <1>6 DEF GradientChecked
    <3>5. /\ weights' \in [bc : Nat, progress : Nat \cup {NaN}, variant : Weights]
      <4>1. weights \in [bc : Nat, progress : Nat \cup {NaN}, variant : Weights]
        BY DEF Inv, TypeCorrect
      <4>2. CASE m = "bc"
        <5>1. finite /\ weights' = [weights EXCEPT !["bc"] = weights["bc"] + 1]
          BY <2>2, <3>1, <3>4, <4>2
        <5> QED
          BY <4>1, <5>1
      <4>3. CASE m = "progress"
        <5>1. finite => weights["progress"] \in Nat
          BY <2>2, <4>1, <4>3
        <5>2. weights' = [weights EXCEPT !["progress"] =
                            IF finite THEN weights["progress"] + 1 ELSE NaN]
          BY <2>2, <4>3
        <5> QED
          BY <4>1, <5>1, <5>2
      <4> QED
        BY <3>1, <4>2, <4>3
    <3> QED
      BY <1>2, <1>3, <2>3, <2>4, <3>1, <3>2, <3>3, <3>5, MatrixEntries
      DEF Inv, TypeCorrect, SharedPhase, VariantPhase, OwnRollouts,
        FiniteRollouts, EstimatorSound, PayloadsKept, PayloadsAddUp, Countable
  <2>5. CASE ~Shared
    <3>1. m = "variant" /\ finite
      BY <1>6, <2>1, <2>5 DEF Trained, Own, Shared, GradientChecked
    <3>2. /\ weights.variant \in Nat /\ weights.progress # NaN
          /\ SumUpdates(updates) \in Nat
      BY <1>3, <2>5, VariantAtWork
    <3>3. /\ weights'.variant = weights.variant + 1
          /\ weights'.bc = weights.bc /\ weights'.progress = weights.progress
          /\ weights' \in [bc : Nat, progress : Nat \cup {NaN}, variant : Weights]
      BY <2>2, <3>1, <3>2 DEF Inv, TypeCorrect, Weights
    <3>4. /\ updates # <<>>
          /\ \A i \in DOMAIN rollouts : weights.variant = rollouts[i].weights + Last(updates)
      BY <1>2, <1>3, <2>5 DEF Inv, OwnRollouts
    <3>5. /\ updates \in Seq(Nat) /\ IsFiniteSet(OptimizerSteps(updates))
      BY DEF Inv, TypeCorrect, Countable
    <3>6. updates' = [updates EXCEPT ![Len(updates)] = @ + 1]
      BY <2>2, <3>4
    <3>7. /\ DOMAIN updates' = DOMAIN updates
          /\ \A i \in DOMAIN updates :
               updates'[i] = IF i = Len(updates) THEN updates[i] + 1 ELSE updates[i]
          /\ updates' \in Seq(Nat) /\ updates' # <<>>
          /\ Last(updates) \in Nat /\ Last(updates') = Last(updates) + 1
      BY <3>4, <3>5, <3>6 DEF Last
    <3>8. /\ IsFiniteSet(OptimizerSteps(updates'))
          /\ SumUpdates(updates') = SumUpdates(updates) + 1
      BY <3>4, <3>5, <3>7, SumOfLonger
    <3>9. TypeCorrect' /\ SharedPhase' /\ Countable' /\ EstimatorSound' /\ PayloadsKept'
      BY <1>2, <1>3, <2>2, <2>5, <3>3, <3>7, <3>8
      DEF Inv, TypeCorrect, SharedPhase, Countable, EstimatorSound, PayloadsKept, PayloadsAddUp
    <3>10. FiniteRollouts'
      BY <1>2 DEF Inv, FiniteRollouts
    <3>11. VariantPhase'
      <4>1. /\ Len(saved) < Len(Matrix) /\ trainer = Matrix[Len(saved) + 1]
            /\ weights.variant = weights.bc + SumUpdates(updates) /\ trainer # "copy"
        BY <1>2, <1>3, <2>5 DEF Inv, VariantPhase
      <4>2. SumUpdates(updates)' = SumUpdates(updates) + 1
        BY <3>8 DEF SumUpdates, OptimizerSteps
      <4>3. weights.bc \in Nat
        BY DEF Inv, TypeCorrect
      <4>4. weights'.variant = weights'.bc + SumUpdates(updates')
        <5>1. PICK b \in Nat, s \in Nat : b = weights.bc /\ s = SumUpdates(updates)
          BY <3>2, <4>3
        <5> QED
          BY <3>3, <3>8, <4>1, <5>1
      <4> QED
        BY <1>2, <4>1, <4>4 DEF VariantPhase
    <3>12. OwnRollouts'
      <4>1. \A i \in DOMAIN rollouts : rollouts[i].weights \in Nat
        BY DEF Inv, FiniteRollouts
      <4>2. ASSUME NEW i \in DOMAIN rollouts
            PROVE  weights'.variant = rollouts[i].weights + Last(updates')
        <5>1. PICK r \in Nat, l \in Nat : r = rollouts[i].weights /\ l = Last(updates)
          BY <3>7, <4>1
        <5>2. weights.variant = r + l
          BY <3>4, <5>1
        <5>3. weights'.variant = r + l + 1
          BY <3>3, <5>2
        <5>4. Last(updates') = l + 1
          BY <3>7, <5>1
        <5> QED
          BY <5>1, <5>3, <5>4
      <4> QED
        BY <1>2, <2>2, <3>7, <4>2 DEF OwnRollouts
    <3> QED
      BY <2>3, <3>9, <3>10, <3>11, <3>12 DEF Inv
  <2> QED
    BY <2>4, <2>5
<1> QED
  BY <1>5, <1>6

LEMMA NextEpochStep ==
  ASSUME Inv, NextEpoch
  PROVE  Inv'
<1>1. /\ pc = "update" /\ EpochIsOver /\ epoch' = epoch + 1 /\ unseen' = DOMAIN used
      /\ UNCHANGED <<pc, trainer, weights, used, iteration, rollouts, updates,
                     rolloutSteps, saved>>
  BY DEF NextEpoch, EpochIsOver, counts
<1>2. used = [u \in DOMAIN used |-> epoch] /\ epoch \in Nat \ {0}
  BY <1>1, AllUnitsUsed DEF Inv, TypeCorrect
<1>3. UsesCounted'
  <2>1. used' = [u \in DOMAIN used |-> epoch' - 1]
    BY <1>1, <1>2
  <2> QED
    BY <1>1, <2>1 DEF Inv, UsesCounted
<1>4. TypeCorrect'
  BY <1>1, <1>2 DEF Inv, TypeCorrect
<1> QED
  BY <1>1, <1>3, <1>4
  DEF Inv, SharedPhase, VariantPhase, OwnRollouts, FiniteRollouts, EstimatorSound,
    PayloadsKept, PayloadsAddUp, Countable, AtWork, Shared

LEMMA BehaviorIsTrainedStep ==
  ASSUME Inv, BehaviorIsTrained
  PROVE  Inv'
<1>1. /\ pc = "update" /\ trainer = "bc" /\ trainer' = "progress" /\ Fresh("progress", <<>>)
      /\ UNCHANGED <<pc, weights, iteration, rollouts, updates, rolloutSteps, saved>>
  BY DEF BehaviorIsTrained, UpdateIsOver, EpochIsOver, counts
<1>2. UsesCounted' /\ epoch' \in Nat \ {0}
  <2>1. <<>> \in Seq(Rollouts)
    OBVIOUS
  <2> QED
    BY <1>1, <2>1, FreshIsCounted, NothingYet
<1>3. TypeCorrect'
  BY <1>1, <1>2 DEF Inv, TypeCorrect
<1> QED
  BY <1>1, <1>2, <1>3
  DEF Inv, SharedPhase, VariantPhase, OwnRollouts, FiniteRollouts, EstimatorSound,
    PayloadsKept, PayloadsAddUp, Countable, AtWork, Shared

\* A variant that begins has the behaviour model's weights and nothing else.
LEMMA BeginStep ==
  ASSUME Inv, weights.progress # NaN, NEW done, UNCHANGED loop,
         done \in Seq(Payloads),
         Len(done) <= Len(Matrix),
         \A i \in DOMAIN done : /\ done[i].before = weights.bc
                                /\ done[i].after = done[i].before + done[i].updates
                                /\ done[i].trainer = Matrix[i],
         Begin(Len(done) + 1, done)
  PROVE  Inv'
<1>1. PICK v \in Nat \ {0} : v = Len(done) + 1
  OBVIOUS
<1>2. /\ pc' = IF v > Len(Matrix) THEN "done" ELSE "collect"
      /\ trainer' = IF v > Len(Matrix) THEN None ELSE Matrix[v]
      /\ weights' = [weights EXCEPT !.variant =
                       IF v > Len(Matrix) THEN None ELSE weights.bc]
      /\ rollouts' = <<>> /\ iteration' = 0 /\ updates' = <<>> /\ rolloutSteps' = 0
      /\ saved' = done
      /\ UNCHANGED <<epoch, unseen, used>>
  BY <1>1 DEF Begin, Reset, loop
<1>3. /\ weights'.bc = weights.bc /\ weights'.progress = weights.progress
      /\ weights.bc \in Nat
      /\ weights' \in [bc : Nat, progress : Nat \cup {NaN}, variant : Weights]
      /\ v <= Len(Matrix) => weights'.variant = weights.bc
  <2>1. weights.bc \in Nat /\ weights \in [bc : Nat, progress : Nat \cup {NaN}, variant : Weights]
    BY DEF Inv, TypeCorrect
  <2> QED
    BY <1>2, <2>1 DEF Weights
<1>4. TypeCorrect' /\ UsesCounted' /\ Countable' /\ FiniteRollouts' /\ EstimatorSound'
  BY <1>2, <1>3, NothingYet
  DEF Inv, TypeCorrect, UsesCounted, Countable, FiniteRollouts, EstimatorSound
<1>5. PayloadsKept'
  BY <1>2, <1>3 DEF PayloadsKept, PayloadsAddUp
<1>6. CASE v > Len(Matrix)
  BY <1>2, <1>4, <1>5, <1>6 DEF Inv, AtWork, SharedPhase, VariantPhase, OwnRollouts
<1>7. CASE ~(v > Len(Matrix))
  <2>1. /\ pc' = "collect" /\ trainer' = Matrix[v] /\ v \in 1..Len(Matrix)
        /\ Len(saved') < Len(Matrix) /\ trainer' = Matrix[Len(saved') + 1]
    BY <1>1, <1>2, <1>7, MatrixEntries
  <2>2. trainer' \in Trainers
    BY <2>1, MatrixEntries
  <2>3. ~Shared'
    BY <2>2 DEF Shared, Trainers
  <2>4. VariantPhase'
    BY <1>2, <1>3, <1>7, <2>1, NothingYet DEF VariantPhase
  <2>5. OwnRollouts'
    BY <1>2, <2>1 DEF OwnRollouts
  <2>6. SharedPhase'
    BY <2>3 DEF SharedPhase
  <2> QED
    BY <1>4, <1>5, <2>4, <2>5, <2>6 DEF Inv
<1> QED
  BY <1>6, <1>7

LEMMA EstimatorIsTrainedStep ==
  ASSUME Inv, EstimatorIsTrained
  PROVE  Inv'
<1>1. CASE weights.progress = NaN
  <2>1. /\ pc' = "raised"
        /\ UNCHANGED <<trainer, weights, epoch, unseen, used, iteration, rollouts,
                       updates, rolloutSteps, saved>>
    BY <1>1 DEF EstimatorIsTrained, loop, counts
  <2> QED
    BY <2>1
    DEF Inv, TypeCorrect, SharedPhase, VariantPhase, OwnRollouts, FiniteRollouts,
      EstimatorSound, PayloadsKept, PayloadsAddUp, Countable, UsesCounted, AtWork
<1>2. CASE weights.progress # NaN
  <2>1. Begin(1, <<>>) /\ UNCHANGED loop
    BY <1>2 DEF EstimatorIsTrained
  <2>2. PICK done : done = <<>>
    OBVIOUS
  <2>3. /\ done \in Seq(Payloads)
        /\ Len(done) = 0 /\ Len(done) + 1 = 1 /\ DOMAIN done = {}
    BY <2>2
  <2>4. Len(done) <= Len(Matrix)
    BY <2>3, MatrixEntries
  <2>5. Begin(Len(done) + 1, done)
    BY <2>1, <2>2, <2>3
  <2> QED
    BY <1>2, <2>1, <2>3, <2>4, <2>5, BeginStep
<1> QED
  BY <1>1, <1>2

LEMMA CollectStep ==
  ASSUME Inv, Collect
  PROVE  Inv'
<1>1. PICK steps \in 1..2 :
        rollouts' = Append(rollouts, [steps |-> steps, weights |-> weights[Collector]])
  BY DEF Collect
<1>2. /\ pc = "collect" /\ trainer # "copy"
      /\ UNCHANGED <<pc, trainer, weights, epoch, unseen, used, iteration, updates,
                     rolloutSteps, saved>>
  BY DEF Collect, loop, counts
<1>3. AtWork /\ ~Shared
  BY <1>2 DEF Inv, SharedPhase, AtWork
<1>4. PICK e : e = [steps |-> steps, weights |-> weights.variant]
  OBVIOUS
<1>5. weights.variant \in Nat /\ e \in Rollouts
  BY <1>3, <1>4, VariantAtWork DEF Rollouts, Weights
<1>6. rollouts' = Append(rollouts, e) /\ rollouts \in Seq(Rollouts)
  BY <1>1, <1>4 DEF Collector, Own, Inv, TypeCorrect
<1>7. /\ DOMAIN rollouts' = DOMAIN rollouts \cup {Len(rollouts) + 1}
      /\ \A i \in DOMAIN rollouts : rollouts'[i] = rollouts[i]
      /\ rollouts'[Len(rollouts) + 1] = e
      /\ rollouts' \in Seq(Rollouts)
  BY <1>5, <1>6
<1>8. TypeCorrect' /\ UsesCounted'
  BY <1>2, <1>7 DEF Inv, TypeCorrect, UsesCounted
<1>9. Countable'
  BY <1>2, <1>5, <1>6, RowsOfAppended DEF Inv, Countable
<1>10. OwnRollouts' /\ FiniteRollouts'
  BY <1>2, <1>3, <1>4, <1>5, <1>7 DEF Inv, OwnRollouts, FiniteRollouts
<1> QED
  BY <1>2, <1>3, <1>8, <1>9, <1>10
  DEF Inv, SharedPhase, VariantPhase, EstimatorSound, PayloadsKept, PayloadsAddUp,
    AtWork, Shared

LEMMA StartUpdateStep ==
  ASSUME Inv, StartUpdate
  PROVE  Inv'
<1>1. /\ pc = "collect" /\ trainer # "copy" /\ pc' = "update"
      /\ rolloutSteps' = rolloutSteps + Steps(rollouts)
      /\ Fresh(trainer, rollouts)
      /\ updates' = Append(updates, 0)
      /\ UNCHANGED <<trainer, weights, iteration, rollouts, saved>>
  BY DEF StartUpdate
<1>2. AtWork /\ ~Shared
  BY <1>1 DEF Inv, SharedPhase, AtWork
<1>3. UsesCounted' /\ epoch' \in Nat \ {0}
  BY <1>1, FreshIsCounted DEF Inv, TypeCorrect, Countable
<1>4. /\ updates \in Seq(Nat) /\ updates' \in Seq(Nat) /\ updates' # <<>>
      /\ Last(updates') = 0
  BY <1>1 DEF Inv, TypeCorrect, Last
<1>5. OptimizerSteps(updates') = OptimizerSteps(updates)
  BY <1>1, <1>4, SumOfAppended
<1>6. SumUpdates(updates') = SumUpdates(updates)
  BY <1>5 DEF SumUpdates
<1>7. TypeCorrect'
  <2>1. Steps(rollouts) \in Nat
    BY FS_CardinalityType DEF Inv, Countable, Steps
  <2> QED
    BY <1>1, <1>3, <1>4, <2>1 DEF Inv, TypeCorrect
<1>8. Countable'
  BY <1>1, <1>5 DEF Inv, Countable
<1>9. VariantPhase'
  BY <1>1, <1>2, <1>6 DEF Inv, VariantPhase, Shared
<1>10. OwnRollouts'
  <2>1. ASSUME NEW i \in DOMAIN rollouts
        PROVE  weights.variant = rollouts[i].weights + Last(updates')
    BY <1>1, <1>2, <1>4, VariantAtWork DEF Inv, OwnRollouts
  <2> QED
    BY <1>1, <1>4, <2>1 DEF OwnRollouts
<1> QED
  BY <1>1, <1>2, <1>3, <1>7, <1>8, <1>9, <1>10
  DEF Inv, SharedPhase, FiniteRollouts, EstimatorSound, PayloadsKept, PayloadsAddUp,
    AtWork, Shared

LEMMA NextIterationStep ==
  ASSUME Inv, NextIteration
  PROVE  Inv'
<1>1. /\ pc = "update" /\ trainer \in {"action", "sequence"}
      /\ iteration' = iteration + 1 /\ pc' = "collect" /\ rollouts' = <<>>
      /\ UNCHANGED <<trainer, weights, epoch, unseen, used, updates, rolloutSteps, saved>>
  BY DEF NextIteration, UpdateIsOver, EpochIsOver, loop, counts
<1>2. AtWork /\ ~Shared
  BY <1>1 DEF AtWork, Shared
<1>3. TypeCorrect' /\ UsesCounted'
  BY <1>1 DEF Inv, TypeCorrect, UsesCounted
<1>4. Countable'
  BY <1>1, NothingYet DEF Inv, Countable
<1> QED
  BY <1>1, <1>2, <1>3, <1>4
  DEF Inv, SharedPhase, VariantPhase, OwnRollouts, FiniteRollouts, EstimatorSound,
    PayloadsKept, PayloadsAddUp, AtWork, Shared

LEMMA SaveStep ==
  ASSUME Inv, Save
  PROVE  Inv'
<1>1. /\ AtWork /\ trainer \in Trainers
      /\ Begin(Len(saved) + 2, Append(saved, Payload)) /\ UNCHANGED loop
  BY DEF Save, UpdateIsOver, EpochIsOver, AtWork, Trainers
<1>2. ~Shared
  BY <1>1 DEF Shared, Trainers
<1>3. /\ weights.variant \in Nat /\ weights.progress # NaN /\ SumUpdates(updates) \in Nat
      /\ Len(saved) \in Nat /\ Len(saved) + 1 \in 1..Len(Matrix)
  BY <1>1, <1>2, VariantAtWork
<1>4. weights.bc \in Nat /\ rolloutSteps \in Nat
  BY DEF Inv, TypeCorrect
<1>5. PICK p : p = Payload
  OBVIOUS
<1>6. p = [trainer |-> trainer, before |-> weights.bc, after |-> weights.variant,
           updates |-> SumUpdates(updates), steps |-> rolloutSteps]
  BY <1>5 DEF Payload, Own
<1>7. /\ p.before = weights.bc /\ p.after = p.before + p.updates
      /\ p.trainer = Matrix[Len(saved) + 1]
  BY <1>1, <1>2, <1>6 DEF Inv, VariantPhase
<1>8. PICK done : done = Append(saved, p)
  OBVIOUS
<1>9. /\ saved \in Seq(Payloads)
      /\ p \in Payloads
  BY <1>1, <1>3, <1>4, <1>6 DEF Inv, PayloadsKept, Payloads
<1>10. /\ done \in Seq(Payloads)
       /\ Len(done) = Len(saved) + 1 /\ Len(done) <= Len(Matrix)
       /\ DOMAIN done = DOMAIN saved \cup {Len(saved) + 1}
       /\ \A i \in DOMAIN saved : done[i] = saved[i]
       /\ done[Len(saved) + 1] = p
  <2>1. Len(done) = Len(saved) + 1
    BY <1>8, <1>9
  <2>2. Len(saved) + 1 <= Len(Matrix)
    BY <1>3, MatrixEntries
  <2>3. /\ done \in Seq(Payloads)
        /\ DOMAIN done = DOMAIN saved \cup {Len(saved) + 1}
        /\ \A i \in DOMAIN saved : done[i] = saved[i]
    BY <1>8, <1>9
  <2>4. done[Len(saved) + 1] = p
    BY <1>8, <1>9
  <2> QED
    BY <2>1, <2>2, <2>3, <2>4
<1>11. \A i \in DOMAIN done : /\ done[i].before = weights.bc
                              /\ done[i].after = done[i].before + done[i].updates
                              /\ done[i].trainer = Matrix[i]
  BY <1>7, <1>10 DEF Inv, PayloadsKept, PayloadsAddUp
<1>12. Begin(Len(done) + 1, done)
  <2>1. Len(done) + 1 = Len(saved) + 2
    BY <1>3, <1>10
  <2> QED
    BY <1>1, <1>5, <1>8, <2>1
<1> QED
  BY <1>1, <1>3, <1>10, <1>11, <1>12, BeginStep

LEMMA NextSeedStep ==
  ASSUME Inv, NextSeed
  PROVE  Inv'
<1>1. /\ pc' = "update" /\ trainer' = "bc"
      /\ weights' = [bc |-> 0, progress |-> 0, variant |-> None]
      /\ Fresh("bc", <<>>)
      /\ rollouts' = <<>> /\ iteration' = 0 /\ updates' = <<>> /\ rolloutSteps' = 0
      /\ saved' = <<>>
  BY DEF NextSeed, Reset
<1>2. UsesCounted' /\ epoch' \in Nat \ {0}
  <2>1. <<>> \in Seq(Rollouts)
    OBVIOUS
  <2> QED
    BY <1>1, <2>1, FreshIsCounted, NothingYet
<1>3. TypeCorrect'
  BY <1>1, <1>2 DEF TypeCorrect, Weights
<1>4. SharedPhase' /\ VariantPhase' /\ OwnRollouts' /\ FiniteRollouts' /\ EstimatorSound'
  BY <1>1 DEF SharedPhase, VariantPhase, OwnRollouts, FiniteRollouts, EstimatorSound, Shared
<1>5. PayloadsKept' /\ Countable'
  BY <1>1, NothingYet, MatrixEntries DEF PayloadsKept, PayloadsAddUp, Countable
<1> QED
  BY <1>2, <1>3, <1>4, <1>5 DEF Inv

LEMMA NextInv == Inv /\ [Next]_vars => Inv'
<1> SUFFICES ASSUME Inv, [Next]_vars
             PROVE  Inv'
  OBVIOUS
<1>1. CASE Next
  BY <1>1, UpdateStep, NextEpochStep, BehaviorIsTrainedStep, EstimatorIsTrainedStep,
     CollectStep, StartUpdateStep, NextIterationStep, SaveStep, NextSeedStep
  DEF Next
<1>2. CASE UNCHANGED vars
  BY <1>2
  DEF Inv, TypeCorrect, SharedPhase, VariantPhase, OwnRollouts, FiniteRollouts,
    EstimatorSound, PayloadsKept, PayloadsAddUp, Countable, UsesCounted, AtWork, Shared,
    vars, loop, counts
<1> QED
  BY <1>1, <1>2

-----------------------------------------------------------------------------
(* The theorems *)

\* Every seed keeps the invariant.
THEOREM SeedInvariant == Spec => []Inv
<1> QED
  BY InitInv, NextInv, PTL DEF Spec

\* An epoch shows every unit to the model exactly once, the rest that does not
\* fill a minibatch included, in each of the four update loops.
THEOREM EachUnitOnce == Spec => []EachUnitOncePerEpoch
<1>1. Inv => EachUnitOncePerEpoch
  <2> SUFFICES ASSUME Inv, EpochIsOver, NEW u \in DOMAIN used
               PROVE  used[u] = epoch
    BY DEF EachUnitOncePerEpoch
  <2> QED
    BY AllUnitsUsed
<1> QED
  BY <1>1, SeedInvariant, PTL

\* What PPO learns from was collected by the very weights that the update set
\* out from, in every iteration of train_ppo_variant.
THEOREM AlwaysOnPolicy == Spec => []OnPolicy
<1>1. Inv => OnPolicy
  <2> SUFFICES ASSUME Inv, pc = "update", trainer \in {"action", "sequence"},
                      NEW i \in DOMAIN rollouts
               PROVE  weights.variant = rollouts[i].weights + Last(updates)
    BY DEF OnPolicy, Own
  <2> QED
    BY DEF Inv, OwnRollouts, AtWork, Shared
<1> QED
  BY <1>1, SeedInvariant, PTL

\* No variant's training changes the behaviour model or the estimator.
THEOREM SharedModelsKept == Spec => SharedModelsRest
<1> DEFINE Rest == (pc \in {"collect", "update"} /\ trainer \notin {"bc", "progress"}) =>
                     \A m \in {"bc", "progress"} : weights'[m] = weights[m]
<1>1. Inv /\ [Next]_vars => [Rest]_vars
  <2> SUFFICES ASSUME Inv, Next, AtWork, ~Shared, NEW m \in {"bc", "progress"}
               PROVE  weights'[m] = weights[m]
    BY DEF AtWork, Shared
  <2>1. weights \in [bc : Nat, progress : Nat \cup {NaN}, variant : Weights]
    BY DEF Inv, TypeCorrect
  <2>2. CASE Update
    BY <2>1, <2>2 DEF Update, Trained, Own, Shared
  <2>3. CASE NextEpoch \/ Collect \/ StartUpdate \/ NextIteration
    BY <2>3 DEF NextEpoch, Collect, StartUpdate, NextIteration
  <2>4. CASE Save
    BY <2>1, <2>4 DEF Save, Begin
  <2>5. CASE BehaviorIsTrained \/ EstimatorIsTrained \/ NextSeed
    BY <2>5 DEF BehaviorIsTrained, EstimatorIsTrained, NextSeed, Shared, AtWork
  <2> QED
    BY <2>2, <2>3, <2>4, <2>5 DEF Next
<1> QED
  BY <1>1, SeedInvariant, PTL DEF Spec, SharedModelsRest

\* No poisoned weights go into a rollout, a variant or a payload, although fit()
\* applies every gradient; and each payload accounts for the weights it is
\* written beside, over all iterations.
THEOREM PayloadsSound == Spec => [](NothingNonFiniteLeaves /\ PayloadsAddUp)
<1>1. Inv => NothingNonFiniteLeaves /\ PayloadsAddUp
  <2> SUFFICES ASSUME Inv
               PROVE  NothingNonFiniteLeaves
    BY DEF Inv, PayloadsKept
  <2>1. weights.bc # NaN
    BY SettingsAssumption DEF Inv, TypeCorrect
  <2>2. \A i \in DOMAIN rollouts : rollouts[i].weights # NaN
    BY SettingsAssumption DEF Inv, FiniteRollouts
  <2>3. \A i \in DOMAIN saved : saved[i].after # NaN
    <3>1. \A i \in DOMAIN saved : saved[i].after \in Nat
      <4>1. \A i \in DOMAIN saved : saved[i] \in Payloads
        BY DEF Inv, PayloadsKept
      <4> QED
        BY <4>1 DEF Payloads
    <3> QED
      BY <3>1, SettingsAssumption
  <2> QED
    BY <2>1, <2>2, <2>3 DEF Inv, EstimatorSound, NothingNonFiniteLeaves
<1> QED
  BY <1>1, SeedInvariant, PTL

=============================================================================
