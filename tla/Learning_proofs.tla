-------------------------- MODULE Learning_proofs --------------------------
(***************************************************************************)
(* What Training_proofs shows of a seed holds where Learning composes it   *)
(* with the rollouts: nothing that Rollout does touches a seed, and Seed   *)
(* is the very specification that the proofs are about.                    *)
(*                                                                         *)
(* Of the rollouts: trajectories of any length, added in any way, keep     *)
(* their form, and what was collected is complete.  That a copy is well    *)
(* formed if each of its records was accepted in turn is an induction over *)
(* its prefixes; it is one about sets of naturals here (SetInduction).     *)
(*                                                                         *)
(* Of the batches: rows lie trajectory by trajectory, so an episode keeps  *)
(* its own; shaping is divided exactly, so it telescopes; and the backward *)
(* pass is the only function that satisfies its recursion, so it is the    *)
(* discounted sum of errors that it is defined to be.                      *)
(***************************************************************************)
EXTENDS Learning, FiniteSetTheorems, FunctionTheorems, SequenceTheorems, WellFoundedInduction, TLAPS

Proofs == INSTANCE Training_proofs

-----------------------------------------------------------------------------
(* Seed and Proofs are instances of the same definitions *)

LEMMA SameSeed ==
  /\ Seed!Init <=> Proofs!Init
  /\ Seed!Next <=> Proofs!Next
  /\ Seed!vars = Proofs!vars
<1> USE DEF
    Seed!Rows, Proofs!Rows, Seed!Steps, Proofs!Steps, Seed!Cardinality,
    Proofs!Cardinality, Seed!Units, Proofs!Units, Seed!Fresh,
    Proofs!Fresh, Seed!Reset, Proofs!Reset, Seed!loop, Proofs!loop,
    Seed!counts, Proofs!counts, Seed!Own, Proofs!Own, Seed!Trained,
    Proofs!Trained, Seed!GradientChecked, Proofs!GradientChecked,
    Seed!Min, Proofs!Min, Seed!Minibatches, Proofs!Minibatches,
    Seed!EpochIsOver, Proofs!EpochIsOver, Seed!UpdateIsOver,
    Proofs!UpdateIsOver, Seed!Begin, Proofs!Begin, Seed!Collector,
    Proofs!Collector, Seed!OptimizerSteps, Proofs!OptimizerSteps,
    Seed!SumUpdates, Proofs!SumUpdates, Seed!Payload, Proofs!Payload,
    Seed!PayloadRefused, Proofs!PayloadRefused
<1>1. Seed!Init <=> Proofs!Init
  BY DEF Seed!Init, Proofs!Init
<1>2. Seed!Update <=> Proofs!Update
  BY DEF Seed!Update, Proofs!Update
<1>3. Seed!NextEpoch <=> Proofs!NextEpoch
  BY DEF Seed!NextEpoch, Proofs!NextEpoch
<1>4. Seed!BehaviorIsTrained <=> Proofs!BehaviorIsTrained
  BY DEF Seed!BehaviorIsTrained, Proofs!BehaviorIsTrained
<1>5. Seed!EstimatorIsTrained <=> Proofs!EstimatorIsTrained
  BY DEF Seed!EstimatorIsTrained, Proofs!EstimatorIsTrained
<1>6. Seed!Collect <=> Proofs!Collect
  BY DEF Seed!Collect, Proofs!Collect
<1>7. Seed!StartUpdate <=> Proofs!StartUpdate
  BY DEF Seed!StartUpdate, Proofs!StartUpdate
<1>8. Seed!NextIteration <=> Proofs!NextIteration
  BY DEF Seed!NextIteration, Proofs!NextIteration
<1>9. Seed!Save <=> Proofs!Save
  BY DEF Seed!Save, Proofs!Save
<1>10. Seed!NextSeed <=> Proofs!NextSeed
  BY DEF Seed!NextSeed, Proofs!NextSeed
<1>11. Seed!vars = Proofs!vars
  BY DEF Seed!vars, Proofs!vars
<1> QED
  BY <1>1, <1>2, <1>3, <1>4, <1>5, <1>6, <1>7, <1>8, <1>9, <1>10, <1>11
  DEF Seed!Next, Proofs!Next

\* Learning lets a seed take its own steps and no others.
LEMMA SeedIsComposed == LearningSpec => Proofs!Spec
<1>1. LearningInit => Proofs!Init
  BY SameSeed DEF LearningInit
<1>2. [LearningNext]_<<part, seedVars, vars>> => [Proofs!Next]_Proofs!vars
  BY SameSeed DEF LearningNext, seedVars, Proofs!vars, Proofs!loop, Proofs!counts
<1> QED
  BY <1>1, <1>2, PTL DEF LearningSpec, Proofs!Spec

-----------------------------------------------------------------------------
(* The theorems *)

\* In each of the four update loops an epoch uses every row or episode once,
\* whatever their number and the size of a minibatch.
THEOREM EpochsAreComplete == LearningSpec => []EachUnitOncePerEpoch
<1>1. Proofs!EachUnitOncePerEpoch <=> EachUnitOncePerEpoch
  BY DEF EachUnitOncePerEpoch, Seed!EachUnitOncePerEpoch, Proofs!EachUnitOncePerEpoch,
    Seed!EpochIsOver, Proofs!EpochIsOver, Seed!Minibatches, Proofs!Minibatches,
    Seed!Min, Proofs!Min, Seed!Cardinality, Proofs!Cardinality
<1>2. Proofs!Spec => []Proofs!EachUnitOncePerEpoch
  BY Proofs!EachUnitOnce, SettingsAssumption
<1> QED
  BY <1>1, <1>2, SeedIsComposed, PTL

\* PPO learns from rollouts of its own weights, in every iteration.
THEOREM AlwaysOnPolicy == LearningSpec => []OnPolicy
<1>1. Proofs!OnPolicy <=> OnPolicy
  BY DEF OnPolicy, Seed!OnPolicy, Proofs!OnPolicy, Seed!Own, Proofs!Own,
    Seed!Last, Proofs!Last
<1>2. Proofs!Spec => []Proofs!OnPolicy
  BY Proofs!AlwaysOnPolicy, SettingsAssumption
<1> QED
  BY <1>1, <1>2, SeedIsComposed, PTL

\* No variant's training changes the models that all variants share.
THEOREM SharedModelsKept == LearningSpec => SharedModelsRest
<1>1. Proofs!Spec => Proofs!SharedModelsRest
  BY Proofs!SharedModelsKept, SettingsAssumption
<1>2. Proofs!SharedModelsRest => SharedModelsRest
  BY DEF SharedModelsRest, Seed!SharedModelsRest, Proofs!SharedModelsRest,
    Seed!vars, Proofs!vars, Seed!loop, Proofs!loop, Seed!counts, Proofs!counts
<1> QED
  BY <1>1, <1>2, SeedIsComposed

\* Non-finite weights go nowhere, and a payload accounts for every optimizer
\* step behind its weights, over any number of iterations.
THEOREM PayloadsStaySound == LearningSpec => []PayloadsAreSound
<1>1. Proofs!NothingNonFiniteLeaves /\ Proofs!PayloadsAddUp <=> PayloadsAreSound
  BY DEF PayloadsAreSound, Seed!NothingNonFiniteLeaves, Proofs!NothingNonFiniteLeaves,
    Seed!PayloadsAddUp, Proofs!PayloadsAddUp
<1>2. Proofs!Spec => [](Proofs!NothingNonFiniteLeaves /\ Proofs!PayloadsAddUp)
  BY Proofs!PayloadsSound, SettingsAssumption
<1> QED
  BY <1>1, <1>2, SeedIsComposed, PTL
-----------------------------------------------------------------------------
(* Induction over the naturals, by sets *)

Below == {p \in Nat \X Nat : p[1] < p[2]}

\* A set of naturals has a least member.
LEMMA Least ==
  ASSUME NEW T \in SUBSET Nat, T # {}
  PROVE  \E x \in T : \A y \in T : x <= y
<1>1. IsWellFoundedOn(Below, Nat)
  <2>1. OpToRel(<, Nat) = Below
    BY DEF OpToRel, Below
  <2> QED
    BY <2>1, NatLessThanWellFounded
<1>2. PICK x \in T : \A y \in T : ~(<<y, x>> \in Below)
  BY <1>1, WFMin
<1>3. ASSUME NEW y \in T PROVE x <= y
  <2>1. \A u, v \in Nat : <<u, v>> \in Below <=> u < v
    BY SMT DEF Below
  <2>2. x \in Nat /\ y \in Nat
    OBVIOUS
  <2>3. ~(y < x)
    BY <1>2, <2>1, <2>2, Zenon
  <2> QED
    BY <2>2, <2>3
<1> QED
  BY <1>3

\* A set of naturals that has 0 and every successor has them all.
LEMMA SetInduction ==
  ASSUME NEW T \in SUBSET Nat, 0 \in T, \A n \in T : n + 1 \in T
  PROVE  T = Nat
<1>1. SUFFICES ASSUME Nat \ T # {} PROVE FALSE
  OBVIOUS
<1>2. PICK x \in Nat \ T : \A y \in Nat \ T : x <= y
  BY <1>1, Least
<1>3. x # 0 /\ x - 1 \in Nat /\ x - 1 \in T
  BY <1>2
<1> QED
  BY <1>2, <1>3

-----------------------------------------------------------------------------
(* Sums.  SumFunction is a fold over a set; a fold is a recursion, which the  *)
(* induction over sets shows to be well defined.                              *)

\* SumFunction as a recursion over the subsets of a function's domain.
Chosen(s) == CHOOSE x \in s : TRUE

SumStep(f, h, s) == IF s = {} THEN 0 ELSE f[Chosen(s)] + h[s \ {Chosen(s)}]

Partial(f) == CHOOSE h : h = [s \in SUBSET DOMAIN f |-> SumStep(f, h, s)]

LEMMA SumIsPartial ==
  ASSUME NEW f
  PROVE  SumFunction(f) = Partial(f)[DOMAIN f]
BY DEF SumFunction, SumFunctionOnSet, FoldFunctionOnSet, MapThenFoldSet, Partial, SumStep, Chosen

\* What is added up: finitely many integers.
Summable(f) == IsFiniteSet(DOMAIN f) /\ \A x \in DOMAIN f : f[x] \in Int

\* There is a function that the recursion defines.
LEMMA PartialExists ==
  ASSUME NEW f, Summable(f)
  PROVE  \A s \in SUBSET DOMAIN f : Partial(f)[s] = SumStep(f, Partial(f), s)
<1> DEFINE Subs == SUBSET DOMAIN f
           Upto(h, n) == \A s \in Subs : Cardinality(s) <= n => h[s] = SumStep(f, h, s)
           Good == {n \in Nat : \E h : Upto(h, n)}
<1>1. \A s \in Subs : IsFiniteSet(s) /\ Cardinality(s) \in Nat
  BY FS_Subset, FS_CardinalityType DEF Summable
<1>2. 0 \in Good
  <2> DEFINE h == [s \in Subs |-> 0]
  <2>1. \A s \in Subs : Cardinality(s) <= 0 => s = {}
    BY <1>1, FS_EmptySet
  <2>2. Upto(h, 0)
    BY <2>1 DEF SumStep
  <2> QED
    BY <2>2
<1>3. ASSUME NEW n \in Good PROVE n + 1 \in Good
  <2>1. PICK h : Upto(h, n)
    BY <1>3
  <2> DEFINE g == [s \in Subs |-> IF Cardinality(s) <= n THEN h[s] ELSE SumStep(f, h, s)]
  <2>2. ASSUME NEW s \in Subs, Cardinality(s) <= n + 1 PROVE g[s] = SumStep(f, g, s)
    <3>1. CASE s = {}
      <4>1. Cardinality(s) = 0
        BY <3>1, FS_EmptySet
      <4> QED
        BY <1>3, <2>1, <2>2, <3>1, <4>1 DEF SumStep
    <3>2. CASE s # {}
      <4> DEFINE r == s \ {Chosen(s)}
      <4>1. Chosen(s) \in s
        BY <3>2 DEF Chosen
      <4>2. r \in Subs /\ Cardinality(r) = Cardinality(s) - 1
        BY <1>1, <4>1, FS_RemoveElement
      <4>3. Cardinality(r) <= n
        BY <1>1, <1>3, <2>2, <4>2
      <4>4. g[r] = h[r]
        BY <4>2, <4>3
      <4>5. SumStep(f, g, s) = SumStep(f, h, s)
        BY <3>2, <4>4 DEF SumStep
      <4>6. g[s] = SumStep(f, h, s)
        BY <2>1, <2>2
      <4> QED
        BY <4>5, <4>6
    <3> QED
      BY <3>1, <3>2
  <2>3. Upto(g, n + 1)
    BY <2>2
  <2>4. n + 1 \in Nat
    BY <1>3
  <2> HIDE DEF Upto, g
  <2> QED
    BY <2>3, <2>4
<1>4. Good = Nat
  <2>1. Good \in SUBSET Nat
    OBVIOUS
  <2> HIDE DEF Good
  <2> QED
    BY <1>2, <1>3, <2>1, SetInduction
<1>5. PICK h : Upto(h, Cardinality(DOMAIN f))
  <2>1. Cardinality(DOMAIN f) \in Good
    BY <1>1, <1>4
  <2> QED
    BY <2>1
<1>6. \A s \in Subs : Cardinality(s) <= Cardinality(DOMAIN f)
  BY FS_Subset DEF Summable
<1> DEFINE g == [s \in Subs |-> h[s]]
<1>7. \A s \in Subs : SumStep(f, g, s) = SumStep(f, h, s)
  BY DEF SumStep
<1>8. g = [s \in Subs |-> SumStep(f, g, s)]
  BY <1>5, <1>6, <1>7
<1>9. Partial(f) = [s \in Subs |-> SumStep(f, Partial(f), s)]
  <2> HIDE DEF g
  <2> QED
    BY <1>8, Zenon DEF Partial
<1> QED
  BY <1>9

\* The order of the additions does not matter.
LEMMA PartialSplits ==
  ASSUME NEW f, Summable(f)
  PROVE  \A s \in SUBSET DOMAIN f :
           /\ Partial(f)[s] \in Int
           /\ \A x \in s : Partial(f)[s] = f[x] + Partial(f)[s \ {x}]
<1> DEFINE Subs == SUBSET DOMAIN f
           P(s) == Partial(f)[s]
           Holds(s) == P(s) \in Int /\ \A x \in s : P(s) = f[x] + P(s \ {x})
           Good == {n \in Nat : \A s \in Subs : Cardinality(s) <= n => Holds(s)}
<1>1. \A s \in Subs : IsFiniteSet(s) /\ Cardinality(s) \in Nat
  BY FS_Subset, FS_CardinalityType DEF Summable
<1>2. P({}) = 0 /\ \A s \in Subs : s # {} => P(s) = f[Chosen(s)] + P(s \ {Chosen(s)})
  BY PartialExists DEF SumStep
<1> HIDE DEF P
<1>3. 0 \in Good
  <2>1. \A s \in Subs : Cardinality(s) <= 0 => s = {}
    BY <1>1, FS_EmptySet
  <2>2. Holds({})
    BY <1>2
  <2> HIDE DEF Holds
  <2> QED
    BY <2>1, <2>2
<1>4. ASSUME NEW n \in Good PROVE n + 1 \in Good
  <2>1. ASSUME NEW s \in Subs, Cardinality(s) <= n + 1 PROVE Holds(s)
    <3>1. CASE s = {}
      BY <1>2, <3>1
    <3>2. CASE s # {}
      <4>1. \A x \in s : s \ {x} \in Subs /\ Holds(s \ {x}) /\ f[x] \in Int
        <5> SUFFICES ASSUME NEW x \in s PROVE s \ {x} \in Subs /\ Holds(s \ {x}) /\ f[x] \in Int
          OBVIOUS
        <5>1. s \ {x} \in Subs /\ Cardinality(s \ {x}) = Cardinality(s) - 1
          BY <1>1, FS_RemoveElement
        <5>2. Cardinality(s \ {x}) <= n
          BY <1>1, <1>4, <2>1, <5>1
        <5>3. Holds(s \ {x})
          BY <1>4, <5>1, <5>2
        <5> QED
          BY <5>1, <5>3 DEF Summable
      <4> DEFINE c == Chosen(s)
      <4>2. c \in s /\ P(s) = f[c] + P(s \ {c})
        BY <1>2, <3>2 DEF Chosen
      <4> HIDE DEF c
      <4>3. ASSUME NEW x \in s PROVE P(s) = f[x] + P(s \ {x})
        <5>1. CASE x = c
          BY <4>2, <5>1
        <5>2. CASE x # c
          <6>1. x \in s \ {c} /\ c \in s \ {x} /\ (s \ {c}) \ {x} = (s \ {x}) \ {c}
            BY <4>2, <5>2
          <6>2. P(s \ {c}) = f[x] + P((s \ {c}) \ {x})
            BY <4>1, <4>2, <6>1
          <6>3. P(s \ {x}) = f[c] + P((s \ {x}) \ {c})
            BY <4>1, <6>1
          <6>4. P((s \ {c}) \ {x}) \in Int
            <7> DEFINE r == s \ {c}
            <7>1. r \in Subs /\ r \ {x} \in Subs
              BY <4>1, <4>2
            <7>2. Cardinality(r \ {x}) <= n
              <8>1. Cardinality(r) = Cardinality(s) - 1 /\ Cardinality(r \ {x}) = Cardinality(r) - 1
                BY <1>1, <4>2, <6>1, <7>1, FS_RemoveElement
              <8> QED
                BY <1>1, <1>4, <2>1, <7>1, <8>1
            <7>3. Holds(r \ {x})
              BY <1>4, <7>1, <7>2
            <7> QED
              BY <7>3
          <6>5. f[x] \in Int /\ f[c] \in Int
            BY <4>1, <4>2
          <6>6. P((s \ {c}) \ {x}) = P((s \ {x}) \ {c})
            BY <6>1
          <6> QED
            BY <4>2, <6>2, <6>3, <6>4, <6>5, <6>6
        <5> QED
          BY <5>1, <5>2
      <4>4. P(s) \in Int
        BY <4>1, <4>2
      <4> QED
        BY <4>3, <4>4
    <3> QED
      BY <3>1, <3>2
  <2>2. n + 1 \in Nat
    BY <1>4
  <2> HIDE DEF Holds
  <2> QED
    BY <2>1, <2>2
<1>5. Good = Nat
  <2>1. Good \in SUBSET Nat
    OBVIOUS
  <2> HIDE DEF Good
  <2> QED
    BY <1>3, <1>4, <2>1, SetInduction
<1>6. \A s \in Subs : Holds(s)
  <2> SUFFICES ASSUME NEW s \in Subs PROVE Holds(s)
    OBVIOUS
  <2>1. Cardinality(s) \in Good /\ Cardinality(s) <= Cardinality(s)
    BY <1>1, <1>5
  <2> HIDE DEF Holds
  <2> QED
    BY <2>1
<1> QED
  BY <1>6 DEF P

\* A sum over part of a domain is a partial sum.
LEMMA PartialAgrees ==
  ASSUME NEW f, Summable(f), NEW g, DOMAIN g \subseteq DOMAIN f,
         \A x \in DOMAIN g : g[x] = f[x]
  PROVE  Summable(g) /\ SumFunction(g) = Partial(f)[DOMAIN g]
<1> DEFINE Subs == SUBSET DOMAIN g
           Good == {n \in Nat : \A s \in Subs : Cardinality(s) <= n => Partial(g)[s] = Partial(f)[s]}
<1>1. Summable(g)
  BY FS_Subset DEF Summable
<1>2. \A s \in Subs : IsFiniteSet(s) /\ Cardinality(s) \in Nat
  BY <1>1, FS_Subset, FS_CardinalityType DEF Summable
<1>3. \A s \in Subs : /\ Partial(f)[s] = SumStep(f, Partial(f), s)
                      /\ Partial(g)[s] = SumStep(g, Partial(g), s)
  BY <1>1, PartialExists
<1>4. 0 \in Good
  <2>1. \A s \in Subs : Cardinality(s) <= 0 => s = {}
    BY <1>2, FS_EmptySet
  <2> QED
    BY <1>3, <2>1 DEF SumStep
<1>5. ASSUME NEW n \in Good PROVE n + 1 \in Good
  <2>1. ASSUME NEW s \in Subs, Cardinality(s) <= n + 1 PROVE Partial(g)[s] = Partial(f)[s]
    <3>1. CASE s = {}
      BY <1>3, <3>1 DEF SumStep
    <3>2. CASE s # {}
      <4>1. Chosen(s) \in s
        BY <3>2 DEF Chosen
      <4>2. s \ {Chosen(s)} \in Subs /\ Cardinality(s \ {Chosen(s)}) = Cardinality(s) - 1
        BY <1>2, <4>1, FS_RemoveElement
      <4>3. Cardinality(s \ {Chosen(s)}) <= n
        BY <1>2, <1>5, <2>1, <4>2
      <4>4. Partial(g)[s \ {Chosen(s)}] = Partial(f)[s \ {Chosen(s)}]
        BY <1>5, <4>2, <4>3
      <4> QED
        BY <1>3, <3>2, <4>1, <4>4 DEF SumStep
    <3> QED
      BY <3>1, <3>2
  <2>2. n + 1 \in Nat
    BY <1>5
  <2> QED
    BY <2>1, <2>2
<1>6. Good = Nat
  <2>1. Good \in SUBSET Nat
    OBVIOUS
  <2> HIDE DEF Good
  <2> QED
    BY <1>4, <1>5, <2>1, SetInduction
<1>7. Partial(g)[DOMAIN g] = Partial(f)[DOMAIN g]
  <2>1. Cardinality(DOMAIN g) \in Good /\ Cardinality(DOMAIN g) <= Cardinality(DOMAIN g)
    BY <1>2, <1>6
  <2> QED
    BY <2>1
<1> QED
  BY <1>1, <1>7, SumIsPartial

\* A sum is an integer, 0 if there is nothing to add.
LEMMA SumType ==
  ASSUME NEW f, Summable(f)
  PROVE  SumFunction(f) \in Int /\ (DOMAIN f = {} => SumFunction(f) = 0)
<1>1. Partial(f)[DOMAIN f] \in Int
  BY PartialSplits
<1>2. DOMAIN f = {} => Partial(f)[DOMAIN f] = 0
  BY PartialExists DEF SumStep
<1> QED
  BY <1>1, <1>2, SumIsPartial

\* Chosen one of the numbers can be added last.
LEMMA SumSplits ==
  ASSUME NEW f, Summable(f), NEW x \in DOMAIN f,
         NEW g, DOMAIN g = DOMAIN f \ {x}, \A y \in DOMAIN g : g[y] = f[y]
  PROVE  Summable(g) /\ SumFunction(f) = f[x] + SumFunction(g)
<1>1. Summable(g) /\ SumFunction(g) = Partial(f)[DOMAIN f \ {x}]
  BY PartialAgrees
<1>2. Partial(f)[DOMAIN f] = f[x] + Partial(f)[DOMAIN f \ {x}]
  BY PartialSplits
<1> QED
  BY <1>1, <1>2, SumIsPartial

-----------------------------------------------------------------------------
(* Sequences in a row *)

\* Where each of several sequences starts when they are put in a row.
Starts(seqs) == [i \in 1..(Len(seqs) + 1) |-> SumFunction([j \in 1..(i - 1) |-> Len(seqs[j])])]

LEMMA StartsAddUp ==
  ASSUME NEW X, NEW seqs \in Seq(Seq(X))
  PROVE  /\ Starts(seqs) \in [1..(Len(seqs) + 1) -> Nat]
         /\ Starts(seqs)[1] = 0
         /\ \A i \in 1..Len(seqs) : Starts(seqs)[i + 1] = Starts(seqs)[i] + Len(seqs[i])
<1> DEFINE n == Len(seqs)
           Lens(i) == [j \in 1..(i - 1) |-> Len(seqs[j])]
           S(i) == SumFunction(Lens(i))
<1>1. n \in Nat /\ \A j \in 1..n : seqs[j] \in Seq(X) /\ Len(seqs[j]) \in Nat
  OBVIOUS
<1>2. ASSUME NEW i \in 1..(n + 1) PROVE Summable(Lens(i)) /\ DOMAIN Lens(i) = 1..(i - 1)
  <2>1. IsFiniteSet(1..(i - 1))
    <3>1. i - 1 \in Int /\ 1 \in Int
      BY <1>1
    <3> QED
      BY <3>1, FS_Interval
  <2>2. \A j \in 1..(i - 1) : Lens(i)[j] \in Int
    BY <1>1
  <2> QED
    BY <2>1, <2>2 DEF Summable
<1> HIDE DEF n
<1>3. S(1) = 0
  <2>1. 1 \in 1..(n + 1) /\ 1..(1 - 1) = {}
    BY <1>1
  <2>2. DOMAIN Lens(1) = {} /\ Summable(Lens(1))
    BY <1>2, <2>1
  <2> HIDE DEF Lens
  <2> QED
    BY <2>2, SumType
<1>4. ASSUME NEW i \in 1..n PROVE S(i) \in Int /\ S(i + 1) = S(i) + Len(seqs[i])
  <2>1. i \in 1..(n + 1) /\ i + 1 \in 1..(n + 1) /\ (i + 1) - 1 = i /\ i \in 1..i
        /\ 1..(i - 1) = (1..i) \ {i}
    BY <1>1
  <2>2. Summable(Lens(i)) /\ Summable(Lens(i + 1)) /\ DOMAIN Lens(i + 1) = 1..i
        /\ DOMAIN Lens(i) = 1..(i - 1)
    BY <1>2, <2>1
  <2>3. /\ \A y \in DOMAIN Lens(i) : Lens(i)[y] = Lens(i + 1)[y]
        /\ Lens(i + 1)[i] = Len(seqs[i])
    BY <2>1, <2>2
  <2>4. DOMAIN Lens(i) = DOMAIN Lens(i + 1) \ {i} /\ i \in DOMAIN Lens(i + 1)
    BY <2>1, <2>2
  <2>5. Len(seqs[i]) \in Int
    BY <1>1
  <2> HIDE DEF Lens
  <2>6. S(i) \in Int
    BY <2>2, SumType
  <2>7. S(i + 1) = Lens(i + 1)[i] + S(i)
    BY <2>2, <2>3, <2>4, SumSplits
  <2> HIDE DEF S
  <2> QED
    BY <2>3, <2>5, <2>6, <2>7
<1>5. \A i \in 1..(n + 1) : S(i) \in Nat
  <2> HIDE DEF S
  <2> DEFINE Good == {i \in Nat : i \in 0..n => S(i + 1) \in Nat}
  <2>1. 0 \in Good
    BY <1>3
  <2>2. ASSUME NEW i \in Good PROVE i + 1 \in Good
    <3>1. SUFFICES ASSUME i + 1 \in 0..n PROVE S((i + 1) + 1) \in Nat
      OBVIOUS
    <3>2. i \in 0..n /\ i + 1 \in 1..n
      BY <1>1, <3>1
    <3>3. S(i + 1) \in Nat /\ Len(seqs[i + 1]) \in Nat
      BY <1>1, <3>2
    <3> QED
      BY <1>4, <3>2, <3>3
  <2>3. Good = Nat
    <3>1. Good \in SUBSET Nat
      OBVIOUS
    <3> HIDE DEF Good
    <3> QED
      BY <2>1, <2>2, <3>1, SetInduction
  <2> SUFFICES ASSUME NEW i \in 1..(n + 1) PROVE S(i) \in Nat
    OBVIOUS
  <2>4. i - 1 \in Nat /\ i - 1 \in 0..n /\ (i - 1) + 1 = i
    BY <1>1
  <2>5. i - 1 \in Good
    <3> HIDE DEF Good
    <3> QED
      BY <2>3, <2>4
  <2> QED
    BY <2>4, <2>5
<1>6. Starts(seqs) = [i \in 1..(n + 1) |-> S(i)]
  BY DEF Starts, n
<1> HIDE DEF S
<1>7. Starts(seqs) \in [1..(n + 1) -> Nat] /\ Starts(seqs)[1] = 0
  BY <1>1, <1>3, <1>5, <1>6
<1>8. \A i \in 1..n : Starts(seqs)[i + 1] = Starts(seqs)[i] + Len(seqs[i])
  <2> SUFFICES ASSUME NEW i \in 1..n PROVE Starts(seqs)[i + 1] = Starts(seqs)[i] + Len(seqs[i])
    OBVIOUS
  <2>1. i \in 1..(n + 1) /\ i + 1 \in 1..(n + 1)
    BY <1>1
  <2> QED
    BY <1>4, <1>6, <2>1
<1> QED
  BY <1>7, <1>8 DEF n

\* Places: m sequences of the lengths len, each after all those before it.
Laid(start, len, m) ==
    /\ m \in Nat
    /\ start \in [1..(m + 1) -> Nat] /\ len \in [1..m -> Nat]
    /\ start[1] = 0
    /\ \A i \in 1..m : start[i + 1] = start[i] + len[i]

\* A sequence ends before any later one starts.
LEMMA LaterStarts ==
  ASSUME NEW start, NEW len, NEW m, Laid(start, len, m), NEW i \in 1..m, NEW k \in (i + 1)..(m + 1)
  PROVE  start[i] + len[i] <= start[k]
<1> DEFINE Good == {d \in Nat : i + 1 + d <= m + 1 => start[i] + len[i] <= start[i + 1 + d]}
<1>1. m \in Nat /\ i \in Nat
  BY DEF Laid
<1>2. 0 \in Good
  <2>1. start[i + 1] = start[i] + len[i] /\ start[i + 1] \in Nat /\ i + 1 + 0 = i + 1
    BY <1>1 DEF Laid
  <2> QED
    BY <1>1, <2>1
<1>3. ASSUME NEW d \in Good PROVE d + 1 \in Good
  <2>1. SUFFICES ASSUME i + 1 + (d + 1) <= m + 1 PROVE start[i] + len[i] <= start[i + 1 + (d + 1)]
    BY <1>3
  <2> DEFINE j == i + 1 + d
  <2>2. j \in 1..m /\ j + 1 = i + 1 + (d + 1) /\ j <= m + 1
    BY <1>1, <1>3, <2>1
  <2>3. start[i] + len[i] <= start[j]
    BY <1>3, <2>2
  <2> HIDE DEF j
  <2>4. i \in 1..m /\ i \in 1..(m + 1) /\ j \in 1..(m + 1)
    BY <1>1, <2>2
  <2>5. /\ start[j + 1] = start[j] + len[j] /\ start[j] \in Nat /\ len[j] \in Nat
        /\ start[i] \in Nat /\ len[i] \in Nat
    BY <2>2, <2>4 DEF Laid
  <2> QED
    BY <2>2, <2>3, <2>5
<1>4. Good = Nat
  <2>1. Good \in SUBSET Nat
    OBVIOUS
  <2> HIDE DEF Good
  <2> QED
    BY <1>2, <1>3, <2>1, SetInduction
<1>5. k - (i + 1) \in Nat /\ i + 1 + (k - (i + 1)) = k /\ k <= m + 1
  BY <1>1
<1>6. k - (i + 1) \in Good
  <2> HIDE DEF Good
  <2> QED
    BY <1>4, <1>5
<1> QED
  BY <1>5, <1>6

\* Every place belongs to one of the sequences.
LEMMA EveryPlace ==
  ASSUME NEW start, NEW len, NEW m, Laid(start, len, m), NEW k \in 1..start[m + 1]
  PROVE  \E i \in 1..m : \E j \in 1..len[i] : k = start[i] + j
<1> DEFINE Good == {n \in Nat : n <= m =>
                      \A p \in 1..start[n + 1] :
                        \E i \in 1..n : \E j \in 1..len[i] : p = start[i] + j}
<1>1. m \in Nat
  BY DEF Laid
<1>2. 0 \in Good
  <2>1. start[0 + 1] = 0
    BY DEF Laid
  <2> QED
    BY <2>1
<1>3. ASSUME NEW n \in Good PROVE n + 1 \in Good
  <2>1. SUFFICES ASSUME n + 1 <= m, NEW p \in 1..start[(n + 1) + 1]
                 PROVE  \E i \in 1..(n + 1) : \E j \in 1..len[i] : p = start[i] + j
    BY <1>3
  <2>2. n \in Nat /\ n <= m /\ n + 1 \in 1..m
    BY <1>1, <1>3, <2>1
  <2>3. /\ start[(n + 1) + 1] = start[n + 1] + len[n + 1]
        /\ start[n + 1] \in Nat /\ len[n + 1] \in Nat
    BY <2>2 DEF Laid
  <2>4. CASE p <= start[n + 1]
    <3>1. p \in 1..start[n + 1]
      BY <2>1, <2>3, <2>4
    <3>2. PICK i \in 1..n : \E j \in 1..len[i] : p = start[i] + j
      BY <1>3, <2>2, <3>1
    <3>3. i \in 1..(n + 1)
      BY <2>2
    <3> QED
      BY <3>2, <3>3
  <2>5. CASE p > start[n + 1]
    <3>1. p - start[n + 1] \in 1..len[n + 1] /\ p = start[n + 1] + (p - start[n + 1])
      BY <2>1, <2>3, <2>5
    <3>2. n + 1 \in 1..(n + 1)
      BY <2>2
    <3> QED
      BY <3>1, <3>2
  <2> QED
    BY <2>1, <2>3, <2>4, <2>5
<1>4. Good = Nat
  <2>1. Good \in SUBSET Nat
    OBVIOUS
  <2> HIDE DEF Good
  <2> QED
    BY <1>2, <1>3, <2>1, SetInduction
<1>5. m \in Good /\ m <= m
  BY <1>1, <1>4
<1> QED
  BY <1>5

\* A row belongs to one sequence only.
LEMMA OnePlace ==
  ASSUME NEW start, NEW len, NEW m, Laid(start, len, m),
         NEW i \in 1..m, NEW j \in 1..len[i], NEW k \in 1..m, NEW l \in 1..len[k],
         start[i] + j <= start[k] + l
  PROVE  /\ i <= k
         /\ start[i] + j = start[k] + l => i = k /\ j = l
<1>1. m \in Nat /\ start[i] \in Nat /\ start[k] \in Nat /\ len[i] \in Nat /\ len[k] \in Nat
  BY DEF Laid
<1>2. i < k => start[i] + len[i] <= start[k]
  <2>1. i < k => k \in (i + 1)..(m + 1)
    BY <1>1
  <2> QED
    BY <2>1, LaterStarts
<1>3. k < i => start[k] + len[k] <= start[i]
  <2>1. k < i => i \in (k + 1)..(m + 1)
    BY <1>1
  <2> QED
    BY <2>1, LaterStarts
<1> QED
  BY <1>1, <1>2, <1>3

\* The flattened sequence: its length, and what is at each place.
LEMMA Flattened ==
  ASSUME NEW X, NEW seqs \in Seq(Seq(X))
  PROVE  /\ FlattenSeq(seqs) \in Seq(X)
         /\ Len(FlattenSeq(seqs)) = Starts(seqs)[Len(seqs) + 1]
         /\ \A i \in 1..Len(seqs) : \A j \in 1..Len(seqs[i]) :
              FlattenSeq(seqs)[Starts(seqs)[i] + j] = seqs[i][j]
<1> DEFINE n == Len(seqs)
           F(h, i) == IF i = 1 THEN seqs[i] ELSE h[i - 1] \o seqs[i]
           Upto(h, m) == \A i \in 1..n : i <= m => h[i] = F(h, i)
           Good == {m \in Nat : \E h : Upto(h, m)}
           flat == CHOOSE h : h = [i \in 1..n |-> F(h, i)]
<1>1. n \in Nat /\ DOMAIN seqs = 1..n /\ \A j \in 1..n : seqs[j] \in Seq(X) /\ Len(seqs[j]) \in Nat
  OBVIOUS
<1>2. CASE n = 0
  <2>1. FlattenSeq(seqs) = seqs /\ seqs = <<>> /\ n = 0
    BY <1>2 DEF FlattenSeq
  <2>2. Starts(seqs)[n + 1] = 0
    <3>1. n + 1 = 1
      BY <1>2
    <3>2. Starts(seqs)[1] = 0
      BY StartsAddUp
    <3> QED
      BY <3>1, <3>2
  <2> QED
    BY <2>1, <2>2
<1>3. CASE n # 0
  <2>1. FlattenSeq(seqs) = flat[n]
    BY <1>3, Zenon DEF FlattenSeq
  <2> HIDE DEF n
  <2>2. 0 \in Good
    BY <1>1
  <2>3. ASSUME NEW m \in Good PROVE m + 1 \in Good
    <3>1. PICK h : Upto(h, m)
      BY <2>3
    <3> DEFINE g == [i \in 1..n |-> IF i <= m THEN h[i] ELSE F(h, i)]
    <3>2. ASSUME NEW i \in 1..n, i <= m + 1 PROVE g[i] = F(g, i)
      <4>1. i # 1 => i - 1 \in 1..n /\ i - 1 <= m
        BY <1>1, <2>3, <3>2
      <4>2. i # 1 => g[i - 1] = h[i - 1]
        BY <4>1
      <4>3. F(g, i) = F(h, i)
        BY <4>2
      <4>4. g[i] = F(h, i)
        BY <3>1
      <4> QED
        BY <4>3, <4>4
    <3> HIDE DEF g, F
    <3>3. Upto(g, m + 1)
      BY <3>2
    <3>4. m + 1 \in Nat
      BY <2>3
    <3> HIDE DEF Upto
    <3> QED
      BY <3>3, <3>4
  <2>4. Good = Nat
    <3>1. Good \in SUBSET Nat
      OBVIOUS
    <3> HIDE DEF Good
    <3> QED
      BY <2>2, <2>3, <3>1, SetInduction
  <2>5. PICK h : Upto(h, n)
    <3>1. n \in Good
      BY <1>1, <2>4
    <3> QED
      BY <3>1
  <2>6. [i \in 1..n |-> h[i]] = [i \in 1..n |-> F([k \in 1..n |-> h[k]], i)]
    <3> SUFFICES ASSUME NEW i \in 1..n PROVE h[i] = F([k \in 1..n |-> h[k]], i)
      OBVIOUS
    <3>1. h[i] = F(h, i)
      BY <1>1, <2>5
    <3>2. i # 1 => i - 1 \in 1..n
      BY <1>1
    <3> QED
      BY <3>1, <3>2
  <2>7. flat = [i \in 1..n |-> F(flat, i)]
    <3> HIDE DEF F
    <3> QED
      BY <2>6, Zenon
  <2>8. \A i \in 1..n : flat[i] = IF i = 1 THEN seqs[i] ELSE flat[i - 1] \o seqs[i]
    BY <2>7
  <2> HIDE DEF flat
  <2> DEFINE S == Starts(seqs)
             Part(i) == /\ flat[i] \in Seq(X)
                        /\ Len(flat[i]) = S[i + 1]
                        /\ \A k \in 1..i : \A j \in 1..Len(seqs[k]) : flat[i][S[k] + j] = seqs[k][j]
             Fine == {m \in Nat : m + 1 <= n => Part(m + 1)}
  <2>9. /\ S \in [1..(n + 1) -> Nat] /\ S[1] = 0
        /\ \A i \in 1..n : S[i + 1] = S[i] + Len(seqs[i])
    BY StartsAddUp DEF n
  <2>10. Laid(S, [i \in 1..n |-> Len(seqs[i])], n)
    BY <1>1, <2>9 DEF Laid
  <2> HIDE DEF S
  <2>11. 0 \in Fine
    <3>1. n >= 1 => 1 \in 1..n
      BY <1>1
    <3>2. SUFFICES ASSUME n >= 1 PROVE Part(1)
      OBVIOUS
    <3>3. flat[1] = seqs[1] /\ seqs[1] \in Seq(X) /\ S[1 + 1] = S[1] + Len(seqs[1]) /\ S[1] = 0
          /\ Len(seqs[1]) \in Nat
      BY <1>1, <2>8, <2>9, <3>1, <3>2
    <3>4. ASSUME NEW k \in 1..1, NEW j \in 1..Len(seqs[k]) PROVE flat[1][S[k] + j] = seqs[k][j]
      <4>1. k = 1 /\ S[1] + j = j
        BY <3>3
      <4> QED
        BY <3>3, <4>1
    <3> QED
      BY <3>3, <3>4
  <2>12. ASSUME NEW m \in Fine PROVE m + 1 \in Fine
    <3>1. SUFFICES ASSUME (m + 1) + 1 <= n PROVE Part((m + 1) + 1)
      BY <2>12
    <3> DEFINE i == m + 1
    <3>2. i \in 1..n /\ i + 1 \in 1..n /\ i + 1 # 1 /\ (i + 1) - 1 = i /\ Part(i) /\ i + 1 \in Nat
      BY <1>1, <2>12, <3>1
    <3> HIDE DEF i
    <3>3. /\ flat[i + 1] = flat[i] \o seqs[i + 1]
          /\ flat[i] \in Seq(X) /\ seqs[i + 1] \in Seq(X)
          /\ Len(flat[i]) = S[i + 1] /\ S[(i + 1) + 1] = S[i + 1] + Len(seqs[i + 1])
      BY <1>1, <2>8, <2>9, <3>2
    <3>4. flat[i + 1] \in Seq(X) /\ Len(flat[i + 1]) = S[(i + 1) + 1]
      <4>1. PICK a \in Seq(X) : a = flat[i]
        BY <3>3
      <4>2. PICK b \in Seq(X) : b = seqs[i + 1]
        BY <3>3
      <4>3. a \o b \in Seq(X) /\ Len(a \o b) = Len(a) + Len(b)
        OBVIOUS
      <4> QED
        BY <3>3, <4>1, <4>2, <4>3
    <3>5. /\ \A q \in 1..S[i + 1] : flat[i + 1][q] = flat[i][q]
          /\ \A q \in 1..Len(seqs[i + 1]) : flat[i + 1][S[i + 1] + q] = seqs[i + 1][q]
      <4>1. PICK a \in Seq(X) : a = flat[i]
        BY <3>3
      <4>2. PICK b \in Seq(X) : b = seqs[i + 1]
        BY <3>3
      <4>3. /\ \A q \in 1..Len(a) : (a \o b)[q] = a[q]
            /\ \A q \in 1..Len(b) : (a \o b)[Len(a) + q] = b[q]
        OBVIOUS
      <4> QED
        BY <3>3, <4>1, <4>2, <4>3
    <3>6. ASSUME NEW k \in 1..(i + 1), NEW j \in 1..Len(seqs[k])
          PROVE  flat[i + 1][S[k] + j] = seqs[k][j]
      <4>1. CASE k = i + 1
        BY <3>5, <4>1
      <4>2. CASE k # i + 1
        <5>1. k \in 1..n /\ k \in 1..i /\ i + 1 \in (k + 1)..(n + 1)
          BY <1>1, <3>2, <4>2
        <5>2. S[k] + Len(seqs[k]) <= S[i + 1] /\ S[k] \in Nat /\ S[i + 1] \in Nat /\ Len(seqs[k]) \in Nat
          <6>1. S[k] + [a \in 1..n |-> Len(seqs[a])][k] <= S[i + 1]
            BY <2>10, <5>1, LaterStarts
          <6>2. [a \in 1..n |-> Len(seqs[a])][k] = Len(seqs[k])
            BY <5>1
          <6> QED
            BY <1>1, <2>9, <3>2, <5>1, <6>1, <6>2
        <5>3. S[k] + j \in 1..S[i + 1]
          BY <3>6, <5>2
        <5> QED
          BY <3>2, <3>5, <5>1, <5>3
      <4> QED
        BY <4>1, <4>2
    <3> QED
      BY <3>4, <3>6 DEF i
  <2>13. Fine = Nat
    <3>1. Fine \in SUBSET Nat
      OBVIOUS
    <3> HIDE DEF Fine
    <3> QED
      BY <2>11, <2>12, <3>1, SetInduction
  <2>14. Part(n)
    <3>1. n - 1 \in Nat /\ (n - 1) + 1 = n /\ n <= n
      BY <1>1, <1>3
    <3>2. n - 1 \in Fine
      <4> HIDE DEF Fine
      <4> QED
        BY <2>13, <3>1
    <3> HIDE DEF Part
    <3> QED
      BY <3>1, <3>2
  <2> QED
    BY <2>1, <2>14 DEF S, n
<1> QED
  BY <1>2, <1>3

-----------------------------------------------------------------------------
(* Numbers in order *)

\* How many members of a set are not above a number.
Rank(S, x) == Cardinality({y \in S : y <= x})

LEMMA RankCounts ==
  ASSUME NEW S \in SUBSET Nat, IsFiniteSet(S), NEW x \in S
  PROVE  /\ Rank(S, x) \in 1..Cardinality(S)
         /\ \A z \in S : x < z <=> Rank(S, x) < Rank(S, z)
<1>1. \A T \in SUBSET S : IsFiniteSet(T) /\ Cardinality(T) \in Nat /\ Cardinality(T) <= Cardinality(S)
  BY FS_Subset, FS_CardinalityType
<1>2. Cardinality(S) \in Nat
  BY FS_CardinalityType
<1>3. Rank(S, x) \in 1..Cardinality(S)
  <2> DEFINE T == {y \in S : y <= x}
  <2>1. T \in SUBSET S /\ T # {}
    <3>1. x \in T
      OBVIOUS
    <3> QED
      BY <3>1
  <2>2. Cardinality(T) # 0
    BY <1>1, <2>1, FS_EmptySet
  <2> HIDE DEF T
  <2>3. Cardinality(T) \in 1..Cardinality(S)
    BY <1>1, <1>2, <2>1, <2>2
  <2> QED
    BY <2>3 DEF T, Rank
<1>4. ASSUME NEW u \in S, NEW v \in S, u < v PROVE Rank(S, u) < Rank(S, v)
  <2> DEFINE U == {y \in S : y <= u}
             V == {y \in S : y <= v}
  <2>1. U \in SUBSET V /\ v \in V /\ v \notin U
    <3>1. u \in Nat /\ v \in Nat /\ \A y \in S : y \in Nat
      OBVIOUS
    <3>2. ~(v <= u) /\ v <= v
      BY <1>4, <3>1
    <3>3. \A y \in S : y <= u => y <= v
      BY <1>4, <3>1
    <3>4. U \in SUBSET V
      BY <3>3
    <3> QED
      BY <3>2, <3>4
  <2>2. IsFiniteSet(V) /\ Cardinality(V) \in Nat
    BY <1>1
  <2> HIDE DEF U, V
  <2>3. U \in SUBSET V /\ U # V
    BY <2>1
  <2>4. Cardinality(U) < Cardinality(V)
    BY <2>2, <2>3, FS_Subset, FS_CardinalityType
  <2> QED
    BY <2>4 DEF U, V, Rank
<1>5. ASSUME NEW z \in S PROVE x < z <=> Rank(S, x) < Rank(S, z)
  <2>1. Rank(S, x) \in Nat /\ Rank(S, z) \in Nat
    BY <1>1 DEF Rank
  <2>2. x < z \/ x = z \/ z < x
    OBVIOUS
  <2> QED
    BY <1>4, <2>1, <2>2
<1> QED
  BY <1>3, <1>5

\* A finite set of naturals in order: each member once, the smaller ones first.
LEMMA InOrderSorts ==
  ASSUME NEW S \in SUBSET Nat, IsFiniteSet(S)
  PROVE  /\ InOrder(S) \in [1..Cardinality(S) -> S]
         /\ \A x \in S : Rank(S, x) \in 1..Cardinality(S) /\ InOrder(S)[Rank(S, x)] = x
         /\ \A k \in 1..Cardinality(S) : Rank(S, InOrder(S)[k]) = k
<1> DEFINE n == Cardinality(S)
           rank == [x \in S |-> Rank(S, x)]
<1>1. n \in Nat
  BY FS_CardinalityType
<1>2. \A x \in S : Rank(S, x) \in 1..n
  BY RankCounts
<1>3. ASSUME NEW x \in S, NEW z \in S, Rank(S, x) = Rank(S, z) PROVE x = z
  <2>1. Rank(S, x) \in Nat /\ Rank(S, z) \in Nat
    BY <1>1, <1>2
  <2>2. ~(x < z) /\ ~(z < x)
    BY <1>3, <2>1, RankCounts
  <2> QED
    BY <2>2
<1>4. \A k \in 1..n : \E x \in S : Rank(S, x) = k
  <2>1. rank \in Injection(S, 1..n)
    <3>1. rank \in [S -> 1..n]
      BY <1>2
    <3>2. \A x, z \in S : rank[x] = rank[z] => x = z
      BY <1>3
    <3> HIDE DEF rank
    <3> QED
      BY <3>1, <3>2 DEF Injection, IsInjective
  <2>2. IsFiniteSet(1..n) /\ Cardinality(1..n) = n
    <3>1. 1 \in Int /\ n \in Int
      BY <1>1
    <3>2. Cardinality(1..n) = IF 1 > n THEN 0 ELSE n - 1 + 1
      BY <3>1, FS_Interval
    <3> HIDE DEF n
    <3> QED
      BY <1>1, <3>1, <3>2, FS_Interval
  <2>3. rank \in Surjection(S, 1..n)
    BY <2>1, <2>2, FS_Injection
  <2> QED
    BY <2>3 DEF Surjection
<1>5. ASSUME NEW k \in 1..n PROVE InOrder(S)[k] \in S /\ Rank(S, InOrder(S)[k]) = k
  <2>1. InOrder(S)[k] = CHOOSE x \in S : Rank(S, x) = k
    BY DEF InOrder, Rank
  <2> HIDE DEF n
  <2> QED
    BY <1>4, <2>1
<1>6. ASSUME NEW x \in S PROVE InOrder(S)[Rank(S, x)] = x
  BY <1>2, <1>3, <1>5
<1>7. InOrder(S) \in [1..n -> S]
  BY <1>5 DEF InOrder
<1> QED
  BY <1>2, <1>5, <1>6, <1>7

\* The place of a member is one more than the number of places of smaller ones.
LEMMA PlaceOfMember ==
  ASSUME NEW S \in SUBSET Nat, IsFiniteSet(S), NEW x \in S
  PROVE  InOrder(S)[1 + Cardinality({i \in DOMAIN InOrder(S) : InOrder(S)[i] < x})] = x
<1> DEFINE s == InOrder(S)
           p == Rank(S, x)
           smaller == {i \in DOMAIN s : s[i] < x}
<1>1. /\ s \in [1..Cardinality(S) -> S] /\ p \in 1..Cardinality(S) /\ s[p] = x
      /\ Cardinality(S) \in Nat
  BY InOrderSorts, FS_CardinalityType
<1>2. ASSUME NEW i \in 1..Cardinality(S) PROVE s[i] < x <=> i < p
  <2>1. s[i] \in S /\ Rank(S, s[i]) = i
    BY <1>1, InOrderSorts
  <2>2. \A z \in S : z < x <=> Rank(S, z) < Rank(S, x)
    BY RankCounts
  <2> HIDE DEF s
  <2> QED
    BY <2>1, <2>2
<1>3. smaller = 1..(p - 1)
  <2> HIDE DEF p, s
  <2> QED
    BY <1>1, <1>2
<1>4. Cardinality(1..(p - 1)) = p - 1
  <2> HIDE DEF p
  <2>1. 1 \in Int /\ p - 1 \in Int /\ p >= 1
    BY <1>1
  <2>2. Cardinality(1..(p - 1)) = IF 1 > p - 1 THEN 0 ELSE (p - 1) - 1 + 1
    BY <2>1, FS_Interval
  <2> QED
    BY <1>1, <2>1, <2>2
<1>5. 1 + Cardinality(smaller) = p
  <2> HIDE DEF p, smaller
  <2> QED
    BY <1>1, <1>3, <1>4
<1> HIDE DEF p
<1> QED
  BY <1>1, <1>5

-----------------------------------------------------------------------------
(* Powers of two, and what they divide *)

\* Powers of two: the subsets of 1..k and of 1..(k + 1).
LEMMA PowersDouble ==
  ASSUME NEW k \in Nat
  PROVE  2^0 = 1 /\ 2^k \in Nat \ {0} /\ 2^(k + 1) = 2 * 2^k
<1> DEFINE A == SUBSET (1..k)
           B == {s \in SUBSET (1..(k + 1)) : k + 1 \in s}
           f == [s \in A |-> s \cup {k + 1}]
<1>1. IsFiniteSet(1..k) /\ Cardinality(1..k) = k
  <2>1. 1 \in Int /\ k \in Int
    OBVIOUS
  <2> QED
    BY <2>1, FS_Interval
<1>2. IsFiniteSet(1..(k + 1)) /\ Cardinality(1..(k + 1)) = k + 1
  <2>1. 1 \in Int /\ k + 1 \in Int
    OBVIOUS
  <2> QED
    BY <2>1, FS_Interval
<1>3. IsFiniteSet(A) /\ Cardinality(A) = 2^k
  BY <1>1, FS_SUBSET
<1>4. Cardinality(SUBSET (1..(k + 1))) = 2^(k + 1)
  BY <1>2, FS_SUBSET
<1>5. SUBSET (1..(k + 1)) = A \cup B /\ A \cap B = {}
  BY SMT
<1>6. f \in Bijection(A, B)
  <2>1. \A s \in A : k + 1 \notin s
    BY SMT
  <2>2. f \in [A -> B]
    BY SMT
  <2>3. ASSUME NEW s \in A, NEW t \in A, f[s] = f[t] PROVE s = t
    BY <2>1, <2>3
  <2>4. ASSUME NEW b \in B PROVE \E s \in A : f[s] = b
    <3>1. b \ {k + 1} \in A
      BY SMT
    <3> QED
      BY <3>1
  <2> QED
    BY <2>2, <2>3, <2>4 DEF Bijection, Injection, Surjection, IsInjective
<1> HIDE DEF A, B, f
<1>7. IsFiniteSet(B) /\ Cardinality(B) = Cardinality(A)
  BY <1>3, <1>6, FS_Bijection DEF ExistsBijection
<1>8. Cardinality(A \cup B) = Cardinality(A) + Cardinality(B) - Cardinality({})
  BY <1>3, <1>5, <1>7, FS_Union
<1>9. Cardinality({}) = 0
  BY FS_EmptySet
<1>10. Cardinality(A) \in Nat
  BY <1>3, FS_CardinalityType
<1>11. 2^(k + 1) = 2 * 2^k /\ 2^k \in Nat
  <2>1. 2^(k + 1) = Cardinality(A \cup B) /\ Cardinality(A \cap B) = 0
    BY <1>4, <1>5, <1>9
  <2>2. Cardinality(A \cup B) = Cardinality(A) + Cardinality(A)
    BY <1>5, <1>7, <1>8, <1>9, <1>10
  <2> QED
    BY <1>3, <1>10, <2>1, <2>2
<1>12. Cardinality(A) # 0
  <2>1. {} \in A
    BY DEF A
  <2> QED
    BY <1>3, <2>1, FS_EmptySet
<1> QED
  BY <1>3, <1>11, <1>12

LEMMA PowersMultiply ==
  ASSUME NEW k \in Nat, NEW l \in Nat
  PROVE  2^(k + l) = 2^k * 2^l
<1> DEFINE T == {n \in Nat : 2^(k + n) = 2^k * 2^n}
<1>1. 0 \in T
  <2>1. 2^k \in Nat /\ 2^0 = 1 /\ k + 0 = k
    BY PowersDouble
  <2> QED
    BY <2>1
<1>2. ASSUME NEW n \in T PROVE n + 1 \in T
  <2>1. /\ n \in Nat /\ n + 1 \in Nat /\ k + n \in Nat /\ k + (n + 1) = (k + n) + 1
        /\ 2^(k + n) = 2^k * 2^n
    OBVIOUS
  <2>2. /\ 2^k \in Nat /\ 2^n \in Nat /\ 2^(n + 1) = 2 * 2^n /\ 2^((k + n) + 1) = 2 * 2^(k + n)
    BY <2>1, PowersDouble
  <2>3. \A a, b \in Nat : 2 * (a * b) = a * (2 * b)
    OBVIOUS
  <2> QED
    BY <2>1, <2>2, <2>3
<1> HIDE DEF T
<1>3. T = Nat
  <2>1. T \in SUBSET Nat
    BY DEF T
  <2> QED
    BY <1>1, <1>2, <2>1, SetInduction
<1> QED
  BY <1>3 DEF T

\* The multiples of the k-th power.
Multiples(k) == {x \in Int : \E c \in Int : x = c * 2^k}

LEMMA Quotient ==
  ASSUME NEW p \in Nat \ {0}, NEW c \in Int
  PROVE  (c * p) \div p = c
  OBVIOUS

\* Division by a power of two is exact, and so it is additive.
LEMMA ExactDivision ==
  ASSUME NEW k \in Nat, NEW x \in Multiples(k)
  PROVE  x \in Int /\ Discounted(x, k) \in Int /\ x = Discounted(x, k) * 2^k
<1>1. PICK c \in Int : x = c * 2^k
  BY DEF Multiples
<1>2. 2^k \in Nat \ {0}
  BY PowersDouble
<1>3. Discounted(x, k) = c
  BY <1>1, <1>2, Quotient DEF Discounted
<1> QED
  BY <1>1, <1>3 DEF Multiples

LEMMA DivisionAdds ==
  ASSUME NEW k \in Nat, NEW x \in Multiples(k), NEW y \in Multiples(k)
  PROVE  /\ x + y \in Multiples(k) /\ Discounted(x + y, k) = Discounted(x, k) + Discounted(y, k)
         /\ x - y \in Multiples(k) /\ Discounted(x - y, k) = Discounted(x, k) - Discounted(y, k)
<1>1. PICK c \in Int : x = c * 2^k
  BY DEF Multiples
<1>2. PICK d \in Int : y = d * 2^k
  BY DEF Multiples
<1>3. PICK p \in Nat \ {0} : p = 2^k
  BY PowersDouble
<1>4. x = c * p /\ y = d * p /\ x + y = (c + d) * p /\ x - y = (c - d) * p
  BY <1>1, <1>2, <1>3
<1>5. c + d \in Int /\ c - d \in Int /\ x + y \in Int /\ x - y \in Int
  BY <1>4
<1>6. x + y \in Multiples(k) /\ x - y \in Multiples(k)
  BY <1>3, <1>4, <1>5 DEF Multiples
<1>7. /\ x \div p = c /\ y \div p = d /\ (x + y) \div p = c + d /\ (x - y) \div p = c - d
  BY <1>4, <1>5, Quotient
<1> QED
  BY <1>3, <1>6, <1>7 DEF Discounted

\* Divisions one after the other.
LEMMA DivisionTwice ==
  ASSUME NEW k \in Nat, NEW l \in Nat, NEW x \in Multiples(k + l)
  PROVE  /\ x \in Multiples(k) /\ Discounted(x, l) \in Multiples(k)
         /\ Discounted(Discounted(x, l), k) = Discounted(x, k + l)
<1>1. PICK c \in Int : x = c * 2^(k + l)
  BY DEF Multiples
<1>2. PICK p \in Nat \ {0} : p = 2^k
  BY PowersDouble
<1>3. PICK q \in Nat \ {0} : q = 2^l
  BY PowersDouble
<1>4. 2^(k + l) = p * q
  BY <1>2, <1>3, PowersMultiply
<1>5. /\ c * p \in Int /\ c * q \in Int /\ p * q \in Nat \ {0}
      /\ x = c * (p * q) /\ x = (c * p) * q /\ x = (c * q) * p
  <2>1. p * q \in Nat \ {0}
    OBVIOUS
  <2>2. c * (p * q) = (c * p) * q /\ c * (p * q) = (c * q) * p /\ c * p \in Int /\ c * q \in Int
    OBVIOUS
  <2> QED
    BY <1>1, <1>4, <2>1, <2>2
<1>6. x \div q = c * p /\ (c * p) \div p = c
  BY <1>5, Quotient
<1>7. x \div (p * q) = c
  BY <1>5, Quotient
<1>8. x \in Multiples(k) /\ c * p \in Multiples(k)
  BY <1>2, <1>5 DEF Multiples
<1> QED
  BY <1>2, <1>3, <1>4, <1>6, <1>7, <1>8 DEF Discounted

\* What is a multiple of a power of two is one of every smaller power, too.
LEMMA CoarserIsFiner ==
  ASSUME NEW k \in Nat, NEW l \in 0..k, NEW x \in Multiples(k)
  PROVE  x \in Multiples(l)
<1>1. k - l \in Nat /\ l \in Nat /\ k = l + (k - l)
  OBVIOUS
<1> QED
  BY <1>1, DivisionTwice

LEMMA NothingDivided ==
  ASSUME NEW k \in Nat
  PROVE  /\ 0 \in Multiples(k) /\ Discounted(0, k) = 0
         /\ \A x \in Int : Discounted(x, 0) = x
<1>1. 2^0 = 1 /\ 2^k \in Nat \ {0}
  BY PowersDouble
<1>2. 0 = 0 * 2^k
  BY <1>1
<1>3. 0 \in Multiples(k)
  BY <1>2 DEF Multiples
<1>4. Discounted(0, k) = 0
  BY <1>1, <1>2, Quotient DEF Discounted
<1>5. ASSUME NEW x \in Int PROVE Discounted(x, 0) = x
  BY <1>1 DEF Discounted
<1> QED
  BY <1>3, <1>4, <1>5

\* A sum over equal numbers.
LEMMA SumOver ==
  ASSUME NEW f, Summable(f), NEW g, DOMAIN g = DOMAIN f, \A x \in DOMAIN f : g[x] = f[x]
  PROVE  Summable(g) /\ SumFunction(g) = SumFunction(f)
<1>1. Summable(g) /\ SumFunction(g) = Partial(f)[DOMAIN f]
  BY PartialAgrees
<1> QED
  BY <1>1, SumIsPartial

LEMMA IntervalsAreFinite ==
  ASSUME NEW a \in Int, NEW b \in Int
  PROVE  IsFiniteSet(a..b)
BY FS_Interval

\* Numbers and what is left of each when it is divided.
TermByTerm(a, b, k, lo, hi) ==
    /\ DOMAIN a = lo..hi /\ DOMAIN b = lo..hi
    /\ \A m \in lo..hi : a[m] \in Multiples(k) /\ b[m] = Discounted(a[m], k)

\* A sum of multiples of a power of two can be divided term by term.
LEMMA SumDivided ==
  ASSUME NEW k \in Nat, NEW lo \in Int, NEW hi \in Int,
         NEW a, NEW b, TermByTerm(a, b, k, lo, hi)
  PROVE  /\ Summable(a) /\ Summable(b)
         /\ SumFunction(a) \in Multiples(k)
         /\ Discounted(SumFunction(a), k) = SumFunction(b)
<1> DEFINE A(d) == [m \in lo..(lo + d - 1) |-> a[m]]
           B(d) == [m \in lo..(lo + d - 1) |-> b[m]]
           Fits(d) == lo + d - 1 <= hi
           Good(d) == /\ SumFunction(A(d)) \in Multiples(k)
                      /\ Discounted(SumFunction(A(d)), k) = SumFunction(B(d))
           T == {d \in Nat : Fits(d) => Good(d)}
<1>0. /\ DOMAIN a = lo..hi /\ DOMAIN b = lo..hi
      /\ \A m \in lo..hi : a[m] \in Multiples(k) /\ b[m] = Discounted(a[m], k)
  BY DEF TermByTerm
<1>1. \A m \in lo..hi : a[m] \in Int /\ b[m] \in Int
  BY <1>0, ExactDivision
<1>2. Summable(a) /\ Summable(b)
  BY <1>0, <1>1, IntervalsAreFinite DEF Summable
<1>3. ASSUME NEW d \in Nat, Fits(d)
      PROVE  /\ Summable(A(d)) /\ Summable(B(d))
             /\ DOMAIN A(d) = lo..(lo + d - 1) /\ DOMAIN B(d) = lo..(lo + d - 1)
  <2>1. lo + d - 1 \in Int /\ IsFiniteSet(lo..(lo + d - 1))
    BY IntervalsAreFinite
  <2>2. \A m \in lo..(lo + d - 1) : a[m] \in Int /\ b[m] \in Int
    BY <1>1, <1>3
  <2> QED
    BY <2>1, <2>2 DEF Summable
<1>4. 0 \in T
  <2>1. SUFFICES ASSUME Fits(0) PROVE Good(0)
    OBVIOUS
  <2>2. /\ Summable(A(0)) /\ Summable(B(0))
        /\ DOMAIN A(0) = {} /\ DOMAIN B(0) = {}
    <3>1. lo..(lo + 0 - 1) = {} /\ 0 \in Nat
      OBVIOUS
    <3> HIDE DEF A, B
    <3> QED
      BY <1>3, <2>1, <3>1
  <2> HIDE DEF A, B
  <2>3. SumFunction(A(0)) = 0 /\ SumFunction(B(0)) = 0
    BY <2>2, SumType
  <2> QED
    BY <2>3, NothingDivided
<1>5. ASSUME NEW d \in T PROVE d + 1 \in T
  <2> HIDE DEF Fits, Good
  <2>0. d \in Nat /\ d + 1 \in Nat /\ (Fits(d) => Good(d))
    OBVIOUS
  <2>1. SUFFICES ASSUME Fits(d + 1) PROVE Good(d + 1)
    BY <2>0
  <2> HIDE DEF T
  <2>2. /\ d \in Nat /\ d + 1 \in Nat /\ lo + d \in Int
        /\ lo..(lo + (d + 1) - 1) = lo..(lo + d)
        /\ lo..(lo + d - 1) = (lo..(lo + d)) \ {lo + d} /\ lo + d \in lo..(lo + d)
    <3>1. d \in Nat
      BY <2>0
    <3>2. lo + (d + 1) - 1 = lo + d
      BY <3>1
    <3> QED
      BY <3>1, <3>2
  <2>3. Fits(d) /\ lo + d \in lo..hi
    BY <2>1, <2>2 DEF Fits
  <2>4. Good(d)
    BY <2>0, <2>3
  <2> USE DEF Fits, Good
  <2> DEFINE x == lo + d
  <2>5. /\ Summable(A(d + 1)) /\ Summable(A(d)) /\ x \in DOMAIN A(d + 1)
        /\ DOMAIN A(d) = DOMAIN A(d + 1) \ {x} /\ A(d + 1)[x] = a[x]
        /\ \A y \in DOMAIN A(d) : A(d)[y] = A(d + 1)[y]
    <3>1. \A y \in lo..(lo + d) : A(d + 1)[y] = a[y]
      BY <2>2
    <3>2. \A y \in lo..(lo + d - 1) : A(d)[y] = a[y]
      OBVIOUS
    <3>3. /\ Summable(A(d + 1)) /\ Summable(A(d))
          /\ DOMAIN A(d) = lo..(lo + d - 1) /\ DOMAIN A(d + 1) = lo..(lo + (d + 1) - 1)
      BY <1>3, <2>1, <2>2, <2>3
    <3> HIDE DEF A
    <3> QED
      BY <2>2, <3>1, <3>2, <3>3
  <2>6. /\ Summable(B(d + 1)) /\ Summable(B(d)) /\ x \in DOMAIN B(d + 1)
        /\ DOMAIN B(d) = DOMAIN B(d + 1) \ {x} /\ B(d + 1)[x] = b[x]
        /\ \A y \in DOMAIN B(d) : B(d)[y] = B(d + 1)[y]
    <3>1. \A y \in lo..(lo + d) : B(d + 1)[y] = b[y]
      BY <2>2
    <3>2. \A y \in lo..(lo + d - 1) : B(d)[y] = b[y]
      OBVIOUS
    <3>3. /\ Summable(B(d + 1)) /\ Summable(B(d))
          /\ DOMAIN B(d) = lo..(lo + d - 1) /\ DOMAIN B(d + 1) = lo..(lo + (d + 1) - 1)
      BY <1>3, <2>1, <2>2, <2>3
    <3> HIDE DEF B
    <3> QED
      BY <2>2, <3>1, <3>2, <3>3
  <2>7. a[x] \in Multiples(k) /\ b[x] = Discounted(a[x], k)
    BY <1>0, <2>3
  <2> HIDE DEF A, B, x
  <2>8. SumFunction(A(d + 1)) = a[x] + SumFunction(A(d))
    <3>1. PICK p : p = A(d + 1)
      OBVIOUS
    <3>2. PICK q : q = A(d)
      OBVIOUS
    <3>3. SumFunction(p) = p[x] + SumFunction(q)
      BY <2>5, <3>1, <3>2, SumSplits
    <3> QED
      BY <2>5, <3>1, <3>2, <3>3
  <2>9. SumFunction(B(d + 1)) = b[x] + SumFunction(B(d))
    <3>1. PICK p : p = B(d + 1)
      OBVIOUS
    <3>2. PICK q : q = B(d)
      OBVIOUS
    <3>3. SumFunction(p) = p[x] + SumFunction(q)
      BY <2>6, <3>1, <3>2, SumSplits
    <3> QED
      BY <2>6, <3>1, <3>2, <3>3
  <2> QED
    BY <2>4, <2>7, <2>8, <2>9, DivisionAdds
<1>6. T = Nat
  <2> HIDE DEF T
  <2>1. T \in SUBSET Nat
    BY DEF T
  <2> QED
    BY <1>4, <1>5, <2>1, SetInduction
<1>7. CASE lo <= hi
  <2> DEFINE n == hi - lo + 1
  <2>1. n \in Nat /\ lo + n - 1 = hi
    BY <1>7
  <2> HIDE DEF n, Good
  <2>2. Good(n)
    <3>1. n \in T /\ Fits(n)
      BY <1>6, <2>1
    <3> QED
      BY <3>1
  <2>3. A(n) = [m \in lo..hi |-> a[m]] /\ B(n) = [m \in lo..hi |-> b[m]]
    BY <2>1
  <2>4. DOMAIN A(n) = DOMAIN a /\ \A m \in DOMAIN a : A(n)[m] = a[m]
    BY <1>0, <2>3
  <2>5. DOMAIN B(n) = DOMAIN b /\ \A m \in DOMAIN b : B(n)[m] = b[m]
    BY <1>0, <2>3
  <2> HIDE DEF A, B
  <2>6. SumFunction(A(n)) = SumFunction(a)
    BY <1>2, <2>4, SumOver
  <2>7. SumFunction(B(n)) = SumFunction(b)
    BY <1>2, <2>5, SumOver
  <2> QED
    BY <1>2, <2>2, <2>6, <2>7 DEF Good
<1>8. CASE lo > hi
  <2>1. lo..hi = {}
    BY <1>8
  <2>2. SumFunction(a) = 0 /\ SumFunction(b) = 0
    BY <1>0, <1>2, <2>1, SumType
  <2> QED
    BY <1>2, <2>2, NothingDivided
<1> QED
  BY <1>7, <1>8

\* What n numbers are worth from the j-th on, each divided by 2^k once for every
\* place that it lies behind.
Worth(g, k, n, j) == SumFunction([m \in j..n |-> Discounted(g[m], k * (m - j))])

\* What they are worth from a place on is the number there and what they are
\* worth from the next place on, divided once.
LEMMA WorthFromHere ==
  ASSUME NEW k \in {1, 2}, NEW n \in Nat, NEW e \in Nat, k * (n - 1) <= e,
         NEW g, \A m \in 1..n : g[m] \in Multiples(e), NEW j \in 1..n
  PROVE  /\ Worth(g, k, n, j) = g[j] + Discounted(Worth(g, k, n, j + 1), k)
         /\ Worth(g, k, n, j + 1) \in Multiples(k)
<1> DEFINE a == [m \in (j + 1)..n |-> Discounted(g[m], k * (m - (j + 1)))]
           b == [m \in (j + 1)..n |-> Discounted(g[m], k * (m - j))]
           c == [m \in j..n |-> Discounted(g[m], k * (m - j))]
<1>1. ASSUME NEW m \in (j + 1)..n
      PROVE  /\ k * (m - (j + 1)) \in Nat /\ k + k * (m - (j + 1)) = k * (m - j)
             /\ k * (m - j) \in 0..e
  <2>1. CASE k = 1
    BY <2>1
  <2>2. CASE k = 2
    BY <2>2
  <2> QED
    BY <2>1, <2>2
<1>2. ASSUME NEW m \in (j + 1)..n
      PROVE  a[m] \in Multiples(k) /\ b[m] = Discounted(a[m], k)
  <2>1. m \in 1..n
    OBVIOUS
  <2>2. g[m] \in Multiples(e)
    BY <2>1
  <2> DEFINE l == k * (m - (j + 1))
  <2>3. l \in Nat /\ k + l = k * (m - j) /\ k + l \in 0..e /\ k \in Nat
    BY <1>1
  <2>4. a[m] = Discounted(g[m], l) /\ b[m] = Discounted(g[m], k + l)
    BY <2>3
  <2> HIDE DEF l, a, b
  <2>5. g[m] \in Multiples(k + l)
    BY <2>2, <2>3, CoarserIsFiner
  <2> QED
    BY <2>3, <2>4, <2>5, DivisionTwice
<1>3. DOMAIN a = (j + 1)..n /\ DOMAIN b = (j + 1)..n /\ DOMAIN c = j..n
  OBVIOUS
<1>4. c[j] = g[j]
  <2>1. j \in j..n /\ k * (j - j) = 0
    OBVIOUS
  <2>2. g[j] \in Int
    BY DEF Multiples
  <2>3. c[j] = Discounted(g[j], 0)
    BY <2>1
  <2> QED
    BY <2>2, <2>3, NothingDivided
<1>5. \A m \in DOMAIN b : b[m] = c[m]
  BY SMT
<1>6. Worth(g, k, n, j) = SumFunction(c) /\ Worth(g, k, n, j + 1) = SumFunction(a)
  BY DEF Worth
<1>7. j \in DOMAIN c /\ DOMAIN b = DOMAIN c \ {j} /\ j..n = ((j + 1)..n) \cup {j}
  BY <1>3
<1> HIDE DEF a, b, c
<1>8. /\ Summable(b) /\ SumFunction(a) \in Multiples(k)
      /\ Discounted(SumFunction(a), k) = SumFunction(b)
  <2>1. k \in Nat /\ n \in Int
    OBVIOUS
  <2>2. PICK lo \in Int : lo = j + 1
    OBVIOUS
  <2>3. DOMAIN a = lo..n /\ DOMAIN b = lo..n
    BY <1>3, <2>2
  <2>4. \A m \in lo..n : a[m] \in Multiples(k) /\ b[m] = Discounted(a[m], k)
    BY <1>2, <2>2
  <2>5. PICK p : p = a
    OBVIOUS
  <2>6. PICK q : q = b
    OBVIOUS
  <2>7. DOMAIN p = lo..n /\ DOMAIN q = lo..n
    BY <2>3, <2>5, <2>6
  <2>8. \A m \in lo..n : p[m] \in Multiples(k) /\ q[m] = Discounted(p[m], k)
    BY <2>4, <2>5, <2>6
  <2>9. TermByTerm(p, q, k, lo, n)
    BY <2>7, <2>8 DEF TermByTerm
  <2>10. /\ Summable(q) /\ SumFunction(p) \in Multiples(k)
        /\ Discounted(SumFunction(p), k) = SumFunction(q)
    BY <2>1, <2>9, SumDivided
  <2> QED
    BY <2>5, <2>6, <2>10
<1>9. Summable(c)
  <2>1. \A x \in DOMAIN c : c[x] \in Int
    BY <1>3, <1>4, <1>5, <1>7, <1>8 DEF Summable, Multiples
  <2>2. IsFiniteSet(DOMAIN c)
    BY <1>3, IntervalsAreFinite
  <2> QED
    BY <2>1, <2>2 DEF Summable
<1>10. SumFunction(c) = c[j] + SumFunction(b)
  BY <1>5, <1>7, <1>9, SumSplits
<1> QED
  BY <1>4, <1>6, <1>8, <1>10

LEMMA WorthAtEnd ==
  ASSUME NEW k, NEW n \in Nat, NEW g
  PROVE  Worth(g, k, n, n + 1) = 0
<1> DEFINE a == [m \in (n + 1)..n |-> Discounted(g[m], k * (m - (n + 1)))]
<1>1. DOMAIN a = {}
  OBVIOUS
<1>2. Worth(g, k, n, n + 1) = SumFunction(a)
  BY DEF Worth
<1> HIDE DEF a
<1>3. Summable(a)
  BY <1>1, FS_EmptySet DEF Summable
<1> QED
  BY <1>1, <1>2, <1>3, SumType

\* The numbers that environment and models answer, and what becomes of them when
\* they are discounted once.
Whole == Multiples(2 * MaxLength)
Halves == Multiples(2 * MaxLength - 1)

LEMMA DividesMeansMultiple ==
  ASSUME NEW p \in Nat \ {0}, NEW x \in Int, x % p = 0
  PROVE  \E c \in Int : x = c * p
<1>1. x = p * (x \div p)
  OBVIOUS
<1>2. x \div p \in Int
  OBVIOUS
<1>3. PICK c \in Int : c = x \div p
  BY <1>2
<1>4. x = c * p
  BY <1>1, <1>3
<1> QED
  BY <1>4

LEMMA AnswersAreWhole ==
  /\ Unit \in Whole
  /\ \A x \in Potentials \cup Values \cup Costs \cup {TaskSuccess, TaskFailure} : x \in Whole
<1>1. 2 * MaxLength \in Nat
  BY UnitAssumption
<1>2. PICK p \in Nat \ {0} : p = 2^(2 * MaxLength)
  BY <1>1, PowersDouble
<1>3. Unit \in Nat \ {0} /\ Unit \in Int /\ Unit % p = 0
  BY <1>2, UnitAssumption
<1>4. PICK d \in Int : Unit = d * p
  BY <1>2, <1>3, DividesMeansMultiple
<1>5. Unit \in Whole
  BY <1>2, <1>3, <1>4 DEF Whole, Multiples
<1>6. ASSUME NEW x \in Potentials \cup Values \cup Costs \cup {TaskSuccess, TaskFailure}
      PROVE  x \in Whole
  <2>1. x \in Int /\ x % Unit = 0
    BY UnitAssumption
  <2>2. PICK c \in Int : x = c * Unit
    BY <1>3, <2>1, DividesMeansMultiple
  <2>3. c * (d * p) = (c * d) * p /\ c * d \in Int
    BY <1>2
  <2> QED
    BY <1>2, <1>4, <2>1, <2>2, <2>3 DEF Whole, Multiples
<1> QED
  BY <1>5, <1>6

\* What a record may hold.
LEMMA WholeAndHalves ==
  /\ 0 \in Whole /\ Whole \subseteq Halves /\ Halves \subseteq Int
  /\ \A x, y \in Whole : x + y \in Whole
  /\ \A x, y \in Halves : x + y \in Halves /\ x - y \in Halves
  /\ \A x \in Whole : Discounted(x, 1) \in Halves
<1>1. PICK k \in Nat : k = 2 * MaxLength - 1
  BY UnitAssumption
<1>2. k + 1 = 2 * MaxLength /\ k + 1 \in Nat
  BY <1>1, UnitAssumption
<1>3. Whole = Multiples(k + 1) /\ Halves = Multiples(k)
  BY <1>1, <1>2 DEF Whole, Halves
<1>4. 1 \in Nat
  OBVIOUS
<1>5. \A x \in Whole : x \in Halves /\ Discounted(x, 1) \in Halves
  BY <1>3, <1>4, DivisionTwice
<1>6. \A x, y \in Whole : x + y \in Whole
  BY <1>2, <1>3, DivisionAdds
<1>7. \A x, y \in Halves : x + y \in Halves /\ x - y \in Halves
  BY <1>3, DivisionAdds
<1>8. 0 \in Whole
  BY <1>2, <1>3, NothingDivided
<1>9. Halves \subseteq Int
  BY DEF Halves, Multiples
<1> QED
  BY <1>5, <1>6, <1>7, <1>8, <1>9

-----------------------------------------------------------------------------
(* Trajectories *)

StepRecords ==
    [trajectory_id: UserIds \cup EpisodeIds, step_index: {n \in Nat : n < MaxLength},
     value: Whole, task_reward: Int, progress_reward: Halves, reward: Halves, phi: Whole,
     done: BOOLEAN]

StepLists == Seq(StepRecords)

TrajectoryRecords == [trajectory_id: UserIds \cup EpisodeIds, steps: StepLists]

\* append() accepts exactly the step that the trajectory lacks next.
LEMMA NextStep ==
  ASSUME NEW t \in TrajectoryRecords, WellFormed(t), NEW r \in StepRecords
  PROVE  MayAppend(t, r) <=>
           /\ r.trajectory_id = t.trajectory_id
           /\ t.steps # <<>> => ~t.steps[Len(t.steps)].done
           /\ r.step_index = Len(t.steps)
<1>1. t.steps \in Seq(StepRecords) /\ Len(t.steps) \in Nat
  BY DEF TrajectoryRecords, StepLists
<1>2. t.steps # <<>> => /\ Len(t.steps) \in DOMAIN t.steps
                        /\ t.steps[Len(t.steps)].step_index = Len(t.steps) - 1
  BY <1>1 DEF WellFormed
<1>3. t.steps = <<>> => Len(t.steps) = 0
  OBVIOUS
<1> QED
  BY <1>1, <1>2, <1>3 DEF MayAppend, Last

\* A well-formed trajectory stays so when it takes the step that it lacks next.
LEMMA AppendKeepsForm ==
  ASSUME NEW t, t.steps \in StepLists, WellFormed(t),
         NEW r \in StepRecords,
         r.trajectory_id = t.trajectory_id, r.step_index = Len(t.steps),
         t.steps # <<>> => ~t.steps[Len(t.steps)].done,
         NEW u, u.trajectory_id = t.trajectory_id, u.steps = Append(t.steps, r)
  PROVE  u.steps \in StepLists /\ WellFormed(u)
<1> DEFINE L == Len(t.steps)
<1>1. /\ L \in Nat /\ DOMAIN t.steps = 1..L
      /\ u.steps \in StepLists /\ Len(u.steps) = L + 1 /\ DOMAIN u.steps = 1..(L + 1)
      /\ u.steps[L + 1] = r
      /\ \A j \in 1..L : u.steps[j] = t.steps[j]
  BY DEF StepLists
<1>2. {r.value, r.reward, r.task_reward, r.progress_reward} \subseteq Int
  BY WholeAndHalves DEF StepRecords
<1>3. ASSUME NEW j \in 1..L
      PROVE  /\ u.steps[j].trajectory_id = u.trajectory_id
             /\ u.steps[j].step_index = j - 1
             /\ ~u.steps[j].done
             /\ {u.steps[j].value, u.steps[j].reward, u.steps[j].task_reward,
                 u.steps[j].progress_reward} \subseteq Int
  <2>1. t.steps # <<>>
    BY <1>1
  <2>2. u.steps[j] = t.steps[j] /\ (t.steps[j].done => j = L)
    BY <1>1 DEF WellFormed
  <2>3. ~t.steps[j].done
    <3>1. CASE j = L
      BY <2>1, <3>1
    <3>2. CASE j # L
      BY <2>2, <3>2
    <3> QED
      BY <3>1, <3>2
  <2>4. /\ t.steps[j].trajectory_id = t.trajectory_id
        /\ t.steps[j].step_index = j - 1
        /\ {t.steps[j].value, t.steps[j].reward, t.steps[j].task_reward,
            t.steps[j].progress_reward} \subseteq Int
    BY <1>1 DEF WellFormed
  <2> QED
    BY <2>2, <2>3, <2>4
<1> QED
  BY <1>1, <1>2, <1>3 DEF WellFormed

\* What an empty trajectory becomes by the first k of some records.
LEMMA Prefix ==
  ASSUME NEW id, NEW records \in StepLists, NEW k \in 0..Len(records)
  PROVE  /\ Longer(Empty(id), records, k)
              = [trajectory_id |-> id, steps |-> SubSeq(records, 1, k)]
         /\ SubSeq(records, 1, k) \in StepLists
         /\ Len(SubSeq(records, 1, k)) = k
         /\ \A j \in 1..k : SubSeq(records, 1, k)[j] = records[j]
         /\ k = Len(records) => SubSeq(records, 1, k) = records
<1>1. records \in Seq(StepRecords) /\ Len(records) \in Nat
  BY DEF StepLists
<1>2. Longer(Empty(id), records, k)
        = [trajectory_id |-> id, steps |-> <<>> \o SubSeq(records, 1, k)]
  BY DEF Longer, Empty
<1>3. /\ <<>> \o SubSeq(records, 1, k) = SubSeq(records, 1, k)
      /\ SubSeq(records, 1, k) \in Seq(StepRecords)
      /\ Len(SubSeq(records, 1, k)) = k
      /\ \A j \in 1..k : SubSeq(records, 1, k)[j] = records[j]
      /\ k = Len(records) => SubSeq(records, 1, k) = records
  BY <1>1
<1> QED
  BY <1>2, <1>3, Zenon DEF StepLists

\* Some number of records is accepted before the first that is refused.
LEMMA AcceptedExists ==
  ASSUME NEW t, NEW records \in StepLists
  PROVE  /\ Accepted(t, records) \in 0..Len(records)
         /\ \A j \in 1..Accepted(t, records) : MayAppend(Longer(t, records, j - 1), records[j])
<1> DEFINE L == Len(records)
           May(k) == MayAppend(Longer(t, records, k), records[k + 1])
           Up(k) == /\ \A j \in 1..k : MayAppend(Longer(t, records, j - 1), records[j])
                    /\ k < L => ~MayAppend(Longer(t, records, k), records[k + 1])
           Stops == {k \in 0..L : k < L => ~May(k)}
<1>1. L \in Nat
  BY DEF StepLists
<1>2. L \in Stops /\ Stops \in SUBSET Nat
  <2> HIDE DEF May
  <2> QED
    BY <1>1
<1>3. PICK k \in Stops : \A y \in Stops : k <= y
  <2>1. Stops # {}
    BY <1>2
  <2> HIDE DEF Stops
  <2> QED
    BY <1>2, <2>1, Least
<1>4. ASSUME NEW j \in 1..k
      PROVE  MayAppend(Longer(t, records, j - 1), records[j])
  <2> HIDE DEF May
  <2>1. k \in 0..L /\ j - 1 \in 0..L /\ j - 1 < k /\ j - 1 < L /\ (j - 1) + 1 = j
    BY <1>1, <1>3, <1>4
  <2>2. ~(j - 1 \in Stops)
    BY <1>3, <2>1
  <2>3. May(j - 1)
    BY <2>1, <2>2
  <2> QED
    BY <2>1, <2>3 DEF May
<1>5. k \in 0..L /\ Up(k)
  <2>1. k \in 0..L /\ (k < L => ~May(k))
    BY <1>3
  <2> QED
    BY <1>4, <2>1 DEF May
<1>6. Accepted(t, records) = CHOOSE n \in 0..L : Up(n)
  BY DEF Accepted
<1>7. Accepted(t, records) \in 0..L /\ Up(Accepted(t, records))
  <2> HIDE DEF Up
  <2> QED
    BY <1>5, <1>6
<1> QED
  BY <1>7

\* The records of a well-formed trajectory are all accepted where there are none yet.
LEMMA WellFormedIsAccepted ==
  ASSUME NEW id, NEW t, t.trajectory_id = id, t.steps \in StepLists, WellFormed(t)
  PROVE  /\ Accepted(Empty(id), t.steps) = Len(t.steps)
         /\ Longer(Empty(id), t.steps, Len(t.steps)) = [trajectory_id |-> id, steps |-> t.steps]
<1> DEFINE L == Len(t.steps)
<1>1. L \in Nat /\ L \in 0..L /\ DOMAIN t.steps = 1..L
  BY DEF StepLists
<1>2. ASSUME NEW j \in 1..L
      PROVE  MayAppend(Longer(Empty(id), t.steps, j - 1), t.steps[j])
  <2>1. t.steps[j].trajectory_id = id /\ t.steps[j].step_index = j - 1
    BY <1>1 DEF WellFormed
  <2> DEFINE before == SubSeq(t.steps, 1, j - 1)
  <2>2. /\ Longer(Empty(id), t.steps, j - 1) = [trajectory_id |-> id, steps |-> before]
        /\ Len(before) = j - 1
        /\ \A i \in 1..(j - 1) : before[i] = t.steps[i]
    <3>1. j - 1 \in 0..L
      BY <1>1
    <3> QED
      BY <3>1, Prefix, Zenon
  <2>3. CASE j = 1
    <3>1. before = <<>>
      BY <2>3
    <3> QED
      BY <2>1, <2>2, <2>3, <3>1 DEF MayAppend
  <2>4. CASE j # 1
    <3>1. j - 1 \in 1..L /\ before # <<>>
      BY <1>1, <2>2, <2>4
    <3>2. ~t.steps[j - 1].done /\ t.steps[j - 1].step_index = j - 2
      BY <1>1, <2>4, <3>1 DEF WellFormed
    <3>3. Last(before) = t.steps[j - 1]
      BY <2>2, <3>1 DEF Last
    <3> HIDE DEF before
    <3> QED
      BY <2>1, <2>2, <2>4, <3>1, <3>2, <3>3 DEF MayAppend
  <2> QED
    BY <2>3, <2>4
<1>3. Accepted(Empty(id), t.steps) = L
  <2> DEFINE Up(k) == /\ \A j \in 1..k : MayAppend(Longer(Empty(id), t.steps, j - 1), t.steps[j])
                      /\ k < L => ~MayAppend(Longer(Empty(id), t.steps, k), t.steps[k + 1])
  <2>1. Up(L) /\ L \in 0..L
    BY <1>1, <1>2
  <2>2. ASSUME NEW k \in 0..L, Up(k) PROVE k = L
    <3>1. SUFFICES ASSUME k < L PROVE FALSE
      BY <1>1, <2>2
    <3>2. k + 1 \in 1..L /\ (k + 1) - 1 = k
      BY <1>1, <2>2, <3>1
    <3> QED
      BY <1>2, <2>2, <3>1, <3>2
  <2>3. Accepted(Empty(id), t.steps) = CHOOSE k \in 0..L : Up(k)
    BY DEF Accepted
  <2> HIDE DEF Up
  <2> QED
    BY <2>1, <2>2, <2>3
<1> QED
  BY <1>1, <1>3, Prefix, Zenon

\* A trajectory whose records are all accepted is well formed.
LEMMA CopiedIsWellFormed ==
  ASSUME NEW t \in TrajectoryRecords, MayCopy(t)
  PROVE  WellFormed(t)
<1> DEFINE L == Len(t.steps)
           id == t.trajectory_id
           At(n) == [trajectory_id |-> id, steps |-> SubSeq(t.steps, 1, n)]
           Good == {n \in Nat : n <= L => WellFormed(At(n))}
<1>1. /\ id \in UserIds \cup EpisodeIds /\ t.steps \in StepLists
      /\ t.steps \in Seq(StepRecords) /\ L \in Nat
      /\ t = [trajectory_id |-> id, steps |-> t.steps]
  BY DEF TrajectoryRecords, StepLists
<1>2. \A j \in 1..L : MayAppend(Longer(Empty(id), t.steps, j - 1), t.steps[j])
  <2>1. Accepted(Empty(id), t.steps) = L
    BY DEF MayCopy
  <2> QED
    BY <1>1, <2>1, AcceptedExists, Zenon
<1>3. 0 \in Good
  <2>1. SubSeq(t.steps, 1, 0) = <<>>
    OBVIOUS
  <2> QED
    BY <2>1 DEF WellFormed
<1>4. ASSUME NEW n \in Good PROVE n + 1 \in Good
  <2>1. SUFFICES ASSUME n + 1 <= L PROVE WellFormed(At(n + 1))
    BY <1>1
  <2>2. /\ n \in Nat /\ n \in 0..L /\ n + 1 \in 0..L /\ n + 1 \in 1..L /\ (n + 1) - 1 = n
        /\ WellFormed(At(n))
    BY <1>1, <2>1
  <2>3. /\ Longer(Empty(id), t.steps, n) = At(n)
        /\ At(n).steps = SubSeq(t.steps, 1, n) /\ At(n).trajectory_id = id
        /\ At(n).steps \in StepLists /\ Len(At(n).steps) = n /\ At(n) \in TrajectoryRecords
    BY <1>1, <2>2, Prefix, Zenon DEF TrajectoryRecords
  <2>4. t.steps[n + 1] \in StepRecords
    BY <1>1, <2>2
  <2>5. MayAppend(At(n), t.steps[n + 1])
    BY <1>2, <2>2, <2>3, Zenon
  <2>6. /\ At(n + 1).trajectory_id = At(n).trajectory_id
        /\ At(n + 1).steps = Append(At(n).steps, t.steps[n + 1])
    <3> DEFINE short == SubSeq(t.steps, 1, n)
               long == SubSeq(t.steps, 1, n + 1)
    <3>1. /\ short \in Seq(StepRecords) /\ Len(short) = n /\ long \in Seq(StepRecords)
          /\ Len(long) = n + 1 /\ \A j \in 1..n : short[j] = t.steps[j]
          /\ \A j \in 1..(n + 1) : long[j] = t.steps[j]
      BY <1>1, <2>2
    <3> HIDE DEF short, long
    <3>2. /\ Append(short, t.steps[n + 1]) \in Seq(StepRecords)
          /\ Len(Append(short, t.steps[n + 1])) = n + 1
          /\ \A j \in 1..(n + 1) : Append(short, t.steps[n + 1])[j] = t.steps[j]
      BY <2>2, <2>4, <3>1
    <3>3. long = Append(short, t.steps[n + 1])
      BY <2>2, <3>1, <3>2, SeqEqual
    <3> QED
      BY <3>3 DEF short, long
  <2> HIDE DEF At
  <2>7. /\ t.steps[n + 1].trajectory_id = At(n).trajectory_id
        /\ At(n).steps # <<>> => ~At(n).steps[Len(At(n).steps)].done
        /\ t.steps[n + 1].step_index = Len(At(n).steps)
    BY <2>2, <2>3, <2>4, <2>5, NextStep, Zenon
  <2> QED
    BY <2>2, <2>3, <2>4, <2>6, <2>7, AppendKeepsForm, Zenon
<1>5. L \in Good
  <2> HIDE DEF Good
  <2>1. Good = Nat
    <3>1. Good \in SUBSET Nat
      BY DEF Good
    <3> QED
      BY <1>3, <1>4, <3>1, SetInduction
  <2> QED
    BY <1>1, <2>1
<1>6. L \in 0..L /\ L <= L
  BY <1>1
<1>7. WellFormed(At(L)) /\ At(L) = [trajectory_id |-> id, steps |-> t.steps]
  BY <1>1, <1>5, <1>6, Prefix, Zenon
<1> QED
  BY <1>1, <1>7, Zenon

-----------------------------------------------------------------------------
(* The buffer *)

Buffers == Seq(TrajectoryRecords)

\* Each trajectory under an id of its own.
Distinct(buf) ==
    \A i, j \in DOMAIN buf : buf[i].trajectory_id = buf[j].trajectory_id => i = j

AllWellFormed(buf) == \A i \in DOMAIN buf : WellFormed(buf[i])

LEMMA UserRecord ==
  ASSUME NEW r \in Records
  PROVE  r \in StepRecords /\ r.trajectory_id \in UserIds
<1>1. /\ Unit \in Whole /\ TaskSuccess \in Whole
      /\ 0 \in Whole /\ Whole \subseteq Halves /\ Halves \subseteq Int
      /\ \A x, y \in Whole : x + y \in Whole
  BY AnswersAreWhole, WholeAndHalves
<1>2. PICK id \in UserIds, n \in 0..(MaxLength - 1), task \in {0, TaskSuccess}, done \in BOOLEAN :
        r = [trajectory_id |-> id, step_index |-> n, value |-> Unit,
             task_reward |-> task, progress_reward |-> 0, reward |-> task + Unit,
             phi |-> 0, done |-> done]
  BY DEF Records
<1>3. n \in {m \in Nat : m < MaxLength}
  BY UnitAssumption
<1>4. task \in Whole /\ task + Unit \in Whole
  BY <1>1
<1> QED
  BY <1>1, <1>2, <1>3, <1>4 DEF StepRecords

\* A trajectory that is added as a whole consists of records of its own.
LEMMA UserTrajectory ==
  ASSUME NEW t \in Trajectories
  PROVE  t \in TrajectoryRecords /\ t.trajectory_id \in UserIds
<1>1. PICK id \in UserIds : t \in [trajectory_id: {id}, steps: BoundedSeq(UserSteps(id), MaxAdded)]
  BY DEF Trajectories
<1>2. PICK n \in 0..MaxAdded : t.steps \in [1..n -> UserSteps(id)]
  BY <1>1 DEF BoundedSeq, SeqOf
<1>3. UserSteps(id) \subseteq StepRecords
  BY UserRecord DEF UserSteps
<1>4. n \in Nat
  BY <1>2, UnitAssumption
<1>5. t.steps \in Seq(StepRecords)
  BY <1>2, <1>3, <1>4
<1> QED
  BY <1>1, <1>5 DEF TrajectoryRecords, StepLists

\* What the buffer has under an id, or an empty trajectory.
LEMMA StoredIsWellFormed ==
  ASSUME NEW buf \in Buffers, AllWellFormed(buf), NEW id \in UserIds \cup EpisodeIds
  PROVE  /\ Stored(buf, id) \in TrajectoryRecords
         /\ Stored(buf, id).trajectory_id = id
         /\ WellFormed(Stored(buf, id))
<1>1. CASE Under(buf, id) = {}
  <2>1. <<>> \in StepLists
    BY DEF StepLists
  <2>2. Stored(buf, id) = [trajectory_id |-> id, steps |-> <<>>]
    BY <1>1 DEF Stored, Empty
  <2> QED
    BY <2>1, <2>2 DEF TrajectoryRecords, WellFormed
<1>2. CASE Under(buf, id) # {}
  <2>1. PICK i \in Under(buf, id) : Stored(buf, id) = buf[i]
    BY <1>2 DEF Stored
  <2>2. i \in DOMAIN buf /\ buf[i].trajectory_id = id
    BY <2>1 DEF Under
  <2>3. buf[i] \in TrajectoryRecords
    BY <2>2 DEF Buffers
  <2> QED
    BY <2>1, <2>2, <2>3 DEF AllWellFormed
<1> QED
  BY <1>1, <1>2

LEMMA AppendedIsWellFormed ==
  ASSUME NEW t \in TrajectoryRecords, WellFormed(t), NEW r \in StepRecords
  PROVE  /\ Appended(t, r) \in TrajectoryRecords
         /\ Appended(t, r).trajectory_id = t.trajectory_id
         /\ WellFormed(Appended(t, r))
<1>1. CASE ~MayAppend(t, r)
  BY <1>1 DEF Appended
<1>2. CASE MayAppend(t, r)
  <2>1. Appended(t, r) = [trajectory_id |-> t.trajectory_id, steps |-> Append(t.steps, r)]
    BY <1>2 DEF Appended
  <2>2. /\ r.trajectory_id = t.trajectory_id
        /\ t.steps # <<>> => ~t.steps[Len(t.steps)].done
        /\ r.step_index = Len(t.steps)
    BY <1>2, NextStep
  <2>3. t.steps \in StepLists /\ t.trajectory_id \in UserIds \cup EpisodeIds
    BY DEF TrajectoryRecords
  <2>4. /\ Appended(t, r).trajectory_id = t.trajectory_id
        /\ Appended(t, r).steps = Append(t.steps, r)
    BY <2>1
  <2>5. Appended(t, r).steps \in StepLists /\ WellFormed(Appended(t, r))
    BY <2>2, <2>3, <2>4, AppendKeepsForm, Zenon
  <2> QED
    BY <2>1, <2>3, <2>4, <2>5 DEF TrajectoryRecords
<1> QED
  BY <1>1, <1>2

\* A trajectory takes the place of the one under its id, or a new one.
LEMMA PutKeeps ==
  ASSUME NEW buf \in Buffers, Distinct(buf), AllWellFormed(buf),
         NEW u \in TrajectoryRecords, WellFormed(u)
  PROVE  /\ Put(buf, u) \in Buffers
         /\ Distinct(Put(buf, u)) /\ AllWellFormed(Put(buf, u))
         /\ \A i \in DOMAIN Put(buf, u) :
              Put(buf, u)[i] = u \/ \E j \in DOMAIN buf : Put(buf, u)[i] = buf[j]
<1> DEFINE known == Under(buf, u.trajectory_id)
<1>1. /\ Len(buf) \in Nat /\ DOMAIN buf = 1..Len(buf)
      /\ \A i \in DOMAIN buf : buf[i] \in TrajectoryRecords
  BY DEF Buffers
<1>2. CASE known # {}
  <2> DEFINE new == [i \in DOMAIN buf |-> IF i \in known THEN u ELSE buf[i]]
  <2>1. Put(buf, u) = new
    BY <1>2 DEF Put
  <2>2. new \in Buffers
    <3>1. new \in [1..Len(buf) -> TrajectoryRecords]
      BY <1>1
    <3> HIDE DEF new
    <3> QED
      BY <1>1, <3>1 DEF Buffers
  <2>3. \A i \in DOMAIN new : /\ i \in DOMAIN buf
                              /\ new[i] = IF i \in known THEN u ELSE buf[i]
                              /\ new[i].trajectory_id = buf[i].trajectory_id
    BY DEF Under
  <2> HIDE DEF new
  <2>4. Distinct(new)
    BY <2>3 DEF Distinct
  <2>5. AllWellFormed(new)
    BY <2>3 DEF AllWellFormed
  <2> QED
    BY <2>1, <2>2, <2>3, <2>4, <2>5
<1>3. CASE known = {} /\ u.steps = <<>>
  BY <1>3 DEF Put
<1>4. CASE known = {} /\ u.steps # <<>>
  <2> DEFINE new == Append(buf, u)
  <2>1. Put(buf, u) = new
    BY <1>4 DEF Put
  <2>2. /\ new \in Buffers /\ DOMAIN new = 1..(Len(buf) + 1)
        /\ \A i \in 1..Len(buf) : new[i] = buf[i]
        /\ new[Len(buf) + 1] = u
    BY <1>1 DEF Buffers
  <2>3. \A i \in DOMAIN buf : buf[i].trajectory_id # u.trajectory_id
    BY <1>4 DEF Under
  <2> HIDE DEF new
  <2>4. \A i \in DOMAIN new : i = Len(buf) + 1 \/ i \in DOMAIN buf
    BY <1>1, <2>2
  <2>5. Distinct(new)
    BY <1>1, <2>2, <2>3, <2>4 DEF Distinct
  <2>6. AllWellFormed(new)
    BY <1>1, <2>2, <2>4 DEF AllWellFormed
  <2> QED
    BY <1>1, <2>1, <2>2, <2>4, <2>5, <2>6
<1> QED
  BY <1>2, <1>3, <1>4

-----------------------------------------------------------------------------
(* The inductive invariant of the rollouts *)

\* The task reward is paid at a terminal step or not at all.
PaidAtEnd(steps) == \A j \in DOMAIN steps : steps[j].done \/ steps[j].task_reward = 0

\* The bound on an episode's length is reached by a terminal step only.
EndsInTime(steps) ==
    /\ Len(steps) <= MaxLength
    /\ steps # <<>> /\ Len(steps) = MaxLength => steps[Len(steps)].done

Runs == [trajectory_id: EpisodeIds, steps: StepLists, phi: Whole]

BufferInv(buf) ==
    /\ buf \in Buffers /\ Distinct(buf) /\ AllWellFormed(buf)
    /\ \A i \in DOMAIN buf :
         buf[i].trajectory_id \in EpisodeIds => Done(buf[i]) /\ PaidAtEnd(buf[i].steps)

\* What the collector adds is complete; what it is collecting is new to the buffer.
RolloutInv ==
    /\ BufferInv(buffer)
    /\ running # None =>
         /\ running \in Runs /\ WellFormed(running) /\ PaidAtEnd(running.steps)
         /\ EndsInTime(running.steps)
         /\ running.trajectory_id \notin Registered

LEMMA InvImpliesTypeOK == RolloutInv => TypeOK
<1>1. ASSUME RolloutInv PROVE Registered \subseteq UserIds \cup EpisodeIds
  <2>1. \A i \in DOMAIN buffer : buffer[i] \in TrajectoryRecords
    BY <1>1 DEF RolloutInv, BufferInv, Buffers
  <2>2. \A i \in DOMAIN buffer : buffer[i].trajectory_id \in UserIds \cup EpisodeIds
    BY <2>1 DEF TrajectoryRecords
  <2> QED
    BY <2>2 DEF Registered
<1> QED
  BY <1>1 DEF RolloutInv, BufferInv, Distinct, AllWellFormed, TypeOK, Runs

\* The buffer keeps its invariant when a good trajectory is put into it.
LEMMA PutKeepsBuffer ==
  ASSUME NEW buf, BufferInv(buf), NEW u \in TrajectoryRecords, WellFormed(u),
         u.trajectory_id \in EpisodeIds => Done(u) /\ PaidAtEnd(u.steps)
  PROVE  BufferInv(Put(buf, u))
<1>1. buf \in Buffers /\ Distinct(buf) /\ AllWellFormed(buf)
  BY DEF BufferInv
<1>2. /\ Put(buf, u) \in Buffers /\ Distinct(Put(buf, u)) /\ AllWellFormed(Put(buf, u))
      /\ \A i \in DOMAIN Put(buf, u) :
           Put(buf, u)[i] = u \/ \E j \in DOMAIN buf : Put(buf, u)[i] = buf[j]
  BY <1>1, PutKeeps
<1> QED
  BY <1>2 DEF BufferInv

LEMMA AddKeeps == RolloutInv /\ Add => RolloutInv'
<1> SUFFICES ASSUME RolloutInv, Add PROVE RolloutInv'
  OBVIOUS
<1>1. PICK r \in Records : buffer' = Added(buffer, r)
  BY DEF Add
<1> DEFINE u == Appended(Stored(buffer, r.trajectory_id), r)
<1>2. r \in StepRecords /\ r.trajectory_id \in UserIds
  BY UserRecord
<1>3. BufferInv(buffer) /\ buffer \in Buffers /\ AllWellFormed(buffer)
  BY DEF RolloutInv, BufferInv
<1>4. /\ Stored(buffer, r.trajectory_id) \in TrajectoryRecords
      /\ Stored(buffer, r.trajectory_id).trajectory_id = r.trajectory_id
      /\ WellFormed(Stored(buffer, r.trajectory_id))
  BY <1>2, <1>3, StoredIsWellFormed
<1>5. u \in TrajectoryRecords /\ u.trajectory_id = r.trajectory_id /\ WellFormed(u)
  BY <1>2, <1>4, AppendedIsWellFormed
<1>6. buffer' = Put(buffer, u)
  BY <1>1 DEF Added
<1>7. ~(u.trajectory_id \in EpisodeIds)
  BY <1>2, <1>5, IdAssumption
<1> HIDE DEF u
<1>8. BufferInv(Put(buffer, u))
  BY <1>3, <1>5, <1>7, PutKeepsBuffer
<1>9. BufferInv(buffer')
  BY <1>6, <1>8
<1>10. running' = None
  BY DEF Add
<1> QED
  BY <1>9, <1>10 DEF RolloutInv, BufferInv

LEMMA AddTrajectoryKeeps == RolloutInv /\ AddTrajectory => RolloutInv'
<1> SUFFICES ASSUME RolloutInv, AddTrajectory PROVE RolloutInv'
  OBVIOUS
<1>1. PICK t \in Trajectories : /\ t.trajectory_id \notin Registered
                                /\ MayCopy(t)
                                /\ buffer' = Append(buffer, t)
  BY DEF AddTrajectory
<1>2. t \in TrajectoryRecords /\ t.trajectory_id \in UserIds
  BY UserTrajectory
<1>3. WellFormed(t)
  BY <1>1, <1>2, CopiedIsWellFormed
<1>4. t.trajectory_id \notin EpisodeIds
  BY <1>2, IdAssumption
<1>5. /\ buffer \in Seq(TrajectoryRecords) /\ Len(buffer) \in Nat
      /\ DOMAIN buffer = 1..Len(buffer)
  BY DEF RolloutInv, BufferInv, Buffers
<1>6. /\ buffer' \in Seq(TrajectoryRecords) /\ DOMAIN buffer' = 1..(Len(buffer) + 1)
      /\ \A i \in 1..Len(buffer) : buffer'[i] = buffer[i]
      /\ buffer'[Len(buffer) + 1] = t
  BY <1>1, <1>2, <1>5
<1>7. /\ \A i \in DOMAIN buffer' : i = Len(buffer) + 1 \/ i \in DOMAIN buffer
      /\ \A i \in DOMAIN buffer : buffer[i].trajectory_id # t.trajectory_id
  BY <1>1, <1>5, <1>6 DEF Registered
<1>8. Distinct(buffer')
  BY <1>5, <1>6, <1>7 DEF RolloutInv, BufferInv, Distinct
<1>9. AllWellFormed(buffer')
  BY <1>3, <1>5, <1>6, <1>7 DEF RolloutInv, BufferInv, AllWellFormed
<1>10. \A i \in DOMAIN buffer' :
         buffer'[i].trajectory_id \in EpisodeIds => Done(buffer'[i]) /\ PaidAtEnd(buffer'[i].steps)
  BY <1>4, <1>5, <1>6, <1>7 DEF RolloutInv, BufferInv
<1>11. running' = None
  BY DEF AddTrajectory
<1> QED
  BY <1>6, <1>8, <1>9, <1>10, <1>11 DEF RolloutInv, BufferInv, Buffers

LEMMA ClearKeeps == RolloutInv /\ Clear => RolloutInv'
<1>1. BufferInv(<<>>)
  BY DEF BufferInv, Buffers, Distinct, AllWellFormed
<1> QED
  BY <1>1 DEF Clear, RolloutInv

LEMMA StartKeeps == RolloutInv /\ StartEpisode => RolloutInv'
<1> SUFFICES ASSUME RolloutInv, StartEpisode PROVE RolloutInv'
  OBVIOUS
<1>1. PICK id \in EpisodeIds \ Registered, phi \in Potentials :
        running' = [trajectory_id |-> id, steps |-> <<>>, phi |-> phi]
  BY DEF StartEpisode
<1>2. phi \in Whole /\ <<>> \in StepLists
  BY AnswersAreWhole DEF StepLists
<1>3. buffer' = buffer /\ Registered' = Registered
  BY DEF StartEpisode, Registered
<1>4. /\ running' \in Runs /\ WellFormed(running') /\ PaidAtEnd(running'.steps)
      /\ EndsInTime(running'.steps)
  <2>1. Len(<<>>) = 0 /\ MaxLength \in Nat
    BY UnitAssumption
  <2> QED
    BY <1>1, <1>2, <2>1 DEF Runs, WellFormed, PaidAtEnd, EndsInTime
<1>5. running'.trajectory_id \notin Registered'
  BY <1>1, <1>3
<1> QED
  BY <1>3, <1>4, <1>5 DEF RolloutInv

\* What a step appends to the episode.
LEMMA StepTaken ==
  ASSUME RolloutInv, EpisodeStep
  PROVE  \E r \in StepRecords :
           /\ running' = [trajectory_id |-> running.trajectory_id,
                          steps |-> Append(running.steps, r), phi |-> running'.phi]
           /\ r.trajectory_id = running.trajectory_id /\ r.step_index = Len(running.steps)
           /\ r.done \/ r.task_reward = 0
           /\ r.phi = running.phi /\ running'.phi \in Whole /\ (r.done => running'.phi = 0)
           /\ r.progress_reward = PotentialShaping(running.phi, running'.phi)
           /\ Len(running.steps) + 1 <= MaxLength
           /\ Len(running.steps) + 1 = MaxLength => r.done
<1>1. /\ running \in Runs /\ WellFormed(running) /\ PaidAtEnd(running.steps)
      /\ running.trajectory_id \notin Registered
      /\ running.steps # <<>> => ~running.steps[Len(running.steps)].done
      /\ EndsInTime(running.steps)
  BY DEF RolloutInv, EpisodeStep, Last
<1>2. PICK done, success \in BOOLEAN, value \in Values, cost \in Costs,
           answer \in Potentials :
        LET phiNext  == PhiNextUsed(done, answer)
            task     == TaskReward(done, success)
            progress == PotentialShaping(running.phi, phiNext)
        IN  /\ success => done
            /\ Len(running.steps) + 1 = MaxLength \/ Room = 1 => done
            /\ running' =
                 [running EXCEPT
                    !.steps = Append(@, [trajectory_id |-> running.trajectory_id,
                                         step_index |-> Len(running.steps),
                                         value |-> value,
                                         task_reward |-> task,
                                         progress_reward |-> progress,
                                         reward |-> task + progress + cost,
                                         phi |-> running.phi,
                                         done |-> done]),
                    !.phi = phiNext]
  BY Zenon DEF EpisodeStep
<1> DEFINE phiNext == PhiNextUsed(done, answer)
           task == TaskReward(done, success)
           progress == PotentialShaping(running.phi, phiNext)
           r == [trajectory_id |-> running.trajectory_id,
                 step_index |-> Len(running.steps),
                 value |-> value,
                 task_reward |-> task,
                 progress_reward |-> progress,
                 reward |-> task + progress + cost,
                 phi |-> running.phi,
                 done |-> done]
<1>3. /\ value \in Whole /\ cost \in Whole /\ answer \in Whole
      /\ TaskSuccess \in Whole /\ TaskFailure \in Whole /\ 0 \in Whole
  BY AnswersAreWhole, WholeAndHalves
<1>4. phiNext \in Whole /\ task \in Whole /\ (~done => task = 0)
  BY <1>2, <1>3 DEF PhiNextUsed, TaskReward
<1>5. /\ running.trajectory_id \in EpisodeIds /\ running.steps \in StepLists
      /\ running.phi \in Whole /\ Len(running.steps) \in Nat
  BY <1>1 DEF Runs, StepLists
<1>6. progress \in Halves
  <2> HIDE DEF phiNext
  <2> QED
    BY <1>4, <1>5, WholeAndHalves DEF PotentialShaping
<1>7. r \in StepRecords
  <2> HIDE DEF task, progress
  <2>1. task + progress \in Halves /\ task \in Int
    BY <1>4, <1>6, WholeAndHalves
  <2>2. task + progress + cost \in Halves
    BY <1>3, <2>1, WholeAndHalves
  <2>3. Len(running.steps) < MaxLength
    BY <1>1, <1>5, UnitAssumption DEF EndsInTime
  <2> QED
    BY <1>3, <1>4, <1>5, <1>6, <2>1, <2>2, <2>3 DEF StepRecords
<1>8. running' = [trajectory_id |-> running.trajectory_id,
                  steps |-> Append(running.steps, r), phi |-> phiNext]
  BY <1>1, <1>2 DEF Runs
<1>9. /\ r.trajectory_id = running.trajectory_id /\ r.step_index = Len(running.steps)
      /\ r.done \/ r.task_reward = 0
      /\ r.phi = running.phi /\ (r.done => phiNext = 0)
      /\ r.progress_reward = PotentialShaping(running.phi, phiNext)
      /\ Len(running.steps) + 1 = MaxLength => r.done
  BY <1>2, <1>4 DEF PhiNextUsed
<1>10. Len(running.steps) + 1 <= MaxLength
  BY <1>1, <1>5, UnitAssumption DEF EndsInTime
<1> HIDE DEF r, phiNext
<1>11. running'.phi = phiNext
  BY <1>8
<1> QED
  BY <1>4, <1>7, <1>8, <1>9, <1>10, <1>11

LEMMA EpisodeStepKeeps == RolloutInv /\ EpisodeStep => RolloutInv'
<1> SUFFICES ASSUME RolloutInv, EpisodeStep PROVE RolloutInv'
  OBVIOUS
<1>1. /\ running \in Runs /\ WellFormed(running) /\ PaidAtEnd(running.steps)
      /\ running.trajectory_id \notin Registered
      /\ running.steps # <<>> => ~running.steps[Len(running.steps)].done
  BY DEF RolloutInv, EpisodeStep, Last
<1>2. PICK r \in StepRecords :
           /\ running' = [trajectory_id |-> running.trajectory_id,
                          steps |-> Append(running.steps, r), phi |-> running'.phi]
           /\ r.trajectory_id = running.trajectory_id /\ r.step_index = Len(running.steps)
           /\ r.done \/ r.task_reward = 0
           /\ r.phi = running.phi /\ running'.phi \in Whole /\ (r.done => running'.phi = 0)
           /\ r.progress_reward = PotentialShaping(running.phi, running'.phi)
           /\ Len(running.steps) + 1 <= MaxLength
           /\ Len(running.steps) + 1 = MaxLength => r.done
  BY StepTaken
<1>3. /\ running.trajectory_id \in EpisodeIds /\ running.steps \in StepLists
      /\ Len(running.steps) \in Nat
  BY <1>1 DEF Runs, StepLists
<1>4. /\ running'.trajectory_id = running.trajectory_id
      /\ running'.steps = Append(running.steps, r)
  BY <1>2
<1>5. running'.steps \in StepLists /\ WellFormed(running')
  BY <1>1, <1>2, <1>3, <1>4, AppendKeepsForm, Zenon
<1>6. running' \in Runs
  BY <1>2, <1>3, <1>4, <1>5 DEF Runs
<1>7. /\ DOMAIN running.steps = 1..Len(running.steps)
      /\ DOMAIN running'.steps = 1..(Len(running.steps) + 1)
      /\ Len(running'.steps) = Len(running.steps) + 1
      /\ \A j \in 1..Len(running.steps) : running'.steps[j] = running.steps[j]
      /\ running'.steps[Len(running.steps) + 1] = r
  BY <1>2, <1>3, <1>4 DEF StepLists
<1>8. PaidAtEnd(running'.steps)
  BY <1>1, <1>2, <1>3, <1>7 DEF PaidAtEnd
<1>9. EndsInTime(running'.steps)
  BY <1>2, <1>3, <1>7 DEF EndsInTime
<1>10. buffer' = buffer /\ Registered' = Registered
  BY DEF EpisodeStep, Registered
<1>11. running'.trajectory_id \notin Registered'
  BY <1>1, <1>4, <1>10
<1> QED
  BY <1>5, <1>6, <1>8, <1>9, <1>10, <1>11 DEF RolloutInv

LEMMA CollectKeeps == RolloutInv /\ Collect => RolloutInv'
<1> SUFFICES ASSUME RolloutInv, Collect PROVE RolloutInv'
  OBVIOUS
<1> DEFINE id == running.trajectory_id
           u == [trajectory_id |-> id, steps |-> running.steps]
<1>1. /\ id \in EpisodeIds /\ running.steps \in StepLists
      /\ WellFormed(running) /\ PaidAtEnd(running.steps) /\ id \notin Registered
      /\ running.steps # <<>> /\ Last(running.steps).done /\ BufferInv(buffer)
  BY DEF RolloutInv, Collect, Runs
<1>2. Stored(buffer, id) = Empty(id)
  BY <1>1 DEF Stored, Under, Registered
<1>3. /\ Accepted(Empty(id), running.steps) = Len(running.steps)
      /\ Longer(Empty(id), running.steps, Len(running.steps)) = u
  BY <1>1, WellFormedIsAccepted, Zenon
<1>4. buffer' = Put(buffer, u)
  BY <1>2, <1>3 DEF Collect, Extended
<1>5. /\ u \in TrajectoryRecords /\ WellFormed(u)
      /\ Done(u) /\ PaidAtEnd(u.steps)
  BY <1>1 DEF TrajectoryRecords, WellFormed, Done
<1> HIDE DEF u
<1>6. BufferInv(Put(buffer, u))
  BY <1>1, <1>5, PutKeepsBuffer
<1>7. running' = None
  BY DEF Collect
<1>8. BufferInv(buffer')
  BY <1>4, <1>6
<1> QED
  BY <1>7, <1>8 DEF RolloutInv

LEMMA RolloutStep == RolloutInv /\ [Next]_vars => RolloutInv'
<1>1. RolloutInv /\ UNCHANGED vars => RolloutInv'
  BY DEF vars, RolloutInv, Registered
<1> QED
  BY <1>1, AddKeeps, AddTrajectoryKeeps, ClearKeeps, StartKeeps, EpisodeStepKeeps,
     CollectKeeps DEF Next

LEMMA RolloutInvariant == LearningSpec => []RolloutInv
<1>1. LearningInit => RolloutInv
  BY DEF LearningInit, Init, RolloutInv, BufferInv, Buffers, Distinct, AllWellFormed
<1>2. RolloutInv /\ [LearningNext]_<<part, seedVars, vars>> => RolloutInv'
  <2>1. [LearningNext]_<<part, seedVars, vars>> => [Next]_vars
    BY DEF LearningNext, vars
  <2> QED
    BY <2>1, RolloutStep
<1> QED
  BY <1>1, <1>2, PTL DEF LearningSpec

\* However records are added, in whatever order, right or wrong, the buffer's
\* trajectories are distinct and each is a row of its own steps 0, 1, 2, ...
\* closed by a terminal step if by any; so is the one that is being collected.
THEOREM TrajectoriesAreWellFormed == LearningSpec => []TypeOK
<1> QED
  BY RolloutInvariant, InvImpliesTypeOK, PTL

\* A buffer that only the collector has filled is never refused by sequence PPO:
\* each of its episodes is complete and paid its task reward at the end.
THEOREM CollectedIsNeverRefused == LearningSpec => []CollectedIsAccepted
<1>1. ASSUME RolloutInv, buffer # <<>>, Registered \subseteq EpisodeIds PROVE ~SequenceRefused
  <2>1. ASSUME NEW i \in DOMAIN buffer
        PROVE  /\ Done(buffer[i]) /\ PaidAtEnd(buffer[i].steps)
               /\ WellFormed(buffer[i]) /\ buffer[i].steps \in Seq(StepRecords)
    <3>1. buffer[i].trajectory_id \in EpisodeIds
      BY <1>1 DEF Registered
    <3>2. buffer[i] \in TrajectoryRecords
      BY <1>1 DEF RolloutInv, BufferInv, Buffers
    <3> QED
      BY <1>1, <3>1, <3>2 DEF RolloutInv, BufferInv, AllWellFormed, TrajectoryRecords, StepLists
  <2>2. ASSUME NEW i \in DOMAIN buffer, NEW r \in ToSet(Front(buffer[i].steps))
        PROVE  r.task_reward = 0
    <3> DEFINE steps == buffer[i].steps
    <3>1. steps \in Seq(StepRecords) /\ steps # <<>> /\ Len(steps) \in Nat \ {0}
      BY <2>1 DEF Done
    <3>2. PICK j \in DOMAIN Front(steps) : r = Front(steps)[j]
      BY <2>2 DEF ToSet
    <3> HIDE DEF steps
    <3>3. j \in 1..(Len(steps) - 1) /\ r = steps[j]
      BY <3>1, <3>2 DEF Front
    <3>4. j \in DOMAIN steps /\ j # Len(steps)
      BY <3>1, <3>3
    <3> QED
      BY <2>1, <3>3, <3>4 DEF steps, WellFormed, PaidAtEnd
  <2> QED
    BY <1>1, <2>1, <2>2 DEF SequenceRefused
<1> QED
  BY <1>1, RolloutInvariant, PTL DEF CollectedIsAccepted

-----------------------------------------------------------------------------
(* What shaping pays *)

LEMMA DividedIsInt ==
  ASSUME NEW x \in Int, NEW k \in Nat
  PROVE  Discounted(x, k) \in Int
<1>1. PICK p \in Nat \ {0} : p = 2^k
  BY PowersDouble
<1>2. x \div p \in Int
  OBVIOUS
<1> QED
  BY <1>1, <1>2 DEF Discounted

\* What an episode has earned by shaping.
Earned(steps) ==
    SumFunction([j \in DOMAIN steps |-> Discounted(steps[j].progress_reward, j - 1)])

LEMMA EarnedSoFar ==
  ASSUME NEW steps \in StepLists, NEW r \in StepRecords
  PROVE  /\ Earned(<<>>) = 0 /\ Earned(steps) \in Int
         /\ Earned(Append(steps, r)) = Earned(steps) + Discounted(r.progress_reward, Len(steps))
<1> DEFINE n == Len(steps)
           longer == Append(steps, r)
           f == [j \in DOMAIN longer |-> Discounted(longer[j].progress_reward, j - 1)]
           g == [j \in DOMAIN steps |-> Discounted(steps[j].progress_reward, j - 1)]
           h == [j \in DOMAIN <<>> |-> Discounted(<<>>[j].progress_reward, j - 1)]
<1>1. /\ n \in Nat /\ DOMAIN steps = 1..n /\ DOMAIN longer = 1..(n + 1)
      /\ \A j \in 1..n : longer[j] = steps[j] /\ steps[j] \in StepRecords
      /\ longer[n + 1] = r
  BY DEF StepLists
<1>2. /\ Earned(longer) = SumFunction(f) /\ Earned(steps) = SumFunction(g)
      /\ Earned(<<>>) = SumFunction(h)
  BY DEF Earned
<1>3. \A s \in StepRecords : s.progress_reward \in Int
  BY WholeAndHalves DEF StepRecords
<1>4. /\ DOMAIN f = 1..(n + 1) /\ DOMAIN g = 1..n /\ DOMAIN h = {}
      /\ \A j \in 1..n : /\ f[j] = Discounted(steps[j].progress_reward, j - 1)
                         /\ g[j] = Discounted(steps[j].progress_reward, j - 1)
      /\ f[n + 1] = Discounted(r.progress_reward, n)
  <2>1. DOMAIN <<>> = {}
    OBVIOUS
  <2>2. (n + 1) - 1 = n /\ n + 1 \in 1..(n + 1)
    BY <1>1
  <2> HIDE DEF longer, n
  <2> QED
    BY <1>1, <2>1, <2>2
<1> HIDE DEF f, g, h, longer
<1>5. \A j \in 1..n : f[j] \in Int
  <2>1. \A j \in 1..n : j - 1 \in Nat /\ steps[j].progress_reward \in Int
    BY <1>1, <1>3
  <2> HIDE DEF n
  <2> QED
    BY <1>4, <2>1, DividedIsInt
<1>6. f[n + 1] \in Int
  BY <1>1, <1>3, <1>4, DividedIsInt
<1>7. Summable(f)
  <2>1. \A j \in DOMAIN f : f[j] \in Int
    BY <1>1, <1>4, <1>5, <1>6
  <2>2. IsFiniteSet(DOMAIN f)
    BY <1>1, <1>4, IntervalsAreFinite
  <2> QED
    BY <2>1, <2>2 DEF Summable
<1>8. SumFunction(f) = f[n + 1] + SumFunction(g) /\ Summable(g)
  <2>1. PICK p : p = f
    OBVIOUS
  <2>2. PICK q : q = g
    OBVIOUS
  <2>3. PICK x : x = n + 1
    OBVIOUS
  <2>4. x \in DOMAIN p /\ DOMAIN q = DOMAIN p \ {x} /\ \A y \in DOMAIN q : q[y] = p[y]
    BY <1>1, <1>4, <2>1, <2>2, <2>3
  <2>5. Summable(q) /\ SumFunction(p) = p[x] + SumFunction(q)
    BY <1>7, <2>1, <2>4, SumSplits
  <2> QED
    BY <2>1, <2>2, <2>3, <2>5
<1>9. Summable(h)
  BY <1>4, FS_EmptySet DEF Summable
<1>10. SumFunction(h) = 0
  <2>1. PICK q : q = h
    OBVIOUS
  <2> QED
    BY <1>4, <1>9, <2>1, SumType
<1>11. SumFunction(g) \in Int
  <2>1. PICK q : q = g
    OBVIOUS
  <2> QED
    BY <1>8, <2>1, SumType
<1>12. SumFunction(f) = SumFunction(g) + f[n + 1]
  BY <1>6, <1>8, <1>11
<1> QED
  BY <1>2, <1>4, <1>10, <1>11, <1>12 DEF longer, n

\* A step pays the discounted difference of the potentials that it lies between.
LEMMA ShapingIsExact ==
  ASSUME NEW n \in Nat, n < MaxLength, NEW phi \in Whole, NEW phiNext \in Whole
  PROVE  /\ Discounted(PotentialShaping(phi, phiNext), n)
              = Discounted(phiNext, n + 1) - Discounted(phi, n)
         /\ Discounted(phiNext, n + 1) \in Int /\ Discounted(phi, n) \in Int
<1>1. 2 * MaxLength \in Nat /\ n + 1 \in 0..(2 * MaxLength) /\ n \in 0..(2 * MaxLength) /\ 1 \in Nat
  BY UnitAssumption
<1>2. phiNext \in Multiples(n + 1) /\ phi \in Multiples(n)
  BY <1>1, CoarserIsFiner DEF Whole
<1>3. /\ Discounted(phiNext, 1) \in Multiples(n)
      /\ Discounted(Discounted(phiNext, 1), n) = Discounted(phiNext, n + 1)
  BY <1>1, <1>2, DivisionTwice
<1>4. Discounted(Discounted(phiNext, 1) - phi, n)
        = Discounted(Discounted(phiNext, 1), n) - Discounted(phi, n)
  BY <1>2, <1>3, DivisionAdds
<1>5. phi \in Int /\ phiNext \in Int /\ n + 1 \in Nat
  BY WholeAndHalves
<1>6. Discounted(phiNext, n + 1) \in Int /\ Discounted(phi, n) \in Int
  BY <1>5, DividedIsInt
<1> QED
  BY <1>3, <1>4, <1>6 DEF PotentialShaping

\* What is to be shown, and that a terminal step reaches potential 0.
ShapingInv ==
    /\ running # None =>
         /\ running.steps # <<>> =>
              /\ Earned(running.steps)
                   = Discounted(running.phi, Len(running.steps)) - running.steps[1].phi
              /\ running.steps[Len(running.steps)].done => running.phi = 0
    /\ \A i \in DOMAIN buffer :
         buffer[i].trajectory_id \in EpisodeIds =>
           Earned(buffer[i].steps) = -buffer[i].steps[1].phi

LEMMA ShapingInvSuffices == ShapingInv => ShapingTelescopes
BY DEF ShapingInv, ShapingTelescopes, Earned

\* Users' additions leave the collected episodes as they are.
LEMMA AddedByUsers ==
  ASSUME RolloutInv, Add \/ AddTrajectory
  PROVE  /\ running' = None
         /\ \A i \in DOMAIN buffer' :
              \/ buffer'[i].trajectory_id \notin EpisodeIds
              \/ \E j \in DOMAIN buffer : buffer'[i] = buffer[j]
<1>1. BufferInv(buffer) /\ buffer \in Buffers /\ Distinct(buffer) /\ AllWellFormed(buffer)
  BY DEF RolloutInv, BufferInv
<1>2. CASE Add
  <2>1. PICK r \in Records : buffer' = Added(buffer, r)
    BY <1>2 DEF Add
  <2> DEFINE u == Appended(Stored(buffer, r.trajectory_id), r)
  <2>2. r \in StepRecords /\ r.trajectory_id \in UserIds
    BY UserRecord
  <2>3. /\ Stored(buffer, r.trajectory_id) \in TrajectoryRecords
        /\ Stored(buffer, r.trajectory_id).trajectory_id = r.trajectory_id
        /\ WellFormed(Stored(buffer, r.trajectory_id))
    BY <1>1, <2>2, StoredIsWellFormed
  <2>4. u \in TrajectoryRecords /\ u.trajectory_id = r.trajectory_id /\ WellFormed(u)
    BY <2>2, <2>3, AppendedIsWellFormed
  <2>5. buffer' = Put(buffer, u)
    BY <2>1 DEF Added
  <2>6. u.trajectory_id \notin EpisodeIds
    BY <2>2, <2>4, IdAssumption
  <2> HIDE DEF u
  <2>7. \A i \in DOMAIN Put(buffer, u) :
          Put(buffer, u)[i] = u \/ \E j \in DOMAIN buffer : Put(buffer, u)[i] = buffer[j]
    BY <1>1, <2>4, PutKeeps
  <2>8. running' = None
    BY <1>2 DEF Add
  <2> QED
    BY <2>5, <2>6, <2>7, <2>8
<1>3. CASE AddTrajectory
  <2>1. PICK t \in Trajectories : buffer' = Append(buffer, t)
    BY <1>3 DEF AddTrajectory
  <2>2. t \in TrajectoryRecords /\ t.trajectory_id \notin EpisodeIds
    BY UserTrajectory, IdAssumption
  <2>3. \A i \in DOMAIN buffer' : buffer'[i] = t \/ \E j \in DOMAIN buffer : buffer'[i] = buffer[j]
    <3>1. buffer \in Seq(TrajectoryRecords)
      BY <1>1 DEF Buffers
    <3>2. /\ DOMAIN buffer = 1..Len(buffer) /\ DOMAIN buffer' = 1..(Len(buffer) + 1)
          /\ \A i \in 1..Len(buffer) : buffer'[i] = buffer[i]
          /\ buffer'[Len(buffer) + 1] = t /\ Len(buffer) \in Nat
      BY <2>1, <2>2, <3>1
    <3> QED
      BY <3>2
  <2>4. running' = None
    BY <1>3 DEF AddTrajectory
  <2> QED
    BY <2>2, <2>3, <2>4
<1> QED
  BY <1>2, <1>3

\* The collector adds the episode that it ran.
LEMMA AddedByCollector ==
  ASSUME RolloutInv, Collect
  PROVE  /\ running # None /\ running.steps # <<>> /\ running.steps[Len(running.steps)].done
         /\ running' = None
         /\ \A i \in DOMAIN buffer' :
              \/ buffer'[i].steps = running.steps
              \/ \E j \in DOMAIN buffer : buffer'[i] = buffer[j]
<1> DEFINE id == running.trajectory_id
           u == [trajectory_id |-> id, steps |-> running.steps]
<1>1. /\ id \in EpisodeIds /\ running.steps \in StepLists
      /\ WellFormed(running) /\ id \notin Registered
      /\ buffer \in Buffers /\ Distinct(buffer) /\ AllWellFormed(buffer)
  BY DEF RolloutInv, Collect, Runs, BufferInv
<1>2. /\ running # None /\ running.steps # <<>> /\ running.steps[Len(running.steps)].done
      /\ running' = None
  BY DEF Collect, Last
<1>3. Stored(buffer, id) = Empty(id)
  BY <1>1 DEF Stored, Under, Registered
<1>4. /\ Accepted(Empty(id), running.steps) = Len(running.steps)
      /\ Longer(Empty(id), running.steps, Len(running.steps)) = u
  BY <1>1, WellFormedIsAccepted, Zenon
<1>5. buffer' = Put(buffer, u)
  BY <1>3, <1>4 DEF Collect, Extended
<1>6. u \in TrajectoryRecords /\ WellFormed(u) /\ u.steps = running.steps
  BY <1>1 DEF TrajectoryRecords, WellFormed
<1> HIDE DEF u
<1>7. \A i \in DOMAIN Put(buffer, u) :
        Put(buffer, u)[i] = u \/ \E j \in DOMAIN buffer : Put(buffer, u)[i] = buffer[j]
  BY <1>1, <1>6, PutKeeps
<1> QED
  BY <1>2, <1>5, <1>6, <1>7

LEMMA ShapingKeeps == RolloutInv /\ ShapingInv /\ [Next]_vars => ShapingInv'
<1> SUFFICES ASSUME RolloutInv, ShapingInv, [Next]_vars PROVE ShapingInv'
  OBVIOUS
<1>1. CASE Add \/ AddTrajectory
  <2>1. /\ running' = None
        /\ \A i \in DOMAIN buffer' :
             \/ buffer'[i].trajectory_id \notin EpisodeIds
             \/ \E j \in DOMAIN buffer : buffer'[i] = buffer[j]
    BY <1>1, AddedByUsers
  <2>2. ASSUME NEW i \in DOMAIN buffer', buffer'[i].trajectory_id \in EpisodeIds
        PROVE  Earned(buffer'[i].steps) = -buffer'[i].steps[1].phi
    <3>1. PICK j \in DOMAIN buffer : buffer'[i] = buffer[j]
      BY <2>1, <2>2
    <3> QED
      BY <2>2, <3>1 DEF ShapingInv
  <2> QED
    BY <2>1, <2>2 DEF ShapingInv
<1>2. CASE Clear
  BY <1>2 DEF Clear, ShapingInv
<1>3. CASE StartEpisode
  <2>1. buffer' = buffer /\ running'.steps = <<>>
    BY <1>3 DEF StartEpisode
  <2> QED
    BY <2>1 DEF ShapingInv
<1>4. CASE EpisodeStep
  <2>1. PICK r \in StepRecords :
           /\ running' = [trajectory_id |-> running.trajectory_id,
                          steps |-> Append(running.steps, r), phi |-> running'.phi]
           /\ r.phi = running.phi /\ running'.phi \in Whole /\ (r.done => running'.phi = 0)
           /\ r.progress_reward = PotentialShaping(running.phi, running'.phi)
           /\ Len(running.steps) + 1 <= MaxLength
    BY <1>4, StepTaken
  <2>2. running # None /\ running.steps \in StepLists /\ running.phi \in Whole
    BY <1>4 DEF EpisodeStep, RolloutInv, Runs
  <2> DEFINE n == Len(running.steps)
  <2>3. n \in Nat /\ n < MaxLength
    BY <2>1, <2>2, UnitAssumption DEF StepLists
  <2>4. /\ running'.steps = Append(running.steps, r) /\ Len(running'.steps) = n + 1
        /\ running'.steps[n + 1] = r /\ running'.steps # <<>>
        /\ n >= 1 => running'.steps[1] = running.steps[1]
    BY <2>1, <2>2 DEF StepLists
  <2>5. /\ Earned(<<>>) = 0 /\ Earned(running.steps) \in Int
        /\ Earned(running'.steps) = Earned(running.steps) + Discounted(r.progress_reward, n)
    BY <2>2, <2>4, EarnedSoFar
  <2> HIDE DEF n
  <2>6. /\ Discounted(r.progress_reward, n)
             = Discounted(running'.phi, n + 1) - Discounted(running.phi, n)
        /\ Discounted(running'.phi, n + 1) \in Int /\ Discounted(running.phi, n) \in Int
    BY <2>1, <2>2, <2>3, ShapingIsExact
  <2>7. Earned(running'.steps) = Discounted(running'.phi, n + 1) - running'.steps[1].phi
    <3>1. CASE n = 0
      <4>1. running.steps = <<>> /\ running'.steps[1] = r
        BY <2>2, <2>4, <3>1 DEF n, StepLists
      <4>2. Discounted(running.phi, 0) = running.phi
        BY <2>2, NothingDivided, WholeAndHalves
      <4> QED
        BY <2>1, <2>5, <2>6, <3>1, <4>1, <4>2
    <3>2. CASE n >= 1
      <4>1. running.steps # <<>> /\ running.steps[1].phi \in Int
        <5>1. running.steps # <<>> /\ 1 \in DOMAIN running.steps
          BY <2>2, <3>2 DEF n, StepLists
        <5>2. running.steps[1] \in StepRecords
          BY <2>2, <5>1 DEF StepLists
        <5> QED
          BY <5>1, <5>2, WholeAndHalves DEF StepRecords
      <4>2. Earned(running.steps) = Discounted(running.phi, n) - running.steps[1].phi
        BY <2>2, <4>1 DEF ShapingInv, n
      <4> QED
        BY <2>4, <2>5, <2>6, <3>2, <4>1, <4>2
    <3> QED
      BY <2>3, <3>1, <3>2
  <2>8. buffer' = buffer
    BY <1>4 DEF EpisodeStep
  <2> QED
    BY <2>1, <2>4, <2>7, <2>8 DEF ShapingInv
<1>5. CASE Collect
  <2>1. /\ running # None /\ running.steps # <<>> /\ running.steps[Len(running.steps)].done
        /\ running' = None
        /\ \A i \in DOMAIN buffer' :
             \/ buffer'[i].steps = running.steps
             \/ \E j \in DOMAIN buffer : buffer'[i] = buffer[j]
    BY <1>5, AddedByCollector
  <2>2. Len(running.steps) \in Nat /\ running.steps[1].phi \in Int
    <3>1. running.steps \in Seq(StepRecords)
      BY <2>1 DEF RolloutInv, Runs, StepLists
    <3>2. 1 \in DOMAIN running.steps
      BY <2>1, <3>1
    <3>3. running.steps[1] \in StepRecords
      BY <3>1, <3>2
    <3>4. running.steps[1].phi \in Whole
      BY <3>3 DEF StepRecords
    <3>5. running.steps[1].phi \in Int
      BY <3>4, WholeAndHalves
    <3>6. Len(running.steps) \in Nat
      BY <3>1
    <3> QED
      BY <3>5, <3>6
  <2>3. Earned(running.steps) = -running.steps[1].phi
    <3>1. running.phi = 0
      BY <2>1 DEF ShapingInv
    <3>2. Discounted(0, Len(running.steps)) = 0
      BY <2>2, NothingDivided
    <3>3. Earned(running.steps) = Discounted(running.phi, Len(running.steps)) - running.steps[1].phi
      BY <2>1 DEF ShapingInv
    <3> QED
      BY <2>2, <3>1, <3>2, <3>3
  <2>4. ASSUME NEW i \in DOMAIN buffer', buffer'[i].trajectory_id \in EpisodeIds
        PROVE  Earned(buffer'[i].steps) = -buffer'[i].steps[1].phi
    <3>1. CASE buffer'[i].steps = running.steps
      BY <2>3, <3>1
    <3>2. CASE \E j \in DOMAIN buffer : buffer'[i] = buffer[j]
      BY <2>4, <3>2 DEF ShapingInv
    <3> QED
      BY <2>1, <2>4, <3>1, <3>2
  <2> QED
    BY <2>1, <2>4 DEF ShapingInv
<1>6. CASE UNCHANGED vars
  BY <1>6 DEF vars, ShapingInv
<1> QED
  BY <1>1, <1>2, <1>3, <1>4, <1>5, <1>6 DEF Next

LEMMA ShapingInvariant == LearningSpec => []ShapingInv
<1>1. LearningInit => ShapingInv
  BY DEF LearningInit, Init, ShapingInv
<1>2. RolloutInv /\ ShapingInv /\ [LearningNext]_<<part, seedVars, vars>> => ShapingInv'
  <2>1. [LearningNext]_<<part, seedVars, vars>> => [Next]_vars
    BY DEF LearningNext, vars
  <2> QED
    BY <2>1, ShapingKeeps
<1> QED
  BY <1>1, <1>2, RolloutInvariant, PTL DEF LearningSpec

\* However long an episode is and whatever potentials the estimator answers,
\* shaping pays no more than the discounted difference between where the episode
\* stands and where it started, and a complete one minus the latter.
THEOREM NothingEarnedByShaping == LearningSpec => []ShapingTelescopes
<1> QED
  BY ShapingInvariant, ShapingInvSuffices, PTL

-----------------------------------------------------------------------------
(* The rows of the buffer *)

\* The trajectories' places in the flattened buffer.
Begins == [i \in 1..(Len(buffer) + 1) |-> Offset(i)]

Lengths == [i \in 1..Len(buffer) |-> Len(buffer[i].steps)]

\* A row for each step of each trajectory, one trajectory after the other.
LEMMA RowsLaid ==
  ASSUME buffer \in Buffers
  PROVE  /\ Laid(Begins, Lengths, Len(buffer))
         /\ Rows \in Seq(StepRecords) /\ Len(Rows) = Begins[Len(buffer) + 1]
         /\ \A i \in 1..Len(buffer) : \A j \in 1..Lengths[i] :
              Rows[Begins[i] + j] = buffer[i].steps[j]
<1> DEFINE n == Len(buffer)
           parts == [i \in DOMAIN buffer |-> buffer[i].steps]
<1>1. n \in Nat /\ DOMAIN buffer = 1..n /\ \A i \in 1..n : buffer[i].steps \in Seq(StepRecords)
  <2>1. n \in Nat /\ DOMAIN buffer = 1..n /\ \A i \in 1..n : buffer[i] \in TrajectoryRecords
    BY DEF Buffers
  <2> QED
    BY <2>1 DEF TrajectoryRecords, StepLists
<1> HIDE DEF n
<1>2. parts \in Seq(Seq(StepRecords)) /\ Len(parts) = n /\ \A i \in 1..n : parts[i] = buffer[i].steps
  <2>1. parts \in [1..n -> Seq(StepRecords)]
    BY <1>1
  <2> HIDE DEF parts
  <2>2. parts \in Seq(Seq(StepRecords)) /\ Len(parts) = n
    BY <1>1, <2>1
  <2> QED
    BY <1>1, <2>2 DEF parts
<1>3. Rows = FlattenSeq(parts)
  BY DEF Rows
<1> HIDE DEF parts
<1>4. ASSUME NEW i \in 1..(n + 1)
      PROVE  [j \in 1..(i - 1) |-> Len(parts[j])] = [j \in 1..(i - 1) |-> Len(buffer[j].steps)]
  BY <1>1, <1>2
<1>5. Begins = Starts(parts)
  BY <1>2, <1>4 DEF Begins, Starts, Offset, n
<1>6. Lengths = [i \in 1..n |-> Len(parts[i])]
  BY <1>2 DEF Lengths, n
<1>7. /\ Starts(parts) \in [1..(n + 1) -> Nat] /\ Starts(parts)[1] = 0
      /\ \A i \in 1..n : Starts(parts)[i + 1] = Starts(parts)[i] + Len(parts[i])
  BY <1>2, StartsAddUp
<1>8. \A i \in 1..n : Len(parts[i]) \in Nat
  BY <1>1, <1>2
<1>9. Laid(Begins, Lengths, n)
  BY <1>1, <1>5, <1>6, <1>7, <1>8 DEF Laid
<1>10. /\ FlattenSeq(parts) \in Seq(StepRecords)
       /\ Len(FlattenSeq(parts)) = Starts(parts)[n + 1]
       /\ \A i \in 1..n : \A j \in 1..Len(parts[i]) :
            FlattenSeq(parts)[Starts(parts)[i] + j] = parts[i][j]
  <2>1. parts \in Seq(Seq(StepRecords)) /\ Len(parts) = n
    BY <1>2
  <2>2. /\ FlattenSeq(parts) \in Seq(StepRecords)
        /\ Len(FlattenSeq(parts)) = Starts(parts)[Len(parts) + 1]
        /\ \A i \in 1..Len(parts) : \A j \in 1..Len(parts[i]) :
             FlattenSeq(parts)[Starts(parts)[i] + j] = parts[i][j]
    BY <2>1, Flattened, Zenon
  <2> QED
    BY <2>1, <2>2, Zenon
<1> QED
  BY <1>2, <1>3, <1>5, <1>6, <1>9, <1>10 DEF n

\* The episode of each row.
LEMMA GroupsLaid ==
  ASSUME buffer \in Buffers
  PROVE  /\ SequenceBatch.episode_indices \in Seq(Nat)
         /\ Len(SequenceBatch.episode_indices) = Len(Rows)
         /\ \A i \in 1..Len(buffer) : \A j \in 1..Lengths[i] :
              SequenceBatch.episode_indices[Begins[i] + j] = i
<1> DEFINE n == Len(buffer)
           parts == [i \in DOMAIN buffer |-> [j \in DOMAIN buffer[i].steps |-> i]]
<1>1. n \in Nat /\ DOMAIN buffer = 1..n /\ \A i \in 1..n : buffer[i].steps \in Seq(StepRecords)
  <2>1. n \in Nat /\ DOMAIN buffer = 1..n /\ \A i \in 1..n : buffer[i] \in TrajectoryRecords
    BY DEF Buffers
  <2> QED
    BY <2>1 DEF TrajectoryRecords, StepLists
<1> HIDE DEF n
<1>2. ASSUME NEW i \in 1..n
      PROVE  /\ parts[i] \in Seq(Nat) /\ Len(parts[i]) = Len(buffer[i].steps)
             /\ \A j \in 1..Len(parts[i]) : parts[i][j] = i
  <2> DEFINE numbers == [j \in DOMAIN buffer[i].steps |-> i]
  <2>1. parts[i] = numbers
    BY <1>1
  <2>2. /\ DOMAIN buffer[i].steps = 1..Len(buffer[i].steps) /\ Len(buffer[i].steps) \in Nat /\ i \in Nat
    BY <1>1
  <2>3. numbers \in [1..Len(buffer[i].steps) -> Nat] /\ \A j \in 1..Len(buffer[i].steps) : numbers[j] = i
    BY <2>2
  <2> HIDE DEF numbers, parts
  <2>4. numbers \in Seq(Nat) /\ Len(numbers) = Len(buffer[i].steps)
    BY <2>2, <2>3
  <2> QED
    BY <2>1, <2>3, <2>4
<1>3. parts \in Seq(Seq(Nat)) /\ Len(parts) = n
  <2>1. DOMAIN parts = 1..n
    BY <1>1
  <2>2. parts = [i \in 1..n |-> parts[i]]
    BY <1>1
  <2> HIDE DEF parts
  <2>3. parts \in [1..n -> Seq(Nat)]
    BY <1>2, <2>2
  <2> QED
    BY <1>1, <2>3
<1>4. SequenceBatch.episode_indices = FlattenSeq(parts)
  BY DEF SequenceBatch
<1> HIDE DEF parts
<1>5. ASSUME NEW i \in 1..(n + 1)
      PROVE  [j \in 1..(i - 1) |-> Len(parts[j])] = [j \in 1..(i - 1) |-> Len(buffer[j].steps)]
  BY <1>1, <1>2
<1>6. Begins = Starts(parts)
  BY <1>3, <1>5 DEF Begins, Starts, Offset, n
<1>7. \A i \in 1..n : Lengths[i] = Len(parts[i])
  BY <1>2 DEF Lengths, n
<1>8. /\ FlattenSeq(parts) \in Seq(Nat)
      /\ Len(FlattenSeq(parts)) = Starts(parts)[n + 1]
      /\ \A i \in 1..n : \A j \in 1..Len(parts[i]) :
           FlattenSeq(parts)[Starts(parts)[i] + j] = parts[i][j]
  <2>1. parts \in Seq(Seq(Nat)) /\ Len(parts) = n
    BY <1>3
  <2>2. /\ FlattenSeq(parts) \in Seq(Nat)
        /\ Len(FlattenSeq(parts)) = Starts(parts)[Len(parts) + 1]
        /\ \A i \in 1..Len(parts) : \A j \in 1..Len(parts[i]) :
             FlattenSeq(parts)[Starts(parts)[i] + j] = parts[i][j]
    BY <2>1, Flattened, Zenon
  <2> QED
    BY <2>1, <2>2, Zenon
<1>9. Len(Rows) = Begins[n + 1]
  BY RowsLaid DEF n
<1>10. ASSUME NEW i \in 1..n, NEW j \in 1..Lengths[i]
       PROVE  FlattenSeq(parts)[Begins[i] + j] = i
  <2>1. j \in 1..Len(parts[i])
    BY <1>7
  <2> QED
    BY <1>2, <1>6, <1>8, <2>1
<1> QED
  BY <1>4, <1>6, <1>8, <1>9, <1>10 DEF n

\* What every row has: a trajectory, and a step of it.
LEMMA RowOf ==
  ASSUME buffer \in Buffers, NEW r \in 1..Len(Rows)
  PROVE  \E i \in 1..Len(buffer) : \E j \in 1..Lengths[i] :
           /\ r = Begins[i] + j
           /\ Rows[r] = buffer[i].steps[j]
           /\ SequenceBatch.episode_indices[r] = i
<1>1. PICK i \in 1..Len(buffer) : \E j \in 1..Lengths[i] : r = Begins[i] + j
  BY RowsLaid, EveryPlace
<1>2. PICK j \in 1..Lengths[i] : r = Begins[i] + j
  BY <1>1
<1> QED
  BY <1>1, <1>2, RowsLaid, GroupsLaid

\* A row of a trajectory is a row of the buffer.
LEMMA RowIn ==
  ASSUME buffer \in Buffers, NEW i \in 1..Len(buffer), NEW j \in 1..Lengths[i]
  PROVE  /\ Begins[i] + j \in 1..Len(Rows) /\ Begins[i] \in Nat /\ Lengths[i] \in Nat
         /\ Rows[Begins[i] + j] = buffer[i].steps[j]
         /\ SequenceBatch.episode_indices[Begins[i] + j] = i
<1>1. Laid(Begins, Lengths, Len(buffer)) /\ Len(Rows) = Begins[Len(buffer) + 1] /\ Len(buffer) \in Nat
  BY RowsLaid DEF Laid
<1>2. Len(buffer) + 1 \in (i + 1)..(Len(buffer) + 1)
  BY <1>1
<1>3. Begins[i] + Lengths[i] <= Len(Rows)
  BY <1>1, <1>2, LaterStarts
<1>4. Begins[i] \in Nat /\ Lengths[i] \in Nat /\ Len(Rows) \in Nat
  BY <1>1 DEF Laid
<1>5. Begins[i] + j \in 1..Len(Rows)
  BY <1>3, <1>4
<1>6. Rows[Begins[i] + j] = buffer[i].steps[j]
  BY RowsLaid
<1>7. SequenceBatch.episode_indices[Begins[i] + j] = i
  BY GroupsLaid
<1> QED
  BY <1>4, <1>5, <1>6, <1>7

-----------------------------------------------------------------------------
(* What sequence PPO makes of them *)

\* What sequence PPO may be fed: complete trajectories, and at least one.
LEMMA Feedable ==
  ASSUME RolloutInv, ~SequenceRefused
  PROVE  /\ buffer \in Buffers /\ Distinct(buffer)
         /\ Len(buffer) \in Nat /\ Len(buffer) >= 1 /\ DOMAIN buffer = 1..Len(buffer)
         /\ \A i \in 1..Len(buffer) :
              /\ Lengths[i] \in Nat /\ Lengths[i] >= 1
              /\ DOMAIN buffer[i].steps = 1..Lengths[i] /\ Len(buffer[i].steps) = Lengths[i]
              /\ buffer[i].steps \in Seq(StepRecords)
              /\ \A j \in 1..Lengths[i] :
                   /\ buffer[i].steps[j].trajectory_id = buffer[i].trajectory_id
                   /\ buffer[i].steps[j].step_index = j - 1
                   /\ buffer[i].steps[j].done <=> j = Lengths[i]
<1>1. buffer \in Buffers /\ Distinct(buffer) /\ AllWellFormed(buffer)
  BY DEF RolloutInv, BufferInv
<1>2. /\ Len(buffer) \in Nat /\ DOMAIN buffer = 1..Len(buffer)
      /\ \A i \in 1..Len(buffer) : buffer[i] \in TrajectoryRecords
  BY <1>1 DEF Buffers
<1>3. Len(buffer) >= 1
  <2>1. buffer # <<>>
    BY DEF SequenceRefused
  <2> QED
    BY <1>2, <2>1
<1>4. ASSUME NEW i \in 1..Len(buffer)
      PROVE  /\ Lengths[i] \in Nat /\ Lengths[i] >= 1
             /\ DOMAIN buffer[i].steps = 1..Lengths[i] /\ Len(buffer[i].steps) = Lengths[i]
             /\ buffer[i].steps \in Seq(StepRecords)
             /\ \A j \in 1..Lengths[i] :
                  /\ buffer[i].steps[j].trajectory_id = buffer[i].trajectory_id
                  /\ buffer[i].steps[j].step_index = j - 1
                  /\ buffer[i].steps[j].done <=> j = Lengths[i]
  <2>1. buffer[i].steps \in Seq(StepRecords) /\ Lengths[i] = Len(buffer[i].steps)
    BY <1>2 DEF TrajectoryRecords, StepLists, Lengths
  <2>2. Done(buffer[i]) /\ WellFormed(buffer[i])
    BY <1>1, <1>2 DEF SequenceRefused, AllWellFormed
  <2> DEFINE steps == buffer[i].steps
  <2>3. steps # <<>> /\ steps[Len(steps)].done
    BY <2>2 DEF Done, Last
  <2>4. /\ Lengths[i] \in Nat /\ Lengths[i] >= 1
        /\ DOMAIN steps = 1..Lengths[i] /\ Len(steps) = Lengths[i]
    BY <2>1, <2>3
  <2> QED
    BY <2>1, <2>2, <2>3, <2>4 DEF WellFormed
<1> QED
  BY <1>1, <1>2, <1>3, <1>4

\* The last row of a trajectory, and where the next begins.
LEMMA Neighbours ==
  ASSUME RolloutInv, ~SequenceRefused, NEW i \in 1..Len(buffer)
  PROVE  /\ i < Len(buffer) => Begins[i + 1] = Begins[i] + Lengths[i]
         /\ i = Len(buffer) => Len(Rows) = Begins[i] + Lengths[i]
         /\ Begins[1] = 0 /\ Len(Rows) \in Nat
<1>1. buffer \in Buffers /\ Len(buffer) \in Nat
  BY Feedable
<1>2. /\ Laid(Begins, Lengths, Len(buffer)) /\ Len(Rows) = Begins[Len(buffer) + 1]
      /\ Rows \in Seq(StepRecords)
  BY <1>1, RowsLaid
<1>3. Begins[i + 1] = Begins[i] + Lengths[i] /\ Begins[1] = 0
  BY <1>2 DEF Laid
<1>4. Len(Rows) \in Nat
  BY <1>2
<1> QED
  BY <1>1, <1>2, <1>3, <1>4

\* SequencePPOBatch.validate() accepts what as_sequence_ppo_batch() makes.
LEMMA BatchValidates ==
  ASSUME RolloutInv, ~SequenceRefused
  PROVE  Validates(SequenceBatch)
<1> DEFINE m == Len(buffer)
           group == SequenceBatch.episode_indices
           start == SequenceBatch.initial_state_indices
           n == Len(group)
           starts == {j \in 1..n : j = 1 \/ group[j - 1] # group[j]}
           end(i) == IF i = Len(start) THEN n ELSE start[i + 1] - 1
<1>1. /\ buffer \in Buffers /\ m \in Nat /\ m >= 1 /\ DOMAIN buffer = 1..m
      /\ \A i \in 1..m : Lengths[i] \in Nat /\ Lengths[i] >= 1
  BY Feedable
<1>2. n = Len(Rows) /\ n \in Nat /\ DOMAIN Rows = 1..n /\ Begins[1] = 0
  <2>1. Rows \in Seq(StepRecords) /\ Begins[1] = 0
    BY <1>1, RowsLaid DEF Laid
  <2> QED
    BY <1>1, <2>1, GroupsLaid
<1>3. /\ start = [i \in 1..m |-> Begins[i] + 1] /\ Len(start) = m /\ DOMAIN start = 1..m
  <2>1. start = [i \in 1..m |-> Offset(i) + 1]
    BY <1>1 DEF SequenceBatch
  <2>2. \A i \in 1..m : Begins[i] = Offset(i)
    BY <1>1 DEF Begins
  <2>3. start = [i \in 1..m |-> Begins[i] + 1]
    BY <2>1, <2>2
  <2> HIDE DEF start, m
  <2> QED
    BY <1>1, <2>3
<1>4. /\ SequenceBatch.dones = [r \in 1..n |-> Rows[r].done]
      /\ SequenceBatch.step_rewards = [r \in 1..n |-> Rows[r].reward]
      /\ SequenceBatch.discounted_returns = [i \in 1..m |-> DiscountedReturn(buffer[i].steps)]
  BY <1>1, <1>2 DEF SequenceBatch
<1>5. \A i \in 1..m : \A j \in 1..Lengths[i] :
        /\ Begins[i] + j \in 1..n /\ Begins[i] \in Nat
        /\ Rows[Begins[i] + j] = buffer[i].steps[j] /\ group[Begins[i] + j] = i
  BY <1>1, <1>2, RowIn
<1>6. \A r \in 1..n : \E i \in 1..m : \E j \in 1..Lengths[i] :
        r = Begins[i] + j /\ Rows[r] = buffer[i].steps[j] /\ group[r] = i
  BY <1>1, <1>2, RowOf
<1>7. ASSUME NEW i \in 1..m
      PROVE  /\ i < m => Begins[i + 1] = Begins[i] + Lengths[i]
             /\ i = m => n = Begins[i] + Lengths[i]
             /\ end(i) = Begins[i] + Lengths[i] /\ Begins[i] \in Nat
  <2>1. /\ i < m => Begins[i + 1] = Begins[i] + Lengths[i]
        /\ i = m => n = Begins[i] + Lengths[i]
    BY <1>2, Neighbours
  <2>2. Begins[i] \in Nat
    BY <1>1, <1>5
  <2>3. i # m => i + 1 \in 1..m /\ i < m
    <3> HIDE DEF m
    <3> QED
      BY <1>1
  <2>4. i # m => start[i + 1] - 1 = Begins[i + 1] /\ Begins[i + 1] = Begins[i] + Lengths[i]
    <3> HIDE DEF start, m
    <3> SUFFICES ASSUME i # m PROVE start[i + 1] - 1 = Begins[i + 1] /\ Begins[i + 1] = Begins[i] + Lengths[i]
      OBVIOUS
    <3>1. start[i + 1] = Begins[i + 1] + 1 /\ Begins[i + 1] \in Nat
      BY <1>1, <1>3, <1>5, <2>3
    <3> QED
      BY <2>1, <2>3, <3>1
  <2> HIDE DEF start, m, n
  <2> QED
    BY <1>3, <2>1, <2>2, <2>4
<1> HIDE DEF group, start, n, m
<1>8. n > 0 /\ group[1] = 1 /\ group[n] = m
  <2>1. group[1] = 1 /\ 1 \in 1..n
    BY <1>1, <1>2, <1>5
  <2>2. n = Begins[m] + Lengths[m] /\ Lengths[m] \in 1..Lengths[m] /\ m \in 1..m
    BY <1>1, <1>7
  <2>3. group[n] = m
    BY <1>5, <2>2
  <2> QED
    BY <1>2, <2>1, <2>3
<1>9. ASSUME NEW r \in 1..(n - 1)
      PROVE  /\ group[r + 1] - group[r] \in {0, 1}
             /\ r + 1 \in starts <=> \E i \in 1..m : r = end(i) /\ i < m
  <2>1. PICK i \in 1..m : \E j \in 1..Lengths[i] : r = Begins[i] + j /\ group[r] = i
    BY <1>2, <1>6
  <2>2. PICK j \in 1..Lengths[i] : r = Begins[i] + j /\ group[r] = i
    BY <2>1
  <2>3. end(i) = Begins[i] + Lengths[i] /\ Begins[i] \in Nat /\ Lengths[i] \in Nat
    BY <1>1, <1>7
  <2>4. r + 1 \in 1..n /\ r + 1 # 1 /\ (r + 1) - 1 = r
    BY <1>2
  <2>5. r + 1 \in starts <=> group[r] # group[r + 1]
    BY <2>4
  <2>6. CASE j < Lengths[i]
    <3>1. j + 1 \in 1..Lengths[i] /\ r + 1 = Begins[i] + (j + 1)
      BY <2>2, <2>3, <2>6
    <3>2. group[r + 1] = i
      BY <1>5, <3>1
    <3>3. ASSUME NEW k \in 1..m, r = end(k) PROVE FALSE
      <4>1. r = Begins[k] + Lengths[k] /\ Lengths[k] \in 1..Lengths[k]
        BY <1>1, <1>7, <3>3
      <4>2. group[r] = k
        BY <1>5, <4>1
      <4> QED
        BY <2>2, <2>3, <2>6, <4>1, <4>2
    <3>4. i \in Nat
      OBVIOUS
    <3> QED
      BY <2>2, <2>5, <3>2, <3>3, <3>4
  <2>7. CASE j = Lengths[i]
    <3>1. r = end(i)
      BY <2>2, <2>3, <2>7
    <3>2. i < m
      <4>1. i = m => r = n
        BY <1>7, <2>2, <2>7
      <4> QED
        BY <1>1, <1>2, <4>1
    <3>3. r + 1 = Begins[i + 1] + 1 /\ i + 1 \in 1..m /\ 1 \in 1..Lengths[i + 1]
      BY <1>1, <1>7, <2>2, <2>7, <3>2
    <3>4. group[r + 1] = i + 1
      BY <1>5, <3>3
    <3>5. group[r] = i /\ i \in Nat
      BY <2>2
    <3>6. group[r + 1] - group[r] \in {0, 1} /\ group[r] # group[r + 1]
      BY <3>4, <3>5
    <3> HIDE DEF starts, end
    <3> QED
      BY <2>5, <3>1, <3>2, <3>6
  <2> QED
    BY <2>2, <2>3, <2>6, <2>7
<1>10. IsInjective(start)
  <2>1. ASSUME NEW i \in 1..m, NEW k \in 1..m, start[i] = start[k] PROVE i = k
    <3>1. start[i] = Begins[i] + 1 /\ start[k] = Begins[k] + 1
      BY <1>3
    <3>2. 1 \in 1..Lengths[i] /\ 1 \in 1..Lengths[k]
      BY <1>1
    <3>3. group[start[i]] = i /\ group[start[k]] = k
      BY <1>5, <3>1, <3>2
    <3> QED
      BY <2>1, <3>3
  <2> QED
    BY <1>3, <2>1 DEF IsInjective
<1>11. ToSet(start) = starts
  <2>1. ASSUME NEW i \in 1..m PROVE start[i] \in starts
    <3>1. start[i] = Begins[i] + 1 /\ 1 \in 1..Lengths[i] /\ start[i] \in 1..n
      BY <1>1, <1>3, <1>5
    <3>2. CASE i = 1
      <4>1. start[i] = 1
        BY <1>2, <3>1, <3>2
      <4> QED
        BY <3>1, <4>1
    <3>3. CASE i # 1
      <4>1. i - 1 \in 1..m /\ i - 1 < m /\ (i - 1) + 1 = i
        BY <1>1, <3>3
      <4>2. Begins[i] = Begins[i - 1] + Lengths[i - 1] /\ end(i - 1) = Begins[i]
            /\ Begins[i] \in Nat /\ Begins[i - 1] \in Nat /\ Lengths[i - 1] \in Nat /\ Lengths[i - 1] >= 1
        BY <1>1, <1>7, <4>1
      <4>3. Begins[i] \in 1..(n - 1) /\ start[i] = Begins[i] + 1
        BY <1>2, <3>1, <4>2
      <4> HIDE DEF starts, end
      <4> QED
        BY <1>9, <4>1, <4>2, <4>3
    <3> QED
      BY <3>2, <3>3
  <2>2. ASSUME NEW r \in starts PROVE \E i \in 1..m : r = start[i]
    <3>1. CASE r = 1
      <4>1. 1 \in 1..m /\ start[1] = 1
        BY <1>1, <1>2, <1>3
      <4> QED
        BY <3>1, <4>1
    <3>2. CASE r # 1
      <4>1. r - 1 \in 1..(n - 1) /\ (r - 1) + 1 = r
        BY <1>2, <2>2, <3>2
      <4>2. PICK i \in 1..m : r - 1 = end(i) /\ i < m
        <5> HIDE DEF starts, end
        <5> QED
          BY <1>9, <2>2, <4>1
      <4>3. i + 1 \in 1..m /\ start[i + 1] = Begins[i + 1] + 1 /\ Begins[i + 1] = end(i)
        BY <1>1, <1>3, <1>7, <4>2
      <4> QED
        BY <4>1, <4>2, <4>3
    <3> QED
      BY <3>1, <3>2
  <2>3. ToSet(start) = {start[i] : i \in 1..m}
    BY <1>3 DEF ToSet
  <2> HIDE DEF starts
  <2> QED
    BY <2>1, <2>2, <2>3
<1>12. ASSUME NEW i \in 1..m PROVE start[i] <= end(i)
  <2>1. end(i) = Begins[i] + Lengths[i] /\ Begins[i] \in Nat
    BY <1>7
  <2> HIDE DEF end
  <2> QED
    BY <1>1, <1>3, <2>1
<1>13. ASSUME NEW r \in 1..n PROVE SequenceBatch.dones[r] <=> \E i \in 1..m : r = end(i)
  <2>1. PICK i \in 1..m : \E j \in 1..Lengths[i] :
          r = Begins[i] + j /\ Rows[r] = buffer[i].steps[j] /\ group[r] = i
    BY <1>6
  <2>2. PICK j \in 1..Lengths[i] : r = Begins[i] + j /\ Rows[r] = buffer[i].steps[j] /\ group[r] = i
    BY <2>1
  <2>3. SequenceBatch.dones[r] <=> j = Lengths[i]
    BY <1>4, <2>2, Feedable DEF m
  <2>4. end(i) = Begins[i] + Lengths[i] /\ Begins[i] \in Nat
    BY <1>7
  <2>5. ASSUME NEW k \in 1..m, r = end(k) PROVE k = i
    <3>1. r = Begins[k] + Lengths[k] /\ Lengths[k] \in 1..Lengths[k]
      BY <1>1, <1>7, <2>5
    <3> QED
      BY <1>5, <2>2, <3>1
  <2> HIDE DEF end
  <2>6. j = Lengths[i] <=> r = end(i)
    BY <1>1, <2>2, <2>4
  <2> QED
    BY <2>3, <2>5, <2>6
<1>14. ASSUME NEW i \in 1..m
       PROVE  SequenceBatch.discounted_returns[i]
                = DiscountedSum(SubSeq(SequenceBatch.step_rewards, start[i], end(i)))
  <2> DEFINE steps == buffer[i].steps
             rewards == SubSeq(SequenceBatch.step_rewards, start[i], end(i))
  <2>1. /\ steps \in Seq(StepRecords) /\ DOMAIN steps = 1..Lengths[i] /\ Lengths[i] \in Nat
        /\ Lengths[i] >= 1
    BY Feedable DEF m
  <2>2. start[i] = Begins[i] + 1 /\ end(i) = Begins[i] + Lengths[i] /\ Begins[i] \in Nat
    BY <1>3, <1>7
  <2>3. Lengths[i] \in 1..Lengths[i] /\ Begins[i] + Lengths[i] \in 1..n
    BY <1>5, <2>1
  <2> DEFINE all == SequenceBatch.step_rewards
  <2>4. all = [r \in 1..n |-> Rows[r].reward] /\ all \in Seq(Int)
    <3>1. \A r \in 1..n : Rows[r] \in StepRecords
      BY <1>1, <1>2, RowsLaid
    <3>2. \A r \in 1..n : Rows[r].reward \in Int
      BY <3>1, WholeAndHalves DEF StepRecords
    <3>3. all \in [1..n -> Int]
      BY <1>4, <3>2
    <3> QED
      BY <1>2, <1>4, <3>3
  <2> HIDE DEF all, end
  <2>5. /\ DOMAIN SubSeq(all, Begins[i] + 1, Begins[i] + Lengths[i]) = 1..Lengths[i]
        /\ \A j \in 1..Lengths[i] :
             SubSeq(all, Begins[i] + 1, Begins[i] + Lengths[i])[j] = all[Begins[i] + j]
    <3>1. /\ DOMAIN SubSeq(all, Begins[i] + 1, Begins[i] + Lengths[i])
               = 1..((Begins[i] + Lengths[i]) - (Begins[i] + 1) + 1)
          /\ \A j \in 1..((Begins[i] + Lengths[i]) - (Begins[i] + 1) + 1) :
               SubSeq(all, Begins[i] + 1, Begins[i] + Lengths[i])[j] = all[(Begins[i] + 1) + j - 1]
      <4>1. PICK a \in Int : a = Begins[i] + 1
        BY <2>2
      <4>2. PICK b \in Int : b = Begins[i] + Lengths[i]
        BY <2>1, <2>2
      <4>3. a <= b /\ \A j \in a..b : all[j] \in Int
        BY <1>2, <2>1, <2>2, <2>3, <2>4, <4>1, <4>2
      <4>4. /\ SubSeq(all, a, b) \in Seq(Int) /\ Len(SubSeq(all, a, b)) = b - a + 1
            /\ \A j \in 1..(b - a + 1) : SubSeq(all, a, b)[j] = all[a + j - 1]
        BY <4>3, SubSeqProperties
      <4>5. DOMAIN SubSeq(all, a, b) = 1..(b - a + 1)
        BY <4>4
      <4> QED
        BY <4>1, <4>2, <4>4, <4>5
    <3>2. (Begins[i] + Lengths[i]) - (Begins[i] + 1) + 1 = Lengths[i]
      BY <2>1, <2>2
    <3>3. \A j \in 1..Lengths[i] : (Begins[i] + 1) + j - 1 = Begins[i] + j
      BY <2>1, <2>2
    <3> QED
      BY <3>1, <3>2, <3>3
  <2>6. rewards = SubSeq(all, Begins[i] + 1, Begins[i] + Lengths[i])
    BY <2>2 DEF all
  <2> HIDE DEF rewards, steps
  <2>7. DOMAIN rewards = DOMAIN steps
    BY <2>1, <2>5, <2>6
  <2>8. ASSUME NEW j \in 1..Lengths[i] PROVE rewards[j] = steps[j].reward
    <3>1. rewards[j] = all[Begins[i] + j] /\ Begins[i] + j \in 1..n
      BY <1>5, <2>5, <2>6
    <3>2. Rows[Begins[i] + j] = steps[j]
      BY <1>5 DEF steps
    <3> QED
      BY <2>4, <3>1, <3>2
  <2>9. [j \in DOMAIN steps |-> Discounted(steps[j].reward, j - 1)]
          = [j \in DOMAIN rewards |-> Discounted(rewards[j], j - 1)]
    BY <2>1, <2>7, <2>8
  <2>10. DiscountedReturn(steps) = DiscountedSum(rewards)
    BY <2>9 DEF DiscountedReturn, DiscountedSum
  <2> QED
    BY <1>4, <2>10 DEF steps, rewards
<1>15. \A r \in 1..(n - 1) : group[r + 1] - group[r] \in {0, 1}
  BY <1>9
<1>16. \A r \in 1..n : SequenceBatch.dones[r] = (\E i \in 1..m : r = end(i))
  <2>1. \A r \in 1..n : SequenceBatch.dones[r] \in BOOLEAN
    <3>1. \A r \in 1..n : Rows[r] \in StepRecords
      BY <1>1, <1>2, RowsLaid
    <3> QED
      BY <1>4, <3>1 DEF StepRecords
  <2> HIDE DEF end
  <2> QED
    BY <1>13, <2>1
<1> HIDE DEF starts, end
<1>17. DOMAIN start = 1..m
  BY <1>3
<1>18. /\ n > 0
       /\ group[1] = 1 /\ group[n] = m
       /\ \A r \in 1..(n - 1) : group[r + 1] - group[r] \in {0, 1}
       /\ IsInjective(start) /\ ToSet(start) = starts
  BY <1>8, <1>10, <1>11, <1>15
<1>19. /\ \A i \in DOMAIN start : start[i] <= end(i)
       /\ \A r \in 1..n : SequenceBatch.dones[r] = (\E i \in DOMAIN start : r = end(i))
  BY <1>12, <1>16, <1>17
<1>20. \A i \in DOMAIN start :
         SequenceBatch.discounted_returns[i]
           = DiscountedSum(SubSeq(SequenceBatch.step_rewards, start[i], end(i)))
  BY <1>14, <1>17
<1> QED
  BY <1>18, <1>19, <1>20 DEF Validates, group, start, n, m, starts, end

\* The episode of a row is the trajectory that its record names.
LEMMA GroupIsTrajectory ==
  ASSUME RolloutInv, ~SequenceRefused, NEW i \in 1..Len(buffer), NEW r \in 1..Len(Rows)
  PROVE  SequenceBatch.episode_indices[r] = i <=> Rows[r].trajectory_id = buffer[i].trajectory_id
<1>1. buffer \in Buffers /\ Distinct(buffer) /\ DOMAIN buffer = 1..Len(buffer)
  BY Feedable
<1>2. PICK k \in 1..Len(buffer) : \E j \in 1..Lengths[k] :
        Rows[r] = buffer[k].steps[j] /\ SequenceBatch.episode_indices[r] = k
  BY <1>1, RowOf
<1>3. Rows[r].trajectory_id = buffer[k].trajectory_id
  BY <1>2, Feedable
<1> QED
  BY <1>1, <1>2, <1>3 DEF Distinct

\* The k-th of some selected episodes is evaluated on its own rows.
KeepsSteps(selected, k) ==
    LET evaluated == EvaluateEpisodes(SequenceBatch, selected)
        id == buffer[selected[k]].trajectory_id
        first == Rows[evaluated.initial_values[k]]
    IN  /\ evaluated.log_probs[k] = {j \in DOMAIN Rows : Rows[j].trajectory_id = id}
        /\ first.trajectory_id = id /\ first.step_index = 0

\* A minibatch of whole episodes, in any order: what is added up for each is its
\* own rows, and its value is that of its own first row.
LEMMA MinibatchKeepsEpisodes ==
  ASSUME RolloutInv, ~SequenceRefused, NEW s \in SUBSET (1..Len(buffer)),
         NEW m \in Nat, NEW selected \in [1..m -> s], NEW k \in 1..m
  PROVE  KeepsSteps(selected, k)
<1> DEFINE group == SequenceBatch.episode_indices
           start == SequenceBatch.initial_state_indices
           chosen == {j \in DOMAIN group : group[j] \in ToSet(selected)}
           steps == InOrder(chosen)
           i == selected[k]
           x == start[i]
           local == 1 + Cardinality({j \in DOMAIN steps : steps[j] < x})
           id == buffer[i].trajectory_id
           evaluated == EvaluateEpisodes(SequenceBatch, selected)
<1>1. /\ buffer \in Buffers /\ Distinct(buffer) /\ DOMAIN buffer = 1..Len(buffer)
      /\ Len(buffer) \in Nat /\ i \in 1..Len(buffer) /\ Lengths[i] \in Nat /\ Lengths[i] >= 1
  BY Feedable
<1>2. /\ DOMAIN group = 1..Len(Rows) /\ DOMAIN Rows = 1..Len(Rows) /\ Len(Rows) \in Nat
  <2>1. Rows \in Seq(StepRecords) /\ group \in Seq(Nat) /\ Len(group) = Len(Rows)
    BY <1>1, RowsLaid, GroupsLaid
  <2> HIDE DEF group
  <2> QED
    BY <2>1
<1>3. DOMAIN selected = 1..m /\ i \in ToSet(selected)
  BY DEF ToSet
<1>4. start[i] = Begins[i] + 1
  BY <1>1 DEF SequenceBatch, Begins
<1>5. x \in 1..Len(Rows) /\ group[x] = i /\ Rows[x] = buffer[i].steps[1]
  BY <1>1, <1>4, RowIn
<1>6. /\ evaluated.log_probs[k] = {steps[j] : j \in {l \in DOMAIN steps : group[steps[l]] = i}}
      /\ evaluated.initial_values[k] = steps[local]
  BY <1>3 DEF EvaluateEpisodes, InitialLocal
<1> HIDE DEF group, start, i, x, id, evaluated
<1>7. chosen \in SUBSET Nat /\ IsFiniteSet(chosen)
  <2>1. IsFiniteSet(1..Len(Rows))
    <3>1. 1 \in Int /\ Len(Rows) \in Int
      BY <1>2
    <3> QED
      BY <3>1, FS_Interval
  <2>2. chosen \in SUBSET (1..Len(Rows))
    BY <1>2
  <2> HIDE DEF chosen
  <2>3. IsFiniteSet(chosen)
    BY <2>1, <2>2, FS_Subset
  <2>4. chosen \in SUBSET Nat
    BY <1>2, <2>2
  <2> QED
    BY <2>3, <2>4
<1>8. x \in chosen
  BY <1>2, <1>3, <1>5
<1> HIDE DEF chosen
<1>9. steps[local] = x
  BY <1>7, <1>8, PlaceOfMember
<1>10. /\ steps \in [1..Cardinality(chosen) -> chosen]
       /\ \A y \in chosen : \E l \in 1..Cardinality(chosen) : steps[l] = y
  BY <1>7, InOrderSorts
<1> HIDE DEF steps, local
<1>11. evaluated.log_probs[k] = {j \in chosen : group[j] = i}
  BY <1>6, <1>10
<1>12. {j \in chosen : group[j] = i} = {j \in 1..Len(Rows) : group[j] = i}
  BY <1>2, <1>3 DEF chosen
<1>13. \A r \in 1..Len(Rows) : group[r] = i <=> Rows[r].trajectory_id = id
  BY <1>1, GroupIsTrajectory DEF group, id
<1>14. evaluated.log_probs[k] = {j \in DOMAIN Rows : Rows[j].trajectory_id = id}
  BY <1>2, <1>11, <1>12, <1>13
<1>15. /\ Rows[evaluated.initial_values[k]].trajectory_id = id
       /\ Rows[evaluated.initial_values[k]].step_index = 0
  <2>1. Rows[evaluated.initial_values[k]] = buffer[i].steps[1] /\ 1 \in 1..Lengths[i]
    BY <1>1, <1>5, <1>6, <1>9
  <2> QED
    BY <1>1, <2>1, Feedable DEF id
<1> QED
  BY <1>14, <1>15 DEF KeepsSteps, id, i, evaluated

LEMMA EpisodesAreKept == RolloutInv => EpisodesKeepTheirSteps
<1> SUFFICES ASSUME RolloutInv, ~SequenceRefused,
                    NEW selected \in UNION {SetToSeqs(s) : s \in SUBSET DOMAIN buffer \ {{}}},
                    NEW k \in DOMAIN selected
             PROVE  KeepsSteps(selected, k)
  BY DEF EpisodesKeepTheirSteps, KeepsSteps
<1>1. PICK s \in SUBSET DOMAIN buffer : selected \in SetToSeqs(s)
  OBVIOUS
<1>2. DOMAIN buffer = 1..Len(buffer) /\ Len(buffer) \in Nat
  BY Feedable
<1>3. IsFiniteSet(s) /\ Cardinality(s) \in Nat
  <2>1. 1 \in Int /\ Len(buffer) \in Int
    BY <1>2
  <2>2. IsFiniteSet(1..Len(buffer))
    BY <2>1, FS_Interval
  <2> QED
    BY <1>1, <1>2, <2>2, FS_Subset, FS_CardinalityType
<1>4. selected \in [1..Cardinality(s) -> s]
  BY <1>1 DEF SetToSeqs
<1>5. k \in 1..Cardinality(s) /\ s \in SUBSET (1..Len(buffer))
  BY <1>1, <1>2, <1>4
<1>6. PICK m \in Nat : m = Cardinality(s)
  BY <1>3
<1>7. selected \in [1..m -> s] /\ k \in 1..m /\ s \in SUBSET (1..Len(buffer))
  BY <1>4, <1>5, <1>6
<1> QED
  BY <1>7, MinibatchKeepsEpisodes, Zenon

\* However the buffer was filled, sequence PPO is fed if it holds nothing but
\* complete episodes: the batch passes its own validation, and a minibatch of any
\* episodes in any order keeps each with its own steps and its own first value.
THEOREM EpisodesReachSequencePPO == LearningSpec => []SequenceIntact
<1>1. RolloutInv => (~SequenceRefused => Validates(SequenceBatch)) /\ EpisodesKeepTheirSteps
  BY BatchValidates, EpisodesAreKept
<1>2. ASSUME RolloutInv, CollectedIsAccepted PROVE SequenceIntact
  BY <1>1, <1>2 DEF SequenceIntact, SequenceReady
<1> QED
  BY <1>2, RolloutInvariant, CollectedIsNeverRefused, PTL

-----------------------------------------------------------------------------
(* The backward pass over the rows *)

\* compute_gae's error of a row, and whether the next row is taken into account.
Own(rows, nextValues, r) ==
    rows[r].reward - rows[r].value
      + IF rows[r].done THEN 0 ELSE Discounted(Bootstraps(rows, nextValues)[r], 1)

Goes(rows, r) == SameNextTrajectory(rows, r) /\ ~rows[r].done

\* What the backward loop computes.
Backward(rows, nextValues, k, A) ==
    A = [r \in DOMAIN rows |->
           Own(rows, nextValues, r) + IF Goes(rows, r) THEN Discounted(A[r + 1], k) ELSE 0]

LEMMA AdvantagesAreBackward ==
  ASSUME NEW rows, NEW nextValues, NEW k, \E A : Backward(rows, nextValues, k, A)
  PROVE  Backward(rows, nextValues, k, Advantages(rows, nextValues, k))
<1>1. Advantages(rows, nextValues, k) = CHOOSE A : Backward(rows, nextValues, k, A)
  BY DEF Advantages, Backward, Own, Goes
<1> QED
  BY <1>1

\* The error of a step of a trajectory, as its own trajectory tells it.
After(i, m, nextValues) ==
    LET steps == buffer[i].steps IN
    IF steps[m].done \/ (nextValues = None /\ m = Len(steps)) THEN 0
    ELSE IF nextValues # None THEN nextValues[Offset(i) + m]
    ELSE steps[m + 1].value

Errors(i, nextValues) ==
    [m \in 1..Lengths[i] |->
       buffer[i].steps[m].reward + Discounted(After(i, m, nextValues), 1) - buffer[i].steps[m].value]

LEMMA GaeIsWorth ==
  ASSUME buffer \in Buffers, NEW i \in 1..Len(buffer), NEW j \in 1..Lengths[i], NEW nextValues
  PROVE  GaeOf(i, j, nextValues) = Worth(Errors(i, nextValues), 2, Lengths[i], j)
<1> DEFINE n == Lengths[i]
           steps == buffer[i].steps
           delta == [m \in 1..n |-> steps[m].reward + Discounted(After(i, m, nextValues), 1) - steps[m].value]
<1>1. n = Len(steps) /\ n \in Nat
  <2>1. buffer[i] \in TrajectoryRecords
    BY DEF Buffers
  <2> QED
    BY <2>1 DEF Lengths, TrajectoryRecords, StepLists
<1>2. Errors(i, nextValues) = delta
  BY DEF Errors
<1>3. GaeOf(i, j, nextValues)
        = SumFunction([m \in j..Len(steps) |->
             Discounted(steps[m].reward + Discounted(After(i, m, nextValues), 1) - steps[m].value,
                        2 * (m - j))])
  BY DEF GaeOf, After
<1>4. [m \in j..Len(steps) |->
             Discounted(steps[m].reward + Discounted(After(i, m, nextValues), 1) - steps[m].value,
                        2 * (m - j))]
        = [m \in j..n |-> Discounted(delta[m], 2 * (m - j))]
  <2>1. \A m \in j..n : m \in 1..n
    BY <1>1
  <2> HIDE DEF n, steps
  <2> QED
    BY <1>1, <2>1
<1> QED
  BY <1>2, <1>3, <1>4 DEF Worth

LEMMA TrajectoryOf ==
  ASSUME RolloutInv, NEW i \in 1..Len(buffer)
  PROVE  /\ buffer \in Buffers /\ Len(buffer) \in Nat
         /\ Lengths[i] \in Nat /\ Lengths[i] <= MaxLength
         /\ Len(buffer[i].steps) = Lengths[i] /\ DOMAIN buffer[i].steps = 1..Lengths[i]
         /\ \A j \in 1..Lengths[i] :
              /\ buffer[i].steps[j] \in StepRecords
              /\ buffer[i].steps[j].trajectory_id = buffer[i].trajectory_id
              /\ buffer[i].steps[j].done => j = Lengths[i]
         /\ \A k \in 1..Len(buffer) :
              buffer[k].trajectory_id = buffer[i].trajectory_id => k = i
<1>1. buffer \in Buffers /\ Distinct(buffer) /\ AllWellFormed(buffer) /\ Len(buffer) \in Nat
      /\ DOMAIN buffer = 1..Len(buffer)
  BY DEF RolloutInv, BufferInv, Buffers
<1>2. buffer[i] \in TrajectoryRecords /\ WellFormed(buffer[i])
  BY <1>1 DEF Buffers, AllWellFormed
<1>3. PICK steps \in Seq(StepRecords) : steps = buffer[i].steps
  BY <1>2 DEF TrajectoryRecords, StepLists
<1>4. PICK n \in Nat : n = Len(steps)
  BY <1>3
<1>5. Lengths[i] = n
  BY <1>3, <1>4 DEF Lengths
<1>6. DOMAIN steps = 1..n /\ \A j \in 1..n : steps[j] \in StepRecords
  BY <1>3, <1>4
<1>7. \A j \in 1..n : /\ steps[j].trajectory_id = buffer[i].trajectory_id
                      /\ steps[j].step_index = j - 1
                      /\ steps[j].done => j = n
  BY <1>2, <1>3, <1>4, <1>6 DEF WellFormed
<1>8. n <= MaxLength
  <2>1. CASE n = 0
    BY <2>1, UnitAssumption
  <2>2. CASE n >= 1
    <3>1. steps[n].step_index < MaxLength /\ steps[n].step_index = n - 1
      <4>1. n \in 1..n
        BY <2>2
      <4> QED
        BY <1>6, <1>7, <4>1 DEF StepRecords
    <3> QED
      BY <3>1, UnitAssumption
  <2> QED
    BY <2>1, <2>2
<1>9. \A k \in 1..Len(buffer) : buffer[k].trajectory_id = buffer[i].trajectory_id => k = i
  BY <1>1 DEF Distinct
<1> QED
  BY <1>1, <1>3, <1>4, <1>5, <1>6, <1>7, <1>8, <1>9

\* What compute_gae may be given as the values after each row.
NextValues == {None} \cup [DOMAIN Rows -> {0, Unit}]

\* A trajectory's errors are as exact as its rewards.
LEMMA ErrorsAreExact ==
  ASSUME RolloutInv, NEW nextValues \in NextValues,
         NEW i \in 1..Len(buffer), NEW m \in 1..Lengths[i]
  PROVE  /\ After(i, m, nextValues) \in Whole
         /\ Discounted(After(i, m, nextValues), 1) \in Halves
         /\ Errors(i, nextValues)[m] \in Halves
<1>1. PICK n \in Nat : n = Lengths[i]
  BY TrajectoryOf
<1>2. m \in 1..n /\ m + 1 \in Nat /\ (m # n => m + 1 \in 1..n)
  BY <1>1
<1>3. \A j \in 1..n : buffer[i].steps[j] \in StepRecords
  BY <1>1, TrajectoryOf
<1>4. \A j \in 1..n : /\ buffer[i].steps[j].value \in Whole
                      /\ buffer[i].steps[j].reward \in Halves
  BY <1>3 DEF StepRecords
<1>5. Len(buffer[i].steps) = n /\ Offset(i) = Begins[i]
  <2>1. i \in 1..(Len(buffer) + 1)
    BY TrajectoryOf
  <2> QED
    BY <1>1, <2>1, TrajectoryOf DEF Begins
<1>6. nextValues # None => nextValues[Offset(i) + m] \in Whole
  <2>1. Begins[i] + m \in 1..Len(Rows) /\ DOMAIN Rows = 1..Len(Rows)
    <3>1. buffer \in Buffers
      BY TrajectoryOf
    <3> QED
      BY <3>1, RowIn, RowsLaid
  <2>2. 0 \in Whole /\ Unit \in Whole
    BY AnswersAreWhole, WholeAndHalves
  <2>3. nextValues # None => nextValues[Begins[i] + m] \in {0, Unit}
    BY <2>1 DEF NextValues
  <2> QED
    BY <1>5, <2>2, <2>3
<1>7. After(i, m, nextValues) \in Whole
  <2>1. 0 \in Whole
    BY WholeAndHalves
  <2> QED
    BY <1>2, <1>4, <1>5, <1>6, <2>1 DEF After
<1>8. Discounted(After(i, m, nextValues), 1) \in Halves
  BY <1>7, WholeAndHalves
<1>9. /\ buffer[i].steps[m].reward \in Halves
      /\ buffer[i].steps[m].value \in Halves
  BY <1>2, <1>4, WholeAndHalves
<1>10. Discounted(After(i, m, nextValues), 1) - buffer[i].steps[m].value \in Halves
  BY <1>8, <1>9, WholeAndHalves
<1>11. buffer[i].steps[m].reward + (Discounted(After(i, m, nextValues), 1) - buffer[i].steps[m].value)
         \in Halves
  BY <1>9, <1>10, WholeAndHalves
<1> QED
  BY <1>7, <1>8, <1>11 DEF Errors

\* The backward loop sees each row as its own trajectory does: it goes on to the
\* trajectory's next step, and stops after the last.
LEMMA RowAndStep ==
  ASSUME RolloutInv, NEW nextValues \in NextValues,
         NEW i \in 1..Len(buffer), NEW j \in 1..Lengths[i]
  PROVE  /\ Begins[i] + j \in DOMAIN Rows
         /\ Own(Rows, nextValues, Begins[i] + j) = Errors(i, nextValues)[j]
         /\ Goes(Rows, Begins[i] + j) <=> j < Lengths[i]
         /\ j < Lengths[i] => (Begins[i] + j) + 1 = Begins[i] + (j + 1)
<1>1. PICK n \in Nat : n = Lengths[i]
  BY TrajectoryOf
<1>2. PICK at \in Nat : at = Begins[i]
  BY TrajectoryOf, RowIn
<1>3. PICK r : r = at + j
  OBVIOUS
<1>4. buffer \in Buffers /\ Len(buffer) \in Nat
  BY TrajectoryOf
<1>5. /\ r \in 1..Len(Rows) /\ DOMAIN Rows = 1..Len(Rows) /\ r \in Nat /\ Len(Rows) \in Nat
      /\ Rows[r] = buffer[i].steps[j]
  BY <1>2, <1>3, <1>4, RowIn, RowsLaid
<1>6. ASSUME j < n
      PROVE  /\ r + 1 = at + (j + 1) /\ r + 1 \in 1..Len(Rows)
             /\ Rows[r + 1] = buffer[i].steps[j + 1]
  <2>1. j + 1 \in 1..Lengths[i] /\ r + 1 = at + (j + 1)
    BY <1>1, <1>2, <1>3, <1>6
  <2> QED
    BY <1>2, <1>4, <2>1, RowIn
<1>7. SameNextTrajectory(Rows, r) => j < n
  <2>1. SUFFICES ASSUME r < Len(Rows), Rows[r].trajectory_id = Rows[r + 1].trajectory_id
                 PROVE  j < n
    BY DEF SameNextTrajectory
  <2>2. r + 1 \in 1..Len(Rows)
    BY <1>5, <2>1
  <2>3. PICK k \in 1..Len(buffer) : \E l \in 1..Lengths[k] :
          r + 1 = Begins[k] + l /\ Rows[r + 1] = buffer[k].steps[l]
    BY <1>4, <2>2, RowOf
  <2>4. PICK l \in 1..Lengths[k] : r + 1 = Begins[k] + l /\ Rows[r + 1] = buffer[k].steps[l]
    BY <2>3
  <2>5. buffer[k].trajectory_id = buffer[i].trajectory_id
    BY <1>1, <1>5, <2>1, <2>4, TrajectoryOf
  <2>6. k = i
    BY <2>5, TrajectoryOf
  <2>7. l = j + 1
    BY <1>2, <1>3, <2>4, <2>6
  <2> QED
    BY <1>1, <2>4, <2>6, <2>7
<1>8. j < n => SameNextTrajectory(Rows, r) /\ ~Rows[r].done
  <2>1. SUFFICES ASSUME j < n PROVE SameNextTrajectory(Rows, r) /\ ~Rows[r].done
    OBVIOUS
  <2>2. j \in 1..Lengths[i] /\ j + 1 \in 1..Lengths[i]
    BY <1>1, <2>1
  <2>3. Rows[r].trajectory_id = Rows[r + 1].trajectory_id
    BY <1>5, <1>6, <2>1, <2>2, TrajectoryOf
  <2>4. r < Len(Rows)
    BY <1>5, <1>6, <2>1
  <2>5. ~Rows[r].done
    BY <1>1, <1>5, <2>1, TrajectoryOf
  <2> QED
    BY <2>3, <2>4, <2>5 DEF SameNextTrajectory
<1>9. Goes(Rows, r) <=> j < n
  BY <1>7, <1>8 DEF Goes
<1>10. Rows[r].done => j = n
  BY <1>1, <1>5, TrajectoryOf
<1>11. (IF Rows[r].done THEN 0 ELSE Discounted(Bootstraps(Rows, nextValues)[r], 1))
         = Discounted(After(i, j, nextValues), 1)
  <2>1. Offset(i) = at /\ Len(buffer[i].steps) = n
    <3>1. i \in 1..(Len(buffer) + 1)
      BY <1>4
    <3> QED
      BY <1>1, <1>2, <3>1, TrajectoryOf DEF Begins
  <2>2. CASE Rows[r].done
    <3>1. buffer[i].steps[j].done
      BY <1>5, <2>2
    <3>2. After(i, j, nextValues) = 0
      BY <3>1 DEF After
    <3>3. Discounted(0, 1) = 0
      <4>1. 1 \in Nat
        OBVIOUS
      <4> QED
        BY <4>1, NothingDivided
    <3> QED
      BY <2>2, <3>2, <3>3
  <2>3. CASE ~Rows[r].done /\ nextValues # None
    BY <1>3, <1>5, <2>1, <2>3 DEF After, Bootstraps
  <2>4. CASE ~Rows[r].done /\ nextValues = None
    <3>1. Bootstraps(Rows, nextValues)[r] = IF j < n THEN Rows[r + 1].value ELSE 0
      BY <1>5, <1>7, <1>8, <2>4 DEF Bootstraps
    <3>2. After(i, j, nextValues) = IF j < n THEN buffer[i].steps[j + 1].value ELSE 0
      BY <1>1, <1>5, <2>1, <2>4 DEF After
    <3>3. Bootstraps(Rows, nextValues)[r] = After(i, j, nextValues)
      BY <1>6, <3>1, <3>2
    <3> QED
      BY <2>4, <3>3
  <2> QED
    BY <2>2, <2>3, <2>4
<1>12. Own(Rows, nextValues, r) = Errors(i, nextValues)[j]
  <2>1. /\ buffer[i].steps[j].reward \in Int /\ buffer[i].steps[j].value \in Int
        /\ Discounted(After(i, j, nextValues), 1) \in Int
    <3>1. buffer[i].steps[j] \in StepRecords
      BY TrajectoryOf
    <3>2. buffer[i].steps[j].reward \in Halves /\ buffer[i].steps[j].value \in Whole
      BY <3>1 DEF StepRecords
    <3> QED
      BY <3>2, ErrorsAreExact, WholeAndHalves
  <2>2. Own(Rows, nextValues, r)
          = buffer[i].steps[j].reward - buffer[i].steps[j].value + Discounted(After(i, j, nextValues), 1)
    <3>1. Own(Rows, nextValues, r)
            = Rows[r].reward - Rows[r].value
                + IF Rows[r].done THEN 0 ELSE Discounted(Bootstraps(Rows, nextValues)[r], 1)
      BY DEF Own
    <3>2. Own(Rows, nextValues, r)
            = Rows[r].reward - Rows[r].value + Discounted(After(i, j, nextValues), 1)
      BY <1>11, <3>1, Zenon
    <3> QED
      BY <1>5, <3>2
  <2>3. Errors(i, nextValues)[j]
          = buffer[i].steps[j].reward + Discounted(After(i, j, nextValues), 1) - buffer[i].steps[j].value
    BY DEF Errors
  <2> QED
    BY <2>1, <2>2, <2>3
<1>13. j < n => (at + j) + 1 = at + (j + 1)
  BY <1>1
<1> QED
  BY <1>1, <1>2, <1>3, <1>5, <1>9, <1>12, <1>13

\* From the last step of a trajectory to its first.
LEMMA Backwards ==
  ASSUME NEW n \in Nat, NEW S \in SUBSET (1..n),
         n \in 1..n => n \in S, \A j \in 1..n : j < n /\ j + 1 \in S => j \in S
  PROVE  S = 1..n
<1> DEFINE T == {d \in Nat : n - d \in 1..n => n - d \in S}
<1>1. 0 \in T
  OBVIOUS
<1>2. ASSUME NEW d \in T PROVE d + 1 \in T
  <2>1. d \in Nat /\ (n - d \in 1..n => n - d \in S)
    OBVIOUS
  <2> HIDE DEF T
  <2>2. n - (d + 1) \in 1..n => n - (d + 1) \in S
    <3>1. SUFFICES ASSUME n - (d + 1) \in 1..n PROVE n - (d + 1) \in S
      OBVIOUS
    <3>2. PICK j \in 1..n : j = n - (d + 1)
      BY <3>1
    <3>3. j < n /\ j + 1 = n - d /\ n - d \in 1..n
      BY <2>1, <3>2
    <3> QED
      BY <2>1, <3>2, <3>3
  <2> QED
    BY <2>1, <2>2 DEF T
<1> HIDE DEF T
<1>3. T = Nat
  <2>1. T \in SUBSET Nat
    BY DEF T
  <2> QED
    BY <1>1, <1>2, <2>1, SetInduction
<1>4. ASSUME NEW j \in 1..n PROVE j \in S
  <2>1. n - j \in T /\ n - (n - j) = j
    BY <1>3
  <2> QED
    BY <2>1 DEF T
<1> QED
  BY <1>4

\* What a step's errors are worth.
LEMMA ErrorsAreWorth ==
  ASSUME RolloutInv, NEW nextValues \in NextValues, NEW k \in {1, 2},
         NEW i \in 1..Len(buffer), NEW j \in 1..Lengths[i]
  PROVE  /\ Worth(Errors(i, nextValues), k, Lengths[i], j)
              = Errors(i, nextValues)[j]
                  + Discounted(Worth(Errors(i, nextValues), k, Lengths[i], j + 1), k)
         /\ Worth(Errors(i, nextValues), k, Lengths[i], j + 1) \in Multiples(k)
         /\ j = Lengths[i] =>
              /\ Worth(Errors(i, nextValues), k, Lengths[i], j + 1) = 0
              /\ Worth(Errors(i, nextValues), k, Lengths[i], j) = Errors(i, nextValues)[j]
<1>1. PICK n \in Nat : n = Lengths[i]
  BY TrajectoryOf
<1>2. PICK e \in Nat : e = 2 * MaxLength - 1
  BY UnitAssumption
<1>3. k * (n - 1) <= e
  <2>1. n <= MaxLength /\ n >= 1
    BY <1>1, TrajectoryOf
  <2>2. CASE k = 1
    BY <1>2, <2>1, <2>2, UnitAssumption
  <2>3. CASE k = 2
    BY <1>2, <2>1, <2>3, UnitAssumption
  <2> QED
    BY <2>2, <2>3
<1>4. PICK g : g = Errors(i, nextValues)
  OBVIOUS
<1>5. \A m \in 1..n : g[m] \in Multiples(e)
  BY <1>1, <1>2, <1>4, ErrorsAreExact DEF Halves
<1>6. j \in 1..n
  BY <1>1
<1>7. /\ Worth(g, k, n, j) = g[j] + Discounted(Worth(g, k, n, j + 1), k)
      /\ Worth(g, k, n, j + 1) \in Multiples(k)
  BY <1>3, <1>5, <1>6, WorthFromHere, ZenonT(30)
<1>8. j = n => Worth(g, k, n, j + 1) = 0 /\ Worth(g, k, n, j) = g[j]
  <2>1. SUFFICES ASSUME j = n PROVE Worth(g, k, n, j + 1) = 0 /\ Worth(g, k, n, j) = g[j]
    OBVIOUS
  <2>2. Worth(g, k, n, j + 1) = 0
    BY <2>1, WorthAtEnd
  <2>3. Discounted(0, k) = 0 /\ g[j] \in Int
    <3>1. k \in Nat
      OBVIOUS
    <3> QED
      BY <1>5, <1>6, <3>1, NothingDivided DEF Multiples
  <2> QED
    BY <1>7, <2>2, <2>3
<1> QED
  BY <1>1, <1>4, <1>7, <1>8

\* There is a function that the backward loop defines: what every row is worth.
LEMMA BackwardExists ==
  ASSUME RolloutInv, NEW nextValues \in NextValues, NEW k \in {1, 2}
  PROVE  \E A : Backward(Rows, nextValues, k, A)
<1> DEFINE Is(r, x) ==
             \E i \in 1..Len(buffer) : \E j \in 1..Lengths[i] :
               r = Begins[i] + j /\ x = Worth(Errors(i, nextValues), k, Lengths[i], j)
           W == [r \in DOMAIN Rows |-> CHOOSE x : Is(r, x)]
           V == [r \in DOMAIN Rows |->
                   Own(Rows, nextValues, r) + IF Goes(Rows, r) THEN Discounted(W[r + 1], k) ELSE 0]
<1>1. buffer \in Buffers
  BY DEF RolloutInv, BufferInv
<1>2. DOMAIN Rows = 1..Len(Rows) /\ Laid(Begins, Lengths, Len(buffer))
  BY <1>1, RowsLaid
<1>3. ASSUME NEW i \in 1..Len(buffer), NEW j \in 1..Lengths[i]
      PROVE  W[Begins[i] + j] = Worth(Errors(i, nextValues), k, Lengths[i], j)
  <2>1. Begins[i] + j \in DOMAIN Rows
    BY RowAndStep
  <2>2. Is(Begins[i] + j, Worth(Errors(i, nextValues), k, Lengths[i], j))
    OBVIOUS
  <2>3. ASSUME NEW x, Is(Begins[i] + j, x)
        PROVE  x = Worth(Errors(i, nextValues), k, Lengths[i], j)
    <3>1. PICK l \in 1..Len(buffer) : \E m \in 1..Lengths[l] :
             Begins[i] + j = Begins[l] + m /\ x = Worth(Errors(l, nextValues), k, Lengths[l], m)
      BY <2>3
    <3>2. PICK m \in 1..Lengths[l] :
             Begins[i] + j = Begins[l] + m /\ x = Worth(Errors(l, nextValues), k, Lengths[l], m)
      BY <3>1
    <3>3. Begins[i] + j <= Begins[l] + m
      <4>1. Begins[i] \in Nat /\ j \in Nat
        BY <1>1, RowIn
      <4> QED
        BY <3>2, <4>1
    <3>4. i = l /\ j = m
      BY <1>2, <3>2, <3>3, OnePlace
    <3> QED
      BY <3>2, <3>4
  <2> HIDE DEF Is
  <2>4. W[Begins[i] + j] = CHOOSE x : Is(Begins[i] + j, x)
    BY <2>1
  <2> QED
    BY <2>2, <2>3, <2>4
<1>4. ASSUME NEW r \in DOMAIN Rows
      PROVE  W[r] = V[r]
  <2>1. PICK i \in 1..Len(buffer) : \E j \in 1..Lengths[i] : r = Begins[i] + j
    BY <1>1, <1>2, RowOf
  <2>2. PICK j \in 1..Lengths[i] : r = Begins[i] + j
    BY <2>1
  <2>3. W[r] = Worth(Errors(i, nextValues), k, Lengths[i], j)
    BY <1>3, <2>2
  <2>4. /\ Own(Rows, nextValues, r) = Errors(i, nextValues)[j]
        /\ Goes(Rows, r) <=> j < Lengths[i]
        /\ j < Lengths[i] => r + 1 = Begins[i] + (j + 1)
    BY <2>2, RowAndStep
  <2>5. Lengths[i] \in Nat /\ Errors(i, nextValues)[j] \in Int
    BY TrajectoryOf, ErrorsAreExact, WholeAndHalves
  <2>6. V[r] = Own(Rows, nextValues, r)
                 + IF Goes(Rows, r) THEN Discounted(W[r + 1], k) ELSE 0
    OBVIOUS
  <2> HIDE DEF W, V
  <2>7. CASE j < Lengths[i]
    <3>1. j + 1 \in 1..Lengths[i]
      BY <2>5, <2>7
    <3>2. W[r + 1] = Worth(Errors(i, nextValues), k, Lengths[i], j + 1)
      BY <1>3, <2>4, <2>7, <3>1
    <3>3. V[r] = Own(Rows, nextValues, r) + Discounted(W[r + 1], k)
      BY <2>4, <2>6, <2>7
    <3> QED
      BY <2>3, <2>4, <3>2, <3>3, ErrorsAreWorth
  <2>8. CASE j = Lengths[i]
    <3>1. V[r] = Own(Rows, nextValues, r) + 0
      BY <2>4, <2>5, <2>6, <2>8
    <3>2. W[r] = Errors(i, nextValues)[j]
      BY <2>3, <2>8, ErrorsAreWorth
    <3> QED
      BY <2>4, <2>5, <3>1, <3>2
  <2> QED
    BY <2>5, <2>7, <2>8
<1>5. W = V
  <2>1. DOMAIN W = DOMAIN Rows /\ DOMAIN V = DOMAIN Rows
    OBVIOUS
  <2>2. W = [r \in DOMAIN Rows |-> W[r]] /\ V = [r \in DOMAIN Rows |-> V[r]]
    OBVIOUS
  <2> HIDE DEF W, V
  <2> QED
    BY <1>4, <2>2
<1>6. Backward(Rows, nextValues, k, W)
  BY <1>5 DEF Backward
<1> QED
  BY <1>6

\* Whatever satisfies the backward loop gives each step what its own errors are
\* worth, trajectory by trajectory.
LEMMA BackwardIsOwn ==
  ASSUME RolloutInv, NEW nextValues \in NextValues, NEW k \in {1, 2},
         NEW A, Backward(Rows, nextValues, k, A),
         NEW i \in 1..Len(buffer), NEW j \in 1..Lengths[i]
  PROVE  A[Begins[i] + j] = Worth(Errors(i, nextValues), k, Lengths[i], j)
<1> DEFINE S == {m \in 1..Lengths[i] :
                   A[Begins[i] + m] = Worth(Errors(i, nextValues), k, Lengths[i], m)}
<1>1. PICK n \in Nat : n = Lengths[i]
  BY TrajectoryOf
<1>2. ASSUME NEW m \in 1..n
      PROVE  /\ A[Begins[i] + m]
                  = Errors(i, nextValues)[m]
                      + IF m < n THEN Discounted(A[Begins[i] + (m + 1)], k) ELSE 0
             /\ Errors(i, nextValues)[m] \in Int
  <2>1. m \in 1..Lengths[i]
    BY <1>1
  <2>2. PICK r : r = Begins[i] + m
    OBVIOUS
  <2>3. /\ r \in DOMAIN Rows /\ Own(Rows, nextValues, r) = Errors(i, nextValues)[m]
        /\ Goes(Rows, r) <=> m < n
        /\ m < n => r + 1 = Begins[i] + (m + 1)
    BY <1>1, <2>1, <2>2, RowAndStep
  <2>4. A[r] = Own(Rows, nextValues, r) + IF Goes(Rows, r) THEN Discounted(A[r + 1], k) ELSE 0
    BY <2>3 DEF Backward
  <2>5. Errors(i, nextValues)[m] \in Int
    BY <2>1, ErrorsAreExact, WholeAndHalves
  <2> QED
    BY <2>2, <2>3, <2>4, <2>5
<1>3. n \in 1..n => n \in S
  <2>1. SUFFICES ASSUME n \in 1..n PROVE n \in S
    OBVIOUS
  <2>2. A[Begins[i] + n] = Errors(i, nextValues)[n]
    BY <1>2, <2>1
  <2>3. Worth(Errors(i, nextValues), k, Lengths[i], n) = Errors(i, nextValues)[n]
    BY <1>1, <2>1, ErrorsAreWorth
  <2> QED
    BY <1>1, <2>1, <2>2, <2>3
<1>4. ASSUME NEW m \in 1..n, m < n, m + 1 \in S PROVE m \in S
  <2>1. A[Begins[i] + (m + 1)] = Worth(Errors(i, nextValues), k, Lengths[i], m + 1)
    BY <1>4
  <2>2. A[Begins[i] + m] = Errors(i, nextValues)[m] + Discounted(A[Begins[i] + (m + 1)], k)
    BY <1>2, <1>4
  <2>3. Worth(Errors(i, nextValues), k, Lengths[i], m)
          = Errors(i, nextValues)[m]
              + Discounted(Worth(Errors(i, nextValues), k, Lengths[i], m + 1), k)
    BY <1>1, ErrorsAreWorth
  <2> QED
    BY <1>1, <2>1, <2>2, <2>3
<1>5. S \in SUBSET (1..n)
  BY <1>1
<1> HIDE DEF S
<1>6. S = 1..n
  BY <1>3, <1>4, <1>5, Backwards
<1> QED
  BY <1>1, <1>6 DEF S

LEMMA AdvantagesAreOwn ==
  ASSUME RolloutInv, NEW nextValues \in NextValues, NEW k \in {1, 2},
         NEW i \in 1..Len(buffer), NEW j \in 1..Lengths[i]
  PROVE  Advantages(Rows, nextValues, k)[Begins[i] + j]
           = Worth(Errors(i, nextValues), k, Lengths[i], j)
<1>1. PICK A : A = Advantages(Rows, nextValues, k)
  OBVIOUS
<1>2. Backward(Rows, nextValues, k, Advantages(Rows, nextValues, k))
  BY BackwardExists, AdvantagesAreBackward
<1>3. Backward(Rows, nextValues, k, A)
  BY <1>1, <1>2
<1> QED
  BY <1>1, <1>3, BackwardIsOwn

LEMMA AdvantagesMatch == RolloutInv => AdvantagesMatchDefinition
<1> SUFFICES ASSUME RolloutInv PROVE AdvantagesMatchDefinition
  OBVIOUS
<1>1. buffer \in Buffers /\ DOMAIN buffer = 1..Len(buffer) /\ Len(buffer) \in Nat
  BY DEF RolloutInv, BufferInv, Buffers
<1>2. ASSUME NEW nextValues \in NextValues, NEW i \in DOMAIN buffer,
             NEW j \in DOMAIN buffer[i].steps
      PROVE  Advantages(Rows, nextValues, 2)[Offset(i) + j] = GaeOf(i, j, nextValues)
  <2>1. i \in 1..Len(buffer) /\ i \in 1..(Len(buffer) + 1)
    BY <1>1
  <2>2. j \in 1..Lengths[i]
    BY <2>1, TrajectoryOf
  <2>3. Begins[i] = Offset(i)
    BY <2>1 DEF Begins
  <2>4. Advantages(Rows, nextValues, 2)[Begins[i] + j]
          = Worth(Errors(i, nextValues), 2, Lengths[i], j)
    BY <2>1, <2>2, AdvantagesAreOwn
  <2>5. GaeOf(i, j, nextValues) = Worth(Errors(i, nextValues), 2, Lengths[i], j)
    BY <1>1, <2>1, <2>2, GaeIsWorth
  <2> QED
    BY <2>3, <2>4, <2>5
<1> QED
  BY <1>2 DEF AdvantagesMatchDefinition, NextValues

\* The rewards of an episode.
Rewards(i) == [m \in 1..Lengths[i] |-> buffer[i].steps[m].reward]

LEMMA ReturnIsWorth ==
  ASSUME RolloutInv, NEW i \in 1..Len(buffer)
  PROVE  DiscountedReturn(buffer[i].steps) = Worth(Rewards(i), 1, Lengths[i], 1)
<1> DEFINE steps == buffer[i].steps
           n == Lengths[i]
           rewards == [m \in 1..n |-> steps[m].reward]
<1>1. DOMAIN steps = 1..n /\ n \in Nat
  BY TrajectoryOf
<1>2. \A m \in 1..n : rewards[m] = steps[m].reward /\ 1 * (m - 1) = m - 1
  BY <1>1
<1>3. Rewards(i) = rewards
  BY DEF Rewards
<1> HIDE DEF rewards, steps
<1>4. [m \in DOMAIN steps |-> Discounted(steps[m].reward, m - 1)]
        = [m \in 1..n |-> Discounted(rewards[m], 1 * (m - 1))]
  BY <1>1, <1>2
<1> QED
  BY <1>3, <1>4 DEF DiscountedReturn, Worth, steps

\* What an episode's rewards are worth.
LEMMA RewardsAreWorth ==
  ASSUME RolloutInv, NEW i \in 1..Len(buffer), NEW j \in 1..Lengths[i]
  PROVE  /\ Worth(Rewards(i), 1, Lengths[i], j)
              = Rewards(i)[j] + Discounted(Worth(Rewards(i), 1, Lengths[i], j + 1), 1)
         /\ j = Lengths[i] => Worth(Rewards(i), 1, Lengths[i], j + 1) = 0
<1>1. PICK n \in Nat : n = Lengths[i]
  BY TrajectoryOf
<1>2. PICK e \in Nat : e = 2 * MaxLength - 1
  BY UnitAssumption
<1>3. PICK g : g = Rewards(i)
  OBVIOUS
<1>4. PICK k \in {1, 2} : k = 1
  OBVIOUS
<1>5. k * (n - 1) <= e
  <2>1. n <= MaxLength /\ MaxLength \in Nat \ {0}
    BY <1>1, TrajectoryOf, UnitAssumption
  <2> QED
    BY <1>2, <1>4, <2>1
<1>6. \A m \in 1..n : g[m] \in Multiples(e)
  <2>1. ASSUME NEW m \in 1..n PROVE buffer[i].steps[m].reward \in Halves
    <3>1. buffer[i].steps[m] \in StepRecords
      BY <1>1, TrajectoryOf
    <3> QED
      BY <3>1 DEF StepRecords
  <2> QED
    BY <1>1, <1>2, <1>3, <2>1 DEF Rewards, Halves
<1>7. j \in 1..n
  BY <1>1
<1>8. /\ Worth(g, k, n, j) = g[j] + Discounted(Worth(g, k, n, j + 1), k)
      /\ Worth(g, k, n, j + 1) \in Multiples(k)
  BY <1>5, <1>6, <1>7, WorthFromHere
<1>9. j = n => Worth(g, k, n, j + 1) = 0
  BY WorthAtEnd
<1> QED
  BY <1>1, <1>3, <1>4, <1>8, <1>9

\* In a complete episode the errors from a step on are worth what its rewards are
\* worth from there on, less the step's own value.
LEMMA ErrorsTelescope ==
  ASSUME RolloutInv, NEW i \in 1..Len(buffer),
         \A j \in 1..Lengths[i] : buffer[i].steps[j].done <=> j = Lengths[i]
  PROVE  \A j \in 1..Lengths[i] :
           Worth(Errors(i, None), 1, Lengths[i], j) + buffer[i].steps[j].value
             = Worth(Rewards(i), 1, Lengths[i], j)
<1>1. PICK n \in Nat : n = Lengths[i]
  BY TrajectoryOf
<1>2. PICK d : d = Errors(i, None)
  OBVIOUS
<1>3. PICK g : g = Rewards(i)
  OBVIOUS
<1>4. PICK v : v = [m \in 1..n |-> buffer[i].steps[m].value]
  OBVIOUS
<1>5. PICK e \in Nat : e = 2 * MaxLength - 1
  BY UnitAssumption
<1>6. None \in NextValues
  BY DEF NextValues
<1>7. \A m \in 1..n : /\ g[m] \in Multiples(e) /\ v[m] \in Whole
                      /\ g[m] = buffer[i].steps[m].reward /\ v[m] = buffer[i].steps[m].value
  <2>1. ASSUME NEW m \in 1..n
        PROVE  buffer[i].steps[m].reward \in Halves /\ buffer[i].steps[m].value \in Whole
    <3>1. buffer[i].steps[m] \in StepRecords
      BY <1>1, TrajectoryOf
    <3> QED
      BY <3>1 DEF StepRecords
  <2> QED
    BY <1>1, <1>3, <1>4, <1>5, <2>1 DEF Rewards, Halves
<1>8. \A m \in 1..n : d[m] = g[m] + (Discounted(IF m = n THEN 0 ELSE v[m + 1], 1) - v[m])
  <2>1. ASSUME NEW m \in 1..n PROVE After(i, m, None) = IF m = n THEN 0 ELSE v[m + 1]
    <3>1. CASE m = n
      <4>1. buffer[i].steps[m].done
        BY <1>1, <3>1
      <4> QED
        BY <3>1, <4>1 DEF After
    <3>2. CASE m # n
      <4>1. /\ ~buffer[i].steps[m].done /\ Len(buffer[i].steps) = n
            /\ m + 1 \in 1..n
        BY <1>1, <3>2, TrajectoryOf
      <4> QED
        BY <1>4, <3>2, <4>1 DEF After
    <3> QED
      BY <3>1, <3>2
  <2> QED
    BY <1>1, <1>2, <1>7, <2>1 DEF Errors
<1>9. ASSUME NEW j \in 1..n
      PROVE  /\ Worth(d, 1, n, j) = d[j] + Discounted(Worth(d, 1, n, j + 1), 1)
             /\ Worth(d, 1, n, j + 1) \in Multiples(1)
             /\ j = n => Worth(d, 1, n, j) = d[j]
             /\ Worth(g, 1, n, j) = g[j] + Discounted(Worth(g, 1, n, j + 1), 1)
             /\ j = n => Worth(g, 1, n, j + 1) = 0
             /\ g[j] \in Int /\ v[j] \in Multiples(1) /\ v[j] \in Int /\ d[j] \in Int
  <2>1. j \in 1..Lengths[i] /\ 1 \in {1, 2}
    BY <1>1
  <2>2. /\ Worth(d, 1, n, j) = d[j] + Discounted(Worth(d, 1, n, j + 1), 1)
        /\ Worth(d, 1, n, j + 1) \in Multiples(1)
        /\ j = n => Worth(d, 1, n, j) = d[j]
    BY <1>1, <1>2, <1>6, <2>1, ErrorsAreWorth
  <2>3. /\ Worth(g, 1, n, j) = g[j] + Discounted(Worth(g, 1, n, j + 1), 1)
        /\ j = n => Worth(g, 1, n, j + 1) = 0
    BY <1>1, <1>3, <2>1, RewardsAreWorth
  <2>6. v[j] \in Multiples(1) /\ v[j] \in Int
    <3>1. 2 * MaxLength \in Nat /\ 1 \in 0..(2 * MaxLength)
      BY UnitAssumption
    <3>2. v[j] \in Multiples(2 * MaxLength)
      BY <1>7 DEF Whole
    <3>3. v[j] \in Multiples(1)
      BY <3>1, <3>2, CoarserIsFiner
    <3> QED
      BY <3>3 DEF Multiples
  <2>7. g[j] \in Int
    BY <1>7 DEF Multiples
  <2>8. d[j] \in Int
    BY <1>2, <1>6, <2>1, ErrorsAreExact, WholeAndHalves
  <2> QED
    BY <2>2, <2>3, <2>6, <2>7, <2>8
<1> DEFINE S == {j \in 1..n : Worth(d, 1, n, j) + v[j] = Worth(g, 1, n, j)}
<1>10. Discounted(0, 1) = 0 /\ 1 \in Nat
  <2>1. 1 \in Nat
    OBVIOUS
  <2> QED
    BY <2>1, NothingDivided
<1>11. n \in 1..n => n \in S
  <2>1. SUFFICES ASSUME n \in 1..n PROVE Worth(d, 1, n, n) + v[n] = Worth(g, 1, n, n)
    OBVIOUS
  <2>2. /\ Worth(d, 1, n, n) = d[n] /\ Worth(g, 1, n, n) = g[n] + Discounted(0, 1)
        /\ g[n] \in Int /\ v[n] \in Int
    BY <1>9, <2>1
  <2>3. d[n] = g[n] + (Discounted(0, 1) - v[n])
    BY <1>8, <2>1
  <2> QED
    BY <1>10, <2>2, <2>3
<1>12. ASSUME NEW j \in 1..n, j < n, j + 1 \in S PROVE j \in S
  <2>1. j + 1 \in 1..n /\ Worth(d, 1, n, j + 1) + v[j + 1] = Worth(g, 1, n, j + 1)
    BY <1>12
  <2>2. PICK x \in Multiples(1) : x = Worth(d, 1, n, j + 1)
    BY <1>9
  <2>3. PICK y \in Multiples(1) : y = v[j + 1]
    BY <1>9, <2>1
  <2>4. /\ Discounted(x + y, 1) = Discounted(x, 1) + Discounted(y, 1)
        /\ Discounted(x, 1) \in Int /\ Discounted(y, 1) \in Int
    BY <1>10, DivisionAdds, ExactDivision
  <2>5. Worth(g, 1, n, j) = g[j] + Discounted(x + y, 1)
    BY <1>9, <2>1, <2>2, <2>3
  <2>6. Worth(d, 1, n, j) = d[j] + Discounted(x, 1)
    BY <1>9, <2>2
  <2>7. d[j] = g[j] + (Discounted(y, 1) - v[j])
    BY <1>8, <1>12, <2>3
  <2>8. g[j] \in Int /\ v[j] \in Int
    BY <1>9
  <2> QED
    BY <2>4, <2>5, <2>6, <2>7, <2>8
<1>13. S \in SUBSET (1..n)
  OBVIOUS
<1> HIDE DEF S
<1>14. S = 1..n
  BY <1>11, <1>12, <1>13, Backwards
<1>15. \A j \in 1..n : Worth(d, 1, n, j) + v[j] = Worth(g, 1, n, j)
  BY <1>14 DEF S
<1> QED
  BY <1>1, <1>2, <1>3, <1>7, <1>15

LEMMA CreditsMatch == RolloutInv => CreditsAgree
<1> SUFFICES ASSUME RolloutInv, ~SequenceRefused, NEW i \in DOMAIN buffer
             PROVE  Advantages(Rows, None, 1)[SequenceBatch.initial_state_indices[i]]
                      + SequenceBatch.step_values[SequenceBatch.initial_state_indices[i]]
                      = SequenceBatch.discounted_returns[i]
  BY DEF CreditsAgree
<1>1. /\ buffer \in Buffers /\ DOMAIN buffer = 1..Len(buffer) /\ Len(buffer) \in Nat
      /\ Lengths[i] \in Nat /\ Lengths[i] >= 1
      /\ \A j \in 1..Lengths[i] : buffer[i].steps[j].done <=> j = Lengths[i]
  BY Feedable
<1>2. i \in 1..Len(buffer) /\ i \in 1..(Len(buffer) + 1) /\ 1 \in 1..Lengths[i]
  BY <1>1
<1>3. Begins[i] = Offset(i)
  BY <1>2 DEF Begins
<1>4. PICK first : first = Begins[i] + 1
  OBVIOUS
<1>5. SequenceBatch.initial_state_indices[i] = first
  BY <1>3, <1>4 DEF SequenceBatch
<1>6. first \in 1..Len(Rows) /\ Rows[first] = buffer[i].steps[1]
  BY <1>1, <1>2, <1>4, RowIn
<1>7. SequenceBatch.step_values[first] = buffer[i].steps[1].value
  <2>1. DOMAIN Rows = 1..Len(Rows)
    BY <1>1, RowsLaid
  <2> QED
    BY <1>6, <2>1 DEF SequenceBatch
<1>8. SequenceBatch.discounted_returns[i] = DiscountedReturn(buffer[i].steps)
  BY DEF SequenceBatch
<1>9. Advantages(Rows, None, 1)[first] = Worth(Errors(i, None), 1, Lengths[i], 1)
  <2>1. None \in NextValues /\ 1 \in {1, 2}
    BY DEF NextValues
  <2> QED
    BY <1>2, <1>4, <2>1, AdvantagesAreOwn
<1>10. Worth(Errors(i, None), 1, Lengths[i], 1) + buffer[i].steps[1].value
         = Worth(Rewards(i), 1, Lengths[i], 1)
  BY <1>1, <1>2, ErrorsTelescope
<1>11. DiscountedReturn(buffer[i].steps) = Worth(Rewards(i), 1, Lengths[i], 1)
  BY <1>2, ReturnIsWorth
<1> QED
  BY <1>5, <1>7, <1>8, <1>9, <1>10, <1>11

\* Whatever the buffer holds, complete or cut short, with supplied bootstrap
\* values or without: the backward pass gives each step the advantage that it has
\* in its own trajectory by the definition of GAE; with lambda = 1 a complete
\* episode is worth to its first step what it is worth as a sequence; and shaping
\* earns nothing.
THEOREM CreditIsAlwaysRight == LearningSpec => []CreditIsRight
<1>1. RolloutInv /\ ShapingInv => CreditIsRight
  BY AdvantagesMatch, CreditsMatch, ShapingInvSuffices DEF CreditIsRight
<1> QED
  BY <1>1, RolloutInvariant, ShapingInvariant, PTL

=============================================================================
