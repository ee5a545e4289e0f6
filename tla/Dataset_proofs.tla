--------------------------- MODULE Dataset_proofs ---------------------------
(***************************************************************************)
(* Proofs about the samplers, for any strata, stocks and numbers of draws, *)
(* and any plans: rounds are fair and run dry no earlier than the stock,   *)
(* and the cycle of negatives meets the last position of every second task *)
(* when it is a safety negative's turn.                                    *)
(***************************************************************************)
EXTENDS Dataset, FiniteSetTheorems, TLAPS

\* The samplers' own copy of Cardinality.
LEMMA SameCardinality == \A S : Samples!Cardinality(S) = Cardinality(S)
  BY DEF Samples!Cardinality, Cardinality

-----------------------------------------------------------------------------
(* Rounds *)

\* Within a round every stratum has been served n times before, and once more if
\* it is no longer waiting; a stratum without stock has dropped out.
InRound(n) ==
    \A s \in SampledStrata :
      /\ s \in round => drawn[s] = n
      /\ s \notin round =>
           \/ drawn[s] = n + 1
           \/ sampler = "progress" /\ drawn[s] = stock[s] /\ drawn[s] <= n + 1

RoundsInv ==
    /\ stock \in [SampledStrata -> Nat] /\ drawn \in [SampledStrata -> Nat]
    /\ round \subseteq SampledStrata
    /\ sampler = "progress" => \A s \in SampledStrata : drawn[s] <= stock[s]
    /\ sampler = "progress" => \A s \in round : drawn[s] < stock[s]
    /\ \E n \in Int : InRound(n)

LEMMA RoundsInit == Samples!Init => RoundsInv
<1> SUFFICES ASSUME Samples!Init PROVE RoundsInv
  OBVIOUS
<1>1. MaxStock \in Nat
  BY SamplingAssumption
<1>2. /\ stock \in [SampledStrata -> Nat] /\ drawn \in [SampledStrata -> Nat]
      /\ round = {} /\ \A s \in SampledStrata : drawn[s] = 0
  BY <1>1 DEF Samples!Init
<1>3. InRound(-1)
  BY <1>2 DEF InRound
<1> QED
  BY <1>2, <1>3 DEF RoundsInv

LEMMA StartRoundKeeps == RoundsInv /\ Samples!StartRound => RoundsInv'
<1> SUFFICES ASSUME RoundsInv, Samples!StartRound PROVE RoundsInv'
  OBVIOUS
<1>1. PICK n \in Int : InRound(n)
  BY DEF RoundsInv
<1>2. /\ round = {} /\ round' = {s \in SampledStrata : sampler = "progress" => drawn[s] < stock[s]}
      /\ sampler' = sampler /\ stock' = stock /\ drawn' = drawn
  BY DEF Samples!StartRound, Samples!InStock
<1>3. \A s \in SampledStrata :
        /\ drawn[s] \in Nat /\ stock[s] \in Nat
        /\ sampler = "progress" => drawn[s] <= stock[s]
        /\ drawn[s] = n + 1 \/ (sampler = "progress" /\ drawn[s] = stock[s] /\ drawn[s] <= n + 1)
  BY <1>1, <1>2 DEF RoundsInv, InRound
<1>4. n + 1 \in Int /\ InRound(n + 1)'
  BY <1>1, <1>2, <1>3 DEF InRound
<1> QED
  BY <1>2, <1>4 DEF RoundsInv

LEMMA DrawKeeps == RoundsInv /\ Samples!Draw => RoundsInv'
<1> SUFFICES ASSUME RoundsInv, Samples!Draw PROVE RoundsInv'
  OBVIOUS
<1>1. PICK n \in Int : InRound(n)
  BY DEF RoundsInv
<1>2. PICK s \in round : drawn' = [drawn EXCEPT ![s] = @ + 1] /\ round' = round \ {s}
  BY DEF Samples!Draw, Samples!Served
<1>3. sampler' = sampler /\ stock' = stock
  BY DEF Samples!Draw
<1>4. /\ s \in SampledStrata /\ drawn[s] = n /\ drawn'[s] = n + 1
      /\ drawn \in [SampledStrata -> Nat] /\ drawn' \in [SampledStrata -> Nat]
      /\ \A u \in SampledStrata \ {s} : drawn'[u] = drawn[u]
  BY <1>1, <1>2 DEF RoundsInv, InRound
<1>5. InRound(n)'
  BY <1>1, <1>2, <1>3, <1>4 DEF InRound
<1>6. sampler = "progress" =>
        /\ \A u \in SampledStrata : drawn'[u] <= stock[u]
        /\ \A u \in round' : drawn'[u] < stock[u]
  BY <1>2, <1>4 DEF RoundsInv
<1> QED
  BY <1>2, <1>3, <1>4, <1>5, <1>6 DEF RoundsInv

LEMMA RoundsInvariant == Spec => []RoundsInv
<1>1. Init => RoundsInv
  BY RoundsInit DEF Init
<1>2. RoundsInv /\ [Next]_allVars => RoundsInv'
  <2>1. ASSUME RoundsInv, UNCHANGED <<sampler, stock, round, drawn>> PROVE RoundsInv'
    BY <2>1 DEF RoundsInv, InRound
  <2>2. ASSUME RoundsInv, Samples!SampleTask PROVE RoundsInv'
    BY <2>1, <2>2 DEF Samples!SampleTask, Samples!drawVars
  <2>3. [Next]_allVars => Samples!Next \/ UNCHANGED <<sampler, stock, round, drawn>>
    BY DEF Next, allVars, sampleVars
  <2> QED
    BY <2>1, <2>2, <2>3, StartRoundKeeps, DrawKeeps DEF Samples!Next
<1> QED
  BY <1>1, <1>2, PTL DEF Spec

\* The stock of finitely many strata can be counted.
LEMMA StockIsCountable ==
  ASSUME stock \in [SampledStrata -> Nat]
  PROVE  Samples!Available \in Nat
<1> DEFINE parts == {{s} \X (1..stock[s]) : s \in SampledStrata}
<1>1. \A s \in SampledStrata : IsFiniteSet({s} \X (1..stock[s]))
  <2>1. \A s \in SampledStrata : IsFiniteSet({s}) /\ IsFiniteSet(1..stock[s])
    BY FS_Singleton, FS_Interval
  <2> QED
    BY <2>1, FS_Product
<1>2. IsFiniteSet(parts)
  <2> DEFINE stocked(s) == {s} \X (1..stock[s])
             f == [s \in SampledStrata |-> stocked(s)]
  <2>1. f \in Surjection(SampledStrata, parts)
    BY DEF Surjection
  <2> HIDE DEF f, parts
  <2> QED
    BY <2>1, SamplingAssumption, FS_Surjection
<1>3. IsFiniteSet(UNION parts)
  BY <1>1, <1>2, FS_UNION
<1> QED
  BY <1>3, FS_CardinalityType, SameCardinality DEF Samples!Available, Samples!Counted

\* Rounds are fair in whichever order they are served, no task is drawn twice
\* before its stratum is used up, and drawing without replacement never runs out
\* of tasks early.
THEOREM RoundsAreFair == Spec => []EvenlyDrawn
<1>1. ASSUME RoundsInv PROVE EvenlyDrawn
  <2>1. PICK n \in Int : InRound(n)
    BY <1>1 DEF RoundsInv
  <2>2. \A s \in SampledStrata :
          /\ drawn[s] \in Nat /\ stock[s] \in Nat
          /\ drawn[s] = n \/ drawn[s] = n + 1
               \/ (sampler = "progress" /\ drawn[s] = stock[s] /\ drawn[s] <= n + 1)
    BY <1>1, <2>1 DEF RoundsInv, InRound
  <2>3. \A s, u \in SampledStrata :
          drawn[s] > drawn[u] + 1 => sampler = "progress" /\ drawn[u] = stock[u]
    BY <2>2
  <2>4. ASSUME sampler = "progress", \A s \in SampledStrata : ~Samples!InStock(s)
        PROVE  ~(Samples!Drawn < Samples!Limit)
    <3>1. \A s \in SampledStrata : drawn[s] = stock[s]
      BY <1>1, <2>2, <2>4 DEF RoundsInv, Samples!InStock
    <3>2. Samples!Drawn = Samples!Available
      <4>1. Samples!Counted(drawn) = Samples!Counted(stock)
        BY <3>1 DEF Samples!Counted
      <4> QED
        BY <4>1 DEF Samples!Drawn, Samples!Available
    <3>3. Samples!Available \in Nat
      BY <1>1, StockIsCountable DEF RoundsInv
    <3>4. ~(Samples!Available < Samples!Available)
      BY <3>3
    <3> QED
      BY <2>4, <3>2, <3>4 DEF Samples!Limit
  <2> QED
    BY <1>1, <2>3, <2>4 DEF EvenlyDrawn, Samples!EvenlyDrawn, RoundsInv
<1> QED
  BY <1>1, RoundsInvariant, PTL

-----------------------------------------------------------------------------
(* The cycle of negatives *)

\* The canonical configuration, and plans no shorter than the states taken of a
\* task (the generators make none below 6).
Canonical ==
    /\ StatesPerTask = 5 /\ NegativesPerState = 2
    /\ \A len \in PlanLengths : len >= 5

LEMMA RoundsToEven ==
  ASSUME NEW x \in Nat
  PROVE  /\ Samples!Rounded(4 * x, 4) = x
         /\ Samples!Rounded(4 * x + 1, 4) = x
         /\ Samples!Rounded(4 * x + 2, 4) \in {x, x + 1}
         /\ Samples!Rounded(4 * x + 3, 4) = x + 1
<1>1. /\ (4 * x) \div 4 = x /\ (4 * x) % 4 = 0
      /\ (4 * x + 1) \div 4 = x /\ (4 * x + 1) % 4 = 1
      /\ (4 * x + 2) \div 4 = x /\ (4 * x + 2) % 4 = 2
      /\ (4 * x + 3) \div 4 = x /\ (4 * x + 3) % 4 = 3
  OBVIOUS
<1>2. Samples!Rounded(4 * x, 4) = x
  BY <1>1 DEF Samples!Rounded
<1>3. Samples!Rounded(4 * x + 1, 4) = x
  BY <1>1 DEF Samples!Rounded
<1>4. Samples!Rounded(4 * x + 2, 4) \in {x, x + 1}
  BY <1>1 DEF Samples!Rounded
<1>5. Samples!Rounded(4 * x + 3, 4) = x + 1
  BY <1>1 DEF Samples!Rounded
<1> QED
  BY <1>2, <1>3, <1>4, <1>5

\* Rounding to the even keeps positions distinct that are one or more apart.
LEMMA QuartersAscend ==
  ASSUME NEW m \in Nat, m >= 4,
         NEW a, a = Samples!Rounded(m, 4), NEW b, b = Samples!Rounded(2 * m, 4),
         NEW c, c = Samples!Rounded(3 * m, 4)
  PROVE  /\ Samples!Rounded(0, 4) = 0 /\ Samples!Rounded(4 * m, 4) = m
         /\ a \in Int /\ b \in Int /\ c \in Int
         /\ 0 < a /\ a < b /\ b < c /\ c < m
<1>1. PICK q \in Nat : m = 4 * q \/ m = 4 * q + 1 \/ m = 4 * q + 2 \/ m = 4 * q + 3
  <2>1. m \div 4 \in Nat
    OBVIOUS
  <2>2. \/ m = 4 * (m \div 4) \/ m = 4 * (m \div 4) + 1
        \/ m = 4 * (m \div 4) + 2 \/ m = 4 * (m \div 4) + 3
    OBVIOUS
  <2> QED
    BY <2>1, <2>2
<1>2. q >= 1
  BY <1>1
<1>3. Samples!Rounded(0, 4) = 0 /\ Samples!Rounded(4 * m, 4) = m
  <2>1. 4 * 0 = 0 /\ 0 \in Nat
    OBVIOUS
  <2>2. Samples!Rounded(4 * 0, 4) = 0
    BY <2>1, RoundsToEven
  <2> QED
    BY <2>1, <2>2, RoundsToEven
<1>4. CASE m = 4 * q
  <2>1. 2 * m = 4 * (2 * q) /\ 3 * m = 4 * (3 * q) /\ 2 * q \in Nat /\ 3 * q \in Nat
    BY <1>4
  <2>2. a = q /\ b = 2 * q /\ c = 3 * q
    BY <1>4, <2>1, RoundsToEven
  <2> QED
    BY <1>2, <1>3, <1>4, <2>2
<1>5. CASE m = 4 * q + 1
  <2>1. /\ 2 * m = 4 * (2 * q) + 2 /\ 3 * m = 4 * (3 * q) + 3
        /\ 2 * q \in Nat /\ 3 * q \in Nat
    BY <1>5
  <2>2. a = q /\ b \in {2 * q, 2 * q + 1} /\ c = 3 * q + 1
    BY <1>5, <2>1, RoundsToEven
  <2> QED
    BY <1>2, <1>3, <1>5, <2>2
<1>6. CASE m = 4 * q + 2
  <2>1. /\ 2 * m = 4 * (2 * q + 1) /\ 3 * m = 4 * (3 * q + 1) + 2
        /\ 2 * q + 1 \in Nat /\ 3 * q + 1 \in Nat
    BY <1>6
  <2>2. a \in {q, q + 1} /\ b = 2 * q + 1 /\ c \in {3 * q + 1, (3 * q + 1) + 1}
    BY <1>6, <2>1, RoundsToEven
  <2> QED
    BY <1>2, <1>3, <1>6, <2>2
<1>7. CASE m = 4 * q + 3
  <2>1. /\ 2 * m = 4 * (2 * q + 1) + 2 /\ 3 * m = 4 * (3 * q + 2) + 1
        /\ 2 * q + 1 \in Nat /\ 3 * q + 2 \in Nat
    BY <1>7
  <2>2. a = q + 1 /\ b \in {2 * q + 1, (2 * q + 1) + 1} /\ c = 3 * q + 2
    BY <1>7, <2>1, RoundsToEven
  <2> QED
    BY <1>2, <1>3, <1>7, <2>2
<1> QED
  BY <1>1, <1>4, <1>5, <1>6, <1>7

\* The positions of a task ascend, and the last of them is the last operation.
LEMMA PositionsAscend ==
  ASSUME Canonical, NEW len \in PlanLengths, NEW p, p = Samples!Positions(len)
  PROVE  /\ p \in [0..4 -> Int]
         /\ p[0] < p[1] /\ p[1] < p[2] /\ p[2] < p[3] /\ p[3] < p[4]
         /\ p[4] = len - 1
<1>1. len - 1 \in Nat /\ len - 1 >= 4
  BY SamplingAssumption DEF Canonical
<1>2. p = [i \in 0..4 |-> Samples!Rounded(i * (len - 1), 4)]
  BY DEF Canonical, Samples!Positions
<1>3. PICK m \in Nat : m = len - 1 /\ m >= 4
  BY <1>1
<1>4. 0 * m = 0 /\ 1 * m = m
  OBVIOUS
<1>5. /\ p[0] = Samples!Rounded(0, 4) /\ p[1] = Samples!Rounded(m, 4)
      /\ p[2] = Samples!Rounded(2 * m, 4) /\ p[3] = Samples!Rounded(3 * m, 4)
      /\ p[4] = Samples!Rounded(4 * m, 4)
  BY <1>2, <1>3, <1>4
<1>6. /\ p[0] = 0 /\ p[4] = m /\ p[1] \in Int /\ p[2] \in Int /\ p[3] \in Int
      /\ 0 < p[1] /\ p[1] < p[2] /\ p[2] < p[3] /\ p[3] < m
  BY <1>3, <1>5, QuartersAscend
<1>7. p \in [0..4 -> Int]
  <2>1. \A i \in 0..4 : p[i] \in Int
    BY <1>3, <1>6
  <2> QED
    BY <1>2, <2>1
<1> QED
  BY <1>3, <1>6, <1>7

\* Ten negatives of a task: whose turn it is when an even, or an odd, number of
\* tasks have had theirs.
KindAt(c, i) == Samples!Kinds[((c + i) % 4) + 1]

OfKind(c, kind) == {i \in 0..9 : KindAt(c, i) = kind}

LEMMA KindsByTurn ==
  /\ Samples!Kinds[0 + 1] = "schema" /\ Samples!Kinds[1 + 1] = "grounding"
  /\ Samples!Kinds[2 + 1] = "precondition" /\ Samples!Kinds[3 + 1] = "safety"
  BY DEF Samples!Kinds

LEMMA TurnsOfEven ==
  ASSUME NEW h \in Nat, NEW c, c = 20 * h
  PROVE  /\ OfKind(c, "schema") = {0, 4, 8} /\ OfKind(c, "grounding") = {1, 5, 9}
         /\ OfKind(c, "precondition") = {2, 6} /\ OfKind(c, "safety") = {3, 7}
<1>1. \A i \in 0..9 : (c + i) % 4 = IF i \in {0, 4, 8} THEN 0 ELSE IF i \in {1, 5, 9} THEN 1
                                    ELSE IF i \in {2, 6} THEN 2 ELSE 3
  OBVIOUS
<1>2. \A i \in 0..9 :
        KindAt(c, i) = IF i \in {0, 4, 8} THEN "schema" ELSE IF i \in {1, 5, 9} THEN "grounding"
                       ELSE IF i \in {2, 6} THEN "precondition" ELSE "safety"
  BY <1>1, KindsByTurn DEF KindAt
<1> QED
  BY <1>2 DEF OfKind

LEMMA TurnsOfOdd ==
  ASSUME NEW h \in Nat, NEW c, c = 20 * h + 10
  PROVE  /\ OfKind(c, "schema") = {2, 6} /\ OfKind(c, "grounding") = {3, 7}
         /\ OfKind(c, "precondition") = {0, 4, 8} /\ OfKind(c, "safety") = {1, 5, 9}
<1>1. \A i \in 0..9 : (c + i) % 4 = IF i \in {2, 6} THEN 0 ELSE IF i \in {3, 7} THEN 1
                                    ELSE IF i \in {0, 4, 8} THEN 2 ELSE 3
  OBVIOUS
<1>2. \A i \in 0..9 :
        KindAt(c, i) = IF i \in {2, 6} THEN "schema" ELSE IF i \in {3, 7} THEN "grounding"
                       ELSE IF i \in {0, 4, 8} THEN "precondition" ELSE "safety"
  BY <1>1, KindsByTurn DEF KindAt
<1> QED
  BY <1>2 DEF OfKind

LEMMA PairHasTwo ==
  ASSUME NEW a, NEW b, a # b
  PROVE  IsFiniteSet({a, b}) /\ Cardinality({a, b}) = 2
<1>1. IsFiniteSet({a}) /\ Cardinality({a}) = 1
  BY FS_Singleton
<1>2. b \notin {a} /\ {a} \cup {b} = {a, b}
  OBVIOUS
<1> QED
  BY <1>1, <1>2, FS_AddElement

LEMMA TripleHasThree ==
  ASSUME NEW a, NEW b, NEW c, a # b, a # c, b # c
  PROVE  Cardinality({a, b, c}) = 3
<1>1. IsFiniteSet({a, b}) /\ Cardinality({a, b}) = 2
  BY PairHasTwo
<1>2. c \notin {a, b} /\ {a, b} \cup {c} = {a, b, c}
  OBVIOUS
<1> QED
  BY <1>1, <1>2, FS_AddElement

LEMMA SharesOfTen ==
  /\ Cardinality({0, 4, 8}) = 3 /\ Cardinality({1, 5, 9}) = 3
  /\ Cardinality({2, 6}) = 2 /\ Cardinality({3, 7}) = 2
  /\ Cardinality(0..9) = 10 /\ IsFiniteSet(0..4) /\ Cardinality(0..4) = 5
<1>1. 0 # 4 /\ 0 # 8 /\ 4 # 8 /\ 1 # 5 /\ 1 # 9 /\ 5 # 9 /\ 2 # 6 /\ 3 # 7
  OBVIOUS
<1>2. Cardinality({0, 4, 8}) = 3
  BY <1>1, TripleHasThree, Zenon
<1>3. Cardinality({1, 5, 9}) = 3
  BY <1>1, TripleHasThree, Zenon
<1>4. Cardinality({2, 6}) = 2 /\ Cardinality({3, 7}) = 2
  BY <1>1, PairHasTwo, Zenon
<1>5. 0 \in Int /\ 4 \in Int /\ 9 \in Int
  OBVIOUS
<1>6. Cardinality(0..9) = IF 0 > 9 THEN 0 ELSE 9 - 0 + 1
  BY <1>5, FS_Interval, Zenon
<1>7. IsFiniteSet(0..4) /\ Cardinality(0..4) = IF 0 > 4 THEN 0 ELSE 4 - 0 + 1
  BY <1>5, FS_Interval, Zenon
<1> QED
  BY <1>2, <1>3, <1>4, <1>6, <1>7

FourKinds == {"schema", "grounding", "precondition", "safety"}

LEMMA KindsAreFour ==
  /\ {"schema", "grounding", "precondition", "safety"} \subseteq FourKinds
  /\ \A k \in FourKinds : k = "schema" \/ k = "grounding" \/ k = "precondition" \/ k = "safety"
  BY DEF FourKinds

\* After an even number of tasks the kinds are level; after an odd one the first
\* two are one ahead.
ValidityInv ==
    /\ tasks \in Nat /\ cursor = 10 * tasks
    /\ challenges \in Nat
    /\ negatives \in [FourKinds -> Nat]
    /\ negatives["schema"] = negatives["grounding"]
    /\ negatives["precondition"] = negatives["safety"]
    /\ \/ tasks = 2 * challenges /\ negatives["schema"] = negatives["safety"]
       \/ tasks = 2 * challenges + 1 /\ negatives["schema"] = negatives["safety"] + 1

LEMMA ValidityInit == Samples!Init => ValidityInv
<1> SUFFICES ASSUME Samples!Init PROVE ValidityInv
  OBVIOUS
<1>1. Samples!ToSet(Samples!Kinds) = FourKinds
  BY DEF Samples!ToSet, Samples!Kinds, FourKinds
<1> QED
  BY <1>1 DEF Samples!Init, ValidityInv, FourKinds

LEMMA SampleTaskKeeps == Canonical /\ ValidityInv /\ Samples!SampleTask => ValidityInv'
<1> SUFFICES ASSUME Canonical, ValidityInv, Samples!SampleTask PROVE ValidityInv'
  OBVIOUS
<1> DEFINE slots == 0..(StatesPerTask * NegativesPerState - 1)
<1>1. PICK len \in PlanLengths :
        /\ negatives' = [k \in DOMAIN negatives |->
             negatives[k] + Samples!Cardinality({i \in slots : Samples!Negative(i, len).kind = k})]
        /\ challenges' = challenges
             + Samples!Cardinality({i \in slots : Samples!IsChallenge(Samples!Negative(i, len), len)})
        /\ cursor' = cursor + Samples!Cardinality(slots)
  BY Zenon DEF Samples!SampleTask
<1>2. slots = 0..9
  BY DEF Canonical
<1>3. \A i : Samples!Negative(i, len).kind = KindAt(cursor, i)
  BY DEF Samples!Negative, KindAt
<1>4. \A k : {i \in slots : Samples!Negative(i, len).kind = k} = OfKind(cursor, k)
  BY <1>2, <1>3 DEF OfKind
<1>5. Cardinality(slots) = 10
  BY <1>2, SharesOfTen
<1>6. cursor' = cursor + 10 /\ tasks' = tasks + 1
  BY <1>1, <1>5, SameCardinality DEF Samples!SampleTask
<1>7. negatives' = [k \in FourKinds |-> negatives[k] + Cardinality(OfKind(cursor, k))]
  BY <1>1, <1>4, SameCardinality DEF ValidityInv
<1>8. /\ DOMAIN negatives' = FourKinds
      /\ \A k \in FourKinds :
           /\ negatives'[k] = negatives[k] + Cardinality(OfKind(cursor, k))
           /\ negatives[k] \in Nat
  BY <1>7 DEF ValidityInv
<1>9. {i \in slots : Samples!IsChallenge(Samples!Negative(i, len), len)}
        = {i \in OfKind(cursor, "safety") : i \in {8, 9}}
  <2>1. PICK p : p = Samples!Positions(len)
    OBVIOUS
  <2>2. /\ p \in [0..4 -> Int] /\ p[0] < p[1] /\ p[1] < p[2] /\ p[2] < p[3] /\ p[3] < p[4]
        /\ p[4] = len - 1
    BY <2>1, PositionsAscend
  <2>3. \A i : Samples!Negative(i, len).position = p[i \div 2]
    BY <2>1 DEF Samples!Negative, Canonical
  <2>4. \A i \in 0..9 : i \div 2 \in 0..4 /\ (i \div 2 = 4 <=> i \in {8, 9})
    OBVIOUS
  <2>5. \A j \in 0..4 : p[j] = len - 1 <=> j = 4
    BY <2>2
  <2>6. \A i \in 0..9 : p[i \div 2] = len - 1 <=> i \in {8, 9}
    BY <2>4, <2>5
  <2> QED
    BY <1>2, <1>3, <2>3, <2>6 DEF Samples!IsChallenge, OfKind
<1>10. challenges' = challenges + Cardinality({i \in OfKind(cursor, "safety") : i \in {8, 9}})
  BY <1>1, <1>9, SameCardinality
<1>11. CASE tasks = 2 * challenges
  <2>1. cursor = 20 * challenges /\ challenges \in Nat
    BY <1>11 DEF ValidityInv
  <2>2. /\ OfKind(cursor, "schema") = {0, 4, 8} /\ OfKind(cursor, "grounding") = {1, 5, 9}
        /\ OfKind(cursor, "precondition") = {2, 6} /\ OfKind(cursor, "safety") = {3, 7}
    BY <2>1, TurnsOfEven
  <2>3. /\ Cardinality({0, 4, 8}) = 3 /\ Cardinality({1, 5, 9}) = 3
        /\ Cardinality({2, 6}) = 2 /\ Cardinality({3, 7}) = 2
    BY SharesOfTen
  <2>4. challenges' = challenges
    <3>1. {i \in OfKind(cursor, "safety") : i \in {8, 9}} = {}
      BY <2>2
    <3> QED
      BY <1>10, <3>1, FS_EmptySet DEF ValidityInv
  <2>5. /\ negatives'["schema"] = negatives["schema"] + 3
        /\ negatives'["grounding"] = negatives["grounding"] + 3
        /\ negatives'["precondition"] = negatives["precondition"] + 2
        /\ negatives'["safety"] = negatives["safety"] + 2
    BY <1>8, <2>2, <2>3, KindsAreFour
  <2>6. negatives' \in [FourKinds -> Nat]
    <3>1. \A k \in FourKinds : negatives'[k] \in Nat
      BY <1>8, <2>5, KindsAreFour
    <3> QED
      BY <1>7, <3>1
  <2>7. /\ tasks' \in Nat /\ cursor' = 10 * tasks' /\ challenges' \in Nat
        /\ tasks' = 2 * challenges' + 1
    BY <1>6, <1>11, <2>4 DEF ValidityInv
  <2>8. /\ negatives["schema"] = negatives["grounding"]
        /\ negatives["precondition"] = negatives["safety"]
        /\ negatives["schema"] = negatives["safety"]
        /\ negatives["safety"] \in Nat
    BY <1>11, KindsAreFour DEF ValidityInv
  <2>9. /\ negatives'["schema"] = negatives'["grounding"]
        /\ negatives'["precondition"] = negatives'["safety"]
        /\ negatives'["schema"] = negatives'["safety"] + 1
    BY <2>5, <2>8
  <2> QED
    BY <2>6, <2>7, <2>9 DEF ValidityInv
<1>12. CASE tasks = 2 * challenges + 1
  <2>1. cursor = 20 * challenges + 10 /\ challenges \in Nat
    BY <1>12 DEF ValidityInv
  <2>2. /\ OfKind(cursor, "schema") = {2, 6} /\ OfKind(cursor, "grounding") = {3, 7}
        /\ OfKind(cursor, "precondition") = {0, 4, 8} /\ OfKind(cursor, "safety") = {1, 5, 9}
    BY <2>1, TurnsOfOdd
  <2>3. /\ Cardinality({0, 4, 8}) = 3 /\ Cardinality({1, 5, 9}) = 3
        /\ Cardinality({2, 6}) = 2 /\ Cardinality({3, 7}) = 2
    BY SharesOfTen
  <2>4. challenges' = challenges + 1
    <3>1. {i \in OfKind(cursor, "safety") : i \in {8, 9}} = {9}
      BY <2>2
    <3> QED
      BY <1>10, <3>1, FS_Singleton
  <2>5. /\ negatives'["schema"] = negatives["schema"] + 2
        /\ negatives'["grounding"] = negatives["grounding"] + 2
        /\ negatives'["precondition"] = negatives["precondition"] + 3
        /\ negatives'["safety"] = negatives["safety"] + 3
    BY <1>8, <2>2, <2>3, KindsAreFour
  <2>6. negatives' \in [FourKinds -> Nat]
    <3>1. \A k \in FourKinds : negatives'[k] \in Nat
      BY <1>8, <2>5, KindsAreFour
    <3> QED
      BY <1>7, <3>1
  <2>7. /\ tasks' \in Nat /\ cursor' = 10 * tasks' /\ challenges' \in Nat
        /\ tasks' = 2 * challenges'
    BY <1>6, <1>12, <2>4 DEF ValidityInv
  <2>8. /\ negatives["schema"] = negatives["grounding"]
        /\ negatives["precondition"] = negatives["safety"]
        /\ negatives["schema"] = negatives["safety"] + 1
        /\ negatives["safety"] \in Nat
    BY <1>12, KindsAreFour DEF ValidityInv
  <2>9. /\ negatives'["schema"] = negatives'["grounding"]
        /\ negatives'["precondition"] = negatives'["safety"]
        /\ negatives'["schema"] = negatives'["safety"]
    BY <2>5, <2>8
  <2> QED
    BY <2>6, <2>7, <2>9 DEF ValidityInv
<1> QED
  BY <1>11, <1>12 DEF ValidityInv

LEMMA ValidityInvariant == ASSUME Canonical PROVE Spec => []ValidityInv
<1>1. Init => ValidityInv
  BY ValidityInit DEF Init
<1>2. ValidityInv /\ [Next]_allVars => ValidityInv'
  <2>1. ASSUME ValidityInv, UNCHANGED <<tasks, cursor, negatives, challenges>>
        PROVE  ValidityInv'
    BY <2>1 DEF ValidityInv
  <2>2. [Next]_allVars =>
          Samples!SampleTask \/ UNCHANGED <<tasks, cursor, negatives, challenges>>
    BY DEF Next, allVars, sampleVars, Samples!Next, Samples!StartRound, Samples!Draw,
      Samples!validityVars
  <2> QED
    BY <2>1, <2>2, SampleTaskKeeps
<1> QED
  BY <1>1, <1>2, PTL DEF Spec

\* With five states of two negatives each, whatever the lengths of the plans, kinds
\* stay balanced, a task's states are distinct and include the last, and every
\* second task ends with a hidden ledger collision.
THEOREM EverySecondChallenged ==
  ASSUME Canonical
  PROVE  Spec => []EverySecondTaskChallenged
<1>1. ASSUME ValidityInv PROVE EverySecondTaskChallenged
  <2>1. PICK odd \in {0, 1} : tasks = 2 * challenges + odd /\ challenges \in Nat
    BY <1>1 DEF ValidityInv
  <2>2. challenges = tasks \div 2 /\ tasks % 2 = odd
    BY <2>1
  <2>3. ASSUME NEW j \in DOMAIN negatives, NEW k \in DOMAIN negatives
        PROVE  negatives[j] <= negatives[k] + (tasks % 2)
    <3>1. j \in FourKinds /\ k \in FourKinds
      BY <1>1 DEF ValidityInv
    <3>2. /\ negatives["schema"] = negatives["grounding"]
          /\ negatives["precondition"] = negatives["safety"]
          /\ negatives["schema"] = negatives["safety"] + odd
          /\ negatives["safety"] \in Nat
      BY <1>1, <2>1 DEF ValidityInv, FourKinds
    <3>3. \A kind \in FourKinds :
            negatives[kind] = negatives["safety"] \/ negatives[kind] = negatives["safety"] + odd
      BY <3>2 DEF FourKinds
    <3> QED
      BY <2>1, <2>2, <3>1, <3>2, <3>3
  <2>4. ASSUME NEW len \in PlanLengths
        PROVE  Cardinality({Samples!Positions(len)[i] : i \in DOMAIN Samples!Positions(len)}) = 5
    <3>1. PICK p : p = Samples!Positions(len)
      OBVIOUS
    <3>2. p \in [0..4 -> Int] /\ p[0] < p[1] /\ p[1] < p[2] /\ p[2] < p[3] /\ p[3] < p[4]
      BY <3>1, PositionsAscend
    <3> DEFINE image == {p[i] : i \in DOMAIN p}
    <3>3. p \in Surjection(0..4, image)
      BY <3>2 DEF Surjection
    <3>4. p \in Injection(0..4, image)
      <4>1. \A i, j \in 0..4 : p[i] = p[j] => i = j
        BY <3>2
      <4>2. p \in [0..4 -> image]
        BY <3>2
      <4> HIDE DEF image
      <4> QED
        BY <4>1, <4>2 DEF Injection, IsInjective
    <3>5. IsFiniteSet(0..4) /\ Cardinality(0..4) = 5
      BY SharesOfTen
    <3> HIDE DEF image
    <3>6. Cardinality(image) = Cardinality(0..4)
      BY <3>3, <3>4, <3>5, FS_Surjection
    <3> QED
      BY <3>1, <3>5, <3>6 DEF image
  <2> QED
    BY <2>2, <2>3, <2>4, SameCardinality
    DEF Canonical, EverySecondTaskChallenged, Samples!EverySecondTaskChallenged
<1> QED
  BY <1>1, ValidityInvariant, PTL

=============================================================================
