------------------------- MODULE Publication_proofs --------------------------
(***************************************************************************)
(* Proofs about Publication, for any number of publishers, generations,    *)
(* names of temporary files and starts.                                    *)
(*                                                                         *)
(* The argument: all publishers that run at a time publish one generation, *)
(* so a file that one of them has put in place is whole and every other    *)
(* one replaces it by the same.  An old verdict is gone before the first   *)
(* of its files is replaced.                                               *)
(***************************************************************************)
EXTENDS Publication, SequenceTheorems, TLAPS

-----------------------------------------------------------------------------
(* The inductive invariant *)

Jobs == {"prepare", "accept", "audit"}

\* Files whose content is determined by the generation.
Data == Files \ {"verification"}

Steps == Data \cup {"in_progress", "pending", "passed", "check"}

TypeOK ==
    /\ job \in Jobs
    /\ DOMAIN files = Files
    /\ pc \in [Publishers -> {"idle", "next", "written", "replaced", "done", "failed"}]
    /\ gen \in [Publishers -> Generations \cup {None}]
    /\ at \in [Publishers -> Nat \ {0}]
    /\ temporary \in [Publishers -> Names \cup {None}]
    /\ DOMAIN seen = Publishers
    /\ \A p \in Publishers : DOMAIN seen[p] = Files
    /\ \A t \in temps : t.name \in Names

\* What a publisher has to write, whatever it has read.
Expected(p) ==
    IF Step(p) \in Data
    THEN Whole(gen[p])[Step(p)]
    ELSE [gen |-> gen[p], passed |-> Step(p) = "passed",
          of |-> [f \in Covers(Step(p)) |-> Whole(gen[p])[f]]]

\* A name is taken once per file.
NamesDiffer == \A t, u \in temps : t.file = u.file /\ t.name = u.name => t = u

OneGeneration == \A p, q \in Publishers : Running(p) /\ Running(q) => gen[p] = gen[q]

InProgram(p) == Running(p) => at[p] \in 1..Len(Program(job))

\* What p has been through is in place, and is what p has seen.
PublishedSoFar(p) ==
    Running(p) =>
      \A i \in 1..Len(Program(job)) :
        i < at[p] /\ Program(job)[i] \in Data =>
          LET f == Program(job)[i] IN
          files[f] = Whole(gen[p])[f] /\ seen[p][f] = Whole(gen[p])[f]

WrittenKept(p) ==
    pc[p] = "written" =>
      /\ Step(p) # "check"
      /\ \E t \in temps : /\ t.file = Target(Step(p)) /\ t.name = temporary[p]
                          /\ t.owner = p /\ t.content = Expected(p)

ReplacedKept(p) ==
    pc[p] = "replaced" =>
      /\ Step(p) # "check"
      /\ temporary[p] = None
      /\ Step(p) \in Data => files[Step(p)] = Whole(gen[p])[Step(p)]

Passed == files["verification"] # None /\ files["verification"].passed

\* A verdict that is there after the first step is of this generation.
Marked(p) ==
    /\ Running(p) /\ job # "prepare" /\ (at[p] # 1 \/ pc[p] = "replaced")
    /\ Passed
    => files["verification"].gen = gen[p]

\* A verdict is next to the whole generation that it is about.
VerdictKept ==
    Passed =>
      LET v == files["verification"] IN
      /\ job # "prepare"
      /\ HasWhole(Product(job), v.gen)
      /\ v.of = [f \in Covers("passed") |-> Whole(v.gen)[f]]

Local(p) ==
    InProgram(p) /\ PublishedSoFar(p) /\ WrittenKept(p) /\ ReplacedKept(p) /\ Marked(p)

Inv ==
    /\ TypeOK /\ NamesDiffer /\ OneGeneration
    /\ \A p \in Publishers : Local(p)
    /\ VerdictKept

-----------------------------------------------------------------------------
(* The programs *)

LEMMA FileNames ==
  /\ Data = {"train", "test", "manifest", "actions", "actions.manifest", "traces", "report"}
  /\ Files = Data \cup {"verification"}
  /\ "verification" \notin Data
<1>1. ToSet(Prepared) = {"train", "test", "manifest", "actions", "actions.manifest"}
  BY DEF ToSet, Prepared
<1>2. ToSet(Accepted) = {"train", "test", "manifest", "traces", "report"}
  BY DEF ToSet, Accepted
<1> QED
  BY <1>1, <1>2 DEF Files, Data

\* A file that records no hashes is its generation and nothing else; there
\* are two levels of hashes and no more.
LEMMA WholeFile ==
  ASSUME NEW g, NEW f \in Data
  PROVE  /\ Whole(g)[f] = [gen |-> g, passed |-> FALSE,
                           of |-> [d \in Covers(f) |-> Whole(g)[d]]]
         /\ Covers(f) \subseteq Data
         /\ \A d \in Covers(f) : Covers(d) = {}
<1> DEFINE data == [gen |-> g, passed |-> FALSE, of |-> <<>>]
<1>1. /\ Covers(f) \in {{"train", "test"}, {"actions"}, {"traces"}, {}}
      /\ Covers(f) \subseteq Data /\ \A d \in Covers(f) : Covers(d) = {}
  BY FileNames DEF Covers
<1>2. \A d \in Data : Whole(g)[d] = [gen |-> g, passed |-> FALSE, of |-> [e \in Covers(d) |-> data]]
  BY DEF Whole, Data
<1>3. \A d \in Covers(f) : Whole(g)[d] = data
  <2> SUFFICES ASSUME NEW d \in Covers(f)
               PROVE  Whole(g)[d] = data
    OBVIOUS
  <2>1. [e \in {} |-> data] = <<>>
    OBVIOUS
  <2>2. Covers(d) = {} /\ d \in Data
    BY <1>1
  <2>3. Whole(g)[d] = [gen |-> g, passed |-> FALSE, of |-> [e \in Covers(d) |-> data]]
    BY <1>2, <2>2
  <2>4. [e \in Covers(d) |-> data] = <<>>
    BY <2>1, <2>2
  <2> QED
    BY <2>3, <2>4
<1>4. [d \in Covers(f) |-> data] = [d \in Covers(f) |-> Whole(g)[d]]
  BY <1>3
<1> QED
  BY <1>1, <1>2, <1>4

\* f is written before the i-th step.
Before(f, i) == \E k \in 1..Len(Program(job)) : k < i /\ Program(job)[k] = f

\* What the programs have in common.
LEMMA Programs ==
  ASSUME job \in Jobs
  PROVE  /\ Len(Program(job)) \in Nat /\ Len(Program(job)) > 0
         /\ \A i \in 1..Len(Program(job)) : Program(job)[i] \in Steps
         /\ Program(job)[Len(Program(job))] # "check"
         /\ job # "prepare" => Program(job)[1] = "in_progress"
         /\ job = "prepare" => \A i \in 1..Len(Program(job)) : Program(job)[i] \in Data
         /\ \A i \in 1..Len(Program(job)) : \A f \in Covers(Program(job)[i]) : f \in Data /\ Before(f, i)
         /\ \A i \in 1..Len(Program(job)) :
              Program(job)[i] = "passed" => \A f \in Product(job) : Before(f, i)
         /\ \A f \in Product(job) : f \in Data /\ Before(f, Len(Program(job)) + 1)

<1>1. CASE job = "prepare"
  <2>1. /\ Len(Program(job)) = 5
        /\ Program(job)[1] = "train" /\ Program(job)[2] = "test"
        /\ Program(job)[3] = "manifest" /\ Program(job)[4] = "actions"
        /\ Program(job)[5] = "actions.manifest"
    BY <1>1 DEF Program, Prepared
  <2>2. \A i \in 1..5 : i = 1 \/ i = 2 \/ i = 3 \/ i = 4 \/ i = 5
    OBVIOUS
  <2>3. Product(job) = {"train", "test", "manifest", "actions", "actions.manifest"}
    BY <1>1 DEF Product, Prepared, ToSet
  <2>4. /\ Covers("train") = {} /\ Covers("test") = {}
        /\ Covers("manifest") = {"train", "test"} /\ Covers("actions") = {}
        /\ Covers("actions.manifest") = {"actions"}
    BY <1>1 DEF Covers
  <2>5. /\ \A i \in 2..6 : Before("train", i)
        /\ \A i \in 3..6 : Before("test", i)
        /\ \A i \in 4..6 : Before("manifest", i)
        /\ \A i \in 5..6 : Before("actions", i)
        /\ \A i \in 6..6 : Before("actions.manifest", i)
    <3>1. ASSUME NEW i \in 2..6 PROVE Before("train", i)
      <4>1. 1 \in 1..Len(Program(job)) /\ 1 < i /\ Program(job)[1] = "train"
        BY <2>1
      <4> QED
        BY <4>1 DEF Before
    <3>2. ASSUME NEW i \in 3..6 PROVE Before("test", i)
      <4>1. 2 \in 1..Len(Program(job)) /\ 2 < i /\ Program(job)[2] = "test"
        BY <2>1
      <4> QED
        BY <4>1 DEF Before
    <3>3. ASSUME NEW i \in 4..6 PROVE Before("manifest", i)
      <4>1. 3 \in 1..Len(Program(job)) /\ 3 < i /\ Program(job)[3] = "manifest"
        BY <2>1
      <4> QED
        BY <4>1 DEF Before
    <3>4. ASSUME NEW i \in 5..6 PROVE Before("actions", i)
      <4>1. 4 \in 1..Len(Program(job)) /\ 4 < i /\ Program(job)[4] = "actions"
        BY <2>1
      <4> QED
        BY <4>1 DEF Before
    <3>5. ASSUME NEW i \in 6..6 PROVE Before("actions.manifest", i)
      <4>1. 5 \in 1..Len(Program(job)) /\ 5 < i /\ Program(job)[5] = "actions.manifest"
        BY <2>1
      <4> QED
        BY <4>1 DEF Before
    <3> QED
      BY <3>1, <3>2, <3>3, <3>4, <3>5
  <2>6. /\ \A i \in 1..5 : Program(job)[i] \in Steps
        /\ Program(job)[5] # "check"
        /\ job # "prepare" => Program(job)[1] = "in_progress"
        /\ job = "prepare" => \A i \in 1..5 : Program(job)[i] \in Data
    BY <1>1, <2>1, <2>2, FileNames DEF Steps
  <2>7. \A i \in 1..5 : \A f \in Covers(Program(job)[i]) : f \in Data /\ Before(f, i)
    <3>1. /\ Covers(Program(job)[1]) = {}
          /\ Covers(Program(job)[2]) = {}
          /\ Covers(Program(job)[3]) = {"train", "test"}
          /\ Covers(Program(job)[4]) = {}
          /\ Covers(Program(job)[5]) = {"actions"}
      BY <2>1, <2>4
    <3>2. /\ \A f \in {"train", "test"} : f \in Data /\ Before(f, 3)
          /\ \A f \in {"actions"} : f \in Data /\ Before(f, 5)
      BY <2>5, FileNames
    <3> QED
      BY <2>2, <3>1, <3>2
  <2>8. \A i \in 1..5 : Program(job)[i] = "passed" => \A f \in Product(job) : Before(f, i)
    BY <2>1, <2>2
  <2>9. \A f \in Product(job) : f \in Data /\ Before(f, 5 + 1)
    BY <2>3, <2>5, FileNames
  <2>10. Len(Program(job)) = 5 /\ 5 \in Nat /\ 5 > 0
    BY <2>1
  <2> QED
    BY <2>6, <2>7, <2>8, <2>9, <2>10
<1>2. CASE job = "accept"
  <2>1. /\ Len(Program(job)) = 9
        /\ Program(job)[1] = "in_progress" /\ Program(job)[2] = "train"
        /\ Program(job)[3] = "test" /\ Program(job)[4] = "manifest"
        /\ Program(job)[5] = "check" /\ Program(job)[6] = "traces"
        /\ Program(job)[7] = "report" /\ Program(job)[8] = "check"
        /\ Program(job)[9] = "passed"
    BY <1>2 DEF Program
  <2>2. \A i \in 1..9 : i = 1 \/ i = 2 \/ i = 3 \/ i = 4 \/ i = 5 \/ i = 6 \/ i = 7 \/ i = 8 \/ i = 9
    OBVIOUS
  <2>3. Product(job) = {"train", "test", "manifest", "traces", "report"}
    BY <1>2 DEF Product, Accepted, ToSet
  <2>4. /\ Covers("in_progress") = {} /\ Covers("train") = {}
        /\ Covers("test") = {} /\ Covers("manifest") = {"train", "test"}
        /\ Covers("check") = {} /\ Covers("traces") = {}
        /\ Covers("report") = {"traces"} /\ Covers("passed") = {"manifest", "report"}
    BY <1>2 DEF Covers
  <2>5. /\ \A i \in 3..10 : Before("train", i)
        /\ \A i \in 4..10 : Before("test", i)
        /\ \A i \in 5..10 : Before("manifest", i)
        /\ \A i \in 7..10 : Before("traces", i)
        /\ \A i \in 8..10 : Before("report", i)
    <3>1. ASSUME NEW i \in 3..10 PROVE Before("train", i)
      <4>1. 2 \in 1..Len(Program(job)) /\ 2 < i /\ Program(job)[2] = "train"
        BY <2>1
      <4> QED
        BY <4>1 DEF Before
    <3>2. ASSUME NEW i \in 4..10 PROVE Before("test", i)
      <4>1. 3 \in 1..Len(Program(job)) /\ 3 < i /\ Program(job)[3] = "test"
        BY <2>1
      <4> QED
        BY <4>1 DEF Before
    <3>3. ASSUME NEW i \in 5..10 PROVE Before("manifest", i)
      <4>1. 4 \in 1..Len(Program(job)) /\ 4 < i /\ Program(job)[4] = "manifest"
        BY <2>1
      <4> QED
        BY <4>1 DEF Before
    <3>4. ASSUME NEW i \in 7..10 PROVE Before("traces", i)
      <4>1. 6 \in 1..Len(Program(job)) /\ 6 < i /\ Program(job)[6] = "traces"
        BY <2>1
      <4> QED
        BY <4>1 DEF Before
    <3>5. ASSUME NEW i \in 8..10 PROVE Before("report", i)
      <4>1. 7 \in 1..Len(Program(job)) /\ 7 < i /\ Program(job)[7] = "report"
        BY <2>1
      <4> QED
        BY <4>1 DEF Before
    <3> QED
      BY <3>1, <3>2, <3>3, <3>4, <3>5
  <2>6. /\ \A i \in 1..9 : Program(job)[i] \in Steps
        /\ Program(job)[9] # "check"
        /\ job # "prepare" => Program(job)[1] = "in_progress"
        /\ job = "prepare" => \A i \in 1..9 : Program(job)[i] \in Data
    BY <1>2, <2>1, <2>2, FileNames DEF Steps
  <2>7. \A i \in 1..9 : \A f \in Covers(Program(job)[i]) : f \in Data /\ Before(f, i)
    <3>1. /\ Covers(Program(job)[1]) = {}
          /\ Covers(Program(job)[2]) = {}
          /\ Covers(Program(job)[3]) = {}
          /\ Covers(Program(job)[4]) = {"train", "test"}
          /\ Covers(Program(job)[5]) = {}
          /\ Covers(Program(job)[6]) = {}
          /\ Covers(Program(job)[7]) = {"traces"}
          /\ Covers(Program(job)[8]) = {}
          /\ Covers(Program(job)[9]) = {"manifest", "report"}
      BY <2>1, <2>4
    <3>2. /\ \A f \in {"train", "test"} : f \in Data /\ Before(f, 4)
          /\ \A f \in {"traces"} : f \in Data /\ Before(f, 7)
          /\ \A f \in {"manifest", "report"} : f \in Data /\ Before(f, 9)
      BY <2>5, FileNames
    <3> QED
      BY <2>2, <3>1, <3>2
  <2>8. \A i \in 1..9 : Program(job)[i] = "passed" => \A f \in Product(job) : Before(f, i)
    <3>1. \A i \in 1..9 : Program(job)[i] = "passed" => i = 9
      BY <2>1, <2>2
    <3>2. \A f \in Product(job) : Before(f, 9)
      BY <2>3, <2>5
    <3> QED
      BY <3>1, <3>2
  <2>9. \A f \in Product(job) : f \in Data /\ Before(f, 9 + 1)
    BY <2>3, <2>5, FileNames
  <2>10. Len(Program(job)) = 9 /\ 9 \in Nat /\ 9 > 0
    BY <2>1
  <2> QED
    BY <2>6, <2>7, <2>8, <2>9, <2>10
<1>3. CASE job = "audit"
  <2>1. /\ Len(Program(job)) = 8
        /\ Program(job)[1] = "in_progress" /\ Program(job)[2] = "traces"
        /\ Program(job)[3] = "check" /\ Program(job)[4] = "report"
        /\ Program(job)[5] = "pending" /\ Program(job)[6] = "in_progress"
        /\ Program(job)[7] = "check" /\ Program(job)[8] = "passed"
    BY <1>3 DEF Program
  <2>2. \A i \in 1..8 : i = 1 \/ i = 2 \/ i = 3 \/ i = 4 \/ i = 5 \/ i = 6 \/ i = 7 \/ i = 8
    OBVIOUS
  <2>3. Product(job) = {"traces", "report"}
    BY <1>3 DEF Product, Audited, ToSet
  <2>4. /\ Covers("in_progress") = {} /\ Covers("traces") = {}
        /\ Covers("check") = {} /\ Covers("report") = {"traces"}
        /\ Covers("pending") = {"traces", "report"} /\ Covers("passed") = {"traces", "report"}
    BY <1>3 DEF Covers
  <2>5. /\ \A i \in 3..9 : Before("traces", i)
        /\ \A i \in 5..9 : Before("report", i)
    <3>1. ASSUME NEW i \in 3..9 PROVE Before("traces", i)
      <4>1. 2 \in 1..Len(Program(job)) /\ 2 < i /\ Program(job)[2] = "traces"
        BY <2>1
      <4> QED
        BY <4>1 DEF Before
    <3>2. ASSUME NEW i \in 5..9 PROVE Before("report", i)
      <4>1. 4 \in 1..Len(Program(job)) /\ 4 < i /\ Program(job)[4] = "report"
        BY <2>1
      <4> QED
        BY <4>1 DEF Before
    <3> QED
      BY <3>1, <3>2
  <2>6. /\ \A i \in 1..8 : Program(job)[i] \in Steps
        /\ Program(job)[8] # "check"
        /\ job # "prepare" => Program(job)[1] = "in_progress"
        /\ job = "prepare" => \A i \in 1..8 : Program(job)[i] \in Data
    BY <1>3, <2>1, <2>2, FileNames DEF Steps
  <2>7. \A i \in 1..8 : \A f \in Covers(Program(job)[i]) : f \in Data /\ Before(f, i)
    <3>1. /\ Covers(Program(job)[1]) = {}
          /\ Covers(Program(job)[2]) = {}
          /\ Covers(Program(job)[3]) = {}
          /\ Covers(Program(job)[4]) = {"traces"}
          /\ Covers(Program(job)[5]) = {"traces", "report"}
          /\ Covers(Program(job)[6]) = {}
          /\ Covers(Program(job)[7]) = {}
          /\ Covers(Program(job)[8]) = {"traces", "report"}
      BY <2>1, <2>4
    <3>2. /\ \A f \in {"traces"} : f \in Data /\ Before(f, 4)
          /\ \A f \in {"traces", "report"} : f \in Data /\ Before(f, 5)
          /\ \A f \in {"traces", "report"} : f \in Data /\ Before(f, 8)
      BY <2>5, FileNames
    <3> QED
      BY <2>2, <3>1, <3>2
  <2>8. \A i \in 1..8 : Program(job)[i] = "passed" => \A f \in Product(job) : Before(f, i)
    <3>1. \A i \in 1..8 : Program(job)[i] = "passed" => i = 8
      BY <2>1, <2>2
    <3>2. \A f \in Product(job) : Before(f, 8)
      BY <2>3, <2>5
    <3> QED
      BY <3>1, <3>2
  <2>9. \A f \in Product(job) : f \in Data /\ Before(f, 8 + 1)
    BY <2>3, <2>5, FileNames
  <2>10. Len(Program(job)) = 8 /\ 8 \in Nat /\ 8 > 0
    BY <2>1
  <2> QED
    BY <2>6, <2>7, <2>8, <2>9, <2>10
<1> QED
  BY <1>1, <1>2, <1>3 DEF Jobs

\* Where a step writes, if it writes at all.
LEMMA Targets ==
  ASSUME NEW s \in Steps, s # "check"
  PROVE  /\ Target(s) \in Files
         /\ s \in Data => Target(s) = s
         /\ s \notin Data => Target(s) = "verification"
BY FileNames DEF Steps, Target

-----------------------------------------------------------------------------
(* What a publisher writes *)

\* What p has read is what it expects: the files it covers are in place.
LEMMA WritesExpected ==
  ASSUME Inv, NEW p \in Publishers, Running(p), Step(p) # "check"
  PROVE  /\ Content(p) = Expected(p)
         /\ Expected(p).gen = gen[p]
         /\ Expected(p).passed = (Step(p) = "passed")
<1>1. /\ job \in Jobs /\ at[p] \in 1..Len(Program(job)) /\ Step(p) = Program(job)[at[p]]
      /\ Len(Program(job)) \in Nat
  BY Programs DEF Inv, TypeOK, Local, InProgram, Step
<1>2. Step(p) \in Steps
  BY <1>1, Programs
<1>3. ASSUME NEW f \in Covers(Step(p))
      PROVE  f \in Data /\ files[f] = Whole(gen[p])[f] /\ seen[p][f] = Whole(gen[p])[f]
  <2>1. f \in Data /\ Before(f, at[p])
    BY <1>1, Programs
  <2>2. PublishedSoFar(p)
    BY DEF Inv, Local
  <2> QED
    BY <2>1, <2>2 DEF Before, PublishedSoFar
<1>4. CASE Step(p) \in Data
  <2>1. Target(Step(p)) # "verification"
    BY <1>2, <1>4, Targets, FileNames
  <2>2. [f \in Covers(Step(p)) |-> IF Target(Step(p)) = "verification" THEN files[f] ELSE seen[p][f]]
          = [f \in Covers(Step(p)) |-> Whole(gen[p])[f]]
    BY <1>3, <2>1
  <2>3. (Step(p) = "passed") = FALSE
    BY <1>4, FileNames
  <2>4. Expected(p) = [gen |-> gen[p], passed |-> Step(p) = "passed",
                       of |-> [f \in Covers(Step(p)) |-> Whole(gen[p])[f]]]
    BY <1>4, <2>3, WholeFile DEF Expected
  <2> QED
    BY <2>2, <2>4 DEF Content
<1>5. CASE Step(p) \notin Data
  <2>1. Target(Step(p)) = "verification"
    BY <1>2, <1>5, Targets
  <2>2. [f \in Covers(Step(p)) |-> IF Target(Step(p)) = "verification" THEN files[f] ELSE seen[p][f]]
          = [f \in Covers(Step(p)) |-> Whole(gen[p])[f]]
    BY <1>3, <2>1
  <2>3. Expected(p) = [gen |-> gen[p], passed |-> Step(p) = "passed",
                       of |-> [f \in Covers(Step(p)) |-> Whole(gen[p])[f]]]
    BY <1>5 DEF Expected
  <2> QED
    BY <2>2, <2>3 DEF Content
<1> QED
  BY <1>4, <1>5

\* The temporary file of a writer is its own, and the only one of its name.
LEMMA OwnTemporary ==
  ASSUME Inv, NEW p \in Publishers, pc[p] = "written"
  PROVE  \E t \in temps : /\ Mine(p) = {t}
                          /\ t.file = Target(Step(p)) /\ t.name = temporary[p]
                          /\ t.owner = p /\ t.content = Expected(p)
<1>1. PICK t \in temps : /\ t.file = Target(Step(p)) /\ t.name = temporary[p]
                         /\ t.owner = p /\ t.content = Expected(p)
  BY DEF Inv, Local, WrittenKept
<1>2. Mine(p) = {t}
  BY <1>1 DEF Mine, Inv, NamesDiffer
<1> QED
  BY <1>1, <1>2

\* After the replacement a writer has no temporary file to clean up.
LEMMA NothingToClean ==
  ASSUME Inv, NEW p \in Publishers, pc[p] = "replaced"
  PROVE  Mine(p) = {}
BY NameAssumption DEF Inv, TypeOK, Local, ReplacedKept, Mine

-----------------------------------------------------------------------------
(* Steps *)

\* What a publisher relies on that its own step does not touch.
LEMMA OtherKept ==
  ASSUME Inv, NEW q \in Publishers, UNCHANGED <<job, pc[q], gen[q], at[q], temporary[q], seen[q]>>,
         \A t \in temps : t.owner = q => t \in temps',
         Running(q) => \A f \in Data : files'[f] \in {files[f], Whole(gen[q])[f]},
         \/ UNCHANGED files["verification"]
         \/ Running(q) /\ Passed' => files'["verification"].gen = gen[q]
  PROVE  Local(q)'
<1>1. Local(q)
  BY DEF Inv
<1>2. Step(q)' = Step(q) /\ Running(q)' = Running(q)
  BY DEF Step, Running
<1>3. Expected(q)' = Expected(q)
  BY <1>2 DEF Expected, Covers, Whole
<1>4. InProgram(q)'
  BY <1>1, <1>2 DEF Local, InProgram
<1>5. PublishedSoFar(q)'
  <2> SUFFICES ASSUME Running(q), NEW i \in 1..Len(Program(job)), i < at[q], Program(job)[i] \in Data
               PROVE  /\ files'[Program(job)[i]] = Whole(gen[q])[Program(job)[i]]
                      /\ seen[q][Program(job)[i]] = Whole(gen[q])[Program(job)[i]]
    <3>1. \A g : Whole(g)' = Whole(g)
      BY DEF Whole, Covers
    <3>2. Whole(gen[q])' = Whole(gen[q]) /\ Program(job)' = Program(job)
      BY <3>1
    <3> QED
      BY <1>2, <3>2 DEF PublishedSoFar
  <2> QED
    BY <1>1 DEF Local, PublishedSoFar
<1>6. WrittenKept(q)'
  <2> SUFFICES ASSUME pc[q] = "written"
               PROVE  /\ Step(q) # "check"
                      /\ \E t \in temps' : /\ t.file = Target(Step(q)) /\ t.name = temporary[q]
                                           /\ t.owner = q /\ t.content = Expected(q)
    BY <1>2, <1>3 DEF WrittenKept, Target
  <2> QED
    BY <1>1 DEF Local, WrittenKept
<1>7. ReplacedKept(q)'
  <2> SUFFICES ASSUME pc[q] = "replaced"
               PROVE  /\ Step(q) # "check"
                      /\ temporary[q] = None
                      /\ Step(q) \in Data => files'[Step(q)] = Whole(gen[q])[Step(q)]
    BY <1>2 DEF ReplacedKept, Whole, Covers
  <2> QED
    BY <1>1 DEF Local, ReplacedKept, Running
<1>8. Marked(q)'
  BY <1>1, <1>2 DEF Local, Marked, Passed
<1> QED
  BY <1>4, <1>5, <1>6, <1>7, <1>8 DEF Local

-----------------------------------------------------------------------------
(* The invariant is inductive *)

LEMMA InitInv == Init => Inv
<1> SUFFICES ASSUME Init
             PROVE  Inv
  OBVIOUS
<1>1. job \in Jobs /\ \A p \in Publishers : pc[p] = "idle" /\ ~Running(p)
  BY DEF Init, Jobs, Running
<1>2. TypeOK
  BY <1>1 DEF Init, TypeOK
<1>3. NamesDiffer /\ OneGeneration
  BY <1>1 DEF Init, NamesDiffer, OneGeneration
<1>4. files["verification"] = None
  BY FileNames DEF Init
<1>5. VerdictKept
  BY <1>4 DEF VerdictKept, Passed
<1>6. \A p \in Publishers : Local(p)
  BY <1>1 DEF Local, InProgram, PublishedSoFar, WrittenKept, ReplacedKept, Marked
<1> QED
  BY <1>2, <1>3, <1>5, <1>6 DEF Inv

\* Steps that leave the directory's files as they are.
LEMMA SameFiles ==
  ASSUME Inv, NEW p \in Publishers, UNCHANGED <<job, files>>, TypeOK', NamesDiffer',
         OneGeneration', Local(p)',
         \A q \in Publishers \ {p} :
           /\ UNCHANGED <<pc[q], gen[q], at[q], temporary[q], seen[q]>>
           /\ \A t \in temps : t.owner = q => t \in temps'
  PROVE  Inv'
<1>1. \A q \in Publishers \ {p} : Local(q)'
  BY OtherKept
<1>2. VerdictKept'
  <2>1. \A g : Whole(g)' = Whole(g)
    BY DEF Whole, Covers
  <2>2. Covers("passed")' = Covers("passed") /\ Product(job)' = Product(job)
    BY DEF Covers, Product
  <2> QED
    BY <2>1, <2>2 DEF Inv, VerdictKept, Passed, HasWhole
<1> QED
  BY <1>1, <1>2 DEF Inv

\* p does not publish any more: nothing is asked of it.
LEMMA Stopped ==
  ASSUME NEW p \in Publishers, ~Running(p)'
  PROVE  Local(p)'
<1>1. pc'[p] \notin {"next", "written", "replaced"}
  BY DEF Running
<1> QED
  BY <1>1 DEF Local, InProgram, PublishedSoFar, WrittenKept, ReplacedKept, Marked, Running

LEMMA WriteTemporaryStep ==
  ASSUME Inv, NEW p \in Publishers, WriteTemporary(p), UNCHANGED job
  PROVE  Inv'
<1> DEFINE f == Target(Step(p))
<1>1. /\ pc[p] = "next" /\ Running(p) /\ Step(p) # "check"
      /\ UNCHANGED <<files, gen, at, seen, starts>>
      /\ pc' = [pc EXCEPT ![p] = "written"]
  BY DEF WriteTemporary, Running
<1>2. PICK n \in Names \ Taken(f) :
        /\ temps' = temps \cup {[file |-> f, name |-> n, owner |-> p, content |-> Content(p)]}
        /\ temporary' = [temporary EXCEPT ![p] = n]
  BY DEF WriteTemporary
<1>3. \A t \in temps : ~(t.file = f /\ t.name = n)
  BY <1>2 DEF Taken
<1>4. TypeOK'
  BY <1>1, <1>2 DEF Inv, TypeOK
<1>5. Running(p)' /\ \A q \in Publishers : Running(q)' = Running(q)
  BY <1>1 DEF Inv, TypeOK, Running
<1>6. NamesDiffer'
  BY <1>2, <1>3 DEF Inv, NamesDiffer
<1>7. OneGeneration'
  BY <1>1, <1>5 DEF Inv, OneGeneration
<1>8. \A q \in Publishers \ {p} :
        /\ UNCHANGED <<pc[q], gen[q], at[q], temporary[q], seen[q]>>
        /\ \A t \in temps : t.owner = q => t \in temps'
  BY <1>1, <1>2 DEF Inv, TypeOK
<1>9. Local(p)'
  <2>1. Step(p)' = Step(p) /\ f' = f
    BY <1>1 DEF Step, Target
  <2>2. Expected(p)' = Expected(p)
    BY <1>1, <2>1 DEF Expected, Covers, Whole
  <2>3. InProgram(p)'
    BY <1>1, <1>5 DEF Inv, Local, InProgram
  <2>4. PublishedSoFar(p)'
    <3>1. \A g : Whole(g)' = Whole(g)
      BY DEF Whole, Covers
    <3>2. Whole(gen[p])' = Whole(gen[p]) /\ Program(job)' = Program(job)
      BY <1>1, <3>1
    <3>3. PublishedSoFar(p)
      BY DEF Inv, Local
    <3> QED
      BY <1>1, <3>2, <3>3 DEF PublishedSoFar
  <2>5. WrittenKept(p)'
    <3> DEFINE t == [file |-> f, name |-> n, owner |-> p, content |-> Content(p)]
    <3>1. t \in temps' /\ t.file = f /\ t.name = n /\ t.owner = p /\ t.content = Expected(p)
      BY <1>1, <1>2, WritesExpected
    <3>2. temporary'[p] = n
      BY <1>2 DEF Inv, TypeOK
    <3> QED
      BY <1>1, <2>1, <2>2, <3>1, <3>2 DEF WrittenKept
  <2>6. ReplacedKept(p)'
    BY <1>1 DEF Inv, TypeOK, ReplacedKept
  <2>7. Marked(p)'
    <3>1. Marked(p) /\ pc'[p] = "written"
      BY <1>1 DEF Inv, TypeOK, Local
    <3> QED
      BY <1>1, <3>1 DEF Marked, Passed
  <2> QED
    BY <2>3, <2>4, <2>5, <2>6, <2>7 DEF Local
<1> HIDE DEF f
<1> QED
  BY <1>1, <1>4, <1>6, <1>7, <1>8, <1>9, SameFiles

LEMMA SyncStep ==
  ASSUME Inv, NEW p \in Publishers, Sync(p), UNCHANGED job
  PROVE  Inv'
<1> DEFINE n == Len(Program(job))
<1>1. /\ pc[p] = "replaced" /\ Running(p)
      /\ UNCHANGED <<files, temps, gen, starts>>
      /\ seen' = [seen EXCEPT ![p] = [seen[p] EXCEPT ![Target(Step(p))] = files[Target(Step(p))]]]
      /\ at' = [at EXCEPT ![p] = at[p] + 1]
      /\ pc' = [pc EXCEPT ![p] = IF at[p] = n THEN "done" ELSE "next"]
      /\ temporary' = [temporary EXCEPT ![p] = None]
  BY DEF Sync, Running
<1>2. /\ Step(p) # "check" /\ Step(p) = Program(job)[at[p]] /\ at[p] \in 1..n /\ n \in Nat
      /\ Step(p) \in Data => files[Step(p)] = Whole(gen[p])[Step(p)]
      /\ Step(p) \in Steps
  BY <1>1, Programs DEF Inv, TypeOK, Local, InProgram, ReplacedKept, Step
<1>3. /\ Target(Step(p)) \in Files
      /\ Step(p) \in Data => Target(Step(p)) = Step(p)
  BY <1>2, Targets
<1>4. TypeOK'
  BY <1>1 DEF Inv, TypeOK
<1>5. /\ pc'[p] = (IF at[p] = n THEN "done" ELSE "next") /\ at'[p] = at[p] + 1
      /\ \A q \in Publishers \ {p} : UNCHANGED <<pc[q], gen[q], at[q], temporary[q], seen[q]>>
  BY <1>1 DEF Inv, TypeOK
<1>6. \A q \in Publishers : Running(q)' => Running(q)
  BY <1>1, <1>5 DEF Running
<1>7. NamesDiffer' /\ OneGeneration'
  BY <1>1, <1>6 DEF Inv, NamesDiffer, OneGeneration
<1>8. Local(p)'
  <2>1. CASE at[p] = n
    <3>1. ~Running(p)'
      BY <1>5, <2>1 DEF Running
    <3> QED
      BY <3>1, Stopped
  <2>2. CASE at[p] # n
    <3>1. InProgram(p)'
      BY <1>2, <1>5, <2>2 DEF InProgram
    <3>2. PublishedSoFar(p)'
      <4>1. \A g : Whole(g)' = Whole(g)
        BY DEF Whole, Covers
      <4>2. Whole(gen[p])' = Whole(gen[p]) /\ Program(job)' = Program(job)
        BY <1>1, <4>1
      <4>3. ASSUME NEW i \in 1..n, i < at[p] + 1, Program(job)[i] \in Data
            PROVE  /\ files[Program(job)[i]] = Whole(gen[p])[Program(job)[i]]
                   /\ seen'[p][Program(job)[i]] = Whole(gen[p])[Program(job)[i]]
        <5> DEFINE f == Program(job)[i]
        <5>1. f \in Files
          BY <4>3, FileNames
        <5>2. files[f] = Whole(gen[p])[f] /\ (f # Target(Step(p)) => seen[p][f] = Whole(gen[p])[f])
          <6>1. CASE i = at[p]
            BY <1>2, <1>3, <4>3, <6>1
          <6>2. CASE i # at[p]
            <7>1. i < at[p]
              BY <1>2, <4>3, <6>2
            <7> QED
              BY <1>1, <4>3, <7>1 DEF Inv, Local, PublishedSoFar
          <6> QED
            BY <6>1, <6>2
        <5>3. seen'[p][f] = IF f = Target(Step(p)) THEN files[f] ELSE seen[p][f]
          BY <1>1, <5>1 DEF Inv, TypeOK
        <5> QED
          BY <5>2, <5>3
      <4> QED
        BY <1>1, <1>5, <4>2, <4>3 DEF PublishedSoFar
    <3>3. WrittenKept(p)' /\ ReplacedKept(p)'
      BY <1>5, <2>2 DEF WrittenKept, ReplacedKept
    <3>4. Marked(p)'
      BY <1>1 DEF Inv, Local, Marked, Passed
    <3> QED
      BY <3>1, <3>2, <3>3, <3>4 DEF Local
  <2> QED
    BY <2>1, <2>2
<1> QED
  BY <1>1, <1>4, <1>5, <1>7, <1>8, SameFiles

\* A check passes or ends the job.
LEMMA CheckStep ==
  ASSUME Inv, NEW p \in Publishers, Check(p), UNCHANGED job
  PROVE  Inv'
<1> DEFINE n == Len(Program(job))
<1>1. /\ pc[p] = "next" /\ Running(p) /\ Step(p) = "check"
      /\ UNCHANGED <<files, temps, gen, seen, starts>>
  BY DEF Check, Die, Running
<1>2. /\ Step(p) = Program(job)[at[p]] /\ at[p] \in 1..n /\ n \in Nat
      /\ at[p] # n /\ Step(p) \notin Data
      /\ job # "prepare" => at[p] # 1
  BY <1>1, Programs, FileNames DEF Inv, TypeOK, Local, InProgram, Step
<1>3. \/ at' = [at EXCEPT ![p] = at[p] + 1] /\ UNCHANGED <<pc, temporary>>
      \/ pc' = [pc EXCEPT ![p] = "failed"] /\ temporary' = [temporary EXCEPT ![p] = None] /\ UNCHANGED at
  BY DEF Check, Die
<1>4. TypeOK'
  BY <1>1, <1>3 DEF Inv, TypeOK
<1>5. \A q \in Publishers \ {p} : UNCHANGED <<pc[q], gen[q], at[q], temporary[q], seen[q]>>
  BY <1>1, <1>3 DEF Inv, TypeOK
<1>6. \A q \in Publishers : Running(q)' => Running(q)
  BY <1>1, <1>5 DEF Running
<1>7. NamesDiffer' /\ OneGeneration'
  BY <1>1, <1>6 DEF Inv, NamesDiffer, OneGeneration
<1>8. Local(p)'
  <2>1. CASE pc' = [pc EXCEPT ![p] = "failed"]
    <3>1. ~Running(p)'
      BY <2>1 DEF Inv, TypeOK, Running
    <3> QED
      BY <3>1, Stopped
  <2>2. CASE at' = [at EXCEPT ![p] = at[p] + 1] /\ UNCHANGED <<pc, temporary>>
    <3>1. at'[p] = at[p] + 1 /\ pc'[p] = "next"
      BY <1>1, <2>2 DEF Inv, TypeOK
    <3>2. InProgram(p)'
      BY <1>2, <3>1 DEF InProgram
    <3>3. PublishedSoFar(p)'
      <4>1. \A g : Whole(g)' = Whole(g)
        BY DEF Whole, Covers
      <4>2. Whole(gen[p])' = Whole(gen[p]) /\ Program(job)' = Program(job)
        BY <1>1, <4>1
      <4>3. \A i \in 1..n : i < at[p] + 1 /\ Program(job)[i] \in Data => i < at[p]
        BY <1>2
      <4>4. PublishedSoFar(p)
        BY DEF Inv, Local
      <4> QED
        BY <1>1, <3>1, <4>2, <4>3, <4>4 DEF PublishedSoFar
    <3>4. WrittenKept(p)' /\ ReplacedKept(p)'
      BY <3>1 DEF WrittenKept, ReplacedKept
    <3>5. Marked(p)'
      BY <1>1, <1>2 DEF Inv, Local, Marked, Passed
    <3> QED
      BY <3>2, <3>3, <3>4, <3>5 DEF Local
  <2> QED
    BY <1>3, <2>1, <2>2
<1> QED
  BY <1>1, <1>4, <1>5, <1>7, <1>8, SameFiles

\* An error removes the writer's own temporary file, being killed removes none.
LEMMA StopStep ==
  ASSUME Inv, NEW p \in Publishers, Fail(p) \/ Crash(p), UNCHANGED job
  PROVE  Inv'
<1>1. /\ pc' = [pc EXCEPT ![p] = "failed"] /\ temporary' = [temporary EXCEPT ![p] = None]
      /\ UNCHANGED <<files, gen, at, seen, starts>>
      /\ temps' = temps \/ (temps' = temps \ Mine(p) /\ pc[p] \in {"written", "replaced"})
  BY DEF Fail, Crash, Die
<1>2. temps' \subseteq temps /\ \A t \in temps : t.owner # p => t \in temps'
  BY <1>1, OwnTemporary, NothingToClean
<1>3. TypeOK'
  BY <1>1, <1>2 DEF Inv, TypeOK
<1>4. ~Running(p)' /\ \A q \in Publishers \ {p} :
        UNCHANGED <<pc[q], gen[q], at[q], temporary[q], seen[q]>>
  BY <1>1 DEF Inv, TypeOK, Running
<1>5. NamesDiffer' /\ OneGeneration'
  BY <1>1, <1>2, <1>4 DEF Inv, NamesDiffer, OneGeneration, Running
<1>6. Local(p)'
  BY <1>4, Stopped
<1> QED
  BY <1>1, <1>2, <1>3, <1>4, <1>5, <1>6, SameFiles

LEMMA StartStep ==
  ASSUME Inv, NEW p \in Publishers, Start(p), UNCHANGED job
  PROVE  Inv'
<1>1. PICK g \in Generations :
        /\ \A q \in Publishers \ {p} : Running(q) => gen[q] = g
        /\ gen' = [gen EXCEPT ![p] = g]
  BY DEF Start
<1>2. /\ at' = [at EXCEPT ![p] = 1] /\ pc' = [pc EXCEPT ![p] = "next"]
      /\ seen' = [seen EXCEPT ![p] = [f \in Files |-> None]]
      /\ UNCHANGED <<files, temps, temporary>>
  BY DEF Start, FromTheBeginning
<1>3. TypeOK'
  BY <1>1, <1>2 DEF Inv, TypeOK
<1>4. /\ pc'[p] = "next" /\ at'[p] = 1 /\ gen'[p] = g
      /\ \A q \in Publishers \ {p} : UNCHANGED <<pc[q], gen[q], at[q], temporary[q], seen[q]>>
  BY <1>1, <1>2 DEF Inv, TypeOK
<1>5. NamesDiffer'
  BY <1>2 DEF Inv, NamesDiffer
<1>6. OneGeneration'
  BY <1>1, <1>4 DEF Inv, OneGeneration, Running
<1>7. Local(p)'
  <2>1. Len(Program(job)) \in Nat /\ Len(Program(job)) > 0
    BY Programs DEF Inv, TypeOK
  <2>2. InProgram(p)'
    BY <1>4, <2>1 DEF InProgram
  <2>3. PublishedSoFar(p)'
    BY <1>4, <2>1 DEF PublishedSoFar
  <2>4. WrittenKept(p)' /\ ReplacedKept(p)' /\ Marked(p)'
    BY <1>4 DEF WrittenKept, ReplacedKept, Marked
  <2> QED
    BY <2>2, <2>3, <2>4 DEF Local
<1> QED
  BY <1>2, <1>3, <1>4, <1>5, <1>6, <1>7, SameFiles

\* What is put in place is what everybody who runs expects there.
LEMMA ReplaceStep ==
  ASSUME Inv, NEW p \in Publishers, Replace(p), UNCHANGED job
  PROVE  Inv'
<1> DEFINE n == Len(Program(job))
           g == gen[p]
           f == Target(Step(p))
           c == Expected(p)
<1>1. /\ pc[p] = "written" /\ Running(p)
      /\ UNCHANGED <<gen, at, seen, starts>>
      /\ pc' = [pc EXCEPT ![p] = "replaced"] /\ temporary' = [temporary EXCEPT ![p] = None]
  BY DEF Replace, ForgetsName, Running
<1>2. PICK t \in temps : Mine(p) = {t} /\ t.file = f /\ t.owner = p /\ t.content = c
  BY <1>1, OwnTemporary
<1>3. files' = [files EXCEPT ![f] = c] /\ temps' = temps \ {t}
  BY <1>2 DEF Replace
<1>4. /\ Step(p) = Program(job)[at[p]] /\ at[p] \in 1..n /\ n \in Nat
      /\ Step(p) # "check" /\ Step(p) \in Steps
  BY <1>1, Programs DEF Inv, TypeOK, Local, InProgram, WrittenKept, Step
<1>5. /\ f \in Files
      /\ Step(p) \in Data => f = Step(p) /\ c = Whole(g)[f]
      /\ Step(p) \notin Data => f = "verification"
      /\ c.gen = g /\ c.passed = (Step(p) = "passed")
  BY <1>1, <1>4, Targets, WritesExpected DEF Expected
<1> HIDE DEF c
<1>6. TypeOK'
  BY <1>1, <1>3 DEF Inv, TypeOK
<1>7. /\ pc'[p] = "replaced" /\ temporary'[p] = None
      /\ \A q \in Publishers \ {p} : UNCHANGED <<pc[q], gen[q], at[q], temporary[q], seen[q]>>
      /\ \A q \in Publishers : Running(q)' = Running(q)
  BY <1>1 DEF Inv, TypeOK, Running
<1>8. /\ files'[f] = c /\ \A h \in Files : h # f => files'[h] = files[h]
  BY <1>3, <1>5 DEF Inv, TypeOK
<1>9. NamesDiffer' /\ OneGeneration'
  BY <1>1, <1>3, <1>7 DEF Inv, NamesDiffer, OneGeneration
<1>10. \A h \in Data : files'[h] \in {files[h], Whole(g)[h]}
  BY <1>5, <1>8, FileNames
<1>11. UNCHANGED files["verification"] \/ files'["verification"].gen = g
  BY <1>5, <1>8, FileNames
<1>12. ASSUME NEW q \in Publishers \ {p}
       PROVE  Local(q)'
  <2>1. Running(q) => gen[q] = g
    BY <1>1 DEF Inv, OneGeneration
  <2>2. \A u \in temps : u.owner = q => u \in temps'
    BY <1>2, <1>3
  <2>3. Running(q) => \A h \in Data : files'[h] \in {files[h], Whole(gen[q])[h]}
    BY <1>10, <2>1
  <2>4. CASE Running(q)
    <3>1. \/ UNCHANGED files["verification"]
          \/ Running(q) /\ Passed' => files'["verification"].gen = gen[q]
      BY <1>11, <2>1, <2>4
    <3> HIDE DEF g
    <3> QED
      BY <1>7, <2>2, <2>3, <3>1, OtherKept
  <2>5. CASE ~Running(q)
    BY <1>7, <2>5, Stopped
  <2> QED
    BY <2>4, <2>5
<1>13. Local(p)'
  <2>1. \A k : Whole(k)' = Whole(k)
    BY DEF Whole, Covers
  <2>2. /\ Whole(gen[p])' = Whole(g) /\ Program(job)' = Program(job) /\ Step(p)' = Step(p)
        /\ gen'[p] = g /\ at'[p] = at[p]
    BY <1>1, <2>1 DEF Step
  <2>3. InProgram(p)'
    BY <1>1, <1>4 DEF InProgram
  <2>4. PublishedSoFar(p)'
    <3>1. PublishedSoFar(p)
      BY DEF Inv, Local
    <3> QED
      BY <1>1, <1>10, <2>2, <3>1 DEF PublishedSoFar
  <2>5. WrittenKept(p)'
    BY <1>7 DEF WrittenKept
  <2>6. ReplacedKept(p)'
    BY <1>4, <1>5, <1>7, <1>8, <2>2 DEF ReplacedKept
  <2>7. Marked(p)'
    <3>1. CASE Step(p) \in Data /\ job # "prepare"
      <4>1. UNCHANGED files["verification"]
        BY <1>5, <1>8, <3>1, FileNames
      <4>2. at[p] # 1
        BY <1>4, <3>1, Programs, FileNames DEF Inv, TypeOK
      <4>3. Marked(p)
        BY DEF Inv, Local
      <4> QED
        BY <1>1, <1>7, <2>2, <4>1, <4>2, <4>3 DEF Marked, Passed
    <3>2. CASE Step(p) \notin Data
      <4>1. files'["verification"].gen = g
        BY <1>5, <1>8, <3>2
      <4> QED
        BY <2>2, <4>1 DEF Marked
    <3>3. CASE job = "prepare"
      BY <3>3 DEF Marked
    <3> QED
      BY <3>1, <3>2, <3>3
  <2> QED
    BY <2>3, <2>4, <2>5, <2>6, <2>7 DEF Local
<1>14. VerdictKept'
  <2>1. (\A k : Whole(k)' = Whole(k)) /\ Covers("passed")' = Covers("passed") /\ Product(job)' = Product(job)
    BY DEF Whole, Covers, Product
  <2>2. CASE Step(p) \in Data
    <3>1. UNCHANGED files["verification"]
      BY <1>5, <1>8, <2>2, FileNames
    <3> DEFINE v == files["verification"]
    <3> SUFFICES ASSUME Passed
                 PROVE  /\ job # "prepare"
                        /\ \A h \in Product(job) : files'[h] = Whole(v.gen)[h]
                        /\ v.of = [h \in Covers("passed") |-> Whole(v.gen)[h]]
      BY <2>1, <3>1 DEF VerdictKept, Passed, HasWhole
    <3>2. /\ job # "prepare" /\ v.of = [h \in Covers("passed") |-> Whole(v.gen)[h]]
          /\ \A h \in Product(job) : files[h] = Whole(v.gen)[h]
      BY DEF Inv, VerdictKept, HasWhole
    <3>3. v.gen = g
      <4>1. at[p] # 1
        BY <1>4, <2>2, <3>2, Programs, FileNames DEF Inv, TypeOK
      <4> QED
        BY <1>1, <3>2, <4>1 DEF Inv, Local, Marked
    <3>4. Product(job) \subseteq Data
      BY Programs DEF Inv, TypeOK
    <3> QED
      BY <1>10, <3>2, <3>3, <3>4
  <2>3. CASE Step(p) \notin Data
    <3>1. files'["verification"] = c /\ \A h \in Data : files'[h] = files[h]
      BY <1>5, <1>8, <2>3, FileNames
    <3> SUFFICES ASSUME Step(p) = "passed"
                 PROVE  /\ job # "prepare"
                        /\ \A h \in Product(job) : files'[h] = Whole(g)[h]
                        /\ c.of = [h \in Covers("passed") |-> Whole(g)[h]]
      BY <1>5, <2>1, <3>1 DEF VerdictKept, Passed, HasWhole
    <3>2. job # "prepare"
      BY <1>4, <2>3, Programs DEF Inv, TypeOK
    <3>3. c.of = [h \in Covers("passed") |-> Whole(g)[h]]
      BY <2>3 DEF c, Expected
    <3>4. ASSUME NEW h \in Product(job)
          PROVE  files'[h] = Whole(g)[h]
      <4>1. h \in Data /\ Before(h, at[p])
        BY <1>4, Programs DEF Inv, TypeOK
      <4>2. files[h] = Whole(g)[h]
        BY <1>1, <4>1 DEF Inv, Local, PublishedSoFar, Before
      <4> QED
        BY <3>1, <4>1, <4>2
    <3> QED
      BY <3>2, <3>3, <3>4
  <2> QED
    BY <2>2, <2>3
<1> QED
  BY <1>6, <1>9, <1>12, <1>13, <1>14 DEF Inv

LEMMA NextInv == Inv /\ [Next]_vars => Inv'
<1> SUFFICES ASSUME Inv, [Next]_vars
             PROVE  Inv'
  OBVIOUS
<1>1. CASE Next
  BY <1>1, WriteTemporaryStep, ReplaceStep, SyncStep, CheckStep, StopStep, StartStep DEF Next, Publish
<1>2. CASE UNCHANGED vars
  <2>1. UNCHANGED <<job, files, temps, pc, gen, at, temporary, seen>>
    BY <1>2 DEF vars
  <2>2. TypeOK' /\ NamesDiffer' /\ OneGeneration'
    BY <2>1 DEF Inv, TypeOK, NamesDiffer, OneGeneration, Running
  <2>3. \A q \in Publishers : Local(q)'
    BY <2>1, OtherKept
  <2>4. \A g : Whole(g)' = Whole(g)
    BY <2>1 DEF Whole, Covers
  <2>5. Covers("passed")' = Covers("passed") /\ Product(job)' = Product(job)
    BY <2>1 DEF Covers, Product
  <2>6. VerdictKept'
    BY <2>1, <2>4, <2>5 DEF Inv, VerdictKept, Passed, HasWhole
  <2> QED
    BY <2>2, <2>3, <2>6 DEF Inv
<1> QED
  BY <1>1, <1>2

-----------------------------------------------------------------------------
(* The theorems *)

\* The publishers keep the whole invariant.
THEOREM PublicationInvariant == Spec => []Inv
<1> QED
  BY InitInv, NextInv, PTL DEF Spec

\* Until it is in place, a file that is being written is there and its
\* writer's own: no clean-up of _write_bytes_atomic takes another's file.
THEOREM TemporariesAreOwned == Spec => []TemporaryIsOwned
<1>1. ASSUME Inv, NEW p \in Publishers, pc[p] = "written"
      PROVE  \E t \in Mine(p) : t.owner = p /\ t.content.gen = gen[p]
  <2>1. PICK t \in temps : Mine(p) = {t} /\ t.owner = p /\ t.content = Expected(p)
    BY <1>1, OwnTemporary
  <2>2. Running(p) /\ Step(p) # "check"
    BY <1>1 DEF Running, Inv, Local, WrittenKept
  <2>3. Expected(p).gen = gen[p]
    BY <1>1, <2>2, WritesExpected
  <2> QED
    BY <2>1, <2>3
<1>2. Inv => TemporaryIsOwned
  BY <1>1 DEF TemporaryIsOwned
<1> QED
  BY <1>2, PublicationInvariant, PTL

\* A verdict of passed is never next to files of another generation, nor
\* before the files it speaks of.
THEOREM PassedMeansComplete == Spec => []PassedIsComplete
<1>1. ASSUME Inv, Passed
      PROVE  LET v == files["verification"] IN
             /\ HasWhole(Product(job), v.gen)
             /\ \A f \in DOMAIN v.of : v.of[f] = files[f]
  <2> DEFINE v == files["verification"]
  <2>1. /\ job # "prepare" /\ HasWhole(Product(job), v.gen)
        /\ v.of = [f \in Covers("passed") |-> Whole(v.gen)[f]]
    BY <1>1 DEF Inv, VerdictKept
  <2>2. Covers("passed") \subseteq Product(job)
    BY <1>1, <2>1 DEF Inv, TypeOK, Jobs, Covers, Product, Accepted, Audited, ToSet
  <2> QED
    BY <2>1, <2>2 DEF HasWhole
<1>2. Inv => PassedIsComplete
  BY <1>1 DEF PassedIsComplete, Passed
<1> QED
  BY <1>2, PublicationInvariant, PTL

\* A publisher that comes to its end has published a whole generation.
THEOREM EndMeansPublished == Spec => FinishedIsPublished
<1> DEFINE Whole1(p) == IF job = "prepare" THEN Validates(gen[p]) ELSE HasWhole(Product(job), gen[p])
           Step1 == \A p \in Publishers : pc[p] # "done" /\ pc'[p] = "done" => Whole1(p)'
<1>1. ASSUME Inv, NEW p \in Publishers, Sync(p), UNCHANGED job, pc'[p] = "done"
      PROVE  Whole1(p)'
  <2> DEFINE n == Len(Program(job))
  <2>1. /\ pc[p] = "replaced" /\ Running(p) /\ at[p] = n /\ UNCHANGED <<files, gen>>
    BY <1>1 DEF Sync, Running, Inv, TypeOK
  <2>2. \A f \in Product(job) : files[f] = Whole(gen[p])[f]
    <3> SUFFICES ASSUME NEW f \in Product(job)
                 PROVE  files[f] = Whole(gen[p])[f]
      OBVIOUS
    <3>1. n \in Nat /\ f \in Data /\ Before(f, n + 1)
      BY <1>1, Programs DEF Inv, TypeOK
    <3>2. PICK i \in 1..n : i < n + 1 /\ Program(job)[i] = f
      BY <3>1 DEF Before
    <3>3. CASE i < n
      BY <1>1, <2>1, <3>1, <3>2, <3>3 DEF Inv, Local, PublishedSoFar
    <3>4. CASE i = n
      BY <1>1, <2>1, <3>1, <3>2, <3>4 DEF Inv, Local, ReplacedKept, Step
    <3> QED
      BY <3>1, <3>2, <3>3, <3>4
  <2>3. \A k : Whole(k)' = Whole(k)
    BY DEF Whole, Covers
  <2>4. HasWhole(Product(job), gen[p])'
    BY <1>1, <2>1, <2>2, <2>3 DEF HasWhole, Product
  <2> QED
    BY <1>1, <2>4 DEF Validates
<1>2. ASSUME Inv, [Next]_vars
      PROVE  [Step1]_vars
  <2> SUFFICES ASSUME Next, NEW p \in Publishers, pc[p] # "done", pc'[p] = "done"
               PROVE  Whole1(p)'
    BY <1>2
  <2>1. PICK q \in Publishers : Publish(q) /\ UNCHANGED job
    BY DEF Next
  <2>2. Sync(q) /\ p = q
    BY <1>2, <2>1 DEF Publish, WriteTemporary, Replace, Sync, Fail, Check, Start, Crash, Die, Inv, TypeOK
  <2> QED
    BY <1>1, <1>2, <2>1, <2>2
<1> QED
  BY <1>2, PublicationInvariant, PTL DEF Spec, FinishedIsPublished, Step1, Whole1

=============================================================================
