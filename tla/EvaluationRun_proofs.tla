------------------------ MODULE EvaluationRun_proofs ------------------------
(***************************************************************************)
(* Proofs about EvaluationRun, for any number of runs, inputs, test tasks, *)
(* kills and power losses.                                                 *)
(*                                                                         *)
(* The argument: a run that was authorized goes on only while the guard    *)
(* names its inputs, since nobody overwrites a guard and a power loss      *)
(* leaves nobody running.  A power loss may leave evidence without a       *)
(* guard; then nobody gets past the probe.                                 *)
(***************************************************************************)
EXTENDS EvaluationRun, FiniteSetTheorems, SequenceTheorems, TLAPS

-----------------------------------------------------------------------------
(* The inductive invariant *)

Authorized == {"open", "evaluate", "done"}
NotYetThere == {"exists", "probe", "link", "sync", "verify", "open"}

TypeOK ==
    /\ guard \in Inputs \cup {None}
    /\ guardDurable \in BOOLEAN
    /\ trace \in Seq([case : CaseIds, inputs : Inputs])
    /\ traceDurable \in BOOLEAN
    /\ pc \in [Runs -> NotYetThere \cup {"down", "refused", "evaluate", "done", "conflict"}]
    /\ completed \in [Runs -> SUBSET CaseIds]
    /\ next \in [Runs -> Nat \ {0}]
    /\ crashes \in Nat
    /\ powerLosses \in Nat

\* The evidence is that of the run the guard names.
EvidenceIsGuarded == guard # None => \A i \in 1..Len(trace) : trace[i].inputs = guard

\* Of one run even when the guard is gone.
SameInputs == \A i, j \in 1..Len(trace) : trace[i].inputs = trace[j].inputs

CasesDiffer == \A i, j \in 1..Len(trace) : i # j => trace[i].case # trace[j].case

\* A run is about to create a guard only over an empty trace.
LinkIsFresh(r) == pc[r] = "link" /\ guard = None => trace = <<>>

AuthorizedByGuard(r) == pc[r] \in Authorized => guard = InputsOf[r]

\* What a run has passed is in the trace.
Passed(r) ==
    /\ pc[r] \in NotYetThere => next[r] = 1
    /\ pc[r] \in {"evaluate", "done"} =>
         /\ completed[r] \subseteq TracedCases
         /\ \A i \in 1..Len(Tasks) : i < next[r] => Tasks[i] \in TracedCases
    /\ pc[r] = "done" => next[r] > Len(Tasks)

Local(r) ==
    /\ LinkIsFresh(r) /\ AuthorizedByGuard(r) /\ Passed(r)
    /\ pc[r] # "conflict"

Inv ==
    /\ TypeOK /\ EvidenceIsGuarded /\ SameInputs /\ CasesDiffer
    /\ \A r \in Runs : Local(r)

-----------------------------------------------------------------------------
(* The trace and the tasks as sequences *)

\* What TracedCases is, position by position.
LEMMA Traced ==
  ASSUME TypeOK
  PROVE  /\ TracedCases = {trace[i].case : i \in 1..Len(trace)}
         /\ ToSet(trace) = {trace[i] : i \in 1..Len(trace)}
         /\ \A i \in 1..Len(trace) : trace[i] \in [case : CaseIds, inputs : Inputs]
         /\ TracedCases \subseteq CaseIds
         /\ Len(trace) \in Nat
<1>1. DOMAIN trace = 1..Len(trace) /\ Len(trace) \in Nat
  BY LenProperties DEF TypeOK
<1>2. \A i \in 1..Len(trace) : trace[i] \in [case : CaseIds, inputs : Inputs]
  BY ElementOfSeq DEF TypeOK
<1>3. ToSet(trace) = {trace[i] : i \in 1..Len(trace)}
  BY <1>1 DEF ToSet
<1>4. TracedCases = {trace[i].case : i \in 1..Len(trace)}
  BY <1>3 DEF TracedCases
<1> QED
  BY <1>1, <1>2, <1>3, <1>4

\* The test tasks are a bijection from their positions to their cases.
LEMMA TasksInOrder ==
  /\ Len(Tasks) \in Nat
  /\ CaseIds = {Tasks[i] : i \in 1..Len(Tasks)}
  /\ \A i, j \in 1..Len(Tasks) : Tasks[i] = Tasks[j] => i = j
<1>1. Len(Tasks) \in Nat /\ DOMAIN Tasks = 1..Len(Tasks)
  BY LenProperties, RunAssumption
<1> QED
  BY <1>1, RunAssumption DEF CaseIds, ToSet, IsInjective

\* Two enumerations of one set without repetition are of the same length.
LEMMA SameLength ==
  ASSUME NEW S, NEW m \in Nat, NEW n \in Nat,
         NEW f \in Surjection(1..m, S), f \in Injection(1..m, S),
         NEW g \in Surjection(1..n, S), g \in Injection(1..n, S)
  PROVE  m = n
<1>1. IsFiniteSet(1..m) /\ Cardinality(1..m) = m /\ IsFiniteSet(1..n) /\ Cardinality(1..n) = n
  BY FS_Interval
<1> QED
  BY <1>1, FS_Surjection

\* A run appends its evidence for a case the trace does not have.
LEMMA AppendOne ==
  ASSUME TypeOK, NEW e \in [case : CaseIds, inputs : Inputs], trace' = Append(trace, e)
  PROVE  /\ trace' \in Seq([case : CaseIds, inputs : Inputs])
         /\ Len(trace') = Len(trace) + 1
         /\ \A i \in 1..Len(trace) : trace'[i] = trace[i]
         /\ trace'[Len(trace) + 1] = e
         /\ TracedCases' = TracedCases \cup {e.case}
<1>1. /\ trace' \in Seq([case : CaseIds, inputs : Inputs])
      /\ Len(trace') = Len(trace) + 1
      /\ \A i \in 1..Len(trace) : trace'[i] = trace[i]
      /\ trace'[Len(trace) + 1] = e
  BY AppendProperties DEF TypeOK
<1>2. DOMAIN trace' = 1..Len(trace') /\ DOMAIN trace = 1..Len(trace) /\ Len(trace) \in Nat
  BY <1>1, LenProperties DEF TypeOK
<1>3. 1..Len(trace') = (1..Len(trace)) \cup {Len(trace) + 1}
  BY <1>1, <1>2
<1>4. ToSet(trace') = ToSet(trace) \cup {e}
  <2>1. ToSet(trace') = {trace'[i] : i \in 1..Len(trace')}
    BY <1>2 DEF ToSet
  <2>2. ToSet(trace) = {trace[i] : i \in 1..Len(trace)}
    BY <1>2 DEF ToSet
  <2> QED
    BY <2>1, <2>2, <1>1, <1>3
<1>5. TracedCases' = {rec.case : rec \in ToSet(trace')}
  BY DEF TracedCases
<1> QED
  BY <1>1, <1>4, <1>5 DEF TracedCases

-----------------------------------------------------------------------------
(* The invariant is inductive *)

LEMMA InitInv == Init => Inv
<1> SUFFICES ASSUME Init
             PROVE  Inv
  OBVIOUS
<1>1. trace = <<>> /\ Len(trace) = 0 /\ trace \in Seq([case : CaseIds, inputs : Inputs])
  BY EmptySeq DEF Init
<1>2. TypeOK
  <2>1. guardDurable \in BOOLEAN /\ traceDurable \in BOOLEAN
    BY DEF Init
  <2>2. /\ pc \in [Runs -> NotYetThere \cup {"down", "refused", "evaluate", "done", "conflict"}]
        /\ completed \in [Runs -> SUBSET CaseIds]
        /\ next \in [Runs -> Nat \ {0}]
    BY DEF Init
  <2> QED
    BY <1>1, <2>1, <2>2, RunAssumption DEF Init, TypeOK
<1>3. EvidenceIsGuarded /\ SameInputs /\ CasesDiffer
  BY <1>1 DEF EvidenceIsGuarded, SameInputs, CasesDiffer
<1>4. \A r \in Runs : Local(r)
  BY DEF Init, Local, LinkIsFresh, AuthorizedByGuard, Passed, NotYetThere, Authorized
<1> QED
  BY <1>2, <1>3, <1>4 DEF Inv

\* What a step that touches neither guard nor trace has to show: its own run.
LEMMA OneRun ==
  ASSUME Inv, NEW r \in Runs, TypeOK', Local(r)',
         UNCHANGED <<guard, trace>>,
         \A q \in Runs \ {r} : UNCHANGED <<pc[q], completed[q], next[q]>>
  PROVE  Inv'
<1>1. TracedCases' = TracedCases
  BY DEF TracedCases
<1>2. \A q \in Runs \ {r} : Local(q)'
  BY <1>1 DEF Inv, Local, LinkIsFresh, AuthorizedByGuard, Passed
<1>3. (EvidenceIsGuarded /\ SameInputs /\ CasesDiffer)'
  BY DEF Inv, EvidenceIsGuarded, SameInputs, CasesDiffer
<1> QED
  BY <1>2, <1>3 DEF Inv

LEMMA AuthorizeStep ==
  ASSUME Inv, NEW r \in Runs,
         Start(r) \/ Exists(r) \/ Probe(r) \/ SyncDirectory(r) \/ Verify(r)
  PROVE  Inv'
<1> USE DEF guardFile, traceFile, progress, bounds, Goto, Put
<1>1. UNCHANGED <<guard, trace, crashes, powerLosses>>
  BY DEF Start, Exists, Probe, SyncDirectory, Verify
<1>2. \A q \in Runs \ {r} : UNCHANGED <<pc[q], completed[q], next[q]>>
  BY DEF Start, Exists, Probe, SyncDirectory, Verify, Inv, TypeOK
<1>3. TypeOK'
  <2>1. (guardDurable \in BOOLEAN /\ traceDurable \in BOOLEAN)'
    BY DEF Start, Exists, Probe, SyncDirectory, Verify, Inv, TypeOK
  <2>2. /\ pc' \in [Runs -> NotYetThere \cup {"down", "refused", "evaluate", "done", "conflict"}]
        /\ completed' \in [Runs -> SUBSET CaseIds]
        /\ next' \in [Runs -> Nat \ {0}]
    <3>1. \E l \in NotYetThere \cup {"refused"} : pc' = [pc EXCEPT ![r] = l]
      BY DEF Start, Exists, Probe, SyncDirectory, Verify, NotYetThere
    <3>2. completed' \in {completed, [completed EXCEPT ![r] = {}]} /\ next' \in {next, [next EXCEPT ![r] = 1]}
      BY DEF Start, Exists, Probe, SyncDirectory, Verify
    <3> QED
      BY <3>1, <3>2 DEF Inv, TypeOK
  <2> QED
    BY <1>1, <2>1, <2>2 DEF Inv, TypeOK
<1>4. TracedCases' = TracedCases
  BY <1>1 DEF TracedCases
<1>5. Local(r)'
  <2>1. CASE Start(r)
    BY <2>1, <1>1 DEF Start, Inv, TypeOK, Local, LinkIsFresh, AuthorizedByGuard, Passed, NotYetThere, Authorized
  <2>2. CASE Exists(r)
    BY <2>2, <1>1 DEF Exists, Inv, TypeOK, Local, LinkIsFresh, AuthorizedByGuard, Passed, NotYetThere, Authorized
  <2>3. CASE Probe(r)
    BY <2>3, <1>1 DEF Probe, TraceIsFresh, Inv, TypeOK, Local, LinkIsFresh, AuthorizedByGuard, Passed, NotYetThere, Authorized
  <2>4. CASE SyncDirectory(r)
    BY <2>4, <1>1 DEF SyncDirectory, Inv, TypeOK, Local, LinkIsFresh, AuthorizedByGuard, Passed, NotYetThere, Authorized
  <2>5. CASE Verify(r)
    BY <2>5, <1>1 DEF Verify, GuardMatches, Inv, TypeOK, Local, LinkIsFresh, AuthorizedByGuard, Passed, NotYetThere, Authorized
  <2> QED
    BY <2>1, <2>2, <2>3, <2>4, <2>5
<1> QED
  BY <1>1, <1>2, <1>3, <1>5, OneRun

\* Creating the guard: the trace is empty, or somebody else's guard stays.
LEMMA LinkStep ==
  ASSUME Inv, NEW r \in Runs, Link(r)
  PROVE  Inv'
<1> USE DEF guardFile, traceFile, progress, bounds, Goto, Put
<1>1. CASE guard # None
  <2>1. UNCHANGED <<guard, trace>>
    BY <1>1 DEF Link, CreateIfAbsent
  <2>2. TypeOK'
    BY <1>1 DEF Link, CreateIfAbsent, Inv, TypeOK, NotYetThere
  <2>3. \A q \in Runs \ {r} : UNCHANGED <<pc[q], completed[q], next[q]>>
    BY DEF Link, Inv, TypeOK
  <2>4. Local(r)'
    BY <2>1 DEF Link, Inv, TypeOK, Local, LinkIsFresh, AuthorizedByGuard, Passed, NotYetThere, Authorized
  <2> QED
    BY <2>1, <2>2, <2>3, <2>4, OneRun
<1>2. CASE guard = None
  <2>1. trace = <<>> /\ trace' = <<>> /\ guard' = InputsOf[r]
    BY <1>2 DEF Link, CreateIfAbsent, Identity, Inv, Local, LinkIsFresh
  <2>2. InputsOf[r] \in Inputs /\ guard' # None
    BY <2>1, RunAssumption
  <2>3. TypeOK'
    BY <1>2, <2>1, <2>2 DEF Link, CreateIfAbsent, Inv, TypeOK, NotYetThere
  <2>4. (EvidenceIsGuarded /\ SameInputs /\ CasesDiffer)'
    BY <2>1, EmptySeq DEF EvidenceIsGuarded, SameInputs, CasesDiffer
  <2>5. \A q \in Runs : pc[q] \notin Authorized
    BY <1>2, RunAssumption DEF Inv, Local, AuthorizedByGuard
  <2>6. TracedCases' = TracedCases
    BY <2>1 DEF TracedCases
  <2>7. ASSUME NEW q \in Runs
        PROVE  Local(q)'
    BY <2>1, <2>2, <2>5, <2>6 DEF Link, Inv, TypeOK, Local, LinkIsFresh, AuthorizedByGuard, Passed, NotYetThere, Authorized
  <2> QED
    BY <2>3, <2>4, <2>7 DEF Inv
<1> QED
  BY <1>1, <1>2

LEMMA OpenStep ==
  ASSUME Inv, NEW r \in Runs, Open(r)
  PROVE  Inv'
<1> USE DEF guardFile, traceFile, progress, bounds, Goto, Put
<1>1. UNCHANGED <<guard, guardDurable, trace, traceDurable, next, crashes, powerLosses>>
  BY DEF Open
<1>2. TracedCases' = TracedCases /\ TracedCases \subseteq CaseIds
  BY <1>1, Traced DEF TracedCases, Inv
<1>3. pc[r] = "open" /\ pc' = [pc EXCEPT ![r] = "evaluate"]
      /\ completed' = [completed EXCEPT ![r] = TracedCases]
  BY DEF Open
<1>4. TypeOK'
  BY <1>1, <1>2, <1>3 DEF Inv, TypeOK
<1>5. next[r] = 1
  BY <1>3 DEF Inv, Local, Passed, NotYetThere
<1>6. Local(r)'
  <2>1. pc'[r] = "evaluate" /\ completed'[r] = TracedCases /\ next'[r] = 1
    BY <1>1, <1>3, <1>5 DEF Inv, TypeOK
  <2>2. guard' = InputsOf[r]
    BY <1>1, <1>3 DEF Inv, Local, AuthorizedByGuard, Authorized
  <2>3. Passed(r)'
    BY <1>2, <2>1 DEF Passed, NotYetThere
  <2> QED
    BY <2>1, <2>2, <2>3 DEF Local, LinkIsFresh, AuthorizedByGuard
<1>7. \A q \in Runs \ {r} : UNCHANGED <<pc[q], completed[q], next[q]>>
  BY <1>1, <1>3 DEF Inv, TypeOK
<1> QED
  BY <1>1, <1>4, <1>6, <1>7, OneRun

LEMMA SkipStep ==
  ASSUME Inv, NEW r \in Runs, Skip(r)
  PROVE  Inv'
<1> USE DEF guardFile, traceFile, progress, bounds, Goto, Put
<1>1. UNCHANGED <<guard, guardDurable, trace, traceDurable, pc, completed, crashes, powerLosses>>
  BY DEF Skip
<1>2. next' = [next EXCEPT ![r] = next[r] + 1] /\ Tasks[next[r]] \in completed[r] /\ pc[r] = "evaluate"
  BY DEF Skip
<1>3. next[r] \in Nat \ {0} /\ Len(Tasks) \in Nat
  BY TasksInOrder DEF Inv, TypeOK
<1>4. TypeOK'
  BY <1>1, <1>2 DEF Inv, TypeOK
<1>5. Local(r)'
  <2>1. next'[r] = next[r] + 1
    BY <1>2 DEF Inv, TypeOK
  <2>2. /\ completed[r] \subseteq TracedCases
        /\ \A i \in 1..Len(Tasks) : i < next[r] => Tasks[i] \in TracedCases
    BY <1>2 DEF Inv, Local, Passed
  <2>3. TracedCases' = TracedCases
    BY <1>1 DEF TracedCases
  <2>4. \A i \in 1..Len(Tasks) : i < next[r] + 1 => Tasks[i] \in TracedCases
    <3> SUFFICES ASSUME NEW i \in 1..Len(Tasks), i < next[r] + 1
                 PROVE  Tasks[i] \in TracedCases
      OBVIOUS
    <3>1. i < next[r] \/ i = next[r]
      BY <1>3
    <3> QED
      BY <1>2, <2>2, <3>1
  <2>5. Passed(r)'
    BY <1>1, <1>2, <2>1, <2>2, <2>3, <2>4 DEF Passed, NotYetThere
  <2> QED
    BY <1>1, <1>2, <2>5 DEF Inv, Local, LinkIsFresh, AuthorizedByGuard
<1>6. \A q \in Runs \ {r} : UNCHANGED <<pc[q], completed[q], next[q]>>
  BY <1>1, <1>2 DEF Inv, TypeOK
<1> QED
  BY <1>1, <1>4, <1>5, <1>6, OneRun

LEMMA FinishStep ==
  ASSUME Inv, NEW r \in Runs, Finish(r)
  PROVE  Inv'
<1> USE DEF guardFile, traceFile, progress, bounds, Goto, Put
<1>1. UNCHANGED <<guard, guardDurable, trace, traceDurable, completed, next, crashes, powerLosses>>
  BY DEF Finish
<1>2. pc[r] = "evaluate" /\ pc' = [pc EXCEPT ![r] = "done"] /\ next[r] > Len(Tasks)
  BY DEF Finish
<1>3. TypeOK'
  BY <1>1, <1>2 DEF Inv, TypeOK
<1>4. TracedCases' = TracedCases /\ pc'[r] = "done"
  BY <1>1, <1>2 DEF TracedCases, Inv, TypeOK
<1>5. Local(r)'
  <2>1. Passed(r)'
    BY <1>1, <1>2, <1>4 DEF Inv, Local, Passed, NotYetThere
  <2> QED
    BY <1>1, <1>2, <1>4, <2>1 DEF Inv, Local, LinkIsFresh, AuthorizedByGuard, Authorized
<1>6. \A q \in Runs \ {r} : UNCHANGED <<pc[q], completed[q], next[q]>>
  BY <1>1, <1>2 DEF Inv, TypeOK
<1> QED
  BY <1>1, <1>3, <1>5, <1>6, OneRun

LEMMA CrashStep ==
  ASSUME Inv, NEW r \in Runs, Crash(r)
  PROVE  Inv'
<1> USE DEF guardFile, traceFile, progress, bounds, Goto, Put
<1>1. UNCHANGED <<guard, guardDurable, trace, traceDurable, completed, next, powerLosses>>
  BY DEF Crash
<1>2. pc' = [pc EXCEPT ![r] = "down"] /\ crashes' = crashes + 1
  BY DEF Crash
<1>3. TypeOK'
  BY <1>1, <1>2 DEF Inv, TypeOK
<1>4. Local(r)'
  BY <1>2 DEF Inv, TypeOK, Local, LinkIsFresh, AuthorizedByGuard, Passed, NotYetThere, Authorized
<1>5. \A q \in Runs \ {r} : UNCHANGED <<pc[q], completed[q], next[q]>>
  BY <1>1, <1>2 DEF Inv, TypeOK
<1> QED
  BY <1>1, <1>3, <1>4, <1>5, OneRun

\* The evidence of the guard's inputs, of a case the trace does not have.
LEMMA EvaluateStep ==
  ASSUME Inv, NEW r \in Runs, Evaluate(r)
  PROVE  Inv'
<1> USE DEF guardFile, traceFile, progress, bounds, Goto, Put
<1> DEFINE case == Tasks[next[r]]
           e == Evidence(r, case)
<1>1. UNCHANGED <<guard, guardDurable, traceDurable, completed, crashes, powerLosses>>
  BY DEF Evaluate
<1>2. pc[r] = "evaluate" /\ next[r] \in Nat \ {0} /\ next[r] \in 1..Len(Tasks)
  BY TasksInOrder DEF Evaluate, Inv, TypeOK
<1>3. guard = InputsOf[r] /\ guard # None /\ guard \in Inputs
  BY <1>2, RunAssumption DEF Inv, Local, AuthorizedByGuard, Authorized
<1>4. case \in CaseIds
  BY <1>2, TasksInOrder
<1>5. e = [case |-> case, inputs |-> guard] /\ e \in [case : CaseIds, inputs : Inputs]
  BY <1>3, <1>4 DEF Evidence
<1>6. \A i \in 1..Len(trace) : trace[i].inputs = guard
  BY <1>3 DEF Inv, EvidenceIsGuarded
<1>7. IsNew(case) \/ e \in ToSet(trace)
  <2> SUFFICES ASSUME case \in TracedCases
               PROVE  e \in ToSet(trace)
    BY DEF IsNew
  <2>1. PICK i \in 1..Len(trace) : trace[i].case = case
    BY Traced DEF Inv
  <2>2. trace[i] \in [case : CaseIds, inputs : Inputs] /\ trace[i].inputs = guard
    BY Traced, <1>6 DEF Inv
  <2>3. trace[i] = e
    BY <2>1, <2>2, <1>5
  <2> QED
    BY <2>3, Traced DEF Inv
<1>8. next' = [next EXCEPT ![r] = next[r] + 1] /\ pc' = pc
  BY <1>7 DEF Evaluate
<1>9. /\ trace' \in Seq([case : CaseIds, inputs : Inputs])
      /\ TracedCases' = TracedCases \cup {case}
      /\ \A i \in 1..Len(trace') : trace'[i].inputs = guard
      /\ CasesDiffer'
  <2>1. CASE IsNew(case)
    <3>1. trace' = Append(trace, e)
      BY <2>1 DEF Evaluate
    <3>2. /\ trace' \in Seq([case : CaseIds, inputs : Inputs])
          /\ Len(trace') = Len(trace) + 1
          /\ \A i \in 1..Len(trace) : trace'[i] = trace[i]
          /\ trace'[Len(trace) + 1] = e
          /\ TracedCases' = TracedCases \cup {e.case}
      BY <3>1, <1>5, AppendOne DEF Inv
    <3>3. Len(trace) \in Nat /\ \A i \in 1..Len(trace) : trace[i].case # case
      BY <2>1, Traced DEF IsNew, Inv
    <3>4. e.case = case /\ e.inputs = guard
      BY <1>5
    <3> HIDE DEF e, case
    <3>5. \A i \in 1..Len(trace') : i \in 1..Len(trace) \/ i = Len(trace) + 1
      BY <3>2, <3>3
    <3>6. CasesDiffer'
      BY <3>2, <3>3, <3>4, <3>5 DEF Inv, CasesDiffer
    <3> QED
      BY <3>2, <3>4, <3>5, <3>6, <1>6
  <2>2. CASE ~IsNew(case)
    <3>1. trace' = trace /\ case \in TracedCases
      BY <2>2 DEF Evaluate, IsNew
    <3> QED
      BY <3>1, <1>6 DEF TracedCases, Inv, TypeOK, CasesDiffer
  <2> QED
    BY <2>1, <2>2
<1>10. TypeOK'
  BY <1>1, <1>2, <1>8, <1>9 DEF Inv, TypeOK
<1>11. EvidenceIsGuarded' /\ SameInputs'
  BY <1>1, <1>9 DEF EvidenceIsGuarded, SameInputs
<1>12. ASSUME NEW q \in Runs
       PROVE  Local(q)'
  <2>1. LinkIsFresh(q)' /\ AuthorizedByGuard(q)' /\ pc'[q] # "conflict"
    BY <1>1, <1>3, <1>8 DEF Inv, Local, LinkIsFresh, AuthorizedByGuard
  <2>2. next'[q] = IF q = r THEN next[r] + 1 ELSE next[q]
    BY <1>8 DEF Inv, TypeOK
  <2>3. Passed(q)
    BY DEF Inv, Local
  <2>4. ASSUME pc[q] \in {"evaluate", "done"}
        PROVE  \A i \in 1..Len(Tasks) : i < next'[q] => Tasks[i] \in TracedCases'
    <3> SUFFICES ASSUME NEW i \in 1..Len(Tasks), i < next'[q], ~(i < next[q])
                 PROVE  Tasks[i] \in TracedCases'
      BY <1>9, <2>3, <2>4 DEF Passed
    <3>1. q = r /\ i = next[r]
      BY <1>2, <2>2
    <3> QED
      BY <1>9, <3>1
  <2>5. Passed(q)'
    BY <1>1, <1>2, <1>8, <1>9, <2>2, <2>3, <2>4 DEF Passed, NotYetThere
  <2> QED
    BY <2>1, <2>5 DEF Local
<1> QED
  BY <1>9, <1>10, <1>11, <1>12 DEF Inv

\* Nobody runs after a power loss, and what is left of the trace is of one run.
LEMMA PowerLossStep ==
  ASSUME Inv, PowerLoss
  PROVE  Inv'
<1>1. guard' \in {guard, None} /\ (trace' = trace \/ trace' = <<>>)
  BY DEF PowerLoss
<1>2. TypeOK'
  <2>1. trace' \in Seq([case : CaseIds, inputs : Inputs])
    BY <1>1, EmptySeq DEF Inv, TypeOK
  <2>2. guardDurable' \in BOOLEAN /\ traceDurable' \in BOOLEAN
    BY DEF PowerLoss
  <2>3. pc' \in [Runs -> NotYetThere \cup {"down", "refused", "evaluate", "done", "conflict"}]
    BY DEF PowerLoss
  <2>4. UNCHANGED <<completed, next, crashes>> /\ powerLosses' = powerLosses + 1
    BY DEF PowerLoss, progress
  <2> QED
    BY <1>1, <2>1, <2>2, <2>3, <2>4 DEF Inv, TypeOK
<1>3. (EvidenceIsGuarded /\ SameInputs /\ CasesDiffer)'
  <2>1. CASE trace' = trace
    BY <1>1, <2>1 DEF Inv, EvidenceIsGuarded, SameInputs, CasesDiffer
  <2>2. CASE trace' = <<>>
    BY <2>2, EmptySeq DEF EvidenceIsGuarded, SameInputs, CasesDiffer
  <2> QED
    BY <1>1, <2>1, <2>2
<1>4. \A r \in Runs : Local(r)'
  <2>1. \A r \in Runs : pc'[r] = "down"
    BY DEF PowerLoss
  <2> QED
    BY <2>1 DEF Local, LinkIsFresh, AuthorizedByGuard, Passed, NotYetThere, Authorized
<1> QED
  BY <1>2, <1>3, <1>4 DEF Inv

LEMMA NextInv == Inv /\ [Next]_vars => Inv'
<1> SUFFICES ASSUME Inv, [Next]_vars
             PROVE  Inv'
  OBVIOUS
<1>1. ASSUME NEW r \in Runs, Start(r) \/ Run(r) \/ Crash(r)
      PROVE  Inv'
  BY <1>1, AuthorizeStep, LinkStep, OpenStep, SkipStep, EvaluateStep, FinishStep, CrashStep DEF Run
<1>2. CASE PowerLoss
  BY <1>2, PowerLossStep
<1>3. CASE UNCHANGED vars
  BY <1>3 DEF vars, guardFile, traceFile, progress, bounds, Inv, TypeOK, EvidenceIsGuarded, SameInputs,
              CasesDiffer, Local, LinkIsFresh, AuthorizedByGuard, Passed, TracedCases
<1> QED
  BY <1>1, <1>2, <1>3 DEF Next

-----------------------------------------------------------------------------
(* The theorems *)

\* ResumeGuard.authorize and evaluate_policy keep the whole invariant.
THEOREM EvaluationInvariant == Spec => []Inv
<1> QED
  BY InitInv, NextInv, PTL DEF Spec

\* Only evidence of one run's inputs ever shares a trace, however many runs
\* of however many inputs race for the directory, are killed and lose power.
THEOREM OneRunPerTraceAlways == Spec => []OneRunPerTrace
<1>1. Inv => OneRunPerTrace
  BY Traced DEF Inv, SameInputs, OneRunPerTrace
<1> QED
  BY <1>1, EvaluationInvariant, PTL

\* An authorized run never finds other evidence for one of its cases.
THEOREM AuthorizedRunsAgree == Spec => []NeverConflicts
<1>1. Inv => NeverConflicts
  BY DEF Inv, Local, NeverConflicts
<1> QED
  BY <1>1, EvaluationInvariant, PTL

\* A run that reports success leaves exactly its own evidence: one record for
\* each test task, whoever wrote it and however often the run was resumed.
THEOREM DoneMeansComplete == Spec => []DoneIsComplete
<1>1. ASSUME Inv, NEW r \in Runs, pc[r] = "done"
      PROVE  /\ ToSet(trace) = {Evidence(r, case) : case \in CaseIds}
             /\ Len(trace) = Len(Tasks)
  <2>1. guard = InputsOf[r] /\ guard # None
    BY <1>1, RunAssumption DEF Inv, Local, AuthorizedByGuard, Authorized
  <2>2. /\ TracedCases = {trace[i].case : i \in 1..Len(trace)}
        /\ ToSet(trace) = {trace[i] : i \in 1..Len(trace)}
        /\ \A i \in 1..Len(trace) : trace[i] \in [case : CaseIds, inputs : Inputs]
        /\ TracedCases \subseteq CaseIds
        /\ Len(trace) \in Nat
    BY <1>1, Traced DEF Inv
  <2>3. TracedCases = CaseIds
    <3>1. next[r] \in Nat /\ next[r] > Len(Tasks)
          /\ \A i \in 1..Len(Tasks) : i < next[r] => Tasks[i] \in TracedCases
      BY <1>1 DEF Inv, TypeOK, Local, Passed
    <3>2. \A i \in 1..Len(Tasks) : Tasks[i] \in TracedCases
      BY <3>1, TasksInOrder
    <3> QED
      BY <2>2, <3>2, TasksInOrder
  <2>4. \A i \in 1..Len(trace) : trace[i] = Evidence(r, trace[i].case)
    BY <1>1, <2>1, <2>2 DEF Inv, EvidenceIsGuarded, Evidence
  <2>5. ToSet(trace) = {Evidence(r, case) : case \in CaseIds}
    <3>1. \A case \in CaseIds : \E i \in 1..Len(trace) : trace[i].case = case
      BY <2>2, <2>3
    <3> QED
      BY <2>2, <2>4, <3>1
  <2>6. Len(trace) = Len(Tasks)
    <3> DEFINE f == [i \in 1..Len(trace) |-> trace[i].case]
               g == [i \in 1..Len(Tasks) |-> Tasks[i]]
    <3>1. f \in Surjection(1..Len(trace), CaseIds) /\ f \in Injection(1..Len(trace), CaseIds)
      <4>1. f \in [1..Len(trace) -> CaseIds]
        BY <2>2
      <4>2. \A i, j \in 1..Len(trace) : f[i] = f[j] => i = j
        BY <1>1 DEF Inv, CasesDiffer
      <4>3. \A case \in CaseIds : \E i \in 1..Len(trace) : f[i] = case
        BY <2>2, <2>3
      <4> QED
        BY <4>1, <4>2, <4>3 DEF Surjection, Injection, IsInjective
    <3>2. g \in Surjection(1..Len(Tasks), CaseIds) /\ g \in Injection(1..Len(Tasks), CaseIds)
      BY TasksInOrder DEF Surjection, Injection, IsInjective
    <3> HIDE DEF f, g
    <3> QED
      BY <2>2, <3>1, <3>2, TasksInOrder, SameLength
  <2> QED
    BY <2>5, <2>6
<1>2. Inv => DoneIsComplete
  BY <1>1 DEF DoneIsComplete
<1> QED
  BY <1>2, EvaluationInvariant, PTL

=============================================================================
