-------------------------- MODULE Workflow_proofs --------------------------
(***************************************************************************)
(* Proofs about WorkflowEnv, for every task and every policy: whatever the *)
(* DAG, the schemas, the budget and the calls a policy may issue; about    *)
(* Grounding, which extends it: the mask and the registry, two rule sets   *)
(* that share no code, agree on every task whose public schemas mirror its *)
(* nodes (PublicMirrorsTask, which GeneratedTasks checks of generated      *)
(* tasks), and the menus of such a task are never stuck; and about         *)
(* Demonstration, which extends that: on every task that keeps the         *)
(* contracts of the generators (GeneratedTask), whoever plays it, plans    *)
(* can be imitated, only the path to the goal wins, and a trajectory wins  *)
(* one goal.                                                               *)
(***************************************************************************)
EXTENDS Demonstration, SequenceTheorems, FiniteSetTheorems, TLAPS

Verdicts ==
    [valid: BOOLEAN, kind: Kinds \cup {None}, node: Nodes \cup {None}, replay: BOOLEAN]

\* The set of elements of a sequence that grew by one.
LEMMA ToSetAppend ==
  ASSUME NEW S, NEW s \in Seq(S), NEW e \in S
  PROVE  ToSet(Append(s, e)) = ToSet(s) \cup {e}
<1>1. /\ Len(Append(s, e)) = Len(s) + 1
      /\ Append(s, e)[Len(s) + 1] = e
      /\ \A i \in 1..Len(s) : Append(s, e)[i] = s[i]
      /\ Len(s) \in Nat
      /\ DOMAIN s = 1..Len(s)
      /\ DOMAIN Append(s, e) = 1..(Len(s) + 1)
  OBVIOUS
<1>2. \A x : x \in ToSet(Append(s, e)) => x \in ToSet(s) \cup {e}
  BY <1>1 DEF ToSet
<1>3. \A x : x \in ToSet(s) \cup {e} => x \in ToSet(Append(s, e))
  BY <1>1 DEF ToSet
<1> QED
  BY <1>2, <1>3

\* The empty sequence has no elements.
LEMMA ToSetEmpty == ToSet(<<>>) = {}
BY DEF ToSet

\* Every verdict of validate() has the shape of a ValidationResult.
LEMMA VerdictShape ==
  ASSUME NEW call \in Calls
  PROVE  Validate(call) \in Verdicts
<1>1. \A kind \in Kinds : Rejects(kind) \in Verdicts
  BY DEF Rejects, Verdicts
<1>2. \A n \in Nodes \cup {None} : Accepts(n, FALSE) \in Verdicts /\ Accepts(n, TRUE) \in Verdicts
  BY DEF Accepts, Verdicts
<1>3. QueryVerdict(call) \in Verdicts
  BY <1>1, <1>2 DEF QueryVerdict, Kinds
<1>4. GroundsToNode(call) => SafetyVerdict(call) \in Verdicts
  BY <1>1, <1>2 DEF SafetyVerdict, GroundsToNode, Kinds
<1>5. MutationVerdict(call) \in Verdicts
  BY <1>1, <1>2, <1>4 DEF MutationVerdict, PredecessorsDone, GroundsToNode, Kinds
<1> QED
  BY <1>1, <1>3, <1>5 DEF Validate, Kinds

\* What execute() may rely on when validate() let a mutation through that is
\* not a replay: the operation is grounded, new and enabled, the version is
\* current, and the call_id has never been used.
LEMMA CommitFacts ==
  ASSUME NEW call \in Calls,
         Validate(call).valid, ~Validate(call).replay,
         Schema[call.tool_name].mutating
  PROVE  LET n == call.arguments.operation_id IN
         /\ n \in Nodes
         /\ Node[n].tool_name = call.tool_name
         /\ call.tool_name \in Tools
         /\ Schema[call.tool_name].side_effect \notin Forbidden
         /\ n \notin Committed
         /\ Node[n].required_predecessors \subseteq Committed
         /\ call.arguments.expected_version = version
         /\ ~CallIdUsed(call)
         /\ SafetyVerdict(call).valid
<1> DEFINE n == call.arguments.operation_id
<1>1. \A kind : ~Rejects(kind).valid
  BY DEF Rejects
<1>2. Accepts(n, TRUE).replay
  BY DEF Accepts
<1>3. /\ ~SchemaError(call) /\ ~CallIdConflict(call)
      /\ Schema[call.tool_name].side_effect \notin Forbidden
      /\ Validate(call) = MutationVerdict(call)
  BY <1>1 DEF Validate
<1>4. /\ GroundsToNode(call) /\ ~ExactReplay(call) /\ ~AlreadyCompleted(n)
      /\ call.arguments.expected_version = version
      /\ Node[n].required_predecessors \subseteq Committed
      /\ SafetyVerdict(call).valid
  BY <1>1, <1>2, <1>3 DEF MutationVerdict, PredecessorsDone
<1> QED
  BY <1>3, <1>4 DEF SchemaError, GroundsToNode, AlreadyCompleted, CallIdConflict

-----------------------------------------------------------------------------
(* Type correctness: the budget is part of it, so it needs to be known that *)
(* an episode that is not done has steps left.                              *)

BudgetLeft == ~done => stepsTaken < MaxSteps

\* The accounting at the end of a step keeps the budget and the outcome in shape.
LEMMA AccountShape ==
  ASSUME TypeOK, BudgetLeft, ~done,
         NEW verdict \in Verdicts, Account(verdict)
  PROVE  /\ stepsTaken' \in 0..MaxSteps
         /\ done' \in BOOLEAN
         /\ outcome' \in Outcomes
         /\ BudgetLeft'
<1> DEFINE timedOut == OutOfBudget(StepsAfter(verdict)) /\ ~Success'
<1>1. /\ stepsTaken \in Nat /\ stepsTaken < MaxSteps /\ MaxSteps \in Nat
      /\ StepsAfter(verdict) = stepsTaken + 1
  BY TaskAssumption DEF TypeOK, BudgetLeft, StepsAfter
<1>2. Success' \in BOOLEAN /\ timedOut \in BOOLEAN
  BY DEF Success
<1>3. /\ stepsTaken' = StepsAfter(verdict)
      /\ done' = (Success' \/ timedOut)
      /\ outcome' = [accepted |-> verdict.valid, kind |-> verdict.kind,
                     node |-> verdict.node, replay |-> verdict.replay,
                     success |-> Success', timedOut |-> timedOut,
                     reward |-> Reward(verdict.valid, Success', timedOut)]
  BY DEF Account
<1>4. stepsTaken' \in 0..MaxSteps
  BY <1>1, <1>3
<1>5. done' \in BOOLEAN
  BY <1>2, <1>3
<1>6. BudgetLeft'
  <2>1. SUFFICES ASSUME ~done' PROVE stepsTaken' < MaxSteps
    BY DEF BudgetLeft
  <2>2. ~OutOfBudget(StepsAfter(verdict))
    BY <1>3, <2>1
  <2> QED
    BY <1>1, <1>3, <2>2 DEF OutOfBudget
<1>7. Reward(verdict.valid, Success', timedOut) \in {100, -100, -1, -15, 0}
  BY DEF Reward
<1>8. outcome' \in Outcomes
  <2> HIDE DEF timedOut
  <2> QED
    BY <1>2, <1>3, <1>7 DEF Outcomes, Verdicts
<1> QED
  BY <1>4, <1>5, <1>6, <1>8

\* Effects of a node on the business fields are values of business fields.
LEMMA EffectsShape ==
  ASSUME NEW n \in Nodes
  PROVE  /\ DOMAIN Node[n].effects \subseteq Fields
         /\ \A f \in DOMAIN Node[n].effects : Node[n].effects[f] \in Values
BY TaskAssumption DEF WorkflowNodes

\* A commit keeps the business state in shape.
LEMMA ApplyShape ==
  ASSUME TypeOK, NEW call \in Calls, Apply(call),
         call.arguments.operation_id \in Nodes
  PROVE  /\ completed' \in Seq(Nodes)
         /\ version' \in Nat
         /\ fields' \in [Fields -> Values]
         /\ sideEffects' \in Seq(SideEffects)
         /\ processed' \in Seq(CallIds)
         /\ ledger' \in [Keys -> Nodes \cup {None}]
         /\ auditLog' \in Seq(AuditEntries)
<1> DEFINE n == call.arguments.operation_id
           key == call.arguments.idempotency_key
<1> USE DEF TypeOK
<1>1. completed' \in Seq(Nodes) /\ version' \in Nat
  BY DEF Apply
<1>2. fields' \in [Fields -> Values]
  <2>1. fields' = [f \in Fields |-> IF f \in DOMAIN Node[n].effects
                                    THEN Node[n].effects[f] ELSE fields[f]]
    BY DEF Apply
  <2> QED
    BY <2>1, EffectsShape
<1>3. sideEffects' \in Seq(SideEffects)
  <2>1. Node[n].side_effect \in SideEffects \cup {None}
    BY TaskAssumption DEF WorkflowNodes
  <2>2. sideEffects' = RecordEffect(Node[n].side_effect)
    BY DEF Apply
  <2> QED
    BY <2>1, <2>2 DEF RecordEffect
<1>4. processed' \in Seq(CallIds)
  BY CallAssumption DEF Apply
<1>5. ledger' \in [Keys -> Nodes \cup {None}]
  BY DEF Apply
<1>6. auditLog' \in Seq(AuditEntries)
  <2>1. AuditEntry(call) \in AuditEntries
    BY CallAssumption DEF AuditEntry, AuditEntries
  <2>2. auditLog' = Append(auditLog, AuditEntry(call))
    BY DEF Apply
  <2> QED
    BY <2>1, <2>2
<1> QED
  BY <1>1, <1>2, <1>3, <1>4, <1>5, <1>6

\* The initial state, which Reset returns to, is in shape.
LEMMA InitialValues ==
  /\ <<>> \in Seq(Nodes) /\ <<>> \in Seq(SideEffects)
  /\ <<>> \in Seq(CallIds) /\ <<>> \in Seq(AuditEntries)
  /\ InitialFields \in [Fields -> Values]
  /\ InitialLedger \in [Keys -> Nodes \cup {None}]
  /\ 0 \in 0..MaxSteps /\ 0 < MaxSteps
  /\ FALSE \in BOOLEAN
  /\ NoOutcome \in Outcomes
<1>1. NoOutcome \in Outcomes
  BY DEF NoOutcome, Outcomes
<1> QED
  BY <1>1, TaskAssumption

\* The initial state is in shape.
LEMMA InitShape == Init => TypeOK /\ BudgetLeft
<1> SUFFICES ASSUME Init PROVE TypeOK /\ BudgetLeft
  OBVIOUS
<1>1. version \in Nat /\ stepsTaken \in 0..MaxSteps /\ BudgetLeft
  BY InitialValues DEF Init, BudgetLeft
<1>2. done \in BOOLEAN
  BY DEF Init
<1>3. /\ completed \in Seq(Nodes) /\ sideEffects \in Seq(SideEffects)
      /\ processed \in Seq(CallIds) /\ auditLog \in Seq(AuditEntries)
      /\ fields \in [Fields -> Values] /\ ledger \in [Keys -> Nodes \cup {None}]
      /\ outcome \in Outcomes
  BY InitialValues, Zenon DEF Init
<1> QED
  BY <1>1, <1>2, <1>3 DEF TypeOK

\* Every step keeps the state in shape.
LEMMA StepShape ==
  ASSUME TypeOK, BudgetLeft, [Next]_vars
  PROVE  TypeOK' /\ BudgetLeft'
<1>1. ASSUME NEW call \in Calls, CommitCall(call)
      PROVE  TypeOK' /\ BudgetLeft'
  <2>1. call.arguments.operation_id \in Nodes
    BY <1>1, CommitFacts DEF CommitCall
  <2>2. Apply(call) /\ Account(Validate(call)) /\ ~done
    BY <1>1 DEF CommitCall
  <2> QED
    BY <2>1, <2>2, VerdictShape, ApplyShape, AccountShape DEF TypeOK
<1>2. ASSUME NEW call \in Calls, AnswerCall(call) \/ RejectCall(call)
      PROVE  TypeOK' /\ BudgetLeft'
  <2>1. UNCHANGED business /\ Account(Validate(call)) /\ ~done
    BY <1>2 DEF AnswerCall, RejectCall
  <2> QED
    BY <2>1, VerdictShape, AccountShape DEF TypeOK, business
<1>3. CASE Reset
  BY <1>3, InitialValues DEF Reset, TypeOK, BudgetLeft
<1>4. CASE UNCHANGED vars
  BY <1>4 DEF vars, business, TypeOK, BudgetLeft
<1> QED
  BY <1>1, <1>2, <1>3, <1>4 DEF Next, Step

\* The state of the environment and its step accounting always have the
\* shapes the code gives them; in particular the budget is never overdrawn.
THEOREM TypeCorrect == Spec => []TypeOK
<1>1. Init => TypeOK /\ BudgetLeft
  BY InitShape
<1>2. TypeOK /\ BudgetLeft /\ [Next]_vars => (TypeOK /\ BudgetLeft)'
  BY StepShape
<1> QED
  BY <1>1, <1>2, PTL DEF Spec

-----------------------------------------------------------------------------
(* The history: what the pieces of the business state say about each other. *)

\* What a commit does to the three histories, position by position.
LEMMA CommitExtends ==
  ASSUME TypeOK, HistoryAgrees,
         NEW call \in Calls, CommitCall(call)
  PROVE  LET n == call.arguments.operation_id IN
         /\ Len(completed) \in Nat /\ Len(auditLog) = Len(completed)
         /\ DOMAIN completed = 1..Len(completed)
         /\ DOMAIN auditLog = 1..Len(completed)
         /\ DOMAIN completed' = 1..(Len(completed) + 1)
         /\ DOMAIN auditLog' = 1..(Len(completed) + 1)
         /\ Len(completed') = Len(completed) + 1
         /\ Len(auditLog') = Len(completed) + 1
         /\ completed'[Len(completed) + 1] = n
         /\ auditLog'[Len(completed) + 1] = AuditEntry(call)
         /\ \A i \in 1..Len(completed) : completed'[i] = completed[i]
         /\ \A i \in 1..Len(completed) : auditLog'[i] = auditLog[i]
<1>1. /\ completed' = Append(completed, call.arguments.operation_id)
      /\ auditLog' = Append(auditLog, AuditEntry(call))
  BY DEF CommitCall, Apply
<1>2. AuditEntry(call) \in AuditEntries /\ call.arguments.operation_id \in Nodes
  BY CommitFacts, CallAssumption DEF CommitCall, AuditEntry, AuditEntries, TypeOK
<1>3. completed \in Seq(Nodes) /\ auditLog \in Seq(AuditEntries) /\ Len(auditLog) = Len(completed)
  BY DEF TypeOK, HistoryAgrees
<1> QED
  BY <1>1, <1>2, <1>3

\* A commit keeps version, completed_nodes, audit_log and processed_call_ids
\* in agreement.
LEMMA CommitAgrees ==
  ASSUME TypeOK, HistoryAgrees,
         NEW call \in Calls, CommitCall(call)
  PROVE  HistoryAgrees'
<1> DEFINE n == call.arguments.operation_id
           L == Len(completed)
<1>1. /\ L \in Nat /\ Len(completed') = L + 1 /\ Len(auditLog') = L + 1
      /\ DOMAIN auditLog = 1..L /\ DOMAIN auditLog' = 1..(L + 1)
      /\ completed'[L + 1] = n /\ auditLog'[L + 1] = AuditEntry(call)
      /\ \A i \in 1..L : completed'[i] = completed[i] /\ auditLog'[i] = auditLog[i]
  BY CommitExtends
<1>2. AuditEntry(call) = [call_id |-> call.call_id, node |-> n,
                         request |-> Request(call), version |-> L + 1]
  BY DEF AuditEntry, HistoryAgrees
<1>3. version' = L + 1
  BY DEF CommitCall, Apply, HistoryAgrees
<1>4. \A i \in DOMAIN auditLog' :
        /\ auditLog'[i].node = completed'[i]
        /\ auditLog'[i].version = i
        /\ auditLog'[i].request.arguments.operation_id = completed'[i]
  <2> TAKE i \in DOMAIN auditLog'
  <2>1. CASE i = L + 1
    BY <2>1, <1>1, <1>2 DEF Request
  <2>2. CASE i \in 1..L
    BY <2>2, <1>1 DEF HistoryAgrees
  <2> QED
    BY <2>1, <2>2, <1>1
<1>5. ToSet(processed') = {auditLog'[i].call_id : i \in DOMAIN auditLog'} \ {NoCallId}
  <2> DEFINE ids == {auditLog[i].call_id : i \in DOMAIN auditLog}
             ids2 == {auditLog'[i].call_id : i \in DOMAIN auditLog'}
  <2>1. ids2 = ids \cup {call.call_id}
    <3>1. \A i \in 1..L : auditLog'[i].call_id = auditLog[i].call_id
      BY <1>1
    <3>2. auditLog'[L + 1].call_id = call.call_id
      BY <1>1, <1>2
    <3>3. 1..(L + 1) = (1..L) \cup {L + 1}
      BY <1>1
    <3> QED
      BY <1>1, <3>1, <3>2, <3>3
  <2>2. ToSet(processed) = ids \ {NoCallId}
    BY DEF HistoryAgrees
  <2>3. ToSet(processed') = IF call.call_id = NoCallId THEN ToSet(processed)
                            ELSE ToSet(processed) \cup {call.call_id}
    <3>1. processed \in Seq(CallIds) /\ call.call_id \in CallIds
      BY CallAssumption DEF TypeOK
    <3>2. processed' = IF call.call_id = NoCallId THEN processed
                       ELSE Append(processed, call.call_id)
      BY DEF CommitCall, Apply
    <3>3. ToSet(Append(processed, call.call_id)) = ToSet(processed) \cup {call.call_id}
      BY <3>1, ToSetAppend
    <3> QED
      BY <3>2, <3>3, Zenon
  <2> HIDE DEF ids, ids2
  <2>4. ToSet(processed') = ids2 \ {NoCallId}
    BY <2>1, <2>2, <2>3
  <2> QED
    BY <2>4 DEF ids2
<1> QED
  BY <1>1, <1>3, <1>4, <1>5 DEF HistoryAgrees

\* A commit adds a node that was not there, behind all its predecessors.
LEMMA CommitInOrder ==
  ASSUME TypeOK, HistoryAgrees, ExactlyOnceInOrder,
         NEW call \in Calls, CommitCall(call)
  PROVE  ExactlyOnceInOrder'
<1> DEFINE n == call.arguments.operation_id
           L == Len(completed)
<1>1. /\ L \in Nat
      /\ DOMAIN completed = 1..L /\ DOMAIN completed' = 1..(L + 1)
      /\ completed'[L + 1] = n
      /\ \A i \in 1..L : completed'[i] = completed[i]
  BY CommitExtends
<1>2. /\ \A i \in 1..L : completed[i] # n
      /\ \A p \in Node[n].required_predecessors : \E j \in 1..L : completed[j] = p
  BY CommitFacts, <1>1 DEF CommitCall, Committed, ToSet
<1> SUFFICES ASSUME NEW i \in 1..(L + 1)
             PROVE  /\ \A j \in 1..(L + 1) : completed'[i] = completed'[j] => i = j
                    /\ \A p \in Node[completed'[i]].required_predecessors :
                         \E j \in 1..(i - 1) : completed'[j] = p
  BY <1>1 DEF ExactlyOnceInOrder
<1>3. CASE i = L + 1
  BY <1>1, <1>2, <1>3
<1>4. CASE i \in 1..L
  <2>1. /\ \A j \in 1..L : completed[i] = completed[j] => i = j
        /\ \A p \in Node[completed[i]].required_predecessors :
             \E j \in 1..(i - 1) : completed[j] = p
    BY <1>1, <1>4 DEF ExactlyOnceInOrder
  <2>2. \A j \in 1..(i - 1) : j \in 1..L
    BY <1>1, <1>4
  <2> QED
    BY <1>1, <1>2, <1>4, <2>1, <2>2
<1> QED
  BY <1>1, <1>3, <1>4

\* A commit that carries a call_id is the first to do so.
LEMMA CommitNamesCall ==
  ASSUME TypeOK, HistoryAgrees, CallIdNamesOneRequest,
         NEW call \in Calls, CommitCall(call)
  PROVE  CallIdNamesOneRequest'
<1> DEFINE L == Len(completed)
<1>1. /\ L \in Nat
      /\ DOMAIN auditLog = 1..L /\ DOMAIN auditLog' = 1..(L + 1)
      /\ auditLog'[L + 1] = AuditEntry(call)
      /\ \A i \in 1..L : auditLog'[i] = auditLog[i]
  BY CommitExtends
<1>2. AuditEntry(call).call_id = call.call_id
  BY DEF AuditEntry
<1>3. call.call_id # NoCallId => \A i \in 1..L : auditLog[i].call_id # call.call_id
  <2>1. call.call_id = NoCallId \/ call.call_id \notin ToSet(processed)
    BY CommitFacts DEF CommitCall, CallIdUsed
  <2> QED
    BY <2>1, <1>1 DEF HistoryAgrees
<1>4. ASSUME NEW i \in 1..(L + 1), NEW j \in 1..(L + 1), i # j,
             auditLog'[i].call_id = auditLog'[j].call_id
      PROVE  auditLog'[i].call_id = NoCallId
  <2>1. CASE i = L + 1
    BY <1>1, <1>2, <1>3, <1>4, <2>1
  <2>2. CASE j = L + 1
    BY <1>1, <1>2, <1>3, <1>4, <2>2
  <2>3. CASE i \in 1..L /\ j \in 1..L
    BY <1>1, <1>4, <2>3 DEF CallIdNamesOneRequest
  <2> QED
    BY <1>1, <2>1, <2>2, <2>3
<1> QED
  BY <1>1, <1>4 DEF CallIdNamesOneRequest

\* The approval in the business state is the initial one or was written by a
\* committed operation.
ApprovalHasSource ==
    \/ fields[Approval] = InitialFields[Approval]
    \/ \E j \in DOMAIN completed :
         LET effects == Node[completed[j]].effects IN
         Approval \in DOMAIN effects /\ effects[Approval] = fields[Approval]

\* A commit of an operation with a safety token finds the approval recorded.
LEMMA CommitApproved ==
  ASSUME TypeOK, HistoryAgrees, ApprovalPrecedesGuarded, ApprovalHasSource,
         NEW call \in Calls, CommitCall(call)
  PROVE  ApprovalPrecedesGuarded' /\ ApprovalHasSource'
<1> DEFINE n == call.arguments.operation_id
           L == Len(completed)
           Grants(m, token) == /\ Approval \in DOMAIN Node[m].effects
                               /\ Node[m].effects[Approval] = token
<1>1. /\ L \in Nat
      /\ DOMAIN completed = 1..L /\ DOMAIN completed' = 1..(L + 1)
      /\ completed'[L + 1] = n
      /\ \A i \in 1..L : completed'[i] = completed[i]
  BY CommitExtends
<1>2. Node[n].safety_token # None => fields[Approval] = Node[n].safety_token
  BY CommitFacts DEF CommitCall, SafetyVerdict, Rejects, ApprovalRecorded
<1>3. ApprovalHasSource'
  <2>1. fields'[Approval] = IF Approval \in DOMAIN Node[n].effects
                            THEN Node[n].effects[Approval] ELSE fields[Approval]
    BY TaskAssumption DEF CommitCall, Apply
  <2>2. CASE Approval \in DOMAIN Node[n].effects
    BY <1>1, <2>1, <2>2 DEF ApprovalHasSource
  <2>3. CASE Approval \notin DOMAIN Node[n].effects
    BY <1>1, <2>1, <2>3 DEF ApprovalHasSource
  <2> QED
    BY <2>2, <2>3
<1>4. ASSUME NEW i \in 1..(L + 1), Node[completed'[i]].safety_token # None
      PROVE  \/ InitialFields[Approval] = Node[completed'[i]].safety_token
             \/ \E j \in 1..(i - 1) :
                  Grants(completed'[j], Node[completed'[i]].safety_token)
  <2>1. CASE i = L + 1
    BY <1>1, <1>2, <1>4, <2>1 DEF ApprovalHasSource
  <2>2. CASE i \in 1..L
    <3>1. \A j \in 1..(i - 1) : j \in 1..L
      BY <1>1, <2>2
    <3> QED
      BY <1>1, <1>4, <2>2, <3>1 DEF ApprovalPrecedesGuarded
  <2> QED
    BY <1>1, <2>1, <2>2
<1> QED
  BY <1>1, <1>3, <1>4 DEF ApprovalPrecedesGuarded

\* What a commit may say about idempotency keys: none at all, or one that no
\* other operation holds in the ledger.
LEMMA CommitKey ==
  ASSUME NEW call \in Calls, CommitCall(call)
  PROVE  LET key == call.arguments.idempotency_key IN
         /\ key \in Keys \cup {None}
         /\ key \in Keys => ledger[key] \in {None, call.arguments.operation_id}
<1> DEFINE n == call.arguments.operation_id
           key == call.arguments.idempotency_key
<1>1. /\ n \in Nodes /\ call.tool_name \in Tools
      /\ Node[n].tool_name = call.tool_name
      /\ SafetyVerdict(call).valid
  BY CommitFacts DEF CommitCall
<1>2. ~SchemaError(call)
  BY DEF CommitCall, Validate, Rejects
<1>3. key # IllTyped /\ (key = None <=> "idempotency_key" \notin Schema[call.tool_name].required)
  BY <1>2 DEF SchemaError, ArgNames
<1>4. key \in Keys \cup {None}
  BY <1>3, CallAssumption
<1>5. CASE key \in Keys
  <2>1. key # None
    BY <1>5, TaskAssumption
  <2>2. Node[n].safety_token # None
    BY <1>1, <1>3, <2>1, SchemaMatchesNode
  <2>3. ~LedgerCollision(call)
    BY <1>1, <2>2 DEF SafetyVerdict, Rejects
  <2> QED
    BY <1>4, <2>3 DEF LedgerCollision
<1> QED
  BY <1>4, <1>5

\* Every key the audit log mentions is bound, in the ledger, to the operation
\* it paid for.
LedgerHolds ==
    \A i \in DOMAIN auditLog :
      LET key == auditLog[i].request.arguments.idempotency_key IN
      /\ key \in Keys \cup {None}
      /\ key \in Keys => ledger[key] = auditLog[i].node

\* A commit with a key is the first with that key.
LEMMA CommitPaysOnce ==
  ASSUME TypeOK, HistoryAgrees, LedgerHolds, IdempotencyKeyOnce,
         NEW call \in Calls, CommitCall(call)
  PROVE  LedgerHolds' /\ IdempotencyKeyOnce'
<1> DEFINE n == call.arguments.operation_id
           key == call.arguments.idempotency_key
           L == Len(completed)
           Key(i) == auditLog[i].request.arguments.idempotency_key
           KeyAfter(i) == auditLog'[i].request.arguments.idempotency_key
<1>1. /\ L \in Nat
      /\ DOMAIN completed = 1..L
      /\ DOMAIN auditLog = 1..L /\ DOMAIN auditLog' = 1..(L + 1)
      /\ auditLog'[L + 1] = AuditEntry(call)
      /\ \A i \in 1..L : auditLog'[i] = auditLog[i]
  BY CommitExtends
<1>2. /\ AuditEntry(call).node = n
      /\ AuditEntry(call).request.arguments.idempotency_key = key
  BY DEF AuditEntry, Request
<1>3. /\ key \in Keys \cup {None}
      /\ key \in Keys => ledger[key] \in {None, n}
  BY CommitKey
<1>4. ledger' = IF key \in Keys THEN [ledger EXCEPT ![key] = n] ELSE ledger
  BY DEF CommitCall, Apply
<1>5. None \notin Keys /\ None \notin Nodes
  BY TaskAssumption
<1>6. \A i \in 1..L : auditLog[i].node \in Nodes /\ auditLog[i].node # n
  <2>1. n \notin Committed
    BY CommitFacts DEF CommitCall
  <2>2. \A i \in 1..L : auditLog[i].node = completed[i]
    BY <1>1 DEF HistoryAgrees
  <2>3. completed \in Seq(Nodes)
    BY DEF TypeOK
  <2> QED
    BY <1>1, <2>1, <2>2, <2>3 DEF Committed, ToSet
<1>7. \A i \in 1..L : Key(i) \in Keys => Key(i) # key
  BY <1>1, <1>3, <1>5, <1>6 DEF LedgerHolds
<1>8. ASSUME NEW i \in 1..(L + 1)
      PROVE  /\ KeyAfter(i) \in Keys \cup {None}
             /\ KeyAfter(i) \in Keys => ledger'[KeyAfter(i)] = auditLog'[i].node
  <2>1. CASE i = L + 1
    BY <1>1, <1>2, <1>3, <1>4, <2>1 DEF TypeOK
  <2>2. CASE i \in 1..L
    <3>1. KeyAfter(i) = Key(i) /\ auditLog'[i].node = auditLog[i].node
      BY <1>1, <2>2
    <3>2. Key(i) \in Keys => ledger'[Key(i)] = ledger[Key(i)]
      BY <1>4, <1>7, <2>2 DEF TypeOK
    <3> QED
      BY <1>1, <2>2, <3>1, <3>2 DEF LedgerHolds
  <2> QED
    BY <1>1, <2>1, <2>2
<1>9. ASSUME NEW i \in 1..(L + 1), NEW j \in 1..(L + 1), i # j,
             KeyAfter(i) = KeyAfter(j)
      PROVE  KeyAfter(i) = None
  <2>1. \A k \in 1..L : KeyAfter(k) = Key(k) /\ Key(k) \in Keys \cup {None}
    BY <1>1 DEF LedgerHolds
  <2>2. KeyAfter(L + 1) = key
    BY <1>1, <1>2
  <2>3. CASE i = L + 1 /\ j \in 1..L
    BY <1>3, <1>7, <1>9, <2>1, <2>2, <2>3
  <2>4. CASE j = L + 1 /\ i \in 1..L
    BY <1>3, <1>7, <1>9, <2>1, <2>2, <2>4
  <2>5. CASE i \in 1..L /\ j \in 1..L
    BY <1>1, <1>9, <2>1, <2>5 DEF IdempotencyKeyOnce
  <2> QED
    BY <1>1, <1>9, <2>3, <2>4, <2>5
<1> QED
  BY <1>1, <1>8, <1>9 DEF LedgerHolds, IdempotencyKeyOnce

-----------------------------------------------------------------------------
(* The inductive invariant: the properties, plus where approvals and ledger *)
(* bindings come from.                                                      *)

HistoryInv ==
    /\ HistoryAgrees
    /\ ExactlyOnceInOrder
    /\ CallIdNamesOneRequest
    /\ ApprovalPrecedesGuarded /\ ApprovalHasSource
    /\ IdempotencyKeyOnce /\ LedgerHolds

IInv == TypeOK /\ BudgetLeft /\ HistoryInv

\* An empty history agrees with itself.
LEMMA EmptyHistory ==
  ASSUME completed = <<>>, version = 0, fields = InitialFields,
         processed = <<>>, auditLog = <<>>
  PROVE  HistoryInv
<1>1. DOMAIN completed = {} /\ DOMAIN auditLog = {} /\ Len(completed) = 0 /\ Len(auditLog) = 0
  OBVIOUS
<1>2. HistoryAgrees
  BY <1>1, ToSetEmpty DEF HistoryAgrees
<1> QED
  BY <1>1, <1>2 DEF HistoryInv, ExactlyOnceInOrder, CallIdNamesOneRequest,
     ApprovalPrecedesGuarded, ApprovalHasSource, IdempotencyKeyOnce, LedgerHolds

\* The history invariant is about the business state only.
LEMMA SameHistory ==
  ASSUME HistoryInv, UNCHANGED business
  PROVE  HistoryInv'
BY DEF business, HistoryInv, HistoryAgrees, ExactlyOnceInOrder, CallIdNamesOneRequest,
   ApprovalPrecedesGuarded, ApprovalHasSource, IdempotencyKeyOnce, LedgerHolds

\* Every step preserves the history.
LEMMA StepHistory ==
  ASSUME IInv, [Next]_vars
  PROVE  HistoryInv'
<1> USE DEF IInv
<1>1. ASSUME NEW call \in Calls, CommitCall(call)
      PROVE  HistoryInv'
  BY <1>1, CommitAgrees, CommitInOrder, CommitNamesCall, CommitApproved, CommitPaysOnce
     DEF HistoryInv
<1>2. ASSUME NEW call \in Calls, AnswerCall(call) \/ RejectCall(call)
      PROVE  HistoryInv'
  BY <1>2, SameHistory DEF AnswerCall, RejectCall
<1>3. CASE Reset
  <2>1. DOMAIN completed' = {} /\ DOMAIN auditLog' = {} /\ Len(completed') = 0 /\ Len(auditLog') = 0
    BY <1>3 DEF Reset
  <2>2. HistoryAgrees'
    BY <1>3, <2>1, ToSetEmpty DEF Reset, HistoryAgrees
  <2> QED
    BY <1>3, <2>1, <2>2 DEF Reset, HistoryInv, ExactlyOnceInOrder, CallIdNamesOneRequest,
       ApprovalPrecedesGuarded, ApprovalHasSource, IdempotencyKeyOnce, LedgerHolds
<1>4. CASE UNCHANGED vars
  BY <1>4, SameHistory DEF vars
<1> QED
  BY <1>1, <1>2, <1>3, <1>4 DEF Next, Step

\* The inductive invariant holds of every behaviour.
THEOREM Invariance == Spec => []IInv
<1>1. Init => IInv
  BY InitShape, EmptyHistory DEF Init, IInv
<1>2. IInv /\ [Next]_vars => IInv'
  BY StepShape, StepHistory DEF IInv
<1> QED
  BY <1>1, <1>2, PTL DEF Spec

\* Version, completed_nodes, audit_log and processed_call_ids never drift apart.
THEOREM HistoryCorrect == Spec => []HistoryAgrees
<1>1. IInv => HistoryAgrees
  BY DEF IInv, HistoryInv
<1> QED
  BY <1>1, Invariance, PTL

\* However calls are repeated or reordered, an operation takes effect at most
\* once and only after its predecessors.
THEOREM ExactlyOnce == Spec => []ExactlyOnceInOrder
<1>1. IInv => ExactlyOnceInOrder
  BY DEF IInv, HistoryInv
<1> QED
  BY <1>1, Invariance, PTL

\* A call_id stands for one committed request.
THEOREM CallIdsUnique == Spec => []CallIdNamesOneRequest
<1>1. IInv => CallIdNamesOneRequest
  BY DEF IInv, HistoryInv
<1> QED
  BY <1>1, Invariance, PTL

\* No operation with a safety token is committed before its approval.
THEOREM ApprovalFirst == Spec => []ApprovalPrecedesGuarded
<1>1. IInv => ApprovalPrecedesGuarded
  BY DEF IInv, HistoryInv
<1> QED
  BY <1>1, Invariance, PTL

\* No two commits of an episode carry the same idempotency key.
THEOREM KeysPayOnce == Spec => []IdempotencyKeyOnce
<1>1. IInv => IdempotencyKeyOnce
  BY DEF IInv, HistoryInv
<1> QED
  BY <1>1, Invariance, PTL

\* A call that validate() would answer as a replay names an operation that
\* has happened, for every call, in every reachable state.
THEOREM ReplaysAreReal == Spec => []ReplayNamesCommitted
<1>1. ASSUME IInv, NEW call \in Calls, Validate(call).replay
      PROVE  Validate(call).node \in Committed
  <2> DEFINE n == call.arguments.operation_id
  <2>1. /\ \A kind : ~Rejects(kind).replay
        /\ \A m : ~Accepts(m, FALSE).replay
        /\ Accepts(n, TRUE).node = n
    BY DEF Rejects, Accepts
  <2>2. Validate(call) = MutationVerdict(call)
    BY <1>1, <2>1 DEF Validate, QueryVerdict
  <2>3. ~SafetyVerdict(call).replay
    BY <2>1 DEF SafetyVerdict
  <2>4. /\ Validate(call) = Accepts(n, TRUE)
        /\ ExactReplay(call) \/ AlreadyCompleted(n)
    BY <1>1, <2>1, <2>2, <2>3 DEF MutationVerdict, PredecessorsDone
  <2>5. ExactReplay(call) => n \in Committed
    <3>1. ASSUME ExactReplay(call) PROVE n \in Committed
      <4>1. PICK i \in DOMAIN auditLog : auditLog[i].request = Request(call)
        BY <3>1 DEF ExactReplay
      <4>2. auditLog[i].request.arguments.operation_id = n
        BY <4>1 DEF Request
      <4>3. completed[i] = n /\ i \in DOMAIN completed
        BY <1>1, <4>2 DEF IInv, HistoryInv, HistoryAgrees, TypeOK
      <4> QED
        BY <4>3 DEF Committed, ToSet
    <3> QED
      BY <3>1
  <2> QED
    BY <2>1, <2>4, <2>5 DEF AlreadyCompleted
<1>2. IInv => ReplayNamesCommitted
  BY <1>1 DEF ReplayNamesCommitted
<1> QED
  BY <1>2, Invariance, PTL

\* Marking one more position of a sequence adds one to the count of the marked.
LEMMA CountsOneMore ==
  ASSUME NEW L \in Nat, NEW marked \in SUBSET (1..L)
  PROVE  /\ Cardinality(marked) \in Nat
         /\ Cardinality(marked \cup {L + 1}) = Cardinality(marked) + 1
<1>1. IsFiniteSet(marked)
  <2>1. 1 \in Int /\ L \in Int
    OBVIOUS
  <2>2. IsFiniteSet(1..L)
    BY <2>1, FS_Interval
  <2> QED
    BY <2>2, FS_Subset
<1>2. L + 1 \notin marked
  OBVIOUS
<1> QED
  BY <1>1, <1>2, FS_CardinalityType, FS_AddElement

\* A commit records its own side effect, once, and never a forbidden one: the tool
\* that validate() asked declares what the node does.
LEMMA CommitRecordsEffect ==
  ASSUME IInv, SideEffectsAreThoseOfCommits,
         NEW call \in Calls, CommitCall(call)
  PROVE  SideEffectsAreThoseOfCommits'
<1> DEFINE n == call.arguments.operation_id
           effect == Node[n].side_effect
           L == Len(completed)
           M == Len(sideEffects)
<1>1. /\ n \in Nodes /\ effect \in SideEffects \cup {None}
      /\ effect = Schema[call.tool_name].side_effect /\ effect \notin Forbidden
  BY CommitFacts, SchemaMatchesNode, TaskAssumption DEF CommitCall, WorkflowNodes
<1>2. /\ L \in Nat /\ DOMAIN completed = 1..L /\ DOMAIN completed' = 1..(L + 1)
      /\ completed'[L + 1] = n
      /\ \A i \in 1..L : completed'[i] = completed[i]
  BY CommitExtends DEF IInv, HistoryInv
<1>3. /\ sideEffects \in Seq(SideEffects)
      /\ sideEffects' = IF effect = None THEN sideEffects ELSE Append(sideEffects, effect)
  BY DEF CommitCall, Apply, RecordEffect, IInv, TypeOK
<1>4. /\ M \in Nat /\ DOMAIN sideEffects = 1..M
      /\ effect # None =>
           /\ DOMAIN sideEffects' = 1..(M + 1)
           /\ sideEffects'[M + 1] = effect
           /\ \A i \in 1..M : sideEffects'[i] = sideEffects[i]
  BY <1>1, <1>3
<1>5. ToSet(sideEffects') \cap Forbidden = {}
  <2>1. ToSet(sideEffects') \subseteq ToSet(sideEffects) \cup {effect}
    BY <1>1, <1>3, ToSetAppend
  <2> QED
    BY <1>1, <2>1 DEF SideEffectsAreThoseOfCommits
<1>6. ASSUME NEW e \in SideEffects
      PROVE  Cardinality({i \in DOMAIN sideEffects' : sideEffects'[i] = e})
             = Cardinality({i \in DOMAIN completed' : Node[completed'[i]].side_effect = e})
  <2> DEFINE recorded == {i \in DOMAIN sideEffects : sideEffects[i] = e}
             committed == {i \in DOMAIN completed : Node[completed[i]].side_effect = e}
  <2>1. Cardinality(recorded) = Cardinality(committed)
    BY DEF SideEffectsAreThoseOfCommits
  <2>2. recorded \in SUBSET (1..M) /\ committed \in SUBSET (1..L)
    BY <1>2, <1>4
  <2>3. CASE effect = e
    <3>1. {i \in DOMAIN sideEffects' : sideEffects'[i] = e} = recorded \cup {M + 1}
      BY <1>4, <2>3, TaskAssumption
    <3>2. {i \in DOMAIN completed' : Node[completed'[i]].side_effect = e}
            = committed \cup {L + 1}
      BY <1>2, <2>3
    <3> HIDE DEF recorded, committed
    <3>3. Cardinality(recorded \cup {M + 1}) = Cardinality(recorded) + 1
      BY <1>4, <2>2, CountsOneMore
    <3>4. Cardinality(committed \cup {L + 1}) = Cardinality(committed) + 1
      BY <1>2, <2>2, CountsOneMore
    <3> QED
      BY <2>1, <3>1, <3>2, <3>3, <3>4
  <2>4. CASE effect # e
    <3>1. {i \in DOMAIN sideEffects' : sideEffects'[i] = e} = recorded
      BY <1>3, <1>4, <2>4
    <3>2. {i \in DOMAIN completed' : Node[completed'[i]].side_effect = e} = committed
      BY <1>2, <2>4
    <3> QED
      BY <2>1, <3>1, <3>2
  <2> QED
    BY <2>3, <2>4
<1> QED
  BY <1>5, <1>6 DEF SideEffectsAreThoseOfCommits

\* Each step, whoever plays, keeps the account of side effects.
LEMMA StepKeepsEffects ==
  ASSUME IInv, SideEffectsAreThoseOfCommits, [Next]_vars
  PROVE  SideEffectsAreThoseOfCommits'
<1>1. ASSUME NEW call \in Calls, AnswerCall(call) \/ RejectCall(call)
      PROVE  SideEffectsAreThoseOfCommits'
  BY <1>1 DEF AnswerCall, RejectCall, business, SideEffectsAreThoseOfCommits
<1>2. CASE Reset
  <2>1. DOMAIN completed' = {} /\ DOMAIN sideEffects' = {} /\ ToSet(sideEffects') = {}
    BY <1>2, ToSetEmpty DEF Reset
  <2> QED
    BY <2>1 DEF SideEffectsAreThoseOfCommits
<1>3. CASE UNCHANGED vars
  BY <1>3 DEF vars, business, SideEffectsAreThoseOfCommits
<1> QED
  BY <1>1, <1>2, <1>3, CommitRecordsEffect DEF Next, Step

\* No policy leaves a forbidden side effect behind, and the effects that evaluate()
\* counts are those of the committed operations, one for one.
THEOREM EffectsAreAccounted == Spec => []SideEffectsAreThoseOfCommits
<1>1. Init => SideEffectsAreThoseOfCommits
  <2>1. DOMAIN <<>> = {}
    OBVIOUS
  <2> QED
    BY <2>1, ToSetEmpty DEF Init, SideEffectsAreThoseOfCommits
<1>2. IInv /\ SideEffectsAreThoseOfCommits /\ [Next]_vars => SideEffectsAreThoseOfCommits'
  BY StepKeepsEffects
<1> QED
  BY <1>1, <1>2, Invariance, PTL DEF Spec

\* A binding of the idempotency ledger, inherited or made, is never
\* overwritten while the episode lasts.
THEOREM LedgerIsFinal == Spec => LedgerNeverRebinds
<1> DEFINE Keeps == \A k \in Keys :
             ledger[k] # None /\ stepsTaken' > stepsTaken => ledger'[k] = ledger[k]
<1>1. IInv /\ [Next]_vars => [Keeps]_vars
  <2> SUFFICES ASSUME IInv, [Next]_vars, NEW k \in Keys,
                      ledger[k] # None, stepsTaken' > stepsTaken
               PROVE  ledger'[k] = ledger[k]
    OBVIOUS
  <2>1. ASSUME NEW call \in Calls, CommitCall(call)
        PROVE  ledger'[k] = ledger[k]
    <3> DEFINE key == call.arguments.idempotency_key
    <3>1. ledger' = IF key \in Keys
                    THEN [ledger EXCEPT ![key] = call.arguments.operation_id] ELSE ledger
      BY <2>1 DEF CommitCall, Apply
    <3>2. key \in Keys => ledger[key] \in {None, call.arguments.operation_id}
      BY <2>1, CommitKey
    <3> QED
      BY <3>1, <3>2 DEF IInv, TypeOK
  <2>2. ASSUME NEW call \in Calls, AnswerCall(call) \/ RejectCall(call)
        PROVE  ledger'[k] = ledger[k]
    BY <2>2 DEF AnswerCall, RejectCall, business
  <2>3. ~Reset
    BY DEF Reset, IInv, TypeOK
  <2>4. stepsTaken' # stepsTaken
    BY DEF IInv, TypeOK
  <2> QED
    BY <2>1, <2>2, <2>3, <2>4 DEF Next, Step, vars
<1> QED
  BY <1>1, Invariance, PTL DEF Spec, LedgerNeverRebinds

-----------------------------------------------------------------------------
(* Refinement: the environment is one abstract episode after another. *)

\* Paying for a call, at the concrete and at the abstract level.
LEMMA AccountSpends ==
  ASSUME TypeOK, BudgetLeft, ~done,
         NEW verdict \in Verdicts, Account(verdict)
  PROVE  Episode!Spend
<1>1. /\ stepsTaken \in Nat /\ MaxSteps \in Nat /\ stepsTaken < MaxSteps
      /\ stepsTaken' = stepsTaken + 1 /\ done' \in BOOLEAN
      /\ stepsTaken' \in 0..MaxSteps /\ BudgetLeft'
  BY AccountShape, TaskAssumption DEF TypeOK, BudgetLeft, Account, StepsAfter
<1>2. MaxSteps - stepsTaken' = 0 => done'
  BY <1>1 DEF BudgetLeft
<1>3. MaxSteps - stepsTaken > 0 /\ MaxSteps - stepsTaken' = (MaxSteps - stepsTaken) - 1
  BY <1>1
<1> QED
  BY <1>1, <1>2, <1>3 DEF Episode!Spend

\* Every step of the environment is a step of the abstract episode.
LEMMA StepRefines ==
  ASSUME IInv, [Next]_vars
  PROVE  [Episode!Next]_Episode!avars
<1>1. ASSUME NEW call \in Calls, CommitCall(call)
      PROVE  Episode!Next
  <2> DEFINE n == call.arguments.operation_id
  <2>1. /\ n \in Nodes /\ n \notin Committed
        /\ Node[n].required_predecessors \subseteq Committed
    BY <1>1, CommitFacts DEF CommitCall
  <2>2. Committed' = Committed \cup {n}
    <3>1. completed' = Append(completed, n) /\ completed \in Seq(Nodes)
      BY <1>1 DEF CommitCall, Apply, IInv, TypeOK
    <3> QED
      BY <2>1, <3>1, ToSetAppend DEF Committed
  <2>3. Episode!Spend
    BY <1>1, VerdictShape, AccountSpends DEF CommitCall, IInv
  <2>4. Episode!Commit(n)
    BY <2>1, <2>2, <2>3 DEF Episode!Commit
  <2> QED
    BY <2>1, <2>4 DEF Episode!Next
<1>2. ASSUME NEW call \in Calls, AnswerCall(call) \/ RejectCall(call)
      PROVE  Episode!Next
  <2>1. Committed' = Committed
    BY <1>2 DEF AnswerCall, RejectCall, business, Committed
  <2>2. Episode!Spend
    BY <1>2, VerdictShape, AccountSpends DEF AnswerCall, RejectCall, IInv
  <2> QED
    BY <2>1, <2>2 DEF Episode!Next, Episode!NoCommit
<1>3. CASE Reset
  <2>1. Committed' = {} /\ stepsTaken' = 0 /\ done' = FALSE
    BY <1>3, ToSetEmpty DEF Reset, Committed
  <2>2. MaxSteps - stepsTaken' = MaxSteps
    BY <2>1, TaskAssumption
  <2> QED
    BY <2>1, <2>2 DEF Episode!Next, Episode!Restart
<1>4. CASE UNCHANGED vars
  BY <1>4 DEF vars, business, Episode!avars, Committed
<1> QED
  BY <1>1, <1>2, <1>3, <1>4 DEF Next, Step

\* The environment implements the abstract episode: its bookkeeping, replays,
\* queries and refusals are, step by step, commits of a DAG in order under a
\* budget every call is charged to.
THEOREM Refinement == Spec => ImplementsEpisode
<1>1. Init => Episode!Init
  <2>1. Init => Committed = {}
    BY ToSetEmpty DEF Init, Committed
  <2>2. Init => MaxSteps - stepsTaken = MaxSteps
    BY TaskAssumption DEF Init
  <2> QED
    BY <2>1, <2>2 DEF Init, Episode!Init
<1>2. IInv /\ [Next]_vars => [Episode!Next]_Episode!avars
  BY StepRefines
<1> QED
  BY <1>1, <1>2, Invariance, PTL DEF Spec, Episode!Spec, ImplementsEpisode

-----------------------------------------------------------------------------
(* Grounding: what holds of its tasks beside IInv *)

\* Once an approving operation is committed, its token stands: the reason why the
\* mask may ask the visible state where the registry asks the hidden node.
ApprovalStands ==
    \A n \in Committed :
      Approval \in DOMAIN Node[n].effects => fields[Approval] = Node[n].effects[Approval]

-----------------------------------------------------------------------------
(* One call in one state *)

\* What the audit log holds has been committed, so an exact replay repeats a
\* completed operation.
LEMMA ReplayIsCompleted ==
  ASSUME IInv, NEW call, ExactReplay(call)
  PROVE  call.arguments.operation_id \in Committed
<1> DEFINE n == call.arguments.operation_id
<1>1. PICK i \in DOMAIN auditLog : auditLog[i].request = Request(call)
  BY DEF ExactReplay
<1>2. auditLog[i].request.arguments.operation_id = n
  BY <1>1 DEF Request
<1>3. completed[i] = n /\ i \in DOMAIN completed
  BY <1>2 DEF IInv, HistoryInv, HistoryAgrees, TypeOK
<1> QED
  BY <1>3 DEF Committed, ToSet

\* The two validations of arguments against a schema are the same.
LEMMA SameSchemaErrors ==
  ASSUME PublicSchemas, NEW call
  PROVE  MaskSchemaError(call) <=> SchemaError(call)
<1>1. DOMAIN Public = Tools
  BY DEF PublicSchemas
<1>2. CASE call.tool_name \notin Tools
  BY <1>1, <1>2 DEF MaskSchemaError, SchemaError
<1>3. CASE call.tool_name \in Tools
  <2> DEFINE given == {a \in ArgNames : call.arguments[a] # None}
             declared == Schema[call.tool_name].required
  <2>1. declared \subseteq ArgNames
    BY <1>3, TaskAssumption DEF ToolSchemas
  <2>2. MaskSchemaError(call) <=>
          \/ declared \ given # {}
          \/ given \ declared # {}
          \/ \E a \in given : call.arguments[a] = IllTyped
    BY <1>1, <1>3 DEF MaskSchemaError
  <2>3. SchemaError(call) <=>
          \E a \in ArgNames : \/ call.arguments[a] = IllTyped
                              \/ a \in given /\ a \notin declared
                              \/ a \notin given /\ a \in declared
    BY <1>3 DEF SchemaError
  <2>4. \A a \in ArgNames : call.arguments[a] = IllTyped => a \in given
    BY TaskAssumption
  <2> HIDE DEF declared
  <2> QED
    BY <2>1, <2>2, <2>3, <2>4
<1> QED
  BY <1>2, <1>3

\* What its tool and operation tell of a well-formed call to an allowed mutating tool.
LEMMA MirroredMutation ==
  ASSUME PublicMirrorsTask, NEW call, ~SchemaError(call),
         Public[call.tool_name].policy_allowed, Schema[call.tool_name].mutating
  PROVE  LET t == call.tool_name
             n == call.arguments.operation_id IN
         /\ t \in Tools
         /\ Schema[t].side_effect \notin Forbidden
         /\ Schema[t].idempotent
         /\ GroundsToNode(call) <=> n = Public[t].operation_id
         /\ n = Public[t].operation_id =>
              /\ n \in Nodes
              /\ Public[t].required_completed_operations = Node[n].required_predecessors
              /\ Guarded(t) <=> Node[n].safety_token # None
<1> DEFINE t == call.tool_name
           n == call.arguments.operation_id
<1>1. t \in Tools
  BY DEF SchemaError
<1>2. Schema[t].side_effect \notin Forbidden
  BY <1>1 DEF PublicMirrorsTask
<1>3. /\ Schema[t].idempotent
      /\ Public[t].operation_id \in Nodes /\ Node[Public[t].operation_id].tool_name = t
      /\ Public[t].required_completed_operations
           = Node[Public[t].operation_id].required_predecessors
      /\ Guarded(t) <=> Node[Public[t].operation_id].safety_token # None
  BY <1>1 DEF PublicMirrorsTask
<1>4. \A m \in Nodes : Public[Node[m].tool_name].operation_id = m
  BY DEF PublicMirrorsTask
<1>5. GroundsToNode(call) <=> n = Public[t].operation_id
  BY <1>3, <1>4 DEF GroundsToNode
<1> QED
  BY <1>1, <1>2, <1>3, <1>5

\* A guarded operation whose predecessors are completed finds its own token in
\* the business state.
LEMMA ApprovalIsThere ==
  ASSUME PublicMirrorsTask, ApprovalStands,
         NEW n \in Nodes, Node[n].safety_token # None,
         Node[n].required_predecessors \subseteq Committed
  PROVE  fields[Approval] = Node[n].safety_token
<1>1. PICK token \in Values :
        \A m \in Nodes :
          /\ Node[m].safety_token \in {None, token}
          /\ Approval \in DOMAIN Node[m].effects => Node[m].effects[Approval] = token
          /\ Node[m].safety_token # None =>
               \E p \in Node[m].required_predecessors : Approval \in DOMAIN Node[p].effects
  BY DEF PublicMirrorsTask, ApprovalComesFirst
<1>2. PICK p \in Node[n].required_predecessors : Approval \in DOMAIN Node[p].effects
  BY <1>1
<1>3. p \in Committed /\ p \in Nodes
  BY <1>2, TaskAssumption DEF WorkflowNodes
<1>4. fields[Approval] = Node[p].effects[Approval]
  BY <1>2, <1>3 DEF ApprovalStands
<1> QED
  BY <1>1, <1>2, <1>3, <1>4

\* On the state a call may read beyond the mask's reach, and only there, the two
\* differ: a spent call_id or a foreign idempotency key.
LEMMA OneCall ==
  ASSUME IInv, ApprovalStands, PublicSchemas, PublicMirrorsTask, NEW call,
         Decision(MaskVerdict(call)) # Decision(Validate(call))
  PROVE  /\ ~SchemaError(call)
         /\ Decision(Validate(call)) = [valid |-> FALSE, kind |-> "safety"]
         /\ \/ CallIdConflict(call)
            \/ call.arguments.idempotency_key \in Keys /\ LedgerCollision(call)
<1> DEFINE t == call.tool_name
           n == call.arguments.operation_id
           key == call.arguments.idempotency_key
<1>1. ~SchemaError(call)
  BY SameSchemaErrors DEF MaskVerdict, Validate
<1>2. t \in Tools /\ ~MaskSchemaError(call)
  BY <1>1, SameSchemaErrors DEF SchemaError
<1>3. Decision(Rejects("safety")) = [valid |-> FALSE, kind |-> "safety"]
  BY DEF Decision, Rejects
<1>4. CASE CallIdConflict(call)
  BY <1>1, <1>3, <1>4 DEF Validate
<1>5. ASSUME ~CallIdConflict(call) PROVE Public[t].policy_allowed
  <2>1. SUFFICES ASSUME ~Public[t].policy_allowed PROVE FALSE
    OBVIOUS
  <2>2. Schema[t].side_effect \in Forbidden
    BY <1>2, <2>1 DEF PublicMirrorsTask
  <2> QED
    BY <1>1, <1>2, <1>5, <2>1, <2>2 DEF MaskVerdict, Validate
<1>6. ASSUME ~CallIdConflict(call) PROVE call.arguments.entity_id = Entity
  <2>1. Schema[t].side_effect \notin Forbidden
    BY <1>2, <1>5, <1>6 DEF PublicMirrorsTask
  <2> QED
    BY <1>1, <1>2, <1>5, <1>6, <2>1 DEF MaskVerdict, Validate
<1>7. ASSUME ~CallIdConflict(call) PROVE Schema[t].mutating
  <2>1. SUFFICES ASSUME ~Schema[t].mutating PROVE FALSE
    OBVIOUS
  <2>2. /\ Public[t].policy_allowed /\ Schema[t].side_effect \notin Forbidden
        /\ call.arguments.entity_id = Entity
    BY <1>2, <1>5, <1>6, <1>7 DEF PublicMirrorsTask
  <2>3. /\ Public[t].operation_id = InspectStatus
        /\ Public[t].required_completed_operations = {}
        /\ Approval \notin Schema[t].required
    BY <1>2, <2>1, <2>2 DEF PublicMirrorsTask, Guarded
  <2>4. Validate(call) = QueryVerdict(call)
    BY <1>1, <1>7, <2>1, <2>2 DEF Validate
  <2>5. MaskVerdict(call) = QueryVerdict(call)
    BY <1>2, <2>1, <2>2, <2>3 DEF MaskVerdict, QueryVerdict, PrerequisitesMet
  <2> QED
    BY <2>4, <2>5
<1>8. CASE ~CallIdConflict(call)
  <2>1. /\ Public[t].policy_allowed /\ Schema[t].mutating
        /\ call.arguments.entity_id = Entity
    BY <1>5, <1>6, <1>7, <1>8
  <2>2. /\ Schema[t].side_effect \notin Forbidden /\ Schema[t].idempotent
        /\ GroundsToNode(call) <=> n = Public[t].operation_id
        /\ n = Public[t].operation_id =>
             /\ n \in Nodes
             /\ Public[t].required_completed_operations = Node[n].required_predecessors
             /\ Guarded(t) <=> Node[n].safety_token # None
    BY <1>1, <2>1, MirroredMutation
  <2>3. Validate(call) = MutationVerdict(call)
    BY <1>1, <1>8, <2>1, <2>2 DEF Validate
  <2>4. n = Public[t].operation_id
    BY <1>2, <2>1, <2>2, <2>3 DEF MaskVerdict, MutationVerdict, PredecessorsDone
  <2>5. n \notin Committed
    <3>1. SUFFICES ASSUME n \in Committed PROVE FALSE
      OBVIOUS
    <3>2. MaskVerdict(call) = Accepts(n, TRUE)
      BY <1>2, <2>1, <2>2, <2>4, <3>1 DEF MaskVerdict
    <3>3. Validate(call) = Accepts(n, TRUE)
      BY <2>2, <2>3, <2>4, <3>1 DEF MutationVerdict, PredecessorsDone, AlreadyCompleted
    <3> QED
      BY <3>2, <3>3
  <2>6. ~ExactReplay(call)
    BY <2>5, ReplayIsCompleted
  <2>7. /\ call.arguments.expected_version = version
        /\ Node[n].required_predecessors \subseteq Committed
    BY <1>2, <2>1, <2>2, <2>3, <2>4, <2>5, <2>6
       DEF MaskVerdict, MutationVerdict, PredecessorsDone, AlreadyCompleted, PrerequisitesMet
  <2>8. Validate(call) = SafetyVerdict(call)
    BY <2>2, <2>3, <2>4, <2>5, <2>6, <2>7 DEF MutationVerdict, PredecessorsDone, AlreadyCompleted
  <2>9. MaskVerdict(call) = IF Guarded(t) THEN MaskApproval(call) ELSE Accepts(n, FALSE)
    BY <1>2, <2>1, <2>2, <2>4, <2>5, <2>7 DEF MaskVerdict, PrerequisitesMet, Guarded
  <2>10. Guarded(t) /\ Node[n].safety_token # None
    BY <2>2, <2>4, <2>8, <2>9 DEF SafetyVerdict
  <2>11. fields[Approval] = Node[n].safety_token
    BY <2>2, <2>4, <2>7, <2>10, ApprovalIsThere
  <2>12. ApprovalRecorded(Node[n].safety_token)
    BY <2>11 DEF ApprovalRecorded
  <2>13. key \in Keys \ BlankKeys /\ LedgerCollision(call)
    BY <2>8, <2>9, <2>10, <2>11, <2>12 DEF SafetyVerdict, MaskApproval
  <2>14. Validate(call) = Rejects("safety")
    BY <2>8, <2>10, <2>12, <2>13 DEF SafetyVerdict
  <2> QED
    BY <1>1, <1>3, <2>13, <2>14
<1> QED
  BY <1>4, <1>8

-----------------------------------------------------------------------------
(* Every state *)

\* A commit leaves the approval of earlier commits standing.
LEMMA CommitKeepsApproval ==
  ASSUME PublicMirrorsTask, IInv, ApprovalStands,
         NEW call \in Calls, CommitCall(call)
  PROVE  ApprovalStands'
<1> DEFINE n == call.arguments.operation_id
<1>1. PICK token \in Values :
        \A m \in Nodes : Approval \in DOMAIN Node[m].effects => Node[m].effects[Approval] = token
  BY DEF PublicMirrorsTask, ApprovalComesFirst
<1>2. n \in Nodes
  BY CommitFacts DEF CommitCall
<1>3. Committed' = Committed \cup {n}
  <2>1. completed' = Append(completed, n) /\ completed \in Seq(Nodes)
    BY DEF CommitCall, Apply, IInv, TypeOK
  <2> QED
    BY <1>2, <2>1, ToSetAppend DEF Committed
<1>4. fields'[Approval] = IF Approval \in DOMAIN Node[n].effects
                          THEN Node[n].effects[Approval] ELSE fields[Approval]
  BY TaskAssumption DEF CommitCall, Apply
<1>5. Committed \subseteq Nodes
  BY DEF Committed, ToSet, IInv, TypeOK
<1> QED
  BY <1>1, <1>2, <1>3, <1>4, <1>5 DEF ApprovalStands

\* So does every step.
LEMMA StepKeepsApproval ==
  ASSUME PublicMirrorsTask, IInv, ApprovalStands, [Next]_vars
  PROVE  ApprovalStands'
<1>1. ASSUME NEW call \in Calls, AnswerCall(call) \/ RejectCall(call)
      PROVE  ApprovalStands'
  BY <1>1 DEF AnswerCall, RejectCall, business, ApprovalStands, Committed
<1>2. CASE Reset
  BY <1>2, ToSetEmpty DEF Reset, ApprovalStands, Committed
<1>3. CASE UNCHANGED vars
  BY <1>3 DEF vars, business, ApprovalStands, Committed
<1> QED
  BY <1>1, <1>2, <1>3, CommitKeepsApproval DEF Next, Step

\* A granted approval stands until the episode ends, in every behaviour.
LEMMA ApprovalAlwaysStands ==
  ASSUME PublicMirrorsTask
  PROVE  Spec => []ApprovalStands
<1>1. Init => ApprovalStands
  BY ToSetEmpty DEF Init, ApprovalStands, Committed
<1>2. IInv /\ ApprovalStands /\ [Next]_vars => ApprovalStands'
  BY StepKeepsApproval
<1> QED
  BY <1>1, <1>2, Invariance, PTL DEF Spec

\* Whatever a policy calls, in whatever order, the mask's prediction differs from
\* the environment's label only on a spent call_id or a foreign idempotency key,
\* which are hidden from it, and then the environment refuses.
THEOREM MaskErrsOnlyWhereBlind ==
  ASSUME PublicSchemas, PublicMirrorsTask
  PROVE  Spec => []MaskErrsOnlyOnHiddenState
<1>1. IInv /\ ApprovalStands => MaskErrsOnlyOnHiddenState
  BY OneCall DEF MaskErrsOnlyOnHiddenState
<1> QED
  BY <1>1, Invariance, ApprovalAlwaysStands, PTL

-----------------------------------------------------------------------------
(* The agent: only calls of its own menus *)

\* Call_ids on record carry versions that are past.
IdsArePast ==
    \A i \in DOMAIN auditLog :
      /\ auditLog[i].call_id[2] \in Nat
      /\ auditLog[i].call_id[2] < version

\* The builder's keys still belong to their operations.
LedgerIsOwn ==
    \A n \in {m \in Nodes : Node[m].safety_token # None} : ledger[CandidateKey[n]] \in {None, n}

MenuInv == IdsArePast /\ LedgerIsOwn

\* Every candidate names a tool of the task and carries the current version in its
\* call_id; its arguments are the builder's, or those with one spoiled.
LEMMA MenuCall ==
  ASSUME PublicSchemas, NEW call \in Menu
  PROVE  \E t \in Tools :
           /\ call.tool_name = t
           /\ call.call_id[2] = version
           /\ \/ call.arguments = Arguments(t)
              \/ call.arguments = [Arguments(t) EXCEPT !.operation_id = None]
              \/ call.arguments = [Arguments(t) EXCEPT !.entity_id = WrongEntity]
              \/ call.arguments = [Arguments(t) EXCEPT !.expected_version = version + 1]
<1>1. Anchors \subseteq Tools /\ StatusQuery \in Tools
  BY DEF Anchors, Ready, Progress, PublicSchemas
<1>2. \A kind, t, arguments, detail :
        LET c == Candidate(kind, t, arguments, detail) IN
        c.tool_name = t /\ c.arguments = arguments /\ c.call_id[2] = version
  BY DEF Candidate
<1>3. CASE call \in Executable
  BY <1>1, <1>2, <1>3 DEF Executable, ValidCandidates, QueryCandidates, ReplayCandidates,
     ContextQueries, Ready, Progress
<1>4. CASE call \in SchemaCandidates
  BY <1>1, <1>2, <1>4 DEF SchemaCandidates
<1>5. CASE call \in GroundingCandidates
  BY <1>1, <1>2, <1>5 DEF GroundingCandidates
<1>6. CASE call \in PreconditionCandidates
  BY <1>1, <1>2, <1>6 DEF PreconditionCandidates, Blocked, Progress
<1>7. CASE call \in SafetyCandidates
  BY <1>1, <1>2, <1>7 DEF SafetyCandidates
<1> QED
  BY <1>3, <1>4, <1>5, <1>6, <1>7 DEF Menu

\* A candidate that passes the schema check carries the operation of its schema,
\* and this operation's key if, and only if, it is guarded.
LEMMA MenuKey ==
  ASSUME PublicSchemas, NEW call \in Menu, ~SchemaError(call)
  PROVE  LET t == call.tool_name IN
         /\ t \in Tools
         /\ call.call_id[2] = version
         /\ call.arguments.operation_id = Public[t].operation_id
         /\ call.arguments.idempotency_key
              = IF Guarded(t) THEN CandidateKey[Public[t].operation_id] ELSE None
<1>1. PICK t \in Tools :
        /\ call.tool_name = t
        /\ call.call_id[2] = version
        /\ \/ call.arguments = Arguments(t)
           \/ call.arguments = [Arguments(t) EXCEPT !.operation_id = None]
           \/ call.arguments = [Arguments(t) EXCEPT !.entity_id = WrongEntity]
           \/ call.arguments = [Arguments(t) EXCEPT !.expected_version = version + 1]
  BY MenuCall
<1>2. call.arguments.operation_id # None
  BY <1>1, TaskAssumption DEF SchemaError, ArgNames
<1> QED
  BY <1>1, <1>2 DEF Arguments, Guarded

\* The call carries the current version, the operation of its schema and, if this
\* is guarded, the operation's own key.
IsOwn(call) ==
    LET t == call.tool_name
        n == call.arguments.operation_id
    IN  /\ t \in Tools
        /\ call.call_id[2] = version
        /\ n = Public[t].operation_id
        /\ call.arguments.idempotency_key = IF Guarded(t) THEN CandidateKey[n] ELSE None

\* The key of such a call is free for its operation, and its call_id is new.
LEMMA OwnIsNew ==
  ASSUME IInv, MenuInv, PublicMirrorsTask, NEW call, IsOwn(call)
  PROVE  /\ ~CallIdUsed(call)
         /\ call.arguments.idempotency_key \in Keys => ~LedgerCollision(call)
<1> DEFINE t == call.tool_name
           n == call.arguments.operation_id
<1>1. /\ t \in Tools
      /\ call.call_id[2] = version
      /\ n = Public[t].operation_id
      /\ call.arguments.idempotency_key = IF Guarded(t) THEN CandidateKey[n] ELSE None
  BY DEF IsOwn
<1>2. ~CallIdUsed(call)
  <2>1. SUFFICES ASSUME CallIdUsed(call) PROVE FALSE
    OBVIOUS
  <2>2. PICK i \in DOMAIN auditLog : auditLog[i].call_id = call.call_id
    BY <2>1 DEF CallIdUsed, IInv, HistoryInv, HistoryAgrees
  <2> QED
    BY <1>1, <2>2 DEF MenuInv, IdsArePast
<1>3. ASSUME call.arguments.idempotency_key \in Keys PROVE ~LedgerCollision(call)
  <2>1. Guarded(t)
    BY <1>1, <1>3, TaskAssumption
  <2>2. n \in Nodes /\ Node[n].safety_token # None
    BY <1>1, <2>1 DEF PublicMirrorsTask
  <2> QED
    BY <1>1, <2>1, <2>2 DEF MenuInv, LedgerIsOwn, LedgerCollision
<1> QED
  BY <1>2, <1>3

\* Candidates are such calls.
LEMMA MenuIsNew ==
  ASSUME IInv, MenuInv, PublicSchemas, PublicMirrorsTask, CandidateKeysAreOwn,
         NEW call \in Menu, ~SchemaError(call)
  PROVE  /\ ~CallIdUsed(call)
         /\ call.arguments.idempotency_key \in Keys => ~LedgerCollision(call)
BY MenuKey, OwnIsNew DEF IsOwn

\* Once committed, such a call becomes the past, and paid with its own key.
LEMMA OwnCommit ==
  ASSUME IInv, MenuInv, PublicMirrorsTask, CandidateKeysAreOwn,
         NEW call \in Calls, IsOwn(call), CommitCall(call)
  PROVE  MenuInv'
<1> DEFINE t == call.tool_name
           n == call.arguments.operation_id
           key == call.arguments.idempotency_key
           L == Len(completed)
<1>1. /\ call.call_id[2] = version
      /\ n = Public[t].operation_id
      /\ key = IF Guarded(t) THEN CandidateKey[n] ELSE None
      /\ t \in Tools
  BY DEF IsOwn
<1>2. /\ L \in Nat
      /\ DOMAIN auditLog = 1..L /\ DOMAIN auditLog' = 1..(L + 1)
      /\ auditLog'[L + 1] = AuditEntry(call)
      /\ \A i \in 1..L : auditLog'[i] = auditLog[i]
  BY CommitExtends DEF IInv, HistoryInv
<1>3. version \in Nat /\ version' = version + 1
  BY DEF CommitCall, Apply, IInv, TypeOK
<1>4. ASSUME NEW i \in 1..(L + 1)
      PROVE  auditLog'[i].call_id[2] \in Nat /\ auditLog'[i].call_id[2] < version'
  <2>1. CASE i = L + 1
    BY <1>1, <1>2, <1>3, <2>1 DEF AuditEntry
  <2>2. CASE i \in 1..L
    BY <1>2, <1>3, <2>2 DEF MenuInv, IdsArePast
  <2> QED
    BY <1>2, <2>1, <2>2
<1>5. ASSUME NEW m \in Nodes, Node[m].safety_token # None
      PROVE  ledger'[CandidateKey[m]] \in {None, m}
  <2>1. /\ ledger \in [Keys -> Nodes \cup {None}]
        /\ ledger' = IF key \in Keys THEN [ledger EXCEPT ![key] = n] ELSE ledger
    BY DEF CommitCall, Apply, IInv, TypeOK
  <2>2. ledger[CandidateKey[m]] \in {None, m} /\ CandidateKey[m] \in Keys
    BY <1>5 DEF MenuInv, LedgerIsOwn, CandidateKeysAreOwn
  <2>3. CASE key \in Keys /\ CandidateKey[m] = key
    <3>1. Guarded(t)
      BY <1>1, <2>3, TaskAssumption
    <3>2. n \in Nodes /\ Node[n].safety_token # None /\ key = CandidateKey[n]
      BY <1>1, <3>1 DEF PublicMirrorsTask
    <3>3. m = n
      BY <1>5, <2>3, <3>2 DEF CandidateKeysAreOwn
    <3> QED
      BY <2>1, <2>3, <3>3
  <2>4. CASE ~(key \in Keys /\ CandidateKey[m] = key)
    BY <2>1, <2>2, <2>4
  <2> QED
    BY <2>3, <2>4
<1> QED
  BY <1>2, <1>4, <1>5 DEF MenuInv, IdsArePast, LedgerIsOwn

\* A candidate that is committed is such a call.
LEMMA MenuCommit ==
  ASSUME IInv, MenuInv, PublicSchemas, PublicMirrorsTask, CandidateKeysAreOwn,
         NEW call \in Menu, call \in Calls, CommitCall(call)
  PROVE  MenuInv'
<1>1. ~SchemaError(call)
  BY DEF CommitCall, Validate, Rejects
<1> QED
  BY <1>1, MenuKey, OwnCommit DEF IsOwn

\* Agents keep to what their menus let them do.
LEMMA AgentInvariant ==
  ASSUME PublicSchemas, PublicMirrorsTask, CandidateKeysAreOwn
  PROVE  AgentSpec /\ [](Menu \subseteq Calls) => [](IInv /\ ApprovalStands /\ MenuInv)
<1>1. Init => MenuInv
  <2>1. DOMAIN <<>> = {}
    OBVIOUS
  <2> QED
    BY <2>1 DEF Init, MenuInv, IdsArePast, LedgerIsOwn, CandidateKeysAreOwn
<1>2. Menu \subseteq Calls /\ [AgentStep \/ Reset]_vars => [Next]_vars
  BY DEF AgentStep, Next, Step
<1>3. IInv /\ MenuInv /\ Menu \subseteq Calls /\ [AgentStep \/ Reset]_vars => MenuInv'
  <2> SUFFICES ASSUME IInv, MenuInv, Menu \subseteq Calls, [AgentStep \/ Reset]_vars
               PROVE  MenuInv'
    OBVIOUS
  <2>1. ASSUME NEW call \in Menu, CommitCall(call)
        PROVE  MenuInv'
    BY <2>1, MenuCommit
  <2>2. ASSUME NEW call \in Menu, AnswerCall(call) \/ RejectCall(call)
        PROVE  MenuInv'
    BY <2>2 DEF AnswerCall, RejectCall, business, MenuInv, IdsArePast, LedgerIsOwn
  <2>3. CASE Reset
    <3>1. DOMAIN auditLog' = {} /\ ledger' = InitialLedger
      BY <2>3 DEF Reset
    <3> QED
      BY <3>1 DEF MenuInv, IdsArePast, LedgerIsOwn, CandidateKeysAreOwn
  <2>4. CASE UNCHANGED vars
    BY <2>4 DEF vars, business, MenuInv, IdsArePast, LedgerIsOwn
  <2> QED
    BY <2>1, <2>2, <2>3, <2>4 DEF AgentStep
<1> QED
  BY <1>1, <1>2, <1>3, Invariance, ApprovalAlwaysStands, PTL DEF AgentSpec, Spec

\* So the two label all that is on a menu alike.
LEMMA MenuAgrees ==
  ASSUME IInv, ApprovalStands, MenuInv, PublicSchemas, PublicMirrorsTask, CandidateKeysAreOwn,
         NEW call \in Menu
  PROVE  Decision(MaskVerdict(call)) = Decision(Validate(call))
<1> SUFFICES ASSUME Decision(MaskVerdict(call)) # Decision(Validate(call)) PROVE FALSE
  OBVIOUS
<1>1. /\ ~SchemaError(call)
      /\ \/ CallIdConflict(call)
         \/ call.arguments.idempotency_key \in Keys /\ LedgerCollision(call)
  BY OneCall
<1> QED
  BY <1>1, MenuIsNew DEF CallIdConflict

\* As long as only candidates are called, the mask and the environment label every
\* candidate alike, error class included: an agent that obeys the mask is never
\* refused, and one that does not is refused for the reason the mask gave.
THEOREM MaskAgreesWithEnvironment ==
  ASSUME PublicSchemas, PublicMirrorsTask, CandidateKeysAreOwn
  PROVE  AgentSpec /\ [](Menu \subseteq Calls) => []MaskAgreesOnMenu
<1>1. IInv /\ ApprovalStands /\ MenuInv => MaskAgreesOnMenu
  BY MenuAgrees DEF MaskAgreesOnMenu
<1> QED
  BY <1>1, AgentInvariant, PTL

-----------------------------------------------------------------------------
(* The way forward *)

\* An allowed mutating tool stands for one node.
LEMMA OneNode ==
  ASSUME PublicMirrorsTask, NEW t \in Progress
  PROVE  LET n == Public[t].operation_id IN
         /\ t \in Tools
         /\ n \in Nodes /\ Node[n].tool_name = t
         /\ Public[t].required_completed_operations = Node[n].required_predecessors
         /\ Guarded(t) <=> Node[n].safety_token # None
BY DEF PublicMirrorsTask, Progress

\* What the builder writes passes the schema check, wrong entity and wrong version
\* included, once there is an approval to copy where one is asked for.
LEMMA WellWritten ==
  ASSUME IInv, PublicSchemas, PublicMirrorsTask, CandidateKeysAreOwn, ArgumentsAreProper,
         NEW t \in Tools, Guarded(t) => fields[Approval] # None,
         NEW call, call.tool_name = t,
         \/ call.arguments = Arguments(t)
         \/ call.arguments = [Arguments(t) EXCEPT !.entity_id = WrongEntity]
         \/ call.arguments = [Arguments(t) EXCEPT !.expected_version = version + 1]
  PROVE  ~SchemaError(call)
<1>1. Schema[t].required = {"entity_id", "operation_id", "expected_version"}
           \cup (IF Guarded(t) THEN {Approval, "idempotency_key"} ELSE {})
  BY DEF PublicMirrorsTask
<1>2. Guarded(t) => CandidateKey[Public[t].operation_id] \in Keys
  <2>1. Guarded(t) => t \in Progress
    BY DEF PublicMirrorsTask, Progress
  <2> QED
    BY <2>1, OneNode DEF CandidateKeysAreOwn
<1>3. /\ fields[Approval] \in Values /\ fields[Approval] # IllTyped
      /\ version \in Nat /\ version + 1 \in Nat
  BY TaskAssumption DEF IInv, TypeOK, ArgumentsAreProper
<1>4. /\ call.arguments.entity_id \in {Entity, WrongEntity}
      /\ call.arguments.operation_id = Public[t].operation_id
      /\ call.arguments.expected_version \in {version, version + 1}
      /\ call.arguments.approval_token = IF Guarded(t) THEN fields[Approval] ELSE None
      /\ call.arguments.idempotency_key
           = IF Guarded(t) THEN CandidateKey[Public[t].operation_id] ELSE None
  BY DEF Arguments, Guarded
<1>5. /\ call.arguments.entity_id \notin {None, IllTyped}
      /\ call.arguments.operation_id \notin {None, IllTyped}
      /\ call.arguments.expected_version \notin {None, IllTyped}
      /\ None # IllTyped /\ None \notin Keys
  BY <1>3, <1>4, TaskAssumption DEF ArgumentsAreProper
<1>6. Guarded(t) => /\ call.arguments.approval_token \notin {None, IllTyped}
                    /\ call.arguments.idempotency_key \notin {None, IllTyped}
  BY <1>2, <1>3, <1>4, <1>5 DEF ArgumentsAreProper
<1>7. \A a \in ArgNames :
        call.arguments[a] # IllTyped /\ (call.arguments[a] = None <=> a \notin Schema[t].required)
  BY <1>1, <1>4, <1>5, <1>6 DEF ArgNames, Approval
<1> QED
  BY <1>7 DEF SchemaError

\* What the builder writes for a ready operation passes every check but those of
\* state the builder does not see.
LEMMA ReadyIsCommitted ==
  ASSUME IInv, ApprovalStands, PublicSchemas, PublicMirrorsTask, CandidateKeysAreOwn,
         ArgumentsAreProper,
         NEW t \in Ready,
         NEW call, call.tool_name = t, call.arguments = Arguments(t),
         ~CallIdUsed(call),
         call.arguments.idempotency_key \in Keys => ~LedgerCollision(call)
  PROVE  Validate(call) = Accepts(Public[t].operation_id, FALSE)
<1> DEFINE n == Public[t].operation_id
           token == Node[n].safety_token
<1>1. /\ t \in Progress /\ n \notin Committed
      /\ Public[t].required_completed_operations \subseteq Committed
  BY DEF Ready, Completed, PrerequisitesMet
<1>2. /\ t \in Tools /\ n \in Nodes /\ Node[n].tool_name = t
      /\ Node[n].required_predecessors \subseteq Committed
      /\ Guarded(t) <=> token # None
  BY <1>1, OneNode
<1>3. Schema[t].mutating /\ Schema[t].side_effect \notin Forbidden
  BY <1>1 DEF PublicMirrorsTask, Progress
<1>4. token # None => fields[Approval] = token
  BY <1>2, ApprovalIsThere
<1>5. /\ call.arguments.entity_id = Entity
      /\ call.arguments.operation_id = n
      /\ call.arguments.expected_version = version
      /\ call.arguments.approval_token = IF Guarded(t) THEN token ELSE None
      /\ call.arguments.idempotency_key = IF Guarded(t) THEN CandidateKey[n] ELSE None
  BY <1>2, <1>4 DEF Arguments, Guarded
<1>6. ~SchemaError(call)
  BY <1>2, <1>4, WellWritten
<1>7. ~CallIdConflict(call) /\ ~ExactReplay(call)
  BY DEF CallIdConflict, ExactReplay
<1>8. GroundsToNode(call)
  BY <1>2, <1>5 DEF GroundsToNode
<1>9. Validate(call) = SafetyVerdict(call)
  BY <1>1, <1>2, <1>3, <1>5, <1>6, <1>7, <1>8
     DEF Validate, MutationVerdict, PredecessorsDone, AlreadyCompleted
<1>10. SafetyVerdict(call) = Accepts(n, FALSE)
  <2>1. CASE token = None
    BY <1>5, <2>1 DEF SafetyVerdict
  <2>2. CASE token # None
    <3>1. call.arguments.idempotency_key \in Keys \ BlankKeys /\ ~LedgerCollision(call)
      BY <1>2, <1>5, <2>2 DEF CandidateKeysAreOwn
    <3> QED
      BY <1>2, <1>4, <1>5, <2>2, <3>1 DEF SafetyVerdict, ApprovalRecorded
  <2> QED
    BY <2>1, <2>2
<1> QED
  BY <1>9, <1>10

\* In particular each valid candidate is committed when it is called.
LEMMA ValidIsCommitted ==
  ASSUME IInv, ApprovalStands, MenuInv, PublicSchemas, PublicMirrorsTask,
         CandidateKeysAreOwn, ArgumentsAreProper,
         NEW t \in Ready, NEW call \in ValidCandidates,
         call = Candidate("valid", t, Arguments(t), Public[t].operation_id)
  PROVE  /\ call \in Menu /\ call.tool_name = t
         /\ call.arguments.operation_id = Public[t].operation_id
         /\ ~CallIdUsed(call)
         /\ call.arguments.idempotency_key \in Keys => ~LedgerCollision(call)
         /\ Validate(call) = Accepts(Public[t].operation_id, FALSE)
<1>1. /\ call \in Menu /\ call.tool_name = t /\ call.arguments = Arguments(t)
      /\ call.arguments.operation_id = Public[t].operation_id
  BY DEF Menu, Executable, Candidate, Arguments
<1>2. /\ t \in Progress /\ t \in Tools
      /\ Public[t].required_completed_operations \subseteq Committed
  BY DEF Ready, PrerequisitesMet, Progress
<1>3. Guarded(t) => fields[Approval] # None
  BY <1>2, OneNode, ApprovalIsThere
<1>4. ~SchemaError(call)
  BY <1>1, <1>2, <1>3, WellWritten
<1> QED
  BY <1>1, <1>4, MenuIsNew, ReadyIsCommitted

\* Each operation that the DAG allows next has its candidate.
LEMMA WayForward ==
  ASSUME IInv, ApprovalStands, MenuInv, PublicSchemas, PublicMirrorsTask, CandidateKeysAreOwn,
         ArgumentsAreProper,
         NEW n \in Nodes, n \notin Committed, Node[n].required_predecessors \subseteq Committed
  PROVE  \E call \in ValidCandidates :
           /\ call.arguments.operation_id = n
           /\ MaskVerdict(call).valid
           /\ Validate(call) = Accepts(n, FALSE)
<1>1. PICK t \in Progress : Public[t].operation_id = n
  BY TaskAssumption DEF PublicMirrorsTask, WorkflowNodes, Progress
<1>2. t \in Ready
  BY <1>1, OneNode DEF Ready, Completed, PrerequisitesMet
<1>3. PICK call \in ValidCandidates :
        call = Candidate("valid", t, Arguments(t), Public[t].operation_id)
  BY <1>2 DEF ValidCandidates
<1>4. /\ call.arguments.operation_id = n
      /\ ~CallIdUsed(call)
      /\ call.arguments.idempotency_key \in Keys => ~LedgerCollision(call)
      /\ Validate(call) = Accepts(n, FALSE)
  BY <1>1, <1>2, <1>3, ValidIsCommitted
<1>5. Decision(MaskVerdict(call)) = Decision(Validate(call))
  BY <1>4, OneCall DEF CallIdConflict
<1>6. MaskVerdict(call).valid
  BY <1>4, <1>5 DEF Decision, Accepts
<1> QED
  BY <1>4, <1>6

\* Whatever an agent has done before, each operation that the DAG allows next is on
\* its menu, unmasked, and would be committed: no task runs into a dead end.
THEOREM WayForwardExists ==
  ASSUME PublicSchemas, PublicMirrorsTask, CandidateKeysAreOwn, ArgumentsAreProper
  PROVE  AgentSpec /\ [](Menu \subseteq Calls) => []WayForwardOffered
<1>1. IInv /\ ApprovalStands /\ MenuInv => WayForwardOffered
  BY WayForward DEF WayForwardOffered
<1> QED
  BY <1>1, AgentInvariant, PTL

-----------------------------------------------------------------------------
(* The strata of a menu *)

\* What must come before a committed operation is committed.
LEMMA CommittedIsClosed ==
  ASSUME IInv, NEW n \in Committed
  PROVE  Node[n].required_predecessors \subseteq Committed
<1>1. PICK i \in DOMAIN completed : completed[i] = n
  BY DEF Committed, ToSet
<1>2. \A p \in Node[n].required_predecessors : \E j \in 1..(i - 1) : completed[j] = p
  BY <1>1 DEF IInv, HistoryInv, ExactlyOnceInOrder
<1>3. /\ DOMAIN completed = 1..Len(completed) /\ Len(completed) \in Nat
      /\ \A j \in 1..(i - 1) : j \in DOMAIN completed
  BY <1>1 DEF IInv, TypeOK
<1> QED
  BY <1>2, <1>3 DEF Committed, ToSet

\* A completed operation has its approval in the state: its predecessors are
\* completed, too.
LEMMA CompletedIsApproved ==
  ASSUME IInv, ApprovalStands, PublicMirrorsTask,
         NEW n \in Nodes, n \in Committed, Node[n].safety_token # None
  PROVE  fields[Approval] # None
BY CommittedIsClosed, ApprovalIsThere

\* While an operation is left, one of the DAG's is ready.
LEMMA SomeReady ==
  ASSUME PublicMirrorsTask, Acyclic, ~(Nodes \subseteq Committed)
  PROVE  Ready # {}
<1>1. PICK n \in Nodes \ Committed :
        Node[n].required_predecessors \subseteq Nodes \ (Nodes \ Committed)
  BY DEF Acyclic
<1>2. PICK t \in Progress : Public[t].operation_id = n
  BY <1>1, TaskAssumption DEF PublicMirrorsTask, WorkflowNodes, Progress
<1>3. t \in Ready
  BY <1>1, <1>2, OneNode DEF Ready, Completed, PrerequisitesMet
<1> QED
  BY <1>3

\* Calls that are accepted: ready operations, queries, and replays, which the
\* environment answers as such.
LEMMA ExecutableAccepted ==
  ASSUME IInv, ApprovalStands, MenuInv, PublicSchemas, PublicMirrorsTask,
         CandidateKeysAreOwn, ArgumentsAreProper
  PROVE  /\ \A call \in Executable : Validate(call).valid
         /\ \A call \in ReplayCandidates : Validate(call).replay
<1>1. ASSUME NEW call \in ValidCandidates PROVE Validate(call).valid
  <2>1. PICK t \in Ready : call = Candidate("valid", t, Arguments(t), Public[t].operation_id)
    BY <1>1 DEF ValidCandidates
  <2> QED
    BY <2>1, ValidIsCommitted DEF Accepts
<1>2. ASSUME NEW call \in QueryCandidates PROVE Validate(call).valid
  <2>1. PICK t \in Tools :
          /\ call.tool_name = t /\ call.arguments = Arguments(t)
          /\ ~Schema[t].mutating /\ Public[t].policy_allowed
    BY <1>2 DEF QueryCandidates, ContextQueries, Candidate, PublicSchemas
  <2>2. /\ Public[t].operation_id = InspectStatus
        /\ Schema[t].side_effect \notin Forbidden
        /\ ~Guarded(t)
    BY <2>1 DEF PublicMirrorsTask
  <2>3. ~SchemaError(call)
    BY <2>1, <2>2, WellWritten
  <2>4. ~CallIdConflict(call)
    BY <1>2, <2>3, MenuIsNew DEF Menu, Executable, CallIdConflict
  <2>5. Validate(call) = QueryVerdict(call)
    BY <2>1, <2>2, <2>3, <2>4 DEF Validate, Arguments
  <2> QED
    BY <2>1, <2>2, <2>5 DEF QueryVerdict, Arguments, Accepts
<1>3. ASSUME NEW call \in ReplayCandidates
      PROVE  Validate(call).valid /\ Validate(call).replay
  <2>1. PICK t \in Progress :
          /\ call.tool_name = t /\ call.arguments = Arguments(t)
          /\ Public[t].operation_id \in Committed
    BY <1>3 DEF ReplayCandidates, Completed, Candidate
  <2> DEFINE n == Public[t].operation_id
  <2>2. /\ t \in Tools /\ n \in Nodes /\ Node[n].tool_name = t
        /\ Guarded(t) <=> Node[n].safety_token # None
    BY OneNode
  <2>3. /\ Schema[t].mutating /\ Schema[t].idempotent
        /\ Schema[t].side_effect \notin Forbidden
    BY DEF PublicMirrorsTask, Progress
  <2>4. ~SchemaError(call)
    BY <2>1, <2>2, CompletedIsApproved, WellWritten
  <2>5. ~CallIdConflict(call) /\ ~ExactReplay(call)
    BY <1>3, <2>4, MenuIsNew DEF Menu, Executable, CallIdConflict, ExactReplay
  <2>6. /\ call.arguments.entity_id = Entity
        /\ call.arguments.operation_id = n
        /\ GroundsToNode(call)
    BY <2>1, <2>2 DEF Arguments, GroundsToNode
  <2>7. Validate(call) = Accepts(n, TRUE)
    BY <2>1, <2>2, <2>3, <2>4, <2>5, <2>6
       DEF Validate, MutationVerdict, PredecessorsDone, AlreadyCompleted
  <2> QED
    BY <2>7 DEF Accepts
<1> QED
  BY <1>1, <1>2, <1>3 DEF Executable

\* Each kind of negative is refused for the reason it was built for: the check that
\* it fails is the first it fails.
LEMMA NegativesRefused ==
  ASSUME IInv, ApprovalStands, MenuInv, PublicSchemas, PublicMirrorsTask,
         CandidateKeysAreOwn, ArgumentsAreProper, Ready # {}
  PROVE  /\ \A call \in SchemaCandidates : Validate(call).kind = "schema"
         /\ \A call \in GroundingCandidates : Validate(call).kind = "grounding"
         /\ \A call \in PreconditionCandidates : Validate(call).kind = "precondition"
         /\ \A call \in SafetyCandidates : Validate(call).kind = "safety"
<1>1. ASSUME NEW t \in Ready
      PROVE  /\ t \in Tools /\ t \in Progress /\ Public[t].operation_id \notin Committed
             /\ Guarded(t) => fields[Approval] # None
  <2>1. /\ t \in Progress /\ Public[t].operation_id \notin Committed
        /\ Public[t].required_completed_operations \subseteq Committed
    BY DEF Ready, Completed, PrerequisitesMet
  <2> QED
    BY <2>1, OneNode, ApprovalIsThere
<1>2. Anchors = Ready
  BY DEF Anchors
<1>3. \A t \in Progress : Schema[t].mutating /\ Schema[t].side_effect \notin Forbidden
  BY DEF PublicMirrorsTask, Progress
<1>4. ASSUME NEW call \in SchemaCandidates PROVE Validate(call).kind = "schema"
  <2>1. PICK t \in Ready :
          /\ call.tool_name = t
          /\ call.arguments = [Arguments(t) EXCEPT !.operation_id = None]
    BY <1>2, <1>4 DEF SchemaCandidates, Candidate
  <2>2. "operation_id" \in Schema[t].required /\ "operation_id" \in ArgNames
    BY <1>1, TaskAssumption DEF ArgNames
  <2>3. call.arguments["operation_id"] = None
    BY <2>1 DEF Arguments
  <2> QED
    BY <2>1, <2>2, <2>3 DEF Validate, SchemaError, Rejects
<1>5. ASSUME NEW call \in GroundingCandidates PROVE Validate(call).kind = "grounding"
  <2>1. PICK t \in Ready :
          /\ call.tool_name = t
          /\ call.arguments = [Arguments(t) EXCEPT !.entity_id = WrongEntity]
    BY <1>2, <1>5 DEF GroundingCandidates, Candidate
  <2>2. ~SchemaError(call)
    BY <1>1, <2>1, WellWritten
  <2>3. ~CallIdConflict(call)
    BY <1>5, <2>2, MenuIsNew DEF Menu, CallIdConflict
  <2>4. call.arguments.entity_id # Entity
    BY <2>1 DEF Arguments, PublicSchemas
  <2> QED
    BY <1>1, <1>3, <2>1, <2>2, <2>3, <2>4 DEF Validate, Rejects
<1>6. ASSUME NEW call \in PreconditionCandidates PROVE Validate(call).kind = "precondition"
  <2>1. PICK t \in Progress :
          /\ call.tool_name = t
          /\ Public[t].operation_id \notin Committed
          /\ Guarded(t) => fields[Approval] # None
          /\ \/ call.arguments = Arguments(t) /\ ~PrerequisitesMet(t)
             \/ call.arguments = [Arguments(t) EXCEPT !.expected_version = version + 1]
    <3>1. CASE Blocked # {}
      BY <1>6, <3>1 DEF PreconditionCandidates, Blocked, Candidate, Completed, Guarded
    <3>2. CASE Blocked = {}
      BY <1>1, <1>2, <1>6, <3>2 DEF PreconditionCandidates, Candidate
    <3> QED
      BY <3>1, <3>2
  <2> DEFINE n == Public[t].operation_id
  <2>2. /\ t \in Tools /\ n \in Nodes /\ Node[n].tool_name = t
        /\ Public[t].required_completed_operations = Node[n].required_predecessors
    BY OneNode
  <2>3. ~SchemaError(call)
    BY <2>1, <2>2, WellWritten
  <2>4. ~CallIdConflict(call) /\ ~ExactReplay(call)
    BY <1>6, <2>3, MenuIsNew DEF Menu, CallIdConflict, ExactReplay
  <2>5. /\ call.arguments.entity_id = Entity
        /\ call.arguments.operation_id = n
        /\ GroundsToNode(call)
    BY <2>1, <2>2 DEF Arguments, GroundsToNode
  <2>6. \/ call.arguments.expected_version # version
        \/ ~(Node[n].required_predecessors \subseteq Committed)
    <3>1. version \in Nat /\ version + 1 # version
      BY DEF IInv, TypeOK
    <3> QED
      BY <2>1, <2>2, <3>1 DEF Arguments, PrerequisitesMet
  <2>7. Validate(call) = MutationVerdict(call)
    BY <1>3, <2>1, <2>3, <2>4, <2>5 DEF Validate
  <2>8. MutationVerdict(call) = Rejects("precondition")
    BY <2>1, <2>4, <2>5, <2>6 DEF MutationVerdict, PredecessorsDone, AlreadyCompleted
  <2> QED
    BY <2>7, <2>8 DEF Rejects
<1>7. ASSUME NEW call \in SafetyCandidates PROVE Validate(call).kind = "safety"
  <2>1. PICK t \in Tools :
          /\ call.tool_name = t /\ call.arguments = Arguments(t)
          /\ ~Public[t].policy_allowed
    BY <1>7 DEF SafetyCandidates, Candidate
  <2>2. ~Guarded(t) /\ Schema[t].side_effect \in Forbidden
    BY <2>1 DEF PublicMirrorsTask
  <2>3. ~SchemaError(call)
    BY <2>1, <2>2, WellWritten
  <2> QED
    BY <2>1, <2>2, <2>3 DEF Validate, Rejects
<1> QED
  BY <1>4, <1>5, <1>6, <1>7

\* What a committed operation wrote into a goal field, if all who write it agree.
GoalStands ==
    \A f \in DOMAIN GoalFields :
      (\A n \in Nodes : f \in DOMAIN Node[n].effects => Node[n].effects[f] = GoalFields[f]) =>
        \A n \in Committed : f \in DOMAIN Node[n].effects => fields[f] = GoalFields[f]

\* An episode that goes on has not been won, and has paid for what it has done.
EpisodeInv ==
    /\ GoalStands
    /\ ~done => completed = <<>> \/ ~Success
    /\ Len(completed) <= stepsTaken

\* A step that goes on was not the winning one, and costs one.
LEMMA GoesOn ==
  ASSUME IInv, NEW verdict, Account(verdict)
  PROVE  /\ ~done' => ~Success'
         /\ stepsTaken' = stepsTaken + 1 /\ stepsTaken \in Nat
<1>1. done' = (Success' \/ (OutOfBudget(StepsAfter(verdict)) /\ ~Success'))
  BY DEF Account
<1>2. ~done' => ~Success'
  BY <1>1
<1>3. stepsTaken' = stepsTaken + 1
  BY DEF Account, StepsAfter
<1>4. stepsTaken \in Nat
  BY DEF IInv, TypeOK
<1> QED
  BY <1>2, <1>3, <1>4

\* Each step, whoever plays, keeps the episode's books.
LEMMA StepKeepsEpisode ==
  ASSUME IInv, EpisodeInv, [Next]_vars
  PROVE  EpisodeInv'
<1>1. ASSUME NEW call \in Calls, CommitCall(call)
      PROVE  EpisodeInv'
  <2> DEFINE n == call.arguments.operation_id
  <2>1. /\ n \in Nodes
        /\ Committed \subseteq Nodes
        /\ Committed' = Committed \cup {n}
        /\ Len(completed') = Len(completed) + 1 /\ Len(completed) \in Nat
    <3>1. n \in Nodes
      BY <1>1, CommitFacts DEF CommitCall
    <3>2. completed' = Append(completed, n) /\ completed \in Seq(Nodes)
      BY <1>1 DEF CommitCall, Apply, IInv, TypeOK
    <3> QED
      BY <3>1, <3>2, ToSetAppend DEF Committed, ToSet
  <2>2. \A f \in Fields : fields'[f] = IF f \in DOMAIN Node[n].effects
                                       THEN Node[n].effects[f] ELSE fields[f]
    BY <1>1 DEF CommitCall, Apply
  <2>3. GoalStands'
    BY <2>1, <2>2, TaskAssumption DEF EpisodeInv, GoalStands
  <2> QED
    BY <1>1, <2>1, <2>3, GoesOn DEF EpisodeInv, CommitCall
<1>2. ASSUME NEW call \in Calls, AnswerCall(call) \/ RejectCall(call)
      PROVE  EpisodeInv'
  <2>1. UNCHANGED business /\ Account(Validate(call))
    BY <1>2 DEF AnswerCall, RejectCall
  <2>2. Len(completed) \in Nat
    BY DEF IInv, TypeOK
  <2> QED
    BY <2>1, <2>2, GoesOn DEF EpisodeInv, GoalStands, Committed, business
<1>3. CASE Reset
  <2>1. Committed' = {} /\ completed' = <<>> /\ Len(completed') = 0 /\ stepsTaken' = 0
    BY <1>3, ToSetEmpty DEF Reset, Committed
  <2> QED
    BY <2>1 DEF EpisodeInv, GoalStands
<1>4. CASE UNCHANGED vars
  BY <1>4 DEF vars, business, EpisodeInv, GoalStands, Committed, Success, GoalsSatisfied
<1> QED
  BY <1>1, <1>2, <1>3, <1>4 DEF Next, Step

\* The books are kept in every behaviour.
LEMMA EpisodeIsBooked == Spec => []EpisodeInv
<1>1. Init => EpisodeInv
  <2> SUFFICES ASSUME Init PROVE EpisodeInv
    OBVIOUS
  <2>1. Committed = {} /\ completed = <<>> /\ Len(completed) = 0 /\ stepsTaken = 0
    BY ToSetEmpty DEF Init, Committed
  <2> QED
    BY <2>1 DEF EpisodeInv, GoalStands
<1>2. IInv /\ EpisodeInv /\ [Next]_vars => EpisodeInv'
  BY StepKeepsEpisode
<1> QED
  BY <1>1, <1>2, Invariance, PTL DEF Spec

\* An episode that goes on has operations left.
LEMMA SomethingIsLeft ==
  ASSUME IInv, EpisodeInv, SideEffectsAreThoseOfCommits, WorkRemains, ~done
  PROVE  ~(Nodes \subseteq Committed)
<1> SUFFICES ASSUME Nodes \subseteq Committed PROVE FALSE
  OBVIOUS
<1>1. CASE Cardinality(Nodes) > MaxSteps
  <2> DEFINE L == Len(completed)
  <2>1. /\ L \in Nat /\ completed \in Seq(Nodes) /\ L <= stepsTaken
        /\ stepsTaken \in Nat /\ MaxSteps \in Nat /\ stepsTaken < MaxSteps
    BY TaskAssumption DEF IInv, TypeOK, BudgetLeft, EpisodeInv
  <2>2. completed \in Surjection(1..L, Committed)
    BY <2>1 DEF Surjection, Committed, ToSet
  <2>3. IsFiniteSet(1..L) /\ Cardinality(1..L) = L
    <3>1. 1 \in Int /\ L \in Int
      BY <2>1
    <3>2. IsFiniteSet(1..L) /\ Cardinality(1..L) = IF 1 > L THEN 0 ELSE L - 1 + 1
      BY <3>1, FS_Interval
    <3> HIDE DEF L
    <3> QED
      BY <2>1, <3>2
  <2>4. IsFiniteSet(Committed) /\ Cardinality(Committed) <= L
    BY <2>2, <2>3, FS_Surjection
  <2>5. Cardinality(Nodes) <= Cardinality(Committed)
    BY <2>4, FS_Subset
  <2>6. Cardinality(Nodes) \in Nat /\ Cardinality(Committed) \in Nat
    BY <2>4, FS_CardinalityType DEF WorkRemains
  <2> QED
    BY <1>1, <2>1, <2>4, <2>5, <2>6
<1>2. CASE \A f \in DOMAIN GoalFields :
             /\ \E n \in Nodes : f \in DOMAIN Node[n].effects
             /\ \A n \in Nodes : f \in DOMAIN Node[n].effects => Node[n].effects[f] = GoalFields[f]
  <2>1. completed # <<>>
    BY ToSetEmpty DEF WorkRemains, Committed
  <2>2. GoalsSatisfied
    BY <1>2, TaskAssumption DEF GoalsSatisfied, EpisodeInv, GoalStands
  <2>3. Success
    BY <2>2 DEF Success, SideEffectsAreThoseOfCommits
  <2> QED
    BY <2>1, <2>3 DEF EpisodeInv
<1> QED
  BY <1>1, <1>2 DEF WorkRemains

\* While something is left, a menu has every stratum under its own label.
LEMMA StrataAreThere ==
  ASSUME IInv, ApprovalStands, MenuInv, EpisodeInv, SideEffectsAreThoseOfCommits,
         PublicSchemas, PublicMirrorsTask, CandidateKeysAreOwn, ArgumentsAreProper,
         Acyclic, WorkRemains, ContextQueries # {}, \E t \in Tools : ~Public[t].policy_allowed
  PROVE  MenuHasEveryStratum
<1> SUFFICES ASSUME ~done PROVE MenuHasEveryStratum
  BY DEF MenuHasEveryStratum
<1>1. Ready # {} /\ Anchors # {}
  BY SomethingIsLeft, SomeReady DEF Anchors
<1>2. /\ SchemaCandidates # {} /\ GroundingCandidates # {}
      /\ PreconditionCandidates # {} /\ SafetyCandidates # {}
  BY <1>1 DEF SchemaCandidates, GroundingCandidates, PreconditionCandidates, SafetyCandidates
<1>3. {} \notin {ContextQueries, SchemaCandidates, GroundingCandidates,
                 PreconditionCandidates, SafetyCandidates}
  BY <1>2
<1> QED
  BY <1>1, <1>3, ExecutableAccepted, NegativesRefused DEF MenuHasEveryStratum

\* Every menu has all it was built to have, each part under the label it was built
\* for, as long as the episode goes on: the dataset never misses a validation
\* stratum, and no negative is one by accident.
THEOREM MenusAreComplete ==
  ASSUME PublicSchemas, PublicMirrorsTask, CandidateKeysAreOwn, ArgumentsAreProper,
         Acyclic, WorkRemains, ContextQueries # {}, \E t \in Tools : ~Public[t].policy_allowed
  PROVE  AgentSpec /\ [](Menu \subseteq Calls) => []MenuHasEveryStratum
<1>1. IInv /\ ApprovalStands /\ MenuInv /\ EpisodeInv /\ SideEffectsAreThoseOfCommits
      => MenuHasEveryStratum
  BY StrataAreThere
<1>2. Menu \subseteq Calls /\ [AgentStep \/ Reset]_vars => [Next]_vars
  BY DEF AgentStep, Next, Step
<1>3. AgentSpec /\ [](Menu \subseteq Calls) => Spec
  BY <1>2, PTL DEF AgentSpec, Spec
<1> QED
  BY <1>1, <1>3, AgentInvariant, EpisodeIsBooked, EffectsAreAccounted, PTL

-----------------------------------------------------------------------------
(* Demonstration: the books of a play *)

\* What is asked of a task here: the contracts of its world, and one way through it.
\* TLC checks them of every task that the generators make (KeepsContracts and Acyclic
\* in GeneratedTasks).
GeneratedTask ==
    /\ PublicSchemas /\ PublicMirrorsTask /\ CandidateKeysAreOwn /\ ArgumentsAreProper
    /\ Acyclic /\ WorkRemains /\ OneWay

\* The goal fields hold what they began with, or what one final operation wrote.
FinalStands ==
    Counterfactual =>
      \/ /\ Committed \cap Finals = {}
         /\ \A f \in DOMAIN GoalFields : fields[f] = InitialFields[f]
      \/ \E n \in Committed \cap Finals :
           \A f \in DOMAIN GoalFields : fields[f] = Node[n].effects[f]

\* An episode is over because it is won or because its budget is spent.
EndsForAReason == done => Success \/ stepsTaken >= MaxSteps

\* The environment under players that write proper calls.
Sound ==
    /\ IInv /\ ApprovalStands /\ MenuInv /\ EpisodeInv /\ SideEffectsAreThoseOfCommits
    /\ FinalStands /\ EndsForAReason

\* Who plays, and how far a plan was replayed for whom.
PlayersKeepRoles ==
    /\ policy \in {"replay", "continuation", "agent", "baseline", "dataset"}
    /\ strayed \in BOOLEAN /\ challenged \in BOOLEAN /\ prefix \in Int
    /\ policy = "dataset" => ~Counterfactual /\ prefix = OptimalSteps - 1
    /\ policy \in {"agent", "baseline"} => prefix = 0
    /\ strayed => stepsTaken >= prefix /\ policy \notin {"replay", "dataset"}
    /\ challenged => policy = "dataset" /\ stepsTaken = prefix /\ ~done

\* On the path each step did one operation of the plan; off it, some step did
\* none, and a continuation, which is off it for good, leaves one undone.
PathIsBooked ==
    /\ ~strayed => Committed \subseteq Target /\ Len(completed) = stepsTaken
    /\ strayed => Cardinality(Committed \cap Target) < stepsTaken
    /\ strayed /\ policy = "continuation" /\ ~Counterfactual => ~(Nodes \subseteq Committed)
    /\ policy = "baseline" => /\ Len(completed) = stepsTaken
                              /\ ~Counterfactual => ~strayed

\* Once the ledger is tampered with, the dataset plays no further.
PlayInv == PlayersKeepRoles /\ (~challenged => Sound /\ PathIsBooked)

\* Committed operations are as many as their list is long.
LEMMA CommittedCounts ==
  ASSUME IInv
  PROVE  /\ Committed \subseteq Nodes /\ IsFiniteSet(Committed)
         /\ Len(completed) \in Nat /\ Cardinality(Committed) = Len(completed)
         /\ version = Len(completed)
<1> DEFINE L == Len(completed)
<1>1. /\ L \in Nat /\ completed \in Seq(Nodes) /\ DOMAIN completed = 1..L
      /\ version = L
  BY DEF IInv, TypeOK, HistoryInv, HistoryAgrees
<1>2. completed \in Bijection(1..L, Committed)
  BY <1>1 DEF Bijection, Injection, Surjection, IsInjective, Committed, ToSet, IInv, HistoryInv,
     ExactlyOnceInOrder
<1>3. IsFiniteSet(1..L) /\ Cardinality(1..L) = L
  <2>1. 1 \in Int /\ L \in Int
    BY <1>1
  <2>2. IsFiniteSet(1..L) /\ Cardinality(1..L) = IF 1 > L THEN 0 ELSE L - 1 + 1
    BY <2>1, FS_Interval
  <2> HIDE DEF L
  <2> QED
    BY <1>1, <2>2
<1>4. IsFiniteSet(Committed) /\ Cardinality(Committed) = L
  <2> HIDE DEF L
  <2>1. Cardinality(1..L) = Cardinality(Committed) /\ IsFiniteSet(Committed)
    BY <1>2, <1>3, FS_Bijection DEF ExistsBijection
  <2> QED
    BY <1>3, <2>1
<1>5. Committed \subseteq Nodes
  BY DEF Committed, ToSet, IInv, TypeOK
<1> QED
  BY <1>1, <1>4, <1>5

\* The whole lane of a committed final operation is committed.
LEMMA LaneIsCommitted ==
  ASSUME IInv, NEW n \in Committed
  PROVE  Lane(n) \subseteq Committed
<1>1. \A m \in Committed : Node[m].required_predecessors \subseteq Committed
  BY CommittedIsClosed
<1> QED
  BY <1>1 DEF Lane

\* A part of what is committed is no more than the list is long, and all of it only
\* if nothing else is committed.
LEMMA PartIsCounted ==
  ASSUME IInv, NEW S
  PROVE  /\ IsFiniteSet(Committed \cap S)
         /\ Cardinality(Committed \cap S) \in Nat
         /\ Cardinality(Committed \cap S) <= Len(completed)
         /\ IsFiniteSet(S) /\ S \subseteq Committed => Cardinality(S) <= Len(completed)
         /\ IsFiniteSet(S) /\ Committed \subseteq S /\ Cardinality(S) <= Len(completed)
              => Committed = S
<1>1. /\ IsFiniteSet(Committed) /\ Len(completed) \in Nat /\ Cardinality(Committed) = Len(completed)
  BY CommittedCounts
<1>2. IsFiniteSet(Committed \cap S) /\ Cardinality(Committed \cap S) <= Cardinality(Committed)
  BY <1>1, FS_Subset
<1>3. Cardinality(Committed \cap S) \in Nat
  BY <1>2, FS_CardinalityType
<1>4. ASSUME S \subseteq Committed PROVE Cardinality(S) <= Len(completed)
  BY <1>1, <1>4, FS_Subset
<1>5. ASSUME IsFiniteSet(S), Committed \subseteq S, Cardinality(S) <= Len(completed)
      PROVE  Committed = S
  <2>1. /\ Cardinality(Committed) <= Cardinality(S)
        /\ Cardinality(Committed) = Cardinality(S) => Committed = S
    BY <1>5, FS_Subset
  <2>2. Cardinality(S) \in Nat
    BY <1>5, FS_CardinalityType
  <2> QED
    BY <1>1, <1>5, <2>1, <2>2
<1> QED
  BY <1>1, <1>2, <1>3, <1>4, <1>5

\* The next call of a plan is what the builder writes for a ready operation, and
\* would be committed.
LEMMA PlanCallCommits ==
  ASSUME GeneratedTask, Sound, Len(completed) = stepsTaken, NEW n \in Upcoming
  PROVE  LET call == PlanCall(n)
             t == Node[n].tool_name IN
         /\ t \in Ready /\ Public[t].operation_id = n
         /\ call.tool_name = t /\ call.arguments = Arguments(t)
         /\ call.arguments.operation_id = n
         /\ IsOwn(call)
         /\ Schema[t].mutating
         /\ Validate(call) = Accepts(n, FALSE)
<1> DEFINE call == PlanCall(n)
           t == Node[n].tool_name
<1>1. /\ n \in Nodes /\ n \notin Committed
      /\ Node[n].required_predecessors \subseteq Committed
  BY DEF Upcoming, GeneratedTask, OneWay
<1>2. t \in Progress /\ Public[t].operation_id = n
  BY <1>1, TaskAssumption DEF GeneratedTask, PublicMirrorsTask, WorkflowNodes, Progress
<1>3. /\ t \in Tools /\ Schema[t].mutating
      /\ Guarded(t) <=> Node[n].safety_token # None
      /\ t \in Ready
  BY <1>1, <1>2, OneNode DEF GeneratedTask, Progress, Ready, Completed, PrerequisitesMet
<1>4. version = stepsTaken
  BY CommittedCounts DEF Sound
<1>5. Guarded(t) => fields[Approval] = Node[n].safety_token
  BY <1>1, <1>3, ApprovalIsThere DEF GeneratedTask, Sound
<1>6. call.tool_name = t /\ call.arguments.operation_id = n /\ call.call_id[2] = version
  BY <1>4 DEF PlanCall
<1>7. call.arguments = Arguments(t)
  BY <1>2, <1>3, <1>4, <1>5 DEF PlanCall, Arguments, Guarded
<1>8. IsOwn(call)
  BY <1>2, <1>3, <1>6, <1>7 DEF IsOwn, Arguments, Guarded
<1>9. /\ ~CallIdUsed(call)
      /\ call.arguments.idempotency_key \in Keys => ~LedgerCollision(call)
  BY <1>8, OwnIsNew DEF Sound, GeneratedTask
<1> HIDE DEF call
<1>10. Validate(call) = Accepts(n, FALSE)
  BY <1>2, <1>3, <1>6, <1>7, <1>9, ReadyIsCommitted DEF Sound, GeneratedTask
<1> QED
  BY <1>2, <1>3, <1>6, <1>7, <1>8, <1>10 DEF call

\* An operation that is accepted and not yet done is accepted for the first time.
LEMMA FirstTimeAccepted ==
  ASSUME IInv, NEW call, Validate(call).valid, Schema[call.tool_name].mutating,
         call.arguments.operation_id \notin Committed
  PROVE  /\ Validate(call) = Accepts(call.arguments.operation_id, FALSE)
         /\ GroundsToNode(call)
<1> DEFINE n == call.arguments.operation_id
<1>1. \A kind : ~Rejects(kind).valid
  BY DEF Rejects
<1>2. Validate(call) = MutationVerdict(call)
  BY <1>1 DEF Validate
<1>3. ~ExactReplay(call)
  BY ReplayIsCompleted
<1>4. MutationVerdict(call) = SafetyVerdict(call) /\ GroundsToNode(call)
  BY <1>1, <1>2, <1>3 DEF MutationVerdict, PredecessorsDone, AlreadyCompleted
<1>5. SafetyVerdict(call) = Accepts(n, FALSE)
  BY <1>1, <1>2, <1>4 DEF SafetyVerdict
<1> QED
  BY <1>2, <1>4, <1>5

\* A candidate for one of the plan's operations belongs to its tool.
LEMMA PlannedTool ==
  ASSUME GeneratedTask, Sound, NEW call \in Menu, call.arguments.operation_id \in Target
  PROVE  LET t == call.tool_name
             n == call.arguments.operation_id IN
         /\ t \in Progress /\ n = Public[t].operation_id
         /\ n \in Nodes /\ Node[n].tool_name = t
         /\ Public[t].required_completed_operations = Node[n].required_predecessors
         /\ \/ call.arguments = Arguments(t)
            \/ call.arguments = [Arguments(t) EXCEPT !.entity_id = WrongEntity]
            \/ call.arguments = [Arguments(t) EXCEPT !.expected_version = version + 1]
<1> DEFINE n == call.arguments.operation_id
<1>1. PICK t \in Tools :
        /\ call.tool_name = t
        /\ \/ call.arguments = Arguments(t)
           \/ call.arguments = [Arguments(t) EXCEPT !.operation_id = None]
           \/ call.arguments = [Arguments(t) EXCEPT !.entity_id = WrongEntity]
           \/ call.arguments = [Arguments(t) EXCEPT !.expected_version = version + 1]
  BY MenuCall DEF GeneratedTask
<1>2. n \in Nodes /\ n # None
  BY TaskAssumption DEF GeneratedTask, OneWay
<1>3. /\ n = Public[t].operation_id
      /\ \/ call.arguments = Arguments(t)
         \/ call.arguments = [Arguments(t) EXCEPT !.entity_id = WrongEntity]
         \/ call.arguments = [Arguments(t) EXCEPT !.expected_version = version + 1]
  BY <1>1, <1>2 DEF Arguments
<1>4. t \in Progress
  BY <1>1, <1>3 DEF GeneratedTask, OneWay
<1> QED
  BY <1>1, <1>2, <1>3, <1>4, OneNode DEF GeneratedTask

\* What counts as progress is committed.
LEMMA PositiveCommits ==
  ASSUME GeneratedTask, Sound, NEW call \in Menu, Positive(call)
  PROVE  LET n == call.arguments.operation_id IN
         /\ n \in Target \ Committed
         /\ Schema[call.tool_name].mutating
         /\ Validate(call) = Accepts(n, FALSE)
<1> DEFINE n == call.arguments.operation_id
           t == call.tool_name
<1>1. n \in Target \ Committed
  BY DEF Positive, Optimal
<1>2. /\ t \in Progress /\ n = Public[t].operation_id
      /\ n \in Nodes /\ Node[n].tool_name = t
      /\ Public[t].required_completed_operations = Node[n].required_predecessors
      /\ \/ call.arguments = Arguments(t)
         \/ call.arguments = [Arguments(t) EXCEPT !.entity_id = WrongEntity]
         \/ call.arguments = [Arguments(t) EXCEPT !.expected_version = version + 1]
  BY <1>1, PlannedTool
<1>3. t \in Tools /\ Schema[t].mutating
  BY <1>2 DEF Progress
<1>4. CASE ~Counterfactual
  <2>1. Validate(call).valid
    BY <1>4 DEF Positive
  <2> QED
    BY <1>1, <1>3, <2>1, FirstTimeAccepted DEF Sound
<1>5. CASE Counterfactual
  <2>1. /\ call.arguments.entity_id = Entity
        /\ call.arguments.expected_version = Cardinality(Committed)
        /\ PrerequisitesMet(t)
    BY <1>5 DEF Positive, Optimal
  <2>2. version = Cardinality(Committed) /\ version \in Nat
    BY CommittedCounts DEF Sound
  <2>3. call.arguments = Arguments(t)
    BY <1>2, <2>1, <2>2 DEF Arguments, GeneratedTask, PublicSchemas
  <2>4. t \in Ready
    BY <1>1, <1>2, <2>1 DEF Ready, Completed
  <2>5. Guarded(t) => fields[Approval] # None
    <3>1. Guarded(t) <=> Node[n].safety_token # None
      BY <1>2, OneNode DEF GeneratedTask
    <3> QED
      BY <1>2, <2>1, <3>1, ApprovalIsThere DEF GeneratedTask, Sound, PrerequisitesMet
  <2>6. ~SchemaError(call)
    BY <1>3, <2>3, <2>5, WellWritten DEF GeneratedTask, Sound
  <2>7. /\ ~CallIdUsed(call)
        /\ call.arguments.idempotency_key \in Keys => ~LedgerCollision(call)
    BY <2>6, MenuIsNew DEF GeneratedTask, Sound
  <2>8. Validate(call) = Accepts(n, FALSE)
    BY <1>2, <2>3, <2>4, <2>7, ReadyIsCommitted DEF GeneratedTask, Sound
  <2> QED
    BY <1>1, <1>3, <2>8
<1> QED
  BY <1>4, <1>5

\* What is committed of a plan counts as progress.
LEMMA CommitIsPositive ==
  ASSUME GeneratedTask, Sound, NEW call \in Menu, call \in Calls,
         Validate(call).valid, ~Validate(call).replay, Schema[call.tool_name].mutating,
         call.arguments.operation_id \in Target
  PROVE  Positive(call)
<1> DEFINE n == call.arguments.operation_id
           t == call.tool_name
<1>1. /\ n \notin Committed
      /\ Node[n].required_predecessors \subseteq Committed
      /\ call.arguments.expected_version = version
  BY CommitFacts
<1>2. CASE ~Counterfactual
  BY <1>1, <1>2 DEF Positive
<1>3. CASE Counterfactual
  <2>1. call.arguments.entity_id = Entity
    BY DEF Validate, Rejects
  <2>2. version = Cardinality(Committed)
    BY CommittedCounts DEF Sound
  <2>3. PrerequisitesMet(t)
    BY <1>1, PlannedTool DEF PrerequisitesMet
  <2> QED
    BY <1>1, <1>3, <2>1, <2>2, <2>3 DEF Positive, Optimal
<1> QED
  BY <1>2, <1>3

\* A call that would be committed is.
LEMMA AcceptedIsCommitted ==
  ASSUME NEW call, NEW n, Issue(call),
         Schema[call.tool_name].mutating, Validate(call) = Accepts(n, FALSE)
  PROVE  CommitCall(call)
BY DEF Issue, AnswerCall, RejectCall, Accepts

\* What a call costs, and what it changes at most.
LEMMA IssueIsBooked ==
  ASSUME IInv, NEW call \in Calls, Issue(call)
  PROVE  /\ ~done
         /\ stepsTaken \in Nat /\ stepsTaken' = stepsTaken + 1
         /\ done' => Success' \/ stepsTaken' >= MaxSteps
         /\ Len(completed) \in Nat
         /\ LET n == call.arguments.operation_id IN
            CommitCall(call) => /\ n \in Nodes \ Committed
                                /\ Committed' = Committed \cup {n}
                                /\ Len(completed') = Len(completed) + 1
         /\ ~CommitCall(call) => UNCHANGED business
         /\ ~CommitCall(call) => Committed' = Committed /\ Len(completed') = Len(completed)
<1> DEFINE n == call.arguments.operation_id
<1>1. ~done /\ Account(Validate(call))
  BY DEF Issue, CommitCall, AnswerCall, RejectCall
<1>2. /\ stepsTaken \in Nat /\ stepsTaken' = stepsTaken + 1
      /\ Len(completed) \in Nat
  BY <1>1, GoesOn DEF IInv, TypeOK
<1>3. done' => Success' \/ stepsTaken' >= MaxSteps
  BY <1>1, <1>2 DEF Account, OutOfBudget, StepsAfter
<1>4. ASSUME CommitCall(call)
      PROVE  n \in Nodes \ Committed /\ Committed' = Committed \cup {n}
             /\ Len(completed') = Len(completed) + 1
  <2>1. n \in Nodes \ Committed
    BY <1>4, CommitFacts DEF CommitCall
  <2>2. completed' = Append(completed, n) /\ completed \in Seq(Nodes)
    BY <1>4 DEF CommitCall, Apply, IInv, TypeOK
  <2> QED
    BY <2>1, <2>2, ToSetAppend DEF Committed
<1>5. ASSUME ~CommitCall(call) PROVE UNCHANGED business
  BY <1>5 DEF Issue, AnswerCall, RejectCall
<1>6. ASSUME ~CommitCall(call)
      PROVE  Committed' = Committed /\ Len(completed') = Len(completed)
  BY <1>5, <1>6 DEF business, Committed
<1> QED
  BY <1>1, <1>2, <1>3, <1>4, <1>5, <1>6

-----------------------------------------------------------------------------
(* One step of a play *)

\* The state stays sound under every proper call.
LEMMA IssueKeepsSound ==
  ASSUME GeneratedTask, Sound, NEW call \in Calls, Issue(call), CommitCall(call) => IsOwn(call)
  PROVE  Sound'
<1> USE DEF Sound
<1>1. [Next]_vars
  BY DEF Issue, Next, Step
<1>2. IInv' /\ EpisodeInv' /\ SideEffectsAreThoseOfCommits'
  BY <1>1, StepShape, StepHistory, StepKeepsEpisode, StepKeepsEffects DEF IInv
<1>3. ApprovalStands'
  BY <1>1, StepKeepsApproval DEF GeneratedTask
<1>4. MenuInv'
  <2>1. CASE CommitCall(call)
    BY <2>1, OwnCommit DEF GeneratedTask
  <2>2. CASE ~CommitCall(call)
    <3>1. UNCHANGED business
      BY <2>2, IssueIsBooked
    <3> QED
      BY <3>1 DEF business, MenuInv, IdsArePast, LedgerIsOwn
  <2> QED
    BY <2>1, <2>2
<1>5. FinalStands'
  <2> SUFFICES ASSUME Counterfactual PROVE FinalStands'
    BY DEF FinalStands
  <2>1. CASE CommitCall(call)
    <3> DEFINE n == call.arguments.operation_id
    <3>1. Committed' = Committed \cup {n} /\ n \in Nodes
      BY <2>1, IssueIsBooked
    <3>2. \A f \in DOMAIN GoalFields : fields'[f] = IF f \in DOMAIN Node[n].effects
                                                    THEN Node[n].effects[f] ELSE fields[f]
      BY <2>1, TaskAssumption DEF CommitCall, Apply
    <3>3. CASE n \in Finals
      <4>1. DOMAIN GoalFields \subseteq DOMAIN Node[n].effects
        BY <3>3 DEF GeneratedTask, OneWay, OneLane
      <4> QED
        BY <3>1, <3>2, <3>3, <4>1 DEF FinalStands
    <3>4. CASE n \notin Finals
      <4>1. \A f \in DOMAIN GoalFields : fields'[f] = fields[f]
        BY <3>1, <3>2, <3>4 DEF Finals
      <4>2. Committed' \cap Finals = Committed \cap Finals
        BY <3>1, <3>4
      <4> QED
        BY <4>1, <4>2 DEF FinalStands
    <3> QED
      BY <3>3, <3>4
  <2>2. CASE ~CommitCall(call)
    <3>1. UNCHANGED business /\ Committed' = Committed
      BY <2>2, IssueIsBooked
    <3> QED
      BY <3>1 DEF business, FinalStands
  <2> QED
    BY <2>1, <2>2
<1>6. EndsForAReason'
  BY IssueIsBooked DEF EndsForAReason
<1> QED
  BY <1>2, <1>3, <1>4, <1>5, <1>6

\* So it does under every candidate.
LEMMA MenuKeepsSound ==
  ASSUME GeneratedTask, Sound, NEW call \in Menu, call \in Calls, Issue(call)
  PROVE  Sound'
<1>1. ASSUME CommitCall(call) PROVE IsOwn(call)
  <2>1. ~SchemaError(call)
    BY <1>1 DEF CommitCall, Validate, Rejects
  <2> QED
    BY <2>1, MenuKey DEF IsOwn, GeneratedTask
<1> QED
  BY <1>1, IssueKeepsSound

\* A step on the path does one of the plan's operations, ...
LEMMA PositiveStep ==
  ASSUME GeneratedTask, Sound, NEW call \in Menu, call \in Calls, Issue(call), Positive(call)
  PROVE  \E n \in Target : Committed' = Committed \cup {n} /\ Len(completed') = Len(completed) + 1
<1> DEFINE n == call.arguments.operation_id
<1>1. n \in Target /\ Schema[call.tool_name].mutating /\ Validate(call) = Accepts(n, FALSE)
  BY PositiveCommits
<1>2. CommitCall(call)
  BY <1>1, AcceptedIsCommitted
<1> QED
  BY <1>1, <1>2, IssueIsBooked DEF Sound

\* ... and a step off it none.
LEMMA OtherStep ==
  ASSUME GeneratedTask, Sound, NEW call \in Menu, call \in Calls, Issue(call), ~Positive(call)
  PROVE  Committed' \cap Target = Committed \cap Target
<1> DEFINE n == call.arguments.operation_id
<1>1. CASE CommitCall(call)
  <2>1. n \notin Target
    BY <1>1, CommitIsPositive DEF CommitCall
  <2> QED
    BY <1>1, <2>1, IssueIsBooked DEF Sound
<1>2. CASE ~CommitCall(call)
  BY <1>2, IssueIsBooked DEF Sound
<1> QED
  BY <1>1, <1>2

\* No step does two of them, so who is behind stays behind.
LEMMA BehindStaysBehind ==
  ASSUME GeneratedTask, Sound, NEW call \in Calls, Issue(call),
         Cardinality(Committed \cap Target) < stepsTaken
  PROVE  Cardinality(Committed' \cap Target) < stepsTaken'
<1> DEFINE n == call.arguments.operation_id
           done0 == Committed \cap Target
<1>1. /\ IsFiniteSet(done0) /\ Cardinality(done0) \in Nat
      /\ stepsTaken \in Nat /\ stepsTaken' = stepsTaken + 1
  BY PartIsCounted, IssueIsBooked DEF Sound
<1>2. Committed' \cap Target \in {done0, done0 \cup {n}}
  BY IssueIsBooked DEF Sound
<1>3. Cardinality(done0 \cup {n}) <= Cardinality(done0) + 1
  <2> HIDE DEF done0, n
  <2>1. Cardinality(done0 \cup {n})
          = IF n \in done0 THEN Cardinality(done0) ELSE Cardinality(done0) + 1
    BY <1>1, FS_AddElement
  <2> QED
    BY <1>1, <2>1
<1>4. Cardinality(done0 \cup {n}) \in Nat
  <2> HIDE DEF done0, n
  <2> QED
    BY <1>1, FS_AddElement, FS_CardinalityType
<1> HIDE DEF done0
<1> QED
  BY <1>1, <1>2, <1>3, <1>4 DEF done0

\* One step off the path is enough.
LEMMA OneStepBehind ==
  ASSUME GeneratedTask, Sound, NEW call \in Menu, call \in Calls, Issue(call), ~Positive(call)
  PROVE  Cardinality(Committed' \cap Target) < stepsTaken'
<1>1. /\ Cardinality(Committed \cap Target) \in Nat /\ Len(completed) \in Nat
      /\ Cardinality(Committed \cap Target) <= Len(completed) /\ Len(completed) <= stepsTaken
      /\ stepsTaken \in Nat /\ stepsTaken' = stepsTaken + 1
  BY PartIsCounted, IssueIsBooked DEF Sound, EpisodeInv
<1>2. Cardinality(Committed' \cap Target) = Cardinality(Committed \cap Target)
  BY OtherStep
<1> QED
  BY <1>1, <1>2

\* While the episode goes on, something can be done, and the public rules that look
\* for unfinished work do it.
LEMMA RulesCommit ==
  ASSUME GeneratedTask, Sound, ~done
  PROVE  /\ Selectable # {}
         /\ \A call \in Selectable : call \in Menu /\ Validate(call).valid
         /\ \A call \in PublicReadyGreedy(Selectable)
                          \cup OrFallback(Advances(Selectable), Selectable) :
              /\ call \in Menu
              /\ Schema[call.tool_name].mutating
              /\ Validate(call) = Accepts(call.arguments.operation_id, FALSE)
<1>1. ~(Nodes \subseteq Committed)
  BY SomethingIsLeft DEF GeneratedTask, Sound
<1>2. PICK n \in Nodes \ Committed :
        Node[n].required_predecessors \subseteq Nodes \ (Nodes \ Committed)
  BY <1>1 DEF Acyclic, GeneratedTask
<1>3. PICK call \in ValidCandidates : MaskVerdict(call).valid
  BY <1>2, WayForward DEF GeneratedTask, Sound
<1>4. call \in Menu /\ call \in Selectable
  BY <1>3 DEF Menu, Executable, Selectable
<1>5. call \in Advances(Selectable) /\ Public[call.tool_name].policy_allowed
  <2>1. call.tool_name \in Ready
    BY <1>3 DEF ValidCandidates, Candidate
  <2> QED
    BY <1>4, <2>1 DEF Advances, Unfinished, Ready, Completed, Progress
<1>6. ASSUME NEW other \in Selectable
      PROVE  other \in Menu /\ Validate(other).valid
  <2>1. other \in Menu /\ MaskVerdict(other).valid
    BY <1>6 DEF Selectable
  <2>2. Decision(MaskVerdict(other)) = Decision(Validate(other))
    BY <2>1, MenuAgrees DEF GeneratedTask, Sound
  <2> QED
    BY <2>1, <2>2 DEF Decision
<1>7. ASSUME NEW other \in Advances(Selectable)
      PROVE  /\ other \in Menu /\ Schema[other.tool_name].mutating
             /\ Validate(other) = Accepts(other.arguments.operation_id, FALSE)
  <2> DEFINE op == other.arguments.operation_id
             t == other.tool_name
  <2>1. /\ other \in Menu /\ Validate(other).valid
        /\ Schema[t].mutating /\ Public[t].operation_id \notin Committed
    BY <1>6, <1>7 DEF Advances, Unfinished
  <2>2. ~SchemaError(other)
    BY <2>1 DEF Validate, Rejects
  <2>3. op = Public[t].operation_id
    BY <2>1, <2>2, MenuKey DEF GeneratedTask
  <2> QED
    BY <2>1, <2>3, FirstTimeAccepted DEF Sound
<1>8. OrFallback(Advances(Selectable), Selectable) \subseteq Advances(Selectable)
  BY <1>5 DEF OrFallback
<1>9. PublicReadyGreedy(Selectable) \subseteq Advances(Selectable)
  BY <1>5 DEF OrFallback, PublicReadyGreedy
<1> QED
  BY <1>4, <1>6, <1>7, <1>8, <1>9

-----------------------------------------------------------------------------
(* Who reaches a goal *)

\* A plan is as long as optimal_steps says, and there is time for it.
LEMMA PlanSize ==
  ASSUME GeneratedTask
  PROVE  /\ IsFiniteSet(Target) /\ Cardinality(Target) = OptimalSteps
         /\ OptimalSteps \in Nat /\ MaxSteps \in Nat /\ OptimalSteps <= MaxSteps
<1>1. IsFiniteSet(Nodes) /\ Target \subseteq Nodes /\ MaxSteps \in Nat
  BY TaskAssumption DEF GeneratedTask, WorkRemains, OneWay
<1>2. IsFiniteSet(Target) /\ Cardinality(Target) \in Nat
  BY <1>1, FS_Subset, FS_CardinalityType
<1>3. CASE Counterfactual
  <2>1. PICK n \in Finals : n \in Target
    BY <1>3 DEF GeneratedTask, OneWay, OneLane
  <2>2. Cardinality(Target) = MaxSteps /\ OptimalSteps = MaxSteps
    BY <1>3, <2>1 DEF GeneratedTask, OneWay, OneLane
  <2> QED
    BY <1>1, <1>2, <2>2
<1>4. CASE ~Counterfactual
  BY <1>1, <1>2, <1>4 DEF GeneratedTask, OneWay, WholeWorkflow
<1> QED
  BY <1>3, <1>4

\* Whoever reaches a goal of the group has done a final operation that writes it, and
\* all that its lane asks for.
LEMMA GoalIsWritten ==
  ASSUME GeneratedTask, Sound, Counterfactual,
         NEW g \in GoalPredicates, \A f \in DOMAIN g : fields[f] = g[f]
  PROVE  \E n \in Finals : /\ Lane(n) \subseteq Committed
                           /\ \A f \in DOMAIN GoalFields : Node[n].effects[f] = g[f]
<1>1. /\ DOMAIN g = DOMAIN GoalFields
      /\ \E f \in DOMAIN g : g[f] # InitialFields[f]
  BY DEF GeneratedTask, OneWay, OneLane
<1>2. PICK n \in Committed \cap Finals : \A f \in DOMAIN GoalFields : fields[f] = Node[n].effects[f]
  BY <1>1 DEF Sound, FinalStands
<1>3. Lane(n) \subseteq Committed
  BY <1>2, LaneIsCommitted DEF Sound
<1> QED
  BY <1>1, <1>2, <1>3

\* That takes the whole budget.
LEMMA GoalTakesBudget ==
  ASSUME GeneratedTask, Sound, Counterfactual,
         NEW g \in GoalPredicates, \A f \in DOMAIN g : fields[f] = g[f]
  PROVE  stepsTaken >= MaxSteps
<1>1. PICK n \in Finals : Lane(n) \subseteq Committed
  BY GoalIsWritten
<1>2. Cardinality(Lane(n)) = MaxSteps
  BY <1>1 DEF GeneratedTask, OneWay, OneLane
<1>3. IsFiniteSet(Lane(n))
  BY <1>1, CommittedCounts, FS_Subset DEF Sound
<1>4. Cardinality(Lane(n)) <= Len(completed) /\ Len(completed) \in Nat
  BY <1>1, <1>3, PartIsCounted, CommittedCounts DEF Sound
<1>5. Len(completed) <= stepsTaken /\ stepsTaken \in Nat /\ MaxSteps \in Nat
  BY PlanSize DEF Sound, EpisodeInv, IInv, TypeOK
<1> QED
  BY <1>2, <1>4, <1>5

\* A task is won only by its plan, ...
LEMMA SuccessNeedsPlan ==
  ASSUME GeneratedTask, Sound, Success
  PROVE  Target \subseteq Committed
<1>1. CASE Counterfactual
  <2>1. GoalFields \in GoalPredicates /\ \A f \in DOMAIN GoalFields : fields[f] = GoalFields[f]
    BY <1>1 DEF GeneratedTask, OneWay, OneLane, Success, GoalsSatisfied
  <2>2. PICK n \in Finals :
          /\ Lane(n) \subseteq Committed
          /\ \A f \in DOMAIN GoalFields : Node[n].effects[f] = GoalFields[f]
    BY <1>1, <2>1, GoalIsWritten
  <2>3. Target = Lane(n)
    BY <1>1, <2>2 DEF GeneratedTask, OneWay, OneLane
  <2> QED
    BY <2>2, <2>3
<1>2. CASE ~Counterfactual
  BY <1>2 DEF GeneratedTask, OneWay, WholeWorkflow, Success, GoalsSatisfied
<1> QED
  BY <1>1, <1>2

\* ... and the plan wins it.
LEMMA PlanWins ==
  ASSUME GeneratedTask, Sound, Committed = Target
  PROVE  Success
<1>1. GoalsSatisfied
  <2>1. CASE Counterfactual
    <3>1. \E n \in Finals : n \in Target
      BY <2>1 DEF GeneratedTask, OneWay, OneLane
    <3>2. PICK n \in Committed \cap Finals :
            \A f \in DOMAIN GoalFields : fields[f] = Node[n].effects[f]
      BY <2>1, <3>1 DEF Sound, FinalStands
    <3>3. \A f \in DOMAIN GoalFields : Node[n].effects[f] = GoalFields[f]
      BY <2>1, <3>2 DEF GeneratedTask, OneWay, OneLane
    <3>4. GoalNodes = {}
      BY <2>1 DEF GeneratedTask, OneWay, OneLane
    <3> QED
      BY <3>2, <3>3, <3>4 DEF GoalsSatisfied
  <2>2. CASE ~Counterfactual
    <3>1. /\ Committed = Nodes /\ GoalNodes = Nodes
          /\ ~(Cardinality(Nodes) > MaxSteps)
      BY <2>2, PlanSize DEF GeneratedTask, OneWay, WholeWorkflow
    <3>2. \A f \in DOMAIN GoalFields :
            /\ \E n \in Nodes : f \in DOMAIN Node[n].effects
            /\ \A n \in Nodes : f \in DOMAIN Node[n].effects => Node[n].effects[f] = GoalFields[f]
      BY <3>1 DEF GeneratedTask, WorkRemains
    <3> QED
      BY <3>1, <3>2 DEF GoalsSatisfied, Sound, EpisodeInv, GoalStands
  <2> QED
    BY <2>1, <2>2
<1> QED
  BY <1>1 DEF Success, Sound, SideEffectsAreThoseOfCommits

\* So an episode of nothing but the plan's operations ends won, ...
LEMMA PathIsWon ==
  ASSUME GeneratedTask, Sound, done, Committed \subseteq Target, Len(completed) = stepsTaken
  PROVE  Success
<1>1. SUFFICES ASSUME stepsTaken >= MaxSteps PROVE Success
  BY DEF Sound, EndsForAReason
<1>2. Cardinality(Target) <= Len(completed)
  BY <1>1, PlanSize, CommittedCounts DEF Sound
<1>3. Committed = Target
  BY <1>2, PlanSize, PartIsCounted DEF Sound
<1> QED
  BY <1>3, PlanWins

\* ... after as many steps as the plan has.
LEMMA PathIsShortest ==
  ASSUME GeneratedTask, Sound, Success, Committed \subseteq Target, Len(completed) = stepsTaken
  PROVE  stepsTaken = OptimalSteps
<1>1. Committed = Target
  BY SuccessNeedsPlan
<1> QED
  BY <1>1, PlanSize, CommittedCounts DEF Sound

\* Who is behind has not done all of the plan within its own time.
LEMMA BehindIsNotDone ==
  ASSUME GeneratedTask, Sound, Counterfactual, Cardinality(Committed \cap Target) < stepsTaken
  PROVE  ~Success
<1> SUFFICES ASSUME Success PROVE FALSE
  OBVIOUS
<1>1. Committed \cap Target = Target
  BY SuccessNeedsPlan
<1>2. OptimalSteps = MaxSteps /\ Cardinality(Target) = OptimalSteps
  BY PlanSize DEF GeneratedTask, OneWay, OneLane
<1>3. stepsTaken <= MaxSteps /\ stepsTaken \in Nat /\ MaxSteps \in Nat
  BY PlanSize DEF Sound, IInv, TypeOK
<1>4. Cardinality(Committed \cap Target) = MaxSteps
  BY <1>1, <1>2
<1> QED
  BY <1>3, <1>4

-----------------------------------------------------------------------------
(* Each player *)

\* The calls that players make are among those that a policy may issue.
ProperCalls == Menu \cup {PlanCall(n) : n \in Upcoming} \subseteq Calls

\* Before the first step everything is in order.
LEMMA PlayBegins ==
  ASSUME GeneratedTask, PlayInit
  PROVE  PlayInv
<1>1. Init /\ strayed = FALSE /\ challenged = FALSE
  BY DEF PlayInit
<1>2. /\ completed = <<>> /\ stepsTaken = 0 /\ done = FALSE /\ fields = InitialFields
      /\ auditLog = <<>> /\ sideEffects = <<>> /\ ledger = InitialLedger
      /\ Committed = {} /\ ToSet(sideEffects) = {}
      /\ Len(completed) = 0 /\ DOMAIN completed = {} /\ DOMAIN sideEffects = {}
      /\ DOMAIN auditLog = {}
  BY <1>1, ToSetEmpty DEF Init, Committed
<1>3. IInv
  BY <1>1, InitShape, EmptyHistory DEF Init, IInv
<1>4. ApprovalStands /\ EpisodeInv
  BY <1>2 DEF ApprovalStands, EpisodeInv, GoalStands
<1>5. MenuInv
  BY <1>2 DEF MenuInv, IdsArePast, LedgerIsOwn, GeneratedTask, CandidateKeysAreOwn
<1>6. SideEffectsAreThoseOfCommits
  BY <1>2 DEF SideEffectsAreThoseOfCommits
<1>7. FinalStands /\ EndsForAReason
  BY <1>2 DEF FinalStands, EndsForAReason
<1>8. PathIsBooked
  BY <1>1, <1>2 DEF PathIsBooked
<1>9. PlayersKeepRoles
  <2>1. OptimalSteps \in Nat
    BY PlanSize
  <2>2. ProgressPrefixes \subseteq Int
    BY <2>1 DEF ProgressPrefixes
  <2>3. /\ policy \in {"replay", "continuation", "agent", "baseline", "dataset"}
        /\ prefix \in Int
        /\ policy = "dataset" => ~Counterfactual /\ prefix = OptimalSteps - 1
        /\ policy \in {"agent", "baseline"} => prefix = 0
    <3>1. OptimalSteps \in Int /\ OptimalSteps - 1 \in Int
      BY <2>1
    <3>2. CASE policy = "replay" /\ prefix = OptimalSteps
      BY <3>1, <3>2
    <3>3. CASE policy = "continuation" /\ prefix \in ProgressPrefixes
      BY <2>2, <3>3
    <3>4. CASE policy \in {"agent", "baseline"} /\ prefix = 0
      BY <3>4
    <3>5. CASE policy = "dataset" /\ ~Counterfactual /\ prefix = OptimalSteps - 1
      BY <3>1, <3>5
    <3> QED
      BY <3>2, <3>3, <3>4, <3>5 DEF PlayInit
  <2> QED
    BY <1>1, <2>3 DEF PlayersKeepRoles
<1> QED
  BY <1>1, <1>3, <1>4, <1>5, <1>6, <1>7, <1>8, <1>9 DEF PlayInv, Sound

\* Nobody takes another's place, and only a replay cannot stray.
LEMMA RolesAreKept ==
  ASSUME PlayersKeepRoles, ~challenged, IInv, NEW call \in Calls, Issue(call),
         strayed' \in BOOLEAN,
         strayed' => policy \notin {"replay", "dataset"} /\ stepsTaken >= prefix
  PROVE  PlayersKeepRoles' /\ ~challenged'
<1>1. /\ policy' = policy /\ prefix' = prefix /\ challenged' = challenged
  BY DEF Issue
<1>2. stepsTaken \in Nat /\ stepsTaken' = stepsTaken + 1
  BY IssueIsBooked
<1> QED
  BY <1>1, <1>2 DEF PlayersKeepRoles

\* Whoever calls from the menu is on the path exactly as long as each step is.
LEMMA MenuKeepsPath ==
  ASSUME GeneratedTask, Sound, PathIsBooked, NEW call \in Menu, call \in Calls, Issue(call),
         ~strayed' => ~strayed /\ Positive(call),
         strayed' => strayed \/ ~Positive(call),
         policy = "continuation" /\ strayed' => ~Positive(call),
         policy = "baseline" => CommitCall(call) /\ (~Counterfactual => ~strayed')
  PROVE  PathIsBooked'
<1>1. policy' = policy
  BY DEF Issue
<1>2. stepsTaken \in Nat /\ stepsTaken' = stepsTaken + 1 /\ ~done
  BY IssueIsBooked DEF Sound
<1>3. ASSUME ~strayed' PROVE Committed' \subseteq Target /\ Len(completed') = stepsTaken'
  <2>1. \E n \in Target : Committed' = Committed \cup {n} /\ Len(completed') = Len(completed) + 1
    BY <1>3, PositiveStep
  <2>2. Committed \subseteq Target /\ Len(completed) = stepsTaken
    BY <1>3 DEF PathIsBooked
  <2> QED
    BY <1>2, <2>1, <2>2
<1>4. ASSUME strayed' PROVE Cardinality(Committed' \cap Target) < stepsTaken'
  <2>1. CASE strayed
    BY <2>1, BehindStaysBehind DEF PathIsBooked
  <2>2. CASE ~Positive(call)
    BY <2>2, OneStepBehind
  <2> QED
    BY <1>4, <2>1, <2>2
<1>5. ASSUME strayed', policy = "continuation", ~Counterfactual PROVE ~(Nodes \subseteq Committed')
  <2>1. ~(Nodes \subseteq Committed)
    BY <1>2, SomethingIsLeft DEF GeneratedTask, Sound
  <2>2. Committed' \cap Target = Committed \cap Target
    BY <1>5, OtherStep
  <2>3. Target = Nodes
    BY <1>5 DEF GeneratedTask, OneWay, WholeWorkflow
  <2> QED
    BY <2>1, <2>2, <2>3
<1>6. ASSUME policy = "baseline" PROVE Len(completed') = stepsTaken'
  <2>1. Len(completed) = stepsTaken
    BY <1>6 DEF PathIsBooked
  <2>2. Len(completed') = Len(completed) + 1
    BY <1>6, IssueIsBooked DEF Sound
  <2> QED
    BY <1>2, <2>1, <2>2
<1> QED
  BY <1>1, <1>3, <1>4, <1>5, <1>6 DEF PathIsBooked

\* A plan is replayed as it was written.
LEMMA ReplayKeeps ==
  ASSUME GeneratedTask, PlayInv, ProperCalls, ReplayPlan
  PROVE  PlayInv'
<1>1. PICK n \in Upcoming : Issue(PlanCall(n))
  BY DEF ReplayPlan
<1> DEFINE call == PlanCall(n)
<1>2. /\ stepsTaken < prefix /\ strayed' = strayed
      /\ policy' = policy /\ prefix' = prefix /\ challenged' = challenged
  BY <1>1 DEF ReplayPlan, Issue
<1>3. prefix \in Int /\ ~challenged
  BY <1>2 DEF PlayInv, PlayersKeepRoles
<1>4. Sound /\ PathIsBooked /\ PlayersKeepRoles /\ stepsTaken \in Nat
  BY <1>3 DEF PlayInv, Sound, IInv, TypeOK
<1>5. strayed = FALSE
  BY <1>2, <1>3, <1>4 DEF PlayersKeepRoles
<1>6. Committed \subseteq Target /\ Len(completed) = stepsTaken
  BY <1>4, <1>5 DEF PathIsBooked
<1>7. call \in Calls
  BY DEF ProperCalls
<1>8. /\ call.tool_name = Node[n].tool_name /\ Schema[Node[n].tool_name].mutating
      /\ call.arguments.operation_id = n /\ IsOwn(call)
      /\ Validate(call) = Accepts(n, FALSE)
  BY <1>4, <1>6, PlanCallCommits
<1> HIDE DEF call
<1>9. Issue(call)
  BY <1>1 DEF call
<1>10. Sound'
  BY <1>4, <1>7, <1>8, <1>9, IssueKeepsSound
<1>11. CommitCall(call)
  BY <1>8, <1>9, AcceptedIsCommitted
<1>12. /\ Committed' = Committed \cup {n} /\ Len(completed') = Len(completed) + 1
       /\ stepsTaken' = stepsTaken + 1
  BY <1>4, <1>7, <1>8, <1>9, <1>11, IssueIsBooked DEF Sound
<1>13. n \in Target
  BY DEF Upcoming
<1>14. Committed' \subseteq Target /\ Len(completed') = stepsTaken'
  BY <1>6, <1>12, <1>13
<1>15. PathIsBooked'
  BY <1>2, <1>5, <1>14 DEF PathIsBooked
<1>16. PlayersKeepRoles'
  BY <1>2, <1>3, <1>4, <1>5, <1>7, <1>9, RolesAreKept DEF Sound
<1> QED
  BY <1>10, <1>15, <1>16 DEF PlayInv

\* A continuation goes on as it should, ...
LEMMA FollowKeeps ==
  ASSUME GeneratedTask, PlayInv, ProperCalls, FollowPositive
  PROVE  PlayInv'
<1>1. PICK call \in Positives : Issue(call)
  BY DEF FollowPositive
<1>2. call \in Menu /\ call \in Calls /\ Positive(call)
  BY DEF Positives, ProperCalls
<1>3. /\ policy = "continuation" /\ strayed = FALSE /\ strayed' = FALSE
  BY DEF FollowPositive, PlayInv, PlayersKeepRoles
<1>4. ~challenged /\ Sound /\ PathIsBooked /\ PlayersKeepRoles
  BY <1>3 DEF PlayInv, PlayersKeepRoles
<1>5. Sound'
  BY <1>1, <1>2, <1>4, MenuKeepsSound
<1>6. PathIsBooked'
  BY <1>1, <1>2, <1>3, <1>4, MenuKeepsPath
<1>7. PlayersKeepRoles'
  BY <1>1, <1>2, <1>3, <1>4, RolesAreKept DEF Sound
<1> QED
  BY <1>5, <1>6, <1>7 DEF PlayInv

\* ... or errs, and then on every later step: there is always something wrong to do.
LEMMA StrayKeeps ==
  ASSUME GeneratedTask, PlayInv, ProperCalls, Stray
  PROVE  PlayInv'
<1>1. PICK call \in ErrorPool : Issue(call)
  BY DEF Stray
<1>2. \E other \in Menu : ~Positive(other)
  <2> DEFINE other == Candidate("query", StatusQuery, Arguments(StatusQuery), None)
  <2>1. other \in Menu
    BY DEF Menu, Executable, QueryCandidates
  <2>2. other.arguments.operation_id = Public[StatusQuery].operation_id
    BY DEF Candidate, Arguments
  <2>3. Public[StatusQuery].operation_id \notin Target
    BY DEF GeneratedTask, OneWay, PublicSchemas, Progress
  <2>4. other.arguments.operation_id \notin Target
    BY <2>2, <2>3
  <2> HIDE DEF other
  <2> QED
    BY <2>1, <2>4 DEF Positive, Optimal
<1>3. call \in Menu /\ call \in Calls /\ ~Positive(call)
  BY <1>2 DEF ErrorPool, Positives, ProperCalls
<1>4. policy = "continuation" /\ strayed' = TRUE /\ stepsTaken >= prefix
  BY DEF Stray
<1>5. ~challenged /\ Sound /\ PathIsBooked /\ PlayersKeepRoles
  BY <1>4 DEF PlayInv, PlayersKeepRoles
<1>6. Sound'
  BY <1>1, <1>3, <1>5, MenuKeepsSound
<1>7. PathIsBooked'
  BY <1>1, <1>3, <1>4, <1>5, MenuKeepsPath
<1>8. PlayersKeepRoles'
  BY <1>1, <1>3, <1>4, <1>5, RolesAreKept DEF Sound
<1> QED
  BY <1>6, <1>7, <1>8 DEF PlayInv

\* An agent may do anything.
LEMMA AgentKeeps ==
  ASSUME GeneratedTask, PlayInv, ProperCalls, AgentPlays
  PROVE  PlayInv'
<1>1. PICK call \in Menu : Issue(call) /\ strayed' = (strayed \/ ~Positive(call))
  BY DEF AgentPlays
<1>2. call \in Calls
  BY DEF ProperCalls
<1>3. policy = "agent" /\ prefix = 0
  BY DEF AgentPlays, PlayInv, PlayersKeepRoles
<1>4. /\ ~challenged /\ Sound /\ PathIsBooked /\ PlayersKeepRoles
      /\ stepsTaken \in Nat /\ strayed' \in BOOLEAN
  BY <1>1, <1>3 DEF PlayInv, PlayersKeepRoles, Sound, IInv, TypeOK
<1>5. Sound'
  BY <1>1, <1>2, <1>4, MenuKeepsSound
<1>6. PathIsBooked'
  BY <1>1, <1>2, <1>3, <1>4, MenuKeepsPath
<1>7. PlayersKeepRoles'
  BY <1>1, <1>2, <1>3, <1>4, RolesAreKept DEF Sound
<1> QED
  BY <1>5, <1>6, <1>7 DEF PlayInv

\* R1 does what is left to do, and in a v1.3 task that is the plan.
LEMMA BaselineKeeps ==
  ASSUME GeneratedTask, PlayInv, ProperCalls, BaselinePlays
  PROVE  PlayInv'
<1>1. PICK call \in PublicReadyGreedy(Selectable) :
        Issue(call) /\ strayed' = (strayed \/ ~Positive(call))
  BY DEF BaselinePlays
<1>2. policy = "baseline" /\ prefix = 0
  BY DEF BaselinePlays, PlayInv, PlayersKeepRoles
<1>3. /\ ~challenged /\ Sound /\ PathIsBooked /\ PlayersKeepRoles
      /\ stepsTaken \in Nat /\ strayed' \in BOOLEAN
  BY <1>1, <1>2 DEF PlayInv, PlayersKeepRoles, Sound, IInv, TypeOK
<1>4. /\ call \in Menu /\ Schema[call.tool_name].mutating
      /\ Validate(call) = Accepts(call.arguments.operation_id, FALSE)
  <2>1. ~done
    BY <1>1 DEF Issue, CommitCall, AnswerCall, RejectCall
  <2> QED
    BY <1>3, <2>1, RulesCommit
<1>5. call \in Calls
  BY <1>4 DEF ProperCalls
<1>6. CommitCall(call)
  BY <1>1, <1>4, AcceptedIsCommitted
<1>7. ~Counterfactual => ~strayed'
  <2> SUFFICES ASSUME ~Counterfactual PROVE ~strayed'
    OBVIOUS
  <2>1. call.arguments.operation_id \in Target
    BY <1>3, <1>5, <1>6, <1>1, IssueIsBooked DEF Sound, GeneratedTask, OneWay, WholeWorkflow
  <2>2. Positive(call)
    BY <1>3, <1>4, <1>5, <2>1, CommitIsPositive DEF Accepts
  <2>3. ~strayed
    BY <1>2, <1>3 DEF PathIsBooked
  <2> QED
    BY <1>1, <2>2, <2>3
<1>8. Sound'
  BY <1>1, <1>3, <1>4, <1>5, MenuKeepsSound
<1>9. PathIsBooked'
  BY <1>1, <1>2, <1>3, <1>4, <1>5, <1>6, <1>7, MenuKeepsPath
<1>10. PlayersKeepRoles'
  BY <1>1, <1>2, <1>3, <1>5, RolesAreKept DEF Sound
<1> QED
  BY <1>8, <1>9, <1>10 DEF PlayInv

\* The ledger is tampered with one step before the end.
LEMMA ChallengeKeeps ==
  ASSUME GeneratedTask, PlayInv, Challenge
  PROVE  PlayInv'
<1>1. /\ policy = "dataset" /\ stepsTaken = prefix /\ ~challenged /\ challenged' = TRUE
      /\ UNCHANGED <<policy, prefix, strayed, stepsTaken, done>>
  BY DEF Challenge
<1>2. Sound /\ PathIsBooked /\ PlayersKeepRoles
  BY <1>1 DEF PlayInv
<1>3. ~strayed /\ stepsTaken = OptimalSteps - 1 /\ OptimalSteps \in Nat
  BY <1>1, <1>2, PlanSize DEF PlayersKeepRoles
<1>4. Committed \subseteq Target /\ Len(completed) = stepsTaken
  BY <1>2, <1>3 DEF PathIsBooked
<1>5. ~done
  <2> SUFFICES ASSUME done PROVE FALSE
    OBVIOUS
  <2>1. stepsTaken = OptimalSteps
    BY <1>2, <1>4, PathIsWon, PathIsShortest
  <2> QED
    BY <1>3, <2>1
<1> QED
  BY <1>1, <1>2, <1>5 DEF PlayInv, PlayersKeepRoles

\* Every step keeps the books of the play.
LEMMA PlayKeeps ==
  ASSUME GeneratedTask, PlayInv, ProperCalls, [Play]_playVars
  PROVE  PlayInv'
<1>1. ASSUME UNCHANGED playVars PROVE PlayInv'
  <2>1. UNCHANGED vars /\ UNCHANGED <<policy, prefix, strayed, challenged>>
    BY <1>1 DEF playVars
  <2>2. UNCHANGED business /\ UNCHANGED <<stepsTaken, done>> /\ Committed' = Committed
    BY <2>1 DEF vars, business, Committed
  <2>3. Sound => Sound'
    <3> SUFFICES ASSUME Sound PROVE Sound'
      OBVIOUS
    <3>1. IInv' /\ EpisodeInv' /\ SideEffectsAreThoseOfCommits' /\ ApprovalStands'
      BY <2>1, StepShape, StepHistory, StepKeepsEpisode, StepKeepsEffects, StepKeepsApproval
         DEF IInv, Sound, GeneratedTask
    <3>2. MenuInv' /\ FinalStands' /\ EndsForAReason'
      BY <2>2 DEF business, Sound, MenuInv, IdsArePast, LedgerIsOwn, FinalStands, EndsForAReason,
         Success, GoalsSatisfied
    <3> QED
      BY <3>1, <3>2 DEF Sound
  <2>4. PathIsBooked => PathIsBooked'
    BY <2>1, <2>2 DEF PathIsBooked, business
  <2>5. PlayersKeepRoles => PlayersKeepRoles'
    BY <2>1, <2>2 DEF PlayersKeepRoles
  <2> QED
    BY <2>1, <2>3, <2>4, <2>5 DEF PlayInv
<1> QED
  BY <1>1, ReplayKeeps, FollowKeeps, StrayKeeps, AgentKeeps, BaselineKeeps, ChallengeKeeps DEF Play

\* In every play of a generated task its books are kept.
LEMMA PlayIsBooked ==
  ASSUME GeneratedTask
  PROVE  PlaySpec /\ []ProperCalls => []PlayInv
<1>1. PlayInit => PlayInv
  BY PlayBegins
<1>2. PlayInv /\ ProperCalls /\ [Play]_playVars => PlayInv'
  BY PlayKeeps
<1> QED
  BY <1>1, <1>2, PTL DEF PlaySpec

-----------------------------------------------------------------------------
(* What plays show *)

\* As long as the plan is not done, some of its operations can be done next.
LEMMA SomethingIsUpcoming ==
  ASSUME GeneratedTask, Sound, ~done, Committed \subseteq Target
  PROVE  Upcoming # {}
<1>1. Target # {} /\ Target \subseteq Nodes
  BY DEF GeneratedTask, OneWay, OneLane, WholeWorkflow, WorkRemains
<1>2. Committed # Target
  <2> SUFFICES ASSUME Committed = Target PROVE FALSE
    OBVIOUS
  <2>1. completed = <<>>
    BY PlanWins DEF Sound, EpisodeInv
  <2> QED
    BY <1>1, <2>1, ToSetEmpty DEF Committed
<1>3. PICK n \in Target \ Committed :
        Node[n].required_predecessors \subseteq Nodes \ (Target \ Committed)
  BY <1>1, <1>2 DEF GeneratedTask, Acyclic
<1>4. Node[n].required_predecessors \subseteq Target
  BY <1>3 DEF GeneratedTask, OneWay
<1> QED
  BY <1>1, <1>3, <1>4, TaskAssumption DEF Upcoming

\* The menu offers each of them as the plan has it.
LEMMA UpcomingIsOffered ==
  ASSUME GeneratedTask, Sound, Len(completed) = stepsTaken, NEW n \in Upcoming
  PROVE  \E call \in Positives : Request(call) = Request(PlanCall(n))
<1>1. PICK t : t = Node[n].tool_name
  OBVIOUS
<1>2. /\ t \in Ready /\ Public[t].operation_id = n
      /\ PlanCall(n).tool_name = t /\ PlanCall(n).arguments = Arguments(t)
  BY <1>1, PlanCallCommits
<1>3. PICK other \in ValidCandidates :
        other = Candidate("valid", t, Arguments(t), Public[t].operation_id)
  BY <1>2 DEF ValidCandidates
<1>4. other.tool_name = t /\ other.arguments = Arguments(t)
  BY <1>3 DEF Candidate
<1>5. Request(other) = Request(PlanCall(n))
  BY <1>2, <1>4 DEF Request
<1>6. /\ other \in Menu /\ other.arguments.operation_id = n
      /\ Validate(other) = Accepts(n, FALSE)
  BY <1>2, <1>3, ValidIsCommitted DEF Sound, GeneratedTask
<1>7. Positive(other)
  <2>1. n \in Target \ Committed
    BY DEF Upcoming
  <2>2. CASE ~Counterfactual
    BY <1>6, <2>1, <2>2 DEF Positive, Accepts
  <2>3. CASE Counterfactual
    <3>1. /\ other.arguments.entity_id = Entity
          /\ other.arguments.expected_version = version
      BY <1>4 DEF Arguments
    <3>2. version = Cardinality(Committed)
      BY CommittedCounts DEF Sound
    <3>3. PrerequisitesMet(t)
      BY <1>2 DEF Ready
    <3> QED
      BY <1>4, <1>6, <2>1, <2>3, <3>1, <3>2, <3>3 DEF Positive, Optimal
  <2> QED
    BY <2>2, <2>3
<1> QED
  BY <1>5, <1>6, <1>7 DEF Positives

\* In a counterfactual world another lane can be entered at any time.
LEMMA SafeError ==
  ASSUME GeneratedTask, Sound, Counterfactual, Committed \subseteq Target
  PROVE  \E call \in Menu \ Positives :
           /\ Schema[call.tool_name].mutating
           /\ MaskVerdict(call).valid
           /\ Validate(call) = Accepts(call.arguments.operation_id, FALSE)
<1>1. PICK n \in Nodes \ Target : Node[n].required_predecessors = {}
  BY DEF GeneratedTask, OneWay, OneLane
<1>2. PICK call \in ValidCandidates :
        /\ call.arguments.operation_id = n
        /\ MaskVerdict(call).valid
        /\ Validate(call) = Accepts(n, FALSE)
  BY <1>1, WayForward DEF GeneratedTask, Sound
<1>3. call \in Menu /\ call.tool_name \in Ready
  BY DEF Menu, Executable, ValidCandidates, Candidate
<1>4. ~Positive(call)
  BY <1>1, <1>2 DEF Positive, Optimal
<1> QED
  BY <1>2, <1>3, <1>4 DEF Positives, Ready, Progress

\* On the path, imitation always has something to learn from.
LEMMA ExpertIsShown ==
  ASSUME GeneratedTask, PlayInv
  PROVE  ExpertStates
<1> SUFFICES ASSUME ~strayed, ~done, ~challenged PROVE ExpertStates
  BY DEF ExpertStates
<1>1. Sound /\ Committed \subseteq Target /\ Len(completed) = stepsTaken
  BY DEF PlayInv, PathIsBooked
<1>2. Positives # {}
  BY <1>1, SomethingIsUpcoming, UpcomingIsOffered
<1>3. \A call \in Positives : MaskVerdict(call).valid
  <2> SUFFICES ASSUME NEW call \in Positives PROVE MaskVerdict(call).valid
    OBVIOUS
  <2>1. call \in Menu /\ Validate(call).valid
    BY <1>1, PositiveCommits DEF Positives, Accepts
  <2>2. Decision(MaskVerdict(call)) = Decision(Validate(call))
    BY <1>1, <2>1, MenuAgrees DEF GeneratedTask, Sound
  <2> QED
    BY <2>1, <2>2 DEF Decision
<1>4. {Request(PlanCall(n)) : n \in Upcoming} \subseteq {Request(call) : call \in Positives}
  <2> SUFFICES ASSUME NEW n \in Upcoming
               PROVE  \E call \in Positives : Request(PlanCall(n)) = Request(call)
    OBVIOUS
  <2> QED
    BY <1>1, UpcomingIsOffered
<1>5. Counterfactual =>
        \E call \in Menu \ Positives :
          /\ Schema[call.tool_name].mutating
          /\ MaskVerdict(call).valid
          /\ Validate(call) = Accepts(call.arguments.operation_id, FALSE)
  BY <1>1, SafeError
<1> QED
  BY <1>2, <1>3, <1>4, <1>5 DEF ExpertStates

\* An episode is won exactly on the path.
LEMMA PathDecides ==
  ASSUME GeneratedTask, PlayInv
  PROVE  WonExactlyOnPath
<1> SUFFICES ASSUME done PROVE WonExactlyOnPath
  BY DEF WonExactlyOnPath
<1>1. Sound /\ PathIsBooked /\ PlayersKeepRoles
  BY DEF PlayInv, PlayersKeepRoles
<1>2. ASSUME ~strayed PROVE Success /\ stepsTaken = OptimalSteps
  <2>1. Committed \subseteq Target /\ Len(completed) = stepsTaken
    BY <1>1, <1>2 DEF PathIsBooked
  <2>2. Success
    BY <1>1, <2>1, PathIsWon
  <2> QED
    BY <1>1, <2>1, <2>2, PathIsShortest
<1>3. ASSUME strayed, policy \notin {"agent", "baseline"} \/ Counterfactual
      PROVE  ~Success
  <2>1. CASE Counterfactual
    BY <1>1, <1>3, <2>1, BehindIsNotDone DEF PathIsBooked
  <2>2. CASE ~Counterfactual
    <3>1. policy = "continuation"
      BY <1>1, <1>3, <2>2 DEF PlayersKeepRoles
    <3>2. ~(Nodes \subseteq Committed)
      BY <1>1, <1>3, <2>2, <3>1 DEF PathIsBooked
    <3>3. GoalNodes = Nodes
      BY <2>2 DEF GeneratedTask, OneWay, WholeWorkflow
    <3> QED
      BY <3>2, <3>3 DEF Success, GoalsSatisfied
  <2> QED
    BY <2>1, <2>2
<1> QED
  BY <1>2, <1>3 DEF WonExactlyOnPath

\* No trajectory satisfies two goals of a group.
LEMMA OneGoal ==
  ASSUME GeneratedTask, PlayInv
  PROVE  OneGoalPerTrajectory
<1> SUFFICES ASSUME Counterfactual PROVE OneGoalPerTrajectory
  BY DEF OneGoalPerTrajectory
<1> DEFINE reached == {g \in GoalPredicates : \A f \in DOMAIN g : fields[f] = g[f]}
<1>1. Sound
  BY DEF PlayInv, PlayersKeepRoles
<1>2. \A g \in reached : g = [f \in DOMAIN GoalFields |-> fields[f]]
  BY DEF GeneratedTask, OneWay, OneLane
<1>3. PICK written : written = [f \in DOMAIN GoalFields |-> fields[f]]
  OBVIOUS
<1>4. reached \subseteq {written}
  BY <1>2, <1>3
<1>5. Cardinality(reached) <= 1
  <2> HIDE DEF reached
  <2>1. reached = {} \/ reached = {written}
    BY <1>4
  <2>2. Cardinality({}) = 0 /\ Cardinality({written}) = 1
    BY FS_EmptySet, FS_Singleton
  <2> QED
    BY <2>1, <2>2
<1>6. reached # {} => stepsTaken >= MaxSteps
  BY <1>1, GoalTakesBudget
<1> QED
  BY <1>5, <1>6 DEF OneGoalPerTrajectory

\* The public rules get on.
LEMMA RulesAdvance ==
  ASSUME GeneratedTask, PlayInv
  PROVE  PublicRulesAdvance
<1> SUFFICES ASSUME ~challenged PROVE PublicRulesAdvance
  BY DEF PublicRulesAdvance
<1>1. Sound /\ PathIsBooked
  BY DEF PlayInv
<1>2. ASSUME ~done
      PROVE  /\ Selectable # {}
             /\ \A call \in ReviewerShortcut(Selectable) : Validate(call).valid
             /\ \A call \in PublicReadyGreedy(Selectable)
                              \cup OrFallback(Advances(Selectable), Selectable) :
                  Validate(call) = Accepts(call.arguments.operation_id, FALSE)
  <2>1. ReviewerShortcut(Selectable) \subseteq Selectable
    BY DEF ReviewerShortcut, OrFallback
  <2> QED
    BY <1>1, <1>2, <2>1, RulesCommit
<1>3. ASSUME policy = "baseline" PROVE Len(completed) = stepsTaken
  BY <1>1, <1>3 DEF PathIsBooked
<1>4. ASSUME policy = "baseline", ~Counterfactual
      PROVE  ~strayed /\ (done => Success /\ stepsTaken = OptimalSteps)
  <2>1. ~strayed /\ Committed \subseteq Target /\ Len(completed) = stepsTaken
    BY <1>1, <1>4 DEF PathIsBooked
  <2> QED
    BY <1>1, <2>1, PathIsWon, PathIsShortest
<1> QED
  BY <1>2, <1>3, <1>4 DEF PublicRulesAdvance

\* Whoever demonstrates a generated task, whatever its DAG and its length: as long as
\* nobody has strayed, the menu holds what the plan would do next, unmasked, and in
\* a counterfactual world a safe way to go wrong.
THEOREM ExpertAlwaysShown ==
  ASSUME GeneratedTask
  PROVE  PlaySpec /\ []ProperCalls => []ExpertStates
BY ExpertIsShown, PlayIsBooked, PTL

\* An episode of a continuation, a replay or, in a counterfactual world, of anybody is
\* won exactly if it never left the path, and then in optimal_steps steps: the labels
\* of the progress data mean what they say.
THEOREM OnlyThePathWins ==
  ASSUME GeneratedTask
  PROVE  PlaySpec /\ []ProperCalls => []WonExactlyOnPath
BY PathDecides, PlayIsBooked, PTL

\* No trajectory in a counterfactual world reaches two of its group's goals, and one
\* takes the whole budget, whoever plays.
THEOREM OneGoalAtMost ==
  ASSUME GeneratedTask
  PROVE  PlaySpec /\ []ProperCalls => []OneGoalPerTrajectory
BY OneGoal, PlayIsBooked, PTL

\* Wherever an episode has got to, the public rules find something that is accepted,
\* and R1 plays every v1.3 task to its end by a shortest path.
THEOREM PublicRulesSolve ==
  ASSUME GeneratedTask
  PROVE  PlaySpec /\ []ProperCalls => []PublicRulesAdvance
BY RulesAdvance, PlayIsBooked, PTL

\* For whoever plays, agents and plans, queries and errors: the labels and the
\* strata of a menu are right, and the way forward is on it.
THEOREM MenusServeEveryPlayer ==
  ASSUME GeneratedTask, ContextQueries # {}, \E t \in Tools : ~Public[t].policy_allowed
  PROVE  PlaySpec /\ []ProperCalls =>
           [](~challenged => MaskAgreesOnMenu /\ MenuHasEveryStratum /\ WayForwardOffered)
<1>1. ASSUME PlayInv, ~challenged
      PROVE  MaskAgreesOnMenu /\ MenuHasEveryStratum /\ WayForwardOffered
  <2>1. Sound
    BY <1>1 DEF PlayInv
  <2>2. MaskAgreesOnMenu
    BY <2>1, MenuAgrees DEF Sound, GeneratedTask, MaskAgreesOnMenu
  <2>3. MenuHasEveryStratum
    BY <2>1, StrataAreThere DEF Sound, GeneratedTask
  <2>4. WayForwardOffered
    BY <2>1, WayForward DEF Sound, GeneratedTask, WayForwardOffered
  <2> QED
    BY <2>2, <2>3, <2>4
<1>2. PlayInv => (~challenged => MaskAgreesOnMenu /\ MenuHasEveryStratum /\ WayForwardOffered)
  BY <1>1
<1> QED
  BY <1>2, PlayIsBooked, PTL

=============================================================================
