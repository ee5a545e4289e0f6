---------------------------- MODULE WorkflowEnv ----------------------------
(***************************************************************************)
(* One task of the transactional workflow environment: the tool registry   *)
(* (tools/registry.py) that validates and applies structured tool calls,   *)
(* and the environment (envs/workflow.py) that counts steps, decides when  *)
(* the episode is over and hands out rewards.                              *)
(*                                                                         *)
(* The caller is a policy: at any step it may issue any call of Calls,     *)
(* with any call_id.  Argument names, tool names and field values are      *)
(* uninterpreted; latencies and messages are left out.                     *)
(***************************************************************************)
EXTENDS Integers, Sequences, FiniteSets, SequencesExt

CONSTANTS
    Nodes,           \* ids of the hidden workflow DAG's nodes
    Node,            \* WorkflowNode of each id
    Tools,           \* names of the task's tool schemas
    Schema,          \* ToolSchema of each name
    Entity,          \* the task's entity_id
    Forbidden,       \* forbidden_side_effects
    Fields, Values,  \* business fields that node effects may set
    InitialFields,   \* initial_state of those fields
    InitialLedger,   \* initial_state.idempotency_results
    GoalFields,      \* "eq" goal predicates: field -> required value
    GoalNodes,       \* "contains_all completed_nodes" goal predicate
    MaxSteps,        \* task.max_steps
    SideEffects,     \* names of business side effects
    Keys, BlankKeys, \* idempotency keys; those that strip() to ""
    CallIds,         \* call identifiers, the empty one included
    Calls,           \* the tool calls a policy may issue
    NoCallId,        \* the empty call_id
    None, IllTyped   \* an absent value; an argument of the wrong JSON type

InspectStatus == "inspect-status"
Approval == "approval_token"
ArgNames == {"entity_id", "operation_id", "expected_version",
             "approval_token", "idempotency_key"}

WorkflowNodes ==
    [tool_name: Tools,
     required_predecessors: SUBSET Nodes,
     effects: UNION {[F -> Values] : F \in SUBSET Fields},
     side_effect: SideEffects \cup {None},
     safety_token: Values]

ToolSchemas ==
    [required: SUBSET ArgNames, mutating: BOOLEAN, idempotent: BOOLEAN,
     side_effect: SideEffects \cup {None}]

(***************************************************************************)
(* The task contract: the pydantic models, and the fact that a schema has  *)
(* no optional or additional arguments and names the three common ones     *)
(* (true of both benchmark generators).                                    *)
(***************************************************************************)
ASSUME TaskAssumption ==
    /\ Node \in [Nodes -> WorkflowNodes]
    /\ Schema \in [Tools -> ToolSchemas]
    /\ \A t \in Tools :
         {"entity_id", "operation_id", "expected_version"} \subseteq Schema[t].required
    /\ Approval \in Fields
    /\ None \in Values
    /\ InitialFields \in [Fields -> Values]
    /\ InitialLedger \in [Keys -> Nodes \cup {None}]
    /\ DOMAIN GoalFields \subseteq Fields
    /\ GoalNodes \subseteq Nodes
    /\ MaxSteps \in Nat \ {0}
    /\ None \notin Nodes \cup Keys \cup SideEffects
    /\ None # IllTyped
    /\ Forbidden \subseteq SideEffects

(***************************************************************************)
(* The forbidden-side-effect check reads the schema's side effect but the  *)
(* commit records the node's, so the two must agree, as they do in every   *)
(* generated task.  Likewise an idempotency key is accepted only by tools  *)
(* whose nodes carry a safety token.                                       *)
(***************************************************************************)
ASSUME SchemaMatchesNode ==
    \A n \in Nodes :
      LET schema == Schema[Node[n].tool_name] IN
      /\ Node[n].side_effect = schema.side_effect
      /\ "idempotency_key" \in schema.required => Node[n].safety_token # None

ASSUME CallAssumption ==
    \A call \in Calls :
      /\ call.call_id \in CallIds
      /\ DOMAIN call.arguments = ArgNames
      /\ call.arguments.idempotency_key \in Keys \cup {None, IllTyped}

VARIABLES
    completed,    \* completed_nodes, in commit order
    version,      \* optimistic-concurrency version
    fields,       \* approval_token, status, ... : what node effects write
    sideEffects,  \* side_effects, in commit order
    processed,    \* processed_call_ids
    ledger,       \* idempotency_results: key -> node
    auditLog,     \* one entry per committed call
    stepsTaken,
    done,
    outcome       \* what the last step returned

business == <<completed, version, fields, sideEffects, processed, ledger, auditLog>>
vars == <<business, stepsTaken, done, outcome>>

-----------------------------------------------------------------------------
(* ToolRegistry.validate *)

Committed == ToSet(completed)

\* The part of a call that request_sha256 covers: everything but the call_id.
Request(call) == [tool_name |-> call.tool_name, arguments |-> call.arguments]

SchemaError(call) ==
    \/ call.tool_name \notin Tools
    \/ \E a \in ArgNames :
         \/ call.arguments[a] = IllTyped
         \/ (call.arguments[a] = None) # (a \notin Schema[call.tool_name].required)

CallIdUsed(call) == call.call_id # NoCallId /\ call.call_id \in ToSet(processed)

\* Exactly one audit entry carries the call_id, and it is for this very request.
ExactReplay(call) ==
    /\ CallIdUsed(call)
    /\ \E i \in DOMAIN auditLog :
         /\ auditLog[i].request = Request(call)
         /\ {j \in DOMAIN auditLog : auditLog[j].call_id = call.call_id} = {i}

\* Mutant: the reuse of a call_id is not noticed.
IgnoresCallId(call) == FALSE

CallIdConflict(call) == CallIdUsed(call) /\ ~ExactReplay(call)

GroundsToNode(call) ==
    /\ call.arguments.operation_id \in Nodes
    /\ Node[call.arguments.operation_id].tool_name = call.tool_name

\* Mutant: repetition is recognised by call_id only, not by completed_nodes.
ForgetsCompletion(n) == FALSE

AlreadyCompleted(n) == n \in Committed

\* Mutant: an operation may be done before those it depends on.
PredecessorsUnread(n) == TRUE

PredecessorsDone(n) == Node[n].required_predecessors \subseteq Committed

\* Mutant: the call's own token is believed, the business state is not asked.
TrustsToken(token) == TRUE

ApprovalRecorded(token) == fields[Approval] = token

\* Mutant: a key bound to another operation is accepted.
NoLedgerCollision(call) == FALSE

LedgerCollision(call) ==
    /\ ledger[call.arguments.idempotency_key] # None
    /\ ledger[call.arguments.idempotency_key] # call.arguments.operation_id

Rejects(kind) == [valid |-> FALSE, kind |-> kind, node |-> None, replay |-> FALSE]
Accepts(node, replay) == [valid |-> TRUE, kind |-> None, node |-> node, replay |-> replay]

QueryVerdict(call) ==
    IF call.arguments.operation_id # InspectStatus THEN Rejects("grounding")
    ELSE IF call.arguments.expected_version # version THEN Rejects("precondition")
    ELSE Accepts(None, FALSE)

\* Token, approval and idempotency checks of an operation with a safety token.
SafetyVerdict(call) ==
    LET n == call.arguments.operation_id
        token == Node[n].safety_token
    IN  IF token = None THEN Accepts(n, FALSE)
        ELSE IF call.arguments.approval_token # token THEN Rejects("safety")
        ELSE IF ~ApprovalRecorded(token) THEN Rejects("precondition")
        ELSE IF \/ call.arguments.idempotency_key \notin Keys \ BlankKeys
                \/ LedgerCollision(call) THEN Rejects("safety")
        ELSE Accepts(n, FALSE)

MutationVerdict(call) ==
    LET n == call.arguments.operation_id
    IN  IF ~GroundsToNode(call) THEN Rejects("grounding")
        ELSE IF ExactReplay(call) THEN Accepts(n, TRUE)
        ELSE IF AlreadyCompleted(n)
             THEN IF Schema[call.tool_name].idempotent
                  THEN Accepts(n, TRUE) ELSE Rejects("safety")
        ELSE IF \/ call.arguments.expected_version # version
                \/ ~PredecessorsDone(n)
             THEN Rejects("precondition")
        ELSE SafetyVerdict(call)

Validate(call) ==
    IF SchemaError(call) THEN Rejects("schema")
    ELSE IF CallIdConflict(call) THEN Rejects("safety")
    ELSE IF Schema[call.tool_name].side_effect \in Forbidden THEN Rejects("safety")
    ELSE IF call.arguments.entity_id # Entity THEN Rejects("grounding")
    ELSE IF Schema[call.tool_name].mutating THEN MutationVerdict(call)
    ELSE QueryVerdict(call)

-----------------------------------------------------------------------------
(* TransactionalWorkflowEnv *)

\* The two kinds of predicate_holds() that generated tasks use.
GoalsSatisfied ==
    /\ \A f \in DOMAIN GoalFields : fields[f] = GoalFields[f]
    /\ GoalNodes \subseteq Committed

\* evaluate(): every goal predicate holds and no forbidden effect was recorded.
Success ==
    /\ GoalsSatisfied
    /\ ToSet(sideEffects) \cap Forbidden = {}

\* Rewards in hundredths.
Reward(accepted, success, timedOut) ==
    CASE success  -> 100
      [] timedOut -> -100
      [] OTHER    -> IF accepted THEN -1 ELSE -15

NoOutcome == [accepted |-> FALSE, kind |-> None, node |-> None, replay |-> FALSE,
              success |-> FALSE, timedOut |-> FALSE, reward |-> 0]

Init ==
    /\ completed = <<>>
    /\ version = 0
    /\ fields = InitialFields
    /\ sideEffects = <<>>
    /\ processed = <<>>
    /\ ledger = InitialLedger
    /\ auditLog = <<>>
    /\ stepsTaken = 0
    /\ done = FALSE
    /\ outcome = NoOutcome

\* Mutant: running out of budget does not end the episode.
NeverOutOfBudget(steps) == FALSE

\* Mutant: the episode times out one step late.
OutOfBudgetLate(steps) == steps > MaxSteps

OutOfBudget(steps) == steps >= MaxSteps

\* Mutant: a refused call is free.
StepsAfterAccepted(verdict) == IF verdict.valid THEN stepsTaken + 1 ELSE stepsTaken

StepsAfter(verdict) == stepsTaken + 1

\* The tail of step(): the budget, the terminal flag and the returned outcome.
Account(verdict) ==
    LET timedOut == OutOfBudget(StepsAfter(verdict)) /\ ~Success'
    IN  /\ stepsTaken' = StepsAfter(verdict)
        /\ done' = (Success' \/ timedOut)
        /\ outcome' = [accepted |-> verdict.valid, kind |-> verdict.kind,
                       node |-> verdict.node, replay |-> verdict.replay,
                       success |-> Success', timedOut |-> timedOut,
                       reward |-> Reward(verdict.valid, Success', timedOut)]

\* Mutant: the audit entry carries the version before the commit, not after.
AuditEntryOldVersion(call) ==
    [call_id |-> call.call_id, node |-> call.arguments.operation_id,
     request |-> Request(call), version |-> version]

AuditEntry(call) ==
    [call_id |-> call.call_id, node |-> call.arguments.operation_id,
     request |-> Request(call), version |-> version + 1]

RecordEffect(effect) ==
    IF effect = None THEN sideEffects ELSE Append(sideEffects, effect)

\* execute() of a valid, first-time mutation: all bookkeeping moves together.
Apply(call) ==
    LET n == call.arguments.operation_id
        node == Node[n]
        key == call.arguments.idempotency_key
    IN  /\ completed' = Append(completed, n)
        /\ version' = version + 1
        /\ fields' = [f \in Fields |-> IF f \in DOMAIN node.effects
                                       THEN node.effects[f] ELSE fields[f]]
        /\ sideEffects' = RecordEffect(node.side_effect)
        /\ processed' = IF call.call_id = NoCallId THEN processed
                        ELSE Append(processed, call.call_id)
        /\ ledger' = IF key \in Keys THEN [ledger EXCEPT ![key] = n] ELSE ledger
        /\ auditLog' = Append(auditLog, AuditEntry(call))

CommitCall(call) ==
    LET verdict == Validate(call) IN
    /\ ~done
    /\ verdict.valid /\ ~verdict.replay /\ Schema[call.tool_name].mutating
    /\ Apply(call)
    /\ Account(verdict)

\* A status query or an idempotent replay: accepted, nothing is written.
AnswerCall(call) ==
    LET verdict == Validate(call) IN
    /\ ~done
    /\ verdict.valid /\ (verdict.replay \/ ~Schema[call.tool_name].mutating)
    /\ UNCHANGED business
    /\ Account(verdict)

RejectCall(call) ==
    LET verdict == Validate(call) IN
    /\ ~done
    /\ ~verdict.valid
    /\ UNCHANGED business
    /\ Account(verdict)

Reset ==
    /\ completed' = <<>>
    /\ version' = 0
    /\ fields' = InitialFields
    /\ sideEffects' = <<>>
    /\ processed' = <<>>
    /\ ledger' = InitialLedger
    /\ auditLog' = <<>>
    /\ stepsTaken' = 0
    /\ done' = FALSE
    /\ outcome' = NoOutcome

Step == \E call \in Calls : CommitCall(call) \/ AnswerCall(call) \/ RejectCall(call)

Next == Step \/ Reset

Spec == Init /\ [][Next]_vars

-----------------------------------------------------------------------------
(* Properties *)

Kinds == {"schema", "grounding", "precondition", "safety"}

AuditEntries ==
    [call_id: CallIds, node: Nodes, request: {Request(call) : call \in Calls}, version: Nat]

Outcomes ==
    [accepted: BOOLEAN, kind: Kinds \cup {None}, node: Nodes \cup {None},
     replay: BOOLEAN, success: BOOLEAN, timedOut: BOOLEAN,
     reward: {100, -100, -1, -15, 0}]

\* The business state and the step accounting have the shapes the code gives them.
TypeOK ==
    /\ completed \in Seq(Nodes)
    /\ version \in Nat
    /\ fields \in [Fields -> Values]
    /\ sideEffects \in Seq(SideEffects)
    /\ processed \in Seq(CallIds)
    /\ ledger \in [Keys -> Nodes \cup {None}]
    /\ auditLog \in Seq(AuditEntries)
    /\ stepsTaken \in 0..MaxSteps
    /\ done \in BOOLEAN
    /\ outcome \in Outcomes

\* The records of one history never drift apart: version, completed_nodes and
\* audit_log agree entry for entry, and a call_id is in processed_call_ids
\* exactly when the audit log can say what it was used for. execute() decides
\* replays by the last two and everything else by the first two.
HistoryAgrees ==
    /\ version = Len(completed)
    /\ Len(auditLog) = Len(completed)
    /\ \A i \in DOMAIN auditLog :
         /\ auditLog[i].node = completed[i]
         /\ auditLog[i].version = i
         /\ auditLog[i].request.arguments.operation_id = completed[i]
    /\ ToSet(processed) = {auditLog[i].call_id : i \in DOMAIN auditLog} \ {NoCallId}

\* However calls are repeated, reordered or raced against a stale version, an
\* operation takes effect at most once and only after all its predecessors.
ExactlyOnceInOrder ==
    \A i \in DOMAIN completed :
      /\ \A j \in DOMAIN completed : completed[i] = completed[j] => i = j
      /\ \A p \in Node[completed[i]].required_predecessors :
           \E j \in 1..(i - 1) : completed[j] = p

\* A call_id stands for one committed request for ever: were it audited twice,
\* an honest retry of either request would be refused as a reuse.
CallIdNamesOneRequest ==
    \A i, j \in DOMAIN auditLog :
      auditLog[i].call_id = auditLog[j].call_id /\ i # j => auditLog[i].call_id = NoCallId

\* validate() resolves an exact replay from the request alone and before it
\* looks at completed_nodes; it still never reports success for an operation
\* that has not happened.
ReplayNamesCommitted ==
    \A call \in Calls :
      Validate(call).replay => Validate(call).node \in Committed

\* No operation with a safety token was committed before that very approval
\* was in the business state, whether or not the DAG orders it after the
\* approving operation.
ApprovalPrecedesGuarded ==
    \A i \in DOMAIN completed :
      LET token == Node[completed[i]].safety_token IN
      token # None =>
        \/ InitialFields[Approval] = token
        \/ \E j \in 1..(i - 1) :
             LET effects == Node[completed[j]].effects IN
             Approval \in DOMAIN effects /\ effects[Approval] = token

\* An idempotency key pays for one mutation: no two commits carry the same key.
IdempotencyKeyOnce ==
    \A i, j \in DOMAIN auditLog :
      LET key == auditLog[i].request.arguments.idempotency_key IN
      key = auditLog[j].request.arguments.idempotency_key /\ i # j => key = None

\* A binding in the idempotency ledger, once made or inherited, is never
\* overwritten while the episode lasts (execute() assigns it unconditionally).
LedgerNeverRebinds ==
    [][\A k \in Keys :
         ledger[k] # None /\ stepsTaken' > stepsTaken => ledger'[k] = ledger[k]]_vars

\* The two independent judges of a side effect agree: what validate() refuses
\* by the tool's declaration never reaches the state that evaluate() counts,
\* and the side effects recorded are those of the committed nodes, once each.
SideEffectsAreThoseOfCommits ==
    /\ ToSet(sideEffects) \cap Forbidden = {}
    /\ \A e \in SideEffects :
         Cardinality({i \in DOMAIN sideEffects : sideEffects[i] = e})
         = Cardinality({i \in DOMAIN completed : Node[completed[i]].side_effect = e})

\* The environment implements the abstract episode.
Episode == INSTANCE WorkflowTransactions WITH
    Predecessors <- [n \in Nodes |-> Node[n].required_predecessors],
    Budget <- MaxSteps,
    committed <- Committed,
    remaining <- MaxSteps - stepsTaken,
    ended <- done

\* Each environment step is one abstract commit, one unit of wasted budget, or a reset.
ImplementsEpisode == Episode!Spec

=============================================================================
