----------------------------- MODULE Grounding -----------------------------
(***************************************************************************)
(* The policy's side of the environment: the candidate builder             *)
(* (grounding/candidates.py), which writes a menu of calls from public     *)
(* schemas and visible state, and the ActionMask                           *)
(* (grounding/action_mask.py), a second, independent set of rules that     *)
(* predicts from public information what the environment will accept.  An  *)
(* agent (training.run_episode) picks one call of the menu per step.         *)
(*                                                                         *)
(* Where the builder draws one schema from several with a hash-seeded      *)
(* choice, the menu here holds the call for every possible draw.           *)
(***************************************************************************)
EXTENDS WorkflowEnv

CONSTANTS
    Public,        \* the public half of each schema
    StatusQuery,   \* the schema named *.inspect_status
    CandidateKey,  \* operation -> the key f"idem-{entity_id}-{operation_id}"
    WrongEntity    \* f"missing-{entity_id}"

\* Every schema of both generators declares its operation_id (GeneratedTasks
\* checks this of each task it plays).
PublicSchemas ==
    /\ Public \in [Tools -> [operation_id: STRING,
                             required_completed_operations: SUBSET Nodes,
                             policy_allowed: BOOLEAN]]
    /\ StatusQuery \in Tools /\ ~Schema[StatusQuery].mutating
    /\ Public[StatusQuery].policy_allowed
    /\ WrongEntity # Entity

Guarded(t) == Approval \in Schema[t].required

\* Some predecessor of a guarded operation grants its approval, and no operation
\* takes it back.
ApprovalComesFirst ==
    \E token \in Values :
      /\ InitialFields[Approval] = None
      /\ \A n \in Nodes :
           /\ Node[n].safety_token \in {None, token}
           /\ Approval \in DOMAIN Node[n].effects => Node[n].effects[Approval] = token
           /\ Node[n].safety_token # None =>
                \E m \in Node[n].required_predecessors : Approval \in DOMAIN Node[m].effects

\* What the public half of a schema says of the hidden node behind it, in every
\* task of both generators (GeneratedTasks checks this, too).
PublicMirrorsTask ==
    /\ \A t \in Tools :
         /\ Public[t].policy_allowed <=> Schema[t].side_effect \notin Forbidden
         /\ Guarded(t) => Public[t].policy_allowed /\ Schema[t].mutating
         /\ Schema[t].required =
              {"entity_id", "operation_id", "expected_version"}
              \cup IF Guarded(t) THEN {Approval, "idempotency_key"} ELSE {}
    /\ \A t \in {u \in Tools : Public[u].policy_allowed} :
         LET op == Public[t].operation_id IN
         IF Schema[t].mutating
         THEN /\ Schema[t].idempotent
              /\ op \in Nodes /\ Node[op].tool_name = t
              /\ Public[t].required_completed_operations = Node[op].required_predecessors
              /\ Guarded(t) <=> Node[op].safety_token # None
         ELSE op = InspectStatus /\ Public[t].required_completed_operations = {}
    /\ \A n \in Nodes :
         LET t == Node[n].tool_name IN
         Public[t].policy_allowed /\ Schema[t].mutating /\ Public[t].operation_id = n
    /\ ApprovalComesFirst

\* validate_workflow_dag: whatever remains to be done, some of it is ready.
Acyclic ==
    \A remaining \in SUBSET Nodes :
      remaining # {} =>
        \E n \in remaining : Node[n].required_predecessors \subseteq Nodes \ remaining

\* An episode is not over before its operations are: either they are more than
\* the budget allows, or whoever writes a goal field writes what the goal asks.
WorkRemains ==
    /\ IsFiniteSet(Nodes) /\ Nodes # {}
    /\ \/ Cardinality(Nodes) > MaxSteps
       \/ \A f \in DOMAIN GoalFields :
            LET writers == {n \in Nodes : f \in DOMAIN Node[n].effects} IN
            writers # {} /\ \A n \in writers : Node[n].effects[f] = GoalFields[f]

\* No proper argument looks absent or ill-typed.
ArgumentsAreProper ==
    /\ {Entity, WrongEntity} \cap {None, IllTyped} = {}
    /\ \A t \in Tools : Public[t].operation_id \notin {None, IllTyped}
    /\ {None, IllTyped} \cap Nat = {}
    /\ IllTyped \notin Values \cup Keys

\* The builder's key of a guarded operation is this operation's own, also in the
\* ledger that the task begins with.
CandidateKeysAreOwn ==
    \A n \in {m \in Nodes : Node[m].safety_token # None} :
      /\ CandidateKey[n] \in Keys \ BlankKeys
      /\ InitialLedger[CandidateKey[n]] \in {None, n}
      /\ \A m \in Nodes :
           Node[m].safety_token # None /\ CandidateKey[m] = CandidateKey[n] => m = n

-----------------------------------------------------------------------------
(* ActionMask *)

\* _schema_error: missing, then unexpected, then ill-typed arguments.
MaskSchemaError(call) ==
    \/ call.tool_name \notin DOMAIN Public
    \/ LET given == {a \in ArgNames : call.arguments[a] # None}
           declared == Schema[call.tool_name].required
       IN  \/ declared \ given # {}
           \/ given \ declared # {}
           \/ \E a \in given : call.arguments[a] = IllTyped

\* Mutant: the mask compares the token with nothing.
MaskApprovalUnchecked(call) == Accepts(call.arguments.operation_id, FALSE)

MaskApproval(call) ==
    IF fields[Approval] = None THEN Rejects("precondition")
    ELSE IF call.arguments.approval_token # fields[Approval] THEN Rejects("safety")
    ELSE IF call.arguments.idempotency_key \notin Keys \ BlankKeys THEN Rejects("safety")
    ELSE Accepts(call.arguments.operation_id, FALSE)

PrerequisitesMet(t) == Public[t].required_completed_operations \subseteq Committed

MaskVerdict(call) ==
    LET t == call.tool_name
        op == call.arguments.operation_id
    IN  IF MaskSchemaError(call) THEN Rejects("schema")
        ELSE IF ~Public[t].policy_allowed THEN Rejects("safety")
        ELSE IF call.arguments.entity_id # Entity THEN Rejects("grounding")
        ELSE IF op # Public[t].operation_id THEN Rejects("grounding")
        ELSE IF Schema[t].mutating /\ op \in Committed
             THEN IF Schema[t].idempotent THEN Accepts(op, TRUE) ELSE Rejects("safety")
        ELSE IF call.arguments.expected_version # version \/ ~PrerequisitesMet(t)
             THEN Rejects("precondition")
        ELSE IF Approval \in Schema[t].required THEN MaskApproval(call)
        ELSE Accepts(IF Schema[t].mutating THEN op ELSE None, FALSE)

-----------------------------------------------------------------------------
(* build_candidate_actions *)

\* _arguments: what the public schema and the visible state determine.
Arguments(t) ==
    LET op == Public[t].operation_id
        guarded == Approval \in Schema[t].required
    IN  [entity_id |-> Entity,
         operation_id |-> op,
         expected_version |-> version,
         approval_token |-> IF guarded THEN fields[Approval] ELSE None,
         idempotency_key |-> IF guarded THEN CandidateKey[op] ELSE None]

Candidate(kind, t, arguments, detail) ==
    [tool_name |-> t, arguments |-> arguments, call_id |-> <<kind, version, detail>>]

Progress == {t \in Tools : Schema[t].mutating /\ Public[t].policy_allowed}

Completed(t) == Public[t].operation_id \in Committed

Ready == {t \in Progress : ~Completed(t) /\ PrerequisitesMet(t)}

ValidCandidates ==
    {Candidate("valid", t, Arguments(t), Public[t].operation_id) : t \in Ready}

ContextQueries ==
    {t \in Tools : ~Schema[t].mutating /\ Public[t].policy_allowed /\ t # StatusQuery}

QueryCandidates ==
    {Candidate("query", StatusQuery, Arguments(StatusQuery), None)}
    \cup {Candidate("context", t, Arguments(t), None) : t \in ContextQueries}

ReplayCandidates ==
    {Candidate("replay", t, Arguments(t), None) : t \in {p \in Progress : Completed(p)}}

\* The schema that the schema, grounding and stale-version negatives spoil.
Anchors == IF Ready # {} THEN Ready ELSE Progress

SchemaCandidates ==
    {Candidate("schema", t, [Arguments(t) EXCEPT !.operation_id = None], None) : t \in Anchors}

GroundingCandidates ==
    {Candidate("grounding", t, [Arguments(t) EXCEPT !.entity_id = WrongEntity], None) :
        t \in Anchors}

\* Mutant: an operation waiting for approval counts as blocked already.
BlockedUnapproved == {t \in Progress : ~Completed(t)}

Blocked ==
    {t \in Progress :
       /\ ~Completed(t) /\ ~PrerequisitesMet(t)
       /\ Approval \in Schema[t].required => fields[Approval] # None}

PreconditionCandidates ==
    IF Blocked # {}
    THEN {Candidate("precondition", t, Arguments(t), None) : t \in Blocked}
    ELSE {Candidate("precondition", t,
                    [Arguments(t) EXCEPT !.expected_version = version + 1], None) : t \in Anchors}

SafetyCandidates ==
    {Candidate("safety", t, Arguments(t), None) : t \in {u \in Tools : ~Public[u].policy_allowed}}

Executable == ValidCandidates \cup QueryCandidates \cup ReplayCandidates

Menu ==
    Executable \cup SchemaCandidates \cup GroundingCandidates
    \cup PreconditionCandidates \cup SafetyCandidates

-----------------------------------------------------------------------------
(* run_episode: the agent's loop *)

\* The action_index the model samples may point at any candidate; with the
\* mask on, at any unmasked one, which is a part of these behaviours.
AgentStep ==
    \E call \in Menu : CommitCall(call) \/ AnswerCall(call) \/ RejectCall(call)

\* The environment under agents that call from their menus, masked or not.
AgentSpec == Init /\ [][AgentStep \/ Reset]_vars

-----------------------------------------------------------------------------
(* Properties *)

Decision(verdict) == [valid |-> verdict.valid, kind |-> verdict.kind]

\* On everything a menu can hold, the mask's prediction and the environment's
\* independent label coincide, error class included, at every point of every
\* episode whose inherited ledger does not bind the builder's own keys.  So an
\* agent that obeys the mask is never refused.
MaskAgreesOnMenu ==
    ~done => \A call \in Menu : Decision(MaskVerdict(call)) = Decision(Validate(call))

\* The mask's blind spot is exactly the state it cannot see: on any call at
\* all, it is wrong only if the call_id was spent on another request or the
\* idempotency key belongs to another operation, and then the environment
\* refuses the call as unsafe.
MaskErrsOnlyOnHiddenState ==
    \A call \in Calls :
      Decision(MaskVerdict(call)) # Decision(Validate(call)) =>
        /\ Decision(Validate(call)) = [valid |-> FALSE, kind |-> "safety"]
        /\ \/ CallIdConflict(call)
           \/ call.arguments.idempotency_key \in Keys /\ LedgerCollision(call)

\* Each part of the menu earns the label it was built for: the executable
\* calls are accepted, replays as replays, and each negative is refused for
\* its own reason.  The action-validity dataset stops with "candidate builder
\* lacks a validation stratum" otherwise.
MenuHasEveryStratum ==
    ~done =>
      /\ \A call \in Executable : Validate(call).valid
      /\ \A call \in ReplayCandidates : Validate(call).replay
      /\ \A call \in SchemaCandidates : Validate(call).kind = "schema"
      /\ \A call \in GroundingCandidates : Validate(call).kind = "grounding"
      /\ \A call \in PreconditionCandidates : Validate(call).kind = "precondition"
      /\ \A call \in SafetyCandidates : Validate(call).kind = "safety"
      /\ {} \notin {ContextQueries, SchemaCandidates, GroundingCandidates,
                    PreconditionCandidates, SafetyCandidates}

\* The mask never hides the way forward: each operation the DAG allows next is
\* on the menu, unmasked, and would be committed by the environment.
WayForwardOffered ==
    ~done =>
      LET allowed == {n \in Nodes \ Committed : Node[n].required_predecessors \subseteq Committed}
          committing(call) ==
              /\ MaskVerdict(call).valid
              /\ Validate(call) = Accepts(call.arguments.operation_id, FALSE)
      IN  allowed \subseteq
              {call.arguments.operation_id : call \in {c \in ValidCandidates : committing(c)}}

=============================================================================
