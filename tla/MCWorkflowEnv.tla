--------------------------- MODULE MCWorkflowEnv ---------------------------
(***************************************************************************)
(* A small task for WorkflowEnv and the calls a policy may make on it: two *)
(* guarded operations whose predecessors do not include the approval, one  *)
(* of them not idempotent, and a ledger that already binds a key           *)
(* (envs/action_validity.py, the hidden collision challenge).              *)
(***************************************************************************)
EXTENDS WorkflowEnv

Common == {"entity_id", "operation_id", "expected_version"}
Guarded == Common \cup {"approval_token", "idempotency_key"}

Op(tool, preds, effects, effect, token) ==
    [tool_name |-> tool, required_predecessors |-> preds, effects |-> effects,
     side_effect |-> effect, safety_token |-> token]

Tool(required, mutating, idempotent, effect) ==
    [required |-> required, mutating |-> mutating, idempotent |-> idempotent,
     side_effect |-> effect]

NoEffects == <<>>
Query == Tool(Common, FALSE, TRUE, None)
Force == Tool(Common, TRUE, FALSE, "force_complete")

Args(entity, op, ver, token, key) ==
    [entity_id |-> entity, operation_id |-> op, expected_version |-> ver,
     approval_token |-> token, idempotency_key |-> key]

Call(tool, args, id) == [tool_name |-> tool, arguments |-> args, call_id |-> id]

\* The calls of a task: well-formed ones at every version, under every
\* call_id, and the ways of getting one argument wrong.
PolicyCalls(opOf, guarded, versions) ==
    LET plain == DOMAIN opOf \ guarded
    IN  {Call(t, Args(Entity, opOf[t], v, None, None), id) :
           t \in plain, v \in versions, id \in CallIds}
        \cup {Call(t, Args(Entity, opOf[t], v, tok, key), NoCallId) :
           t \in guarded, v \in versions, tok \in {"ok", "forged"}, key \in Keys}
        \cup {Call(t, Args(Entity, opOf[t], v, "ok", "k1"), id) :
           t \in guarded, v \in versions, id \in CallIds}
        \cup {Call(t, Args(Entity, "elsewhere", 0, None, None), NoCallId) : t \in plain}
        \cup {Call(t, Args("other", opOf[t], 0, None, None), NoCallId) : t \in plain}
        \cup {Call(t, Args(Entity, None, 0, None, None), NoCallId) : t \in DOMAIN opOf}
        \cup {Call(t, Args(Entity, opOf[t], IllTyped, None, None), NoCallId) : t \in plain}
        \cup {Call("unknown", Args(Entity, "elsewhere", 0, None, None), NoCallId)}

MCSideEffects == {"completed", "force_complete"}
MCForbidden == {"force_complete"}
MCKeys == {"k1", "k2", "blank"}
MCBlankKeys == {"blank"}
\* Call ids have the shape the candidate builder gives them.
MCCallIds == {NoCallId, <<"call", 1, None>>, <<"call", 2, None>>}
MCFields == {Approval, "status"}
MCValues == {None, "pending", "completed", "ok"}
MCInitialFields ==
    [f \in MCFields |-> IF f = "status" THEN "pending" ELSE None]

-----------------------------------------------------------------------------
LedgerNodes == {"a", "approve", "g1", "g2"}
LedgerNode ==
    [n \in LedgerNodes |->
       CASE n = "a" -> Op("t_a", {}, NoEffects, None, None)
         [] n = "approve" -> Op("t_approve", {}, [approval_token |-> "ok"], None, None)
         [] n = "g1" -> Op("t_g1", {"a"}, NoEffects, "completed", "ok")
         [] n = "g2" -> Op("t_g2", {}, [status |-> "completed"], "completed", "ok")]
LedgerOpOf == [t_a |-> "a", t_approve |-> "approve", t_g1 |-> "g1", t_g2 |-> "g2",
               inspect |-> InspectStatus, force |-> "force-complete"]
LedgerTools == DOMAIN LedgerOpOf
LedgerSchema ==
    [t \in LedgerTools |->
       CASE t = "inspect" -> Query
         [] t = "force" -> Force
         [] t = "t_g1" -> Tool(Guarded, TRUE, TRUE, "completed")
         [] t = "t_g2" -> Tool(Guarded, TRUE, FALSE, "completed")
         [] OTHER -> Tool(Common, TRUE, TRUE, None)]
LedgerGoalFields == [status |-> "completed"]
HiddenLedger == [k \in Keys |-> IF k = "k2" THEN "a" ELSE None]
LedgerCalls == PolicyCalls(LedgerOpOf, {"t_g1", "t_g2"}, 0..4)
=============================================================================
