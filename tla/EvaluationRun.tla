--------------------------- MODULE EvaluationRun ---------------------------
(***************************************************************************)
(* Evaluation runs that share an output directory: ResumeGuard.authorize   *)
(* (evaluation/integrity.py) binds the directory to the four hashes of a   *)
(* run's inputs, then evaluate_policy (training.py) appends the evidence   *)
(* of every test case the trace does not hold yet, and the caller demands  *)
(* exactly the expected cases (cli.py evaluate, experiment.py).            *)
(*                                                                         *)
(* The trace store is used through its specification, AppendOnlyLog: an    *)
(* append is one step.  Evaluation is deterministic, so the evidence of a  *)
(* case is determined by the inputs of the run that produced it.           *)
(*                                                                         *)
(* Runs may be killed and started again; a power loss ends all of them and *)
(* may take directory entries that no fsync of the directory has covered.  *)
(***************************************************************************)
EXTENDS Integers, Sequences, FiniteSets, SequencesExt

CONSTANTS
    Runs,           \* processes evaluating into the same directory
    Inputs,         \* RunInputHashes: benchmark, config, source, checkpoint
    InputsOf,       \* the inputs each run was started with
    Tasks,          \* the test tasks, in order
    None,
    MaxCrashes,     \* bound on the runs killed
    MaxPowerLosses  \* bound on power losses

ASSUME RunAssumption ==
    /\ InputsOf \in [Runs -> Inputs]
    /\ None \notin Inputs
    /\ Tasks \in Seq(ToSet(Tasks)) /\ IsInjective(Tasks)
    /\ MaxCrashes \in Nat /\ MaxPowerLosses \in Nat

CaseIds == ToSet(Tasks)

VARIABLES
    guard,         \* run-integrity.json: the inputs it names, or None
    guardDurable,  \* its directory entry survives a power loss
    trace,         \* the committed evidence records
    traceDurable,  \* the trace's directory entry survives a power loss
    pc,            \* where each run is
    completed,     \* completed_case_ids() when the run opened the trace
    next,          \* position in Tasks
    crashes, powerLosses

guardFile == <<guard, guardDurable>>
traceFile == <<trace, traceDurable>>
progress == <<completed, next>>
bounds == <<crashes, powerLosses>>
vars == <<guardFile, traceFile, pc, progress, bounds>>

Put(f, r, x) == [f EXCEPT ![r] = x]
Goto(r, label) == pc' = Put(pc, r, label)

Init ==
    /\ guard = None /\ guardDurable = FALSE
    /\ trace = <<>> /\ traceDurable = FALSE
    /\ pc = [r \in Runs |-> "down"]
    /\ completed = [r \in Runs |-> {}]
    /\ next = [r \in Runs |-> 1]
    /\ crashes = 0 /\ powerLosses = 0

-----------------------------------------------------------------------------
(* ResumeGuard.authorize *)

Start(r) ==
    /\ pc[r] \in {"down", "refused"}
    /\ Goto(r, "exists")
    /\ completed' = Put(completed, r, {})
    /\ next' = Put(next, r, 1)
    /\ UNCHANGED <<guardFile, traceFile, bounds>>

\* if self.manifest_path.exists(): return self.verify(hashes)
Exists(r) ==
    /\ pc[r] = "exists"
    /\ Goto(r, IF guard # None THEN "verify" ELSE "probe")
    /\ UNCHANGED <<guardFile, traceFile, progress, bounds>>

\* Mutant: traces are not looked at.
IgnoresTraces == TRUE

TraceIsFresh == trace = <<>>

\* A trace without a guard cannot be adopted.
Probe(r) ==
    /\ pc[r] = "probe"
    /\ Goto(r, IF TraceIsFresh THEN "link" ELSE "refused")
    /\ UNCHANGED <<guardFile, traceFile, progress, bounds>>

\* RunIntegrityManifest: what the guard names.
Identity(r) == InputsOf[r]

\* Mutant: os.replace instead of os.link, the last writer wins.
Overwrite(r) == guard' = Identity(r) /\ guardDurable' = FALSE

\* os.link creates the guard unless some run has done so.
CreateIfAbsent(r) ==
    IF guard = None
    THEN guard' = Identity(r) /\ guardDurable' = FALSE
    ELSE UNCHANGED guardFile

Link(r) ==
    /\ pc[r] = "link"
    /\ CreateIfAbsent(r)
    /\ Goto(r, "sync")
    /\ UNCHANGED <<traceFile, progress, bounds>>

\* _fsync_directory: what the directory names now, it names after a power loss.
SyncDirectory(r) ==
    /\ pc[r] = "sync"
    /\ guardDurable' = (guard # None)
    /\ traceDurable' = (traceDurable \/ trace # <<>>)
    /\ Goto(r, "verify")
    /\ UNCHANGED <<guard, trace, progress, bounds>>

\* Mutant: any guard will do.
SomeGuard(r) == guard # None

GuardMatches(r) == guard = InputsOf[r]

Verify(r) ==
    /\ pc[r] = "verify"
    /\ Goto(r, IF GuardMatches(r) THEN "open" ELSE "refused")
    /\ UNCHANGED <<guardFile, traceFile, progress, bounds>>

-----------------------------------------------------------------------------
(* evaluate_policy *)

TracedCases == {rec.case : rec \in ToSet(trace)}

Open(r) ==
    /\ pc[r] = "open"
    /\ completed' = Put(completed, r, TracedCases)
    /\ Goto(r, "evaluate")
    /\ UNCHANGED <<guardFile, traceFile, next, bounds>>

Evidence(r, case) == [case |-> case, inputs |-> InputsOf[r]]

Skip(r) ==
    /\ pc[r] = "evaluate"
    /\ next[r] <= Len(Tasks)
    /\ Tasks[next[r]] \in completed[r]
    /\ next' = Put(next, r, next[r] + 1)
    /\ UNCHANGED <<guardFile, traceFile, pc, completed, bounds>>

\* Mutant: the trace is written without asking whether the case is there.
AlwaysNew(case) == TRUE

IsNew(case) == case \notin TracedCases

\* run_episode, then store.append: appended, already there, or a conflict.
Evaluate(r) ==
    LET case == Tasks[next[r]] IN
    /\ pc[r] = "evaluate"
    /\ next[r] <= Len(Tasks)
    /\ case \notin completed[r]
    /\ trace' = IF IsNew(case) THEN Append(trace, Evidence(r, case)) ELSE trace
    /\ IF IsNew(case) \/ Evidence(r, case) \in ToSet(trace)
       THEN next' = Put(next, r, next[r] + 1) /\ UNCHANGED pc
       ELSE Goto(r, "conflict") /\ UNCHANGED next
    /\ UNCHANGED <<guardFile, traceDurable, completed, bounds>>

\* Every task's case is in the store's index now; assert_exact_case_ids can
\* only fail on cases of another benchmark, which the guard excludes.
Finish(r) ==
    /\ pc[r] = "evaluate"
    /\ next[r] > Len(Tasks)
    /\ Goto(r, "done")
    /\ UNCHANGED <<guardFile, traceFile, progress, bounds>>

-----------------------------------------------------------------------------
(* Failures *)

Crash(r) ==
    /\ crashes < MaxCrashes
    /\ pc[r] \notin {"down", "refused", "conflict", "done"}
    /\ Goto(r, "down")
    /\ crashes' = crashes + 1
    /\ UNCHANGED <<guardFile, traceFile, progress, powerLosses>>

PowerLoss ==
    /\ powerLosses < MaxPowerLosses
    /\ powerLosses' = powerLosses + 1
    /\ pc' = [r \in Runs |-> "down"]
    /\ guard' \in IF guardDurable THEN {guard} ELSE {guard, None}
    /\ guardDurable' = (guard' # None)
    /\ trace' \in IF traceDurable THEN {trace} ELSE {trace, <<>>}
    /\ traceDurable' = (trace' # <<>>)
    /\ UNCHANGED <<progress, crashes>>

-----------------------------------------------------------------------------

Run(r) ==
    \/ Exists(r) \/ Probe(r) \/ Link(r) \/ SyncDirectory(r) \/ Verify(r)
    \/ Open(r) \/ Skip(r) \/ Evaluate(r) \/ Finish(r)

Next ==
    \/ \E r \in Runs : Start(r) \/ Run(r) \/ Crash(r)
    \/ PowerLoss

Spec == Init /\ [][Next]_vars

\* A process that was started keeps running.
FairSpec == Spec /\ \A r \in Runs : WF_vars(Run(r))

-----------------------------------------------------------------------------
(* Properties *)

\* However runs with different inputs are started, killed, raced and resumed
\* in one directory, and whatever a power loss takes, all the evidence of a
\* trace comes from the same inputs.
OneRunPerTrace == \A rec1, rec2 \in ToSet(trace) : rec1.inputs = rec2.inputs

\* A run reports success only over a trace of exactly its own evidence.
DoneIsComplete ==
    \A r \in Runs :
      pc[r] = "done" =>
        /\ ToSet(trace) = {Evidence(r, case) : case \in CaseIds}
        /\ Len(trace) = Len(Tasks)

\* An authorized run never learns half-way that the trace has other evidence.
NeverConflicts == \A r \in Runs : pc[r] # "conflict"

\* authorize() returns only when no power loss can take the guard away, for
\* only then is a fresh run safe to resume.
SafeToResume == \A r \in Runs : pc[r] \in {"open", "evaluate"} => guardDurable

\* A run that was started is refused, dies, or finishes.
StartedRunEnds ==
    \A r \in Runs : pc[r] = "exists" ~> pc[r] \in {"down", "refused", "done"}

============================================================================
