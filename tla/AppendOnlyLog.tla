-------------------------- MODULE AppendOnlyLog --------------------------
(***************************************************************************)
(* What a trace store promises its users: a log of evidence records that   *)
(* only grows, holds at most one record of each case, and of which every   *)
(* answer is true when it is given.                                        *)
(***************************************************************************)
EXTENDS Sequences, SequencesExt

CONSTANTS
    Procs,     \* users of the log
    Records,   \* evidence records, each with a field "case"
    NoAnswer

VARIABLES log, answer

Holds(r) == r \in ToSet(log)
Cases == {r.case : r \in ToSet(log)}

Init ==
    /\ log = <<>>
    /\ answer = [p \in Procs |-> NoAnswer]

Insert ==
    /\ \E r \in Records : r.case \notin Cases /\ log' = Append(log, r)
    /\ UNCHANGED answer

\* A user is told what is the case: the record is stored, it was already
\* there, the case has other evidence, or these are the completed cases.
True(a) ==
    CASE a.verdict = "appended" -> Holds(a.record)
      [] a.verdict = "present"  -> Holds(a.record)
      [] a.verdict = "conflict" -> a.record.case \in Cases /\ ~Holds(a.record)
      [] a.verdict = "opened"   -> a.cases = Cases
      [] OTHER -> FALSE

Answers ==
    [verdict: {"appended", "present", "conflict"}, record: Records]
      \cup [verdict: {"opened"}, cases: SUBSET {r.case : r \in Records}]

Reply(p) ==
    /\ \E a \in Answers : True(a) /\ answer' = [answer EXCEPT ![p] = a]
    /\ UNCHANGED log

\* The user asks something new, or dies.
Forget(p) ==
    /\ answer' = [answer EXCEPT ![p] = NoAnswer]
    /\ UNCHANGED log

Next == Insert \/ \E p \in Procs : Reply(p) \/ Forget(p)

Spec == Init /\ [][Next]_<<log, answer>>

==========================================================================
