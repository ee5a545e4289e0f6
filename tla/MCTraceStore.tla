--------------------------- MODULE MCTraceStore ---------------------------
(* Two processes, two cases, of one of which there are two pieces of evidence. *)
EXTENDS TraceStore

r1 == [case |-> "c1", body |-> "x"]
r1Other == [case |-> "c1", body |-> "y"]
r2 == [case |-> "c2", body |-> "x"]

SomeRecords == {r1, r1Other, r2}
TwoRecords == {r1, r2}
NoImports == {}

\* A user installs an empty file, one with other evidence of a case, or one
\* with two records of one case, which is no trace store.
AnyImports == {<<>>, <<r1Other>>, <<r1, r1Other>>}

Usage(together, cut, killed, failing) ==
    [shared |-> together, truncated |-> cut, crashes |-> killed, faults |-> failing]

\* Several processes, which may be killed.
Killed == {Usage(TRUE, FALSE, 2, 0)}

\* Several processes and nothing wrong, or one at a time and anything wrong.
SharedOrAlone == {Usage(TRUE, FALSE, 0, 0), Usage(FALSE, TRUE, 1, 1)}

SharedAndFailing == {Usage(TRUE, FALSE, 0, 1)}
SharedAndTruncated == {Usage(TRUE, TRUE, 0, 0)}

ProcSymmetry == Permutations(Procs)

==========================================================================
