---------------------------- MODULE Publication -----------------------------
(***************************************************************************)
(* How a benchmark reaches its directory, file by file, and how the        *)
(* directory is taken for what it says it is.                              *)
(*   prepare   write_benchmark and write_action_validity_dataset of        *)
(*             envs/persistence.py (prepare_benchmark of experiment.py)    *)
(*   accept    run_v14_development_acceptance of v14_acceptance.py, with   *)
(*             the baseline suite of evaluation/benchmark_v14.py           *)
(*   audit     write_public_ready_audit, then verify_public_ready_audit,   *)
(*             of evaluation/public_baselines.py                           *)
(* Every file is written by _write_bytes_atomic of evaluation/io.py.  A    *)
(* directory may hold an earlier benchmark, a process may be killed        *)
(* anywhere, and any write may fail.  A second process may publish the     *)
(* same benchmark at the same time; of two benchmarks, one is published    *)
(* after the other.                                                        *)
(*                                                                         *)
(* A benchmark is its generation: the seed and sizes, which determine the  *)
(* bytes of every file.  Of the split files, train stands for dev as well. *)
(***************************************************************************)
EXTENDS Integers, Sequences, FiniteSets, SequencesExt

CONSTANTS Publishers,    \* processes
          Generations,
          Names,         \* random parts of the names of temporary files
          MaxStarts,     \* starts of publishers
          None

ASSUME NameAssumption == None \notin Names

VARIABLES
    job,         \* what the directory is for
    files,       \* the directory: name -> content or None
    temps,       \* temporary files in it
    pc, gen,     \* what each publisher is doing, and for which generation
    at,          \* its position in the job's program
    temporary,   \* the variable of _write_bytes_atomic: a name or None
    seen,        \* contents it has hashed
    starts

vars == <<job, files, temps, pc, gen, at, temporary, seen, starts>>

Prepared == <<"train", "test", "manifest", "actions", "actions.manifest">>
Accepted == <<"train", "test", "manifest", "traces", "report">>
Audited == <<"traces", "report">>
Files == ToSet(Prepared) \cup ToSet(Accepted) \cup {"verification"}

-----------------------------------------------------------------------------
(* Programs: the files written and the checks made, in order *)

\* Mutant: an earlier verdict stays in place while its files are replaced.
ProgramUnmarked(j) ==
    CASE j = "prepare" -> Prepared
      [] j = "accept" ->
           <<"train", "test", "manifest", "check", "traces", "report", "check", "passed">>
      [] j = "audit" -> <<"traces", "check", "report", "check", "passed">>

Program(j) ==
    CASE j = "prepare" -> Prepared
      [] j = "accept" ->
           <<"in_progress", "train", "test", "manifest", "check", "traces", "report", "check",
             "passed">>
      [] j = "audit" ->
           <<"in_progress", "traces", "check", "report", "pending",
             "in_progress", "check", "passed">>

\* What a job has published once it has come to its end.
Product(j) ==
    ToSet(CASE j = "prepare" -> Prepared [] j = "accept" -> Accepted [] j = "audit" -> Audited)

Target(step) ==
    IF step \in {"in_progress", "pending", "passed"} THEN "verification" ELSE step

\* The files whose hashes a file records.
Covers(step) ==
    CASE step = "manifest" -> {"train", "test"}
      [] step = "actions.manifest" -> {"actions"}
      [] step = "report" -> {"traces"}
      [] step \in {"pending", "passed"} ->
           {IF job = "audit" THEN "traces" ELSE "manifest", "report"}
      [] OTHER -> {}

Step(p) == Program(job)[at[p]]

\* What p is about to write.  Hashes of data files were taken when they had
\* been written; those in verification.json are taken now.
Content(p) ==
    [gen |-> gen[p],
     passed |-> Step(p) = "passed",
     of |-> [f \in Covers(Step(p)) |->
               IF Target(Step(p)) = "verification" THEN files[f] ELSE seen[p][f]]]

\* The content of every file of a whole benchmark.
Whole(g) ==
    LET data == [gen |-> g, passed |-> FALSE, of |-> <<>>]
        index(S) == [data EXCEPT !.of = [f \in S |-> data]]
    IN  [f \in Files \ {"verification"} |-> index(Covers(f))]

HasWhole(names, g) == \A f \in names : files[f] = Whole(g)[f]

\* validate_benchmark_evidence, with a configuration that asks for g: every
\* hash, count and summary, and the data regenerated.
Validates(g) == HasWhole(Product("prepare"), g)

-----------------------------------------------------------------------------
(* _write_bytes_atomic *)

Taken(f) == {t.name : t \in {u \in temps : u.file = f}}

Die(p, how) ==
    /\ pc' = [pc EXCEPT ![p] = how]
    /\ temporary' = [temporary EXCEPT ![p] = None]
    /\ UNCHANGED <<gen, at, seen, starts>>

\* NamedTemporaryFile, write, flush and fsync.
WriteTemporary(p) ==
    /\ pc[p] = "next"
    /\ Step(p) # "check"
    /\ \E n \in Names \ Taken(Target(Step(p))) :
         /\ temps' = temps \cup
              {[file |-> Target(Step(p)), name |-> n, owner |-> p, content |-> Content(p)]}
         /\ temporary' = [temporary EXCEPT ![p] = n]
    /\ pc' = [pc EXCEPT ![p] = "written"]
    /\ UNCHANGED <<files, gen, at, seen, starts>>

Mine(p) == {t \in temps : t.file = Target(Step(p)) /\ t.name = temporary[p]}

\* Mutant: the name of the temporary file is not forgotten.
KeepsName(p) == temporary

ForgetsName(p) == [temporary EXCEPT ![p] = None]

Replace(p) ==
    /\ pc[p] = "written"
    /\ \E t \in Mine(p) :
         /\ files' = [files EXCEPT ![t.file] = t.content]
         /\ temps' = temps \ {t}
    /\ temporary' = ForgetsName(p)
    /\ pc' = [pc EXCEPT ![p] = "replaced"]
    /\ UNCHANGED <<gen, at, seen, starts>>

\* The directory is synced and the writer reads back what the path names.
Sync(p) ==
    /\ pc[p] = "replaced"
    /\ seen' = [seen EXCEPT ![p] = [@ EXCEPT ![Target(Step(p))] = files[Target(Step(p))]]]
    /\ at' = [at EXCEPT ![p] = @ + 1]
    /\ pc' = [pc EXCEPT ![p] = IF at[p] = Len(Program(job)) THEN "done" ELSE "next"]
    /\ temporary' = [temporary EXCEPT ![p] = None]
    /\ UNCHANGED <<files, temps, gen, starts>>

\* An OSError before or after the replacement: the temporary file goes, if
\* there is one, and the error ends the job.
Fail(p) ==
    /\ pc[p] \in {"written", "replaced"}
    /\ temps' = temps \ Mine(p)
    /\ Die(p, "failed")
    /\ UNCHANGED files

-----------------------------------------------------------------------------
(* Publishers *)

Running(p) == pc[p] \in {"next", "written", "replaced"}

\* Mutant: a job that failed is taken up again where it stopped.
WhereItStopped(p) == IF at[p] > Len(Program(job)) THEN 1 ELSE at[p]

FromTheBeginning(p) == 1

Start(p) ==
    /\ ~Running(p)
    /\ starts < MaxStarts
    /\ \E g \in Generations :
         /\ \A q \in Publishers \ {p} : Running(q) => gen[q] = g
         /\ gen' = [gen EXCEPT ![p] = g]
    /\ at' = [at EXCEPT ![p] = FromTheBeginning(p)]
    /\ pc' = [pc EXCEPT ![p] = "next"]
    /\ seen' = [seen EXCEPT ![p] = [f \in Files |-> None]]
    /\ starts' = starts + 1
    /\ UNCHANGED <<files, temps, temporary>>

\* What must be in place at a check: the data after the replay in a temporary
\* directory, the baselines after verify_baseline_suite has run them again.
Checked(p) == {f \in {Program(job)[i] : i \in 1..at[p]} : f \in Files} \ {"verification"}

Check(p) ==
    /\ pc[p] = "next"
    /\ Step(p) = "check"
    /\ IF HasWhole(Checked(p), gen[p])
       THEN /\ at' = [at EXCEPT ![p] = @ + 1]
            /\ UNCHANGED <<pc, gen, temporary, seen, starts>>
       ELSE Die(p, "failed")
    /\ UNCHANGED <<files, temps>>

Crash(p) ==
    /\ Running(p)
    /\ Die(p, "failed")
    /\ UNCHANGED <<files, temps>>

Publish(p) ==
    WriteTemporary(p) \/ Replace(p) \/ Sync(p) \/ Fail(p) \/ Check(p) \/ Start(p) \/ Crash(p)

-----------------------------------------------------------------------------
Init ==
    /\ job \in {"prepare", "accept", "audit"}
    /\ files = [f \in Files |-> None]
    /\ temps = {}
    /\ pc = [p \in Publishers |-> "idle"]
    /\ gen = [p \in Publishers |-> None]
    /\ at = [p \in Publishers |-> 1]
    /\ temporary = [p \in Publishers |-> None]
    /\ seen = [p \in Publishers |-> [f \in Files |-> None]]
    /\ starts = 0

Next == (\E p \in Publishers : Publish(p)) /\ UNCHANGED job

Spec == Init /\ [][Next]_vars

-----------------------------------------------------------------------------
(* Properties *)

\* verification.json never says passed next to files of another generation, or
\* before all files of its own are in place, through crashes, failures and
\* acceptances that follow or accompany each other.
PassedIsComplete ==
    files["verification"] # None /\ files["verification"].passed =>
      LET v == files["verification"] IN
      /\ HasWhole(Product(job), v.gen)
      /\ \A f \in DOMAIN v.of : v.of[f] = files[f]

\* A publisher that comes to its end has published a whole generation, whatever
\* crashes, failures and other publishers left in the directory.
FinishedIsPublished ==
    [][\A p \in Publishers :
         pc[p] # "done" /\ pc'[p] = "done" =>
           (IF job = "prepare" THEN Validates(gen[p]) ELSE HasWhole(Product(job), gen[p]))']_vars

\* A file that is being written cannot be taken away by the clean-up of
\* another write: until it is in place, it is there, and it is its writer's
\* own ("The source path is no longer ours after replace and may be reused",
\* evaluation/io.py:95).
TemporaryIsOwned ==
    \A p \in Publishers :
      pc[p] = "written" =>
        \E t \in Mine(p) : t.owner = p /\ t.content.gen = gen[p]

=============================================================================
