------------------------- MODULE Experiment_proofs --------------------------
(***************************************************************************)
(* Proofs about Experiment, for any matrix of variants, any test split,    *)
(* any outcome of training, and any number of runs and kills.              *)
(*                                                                         *)
(* The argument: files of a variant come into being in one order, each     *)
(* determined by those before it, and none is ever replaced by another; so *)
(* whatever a run finds is what it would have left there itself, and a     *)
(* manifest stays true because everything it names has been settled.       *)
(***************************************************************************)
EXTENDS Experiment, SequenceTheorems, TLAPS

-----------------------------------------------------------------------------
(* The inductive invariant *)

Early == {"snapshot", "copying", "action-validity", "case-ids", "shared"}
AtVariant == {"variant", "training", "guard", "evaluate", "recompute"}
Late == {"claim", "manifest", "done"}

BothReports == {"action-validity", "case-ids"}

TypeOK ==
    /\ protocol \in Protocols
    /\ benchmark \in {"absent", "torn", "whole"}
    /\ reports \subseteq BothReports
    /\ shared \in Weights \cup {None}
    /\ checkpoint \in [Variants -> Checkpoints \cup {None}]
    /\ training \in [Variants -> Payloads \cup {None}]
    /\ guard \in [Variants -> Checkpoints \cup {None}]
    /\ trace \in [Variants -> Traces]
    /\ metrics \in [Variants -> Traces \cup {None}]
    /\ recompute \in [Variants -> Traces \cup {None}]
    /\ claim \in Claims \cup {None}
    /\ manifest \in Manifests \cup {None}
    /\ pc \in {"down"} \cup Early \cup AtVariant \cup Late
    /\ canonical \in BOOLEAN
    /\ bcModel \in Weights \cup {None}
    /\ model \in Weights \cup {None}
    /\ results \in Seq(Entries)

\* The models a variant may have: the shared one, or one training away from it.
OneTrainingAway(v, w) ==
    IF v \in PpoVariants THEN \E d \in Draws : w = Append(shared, d) ELSE w = shared

MeantPayload(v, w) ==
    [variant |-> v, bc_checkpoint |-> shared, before |-> shared, after |-> w]

CheckpointKept(v) ==
    checkpoint[v] # None =>
      /\ shared # None
      /\ OneTrainingAway(v, checkpoint[v].weights)
      /\ checkpoint[v].variant = v
      /\ checkpoint[v].metadata = MeantPayload(v, checkpoint[v].weights)

TrainingKept(v) ==
    training[v] # None => checkpoint[v] # None /\ training[v] = checkpoint[v].metadata

GuardKept(v) ==
    guard[v] # None => training[v] # None /\ guard[v] = checkpoint[v]

\* The trace is the evaluation of the checkpoint, as far as it has got.
TraceKept(v) ==
    /\ Len(trace[v]) <= Len(Cases)
    /\ trace[v] # <<>> => guard[v] # None
    /\ \A i \in 1..Len(trace[v]) : trace[v][i] = Evidence(Cases[i], checkpoint[v].weights)

Full(v) == Len(trace[v]) = Len(Cases)

DerivedKept(v) ==
    /\ metrics[v] # None => metrics[v] = trace[v] /\ Full(v)
    /\ recompute[v] # None => recompute[v] = trace[v] /\ Full(v)

Disk(v) ==
    CheckpointKept(v) /\ TrainingKept(v) /\ GuardKept(v) /\ TraceKept(v) /\ DerivedKept(v)

\* Nothing about the variant will change any more.
Settled(v) ==
    guard[v] # None /\ Full(v) /\ metrics[v] = trace[v] /\ recompute[v] = trace[v]

\* An entry names the files of a settled variant.
Describes(entry, v) ==
    /\ Settled(v)
    /\ entry.variant = v /\ entry.checkpoint = checkpoint[v]
    /\ entry.trace = trace[v] /\ entry.metrics = trace[v]
    /\ entry.bc_checkpoint = shared /\ entry.before = shared
    /\ entry.after = checkpoint[v].weights

AllDescribed(entries) == \A i \in 1..Len(entries) : Describes(entries[i], Matrix[i])

ResultsKept == Len(results) <= Len(Matrix) /\ AllDescribed(results)

ClaimKept == claim # None => claim = Report /\ \A v \in Variants : Settled(v)

ManifestKept ==
    manifest # None =>
      /\ reports = BothReports
      /\ manifest.claim_mode => MayClaim
      /\ Len(manifest.runs) = Len(Matrix) /\ AllDescribed(manifest.runs)

\* What the process has in memory, and has seen to, where it is.
Place ==
    /\ canonical => MayClaim
    /\ pc \in {"down"} \cup Early => results = <<>>
    /\ pc \in AtVariant => Len(results) < Len(Matrix)
    /\ pc \in Late => Len(results) = Len(Matrix)
    /\ pc \in {"action-validity", "case-ids", "shared"} \cup AtVariant \cup Late =>
         benchmark = "whole"
    /\ pc = "case-ids" => "action-validity" \in reports
    /\ pc \in {"shared"} \cup AtVariant \cup Late => reports = BothReports
    /\ pc \in AtVariant \cup Late => shared # None /\ bcModel = shared

\* The variant that is at work.
Work ==
    /\ pc \in AtVariant \ {"variant"} =>
         checkpoint[Variant] # None /\ model = checkpoint[Variant].weights
    /\ pc \in {"guard", "evaluate", "recompute"} => training[Variant] # None
    /\ pc \in {"evaluate", "recompute"} => guard[Variant] # None
    /\ pc = "recompute" => metrics[Variant] = trace[Variant] /\ Full(Variant)

Finished ==
    /\ pc \in {"manifest", "done"} => claim = ClaimOfRun
    /\ pc = "done" => manifest = [claim_mode |-> canonical, runs |-> results]

Inv ==
    /\ TypeOK /\ \A v \in Variants : Disk(v)
    /\ ResultsKept /\ ClaimKept /\ ManifestKept
    /\ Place /\ Work /\ Finished

-----------------------------------------------------------------------------
(* The matrix and the test split as sequences *)

LEMMA InOrder ==
  /\ Len(Matrix) \in Nat /\ Len(Matrix) > 0
  /\ Variants = {Matrix[i] : i \in 1..Len(Matrix)}
  /\ \A i, j \in 1..Len(Matrix) : Matrix[i] = Matrix[j] => i = j
  /\ Len(Cases) \in Nat /\ Len(Cases) > 0
  /\ ToSet(Cases) = {Cases[i] : i \in 1..Len(Cases)}
  /\ \A i, j \in 1..Len(Cases) : Cases[i] = Cases[j] => i = j
<1>1. ASSUME NEW S, NEW s \in Seq(S), s # <<>>, IsInjective(s)
      PROVE  /\ Len(s) \in Nat /\ Len(s) > 0
             /\ ToSet(s) = {s[i] : i \in 1..Len(s)}
             /\ \A i, j \in 1..Len(s) : s[i] = s[j] => i = j
  <2>1. DOMAIN s = 1..Len(s) /\ Len(s) \in Nat /\ Len(s) > 0
    BY <1>1, LenProperties, EmptySeq
  <2> QED
    BY <1>1, <2>1 DEF ToSet, IsInjective
<1>2. /\ Len(Matrix) \in Nat /\ Len(Matrix) > 0
      /\ ToSet(Matrix) = {Matrix[i] : i \in 1..Len(Matrix)}
      /\ \A i, j \in 1..Len(Matrix) : Matrix[i] = Matrix[j] => i = j
  <2> QED
    BY <1>1, MatrixAssumption
<1>3. /\ Len(Cases) \in Nat /\ Len(Cases) > 0
      /\ ToSet(Cases) = {Cases[i] : i \in 1..Len(Cases)}
      /\ \A i, j \in 1..Len(Cases) : Cases[i] = Cases[j] => i = j
  BY <1>1, MatrixAssumption
<1> QED
  BY <1>2, <1>3 DEF Variants

\* The variant at work is one of the matrix.
LEMMA AtWork ==
  ASSUME Inv, pc \in AtVariant
  PROVE  /\ Variant \in Variants
         /\ Len(results) \in Nat /\ Len(results) + 1 \in 1..Len(Matrix)
         /\ Variant = Matrix[Len(results) + 1]
<1>1. Len(results) \in Nat /\ Len(results) < Len(Matrix)
  BY LenProperties DEF Inv, TypeOK, Place
<1> QED
  BY <1>1, InOrder DEF Variant

\* The trace of a variant, row by row.
LEMMA Rows ==
  ASSUME Inv, NEW v \in Variants
  PROVE  /\ Len(trace[v]) \in Nat /\ DOMAIN trace[v] = 1..Len(trace[v])
         /\ trace[v] = <<>> <=> Len(trace[v]) = 0
         /\ trace[v] \in Seq([case : ToSet(Cases), policy : Weights])
         /\ ToSet(trace[v]) = {trace[v][i] : i \in 1..Len(trace[v])}
         /\ Len(trace[v]) <= Len(Cases)
         /\ \A i \in 1..Len(trace[v]) : trace[v][i] = Evidence(Cases[i], checkpoint[v].weights)
<1>1. trace[v] \in Seq([case : ToSet(Cases), policy : Weights])
  BY DEF Inv, TypeOK, Traces
<1>2. Len(trace[v]) \in Nat /\ DOMAIN trace[v] = 1..Len(trace[v]) /\ (trace[v] = <<>> <=> Len(trace[v]) = 0)
  BY <1>1, LenProperties, EmptySeq
<1>3. TraceKept(v)
  BY DEF Inv, Disk
<1> QED
  BY <1>1, <1>2, <1>3 DEF ToSet, TraceKept

\* A case is done if and only if the trace has come to it.
LEMMA Completed ==
  ASSUME Inv, NEW v \in Variants
  PROVE  \A i \in 1..Len(Cases) : Cases[i] \in CompletedCases(v) <=> i <= Len(trace[v])
<1>1. /\ ToSet(trace[v]) = {trace[v][i] : i \in 1..Len(trace[v])}
      /\ Len(trace[v]) \in Nat /\ Len(trace[v]) <= Len(Cases)
      /\ \A i \in 1..Len(trace[v]) : trace[v][i] = Evidence(Cases[i], checkpoint[v].weights)
  BY Rows
<1>2. \A i \in 1..Len(trace[v]) : trace[v][i].case = Cases[i]
  <2> TAKE i \in 1..Len(trace[v])
  <2>1. Evidence(Cases[i], checkpoint[v].weights).case = Cases[i]
    BY DEF Evidence
  <2> QED
    BY <1>1, <2>1
<1>3. CompletedCases(v) = {Cases[i] : i \in 1..Len(trace[v])}
  BY <1>1, <1>2 DEF CompletedCases
<1> QED
  BY <1>1, <1>3, InOrder

\* A trace that is full covers every case exactly once.
LEMMA FullCovers ==
  ASSUME Inv, NEW v \in Variants
  PROVE  Full(v) <=> Covered(trace[v])
<1>1. {row.case : row \in ToSet(trace[v])} = CompletedCases(v)
  BY DEF CompletedCases
<1>2. CompletedCases(v) \subseteq ToSet(Cases)
  <2>1. \A row \in ToSet(trace[v]) : row.case \in ToSet(Cases)
    <3> SUFFICES ASSUME NEW row \in ToSet(trace[v])
                 PROVE  row.case \in ToSet(Cases)
      OBVIOUS
    <3>1. PICK i \in 1..Len(trace[v]) : row = trace[v][i]
      BY Rows
    <3>2. row \in [case : ToSet(Cases), policy : Weights]
      BY <3>1, Rows, ElementOfSeq
    <3> QED
      BY <3>2
  <2> QED
    BY <2>1 DEF CompletedCases
<1>3. Full(v) => ToSet(Cases) \subseteq CompletedCases(v)
  BY Completed, InOrder DEF Full
<1> QED
  BY <1>1, <1>2, <1>3 DEF Full, Covered

-----------------------------------------------------------------------------
(* What does not change *)

\* What is settled is behind a checkpoint of the shared model's.
LEMMA SettledExists ==
  ASSUME Inv, NEW v \in Variants, guard[v] # None
  PROVE  /\ training[v] # None /\ checkpoint[v] # None /\ shared # None
         /\ guard[v] = checkpoint[v] /\ training[v] = checkpoint[v].metadata
  BY DEF Inv, Disk, GuardKept, TrainingKept, CheckpointKept

\* A step that leaves settled variants alone keeps whatever names them true.
LEMMA Persist ==
  ASSUME Inv, TypeOK', UNCHANGED protocol, shared # None => UNCHANGED shared,
         \A v \in Variants : Settled(v) =>
           UNCHANGED <<checkpoint[v], guard[v], trace[v], metrics[v], recompute[v]>>
  PROVE  /\ \A v \in Variants : Settled(v) => Settled(v)'
         /\ \A e \in Entries, v \in Variants : Describes(e, v) => Describes(e, v)'
         /\ UNCHANGED results => ResultsKept'
         /\ UNCHANGED claim => ClaimKept'
         /\ UNCHANGED <<reports, manifest>> => ManifestKept'
<1>1. \A v \in Variants : Settled(v) => Settled(v)' /\ shared' = shared
  BY SettledExists DEF Settled, Full
<1>2. \A e \in Entries, v \in Variants : Describes(e, v) => Describes(e, v)'
  BY <1>1 DEF Describes, Settled
<1>3. UNCHANGED results => ResultsKept'
  <2> SUFFICES ASSUME UNCHANGED results
               PROVE  ResultsKept'
    OBVIOUS
  <2>1. results \in Seq(Entries) /\ Len(results) <= Len(Matrix) /\ AllDescribed(results)
    BY DEF Inv, TypeOK, ResultsKept
  <2>2. \A i \in 1..Len(results) : results[i] \in Entries /\ Matrix[i] \in Variants
    BY <2>1, ElementOfSeq, InOrder, LenProperties
  <2>3. \A i \in 1..Len(results) : Describes(results[i], Matrix[i])'
    BY <1>1, <2>1, <2>2 DEF AllDescribed, Describes, Settled
  <2> QED
    BY <2>1, <2>3 DEF ResultsKept, AllDescribed
<1>4. UNCHANGED <<reports, manifest>> => ManifestKept'
  <2> SUFFICES ASSUME UNCHANGED <<reports, manifest>>, manifest # None
               PROVE  ManifestKept'
    BY DEF ManifestKept
  <2> DEFINE runs == manifest.runs
  <2>1. runs \in Seq(Entries) /\ Len(runs) = Len(Matrix) /\ AllDescribed(runs)
    BY DEF Inv, TypeOK, ManifestKept, Manifests
  <2>2. \A i \in 1..Len(runs) : runs[i] \in Entries /\ Matrix[i] \in Variants
    BY <2>1, ElementOfSeq, InOrder, LenProperties
  <2>3. \A i \in 1..Len(runs) : Describes(runs[i], Matrix[i])'
    BY <1>1, <2>1, <2>2 DEF AllDescribed, Describes, Settled
  <2>4. AllDescribed(manifest.runs)'
    BY <2>3 DEF AllDescribed
  <2> QED
    BY <2>4 DEF ManifestKept, MayClaim, Inv
<1>5. UNCHANGED claim => ClaimKept'
  <2> SUFFICES ASSUME UNCHANGED claim, claim # None
               PROVE  ClaimKept'
    BY DEF ClaimKept
  <2>1. claim = Report /\ \A v \in Variants : Settled(v) /\ Settled(v)'
    BY <1>1 DEF Inv, ClaimKept
  <2>2. trace' = trace
    BY <2>1 DEF Inv, TypeOK
  <2>3. Report' = Report
    BY <2>2 DEF Report, GateIsCanonical
  <2> QED
    BY <2>1, <2>3 DEF ClaimKept
<1> QED
  BY <1>1, <1>2, <1>3, <1>4, <1>5

\* A step that leaves the files of the variants as they are.
LEMMA SameFiles ==
  ASSUME Inv, TypeOK',
         UNCHANGED <<protocol, shared, checkpoint, training, guard, trace, metrics, recompute>>
  PROVE  /\ \A v \in Variants : Disk(v)'
         /\ UNCHANGED results => ResultsKept'
         /\ UNCHANGED claim => ClaimKept'
         /\ UNCHANGED <<reports, manifest>> => ManifestKept'
<1>1. \A v \in Variants : Disk(v)'
  BY DEF Inv, Disk, CheckpointKept, OneTrainingAway, MeantPayload, TrainingKept, GuardKept,
         TraceKept, DerivedKept, Full
<1>2. UNCHANGED protocol /\ (shared # None => UNCHANGED shared)
      /\ \A v \in Variants : Settled(v) =>
           UNCHANGED <<checkpoint[v], guard[v], trace[v], metrics[v], recompute[v]>>
  OBVIOUS
<1> QED
  BY <1>1, <1>2, Persist

-----------------------------------------------------------------------------
(* The invariant is inductive *)

LEMMA InitInv == Init => Inv
<1> SUFFICES ASSUME Init
             PROVE  Inv
  OBVIOUS
<1>1. /\ <<>> \in Traces /\ <<>> \in Seq(Entries) /\ Len(<<>>) = 0
      /\ Len(Matrix) \in Nat /\ Len(Cases) \in Nat
  BY EmptySeq, InOrder DEF Traces
<1>2. \A v \in Variants :
        /\ checkpoint[v] = None /\ training[v] = None /\ guard[v] = None
        /\ metrics[v] = None /\ recompute[v] = None /\ trace[v] = <<>>
  BY DEF Init, Nothing
<1>3. TypeOK
  BY <1>1 DEF Init, TypeOK, Nothing
<1>4. \A v \in Variants : Disk(v)
  BY <1>1, <1>2 DEF Disk, CheckpointKept, TrainingKept, GuardKept, TraceKept, DerivedKept
<1>5. ResultsKept
  BY <1>1 DEF Init, ResultsKept, AllDescribed
<1>6. ClaimKept /\ ManifestKept
  BY DEF Init, ClaimKept, ManifestKept
<1>7. Place /\ Work /\ Finished
  BY DEF Init, Place, Work, Finished, Early, AtVariant, Late
<1> QED
  BY <1>3, <1>4, <1>5, <1>6, <1>7 DEF Inv

\* Starting and being killed touch memory alone.
LEMMA ProcessStep ==
  ASSUME Inv, Start \/ Crash
  PROVE  Inv'
<1> USE DEF setup, evidence, derived, memory
<1>1. /\ UNCHANGED <<protocol, benchmark, reports, shared, checkpoint, training, guard, trace,
                     metrics, recompute, claim, manifest>>
      /\ pc' \in {"snapshot", "down"} /\ canonical' \in {FALSE, MayClaim}
      /\ bcModel' = None /\ model' = None /\ results' = <<>>
  BY DEF Start, Crash
<1>2. MayClaim \in BOOLEAN /\ MayClaim' = MayClaim
  BY <1>1 DEF MayClaim
<1>3. TypeOK'
  <2>1. canonical' \in BOOLEAN /\ pc' \in {"down"} \cup Early
    BY <1>1, <1>2 DEF Early
  <2>2. results' \in Seq(Entries)
    BY <1>1, EmptySeq
  <2> QED
    BY <1>1, <2>1, <2>2 DEF Inv, TypeOK
<1>4. (\A v \in Variants : Disk(v)') /\ ClaimKept' /\ ManifestKept'
  BY <1>1, <1>3, SameFiles
<1>5. ResultsKept'
  BY <1>1, EmptySeq, InOrder DEF ResultsKept, AllDescribed
<1>6. Place'
  <2>1. (canonical => MayClaim)'
    BY <1>1, <1>2
  <2>2. results' = <<>> /\ pc' \in {"snapshot", "down"}
    BY <1>1
  <2> QED
    BY <2>1, <2>2 DEF Place, Early, AtVariant, Late
<1>7. Work' /\ Finished'
  <2>1. pc' \in {"snapshot", "down"}
    BY <1>1
  <2> QED
    BY <2>1 DEF Work, Finished, AtVariant
<1> QED
  BY <1>3, <1>4, <1>5, <1>6, <1>7 DEF Inv

\* Before the variants: the benchmark, the two reports, the model to load.
LEMMA SetupStep ==
  ASSUME Inv, KeepSnapshot \/ BeginSnapshot \/ EndSnapshot \/ WriteReport \/ LoadShared
  PROVE  Inv'
<1> USE DEF setup, evidence, derived, memory
<1>1. /\ UNCHANGED <<protocol, shared, checkpoint, training, guard, trace,
                     metrics, recompute, claim, manifest, canonical, model, results>>
      /\ benchmark' \in {"torn", "whole", benchmark}
      /\ reports' = reports \/ (reports' = reports \cup {pc} /\ pc \in BothReports)
      /\ pc' \in Early \cup {"variant"}
      /\ pc \in Early
      /\ bcModel' \in {bcModel, shared}
  BY DEF KeepSnapshot, BeginSnapshot, EndSnapshot, WriteReport, LoadShared, Early, BothReports
<1>2. TypeOK'
  BY <1>1 DEF Inv, TypeOK, AtVariant
<1>3. (\A v \in Variants : Disk(v)') /\ ClaimKept' /\ ResultsKept'
  BY <1>1, <1>2, SameFiles
<1>4. ManifestKept'
  <2>1. CASE UNCHANGED reports
    BY <1>1, <1>2, <2>1, SameFiles
  <2>2. CASE manifest = None
    BY <1>1, <2>2 DEF ManifestKept
  <2>3. CASE manifest # None /\ ~UNCHANGED reports
    <3>1. reports = BothReports
      BY <2>3 DEF Inv, ManifestKept
    <3> QED
      BY <1>1, <2>3, <3>1
  <2> QED
    BY <2>1, <2>2, <2>3
<1>5. results = <<>> /\ Len(results) = 0 /\ Len(Matrix) > 0 /\ Len(Matrix) \in Nat
  BY <1>1, EmptySeq, InOrder DEF Inv, Place
<1>6. /\ pc' \in {"action-validity", "case-ids", "shared", "variant"} => benchmark' = "whole"
      /\ pc' = "case-ids" => "action-validity" \in reports'
      /\ pc' \in {"shared", "variant"} => reports' = BothReports
      /\ pc' = "variant" => shared # None /\ bcModel' = shared
  <2>1. CASE KeepSnapshot \/ BeginSnapshot \/ EndSnapshot
    BY <2>1 DEF KeepSnapshot, BeginSnapshot, EndSnapshot
  <2>2. CASE WriteReport
    BY <2>2 DEF WriteReport, Inv, TypeOK, Place, BothReports, Early, AtVariant, Late
  <2>3. CASE LoadShared
    BY <2>3 DEF LoadShared, SharedExists, Inv, Place
  <2> QED
    BY <2>1, <2>2, <2>3
<1>7. Place'
  <2>1. (canonical => MayClaim)'
    BY <1>1 DEF Inv, Place, MayClaim
  <2> QED
    BY <1>1, <1>5, <1>6, <2>1 DEF Place, Early, AtVariant, Late
<1>8. Work' /\ Finished'
  BY <1>1 DEF Work, Finished, Early, AtVariant
<1> QED
  BY <1>2, <1>3, <1>4, <1>7, <1>8 DEF Inv

\* Without a shared model there is no checkpoint yet, and nothing after it.
LEMMA TrainSharedStep ==
  ASSUME Inv, TrainShared
  PROVE  Inv'
<1> USE DEF setup, evidence, derived, memory
<1>1. /\ UNCHANGED <<protocol, benchmark, reports, checkpoint, training, guard, trace,
                     metrics, recompute, claim, manifest, canonical, model, results>>
      /\ pc = "shared" /\ pc' = "variant" /\ shared = None
      /\ \E d \in Draws : bcModel' = <<d>>
      /\ shared' = bcModel'
  BY DEF TrainShared, SharedExists
<1>2. bcModel' \in Weights /\ shared' # None
  <2>1. PICK d \in Draws : bcModel' = <<d>>
    BY <1>1
  <2>2. <<d>> \in Seq(Draws)
    OBVIOUS
  <2> QED
    BY <1>1, <2>1, <2>2, NoneAssumption DEF Weights
<1>3. \A v \in Variants : checkpoint[v] = None /\ training[v] = None /\ guard[v] = None
  BY <1>1 DEF Inv, Disk, CheckpointKept, TrainingKept, GuardKept
<1>4. TypeOK'
  BY <1>1, <1>2 DEF Inv, TypeOK, AtVariant
<1>5. \A v \in Variants : Disk(v)'
  BY <1>1, <1>3 DEF Inv, Disk, CheckpointKept, TrainingKept, GuardKept, TraceKept, DerivedKept, Full
<1>6. \A v \in Variants : ~Settled(v)
  BY <1>3 DEF Settled
<1>7. ResultsKept' /\ ClaimKept' /\ ManifestKept'
  BY <1>1, <1>4, <1>6, Persist
<1>8. Place'
  <2>1. Len(results) = 0 /\ Len(Matrix) > 0
    BY <1>1, EmptySeq, InOrder DEF Inv, Place, Early
  <2> QED
    BY <1>1, <1>2, <2>1 DEF Inv, Place, Early, AtVariant, Late, MayClaim
<1>9. Work' /\ Finished'
  BY <1>1 DEF Work, Finished
<1> QED
  BY <1>4, <1>5, <1>7, <1>8, <1>9 DEF Inv

\* What a step of the variant's work leaves alone, apart from its own files.
LEMMA PlaceKept ==
  ASSUME Inv, pc \in AtVariant, pc' \in AtVariant,
         UNCHANGED <<protocol, benchmark, reports, shared, canonical, bcModel, results>>
  PROVE  Place' /\ Variant' = Variant
<1>1. Variant' = Variant
  BY DEF Variant
<1>2. pc' \notin {"down", "claim", "manifest", "done", "case-ids"} \cup Early
  BY DEF AtVariant, Early
<1> QED
  BY <1>1, <1>2 DEF Inv, Place, MayClaim, Late

\* Only the files of the variant at work change; the others stay kept.
LEMMA OthersKept ==
  ASSUME Inv, NEW v \in Variants, shared # None => UNCHANGED shared,
         UNCHANGED <<checkpoint[v], training[v], guard[v], trace[v], metrics[v], recompute[v]>>
  PROVE  Disk(v)'
<1>1. checkpoint[v] # None => UNCHANGED shared
  BY DEF Inv, Disk, CheckpointKept
<1>2. CheckpointKept(v)'
  <2>1. CASE checkpoint[v] = None
    BY <2>1 DEF CheckpointKept
  <2>2. CASE checkpoint[v] # None
    BY <1>1, <2>2 DEF Inv, Disk, CheckpointKept, OneTrainingAway, MeantPayload
  <2> QED
    BY <2>1, <2>2
<1>3. TrainingKept(v)' /\ GuardKept(v)' /\ TraceKept(v)' /\ DerivedKept(v)'
  BY DEF Inv, Disk, TrainingKept, GuardKept, TraceKept, DerivedKept, Full
<1> QED
  BY <1>2, <1>3 DEF Disk

\* A cached variant is what this run would have made: it is never refused.
LEMMA ReuseStep ==
  ASSUME Inv, Reuse
  PROVE  /\ Inv'
         /\ training' = Put(training, Variant, checkpoint[Variant].metadata)
<1> USE DEF setup, evidence, derived, memory
<1>0. PICK u \in Variants : u = Variant
  BY AtWork DEF Reuse, AtVariant
<1>1. /\ pc = "variant" /\ checkpoint[u] # None /\ u \in Variants
      /\ UNCHANGED <<protocol, benchmark, reports, shared, checkpoint, guard, trace, metrics,
                     recompute, claim, manifest, canonical, bcModel, results>>
  BY <1>0 DEF Reuse, Trained, Refuse, AtVariant
<1>2. /\ bcModel = shared /\ shared # None /\ shared \in Weights
      /\ OneTrainingAway(u, checkpoint[u].weights)
      /\ checkpoint[u].variant = u
      /\ checkpoint[u].metadata = MeantPayload(u, checkpoint[u].weights)
      /\ training[u] # None => training[u] = checkpoint[u].metadata
      /\ checkpoint[u] \in Checkpoints
  BY <1>1 DEF Inv, TypeOK, Place, Disk, CheckpointKept, TrainingKept, AtVariant
<1>3. Record(u) = checkpoint[u].metadata
  BY <1>2 DEF Record
<1>4. DriftIsRight(u, bcModel, checkpoint[u].weights)
  <2>1. \A d \in Draws : Append(shared, d) # shared
    BY <1>2, AppendProperties, LenProperties DEF Weights
  <2> QED
    BY <1>2, <2>1 DEF OneTrainingAway, DriftIsRight
<1>5. ~PartialArtifacts(u) /\ Reusable(u)
  BY <1>1, <1>2, <1>3, <1>4 DEF PartialArtifacts, Reusable, Loads, MeantPayload, Payload
<1>6. /\ model' = checkpoint[u].weights /\ pc' = "guard"
      /\ training' = Put(training, u, checkpoint[u].metadata)
  BY <1>0, <1>3, <1>5 DEF Reuse
<1>7. /\ checkpoint[u].metadata \in Payloads /\ checkpoint[u].metadata # None
      /\ checkpoint[u].weights \in Weights
  BY <1>2, NoneAssumption DEF Checkpoints
<1>8. training'[u] = checkpoint[u].metadata /\ \A v \in Variants \ {u} : training'[v] = training[v]
  BY <1>1, <1>6 DEF Put, Inv, TypeOK
<1>9. TypeOK'
  BY <1>1, <1>6, <1>7 DEF Inv, TypeOK, Put, AtVariant
<1>10. \A v \in Variants : Disk(v)'
  <2>1. Disk(u)'
    BY <1>1, <1>7, <1>8 DEF Inv, Disk, CheckpointKept, OneTrainingAway, MeantPayload,
                            TrainingKept, GuardKept, TraceKept, DerivedKept, Full
  <2> QED
    BY <2>1, <1>1, <1>8, OthersKept
<1>11. ResultsKept' /\ ClaimKept' /\ ManifestKept'
  BY <1>1, <1>9, Persist
<1>12. Place' /\ Variant' = Variant
  BY <1>1, <1>6, PlaceKept DEF AtVariant
<1>13. Work' /\ Finished'
  BY <1>0, <1>1, <1>6, <1>7, <1>8, <1>12 DEF Work, Finished
<1> QED
  BY <1>0, <1>6, <1>9, <1>10, <1>11, <1>12, <1>13 DEF Inv

\* A new checkpoint: nothing of the variant is there yet.
LEMMA TrainStep ==
  ASSUME Inv, Train
  PROVE  Inv' /\ UNCHANGED training
<1> USE DEF setup, evidence, derived, memory
<1>0. PICK u \in Variants : u = Variant
  BY AtWork DEF Train, AtVariant
<1>1. /\ pc = "variant" /\ checkpoint[u] = None /\ u \in Variants
      /\ UNCHANGED <<protocol, benchmark, reports, shared, guard, trace, metrics,
                     recompute, claim, manifest, canonical, bcModel, results>>
  BY <1>0 DEF Train, Trained, Refuse, AtVariant
<1>2. /\ training[u] = None /\ guard[u] = None /\ trace[u] = <<>>
      /\ bcModel = shared /\ shared # None /\ shared \in Weights
  BY <1>1 DEF Inv, TypeOK, Disk, TrainingKept, GuardKept, TraceKept, Place, AtVariant
<1>3. /\ IF u \in PpoVariants THEN \E d \in Draws : model' = Append(shared, d) ELSE model' = shared
      /\ checkpoint' = Put(checkpoint, u, Saved(u, model'))
      /\ pc' = "training" /\ training' = training
  BY <1>0, <1>1, <1>2 DEF Train, Trained, PartialArtifacts, StartingPoint
<1>4. model' \in Weights /\ OneTrainingAway(u, model')
  BY <1>2, <1>3, AppendProperties DEF Weights, OneTrainingAway
<1>5. Saved(u, model') = [variant |-> u, weights |-> model', metadata |-> MeantPayload(u, model')]
  BY <1>2 DEF Saved, Payload, MeantPayload
<1>6. Saved(u, model') \in Checkpoints /\ Saved(u, model') # None
  BY <1>1, <1>2, <1>4, <1>5, NoneAssumption DEF Checkpoints, Payloads, MeantPayload
<1>7. checkpoint'[u] = Saved(u, model') /\ \A v \in Variants \ {u} : checkpoint'[v] = checkpoint[v]
  BY <1>1, <1>3 DEF Put, Inv, TypeOK
<1>8. TypeOK'
  BY <1>1, <1>3, <1>4, <1>6 DEF Inv, TypeOK, Put, AtVariant
<1>9. \A v \in Variants : Disk(v)'
  <2>1. CheckpointKept(u)'
    <3>1. checkpoint'[u].weights = model' /\ checkpoint'[u].variant = u
          /\ checkpoint'[u].metadata = MeantPayload(u, model')
      BY <1>5, <1>7
    <3> QED
      BY <1>1, <1>2, <1>4, <3>1 DEF CheckpointKept, OneTrainingAway, MeantPayload
  <2>2. TrainingKept(u)' /\ GuardKept(u)' /\ DerivedKept(u)'
    BY <1>1, <1>2, <1>3 DEF TrainingKept, GuardKept, DerivedKept, Inv, Disk, Full
  <2>3. TraceKept(u)'
    BY <1>1, <1>2, InOrder, EmptySeq DEF TraceKept
  <2> QED
    BY <2>1, <2>2, <2>3, <1>1, <1>3, <1>7, OthersKept DEF Disk
<1>10. \A v \in Variants : Settled(v) => v # u
  BY <1>2 DEF Settled
<1>11. ResultsKept' /\ ClaimKept' /\ ManifestKept'
  BY <1>1, <1>7, <1>8, <1>10, Persist
<1>12. Place' /\ Variant' = Variant
  BY <1>1, <1>3, PlaceKept DEF AtVariant
<1>13. Work' /\ Finished'
  BY <1>0, <1>3, <1>5, <1>6, <1>7, <1>12 DEF Work, Finished
<1> QED
  BY <1>3, <1>8, <1>9, <1>11, <1>12, <1>13 DEF Inv

LEMMA WriteTrainingStep ==
  ASSUME Inv, WriteTraining
  PROVE  /\ Inv'
         /\ training' = Put(training, Variant, checkpoint[Variant].metadata)
<1> USE DEF setup, evidence, derived, memory
<1>0. PICK u \in Variants : u = Variant
  BY AtWork DEF WriteTraining, AtVariant
<1>1. /\ pc = "training" /\ pc' = "guard" /\ u \in Variants
      /\ training' = Put(training, u, Payload(u, model))
      /\ UNCHANGED <<protocol, benchmark, reports, shared, checkpoint, guard, trace, metrics,
                     recompute, claim, manifest, canonical, bcModel, model, results>>
  BY <1>0 DEF WriteTraining, AtVariant
<1>2. /\ checkpoint[u] # None /\ model = checkpoint[u].weights /\ bcModel = shared
      /\ checkpoint[u].metadata = MeantPayload(u, checkpoint[u].weights)
      /\ checkpoint[u] \in Checkpoints
  BY <1>0, <1>1 DEF Inv, TypeOK, Place, Work, Disk, CheckpointKept, AtVariant
<1>3. Payload(u, model) = checkpoint[u].metadata
  BY <1>2 DEF Payload, MeantPayload
<1>4. checkpoint[u].metadata \in Payloads /\ checkpoint[u].metadata # None
  BY <1>2, NoneAssumption DEF Checkpoints
<1>5. training'[u] = checkpoint[u].metadata /\ \A v \in Variants \ {u} : training'[v] = training[v]
  BY <1>1, <1>3 DEF Put, Inv, TypeOK
<1>6. TypeOK'
  BY <1>1, <1>3, <1>4 DEF Inv, TypeOK, Put, AtVariant
<1>7. \A v \in Variants : Disk(v)'
  <2>1. Disk(u)'
    BY <1>1, <1>2, <1>4, <1>5 DEF Inv, Disk, CheckpointKept, OneTrainingAway, MeantPayload,
                            TrainingKept, GuardKept, TraceKept, DerivedKept, Full
  <2> QED
    BY <2>1, <1>1, <1>5, OthersKept
<1>8. ResultsKept' /\ ClaimKept' /\ ManifestKept'
  BY <1>1, <1>6, Persist
<1>9. Place' /\ Variant' = Variant
  BY <1>1, PlaceKept DEF AtVariant
<1>10. Work' /\ Finished'
  BY <1>0, <1>1, <1>2, <1>4, <1>5, <1>9 DEF Work, Finished
<1> QED
  BY <1>0, <1>1, <1>3, <1>6, <1>7, <1>8, <1>9, <1>10 DEF Inv

\* The guard is created for this checkpoint, or names it already.
LEMMA AuthorizeStep ==
  ASSUME Inv, Authorize
  PROVE  /\ Inv'
         /\ \A v \in Variants : guard[v] # None => guard'[v] = guard[v]
<1> USE DEF setup, evidence, derived, memory
<1>0. PICK u \in Variants : u = Variant
  BY AtWork DEF Authorize, AtVariant
<1>1. /\ pc = "guard" /\ u \in Variants
      /\ guard' = IF guard[u] = None /\ trace[u] = <<>>
                  THEN Put(guard, u, checkpoint[u]) ELSE guard
      /\ pc' = IF guard'[u] = checkpoint[u] THEN "evaluate" ELSE "raised"
      /\ UNCHANGED <<protocol, benchmark, reports, shared, checkpoint, training, trace, metrics,
                     recompute, claim, manifest, canonical, bcModel, model, results>>
  BY <1>0 DEF Authorize, AtVariant
<1>2. /\ checkpoint[u] # None /\ training[u] # None /\ model = checkpoint[u].weights
      /\ guard[u] # None => guard[u] = checkpoint[u]
      /\ guard[u] = None => trace[u] = <<>>
      /\ checkpoint[u] \in Checkpoints
  BY <1>0, <1>1 DEF Inv, TypeOK, Work, Disk, GuardKept, TraceKept, AtVariant
<1>3. /\ guard' \in [Variants -> Checkpoints \cup {None}]
      /\ guard'[u] = checkpoint[u] /\ \A v \in Variants \ {u} : guard'[v] = guard[v]
  BY <1>1, <1>2 DEF Put, Inv, TypeOK
<1>4. pc' = "evaluate"
  BY <1>1, <1>3
<1>5. TypeOK'
  BY <1>1, <1>3, <1>4 DEF Inv, TypeOK, AtVariant
<1>6. \A v \in Variants : Disk(v)'
  <2>1. Disk(u)'
    BY <1>1, <1>2, <1>3 DEF Inv, Disk, CheckpointKept, OneTrainingAway, MeantPayload,
                            TrainingKept, GuardKept, TraceKept, DerivedKept, Full
  <2> QED
    BY <2>1, <1>1, <1>3, OthersKept
<1>7. \A v \in Variants : guard[v] # None => guard'[v] = guard[v]
  BY <1>2, <1>3
<1>8. ResultsKept' /\ ClaimKept' /\ ManifestKept'
  BY <1>1, <1>5, <1>7, Persist DEF Settled
<1>9. Place' /\ Variant' = Variant
  BY <1>1, <1>4, PlaceKept DEF AtVariant
<1>10. Work' /\ Finished'
  BY <1>0, <1>1, <1>2, <1>3, <1>4, <1>9 DEF Work, Finished
<1> QED
  BY <1>5, <1>6, <1>7, <1>8, <1>9, <1>10 DEF Inv

\* The next case of the split, evaluated with the model that is on disk.
LEMMA EvaluateCaseStep ==
  ASSUME Inv, EvaluateCase
  PROVE  /\ Inv'
         /\ trace' = Put(trace, Variant, Append(trace[Variant],
                           Evidence(Cases[Len(trace[Variant]) + 1], checkpoint[Variant].weights)))
<1> USE DEF setup, evidence, derived, memory
<1>0. PICK u \in Variants : u = Variant
  BY AtWork DEF EvaluateCase, AtVariant
<1>1. /\ pc = "evaluate"
      /\ UNCHANGED <<protocol, benchmark, reports, shared, checkpoint, training, guard, metrics,
                     recompute, claim, manifest, pc, canonical, bcModel, model, results>>
  BY DEF EvaluateCase
<1>2. PICK i \in 1..Len(Cases) :
        /\ Cases[i] \notin CompletedCases(u)
        /\ \A j \in 1..(i - 1) : Cases[j] \in CompletedCases(u)
        /\ trace' = Put(trace, u, Append(trace[u], Evidence(Cases[i], model)))
  <2>1. DOMAIN Cases = 1..Len(Cases)
    BY MatrixAssumption, LenProperties
  <2> QED
    BY <1>0, <2>1 DEF EvaluateCase
<1>3. /\ checkpoint[u] # None /\ guard[u] # None /\ model = checkpoint[u].weights
      /\ checkpoint[u] \in Checkpoints
  BY <1>0, <1>1 DEF Inv, TypeOK, Work, AtVariant
<1> DEFINE n == Len(trace[u])
           e == Evidence(Cases[i], model)
<1>4. n \in Nat /\ n <= Len(Cases) /\ i = n + 1
  <2>1. n \in Nat /\ n <= Len(Cases) /\ Len(Cases) \in Nat
    BY Rows, InOrder
  <2>2. ~(i <= n)
    BY <1>2, Completed
  <2>3. ~(n + 1 < i)
    <3> SUFFICES ASSUME n + 1 < i
                 PROVE  FALSE
      OBVIOUS
    <3>1. n + 1 \in 1..(i - 1) /\ n + 1 \in 1..Len(Cases)
      BY <2>1
    <3>2. n + 1 <= n
      BY <1>2, <3>1, Completed
    <3> QED
      BY <2>1, <3>2
  <2> QED
    BY <2>1, <2>2, <2>3
<1>5. e \in [case : ToSet(Cases), policy : Weights]
  BY <1>3, InOrder DEF Evidence, Checkpoints
<1>6. trace[u] \in Seq([case : ToSet(Cases), policy : Weights])
      /\ \A j \in 1..n : trace[u][j] = Evidence(Cases[j], checkpoint[u].weights)
  BY Rows
<1>7. /\ Append(trace[u], e) \in Traces /\ Len(Append(trace[u], e)) = n + 1
      /\ \A j \in 1..n : Append(trace[u], e)[j] = trace[u][j]
      /\ Append(trace[u], e)[n + 1] = e
  <2> HIDE DEF e
  <2> QED
    BY <1>5, <1>6, AppendProperties DEF Traces
<1>8. trace' = [trace EXCEPT ![u] = Append(trace[u], e)]
  BY <1>2 DEF Put
<1> HIDE DEF e
<1>9. trace'[u] = Append(trace[u], e) /\ \A v \in Variants \ {u} : trace'[v] = trace[v]
  BY <1>8 DEF Inv, TypeOK
<1>10. TypeOK'
  BY <1>1, <1>7, <1>8 DEF Inv, TypeOK
<1>11. metrics[u] = None /\ recompute[u] = None /\ ~Full(u)
  <2>1. ~Full(u)
    BY <1>4, InOrder DEF Full
  <2> QED
    BY <2>1 DEF Inv, Disk, DerivedKept
<1>12. \A v \in Variants : Disk(v)'
  <2>1. TraceKept(u)'
    <3>1. \A j \in 1..(n + 1) : j \in 1..n \/ j = n + 1
      BY <1>4
    <3>2. e = Evidence(Cases[n + 1], checkpoint[u].weights)
      BY <1>3, <1>4 DEF e
    <3>3. \A j \in 1..(n + 1) : trace'[u][j] = Evidence(Cases[j], checkpoint[u].weights)
      BY <1>6, <1>7, <1>9, <3>1, <3>2
    <3>4. Len(trace'[u]) = n + 1 /\ n + 1 <= Len(Cases)
      BY <1>2, <1>4, <1>7, <1>9
    <3> QED
      BY <1>1, <1>3, <3>3, <3>4 DEF TraceKept, Evidence
  <2>2. CheckpointKept(u)' /\ TrainingKept(u)' /\ GuardKept(u)' /\ DerivedKept(u)'
    BY <1>1, <1>11 DEF Inv, Disk, CheckpointKept, OneTrainingAway, MeantPayload,
                       TrainingKept, GuardKept, DerivedKept
  <2> QED
    BY <2>1, <2>2, <1>1, <1>9, OthersKept DEF Disk
<1>13. ResultsKept' /\ ClaimKept' /\ ManifestKept'
  <2>1. \A v \in Variants : Settled(v) => v # u
    BY <1>11 DEF Settled
  <2> QED
    BY <1>1, <1>9, <1>10, <2>1, Persist
<1>14. Place' /\ Variant' = Variant
  BY <1>1, PlaceKept DEF AtVariant
<1>15. Work' /\ Finished'
  BY <1>0, <1>1, <1>14 DEF Inv, Work, Finished
<1> QED
  BY <1>0, <1>3, <1>4, <1>8, <1>10, <1>12, <1>13, <1>14, <1>15 DEF Inv, Put, e

\* Metrics are computed over exactly the cases of the split.
LEMMA WriteMetricsStep ==
  ASSUME Inv, WriteMetrics
  PROVE  Inv'
<1> USE DEF setup, evidence, derived, memory
<1>0. PICK u \in Variants : u = Variant
  BY AtWork DEF WriteMetrics, AtVariant
<1>1. /\ pc = "evaluate" /\ pc' = "recompute"
      /\ CompletedCases(u) = ToSet(Cases)
      /\ metrics' = [metrics EXCEPT ![u] = trace[u]]
      /\ UNCHANGED <<protocol, benchmark, reports, shared, checkpoint, training, guard, trace,
                     recompute, claim, manifest, canonical, bcModel, model, results>>
  BY <1>0 DEF WriteMetrics, Put
<1>2. Full(u)
  <2>1. Len(Cases) \in 1..Len(Cases) /\ Cases[Len(Cases)] \in ToSet(Cases)
    BY InOrder
  <2>2. Len(Cases) <= Len(trace[u]) /\ Len(trace[u]) <= Len(Cases) /\ Len(trace[u]) \in Nat
    BY <1>1, <2>1, Completed, Rows
  <2> QED
    BY <2>2, InOrder DEF Full
<1>3. metrics'[u] = trace[u] /\ \A v \in Variants \ {u} : metrics'[v] = metrics[v]
  BY <1>1 DEF Inv, TypeOK
<1>4. TypeOK'
  BY <1>1 DEF Inv, TypeOK, AtVariant
<1>5. \A v \in Variants : Disk(v)'
  <2>1. Disk(u)'
    BY <1>1, <1>2, <1>3 DEF Inv, Disk, CheckpointKept, OneTrainingAway, MeantPayload,
                            TrainingKept, GuardKept, TraceKept, DerivedKept, Full
  <2> QED
    BY <2>1, <1>1, <1>3, OthersKept
<1>6. \A v \in Variants : Settled(v) => UNCHANGED metrics[v]
  BY <1>3 DEF Settled
<1>7. ResultsKept' /\ ClaimKept' /\ ManifestKept'
  BY <1>1, <1>4, <1>6, Persist
<1>8. Place' /\ Variant' = Variant
  BY <1>1, PlaceKept DEF AtVariant
<1>9. Work' /\ Finished'
  BY <1>0, <1>1, <1>2, <1>3, <1>8 DEF Inv, Work, Finished, AtVariant, Full
<1> QED
  BY <1>4, <1>5, <1>7, <1>8, <1>9 DEF Inv

\* Recomputation agrees; the variant is settled and becomes an entry.
LEMMA RecomputeStep ==
  ASSUME Inv, Recompute
  PROVE  Inv'
<1> USE DEF setup, evidence, derived, memory
<1>0. PICK u \in Variants : u = Variant
  BY AtWork DEF Recompute, AtVariant
<1>1. /\ Len(results) \in Nat /\ Len(results) + 1 \in 1..Len(Matrix)
      /\ u = Matrix[Len(results) + 1] /\ Len(Matrix) \in Nat /\ results \in Seq(Entries)
  BY <1>0, AtWork, InOrder DEF Recompute, AtVariant, Inv, TypeOK
<1>2. /\ pc = "recompute"
      /\ metrics[u] = trace[u] /\ Full(u) /\ guard[u] # None
      /\ model = checkpoint[u].weights /\ bcModel = shared /\ shared \in Weights
      /\ checkpoint[u] \in Checkpoints /\ trace[u] \in Traces
  <2>1. pc = "recompute"
    BY DEF Recompute
  <2> QED
    BY <1>0, <2>1, SettledExists DEF Inv, TypeOK, Work, Place, AtVariant
<1>3. /\ recompute' = [recompute EXCEPT ![u] = trace[u]]
      /\ results' = Append(results, Entry(u))
      /\ pc' = IF Len(results) + 1 < Len(Matrix) THEN "variant" ELSE "claim"
      /\ UNCHANGED <<protocol, benchmark, reports, shared, checkpoint, training, guard, trace,
                     metrics, claim, manifest, canonical, bcModel, model>>
  BY <1>0, <1>2 DEF Recompute, Put
<1>4. Entry(u) =
          [variant |-> u, checkpoint |-> checkpoint[u], trace |-> trace[u],
           metrics |-> trace[u], bc_checkpoint |-> shared,
           before |-> shared, after |-> checkpoint[u].weights]
  BY <1>2 DEF Entry
<1>5. PICK e \in Entries : e = Entry(u)
  BY <1>2, <1>4 DEF Entries, Checkpoints
<1>6. /\ results' \in Seq(Entries) /\ Len(results') = Len(results) + 1
      /\ results'[Len(results) + 1] = e
      /\ \A i \in 1..Len(results) : results'[i] = results[i]
  BY <1>1, <1>3, <1>5, AppendProperties
<1>7. recompute'[u] = trace[u] /\ \A v \in Variants \ {u} : recompute'[v] = recompute[v]
  BY <1>3 DEF Inv, TypeOK
<1>8. TypeOK'
  <2>1. pc' \in AtVariant \cup Late
    BY <1>3 DEF AtVariant, Late
  <2>2. recompute' \in [Variants -> Traces \cup {None}]
    BY <1>2, <1>3 DEF Inv, TypeOK
  <2> QED
    BY <1>3, <1>6, <2>1, <2>2 DEF Inv, TypeOK
<1>9. \A v \in Variants : Disk(v)'
  <2>1. Disk(u)'
    BY <1>2, <1>3, <1>7 DEF Inv, Disk, CheckpointKept, OneTrainingAway, MeantPayload,
                            TrainingKept, GuardKept, TraceKept, DerivedKept, Full
  <2> QED
    BY <2>1, <1>3, <1>7, OthersKept
<1>10. \A v \in Variants : Settled(v) => UNCHANGED recompute[v]
  BY <1>7 DEF Settled
<1>11. /\ \A d \in Entries, v \in Variants : Describes(d, v) => Describes(d, v)'
       /\ ClaimKept' /\ ManifestKept'
  BY <1>3, <1>8, <1>10, Persist
<1>12. ResultsKept'
  <2>1. Describes(e, u)'
    BY <1>2, <1>3, <1>4, <1>5, <1>7 DEF Describes, Settled, Full
  <2>2. ASSUME NEW i \in 1..Len(results')
        PROVE  Describes(results[i], Matrix[i])'
    <3>1. CASE i = Len(results) + 1
      BY <1>1, <1>6, <2>1, <3>1 DEF Describes
    <3>2. CASE i # Len(results) + 1
      <4>1. i \in 1..Len(results) /\ Matrix[i] \in Variants
        BY <1>1, <1>6, <3>2, InOrder
      <4>2. PICK d \in Entries : d = results[i]
        BY <1>1, <4>1, ElementOfSeq
      <4>3. Describes(d, Matrix[i])
        BY <4>1, <4>2 DEF Inv, ResultsKept, AllDescribed
      <4>4. Describes(d, Matrix[i])' /\ results'[i] = d
        BY <1>6, <1>11, <4>1, <4>2, <4>3
      <4> QED
        BY <4>4 DEF Describes
    <3> QED
      BY <3>1, <3>2
  <2> QED
    BY <1>1, <1>6, <2>2 DEF ResultsKept, AllDescribed
<1>13. Place'
  <2>1. /\ benchmark = "whole" /\ reports = BothReports /\ shared # None /\ bcModel = shared
        /\ canonical => MayClaim
    BY <1>2 DEF Inv, Place, AtVariant
  <2>2. /\ pc' = "variant" => Len(results') < Len(Matrix)
        /\ pc' = "claim" => Len(results') = Len(Matrix)
        /\ pc' \in {"variant", "claim"}
    BY <1>1, <1>3, <1>6
  <2> QED
    BY <1>3, <2>1, <2>2 DEF Place, MayClaim, Early, AtVariant, Late
<1>14. Work' /\ Finished'
  BY <1>3 DEF Work, Finished, AtVariant
<1> QED
  BY <1>8, <1>9, <1>11, <1>12, <1>13, <1>14 DEF Inv

\* When every entry is there, every variant is settled.
LEMMA AllSettled ==
  ASSUME Inv, pc \in Late
  PROVE  \A v \in Variants : Settled(v)
<1> SUFFICES ASSUME NEW v \in Variants
             PROVE  Settled(v)
  OBVIOUS
<1>1. PICK i \in 1..Len(Matrix) : v = Matrix[i]
  BY InOrder
<1>2. Describes(results[i], v)
  BY <1>1 DEF Inv, Place, ResultsKept, AllDescribed
<1> QED
  BY <1>2 DEF Describes

LEMMA WriteClaimStep ==
  ASSUME Inv, WriteClaim
  PROVE  Inv'
<1> USE DEF setup, evidence, derived, memory
<1>1. /\ pc = "claim" /\ pc' = "manifest"
      /\ claim' = IF canonical THEN Report ELSE None
      /\ UNCHANGED <<protocol, benchmark, reports, shared, checkpoint, training, guard, trace,
                     metrics, recompute, manifest, canonical, bcModel, model, results>>
  BY DEF WriteClaim, ClaimOfRun
<1>2. Report \in Claims /\ Report' = Report
  <2>1. GateIsCanonical \in BOOLEAN /\ GateIsCanonical' = GateIsCanonical
    <3>1. protocol \in [frozen : BOOLEAN, resampled : BOOLEAN, confidence : 1..99]
      BY MatrixAssumption DEF Inv, TypeOK
    <3> QED
      BY <1>1, <3>1 DEF GateIsCanonical
  <2> QED
    BY <1>1, <2>1 DEF Report, Claims, Inv, TypeOK
<1>3. TypeOK'
  BY <1>1, <1>2 DEF Inv, TypeOK, Late
<1>4. (\A v \in Variants : Disk(v)') /\ ResultsKept' /\ ManifestKept'
  BY <1>1, <1>3, SameFiles
<1>5. ClaimKept'
  <2>1. \A v \in Variants : Settled(v) /\ Settled(v)'
    BY <1>1, AllSettled DEF Late, Settled, Full
  <2> QED
    BY <1>1, <1>2, <2>1 DEF ClaimKept
<1>6. Place'
  BY <1>1 DEF Inv, Place, MayClaim, Early, AtVariant, Late
<1>7. Work' /\ Finished'
  BY <1>1, <1>2 DEF Work, Finished, ClaimOfRun, AtVariant
<1> QED
  BY <1>3, <1>4, <1>5, <1>6, <1>7 DEF Inv

LEMMA WriteManifestStep ==
  ASSUME Inv, WriteManifest
  PROVE  Inv'
<1> USE DEF setup, evidence, derived, memory
<1>1. /\ pc = "manifest" /\ pc' = "done"
      /\ manifest' = [claim_mode |-> canonical, runs |-> results]
      /\ UNCHANGED <<protocol, benchmark, reports, shared, checkpoint, training, guard, trace,
                     metrics, recompute, claim, canonical, bcModel, model, results>>
  BY DEF WriteManifest
<1>2. TypeOK'
  BY <1>1 DEF Inv, TypeOK, Manifests, Late
<1>3. (\A v \in Variants : Disk(v)') /\ ResultsKept' /\ ClaimKept'
  BY <1>1, <1>2, SameFiles
<1>4. ManifestKept'
  <2>1. manifest'.claim_mode = canonical /\ manifest'.runs = results
    BY <1>1
  <2>2. AllDescribed(results)' /\ Len(results) = Len(Matrix) /\ reports = BothReports
        /\ (canonical => MayClaim)
    BY <1>1, <1>3 DEF Inv, Place, ResultsKept, Late
  <2> QED
    BY <1>1, <2>1, <2>2 DEF ManifestKept, AllDescribed, MayClaim
<1>5. Place'
  BY <1>1 DEF Inv, Place, MayClaim, Early, AtVariant, Late
<1>6. Work' /\ Finished'
  <2>1. claim' = ClaimOfRun'
    BY <1>1 DEF Inv, Finished, ClaimOfRun, Report, GateIsCanonical
  <2> QED
    BY <1>1, <2>1 DEF Work, Finished, AtVariant
<1> QED
  BY <1>2, <1>3, <1>4, <1>5, <1>6 DEF Inv

LEMMA NextInv == Inv /\ [Next]_vars => Inv'
<1> SUFFICES ASSUME Inv, [Next]_vars
             PROVE  Inv'
  OBVIOUS
<1>1. CASE Next
  BY <1>1, ProcessStep, SetupStep, TrainSharedStep, ReuseStep, TrainStep, WriteTrainingStep,
     AuthorizeStep, EvaluateCaseStep, WriteMetricsStep, RecomputeStep, WriteClaimStep,
     WriteManifestStep DEF Next, Run
<1>2. CASE UNCHANGED vars
  <2>1. UNCHANGED <<protocol, benchmark, reports, shared, checkpoint, training, guard, trace,
                    metrics, recompute, claim, manifest, pc, canonical, bcModel, model, results>>
    BY <1>2 DEF vars, setup, evidence, derived, memory
  <2>2. TypeOK'
    BY <2>1 DEF Inv, TypeOK
  <2>3. (\A v \in Variants : Disk(v)') /\ ResultsKept' /\ ClaimKept' /\ ManifestKept'
    BY <2>1, <2>2, SameFiles
  <2>4. Place' /\ Work' /\ Finished'
    BY <2>1 DEF Inv, Place, MayClaim, Work, Variant, Full, Finished, ClaimOfRun, Report, GateIsCanonical
  <2> QED
    BY <2>2, <2>3, <2>4 DEF Inv
<1> QED
  BY <1>1, <1>2

-----------------------------------------------------------------------------
(* The theorems *)

\* run_experiment_matrix keeps the whole invariant.
THEOREM ExperimentInvariant == Spec => []Inv
<1> QED
  BY InitInv, NextInv, PTL DEF Spec

\* No kill leaves artifacts that a later run of the same directory refuses:
\* neither as partial, nor as another run's, nor for evidence of another model.
THEOREM AlwaysResumable == Spec => []NeverRefused
<1>1. Inv => NeverRefused
  BY DEF Inv, TypeOK, NeverRefused, Early, AtVariant, Late
<1> QED
  BY <1>1, ExperimentInvariant, PTL

\* A checkpoint, its training record, its guard and the rows of its trace are
\* written once: runs add to the evidence and never replace it.
THEOREM EvidenceStays == Spec => EvidenceIsFinal
<1> DEFINE Final(v) ==
             /\ checkpoint[v] # None => checkpoint'[v] = checkpoint[v]
             /\ training[v] # None => training'[v] = training[v]
             /\ guard[v] # None => guard'[v] = guard[v]
             /\ IsPrefix(trace[v], trace'[v])
           Step == (shared # None => shared' = shared) /\ \A v \in Variants : Final(v)
<1>1. ASSUME Inv, NEW v \in Variants, UNCHANGED trace[v]
      PROVE  IsPrefix(trace[v], trace'[v])
  BY <1>1, Rows, SubSeqFull DEF IsPrefix
<1>2. ASSUME Inv, Start \/ KeepSnapshot \/ BeginSnapshot \/ EndSnapshot \/ WriteReport \/ LoadShared
                    \/ WriteMetrics \/ Recompute \/ WriteClaim \/ WriteManifest \/ Crash
                    \/ UNCHANGED vars
      PROVE  Step
  <2>1. UNCHANGED <<shared, checkpoint, training, guard, trace>>
    BY <1>2 DEF Start, KeepSnapshot, BeginSnapshot, EndSnapshot, WriteReport, LoadShared,
                WriteMetrics, Recompute, WriteClaim, WriteManifest, Crash, vars, setup, evidence
  <2> QED
    BY <1>1, <1>2, <2>1
<1>3. ASSUME Inv, TrainShared
      PROVE  Step
  BY <1>1, <1>3 DEF TrainShared, SharedExists, evidence
<1>4. ASSUME Inv, Reuse \/ WriteTraining
      PROVE  Step
  <2>1. UNCHANGED <<shared, checkpoint, guard, trace>>
    BY <1>4 DEF Reuse, WriteTraining, Refuse, setup
  <2>2. training' = [training EXCEPT ![Variant] = checkpoint[Variant].metadata]
    BY <1>4, ReuseStep, WriteTrainingStep DEF Put
  <2>3. \A v \in Variants : training[v] # None => training[v] = checkpoint[v].metadata
    BY <1>4 DEF Inv, Disk, TrainingKept
  <2>4. \A v \in Variants : training[v] # None => training'[v] = training[v]
    BY <1>4, <2>2, <2>3 DEF Inv, TypeOK
  <2> QED
    BY <1>1, <1>4, <2>1, <2>4
<1>5. ASSUME Inv, Train
      PROVE  Step
  <2>1. UNCHANGED <<shared, training, guard, trace>>
    BY <1>5, TrainStep DEF Train, setup
  <2>2. \A v \in Variants : checkpoint[v] # None => checkpoint'[v] = checkpoint[v]
    BY <1>5 DEF Train, Trained, Refuse, Put, Inv, TypeOK
  <2> QED
    BY <1>1, <1>5, <2>1, <2>2
<1>6. ASSUME Inv, Authorize
      PROVE  Step
  <2>1. UNCHANGED <<shared, checkpoint, training, trace>>
    BY <1>6 DEF Authorize, setup
  <2> QED
    BY <1>1, <1>6, <2>1, AuthorizeStep
<1>7. ASSUME Inv, EvaluateCase
      PROVE  Step
  <2>1. UNCHANGED <<shared, checkpoint, training, guard>>
    BY <1>7 DEF EvaluateCase, setup
  <2>2. PICK row : trace' = [trace EXCEPT ![Variant] = Append(trace[Variant], row)]
    BY <1>7, EvaluateCaseStep DEF Put
  <2>3. trace' \in [Variants -> Traces] /\ trace \in [Variants -> Traces]
    BY <1>7, EvaluateCaseStep DEF Inv, TypeOK
  <2>4. ASSUME NEW v \in Variants
        PROVE  IsPrefix(trace[v], trace'[v])
    <3>1. CASE v # Variant
      BY <1>1, <1>7, <2>2, <2>3, <3>1
    <3>2. CASE v = Variant
      <4> DEFINE s == trace[v]
                 t == trace'[v]
                 n == Len(s)
                 R == [case : ToSet(Cases), policy : Weights]
      <4>1. t = Append(s, row) /\ s \in Seq(R) /\ t \in Seq(R)
        BY <2>2, <2>3, <3>2 DEF Traces
      <4>2. n \in Nat /\ Len(t) = n + 1 /\ \A i \in 1..n : t[i] = s[i]
        BY <4>1, LenProperties
      <4> HIDE DEF s, t, R
      <4>3. SubSeq(s, 1, n) = SubSeq(t, 1, n)
        <5>1. n \in 0..Len(s) /\ n \in 0..Len(t)
          BY <4>2
        <5>2. SubSeq(s, 1, n) \in Seq(R) /\ Len(SubSeq(s, 1, n)) = n
              /\ \A i \in 1..n : SubSeq(s, 1, n)[i] = s[i]
          BY <4>1, <4>2
        <5>3. SubSeq(t, 1, n) \in Seq(R) /\ Len(SubSeq(t, 1, n)) = n
              /\ \A i \in 1..n : SubSeq(t, 1, n)[i] = t[i]
          BY <4>1, <4>2
        <5> QED
          BY <4>2, <5>2, <5>3, SeqEqual
      <4> QED
        BY <4>2, <4>3 DEF IsPrefix, s, t
    <3> QED
      BY <3>1, <3>2
  <2> QED
    BY <2>1, <2>4
<1> HIDE DEF Step
<1>8. Inv /\ [Next]_vars => Step
  BY <1>2, <1>3, <1>4, <1>5, <1>6, <1>7 DEF Next, Run
<1>9. Inv /\ [Next]_vars => [Step]_vars
  BY <1>8
<1> QED
  BY <1>9, ExperimentInvariant, PTL DEF Spec, EvidenceIsFinal, Step

\* A manifest's entries are accepted by the verifier, one variant after another.
LEMMA DescribedVerifies ==
  ASSUME Inv, NEW v \in Variants, NEW e \in Entries, Describes(e, v)
  PROVE  EntryVerifies(e)
<1>1. /\ e.variant = v /\ e.checkpoint = checkpoint[v]
      /\ e.trace = trace[v] /\ e.metrics = trace[v]
      /\ e.bc_checkpoint = shared /\ e.before = shared
      /\ e.after = checkpoint[v].weights
      /\ metrics[v] = trace[v] /\ recompute[v] = trace[v]
      /\ guard[v] # None /\ Full(v)
  BY DEF Describes, Settled
<1>2. checkpoint[v] # None /\ guard[v] = checkpoint[v] /\ training[v] = checkpoint[v].metadata
  BY <1>1, SettledExists
<1>3. /\ shared \in Weights
      /\ OneTrainingAway(v, checkpoint[v].weights)
      /\ checkpoint[v].variant = v
      /\ checkpoint[v].metadata = MeantPayload(v, checkpoint[v].weights)
  BY <1>1, <1>2, SettledExists DEF Inv, TypeOK, Disk, CheckpointKept
<1>4. Loads(checkpoint[v], v)
  BY <1>3 DEF Loads, MeantPayload
<1>5. DriftIsRight(v, shared, e.after)
  <2>1. \A d \in Draws : Append(shared, d) # shared
    BY <1>3, AppendProperties, LenProperties DEF Weights
  <2> QED
    BY <1>1, <1>3, <2>1 DEF OneTrainingAway, DriftIsRight
<1>6. training[v] = [variant |-> v, bc_checkpoint |-> e.bc_checkpoint,
                     before |-> e.before, after |-> e.after]
  BY <1>1, <1>2, <1>3 DEF MeantPayload
<1>7. Covered(trace[v])
  BY <1>1, FullCovers
<1>8. \A row \in ToSet(trace[v]) : PolicyTrace(row, checkpoint[v].weights)
  <2>1. \A i \in 1..Len(trace[v]) : PolicyTrace(trace[v][i], checkpoint[v].weights)
    <3> TAKE i \in 1..Len(trace[v])
    <3>1. trace[v][i] = Evidence(Cases[i], checkpoint[v].weights)
      BY Rows
    <3> QED
      BY <3>1 DEF PolicyTrace, Evidence
  <2> QED
    BY <2>1, Rows
<1> QED
  BY <1>1, <1>2, <1>4, <1>5, <1>6, <1>7, <1>8 DEF EntryVerifies

\* Whenever there is a manifest, all but the claim and the copied benchmark
\* verifies, and the claim does just when the protocol is the registered one.
LEMMA ManifestVerifies ==
  ASSUME Inv, manifest # None
  PROVE  /\ RunsVerify
         /\ (claim # None) = manifest.claim_mode =>
              (ClaimVerifies <=> (manifest.claim_mode => Registered))
<1> DEFINE runs == manifest.runs
<1>1. /\ reports = BothReports /\ (manifest.claim_mode => MayClaim)
      /\ runs \in Seq(Entries) /\ Len(runs) = Len(Matrix) /\ AllDescribed(runs)
      /\ manifest.claim_mode \in BOOLEAN
  BY DEF Inv, TypeOK, ManifestKept, Manifests
<1> HIDE DEF runs
<1>2. DOMAIN runs = 1..Len(Matrix) /\ \A i \in 1..Len(Matrix) : runs[i] \in Entries /\ Matrix[i] \in Variants
  BY <1>1, LenProperties, ElementOfSeq, InOrder
<1>3. \A i \in DOMAIN runs : Describes(runs[i], Matrix[i])
  BY <1>1, <1>2 DEF AllDescribed
<1>4. \A i \in DOMAIN runs : EntryVerifies(runs[i])
  BY <1>2, <1>3, DescribedVerifies
<1>5. [i \in DOMAIN runs |-> runs[i].variant] = Matrix
  <2>1. \A i \in DOMAIN runs : runs[i].variant = Matrix[i]
    BY <1>3 DEF Describes
  <2>2. Matrix \in Seq(Variants)
    BY MatrixAssumption
  <2>3. Matrix = [i \in 1..Len(Matrix) |-> Matrix[i]]
    BY <2>2, LenProperties
  <2> QED
    BY <1>2, <2>1, <2>3
<1>6. RunsVerify
  BY <1>1, <1>4, <1>5 DEF RunsVerify, BothReports, runs
<1>7. ASSUME (claim # None) = manifest.claim_mode
      PROVE  ClaimVerifies <=> (manifest.claim_mode => Registered)
  <2>1. CASE manifest.claim_mode
    <3>1. claim = Report /\ \A v \in Variants : Covered(trace[v])
      BY <1>7, <2>1, FullCovers DEF Inv, ClaimKept, Settled
    <3>2. Report.canonical = GateIsCanonical
      BY DEF Report
    <3>3. GateIsCanonical <=> Registered
      BY <1>1, <2>1, <3>1 DEF GateIsCanonical, Registered, MayClaim
    <3> QED
      BY <2>1, <3>1, <3>2, <3>3 DEF ClaimVerifies
  <2>2. CASE ~manifest.claim_mode
    BY <1>7, <2>2 DEF ClaimVerifies
  <2> QED
    BY <2>1, <2>2
<1> QED
  BY <1>6, <1>7

\* A manifest that was published stays true through every later run of the
\* directory and every kill, but for a change of claim mode under way.
THEOREM ManifestStaysTrue == Spec => []PublishedStaysTrue
<1>1. Inv => PublishedStaysTrue
  BY ManifestVerifies DEF PublishedStaysTrue
<1> QED
  BY <1>1, ExperimentInvariant, PTL

\* A run that completes leaves a bundle that verify_experiment_manifest accepts,
\* of models one training away from the shared one; the canonical run that is
\* not at 95% is the exception, and there is no other.
THEOREM FinishedRunsVerify == Spec => []FinishedRunVerifies
<1>1. ASSUME Inv, pc = "done"
      PROVE  OneTrainingEach /\ (Verifies <=> (canonical => Registered))
  <2>1. /\ benchmark = "whole" /\ claim = ClaimOfRun /\ (canonical => MayClaim)
        /\ manifest = [claim_mode |-> canonical, runs |-> results]
        /\ canonical \in BOOLEAN
    BY <1>1 DEF Inv, TypeOK, Place, Finished, Late
  <2>2. manifest # None
    BY <1>1, <2>1, NoneAssumption DEF Inv, TypeOK, Manifests
  <2>3. manifest.claim_mode = canonical
    BY <2>1
  <2>4. (claim # None) = manifest.claim_mode
    <3>1. Report \in Claims
      <4>1. protocol \in [frozen : BOOLEAN, resampled : BOOLEAN, confidence : 1..99]
        BY <1>1, MatrixAssumption DEF Inv, TypeOK
      <4>2. GateIsCanonical \in BOOLEAN
        BY <4>1 DEF GateIsCanonical
      <4> QED
        BY <1>1, <4>2 DEF Report, Claims, Inv, TypeOK
    <3>2. Report # None
      BY <3>1, NoneAssumption
    <3> QED
      BY <2>1, <2>3, <3>2 DEF ClaimOfRun
  <2>5. Verifies <=> (canonical => Registered)
    BY <1>1, <2>1, <2>2, <2>3, <2>4, ManifestVerifies DEF Verifies
  <2>6. OneTrainingEach
    <3> SUFFICES ASSUME NEW v \in Variants
                 PROVE  \E own \in IF v \in PpoVariants THEN {<<d>> : d \in Draws} ELSE {<<>>} :
                          checkpoint[v].weights = shared \o own
      BY DEF OneTrainingEach
    <3>1. checkpoint[v] # None
      BY <1>1, AllSettled, SettledExists DEF Late, Settled
    <3>2. shared \in Weights /\ OneTrainingAway(v, checkpoint[v].weights)
      BY <1>1, <3>1 DEF Inv, TypeOK, Disk, CheckpointKept
    <3>3. CASE v \in PpoVariants
      <4>1. PICK d \in Draws : checkpoint[v].weights = Append(shared, d)
        BY <3>2, <3>3 DEF OneTrainingAway
      <4>2. Append(shared, d) = shared \o <<d>>
        BY <3>2, AppendIsConcat DEF Weights
      <4> QED
        BY <3>3, <4>1, <4>2
    <3>4. CASE v \notin PpoVariants
      <4>1. shared \o <<>> = shared
        BY <3>2, ConcatEmptySeq DEF Weights
      <4> QED
        BY <3>2, <3>4, <4>1 DEF OneTrainingAway
    <3> QED
      BY <3>3, <3>4
  <2> QED
    BY <2>5, <2>6
<1>2. Inv => FinishedRunVerifies
  BY <1>1 DEF FinishedRunVerifies
<1> QED
  BY <1>2, ExperimentInvariant, PTL

=============================================================================
