------------------------- MODULE TraceStore_proofs -------------------------
(***************************************************************************)
(* Proofs about TraceStore, for any number of processes, records, files,   *)
(* retries, kills and failed writes.                                       *)
(*                                                                         *)
(* The argument: a process that is past the lock check is the only one to  *)
(* touch its file, and from _synchronize on its index is the whole file.   *)
(* Everyone else's index stands for a prefix, which appending keeps.       *)
(***************************************************************************)
EXTENDS TraceStore, SequenceTheorems, TLAPS

\* The uses under which the store keeps its promises: processes may share the
\* path as long as nobody cuts the file back and no write fails; one process
\* at a time survives both (the runs store_truncated and store_failed_write
\* show why the two are excluded).
Benign == \A u \in Uses : u.shared => ~u.truncated /\ u.faults = 0

-----------------------------------------------------------------------------
(* The inductive invariant *)

PCs == {"down", "idle", "opening", "opened", "locked", "synced", "writing", "flushing",
        "written", "closing"}

Locked == {"locked", "synced", "writing", "flushing", "written"}
Synced == {"synced", "writing", "flushing", "written", "closing"}

Replies ==
    [verdict: {"corrupt", "changed", "error"}]
      \cup [verdict: {"appended", "present", "conflict"}, record: Records]
      \cup [verdict: {"opened"}, cases: SUBSET CaseIds]

TypeOK ==
    /\ path \in Inodes \cup {None}
    /\ created \in 0..MaxInodes
    /\ lines \in [Inodes -> Seq(Lines)]
    /\ torn \in [Inodes -> Procs \cup {None, Garbage}]
    /\ holder \in [Inodes -> Procs \cup {None}]
    /\ pc \in [Procs -> PCs]
    /\ request \in [Procs -> Records \cup {None}]
    /\ retries \in [Procs -> Nat]
    /\ handle \in [Procs -> Inodes \cup {None}]
    /\ pending \in [Procs -> {"nothing", "line", "rest"}]
    /\ records \in [Procs -> [CaseIds -> Records \cup {None}]]
    /\ validEnd \in [Procs -> Nat]
    /\ inode \in [Procs -> Inodes \cup {None}]
    /\ answer \in [Procs -> Replies \cup {None}]
    /\ use \in Uses
    /\ crashes \in Nat
    /\ faults \in Nat

\* A file that reads back: records only, each of a case of its own.
Clean(ls) ==
    /\ ls \in Seq(Records)
    /\ \A i, j \in 1..Len(ls) : i # j => ls[i].case # ls[j].case

\* The index of p stands for the first validEnd[p] lines of its file.
Backed(p) ==
    LET prefix == SubSeq(lines[inode[p]], 1, validEnd[p]) IN
    /\ validEnd[p] <= Len(lines[inode[p]])
    /\ Clean(prefix)
    /\ records[p] = Indexed(prefix)

\* Files that do not exist yet are empty, and no handle or path is ahead.
FilesExist ==
    /\ path # None => path <= created
    /\ \A i \in Inodes : i > created => lines[i] = <<>>

\* One process at a time means one.
Alone ==
    ~use.shared => \A p, q \in Procs : pc[p] # "down" /\ pc[q] # "down" => p = q

HandleKept(p) ==
    /\ handle[p] # None <=> pc[p] \in Locked \cup {"opened", "closing"}
    /\ handle[p] # None => handle[p] <= created

LockKept(p) == pc[p] \in Locked => holder[handle[p]] = p

\* What is being written is new, and is in the index once it is written.
RequestKept(p) ==
    /\ pc[p] \in {"writing", "flushing", "closing"} =>
         request[p] # None /\ records[p][request[p].case] = None
    /\ pc[p] = "written" => request[p] # None /\ records[p][request[p].case] = request[p]
    /\ pc[p] = "closing" => ~use.shared /\ use.faults # 0

\* The incomplete last line of the file p is writing is p's.
TailKept(p) ==
    /\ pc[p] \in {"synced", "writing"} => torn[handle[p]] = None
    /\ pc[p] = "flushing" => torn[handle[p]] = p
    /\ pc[p] = "closing" => torn[handle[p]] = IF pending[p] = "line" THEN None ELSE p

\* Only the file of a process that is alone can get shorter than its index.
IndexKept(p) ==
    pc[p] # "down" /\ inode[p] # None =>
      /\ inode[p] <= created
      /\ \/ Backed(p)
         \/ use.truncated /\ Len(lines[inode[p]]) < validEnd[p]

\* From _synchronize on, the index stands for the whole file.
SyncKept(p) ==
    pc[p] \in Synced =>
      inode[p] = handle[p] /\ validEnd[p] = Len(lines[handle[p]]) /\ Backed(p)

Local(p) ==
    /\ HandleKept(p) /\ LockKept(p) /\ RequestKept(p)
    /\ TailKept(p) /\ IndexKept(p) /\ SyncKept(p)

Inv == TypeOK /\ FilesExist /\ Alone /\ \A p \in Procs : Local(p)

\* Every file reads back.
AllClean == \A i \in Inodes : Clean(lines[i])

\* Without imports there is one file, and whoever has a file open has it.
OneFile == \A p \in Procs : handle[p] # None => handle[p] = path

-----------------------------------------------------------------------------
(* Sequences of lines and their indexes *)

\* A prefix does not notice that the sequence grew.
LEMMA PrefixOfAppend ==
  ASSUME NEW S, NEW s \in Seq(S), NEW e \in S, NEW n \in 0..Len(s)
  PROVE  SubSeq(Append(s, e), 1, n) = SubSeq(s, 1, n)
<1>1. Append(s, e) \in Seq(S) /\ \A i \in 1..Len(s) : Append(s, e)[i] = s[i] /\ s[i] \in S
  BY AppendProperties, ElementOfSeq
<1>2. \A i \in 1..n : Append(s, e)[i] = s[i] /\ s[i] \in S
  BY <1>1, LenProperties
<1>3. /\ SubSeq(s, 1, n) \in Seq(S) /\ Len(SubSeq(s, 1, n)) = n
      /\ \A i \in 1..n : SubSeq(s, 1, n)[i] = s[i]
  BY <1>2, LenProperties
<1>4. /\ SubSeq(Append(s, e), 1, n) \in Seq(S) /\ Len(SubSeq(Append(s, e), 1, n)) = n
      /\ \A i \in 1..n : SubSeq(Append(s, e), 1, n)[i] = Append(s, e)[i]
  BY <1>1, <1>2, LenProperties
<1> QED
  BY <1>2, <1>3, <1>4, SeqEqual

\* Nor that it was cut behind the prefix.
LEMMA PrefixOfPrefix ==
  ASSUME NEW S, NEW s \in Seq(S), NEW m \in 0..Len(s), NEW n \in 0..m
  PROVE  /\ SubSeq(SubSeq(s, 1, m), 1, n) = SubSeq(s, 1, n)
         /\ SubSeq(s, 1, m) \in Seq(S)
         /\ Len(SubSeq(s, 1, m)) = m
<1>1. Len(s) \in Nat /\ \A i \in 1..Len(s) : s[i] \in S
  BY LenProperties, ElementOfSeq
<1>2. /\ SubSeq(s, 1, m) \in Seq(S) /\ Len(SubSeq(s, 1, m)) = m
      /\ \A i \in 1..m : SubSeq(s, 1, m)[i] = s[i]
  BY <1>1
<1>3. /\ SubSeq(s, 1, n) \in Seq(S) /\ Len(SubSeq(s, 1, n)) = n
      /\ \A i \in 1..n : SubSeq(s, 1, n)[i] = s[i]
  BY <1>1
<1> DEFINE t == SubSeq(s, 1, m)
<1>4. \A i \in 1..n : t[i] = s[i] /\ t[i] \in S
  BY <1>1, <1>2
<1> HIDE DEF t
<1>5. /\ SubSeq(t, 1, n) \in Seq(S) /\ Len(SubSeq(t, 1, n)) = n
      /\ \A i \in 1..n : SubSeq(t, 1, n)[i] = t[i]
  BY <1>4
<1>6. SubSeq(t, 1, n) = SubSeq(s, 1, n)
  BY <1>3, <1>4, <1>5, SeqEqual
<1> QED
  BY <1>2, <1>6 DEF t

\* In a file that reads back, the index finds each record under its case, and
\* nothing else.
LEMMA IndexedClean ==
  ASSUME NEW ls, Clean(ls)
  PROVE  /\ Indexed(ls) \in [CaseIds -> Records \cup {None}]
         /\ \A i \in 1..Len(ls) :
              ls[i].case \in CaseIds /\ Indexed(ls)[ls[i].case] = ls[i]
         /\ \A c \in CaseIds : (\A i \in 1..Len(ls) : ls[i].case # c) => Indexed(ls)[c] = None
<1>1. /\ ls \in Seq(Records) /\ DOMAIN ls = 1..Len(ls)
      /\ \A i \in 1..Len(ls) : ls[i] \in Records
      /\ ToSet(ls) = {ls[i] : i \in 1..Len(ls)}
  BY LenProperties, ElementOfSeq DEF Clean, ToSet
<1>2. \A r1, r2 \in ToSet(ls) : r1.case = r2.case => r1 = r2
  BY <1>1 DEF Clean
<1>3. ASSUME NEW i \in 1..Len(ls)
      PROVE  ls[i].case \in CaseIds /\ Indexed(ls)[ls[i].case] = ls[i]
  <2>1. ls[i] \in ToSet(ls) /\ ls[i].case \in CaseIds
    BY <1>1 DEF CaseIds
  <2>2. (CHOOSE r \in ToSet(ls) : r.case = ls[i].case) = ls[i]
    BY <1>2, <2>1
  <2> QED
    BY <2>1, <2>2 DEF Indexed
<1>4. ASSUME NEW c \in CaseIds, \A i \in 1..Len(ls) : ls[i].case # c
      PROVE  Indexed(ls)[c] = None
  BY <1>1, <1>4 DEF Indexed
<1>5. \A c \in CaseIds : Indexed(ls)[c] \in Records \cup {None}
  BY <1>1, <1>3, <1>4
<1>6. Indexed(ls) = [c \in CaseIds |-> Indexed(ls)[c]]
  BY DEF Indexed
<1> QED
  BY <1>3, <1>4, <1>5, <1>6

\* An index is determined by what it finds.
LEMMA IndexedUnique ==
  ASSUME NEW ls, Clean(ls), NEW f \in [CaseIds -> Records \cup {None}],
         \A i \in 1..Len(ls) : f[ls[i].case] = ls[i],
         \A c \in CaseIds : (\A i \in 1..Len(ls) : ls[i].case # c) => f[c] = None
  PROVE  f = Indexed(ls)
<1>1. \A c \in CaseIds : f[c] = Indexed(ls)[c]
  <2> SUFFICES ASSUME NEW c \in CaseIds PROVE f[c] = Indexed(ls)[c]
    OBVIOUS
  <2>1. CASE \E i \in 1..Len(ls) : ls[i].case = c
    BY <2>1, IndexedClean
  <2>2. CASE \A i \in 1..Len(ls) : ls[i].case # c
    BY <2>2, IndexedClean
  <2> QED
    BY <2>1, <2>2
<1> QED
  BY <1>1, IndexedClean

\* A record that an index of records finds is in the file it stands for.
LEMMA IndexedIn ==
  ASSUME NEW ls, Clean(ls), NEW c \in CaseIds
  PROVE  /\ Indexed(ls)[c] # None => Indexed(ls)[c] \in ToSet(ls) /\ Indexed(ls)[c].case = c
         /\ Indexed(ls)[c] # None <=> c \in {r.case : r \in ToSet(ls)}
<1>1. /\ ToSet(ls) = {ls[i] : i \in 1..Len(ls)}
      /\ \A i \in 1..Len(ls) : ls[i] \in Records /\ ls[i] # None
  BY StoreAssumption, LenProperties, ElementOfSeq DEF Clean, ToSet
<1>2. CASE \E i \in 1..Len(ls) : ls[i].case = c
  BY <1>1, <1>2, IndexedClean
<1>3. CASE \A i \in 1..Len(ls) : ls[i].case # c
  BY <1>1, <1>3, IndexedClean
<1> QED
  BY <1>2, <1>3

\* One more record of a case that the file does not have.
LEMMA IndexedAppend ==
  ASSUME NEW ls, Clean(ls), NEW r \in Records, Indexed(ls)[r.case] = None
  PROVE  /\ Clean(Append(ls, r))
         /\ Indexed(Append(ls, r)) = [Indexed(ls) EXCEPT ![r.case] = r]
<1> DEFINE new == Append(ls, r)
           f == [Indexed(ls) EXCEPT ![r.case] = r]
<1>1. /\ new \in Seq(Records) /\ Len(new) = Len(ls) + 1 /\ Len(ls) \in Nat
      /\ \A i \in 1..Len(ls) : new[i] = ls[i]
      /\ new[Len(ls) + 1] = r
  BY AppendProperties, LenProperties DEF Clean
<1>2. \A i \in 1..Len(ls) : ls[i] \in Records /\ ls[i] # None
  BY StoreAssumption, LenProperties, ElementOfSeq DEF Clean
<1>3. \A i \in 1..Len(ls) : ls[i].case # r.case
  BY <1>2, IndexedClean
<1> HIDE DEF new
<1>4. \A i \in 1..Len(new) : i \in 1..Len(ls) \/ i = Len(ls) + 1
  BY <1>1
<1>5. Clean(new)
  BY <1>1, <1>3, <1>4 DEF Clean
<1>6. r.case \in CaseIds
  BY DEF CaseIds
<1>7. f \in [CaseIds -> Records \cup {None}]
  BY IndexedClean
<1>8. \A c \in CaseIds : f[c] = IF c = r.case THEN r ELSE Indexed(ls)[c]
  BY IndexedClean
<1> HIDE DEF f
<1>9. \A i \in 1..Len(new) : f[new[i].case] = new[i]
  BY <1>1, <1>3, <1>4, <1>6, <1>8, IndexedClean
<1>10. ASSUME NEW c \in CaseIds, \A i \in 1..Len(new) : new[i].case # c
       PROVE  f[c] = None
  BY <1>1, <1>8, <1>10, IndexedClean
<1>11. f = Indexed(new)
  BY <1>5, <1>7, <1>9, <1>10, IndexedUnique
<1> QED
  BY <1>5, <1>11 DEF f, new

\* _full_refresh: a whole file that scans is a file that reads back.
LEMMA ScanOfAll ==
  ASSUME NEW ls \in Seq(Lines)
  PROVE  Scans(ls, NoRecords) <=> Clean(ls)
<1>1. /\ DOMAIN ls = 1..Len(ls) /\ Len(ls) \in Nat
      /\ \A i \in 1..Len(ls) : ls[i] \in Records \cup {Garbage}
      /\ ToSet(ls) = {ls[i] : i \in 1..Len(ls)}
  BY LenProperties, ElementOfSeq DEF Lines, ToSet
<1>2. \A r \in Records : r.case \in CaseIds
  BY DEF CaseIds
<1>3. ASSUME Scans(ls, NoRecords) PROVE Clean(ls)
  <2>1. \A i \in 1..Len(ls) : ls[i] \in Records
    BY <1>1, <1>3 DEF Scans
  <2>2. ls \in Seq(Records)
    BY <1>1, <2>1
  <2> QED
    BY <1>1, <1>3, <2>2 DEF Scans, Clean
<1>4. ASSUME Clean(ls) PROVE Scans(ls, NoRecords)
  <2>1. \A i \in 1..Len(ls) : ls[i] \in Records
    BY <1>4, ElementOfSeq DEF Clean
  <2> QED
    BY <1>1, <1>2, <1>4, <2>1, StoreAssumption DEF Scans, Clean, NoRecords
<1> QED
  BY <1>3, <1>4

\* _synchronize: reading on from a prefix that reads back tells of the whole
\* file what reading all of it would, and leads to the same index.
LEMMA ScanOfRest ==
  ASSUME NEW ls \in Seq(Lines), NEW n \in 0..Len(ls), Clean(SubSeq(ls, 1, n))
  PROVE  LET pre == SubSeq(ls, 1, n)
             rest == SubSeq(ls, n + 1, Len(ls))
         IN  /\ Scans(rest, Indexed(pre)) <=> Clean(ls)
             /\ Clean(ls) =>
                  Indexed(ls) = [c \in CaseIds |-> IF Indexed(pre)[c] # None THEN Indexed(pre)[c]
                                                   ELSE Indexed(rest)[c]]
<1> DEFINE pre == SubSeq(ls, 1, n)
           rest == SubSeq(ls, n + 1, Len(ls))
           both == [c \in CaseIds |-> IF Indexed(pre)[c] # None THEN Indexed(pre)[c]
                                      ELSE Indexed(rest)[c]]
<1>1. /\ Len(ls) \in Nat /\ n \in Nat /\ n <= Len(ls)
      /\ \A i \in 1..Len(ls) : ls[i] \in Lines
  BY LenProperties, ElementOfSeq
<1>2. /\ pre \in Seq(Lines) /\ Len(pre) = n /\ \A i \in 1..n : pre[i] = ls[i]
  BY <1>1
<1>3. /\ rest \in Seq(Lines) /\ Len(rest) = Len(ls) - n
      /\ \A i \in 1..(Len(ls) - n) : rest[i] = ls[n + i]
  BY <1>1
<1>4. /\ DOMAIN rest = 1..(Len(ls) - n)
      /\ ToSet(rest) = {rest[i] : i \in 1..(Len(ls) - n)}
  BY <1>3, LenProperties DEF ToSet
<1>5. Clean(pre)
  OBVIOUS
<1> HIDE DEF pre, rest
<1>6. \A i \in 1..Len(ls) : \/ i \in 1..n /\ ls[i] = pre[i]
                            \/ i - n \in 1..(Len(ls) - n) /\ ls[i] = rest[i - n]
  BY <1>1, <1>2, <1>3
<1>7. \A i \in 1..n : pre[i] \in Records /\ pre[i] # None /\ Indexed(pre)[pre[i].case] = pre[i]
  BY <1>2, <1>5, IndexedClean, ElementOfSeq, StoreAssumption DEF Clean
<1>8. ASSUME Scans(rest, Indexed(pre)) PROVE Clean(ls)
  <2>1. \A i \in 1..(Len(ls) - n) : rest[i] \in Records
    BY <1>3, <1>4, <1>8, ElementOfSeq DEF Scans, Lines
  <2>2. \A i \in 1..Len(ls) : ls[i] \in Records
    BY <1>6, <1>7, <2>1
  <2>3. ls \in Seq(Records)
    BY <1>1, <2>2
  <2>4. \A i \in 1..n, j \in 1..(Len(ls) - n) : pre[i].case # rest[j].case
    BY <1>4, <1>7, <1>8 DEF Scans
  <2>5. \A i, j \in 1..(Len(ls) - n) : i # j => rest[i].case # rest[j].case
    BY <1>4, <1>8 DEF Scans
  <2>6. \A i, j \in 1..n : i # j => pre[i].case # pre[j].case
    BY <1>2, <1>5 DEF Clean
  <2>7. ASSUME NEW i \in 1..Len(ls), NEW j \in 1..Len(ls), i # j
        PROVE  ls[i].case # ls[j].case
    BY <1>1, <1>6, <2>4, <2>5, <2>6, <2>7
  <2> QED
    BY <2>3, <2>7 DEF Clean
<1>9. ASSUME Clean(ls) PROVE Scans(rest, Indexed(pre)) /\ Indexed(ls) = both
  <2>1. \A i \in 1..Len(ls) : ls[i] \in Records /\ ls[i] # None /\ ls[i] # Garbage
    BY <1>9, ElementOfSeq, StoreAssumption DEF Clean
  <2>2. \A i \in 1..(Len(ls) - n) : n + i \in 1..Len(ls) /\ rest[i] = ls[n + i]
    BY <1>1, <1>3
  <2>3. \A i \in 1..n : i \in 1..Len(ls)
    BY <1>1
  <2>4. \A i, j \in 1..(Len(ls) - n) : i # j => rest[i].case # rest[j].case
    BY <1>1, <1>9, <2>2 DEF Clean
  <2>5. \A i \in 1..n, j \in 1..(Len(ls) - n) : pre[i].case # rest[j].case
    <3> SUFFICES ASSUME NEW i \in 1..n, NEW j \in 1..(Len(ls) - n)
                 PROVE  pre[i].case # rest[j].case
      OBVIOUS
    <3>1. i # n + j
      BY <1>1
    <3>2. n + j \in 1..Len(ls) /\ i \in 1..Len(ls)
      BY <2>2, <2>3
    <3>3. ls[i].case # ls[n + j].case
      BY <1>9, <3>1, <3>2 DEF Clean
    <3> QED
      BY <1>2, <2>2, <3>3
  <2>6. \A j \in 1..(Len(ls) - n) : rest[j].case \in CaseIds
    BY <2>1, <2>2 DEF CaseIds
  <2>7. \A j \in 1..(Len(ls) - n) : Indexed(pre)[rest[j].case] = None
    BY <1>2, <1>5, <2>5, <2>6, IndexedClean
  <2>8. Scans(rest, Indexed(pre))
    BY <1>4, <2>1, <2>2, <2>4, <2>7 DEF Scans
  <2>9. Clean(rest)
    <3>1. \A i \in 1..(Len(ls) - n) : rest[i] \in Records
      BY <2>1, <2>2
    <3>2. rest \in Seq(Records)
      BY <1>1, <1>3, <3>1
    <3> QED
      BY <1>3, <2>4, <3>2 DEF Clean
  <2>10. both \in [CaseIds -> Records \cup {None}]
    BY <1>5, <2>9, IndexedClean
  <2>11. \A c \in CaseIds : both[c] = IF Indexed(pre)[c] # None THEN Indexed(pre)[c]
                                      ELSE Indexed(rest)[c]
    OBVIOUS
  <2> HIDE DEF both
  <2>12. \A i \in 1..n : both[pre[i].case] = pre[i]
    BY <1>2, <1>5, <1>7, <2>11, IndexedClean
  <2>13. \A i \in 1..(Len(ls) - n) : both[rest[i].case] = rest[i]
    BY <1>3, <2>6, <2>7, <2>9, <2>11, IndexedClean
  <2>14. \A i \in 1..Len(ls) : both[ls[i].case] = ls[i]
    BY <1>6, <2>12, <2>13
  <2>15. ASSUME NEW c \in CaseIds, \A i \in 1..Len(ls) : ls[i].case # c
         PROVE  both[c] = None
    <3>1. \A i \in 1..n : pre[i].case # c
      BY <1>2, <2>3, <2>15
    <3>2. \A i \in 1..(Len(ls) - n) : rest[i].case # c
      BY <2>2, <2>15
    <3>3. Indexed(pre)[c] = None
      BY <1>2, <1>5, <3>1, IndexedClean
    <3>4. Indexed(rest)[c] = None
      BY <1>3, <2>9, <3>2, IndexedClean
    <3> QED
      BY <2>11, <3>3, <3>4
  <2>16. both = Indexed(ls)
    BY <1>9, <2>10, <2>14, <2>15, IndexedUnique
  <2> QED
    BY <2>8, <2>16
<1> QED
  BY <1>8, <1>9 DEF pre, rest

\* What a scan without garbage finds are records.
LEMMA IndexedType ==
  ASSUME NEW ls \in Seq(Lines), Garbage \notin ToSet(ls)
  PROVE  Indexed(ls) \in [CaseIds -> Records \cup {None}]
<1>1. \A r \in ToSet(ls) : r \in Records
  BY LenProperties, ElementOfSeq DEF ToSet, Lines
<1> QED
  BY <1>1 DEF Indexed

-----------------------------------------------------------------------------
(* Type correctness *)

\* What a step makes of the stage of its process.
LEMMA StageIs ==
  ASSUME TypeOK, NEW p \in Procs, NEW stage, pc' = [pc EXCEPT ![p] = stage]
  PROVE  pc'[p] = stage
<1>1. p \in DOMAIN pc
  BY DEF TypeOK
<1> QED
  BY <1>1

\* The inodes are numbered in the order they are created.
LEMMA CreatedIsNatural ==
  ASSUME TypeOK
  PROVE  created \in Nat
<1>1. created \in 0 .. MaxInodes
  BY DEF TypeOK
<1> QED
  BY <1>1, StoreAssumption

\* A process that has a file open, and what it knows of it.
LEMMA AtWork ==
  ASSUME Inv, NEW p \in Procs
  PROVE  /\ pc[p] \in Locked \cup {"opened", "closing"} => handle[p] \in Inodes
         /\ pc[p] \in Synced =>
              /\ Clean(lines[handle[p]])
              /\ records[p] = Indexed(lines[handle[p]])
              /\ inode[p] = handle[p]
              /\ validEnd[p] = Len(lines[handle[p]])
<1>1. pc[p] \in Locked \cup {"opened", "closing"} => handle[p] \in Inodes
  BY DEF Inv, TypeOK, Local, HandleKept
<1>2. ASSUME pc[p] \in Synced
      PROVE  /\ Clean(lines[handle[p]])
             /\ records[p] = Indexed(lines[handle[p]])
             /\ inode[p] = handle[p]
             /\ validEnd[p] = Len(lines[handle[p]])
  <2>1. handle[p] \in Inodes /\ lines[handle[p]] \in Seq(Lines)
    BY <1>1, <1>2 DEF Synced, Locked, Inv, TypeOK
  <2>2. inode[p] = handle[p] /\ validEnd[p] = Len(lines[handle[p]]) /\ Backed(p)
    BY <1>2 DEF Inv, Local, SyncKept
  <2>3. SubSeq(lines[handle[p]], 1, Len(lines[handle[p]])) = lines[handle[p]]
    BY <2>1, SubSeqFull
  <2> QED
    BY <2>2, <2>3 DEF Backed
<1> QED
  BY <1>1, <1>2

\* A call that returns, with a reply that is one.
LEMMA ReturnType ==
  ASSUME TypeOK, NEW p \in Procs, NEW a \in Replies, Return(p, a)
  PROVE  /\ holder' \in [Inodes -> Procs \cup {None}]
         /\ handle' \in [Procs -> Inodes \cup {None}]
         /\ answer' \in [Procs -> Replies \cup {None}]
         /\ pc' \in [Procs -> PCs]
         /\ retries' \in [Procs -> Nat]
BY DEF TypeOK, Return, Unlock, Put, PCs

\* Appending what p writes keeps the files in shape.
LEMMA CompleteLineType ==
  ASSUME TypeOK, NEW p \in Procs, NEW whole \in BOOLEAN, CompleteLine(p, whole),
         handle[p] \in Inodes, request[p] # None
  PROVE  /\ lines' \in [Inodes -> Seq(Lines)]
         /\ torn' \in [Inodes -> Procs \cup {None, Garbage}]
         /\ \A i \in Inodes \ {handle[p]} : lines'[i] = lines[i] /\ torn'[i] = torn[i]
         /\ \E x \in Lines : lines'[handle[p]] = Append(lines[handle[p]], x)
<1> DEFINE x == IF torn[handle[p]] = IF whole THEN None ELSE p THEN request[p] ELSE Garbage
<1>1. x \in Lines
  BY DEF TypeOK, Lines
<1>2. Append(lines[handle[p]], x) \in Seq(Lines)
  BY <1>1 DEF TypeOK
<1>3. lines' = [lines EXCEPT ![handle[p]] = Append(lines[handle[p]], x)]
  BY DEF CompleteLine, Put
<1>4. torn' = [torn EXCEPT ![handle[p]] = None]
  BY DEF CompleteLine, Put
<1> HIDE DEF x
<1>5. lines' \in [Inodes -> Seq(Lines)]
  BY <1>2, <1>3 DEF TypeOK
<1>6. lines'[handle[p]] = Append(lines[handle[p]], x)
  BY <1>3 DEF TypeOK
<1> QED
  BY <1>1, <1>3, <1>4, <1>5, <1>6 DEF TypeOK

\* Every step of the store keeps every variable in shape.
LEMMA TypeStep == Inv /\ [Next]_vars => TypeOK'
<1> SUFFICES ASSUME Inv, [Next]_vars PROVE TypeOK'
  OBVIOUS
<1> USE DEF files, index, bounds
<1>0. TypeOK
  BY DEF Inv
<1>a. NoRecords \in [CaseIds -> Records \cup {None}]
  BY DEF NoRecords
<1>1. ASSUME NEW p \in Procs, NEW r \in Records, AppendRecord(p, r) PROVE TypeOK'
  BY <1>0, <1>1 DEF TypeOK, AppendRecord, Call, Put, PCs
<1>2. ASSUME NEW p \in Procs, Construct(p) PROVE TypeOK'
  BY <1>0, <1>2, <1>a DEF TypeOK, Construct, Call, Put, PCs
<1>3. ASSUME NEW p \in Procs, OpenHandle(p) PROVE TypeOK'
  <2>1. /\ path' \in Inodes /\ created' \in 0..MaxInodes
    BY <1>0, <1>3, StoreAssumption DEF TypeOK, OpenHandle, Inodes
  <2> QED
    BY <1>0, <1>3, <2>1 DEF TypeOK, OpenHandle, Put, PCs
<1>4. ASSUME NEW p \in Procs, Lock(p) PROVE TypeOK'
  BY <1>0, <1>4 DEF TypeOK, Lock, Put, PCs
<1>5. ASSUME NEW p \in Procs, FindReplaced(p) PROVE TypeOK'
  <2>1. CASE MayRetry(p)
    <3>1. /\ Unlock(p)
          /\ handle' = Put(handle, p, None)
          /\ retries' = Put(retries, p, retries[p] + 1)
          /\ pc' = Put(pc, p, "opening")
          /\ UNCHANGED answer
      BY <1>5, <2>1 DEF FindReplaced, Retry
    <3>2. holder' \in [Inodes -> Procs \cup {None}]
      BY <1>0, <3>1 DEF TypeOK, Unlock, Put
    <3> QED
      BY <1>0, <1>5, <3>1, <3>2 DEF TypeOK, FindReplaced, Put, PCs
  <2>2. CASE ~MayRetry(p)
    <3>1. [verdict |-> "changed"] \in Replies
      BY DEF Replies
    <3>2. Return(p, [verdict |-> "changed"])
      BY <1>5, <2>2 DEF FindReplaced, Retry
    <3> QED
      BY <1>0, <1>5, <3>1, <3>2, ReturnType DEF TypeOK, FindReplaced
  <2> QED
    BY <2>1, <2>2
<1>6. ASSUME NEW p \in Procs, Synchronize(p) PROVE TypeOK'
  <2>1. handle[p] \in Inodes /\ lines[handle[p]] \in Seq(Lines)
    BY <1>0, <1>6, AtWork DEF Synchronize, Locked, TypeOK
  <2>2. Unread(p) \in Seq(Lines)
    <3>1. ~IndexIsStale(p) =>
            Unread(p) = SubSeq(lines[handle[p]], validEnd[p] + 1, Len(lines[handle[p]]))
      BY DEF Unread
    <3>2. validEnd[p] \in Nat /\ Len(lines[handle[p]]) \in Nat
          /\ \A i \in 1..Len(lines[handle[p]]) : lines[handle[p]][i] \in Lines
      BY <1>0, <2>1, LenProperties, ElementOfSeq DEF TypeOK
    <3>3. SubSeq(lines[handle[p]], validEnd[p] + 1, Len(lines[handle[p]])) \in Seq(Lines)
      BY <3>2, SubSeqProperties
    <3> QED
      BY <2>1, <3>1, <3>3 DEF Unread
  <2>3. Indexed(Unread(p)) \in [CaseIds -> Records \cup {None}]
    BY <1>6, <2>2, IndexedType DEF Synchronize, Scans
  <2>4. Known(p) \in [CaseIds -> Records \cup {None}]
    BY <1>0, <1>a DEF Known, TypeOK
  <2>5. Absorb(p) \in [CaseIds -> Records \cup {None}]
    BY <2>3, <2>4 DEF Absorb
  <2>6. Len(lines[handle[p]]) \in Nat
    BY <2>1, LenProperties
  <2> QED
    BY <1>0, <1>6, <2>1, <2>5, <2>6 DEF TypeOK, Synchronize, Repaired, Put, PCs
<1>7. ASSUME NEW p \in Procs, RefuseCorrupt(p) PROVE TypeOK'
  <2>1. [verdict |-> "corrupt"] \in Replies
    BY DEF Replies
  <2> QED
    BY <1>0, <1>7, <2>1, ReturnType DEF TypeOK, RefuseCorrupt
<1>8. ASSUME NEW p \in Procs, Opened(p) PROVE TypeOK'
  <2>1. [verdict |-> "opened", cases |-> Completed(p)] \in Replies
    BY DEF Replies, Completed
  <2> QED
    BY <1>0, <1>8, <2>1, ReturnType DEF TypeOK, Opened
<1>9. ASSUME NEW p \in Procs, FindExisting(p) PROVE TypeOK'
  <2>1. [verdict |-> VerdictOnExisting(p), record |-> request[p]] \in Replies
    BY <1>0, <1>9 DEF Replies, VerdictOnExisting, FindExisting, TypeOK
  <2> QED
    BY <1>0, <1>9, <2>1, ReturnType DEF TypeOK, FindExisting
<1>10. ASSUME NEW p \in Procs, GoWrite(p) PROVE TypeOK'
  BY <1>0, <1>10 DEF TypeOK, GoWrite, Put, PCs
<1>11. ASSUME NEW p \in Procs, StartWrite(p) PROVE TypeOK'
  BY <1>0, <1>11 DEF TypeOK, StartWrite, Put, PCs
<1>12. ASSUME NEW p \in Procs, FinishWrite(p) PROVE TypeOK'
  <2>1. handle[p] \in Inodes /\ request[p] \in Records
    BY <1>0, <1>12, AtWork DEF FinishWrite, Locked, Inv, Local, RequestKept, TypeOK
  <2>2. /\ lines' \in [Inodes -> Seq(Lines)]
        /\ torn' \in [Inodes -> Procs \cup {None, Garbage}]
    BY <1>0, <1>12, <2>1, CompleteLineType, StoreAssumption DEF FinishWrite
  <2>3. EndAfterWrite(p) \in Nat
    BY <1>0, <2>1, LenProperties DEF TypeOK, EndAfterWrite
  <2>4. records' \in [Procs -> [CaseIds -> Records \cup {None}]]
    BY <1>0, <1>12, <2>1 DEF TypeOK, FinishWrite
  <2> QED
    BY <1>0, <1>12, <2>1, <2>2, <2>3, <2>4 DEF TypeOK, FinishWrite, Put, PCs
<1>13. ASSUME NEW p \in Procs, Confirm(p) PROVE TypeOK'
  <2>1. [verdict |-> "appended", record |-> request[p]] \in Replies
    BY <1>0, <1>13 DEF Inv, Local, RequestKept, Replies, Confirm, TypeOK
  <2> QED
    BY <1>0, <1>13, <2>1, ReturnType DEF TypeOK, Confirm
<1>14. ASSUME NEW p \in Procs, Close(p) PROVE TypeOK'
  <2>1. handle[p] \in Inodes /\ request[p] \in Records
    BY <1>0, <1>14, AtWork DEF Close, Inv, Local, RequestKept, TypeOK
  <2>2. /\ lines' \in [Inodes -> Seq(Lines)]
        /\ torn' \in [Inodes -> Procs \cup {None, Garbage}]
    BY <1>0, <1>14, <2>1, CompleteLineType, StoreAssumption DEF Close, TypeOK
  <2>3. [verdict |-> "error"] \in Replies
    BY DEF Replies
  <2> QED
    BY <1>0, <1>14, <2>2, <2>3 DEF TypeOK, Close, Put, PCs
<1>15. ASSUME NEW p \in Procs, FailWrite(p) PROVE TypeOK'
  BY <1>0, <1>15 DEF TypeOK, FailWrite, Unlock, Put, PCs
<1>16. ASSUME NEW p \in Procs, FailSync(p) PROVE TypeOK'
  <2>1. handle[p] \in Inodes /\ request[p] \in Records
    BY <1>0, <1>16, AtWork DEF FailSync, Locked, Inv, Local, RequestKept, TypeOK
  <2>2. /\ lines' \in [Inodes -> Seq(Lines)]
        /\ torn' \in [Inodes -> Procs \cup {None, Garbage}]
    BY <1>0, <1>16, <2>1, CompleteLineType, StoreAssumption DEF FailSync
  <2>3. [verdict |-> "error"] \in Replies
    BY DEF Replies
  <2> QED
    BY <1>0, <1>16, <2>2, <2>3, ReturnType DEF TypeOK, FailSync
<1>17. ASSUME NEW p \in Procs, Crash(p) PROVE TypeOK'
  BY <1>0, <1>17, <1>a DEF TypeOK, Crash, Put, PCs
<1>18. CASE Replace
  <2>1. created + 1 \in Inodes /\ created' \in 0..MaxInodes /\ path' \in Inodes
    BY <1>0, <1>18, StoreAssumption DEF TypeOK, Replace, Inodes
  <2>2. \A ls \in Imports : ls \in Seq(Lines)
    BY StoreAssumption, SeqMonotonic DEF Lines
  <2>3. lines' \in [Inodes -> Seq(Lines)]
    BY <1>0, <1>18, <2>2 DEF TypeOK, Replace
  <2> QED
    BY <1>0, <1>18, <2>1, <2>3 DEF TypeOK, Replace, others
<1>19. CASE Truncate
  <2>1. path \in Inodes /\ lines[path] \in Seq(Lines)
    BY <1>0, <1>19 DEF TypeOK, Truncate
  <2>2. \A n \in 0..Len(lines[path]) : SubSeq(lines[path], 1, n) \in Seq(Lines)
    BY <2>1, PrefixOfPrefix
  <2>3. lines' \in [Inodes -> Seq(Lines)]
    BY <1>0, <1>19, <2>2 DEF TypeOK, Truncate
  <2>4. torn' \in [Inodes -> Procs \cup {None, Garbage}]
    BY <1>0, <1>19 DEF TypeOK, Truncate
  <2> QED
    BY <1>0, <1>19, <2>3, <2>4 DEF TypeOK, Truncate, others
<1>20. CASE UNCHANGED vars
  BY <1>0, <1>20 DEF TypeOK, vars
<1> QED
  BY <1>1, <1>2, <1>3, <1>4, <1>5, <1>6, <1>7, <1>8, <1>9, <1>10, <1>11, <1>12, <1>13,
     <1>14, <1>15, <1>16, <1>17, <1>18, <1>19, <1>20
  DEF Next, Run, Environment

-----------------------------------------------------------------------------
(* What the steps of one process mean for the others *)

\* What a step of p may do: use its own variables, take a free lock or give
\* back its own, create the file, and change or extend the file it works on.
Frame(p) ==
    /\ \A q \in Procs \ {p} :
         /\ pc'[q] = pc[q] /\ request'[q] = request[q] /\ handle'[q] = handle[q]
         /\ pending'[q] = pending[q] /\ records'[q] = records[q]
         /\ validEnd'[q] = validEnd[q] /\ inode'[q] = inode[q]
    /\ use' = use
    /\ created' \in Nat /\ created <= created'
    /\ path' = path \/ path' = created'
    /\ \A i \in Inodes : holder[i] \notin {p, None} => holder'[i] = holder[i]
    /\ \A i \in Inodes :
         \/ lines'[i] = lines[i] /\ torn'[i] = torn[i]
         \/ /\ i = handle[p] /\ pc[p] \in Locked \cup {"closing"}
            /\ lines'[i] = lines[i] \/ \E x \in Lines : lines'[i] = Append(lines[i], x)

\* Two processes never work on one file.
LEMMA Exclusive ==
  ASSUME Inv, NEW p \in Procs, NEW q \in Procs, p # q,
         pc[p] \in Locked \cup {"closing"}, pc[q] \in Locked \cup {"closing"}
  PROVE  handle[p] # handle[q]
<1>1. CASE pc[p] \in Locked /\ pc[q] \in Locked
  BY <1>1 DEF Inv, Local, LockKept
<1>2. CASE pc[p] = "closing" \/ pc[q] = "closing"
  <2>1. ~use.shared
    BY <1>2 DEF Inv, Local, RequestKept
  <2>2. pc[p] # "down" /\ pc[q] # "down"
    BY DEF Locked
  <2> QED
    BY <2>1, <2>2 DEF Inv, Alone
<1> QED
  BY <1>1, <1>2

\* While others are up, no file is ever cut back.
LEMMA SharedIsWhole ==
  ASSUME Inv, Benign, NEW p \in Procs, NEW q \in Procs, p # q,
         pc[p] # "down", pc[q] # "down"
  PROVE  use.shared /\ ~use.truncated /\ use.faults = 0
BY DEF Inv, TypeOK, Alone, Benign

\* An index stays backed when its file grows.
LEMMA BackedGrows ==
  ASSUME Inv, NEW q \in Procs, inode[q] # None, Backed(q), TypeOK',
         inode'[q] = inode[q], validEnd'[q] = validEnd[q], records'[q] = records[q],
         \/ lines'[inode[q]] = lines[inode[q]]
         \/ \E x \in Lines : lines'[inode[q]] = Append(lines[inode[q]], x)
  PROVE  Backed(q)'
<1> DEFINE old == lines[inode[q]]
           new == lines'[inode[q]]
<1>1. inode[q] \in Inodes /\ old \in Seq(Lines) /\ validEnd[q] \in Nat /\ validEnd[q] <= Len(old)
  BY DEF Inv, TypeOK, Backed
<1>2. Len(old) \in Nat
  BY <1>1, LenProperties
<1>3. SubSeq(new, 1, validEnd[q]) = SubSeq(old, 1, validEnd[q]) /\ validEnd[q] <= Len(new)
  <2>1. CASE new = old
    BY <1>1, <2>1
  <2>2. CASE \E x \in Lines : new = Append(old, x)
    <3> PICK x \in Lines : new = Append(old, x)
      BY <2>2
    <3>1. validEnd[q] \in 0..Len(old) /\ Len(new) = Len(old) + 1
      BY <1>1, <1>2, AppendProperties
    <3> HIDE DEF old
    <3>2. SubSeq(Append(old, x), 1, validEnd[q]) = SubSeq(old, 1, validEnd[q])
      BY <1>1, <3>1, PrefixOfAppend
    <3> HIDE DEF new
    <3> QED
      BY <1>1, <1>2, <3>1, <3>2 DEF new
  <2> QED
    BY <2>1, <2>2
<1>4. Clean(SubSeq(new, 1, validEnd[q])) /\ records[q] = Indexed(SubSeq(new, 1, validEnd[q]))
  BY <1>3 DEF Backed
<1> QED
  BY <1>3, <1>4 DEF Backed

\* Whatever p does, the others keep what they hold.
LEMMA FrameKeeps ==
  ASSUME Inv, Benign, TypeOK', NEW p \in Procs, Frame(p), NEW q \in Procs, q # p,
         pc[p] # "down" \/ UNCHANGED <<lines, torn>>
  PROVE  Local(q)'
<1>1. /\ pc'[q] = pc[q] /\ request'[q] = request[q] /\ handle'[q] = handle[q]
      /\ pending'[q] = pending[q] /\ records'[q] = records[q]
      /\ validEnd'[q] = validEnd[q] /\ inode'[q] = inode[q]
      /\ use' = use /\ created' \in Nat /\ created <= created'
  BY DEF Frame
<1>2. Local(q) /\ created \in Nat /\ handle[q] \in Inodes \cup {None}
      /\ inode[q] \in Inodes \cup {None}
  <2>1. Local(q)
    BY DEF Inv
  <2>2. created \in Nat
    BY CreatedIsNatural DEF Inv
  <2> QED
    BY <2>1, <2>2 DEF Inv, TypeOK
<1>3. HandleKept(q)'
  <2>1. handle[q] # None => handle[q] \in Nat
    BY <1>2 DEF Inodes
  <2> QED
    BY <1>1, <1>2, <2>1 DEF Local, HandleKept
<1>4. LockKept(q)'
  <2> SUFFICES ASSUME pc[q] \in Locked PROVE holder'[handle[q]] = q
    BY <1>1 DEF LockKept
  <2>1. handle[q] \in Inodes /\ holder[handle[q]] = q
    BY <1>2, AtWork DEF Local, LockKept
  <2> QED
    BY <2>1, StoreAssumption DEF Frame
<1>5. RequestKept(q)'
  BY <1>1, <1>2 DEF Local, RequestKept
<1>6. pc[q] \in Locked \cup {"closing"} =>
        lines'[handle[q]] = lines[handle[q]] /\ torn'[handle[q]] = torn[handle[q]]
  <2> SUFFICES ASSUME pc[q] \in Locked \cup {"closing"}
               PROVE  lines'[handle[q]] = lines[handle[q]] /\ torn'[handle[q]] = torn[handle[q]]
    OBVIOUS
  <2>1. handle[q] \in Inodes
    BY AtWork
  <2> QED
    BY <2>1, Exclusive DEF Frame
<1>7. TailKept(q)'
  BY <1>1, <1>2, <1>6 DEF Local, TailKept, Locked
<1>8. ASSUME pc[q] # "down", inode[q] # None
      PROVE  \/ lines'[inode[q]] = lines[inode[q]]
             \/ \E x \in Lines : lines'[inode[q]] = Append(lines[inode[q]], x) /\ ~use.truncated
  <2>1. inode[q] \in Inodes
    BY <1>2, <1>8
  <2>2. CASE pc[p] # "down"
    <3>1. ~use.truncated
      BY <1>8, <2>2, SharedIsWhole
    <3> QED
      BY <2>1, <3>1 DEF Frame
  <2>3. CASE UNCHANGED <<lines, torn>>
    BY <2>3
  <2> QED
    BY <2>2, <2>3
<1>9. IndexKept(q)'
  <2> SUFFICES ASSUME pc[q] # "down", inode[q] # None
               PROVE  /\ inode[q] <= created'
                      /\ \/ Backed(q)'
                         \/ use.truncated /\ Len(lines'[inode[q]]) < validEnd[q]
    BY <1>1 DEF IndexKept
  <2>1. inode[q] \in Nat
    BY <1>2 DEF Inodes
  <2>2. CASE Backed(q)
    BY <1>1, <1>2, <1>8, <2>1, <2>2, BackedGrows DEF Local, IndexKept
  <2>3. CASE use.truncated /\ Len(lines[inode[q]]) < validEnd[q]
    BY <1>1, <1>2, <1>8, <2>1, <2>3 DEF Local, IndexKept
  <2> QED
    BY <1>2, <2>2, <2>3 DEF Local, IndexKept
<1>10. SyncKept(q)'
  <2> SUFFICES ASSUME pc[q] \in Synced
               PROVE  /\ inode[q] = handle[q] /\ validEnd[q] = Len(lines'[handle[q]])
                      /\ Backed(q)'
    BY <1>1 DEF SyncKept
  <2>1. inode[q] = handle[q] /\ validEnd[q] = Len(lines[handle[q]]) /\ Backed(q)
    BY <1>2 DEF Local, SyncKept
  <2>2. lines'[handle[q]] = lines[handle[q]] /\ handle[q] # None
    BY <1>2, <1>6, AtWork, StoreAssumption DEF Synced, Locked
  <2> QED
    BY <1>1, <2>1, <2>2, BackedGrows
<1> QED
  BY <1>3, <1>4, <1>5, <1>7, <1>9, <1>10 DEF Local

-----------------------------------------------------------------------------
(* Every step keeps the invariant *)

\* It is enough to look at the process that takes the step.
LEMMA StepKeeps ==
  ASSUME Inv, Benign, TypeOK', NEW p \in Procs, pc[p] # "down", Frame(p), Local(p)'
  PROVE  Inv'
<1>1. \A q \in Procs : Local(q)'
  <2> SUFFICES ASSUME NEW q \in Procs PROVE Local(q)'
    OBVIOUS
  <2>1. CASE q = p
    BY <2>1
  <2>2. CASE q # p
    BY <2>2, FrameKeeps
  <2> QED
    BY <2>1, <2>2
<1>2. Alone'
  BY DEF Inv, Alone, Frame
<1>3. created \in Nat /\ created' \in Nat /\ created <= created' /\ Inodes \subseteq Nat
  BY StoreAssumption DEF Inv, TypeOK, Frame, Inodes
<1>4. path' # None => path' <= created'
  <2>1. path # None => path \in Nat /\ path <= created
    BY <1>3 DEF Inv, TypeOK, FilesExist
  <2>2. path' = path \/ path' = created'
    BY DEF Frame
  <2> QED
    BY <1>3, <2>1, <2>2
<1>5. ASSUME NEW i \in Inodes, i > created' PROVE lines'[i] = <<>>
  <2>1. i > created
    BY <1>3, <1>5
  <2>2. i # handle[p]
    <3>1. handle[p] # None => handle[p] <= created
      BY DEF Inv, Local, HandleKept
    <3>2. i # None
      BY StoreAssumption
    <3> QED
      BY <1>3, <2>1, <3>1, <3>2
  <2> QED
    BY <2>1, <2>2 DEF Frame, Inv, FilesExist
<1>6. FilesExist'
  BY <1>4, <1>5 DEF FilesExist
<1> QED
  BY <1>1, <1>2, <1>6 DEF Inv

\* A process that gives up its file: it returns, raises or goes round again.
LEMMA Leaves ==
  ASSUME Inv, TypeOK', NEW p \in Procs, pc[p] \in Locked,
         NEW to \in {"down", "idle", "opening"},
         UNCHANGED <<files, pending, request, index, bounds>>, Unlock(p),
         handle' = [handle EXCEPT ![p] = None], pc' = [pc EXCEPT ![p] = to]
  PROVE  Frame(p) /\ Local(p)'
<1>1. /\ Local(p) /\ handle[p] \in Inodes /\ holder[handle[p]] = p /\ handle[p] # None
      /\ pc[p] # "down" /\ created \in Nat /\ TypeOK
  <2>1. Local(p) /\ TypeOK
    BY DEF Inv
  <2>2. handle[p] \in Inodes
    BY AtWork
  <2>3. created \in Nat
    BY CreatedIsNatural DEF Inv
  <2>4. handle[p] # None
    BY <2>2, StoreAssumption
  <2> QED
    BY <2>1, <2>2, <2>3, <2>4 DEF Local, LockKept, Locked
<1>2. holder' = [holder EXCEPT ![handle[p]] = None]
  BY <1>1 DEF Unlock, Put
<1>3. Frame(p)
  BY <1>1, <1>2 DEF Frame, TypeOK, files, index, bounds
<1>4. /\ pc'[p] = to /\ handle'[p] = None /\ UNCHANGED <<lines, use, created, inode, validEnd, records>>
  BY <1>1 DEF TypeOK, files, index, bounds
<1>5. HandleKept(p)' /\ LockKept(p)' /\ RequestKept(p)' /\ TailKept(p)' /\ SyncKept(p)'
  BY <1>4 DEF HandleKept, LockKept, RequestKept, TailKept, SyncKept, Locked, Synced
<1>6. Backed(p) => Backed(p)'
  BY <1>4 DEF Backed
<1>7. IndexKept(p)'
  BY <1>1, <1>4, <1>6 DEF Local, IndexKept
<1> QED
  BY <1>3, <1>5, <1>7 DEF Local

\* A call that returns gives up its file.
LEMMA Returns ==
  ASSUME Inv, TypeOK', NEW p \in Procs, pc[p] \in Locked, NEW a, Return(p, a),
         UNCHANGED <<files, request, pending, index, bounds>>
  PROVE  Frame(p) /\ Local(p)'
BY Leaves DEF Return, Put

\* Calls begin without a file.
LEMMA AppendKeeps ==
  ASSUME Inv, TypeOK', NEW p \in Procs, NEW r \in Records, AppendRecord(p, r)
  PROVE  Frame(p) /\ Local(p)'
<1>1. /\ TypeOK /\ Local(p) /\ pc[p] = "idle" /\ pc'[p] = "opening" /\ handle[p] = None
      /\ created \in Nat
  <2>1. TypeOK /\ Local(p)
    BY DEF Inv
  <2>2. pc[p] = "idle"
    BY DEF AppendRecord
  <2>3. handle[p] = None
    BY <2>1, <2>2 DEF Local, HandleKept, Locked
  <2>4. pc'[p] = "opening"
    BY StageIs DEF Inv, AppendRecord, Call, Put
  <2>5. created \in Nat
    BY CreatedIsNatural DEF Inv
  <2> QED
    BY <2>1, <2>2, <2>3, <2>4, <2>5
<1>2. /\ UNCHANGED <<path, created, lines, torn, use, handle, holder, pending>>
      /\ UNCHANGED <<inode, validEnd, records>>
  BY DEF AppendRecord, Call, files, index, bounds
<1>3. Frame(p)
  BY <1>1, <1>2 DEF Frame, TypeOK, AppendRecord, Call, Put
<1>4. HandleKept(p)' /\ LockKept(p)' /\ RequestKept(p)' /\ TailKept(p)' /\ SyncKept(p)'
  BY <1>1, <1>2 DEF HandleKept, LockKept, RequestKept, TailKept, SyncKept, Locked, Synced
<1>5. Backed(p) => Backed(p)'
  BY <1>2 DEF Backed
<1>6. IndexKept(p)'
  BY <1>1, <1>2, <1>5 DEF Local, IndexKept
<1> QED
  BY <1>3, <1>4, <1>6 DEF Local

LEMMA OpenKeeps ==
  ASSUME Inv, TypeOK', NEW p \in Procs, OpenHandle(p)
  PROVE  Frame(p) /\ Local(p)'
<1>1. /\ TypeOK /\ Local(p) /\ pc[p] = "opening" /\ pc'[p] = "opened" /\ handle'[p] = path'
      /\ created \in Nat
  <2>1. TypeOK /\ Local(p) /\ pc[p] = "opening"
    BY DEF Inv, OpenHandle
  <2>2. created \in Nat
    BY CreatedIsNatural DEF Inv
  <2> QED
    BY <2>1, <2>2 DEF TypeOK, OpenHandle, Put
<1>2. /\ UNCHANGED <<lines, torn, use, holder, pending, request>>
      /\ UNCHANGED <<inode, validEnd, records>>
      /\ created' \in Nat /\ created <= created'
  BY <1>1 DEF OpenHandle, index, bounds
<1>3. path' # None /\ path' <= created' /\ (path' = path \/ path' = created')
  <2>1. created + 1 <= MaxInodes => created + 1 \in Inodes
    BY <1>1 DEF Inodes
  <2>2. path # None => path <= created
    BY DEF Inv, FilesExist
  <2> QED
    BY <1>1, <1>2, <2>1, <2>2, StoreAssumption DEF OpenHandle
<1>4. Frame(p)
  BY <1>1, <1>2, <1>3 DEF Frame, TypeOK, OpenHandle, Put
<1>5. HandleKept(p)' /\ LockKept(p)' /\ RequestKept(p)' /\ TailKept(p)' /\ SyncKept(p)'
  BY <1>1, <1>2, <1>3 DEF HandleKept, LockKept, RequestKept, TailKept, SyncKept, Locked, Synced
<1>6. Backed(p) => Backed(p)'
  BY <1>2 DEF Backed
<1>7. IndexKept(p)'
  <2>1. inode[p] # None => inode[p] \in Nat
    BY <1>1 DEF TypeOK, Inodes
  <2> QED
    BY <1>1, <1>2, <1>6, <2>1 DEF Local, IndexKept
<1> QED
  BY <1>4, <1>5, <1>7 DEF Local

LEMMA LockKeeps ==
  ASSUME Inv, TypeOK', NEW p \in Procs, Lock(p)
  PROVE  Frame(p) /\ Local(p)'
<1>1. /\ TypeOK /\ Local(p) /\ pc[p] = "opened" /\ pc'[p] = "locked" /\ handle[p] \in Inodes
      /\ created \in Nat
  <2>1. TypeOK /\ Local(p) /\ pc[p] = "opened"
    BY DEF Inv, Lock
  <2>2. pc'[p] = "locked"
    BY StageIs DEF Inv, Lock, Put
  <2>3. handle[p] \in Inodes
    BY <2>1, AtWork
  <2>4. created \in Nat
    BY CreatedIsNatural DEF Inv
  <2> QED
    BY <2>1, <2>2, <2>3, <2>4
<1>2. /\ UNCHANGED <<path, created, lines, torn, use, handle, pending, request>>
      /\ UNCHANGED <<inode, validEnd, records>>
  BY DEF Lock, files, index, bounds
<1>3. holder[handle[p]] = None /\ holder' = [holder EXCEPT ![handle[p]] = p]
  BY DEF Lock, LockFree, Put
<1>4. Frame(p)
  BY <1>1, <1>2, <1>3 DEF Frame, TypeOK, Lock, Put
<1>5. HandleKept(p)' /\ LockKept(p)' /\ RequestKept(p)' /\ TailKept(p)' /\ SyncKept(p)'
  BY <1>1, <1>2, <1>3
  DEF Local, TypeOK, HandleKept, LockKept, RequestKept, TailKept, SyncKept, Locked, Synced
<1>6. Backed(p) => Backed(p)'
  BY <1>2 DEF Backed
<1>7. IndexKept(p)'
  BY <1>1, <1>2, <1>6 DEF Local, IndexKept
<1> QED
  BY <1>4, <1>5, <1>7 DEF Local

LEMMA FindReplacedKeeps ==
  ASSUME Inv, TypeOK', NEW p \in Procs, FindReplaced(p)
  PROVE  Frame(p) /\ Local(p)'
<1>1. pc[p] \in Locked
  BY DEF FindReplaced, Locked
<1>2. CASE MayRetry(p)
  <2>1. /\ Unlock(p) /\ handle' = [handle EXCEPT ![p] = None]
        /\ pc' = [pc EXCEPT ![p] = "opening"]
        /\ UNCHANGED <<files, pending, request, index, bounds>>
    BY <1>2 DEF FindReplaced, Retry, Put
  <2> QED
    BY <1>1, <2>1, Leaves
<1>3. CASE ~MayRetry(p)
  <2>1. /\ Return(p, [verdict |-> "changed"])
        /\ UNCHANGED <<files, request, pending, index, bounds>>
    BY <1>3 DEF FindReplaced, Retry
  <2> QED
    BY <1>1, <2>1, Returns
<1> QED
  BY <1>2, <1>3

\* What _synchronize makes of the file: the index of all of it.
LEMMA SynchronizeReads ==
  ASSUME Inv, NEW p \in Procs, Synchronize(p)
  PROVE  LET ls == lines[handle[p]] IN
         /\ handle[p] \in Inodes
         /\ Clean(ls)
         /\ Absorb(p) = Indexed(ls)
<1> DEFINE ls == lines[handle[p]]
<1>1. TypeOK /\ Local(p) /\ pc[p] = "locked" /\ handle[p] \in Inodes /\ handle[p] # None
  <2>1. TypeOK /\ Local(p) /\ pc[p] = "locked"
    BY DEF Inv, Synchronize
  <2>2. handle[p] \in Inodes
    BY <2>1, AtWork DEF Locked
  <2> QED
    BY <2>1, <2>2, StoreAssumption
<1>2. ls \in Seq(Lines) /\ Len(ls) \in Nat /\ validEnd[p] \in Nat
  BY <1>1, LenProperties DEF TypeOK
<1>3. Scans(Unread(p), Known(p))
  BY DEF Synchronize
<1>4. CASE IndexIsStale(p)
  <2>1. Unread(p) = ls /\ Known(p) = NoRecords
    BY <1>4 DEF Unread, Known
  <2>2. Clean(ls)
    BY <1>2, <1>3, <2>1, ScanOfAll
  <2>3. Absorb(p) = [c \in CaseIds |-> Indexed(ls)[c]]
    BY <2>1 DEF Absorb, NoRecords
  <2>4. Absorb(p) = Indexed(ls)
    BY <2>2, <2>3, IndexedClean
  <2> QED
    BY <1>1, <2>2, <2>4
<1>5. CASE ~IndexIsStale(p)
  <2>1. inode[p] = handle[p] /\ ~(Len(ls) < validEnd[p])
    BY <1>5 DEF IndexIsStale
  <2>2. Backed(p)
    BY <1>1, <2>1 DEF Local, IndexKept
  <2> DEFINE n == validEnd[p]
  <2>3. /\ n \in 0..Len(ls)
        /\ Clean(SubSeq(ls, 1, n)) /\ records[p] = Indexed(SubSeq(ls, 1, n))
    BY <1>2, <2>1, <2>2 DEF Backed
  <2>4. /\ Unread(p) = SubSeq(ls, n + 1, Len(ls))
        /\ Known(p) = Indexed(SubSeq(ls, 1, n))
    BY <1>5, <2>3 DEF Unread, Known
  <2>5. Absorb(p) = [c \in CaseIds |-> IF Indexed(SubSeq(ls, 1, n))[c] # None
                                       THEN Indexed(SubSeq(ls, 1, n))[c]
                                       ELSE Indexed(SubSeq(ls, n + 1, Len(ls)))[c]]
    BY <2>4 DEF Absorb
  <2> HIDE DEF ls, n
  <2>6. Clean(ls)
    BY <1>2, <1>3, <2>3, <2>4, ScanOfRest
  <2>7. Absorb(p) = Indexed(ls)
    BY <1>2, <2>3, <2>5, <2>6, ScanOfRest
  <2> QED
    BY <1>1, <2>6, <2>7 DEF ls
<1> QED
  BY <1>4, <1>5

LEMMA SynchronizeKeeps ==
  ASSUME Inv, TypeOK', NEW p \in Procs, Synchronize(p)
  PROVE  Frame(p) /\ Local(p)'
<1> DEFINE ls == lines[handle[p]]
<1>1. /\ TypeOK /\ Local(p) /\ pc[p] = "locked" /\ pc'[p] = "synced"
      /\ handle[p] \in Inodes /\ created \in Nat
  <2>1. TypeOK /\ Local(p) /\ pc[p] = "locked"
    BY DEF Inv, Synchronize
  <2>2. created \in Nat
    BY CreatedIsNatural DEF Inv
  <2> QED
    BY <2>1, <2>2, SynchronizeReads DEF TypeOK, Synchronize, Put
<1>2. /\ UNCHANGED <<path, created, use, handle, holder, pending, request>>
      /\ lines' = lines
      /\ inode'[p] = handle[p] /\ validEnd'[p] = Len(ls) /\ records'[p] = Indexed(ls)
      /\ torn' = [torn EXCEPT ![handle[p]] = None]
  BY <1>1, SynchronizeReads DEF Synchronize, Repaired, TypeOK, Put, bounds
<1>3. Frame(p)
  BY <1>1, <1>2 DEF Frame, TypeOK, Synchronize, Put, Locked
<1>4. SubSeq(ls, 1, Len(ls)) = ls /\ Len(ls) \in Nat
  BY <1>1, SubSeqFull, LenProperties DEF TypeOK
<1>5. Backed(p)'
  <2> HIDE DEF ls
  <2>1. Clean(ls) /\ lines'[inode'[p]] = ls /\ validEnd'[p] = Len(ls) /\ records'[p] = Indexed(ls)
    BY <1>2, SynchronizeReads DEF ls
  <2>2. SubSeq(lines'[inode'[p]], 1, validEnd'[p]) = ls
    BY <1>4, <2>1
  <2>3. validEnd'[p] <= Len(lines'[inode'[p]])
    BY <1>4, <2>1
  <2> QED
    BY <2>1, <2>2, <2>3 DEF Backed
<1>6. HandleKept(p)' /\ LockKept(p)' /\ RequestKept(p)' /\ TailKept(p)'
  BY <1>1, <1>2 DEF Local, TypeOK, HandleKept, LockKept, RequestKept, TailKept, Locked
<1>7. SyncKept(p)' /\ IndexKept(p)'
  BY <1>1, <1>2, <1>5, StoreAssumption DEF Local, HandleKept, SyncKept, IndexKept, Locked
<1> QED
  BY <1>3, <1>6, <1>7 DEF Local

LEMMA GoWriteKeeps ==
  ASSUME Inv, TypeOK', NEW p \in Procs, GoWrite(p)
  PROVE  Frame(p) /\ Local(p)'
<1>1. /\ TypeOK /\ Local(p) /\ pc[p] = "synced" /\ created \in Nat
  <2>1. created \in Nat
    BY CreatedIsNatural DEF Inv
  <2> QED
    BY <2>1 DEF Inv, GoWrite
<1>2. /\ UNCHANGED <<path, created, lines, torn, use, handle, holder, pending, request>>
      /\ UNCHANGED <<inode, validEnd, records>>
      /\ pc' = [pc EXCEPT ![p] = "writing"] /\ pc'[p] = "writing"
      /\ request[p] # None /\ records[p][request[p].case] = None
  BY <1>1 DEF GoWrite, Existing, TypeOK, Put, files, index, bounds
<1>3. Frame(p)
  BY <1>1, <1>2 DEF Frame, TypeOK
<1>4. Backed(p) => Backed(p)'
  BY <1>2 DEF Backed
<1>5. HandleKept(p)' /\ LockKept(p)' /\ RequestKept(p)' /\ TailKept(p)'
  BY <1>1, <1>2 DEF Local, HandleKept, LockKept, RequestKept, TailKept, Locked
<1>6. SyncKept(p)' /\ IndexKept(p)'
  BY <1>1, <1>2, <1>4 DEF Local, SyncKept, IndexKept, Synced
<1> QED
  BY <1>3, <1>5, <1>6 DEF Local

LEMMA StartWriteKeeps ==
  ASSUME Inv, TypeOK', NEW p \in Procs, StartWrite(p)
  PROVE  Frame(p) /\ Local(p)'
<1>1. /\ TypeOK /\ Local(p) /\ pc[p] = "writing" /\ created \in Nat
      /\ handle[p] \in Inodes /\ torn[handle[p]] = None
  <2>1. created \in Nat
    BY CreatedIsNatural DEF Inv
  <2>2. pc[p] = "writing" /\ Local(p) /\ TypeOK
    BY DEF Inv, StartWrite
  <2> QED
    BY <2>1, <2>2, AtWork DEF Locked, Local, TailKept
<1>2. /\ UNCHANGED <<path, created, lines, use, handle, holder, pending, request>>
      /\ UNCHANGED <<inode, validEnd, records>>
      /\ pc' = [pc EXCEPT ![p] = "flushing"] /\ pc'[p] = "flushing"
      /\ torn' = [torn EXCEPT ![handle[p]] = p] /\ torn'[handle[p]] = p
  BY <1>1 DEF StartWrite, TypeOK, Put, index, bounds
<1>3. Frame(p)
  BY <1>1, <1>2 DEF Frame, TypeOK, Locked
<1>4. Backed(p) => Backed(p)'
  BY <1>2 DEF Backed
<1>5. HandleKept(p)' /\ LockKept(p)' /\ RequestKept(p)' /\ TailKept(p)'
  BY <1>1, <1>2 DEF Local, HandleKept, LockKept, RequestKept, TailKept, Locked
<1>6. SyncKept(p)' /\ IndexKept(p)'
  BY <1>1, <1>2, <1>4 DEF Local, SyncKept, IndexKept, Synced
<1> QED
  BY <1>3, <1>5, <1>6 DEF Local

\* The line p finishes, in time or when it closes the file, is the record p was
\* asked to append, and it is new.
LEMMA LineIsRequest ==
  ASSUME Inv, NEW p \in Procs, NEW whole \in BOOLEAN, CompleteLine(p, whole),
         \/ pc[p] = "flushing" /\ ~whole
         \/ pc[p] = "closing" /\ whole = (pending[p] = "line")
  PROVE  /\ request[p] \in Records
         /\ lines'[handle[p]] = Append(lines[handle[p]], request[p])
         /\ Indexed(lines[handle[p]])[request[p].case] = None
         /\ Clean(lines[handle[p]])
         /\ \A i \in Inodes \ {handle[p]} : lines'[i] = lines[i]
<1>1. /\ TypeOK /\ Local(p) /\ handle[p] \in Inodes
      /\ Clean(lines[handle[p]]) /\ records[p] = Indexed(lines[handle[p]])
  <2>1. TypeOK /\ Local(p)
    BY DEF Inv
  <2> QED
    BY <2>1, AtWork DEF Locked, Synced
<1>2. request[p] \in Records /\ records[p][request[p].case] = None
  BY <1>1 DEF TypeOK, Local, RequestKept
<1>3. torn[handle[p]] = IF whole THEN None ELSE p
  BY <1>1 DEF Local, TailKept
<1>4. /\ lines'[handle[p]] = Append(lines[handle[p]], request[p])
      /\ \A i \in Inodes \ {handle[p]} : lines'[i] = lines[i]
  BY <1>1, <1>3 DEF CompleteLine, Put, TypeOK
<1> QED
  BY <1>1, <1>2, <1>4

LEMMA FinishWriteKeeps ==
  ASSUME Inv, TypeOK', NEW p \in Procs, FinishWrite(p)
  PROVE  Frame(p) /\ Local(p)'
<1> DEFINE old == lines[handle[p]]
           new == Append(old, request[p])
<1>1. /\ TypeOK /\ Local(p) /\ pc[p] = "flushing" /\ created \in Nat
      /\ handle[p] \in Inodes /\ handle[p] # None
      /\ records[p] = Indexed(old)
      /\ CompleteLine(p, FALSE)
  <2>1. created \in Nat
    BY CreatedIsNatural DEF Inv
  <2>2. pc[p] = "flushing" /\ Local(p) /\ TypeOK /\ CompleteLine(p, FALSE)
    BY DEF Inv, FinishWrite
  <2> QED
    BY <2>1, <2>2, AtWork, StoreAssumption DEF Locked, Synced
<1>2. /\ request[p] \in Records /\ lines'[handle[p]] = new
      /\ Indexed(old)[request[p].case] = None /\ Clean(old)
  BY <1>1, LineIsRequest
<1>3. /\ UNCHANGED <<path, created, use, handle, holder, pending, request>>
      /\ pc' = [pc EXCEPT ![p] = "written"] /\ pc'[p] = "written"
      /\ inode'[p] = handle[p] /\ validEnd'[p] = Len(old) + 1
      /\ records' = [records EXCEPT ![p][request[p].case] = request[p]]
  BY <1>1 DEF FinishWrite, EndAfterWrite, TypeOK, Put, bounds
<1>4. records'[p] = [Indexed(old) EXCEPT ![request[p].case] = request[p]]
  BY <1>1, <1>3 DEF TypeOK
<1>5. Clean(new) /\ records'[p] = Indexed(new)
  <2> HIDE DEF old
  <2> QED
    BY <1>2, <1>4, IndexedAppend
<1>6. /\ \A i \in Inodes \ {handle[p]} : lines'[i] = lines[i] /\ torn'[i] = torn[i]
      /\ \E x \in Lines : lines'[handle[p]] = Append(lines[handle[p]], x)
  BY <1>1, <1>2, CompleteLineType, StoreAssumption
<1>7. Frame(p)
  <2>1. \A q \in Procs \ {p} :
         /\ pc'[q] = pc[q] /\ request'[q] = request[q] /\ handle'[q] = handle[q]
         /\ pending'[q] = pending[q] /\ records'[q] = records[q]
         /\ validEnd'[q] = validEnd[q] /\ inode'[q] = inode[q]
    BY <1>1, <1>3 DEF FinishWrite, TypeOK, Put
  <2> QED
    BY <1>1, <1>3, <1>6, <2>1 DEF Frame, Locked
<1>8. /\ new \in Seq(Records) /\ Len(new) = Len(old) + 1 /\ Len(old) \in Nat
      /\ SubSeq(new, 1, Len(old) + 1) = new
  <2> HIDE DEF old
  <2>1. new \in Seq(Records) /\ Len(new) = Len(old) + 1 /\ Len(old) \in Nat
    BY <1>2, AppendProperties, LenProperties DEF Clean
  <2> HIDE DEF new
  <2> QED
    BY <2>1, SubSeqFull
<1>9. Backed(p)'
  <2> HIDE DEF old, new
  <2>1. lines'[inode'[p]] = new /\ validEnd'[p] = Len(new)
    BY <1>2, <1>3, <1>8
  <2>2. SubSeq(lines'[inode'[p]], 1, validEnd'[p]) = new
    BY <1>8, <2>1
  <2>3. validEnd'[p] <= Len(lines'[inode'[p]])
    BY <1>8, <2>1
  <2> QED
    BY <1>5, <2>2, <2>3 DEF Backed
<1>10. request[p].case \in CaseIds /\ records'[p][request[p].case] = request[p]
  <2>1. request[p].case \in CaseIds
    BY <1>2 DEF CaseIds
  <2>2. records[p] \in [CaseIds -> Records \cup {None}]
    BY <1>1 DEF TypeOK
  <2> QED
    BY <1>1, <1>4, <2>1, <2>2
<1>11. HandleKept(p)' /\ LockKept(p)' /\ RequestKept(p)' /\ TailKept(p)'
  BY <1>1, <1>2, <1>3, <1>10, StoreAssumption
  DEF Local, HandleKept, LockKept, RequestKept, TailKept, Locked
<1>12. SyncKept(p)' /\ IndexKept(p)'
  BY <1>1, <1>2, <1>3, <1>8, <1>9 DEF Local, HandleKept, SyncKept, IndexKept, Synced
<1> QED
  BY <1>7, <1>11, <1>12 DEF Local

\* A write that fails leaves p alone with what its buffer holds.
LEMMA FailWriteKeeps ==
  ASSUME Inv, Benign, TypeOK', NEW p \in Procs, FailWrite(p)
  PROVE  Frame(p) /\ Local(p)'
<1>1. /\ TypeOK /\ Local(p) /\ pc[p] \in {"writing", "flushing"} /\ created \in Nat
      /\ handle[p] \in Inodes /\ holder[handle[p]] = p
  <2>1. created \in Nat
    BY CreatedIsNatural DEF Inv
  <2>2. pc[p] \in {"writing", "flushing"} /\ Local(p) /\ TypeOK
    BY DEF Inv, FailWrite
  <2> QED
    BY <2>1, <2>2, AtWork DEF Locked, Local, LockKept
<1>2. ~use.shared /\ use.faults # 0
  <2>1. use.faults # 0
    BY <1>1 DEF FailWrite, TypeOK
  <2> QED
    BY <1>1, <2>1 DEF Benign, TypeOK
<1>3. /\ UNCHANGED <<path, created, lines, torn, use, handle, request>>
      /\ UNCHANGED <<inode, validEnd, records>>
      /\ pc' = [pc EXCEPT ![p] = "closing"] /\ pc'[p] = "closing"
      /\ pending' = [pending EXCEPT ![p] = IF pc[p] = "writing" THEN "line" ELSE "rest"]
      /\ pending'[p] = IF pc[p] = "writing" THEN "line" ELSE "rest"
      /\ holder' = [holder EXCEPT ![handle[p]] = None]
  BY <1>1, StoreAssumption DEF FailWrite, TypeOK, Unlock, Put, files, index
<1>4. Frame(p)
  BY <1>1, <1>3 DEF Frame, TypeOK
<1>5. Backed(p) => Backed(p)'
  BY <1>3 DEF Backed
<1>6. HandleKept(p)' /\ LockKept(p)' /\ RequestKept(p)' /\ TailKept(p)'
  BY <1>1, <1>2, <1>3 DEF Local, HandleKept, LockKept, RequestKept, TailKept, Locked
<1>7. SyncKept(p)' /\ IndexKept(p)'
  BY <1>1, <1>3, <1>5 DEF Local, SyncKept, IndexKept, Synced
<1> QED
  BY <1>4, <1>6, <1>7 DEF Local

\* A line that comes without the index knowing of it leaves the index backed.
LEMMA GrownKeeps ==
  ASSUME Inv, TypeOK', NEW p \in Procs, pc[p] \in {"flushing", "closing"}, pc'[p] = "idle",
         handle'[p] = None, UNCHANGED <<created, use, inode, validEnd, records>>,
         \/ lines'[handle[p]] = lines[handle[p]]
         \/ \E x \in Lines : lines'[handle[p]] = Append(lines[handle[p]], x)
  PROVE  Local(p)'
<1>1. Local(p) /\ inode[p] = handle[p] /\ Backed(p) /\ handle[p] \in Inodes /\ handle[p] # None
  <2>1. Local(p) /\ handle[p] \in Inodes
    BY AtWork DEF Inv, Locked
  <2> QED
    BY <2>1, StoreAssumption DEF Local, SyncKept, Synced
<1>2. Backed(p)'
  BY <1>1, BackedGrows
<1>3. HandleKept(p)' /\ LockKept(p)' /\ RequestKept(p)' /\ TailKept(p)' /\ SyncKept(p)'
  BY DEF HandleKept, LockKept, RequestKept, TailKept, SyncKept, Locked, Synced
<1>4. IndexKept(p)'
  BY <1>1, <1>2 DEF Local, HandleKept, IndexKept
<1> QED
  BY <1>3, <1>4 DEF Local

LEMMA FailSyncKeeps ==
  ASSUME Inv, TypeOK', NEW p \in Procs, FailSync(p)
  PROVE  Frame(p) /\ Local(p)'
<1>1. /\ TypeOK /\ Local(p) /\ pc[p] = "flushing" /\ created \in Nat
      /\ handle[p] \in Inodes /\ handle[p] # None /\ holder[handle[p]] = p
      /\ request[p] # None
      /\ CompleteLine(p, FALSE) /\ Return(p, [verdict |-> "error"])
  <2>1. created \in Nat
    BY CreatedIsNatural DEF Inv
  <2>2. /\ pc[p] = "flushing" /\ Local(p) /\ TypeOK
        /\ CompleteLine(p, FALSE) /\ Return(p, [verdict |-> "error"])
    BY DEF Inv, FailSync
  <2> QED
    BY <2>1, <2>2, AtWork, StoreAssumption DEF Locked, Local, LockKept, RequestKept
<1>2. /\ UNCHANGED <<path, created, use, request, pending, inode, validEnd, records>>
      /\ pc' = [pc EXCEPT ![p] = "idle"] /\ pc'[p] = "idle"
      /\ handle' = [handle EXCEPT ![p] = None] /\ handle'[p] = None
      /\ holder' = [holder EXCEPT ![handle[p]] = None]
  BY <1>1 DEF FailSync, Return, Unlock, Put, TypeOK, index
<1>3. /\ \A i \in Inodes \ {handle[p]} : lines'[i] = lines[i] /\ torn'[i] = torn[i]
      /\ \E x \in Lines : lines'[handle[p]] = Append(lines[handle[p]], x)
  BY <1>1, CompleteLineType
<1>4. Frame(p)
  BY <1>1, <1>2, <1>3 DEF Frame, TypeOK, Locked
<1> QED
  BY <1>1, <1>2, <1>3, <1>4, GrownKeeps

LEMMA CloseKeeps ==
  ASSUME Inv, TypeOK', NEW p \in Procs, Close(p)
  PROVE  Frame(p) /\ Local(p)'
<1>1. /\ TypeOK /\ Local(p) /\ pc[p] = "closing" /\ created \in Nat
      /\ handle[p] \in Inodes /\ request[p] # None
      /\ CompleteLine(p, pending[p] = "line") \/ UNCHANGED <<lines, torn>>
  <2>1. created \in Nat
    BY CreatedIsNatural DEF Inv
  <2>2. /\ pc[p] = "closing" /\ Local(p) /\ TypeOK
        /\ CompleteLine(p, pending[p] = "line") \/ UNCHANGED <<lines, torn>>
    BY DEF Inv, Close
  <2> QED
    BY <2>1, <2>2, AtWork DEF Local, RequestKept
<1>2. /\ UNCHANGED <<path, created, use, request, holder, inode, validEnd, records>>
      /\ pc' = [pc EXCEPT ![p] = "idle"] /\ pc'[p] = "idle"
      /\ handle' = [handle EXCEPT ![p] = None] /\ handle'[p] = None
      /\ pending' = [pending EXCEPT ![p] = "nothing"]
  BY <1>1 DEF Close, Put, TypeOK, index, bounds
<1>3. /\ \A i \in Inodes \ {handle[p]} : lines'[i] = lines[i] /\ torn'[i] = torn[i]
      /\ \/ lines'[handle[p]] = lines[handle[p]]
         \/ \E x \in Lines : lines'[handle[p]] = Append(lines[handle[p]], x)
  <2>1. CASE CompleteLine(p, pending[p] = "line")
    <3>1. (pending[p] = "line") \in BOOLEAN
      OBVIOUS
    <3> QED
      BY <1>1, <2>1, <3>1, CompleteLineType
  <2>2. CASE UNCHANGED <<lines, torn>>
    BY <2>2
  <2> QED
    BY <1>1, <2>1, <2>2
<1>4. Frame(p)
  BY <1>1, <1>2, <1>3 DEF Frame, TypeOK
<1> QED
  BY <1>1, <1>2, <1>3, <1>4, GrownKeeps

LEMMA CrashKeeps ==
  ASSUME Inv, TypeOK', NEW p \in Procs, Crash(p)
  PROVE  Frame(p) /\ Local(p)'
<1>1. /\ TypeOK /\ pc[p] # "down" /\ created \in Nat
  <2>1. created \in Nat
    BY CreatedIsNatural DEF Inv
  <2> QED
    BY <2>1 DEF Inv, Crash
<1>2. /\ UNCHANGED <<path, created, lines, torn, use>>
      /\ pc'[p] = "down" /\ handle'[p] = None
  BY <1>1 DEF Crash, Put, TypeOK, files
<1>3. \A i \in Inodes : holder[i] # p => holder'[i] = holder[i]
  BY DEF Crash
<1>4. Frame(p)
  BY <1>1, <1>2, <1>3 DEF Frame, Crash, TypeOK, Put
<1>5. Local(p)'
  BY <1>2 DEF Local, HandleKept, LockKept, RequestKept, TailKept, IndexKept, SyncKept,
              Locked, Synced
<1> QED
  BY <1>4, <1>5

\* A new store object knows no file yet.
LEMMA ConstructKeeps ==
  ASSUME Inv, Benign, TypeOK', NEW p \in Procs, Construct(p)
  PROVE  Inv'
<1>1. /\ TypeOK /\ Local(p) /\ pc[p] = "down" /\ pc'[p] = "opening" /\ handle[p] = None
      /\ created \in Nat
  <2>1. TypeOK /\ Local(p)
    BY DEF Inv
  <2>2. pc[p] = "down"
    BY DEF Construct
  <2>3. handle[p] = None
    BY <2>1, <2>2 DEF Local, HandleKept, Locked
  <2>4. created \in Nat
    BY CreatedIsNatural DEF Inv
  <2> QED
    BY <2>1, <2>2, <2>3, <2>4 DEF TypeOK, Construct, Call, Put
<1>2. UNCHANGED <<path, created, lines, torn, use, handle, holder, pending>>
  BY DEF Construct, Call, files, bounds
<1>3. inode'[p] = None
  BY <1>1 DEF Construct, Put, TypeOK
<1>4. Frame(p)
  BY <1>1, <1>2 DEF Frame, TypeOK, Construct, Call, Put
<1>5. Local(p)'
  BY <1>1, <1>2, <1>3 DEF Local, HandleKept, LockKept, RequestKept, TailKept, IndexKept,
                          SyncKept, Locked, Synced
<1>6. \A q \in Procs : Local(q)'
  <2> SUFFICES ASSUME NEW q \in Procs PROVE Local(q)'
    OBVIOUS
  <2>1. CASE q = p
    BY <1>5, <2>1
  <2>2. CASE q # p
    BY <1>2, <1>4, <2>2, FrameKeeps
  <2> QED
    BY <2>1, <2>2
<1>7. Alone'
  <2>1. use.shared \/ \A q \in Procs : pc[q] = "down"
    BY DEF Construct
  <2>2. \A q \in Procs \ {p} : pc'[q] = pc[q]
    BY <1>4 DEF Frame
  <2> QED
    BY <1>2, <2>1, <2>2 DEF Inv, Alone
<1>8. FilesExist'
  BY <1>2 DEF Inv, FilesExist
<1> QED
  BY <1>6, <1>7, <1>8 DEF Inv

\* A file that a user puts in place is one that nobody has open.
LEMMA ReplaceKeeps ==
  ASSUME Inv, TypeOK', Replace
  PROVE  Inv'
<1>1. TypeOK /\ created \in Nat /\ Inodes \subseteq Nat /\ None \notin Inodes
  <2>1. created \in Nat
    BY CreatedIsNatural DEF Inv
  <2> QED
    BY <2>1, StoreAssumption DEF Inv, Inodes
<1>2. /\ UNCHANGED <<torn, holder, pc, request, handle, pending, records, validEnd, inode, use>>
      /\ created' = created + 1 /\ path' = created + 1
      /\ \A i \in Inodes : i # created + 1 => lines'[i] = lines[i]
  BY <1>1 DEF Replace, TypeOK, others, index, bounds
<1>3. ASSUME NEW i \in Inodes, i <= created PROVE lines'[i] = lines[i]
  BY <1>1, <1>2, <1>3
<1>4. ASSUME NEW q \in Procs PROVE Local(q)'
  <2>1. Local(q) /\ handle[q] \in Inodes \cup {None} /\ inode[q] \in Inodes \cup {None}
    BY <1>1 DEF Inv, TypeOK
  <2>2. HandleKept(q)' /\ LockKept(q)' /\ RequestKept(q)' /\ TailKept(q)'
    <3>1. handle[q] # None => handle[q] \in Nat
      BY <1>1, <2>1
    <3>2. HandleKept(q)'
      BY <1>1, <1>2, <2>1, <3>1 DEF Local, HandleKept
    <3> QED
      BY <1>2, <2>1, <3>2 DEF Local, LockKept, RequestKept, TailKept
  <2>3. inode[q] # None /\ inode[q] <= created => lines'[inode[q]] = lines[inode[q]]
    BY <1>3, <2>1
  <2>4. inode[q] # None /\ inode[q] <= created => (Backed(q) => Backed(q)')
    BY <1>2, <2>3 DEF Backed
  <2>5. IndexKept(q)'
    <3>0. inode[q] # None => inode[q] \in Nat
      BY <1>1, <2>1
    <3>1. inode[q] # None /\ inode[q] <= created => inode[q] <= created + 1
      BY <1>1, <3>0
    <3> QED
      BY <1>2, <2>1, <2>3, <2>4, <3>1 DEF Local, IndexKept
  <2>6. SyncKept(q)'
    <3> SUFFICES ASSUME pc[q] \in Synced
                 PROVE  /\ inode[q] = handle[q] /\ validEnd[q] = Len(lines'[handle[q]])
                        /\ Backed(q)'
      BY <1>2 DEF SyncKept
    <3>1. inode[q] = handle[q] /\ validEnd[q] = Len(lines[handle[q]]) /\ Backed(q)
      BY <2>1 DEF Local, SyncKept
    <3>2. handle[q] # None /\ handle[q] <= created
      BY <2>1 DEF Local, HandleKept, Synced, Locked
    <3> QED
      BY <2>3, <2>4, <3>1, <3>2
  <2> QED
    BY <2>2, <2>5, <2>6 DEF Local
<1>5. Alone'
  BY <1>2 DEF Inv, Alone
<1>6. FilesExist'
  BY <1>1, <1>2 DEF Inv, FilesExist
<1> QED
  BY <1>4, <1>5, <1>6 DEF Inv

\* A file is cut back only under a process that is alone, and not at work.
LEMMA TruncateKeeps ==
  ASSUME Inv, TypeOK', Truncate
  PROVE  Inv'
<1>1. /\ TypeOK /\ path \in Inodes /\ None \notin Inodes
      /\ lines[path] \in Seq(Lines) /\ Len(lines[path]) \in Nat
  <2>1. path \in Inodes
    BY DEF Inv, TypeOK, Truncate
  <2>2. lines[path] \in Seq(Lines)
    BY <2>1 DEF Inv, TypeOK
  <2> QED
    BY <2>1, <2>2, LenProperties, StoreAssumption DEF Inv
<1>2. /\ UNCHANGED <<path, created, holder, pc, request, handle, pending, use>>
      /\ UNCHANGED <<records, validEnd, inode>>
      /\ use.truncated /\ \A q \in Procs : handle[q] # path
      /\ \A i \in Inodes \ {path} : lines'[i] = lines[i] /\ torn'[i] = torn[i]
  BY <1>1 DEF Truncate, TypeOK, others, index, bounds
<1>3. PICK n \in 0..Len(lines[path]) : lines'[path] = SubSeq(lines[path], 1, n)
  BY <1>1 DEF Truncate, TypeOK
<1>4. /\ lines'[path] \in Seq(Lines) /\ Len(lines'[path]) = n /\ n <= Len(lines[path]) /\ n \in Nat
      /\ \A m \in 0..n : SubSeq(lines'[path], 1, m) = SubSeq(lines[path], 1, m)
  BY <1>1, <1>3, PrefixOfPrefix
<1>5. ASSUME NEW q \in Procs PROVE Local(q)'
  <2>1. Local(q) /\ handle[q] \in Inodes \cup {None} /\ inode[q] \in Inodes \cup {None}
        /\ validEnd[q] \in Nat
    BY <1>1 DEF Inv, TypeOK
  <2>2. handle[q] # None => lines'[handle[q]] = lines[handle[q]] /\ torn'[handle[q]] = torn[handle[q]]
    BY <1>2, <2>1
  <2>3. HandleKept(q)' /\ LockKept(q)' /\ RequestKept(q)'
    BY <1>2, <2>1 DEF Local, HandleKept, LockKept, RequestKept
  <2>4. TailKept(q)'
    <3>1. pc[q] \in {"synced", "writing", "flushing", "closing"} => handle[q] # None
      BY <2>1 DEF Local, HandleKept, Locked
    <3> QED
      BY <1>2, <2>1, <2>2, <3>1 DEF Local, TailKept
  <2>5. ASSUME inode[q] # None, inode[q] # path, Backed(q) PROVE Backed(q)'
    <3>1. lines'[inode[q]] = lines[inode[q]]
      BY <1>2, <2>1, <2>5
    <3> QED
      BY <1>2, <2>5, <3>1 DEF Backed
  <2>6. ASSUME inode[q] = path, Backed(q), ~(Len(lines'[path]) < validEnd[q]) PROVE Backed(q)'
    <3>1. validEnd[q] \in 0..n /\ validEnd[q] <= Len(lines'[path])
      BY <1>4, <2>1, <2>6
    <3>2. SubSeq(lines'[path], 1, validEnd[q]) = SubSeq(lines[path], 1, validEnd[q])
      BY <1>4, <3>1
    <3> QED
      BY <1>2, <2>6, <3>1, <3>2 DEF Backed
  <2>7. IndexKept(q)'
    <3> SUFFICES ASSUME pc[q] # "down", inode[q] # None
                 PROVE  /\ inode[q] <= created
                        /\ \/ Backed(q)'
                           \/ use.truncated /\ Len(lines'[inode[q]]) < validEnd[q]
      BY <1>2 DEF IndexKept
    <3>1. /\ inode[q] <= created
          /\ Backed(q) \/ Len(lines[inode[q]]) < validEnd[q]
      BY <2>1 DEF Local, IndexKept
    <3>2. CASE inode[q] # path
      <4>1. lines'[inode[q]] = lines[inode[q]]
        BY <1>2, <2>1, <3>2
      <4> QED
        BY <1>2, <2>5, <3>1, <3>2, <4>1
    <3>3. CASE inode[q] = path
      <4>1. CASE Backed(q)
        BY <1>2, <2>6, <3>1, <3>3, <4>1
      <4>2. CASE Len(lines[path]) < validEnd[q]
        BY <1>1, <1>2, <1>4, <2>1, <3>1, <3>3, <4>2
      <4> QED
        BY <3>1, <3>3, <4>1, <4>2
    <3> QED
      BY <3>2, <3>3
  <2>8. SyncKept(q)'
    <3> SUFFICES ASSUME pc[q] \in Synced
                 PROVE  /\ inode[q] = handle[q] /\ validEnd[q] = Len(lines'[handle[q]])
                        /\ Backed(q)'
      BY <1>2 DEF SyncKept
    <3>1. inode[q] = handle[q] /\ validEnd[q] = Len(lines[handle[q]]) /\ Backed(q)
      BY <2>1 DEF Local, SyncKept
    <3>2. handle[q] # None
      BY <2>1 DEF Local, HandleKept, Synced, Locked
    <3> QED
      BY <1>2, <2>2, <2>5, <3>1, <3>2
  <2> QED
    BY <2>3, <2>4, <2>7, <2>8 DEF Local
<1>6. Alone'
  BY <1>2 DEF Inv, Alone
<1>7. FilesExist'
  <2>1. path <= created
    BY <1>1 DEF Inv, FilesExist
  <2>2. \A i \in Inodes : i > created => i # path
    BY <1>1, <2>1, StoreAssumption DEF TypeOK, Inodes
  <2> QED
    BY <1>2, <2>2 DEF Inv, FilesExist
<1> QED
  BY <1>5, <1>6, <1>7 DEF Inv

LEMMA InvStep == Benign /\ Inv /\ [Next]_vars => Inv'
<1> SUFFICES ASSUME Benign, Inv, [Next]_vars PROVE Inv'
  OBVIOUS
<1>1. TypeOK'
  BY TypeStep
<1>2. ASSUME NEW p \in Procs, Run(p) PROVE Inv'
  <2>1. pc[p] # "down"
    BY <1>2 DEF Run, OpenHandle, Lock, FindReplaced, Synchronize, RefuseCorrupt, Opened,
                FindExisting, GoWrite, StartWrite, FinishWrite, Confirm, Close
  <2>2. ASSUME RefuseCorrupt(p) \/ Opened(p) \/ FindExisting(p) \/ Confirm(p)
        PROVE  Frame(p) /\ Local(p)'
    <3>1. pc[p] \in Locked
      BY <2>2 DEF RefuseCorrupt, Opened, FindExisting, Confirm, Locked
    <3>2. /\ \E a : Return(p, a)
          /\ UNCHANGED <<files, request, pending, index, bounds>>
      BY <2>2 DEF RefuseCorrupt, Opened, FindExisting, Confirm
    <3> QED
      BY <1>1, <3>1, <3>2, Returns
  <2>3. Frame(p) /\ Local(p)'
    BY <1>1, <1>2, <2>2, OpenKeeps, LockKeeps, FindReplacedKeeps, SynchronizeKeeps,
       GoWriteKeeps, StartWriteKeeps, FinishWriteKeeps, CloseKeeps
    DEF Run
  <2> QED
    BY <1>1, <2>1, <2>3, StepKeeps
<1>3. ASSUME NEW p \in Procs, NEW r \in Records, AppendRecord(p, r) PROVE Inv'
  <2>1. pc[p] # "down"
    BY <1>3 DEF AppendRecord
  <2> QED
    BY <1>1, <1>3, <2>1, AppendKeeps, StepKeeps
<1>4. ASSUME NEW p \in Procs, FailWrite(p) \/ FailSync(p) \/ Crash(p) PROVE Inv'
  <2>1. pc[p] # "down"
    BY <1>4 DEF FailWrite, FailSync, Crash
  <2>2. Frame(p) /\ Local(p)'
    BY <1>1, <1>4, FailWriteKeeps, FailSyncKeeps, CrashKeeps
  <2> QED
    BY <1>1, <2>1, <2>2, StepKeeps
<1>5. CASE UNCHANGED vars
  <2>1. ASSUME NEW p \in Procs PROVE Local(p)'
    <3>1. Local(p)
      BY DEF Inv
    <3> QED
      BY <1>5, <3>1 DEF Local, HandleKept, LockKept, RequestKept, TailKept, IndexKept, SyncKept,
                       Backed, vars, files, index, bounds
  <2>2. FilesExist' /\ Alone'
    BY <1>5 DEF Inv, FilesExist, Alone, vars, files, bounds
  <2> QED
    BY <1>1, <2>1, <2>2 DEF Inv
<1>6. ASSUME NEW p \in Procs, Construct(p) PROVE Inv'
  BY <1>1, <1>6, ConstructKeeps
<1>7. CASE Replace \/ Truncate
  BY <1>1, <1>7, ReplaceKeeps, TruncateKeeps
<1> QED
  BY <1>2, <1>3, <1>4, <1>5, <1>6, <1>7 DEF Next, Environment

LEMMA InvInit == Init => Inv
<1> SUFFICES ASSUME Init PROVE Inv
  OBVIOUS
<1>1. TypeOK
  <2>1. <<>> \in Seq(Lines) /\ NoRecords \in [CaseIds -> Records \cup {None}]
    BY DEF NoRecords
  <2>2. 0 \in 0..MaxInodes
    BY StoreAssumption
  <2> QED
    BY <2>1, <2>2 DEF Init, TypeOK, PCs
<1>2. ASSUME NEW p \in Procs PROVE Local(p)
  BY DEF Init, Local, HandleKept, LockKept, RequestKept, TailKept, IndexKept, SyncKept,
         Locked, Synced
<1>3. FilesExist /\ Alone
  BY DEF Init, FilesExist, Alone
<1> QED
  BY <1>1, <1>2, <1>3 DEF Inv

-----------------------------------------------------------------------------
(* Theorems *)

\* The invariant, for any number of processes, files, records and retries.
THEOREM StoreInvariant == ASSUME Benign PROVE Spec => []Inv
<1>1. Init => Inv
  BY InvInit
<1>2. Inv /\ [Next]_vars => Inv'
  BY InvStep
<1> QED
  BY <1>1, <1>2, PTL DEF Spec

\* The flock excludes: two processes past the lock never have the same file,
\* nor does one of them have the file of a process that still has to close its
\* handle after a failed write (TraceStore._append_once and _full_refresh).
THEOREM LockExcludes ==
  ASSUME Benign
  PROVE  Spec => [](\A p, q \in Procs :
                      /\ p # q
                      /\ pc[p] \in Locked \cup {"closing"} /\ pc[q] \in Locked \cup {"closing"}
                      => handle[p] # handle[q])
<1>1. Inv => \A p, q \in Procs :
                /\ p # q
                /\ pc[p] \in Locked \cup {"closing"} /\ pc[q] \in Locked \cup {"closing"}
                => handle[p] # handle[q]
  BY Exclusive
<1> QED
  BY <1>1, StoreInvariant, PTL

\* No opener mistakes a write in flight for the tail a crash left behind, and
\* repairs it away: while a line is being written, the torn tail is its writer's.
THEOREM WritesAreProtected == ASSUME Benign PROVE Spec => []InFlightIsProtected
<1>1. Inv => InFlightIsProtected
  BY DEF Inv, Local, TailKept, InFlightIsProtected
<1> QED
  BY <1>1, StoreInvariant, PTL

\* The in-memory index is what the file holds up to _valid_end, as long as no
\* file is cut back.
THEOREM IndexesAreBacked ==
  ASSUME Benign, \A u \in Uses : ~u.truncated
  PROVE  Spec => []IndexIsBacked
<1>1. Inv => IndexIsBacked
  <2> SUFFICES ASSUME Inv, NEW p \in Procs, pc[p] # "down", inode[p] # None
               PROVE  /\ validEnd[p] <= Len(lines[inode[p]])
                      /\ records[p] = Indexed(SubSeq(lines[inode[p]], 1, validEnd[p]))
    BY DEF IndexIsBacked
  <2>1. ~use.truncated
    BY DEF Inv, TypeOK
  <2>2. Backed(p)
    BY <2>1 DEF Inv, Local, IndexKept
  <2> QED
    BY <2>2 DEF Backed
<1> QED
  BY <1>1, StoreInvariant, PTL

\* What is known of the file of a process that is past _synchronize and finds
\* that the path still names it: it is the file users see, and the index is it.
LEMMA KnowsStored ==
  ASSUME Inv, NEW p \in Procs, pc[p] \in Synced, PathMatches(p)
  PROVE  Stored = lines[handle[p]] /\ Clean(Stored) /\ records[p] = Indexed(Stored)
<1>1. handle[p] \in Inodes
  BY AtWork DEF Synced, Locked
<1> QED
  BY <1>1, AtWork, StoreAssumption DEF Stored, PathMatches

\* True of append(): the record is in the file.
LEMMA AppendedIsTrue ==
  ASSUME Inv, NEW p \in Procs, Confirm(p)
  PROVE  request[p] \in Records /\ request[p] \in ToSet(Stored)
<1>1. /\ pc[p] = "written" /\ PathMatches(p) /\ request[p] \in Records
      /\ records[p][request[p].case] = request[p]
  BY DEF Inv, TypeOK, Local, RequestKept, Confirm
<1>2. Clean(Stored) /\ records[p] = Indexed(Stored) /\ request[p].case \in CaseIds
  BY <1>1, KnowsStored DEF Synced, CaseIds
<1> QED
  BY <1>1, <1>2, IndexedIn, StoreAssumption

\* False of append(): the record is in the file.  A conflict: another one is.
LEMMA ExistingIsTrue ==
  ASSUME Inv, NEW p \in Procs, FindExisting(p)
  PROVE  /\ request[p] \in Records
         /\ VerdictOnExisting(p) = "present" => request[p] \in ToSet(Stored)
         /\ VerdictOnExisting(p) # "present" =>
              /\ VerdictOnExisting(p) = "conflict"
              /\ request[p] \notin ToSet(Stored)
              /\ request[p].case \in {r.case : r \in ToSet(Stored)}
<1>1. /\ pc[p] = "synced" /\ PathMatches(p) /\ request[p] \in Records
      /\ records[p][request[p].case] # None
  BY DEF Inv, TypeOK, FindExisting, Existing
<1>2. Clean(Stored) /\ records[p] = Indexed(Stored) /\ request[p].case \in CaseIds
  BY <1>1, KnowsStored DEF Synced, CaseIds
<1>3. ASSUME request[p] \in ToSet(Stored) PROVE Indexed(Stored)[request[p].case] = request[p]
  <2>1. DOMAIN Stored = 1..Len(Stored)
    BY <1>2, LenProperties DEF Clean
  <2> QED
    BY <1>2, <1>3, <2>1, IndexedClean DEF ToSet
<1>4. /\ Indexed(Stored)[request[p].case] \in ToSet(Stored)
      /\ request[p].case \in {r.case : r \in ToSet(Stored)}
  BY <1>1, <1>2, IndexedIn
<1> QED
  BY <1>1, <1>2, <1>3, <1>4 DEF VerdictOnExisting, Existing

\* completed_case_ids() of a new store: the cases of the file.
LEMMA OpenedIsTrue ==
  ASSUME Inv, NEW p \in Procs, Opened(p)
  PROVE  Completed(p) = {r.case : r \in ToSet(Stored)}
<1>1. Clean(Stored) /\ records[p] = Indexed(Stored)
  BY KnowsStored DEF Opened, Synced
<1>2. \A r \in ToSet(Stored) : r.case \in CaseIds
  BY <1>1, LenProperties, ElementOfSeq DEF Clean, ToSet, CaseIds
<1>3. \A c \in CaseIds : records[p][c] # None <=> c \in {r.case : r \in ToSet(Stored)}
  BY <1>1, IndexedIn
<1> QED
  BY <1>2, <1>3 DEF Completed

\* CorruptTraceStoreError: the file cannot be read back.
LEMMA CorruptIsTrue ==
  ASSUME Inv, NEW p \in Procs, RefuseCorrupt(p)
  PROVE  ~Scans(Stored, NoRecords)
<1> DEFINE ls == lines[handle[p]]
<1>1. /\ TypeOK /\ Local(p) /\ pc[p] = "locked" /\ PathMatches(p)
      /\ handle[p] \in Inodes /\ handle[p] # None /\ ~Scans(Unread(p), Known(p))
  <2>1. TypeOK /\ Local(p) /\ pc[p] = "locked" /\ PathMatches(p) /\ ~Scans(Unread(p), Known(p))
    BY DEF Inv, RefuseCorrupt
  <2> QED
    BY <2>1, AtWork, StoreAssumption DEF Locked
<1>2. ls \in Seq(Lines) /\ Len(ls) \in Nat /\ validEnd[p] \in Nat /\ Stored = ls
  BY <1>1, LenProperties, StoreAssumption DEF TypeOK, Stored, PathMatches
<1>3. CASE IndexIsStale(p)
  BY <1>1, <1>2, <1>3 DEF Unread, Known
<1>4. CASE ~IndexIsStale(p)
  <2>1. inode[p] = handle[p] /\ ~(Len(ls) < validEnd[p])
    BY <1>4 DEF IndexIsStale
  <2>2. Backed(p)
    BY <1>1, <2>1 DEF Local, IndexKept
  <2> DEFINE n == validEnd[p]
  <2>3. /\ n \in 0..Len(ls)
        /\ Clean(SubSeq(ls, 1, n)) /\ records[p] = Indexed(SubSeq(ls, 1, n))
    BY <1>2, <2>1, <2>2 DEF Backed
  <2>4. ~Scans(SubSeq(ls, n + 1, Len(ls)), Indexed(SubSeq(ls, 1, n)))
    BY <1>1, <1>4, <2>3 DEF Unread, Known
  <2> HIDE DEF ls, n
  <2>5. ~Clean(ls)
    BY <1>2, <2>3, <2>4, ScanOfRest
  <2> QED
    BY <1>2, <2>5, ScanOfAll
<1> QED
  BY <1>3, <1>4

\* Each answer is true of the file the path names when it is given.
LEMMA AnswerStep ==
  ASSUME Inv, TypeOK', [Next]_vars, NEW p \in Procs, answer'[p] # answer[p], answer'[p] # None
  PROVE  TrueOf(answer'[p])
<1>1. \A q \in Procs, a \in Replies : Return(q, a) =>
        /\ answer' = [answer EXCEPT ![q] = a]
        /\ answer'[q] = a
  BY DEF Return, Put, Inv, TypeOK
<1>2. ASSUME Confirm(p) PROVE TrueOf(answer'[p])
  <2>1. request[p] \in Records /\ request[p] \in ToSet(Stored)
    BY <1>2, AppendedIsTrue
  <2>2. [verdict |-> "appended", record |-> request[p]] \in Replies
    BY <2>1 DEF Replies
  <2>3. answer'[p] = [verdict |-> "appended", record |-> request[p]]
    BY <1>1, <1>2, <2>2 DEF Confirm
  <2> QED
    BY <2>1, <2>3 DEF TrueOf
<1>3. ASSUME FindExisting(p) PROVE TrueOf(answer'[p])
  <2> DEFINE a == [verdict |-> VerdictOnExisting(p), record |-> request[p]]
  <2>1. a \in Replies
    BY <1>3, ExistingIsTrue DEF Replies
  <2>2. answer'[p] = a
    BY <1>1, <1>3, <2>1 DEF FindExisting
  <2>3. a.verdict = VerdictOnExisting(p) /\ a.record = request[p]
    OBVIOUS
  <2> HIDE DEF a
  <2>4. CASE VerdictOnExisting(p) = "present"
    BY <1>3, <2>2, <2>3, <2>4, ExistingIsTrue DEF TrueOf
  <2>5. CASE VerdictOnExisting(p) # "present"
    <3>1. /\ a.verdict = "conflict"
          /\ a.record \notin ToSet(Stored) /\ a.record.case \in {r.case : r \in ToSet(Stored)}
      BY <1>3, <2>3, <2>5, ExistingIsTrue
    <3> QED
      BY <2>2, <3>1 DEF TrueOf
  <2> QED
    BY <2>4, <2>5
<1>4. ASSUME Opened(p) PROVE TrueOf(answer'[p])
  <2>1. [verdict |-> "opened", cases |-> Completed(p)] \in Replies
    BY DEF Replies, Completed
  <2>2. answer'[p] = [verdict |-> "opened", cases |-> Completed(p)]
    BY <1>1, <1>4, <2>1 DEF Opened
  <2>3. Completed(p) = {r.case : r \in ToSet(Stored)}
    BY <1>4, OpenedIsTrue
  <2> QED
    BY <2>2, <2>3 DEF TrueOf
<1>5. ASSUME RefuseCorrupt(p) PROVE TrueOf(answer'[p])
  <2>1. answer'[p] = [verdict |-> "corrupt"]
    BY <1>1, <1>5 DEF RefuseCorrupt, Replies
  <2> QED
    BY <1>5, <2>1, CorruptIsTrue DEF TrueOf
<1>6. ASSUME FindReplaced(p) PROVE TrueOf(answer'[p])
  <2>1. Return(p, [verdict |-> "changed"])
    BY <1>6 DEF FindReplaced, Retry
  <2>2. answer'[p] = [verdict |-> "changed"]
    BY <1>1, <2>1 DEF Replies
  <2> QED
    BY <2>2 DEF TrueOf
<1>7. ASSUME FailSync(p) \/ Close(p) PROVE TrueOf(answer'[p])
  <2>1. answer'[p] = [verdict |-> "error"]
    BY <1>1, <1>7 DEF FailSync, Close, Replies, Put, Inv, TypeOK
  <2> QED
    BY <2>1 DEF TrueOf
<1>8. ASSUME NEW q \in Procs, Run(q) \/ FailSync(q), q # p PROVE FALSE
  <2>1. \A a : Return(q, a) => answer'[p] = answer[p]
    BY <1>8 DEF Return, Put, Inv, TypeOK
  <2>2. Retry(q) => answer'[p] = answer[p]
    BY <2>1 DEF Retry
  <2>3. Close(q) => answer'[p] = answer[p]
    BY <1>8 DEF Close, Put, Inv, TypeOK
  <2> QED
    BY <1>8, <2>1, <2>2, <2>3
    DEF Run, FailSync, OpenHandle, Lock, FindReplaced, Synchronize, RefuseCorrupt, Opened,
        FindExisting, GoWrite, StartWrite, FinishWrite, Confirm
<1>9. ASSUME Run(p) PROVE TrueOf(answer'[p])
  BY <1>2, <1>3, <1>4, <1>5, <1>6, <1>7, <1>9
  DEF Run, OpenHandle, Lock, Synchronize, GoWrite, StartWrite, FinishWrite
<1>10. ASSUME NEW q \in Procs, \/ Construct(q) \/ Crash(q) \/ FailWrite(q)
                               \/ \E r \in Records : AppendRecord(q, r)
       PROVE FALSE
  <2>1. answer' = [answer EXCEPT ![q] = None] \/ answer' = answer
    BY <1>10 DEF Construct, Crash, FailWrite, AppendRecord, Call, Put
  <2> QED
    BY <2>1 DEF Inv, TypeOK
<1>11. ASSUME Replace \/ Truncate \/ UNCHANGED vars PROVE FALSE
  BY <1>11 DEF Replace, Truncate, others, vars
<1> QED
  BY <1>7, <1>8, <1>9, <1>10, <1>11 DEF Next, Environment

\* True and False of append(), a conflict, the completed cases of a new store
\* and a corrupt file are what they say, however the path is replaced, raced
\* for, or (by a process that is alone) cut back.
THEOREM AnswersStayTrue == ASSUME Benign PROVE Spec => AnswersAreTrue
<1>1. Inv /\ Inv' /\ [Next]_vars =>
        [\A p \in Procs : answer'[p] # answer[p] /\ answer'[p] # None => TrueOf(answer'[p])]_vars
  BY AnswerStep DEF Inv
<1> QED
  BY <1>1, StoreInvariant, PTL DEF Spec, AnswersAreTrue

\* A line that is finished keeps the file readable, since its case is new.
LEMMA CompleteLineClean ==
  ASSUME Inv, AllClean, NEW p \in Procs, NEW whole \in BOOLEAN, CompleteLine(p, whole),
         \/ pc[p] = "flushing" /\ ~whole
         \/ pc[p] = "closing" /\ whole = (pending[p] = "line")
  PROVE  AllClean'
<1>1. handle[p] \in Inodes
  BY AtWork DEF Locked
<1>2. Clean(lines'[handle[p]])
  <2> DEFINE old == lines[handle[p]]
             r == request[p]
  <2>1. /\ r \in Records /\ Clean(old) /\ Indexed(old)[r.case] = None
        /\ lines'[handle[p]] = Append(old, r)
    BY LineIsRequest
  <2> HIDE DEF old, r
  <2> QED
    BY <2>1, IndexedAppend
<1>3. \A i \in Inodes : Clean(lines'[i])
  BY <1>1, <1>2, LineIsRequest DEF AllClean
<1> QED
  BY <1>3 DEF AllClean

\* So does every other step, as long as users install readable files.
LEMMA CleanStep ==
  ASSUME Inv, AllClean, [Next]_vars, \A ls \in Imports : Clean(ls)
  PROVE  AllClean'
<1>1. ASSUME UNCHANGED lines PROVE AllClean'
  BY <1>1 DEF AllClean
<1>2. ASSUME NEW p \in Procs, FinishWrite(p) \/ FailSync(p) PROVE AllClean'
  BY <1>2, CompleteLineClean DEF FinishWrite, FailSync
<1>3. ASSUME NEW p \in Procs, Close(p) PROVE AllClean'
  <2>1. CASE CompleteLine(p, pending[p] = "line")
    <3>1. (pending[p] = "line") \in BOOLEAN
      OBVIOUS
    <3> QED
      BY <1>3, <2>1, <3>1, CompleteLineClean DEF Close
  <2> QED
    BY <1>1, <1>3, <2>1 DEF Close
<1>4. ASSUME NEW p \in Procs, Synchronize(p) PROVE AllClean'
  <2>1. lines' = lines
    BY <1>4 DEF Synchronize, Repaired, Put, Inv, TypeOK
  <2> QED
    BY <1>1, <2>1
<1>5. CASE Replace
  <2>1. \A i \in Inodes : lines'[i] = lines[i] \/ lines'[i] \in Imports
    BY <1>5 DEF Replace, Inv, TypeOK
  <2>2. \A i \in Inodes : Clean(lines'[i])
    BY <2>1 DEF AllClean
  <2> QED
    BY <2>2 DEF AllClean
<1>6. CASE Truncate
  <2>1. path \in Inodes /\ Clean(lines[path])
    BY <1>6 DEF Truncate, Inv, TypeOK, AllClean
  <2>2. PICK n \in 0..Len(lines[path]) : lines' = [lines EXCEPT ![path] = SubSeq(lines[path], 1, n)]
    BY <1>6 DEF Truncate
  <2> DEFINE old == lines[path]
             cut == SubSeq(old, 1, n)
  <2>3. old \in Seq(Records) /\ Len(old) \in Nat /\ n \in 0..Len(old)
    BY <2>1, LenProperties DEF Clean
  <2>4. /\ cut \in Seq(Records) /\ Len(cut) = n
        /\ \A i \in 1..n : i \in 1..Len(old) /\ cut[i] = old[i]
    <3> HIDE DEF old
    <3>1. \A i \in 1..n : old[i] \in Records
      BY <2>3, ElementOfSeq
    <3> QED
      BY <2>3, <3>1, SubSeqProperties
  <2>5. Clean(cut)
    <3> HIDE DEF cut
    <3> QED
      BY <2>1, <2>4 DEF Clean
  <2>6. \A i \in Inodes : lines'[i] = lines[i] \/ lines'[i] = cut
    BY <2>1, <2>2 DEF Inv, TypeOK
  <2>7. \A i \in Inodes : Clean(lines'[i])
    <3> HIDE DEF cut
    <3> QED
      BY <2>5, <2>6 DEF AllClean
  <2> QED
    BY <2>7 DEF AllClean
<1>7. ASSUME NEW p \in Procs,
             \/ OpenHandle(p) \/ Lock(p) \/ FindReplaced(p) \/ RefuseCorrupt(p) \/ Opened(p)
             \/ FindExisting(p) \/ GoWrite(p) \/ StartWrite(p) \/ Confirm(p)
      PROVE  UNCHANGED lines
  BY <1>7 DEF OpenHandle, Lock, FindReplaced, RefuseCorrupt, Opened, FindExisting, GoWrite,
              StartWrite, Confirm, files
<1>8. ASSUME NEW p \in Procs, \/ Construct(p) \/ Crash(p) \/ FailWrite(p)
                              \/ \E r \in Records : AppendRecord(p, r)
      PROVE UNCHANGED lines
  BY <1>8 DEF Construct, Crash, FailWrite, AppendRecord, Call, files
<1>9. ASSUME UNCHANGED vars PROVE UNCHANGED lines
  BY <1>9 DEF vars, files
<1> QED
  BY <1>1, <1>2, <1>3, <1>4, <1>5, <1>6, <1>7, <1>8, <1>9 DEF Next, Run, Environment

LEMMA CleanInit == Init => AllClean
<1>1. Clean(<<>>)
  BY DEF Clean
<1> QED
  BY <1>1 DEF Init, AllClean

\* Whatever is killed, retried or replaced on the way, every file can be read
\* back: no later open raises CorruptTraceStoreError.  (With a write that fails
\* next to another process it may: the run store_failed_write.)
THEOREM FilesStayReadable ==
  ASSUME Benign, \A ls \in Imports : Scans(ls, NoRecords)
  PROVE  Spec => []StaysReadable
<1>1. \A ls \in Imports : Clean(ls)
  <2>1. \A ls \in Imports : ls \in Seq(Lines)
    BY StoreAssumption, SeqMonotonic DEF Lines
  <2> QED
    BY <2>1, ScanOfAll
<1>2. Init => AllClean
  BY CleanInit
<1>3. Inv /\ AllClean /\ [Next]_vars => AllClean'
  BY <1>1, CleanStep
<1>4. Inv /\ AllClean => StaysReadable
  BY ScanOfAll DEF Inv, TypeOK, AllClean, StaysReadable
<1> QED
  BY <1>2, <1>3, <1>4, StoreInvariant, PTL DEF Spec

-----------------------------------------------------------------------------
(* The store is the log *)

\* The path names one file for good.
LEMMA OneFileStep ==
  ASSUME Inv, Imports = {}, [Next]_vars, OneFile
  PROVE  OneFile' /\ (path # None => path' = path)
<1>1. ~Replace
  BY DEF Replace
<1>2. ASSUME NEW p \in Procs, OpenHandle(p) PROVE OneFile' /\ (path # None => path' = path)
  <2>1. /\ handle' = [handle EXCEPT ![p] = path'] /\ (path # None => path' = path)
    BY <1>2 DEF OpenHandle, Put
  <2>2. \A q \in Procs : handle[q] # None => path # None
    BY DEF OneFile, Inv, TypeOK
  <2> QED
    BY <2>1, <2>2 DEF OneFile, Inv, TypeOK
<1>3. ASSUME NEW p \in Procs, handle' = handle \/ handle' = [handle EXCEPT ![p] = None],
             path' = path
      PROVE  OneFile'
  BY <1>3 DEF OneFile, Inv, TypeOK
<1>4. ASSUME NEW p \in Procs,
             \/ Lock(p) \/ FindReplaced(p) \/ Synchronize(p) \/ RefuseCorrupt(p) \/ Opened(p)
             \/ FindExisting(p) \/ GoWrite(p) \/ StartWrite(p) \/ FinishWrite(p) \/ Confirm(p)
             \/ Close(p) \/ Construct(p) \/ (\E r \in Records : AppendRecord(p, r))
             \/ FailWrite(p) \/ FailSync(p) \/ Crash(p)
      PROVE  path' = path /\ (handle' = handle \/ handle' = [handle EXCEPT ![p] = None])
  BY <1>4 DEF Lock, FindReplaced, Retry, Return, Synchronize, RefuseCorrupt, Opened,
              FindExisting, GoWrite, StartWrite, FinishWrite, Confirm, Close, Construct,
              AppendRecord, Call, FailWrite, FailSync, Crash, Put, files
<1>5. ASSUME Truncate \/ UNCHANGED vars PROVE OneFile' /\ path' = path
  BY <1>5 DEF Truncate, others, vars, files, OneFile
<1> QED
  BY <1>1, <1>2, <1>3, <1>4, <1>5 DEF Next, Run, Environment

\* Every step of every process, killed ones included, is a step of the log.
LEMMA LogStep ==
  ASSUME Inv, Inv', AllClean, OneFile, [Next]_vars,
         Imports = {}, \A u \in Uses : ~u.truncated /\ u.faults = 0
  PROVE  [Log!Next]_<<Stored, answer>>
<1> USE DEF files
<1>1. TypeOK /\ ~use.truncated /\ use.faults = 0 /\ ~(faults < use.faults)
  BY DEF Inv, TypeOK
<1>2. Clean(Stored)
  <2>1. Clean(<<>>)
    BY DEF Clean
  <2> QED
    BY <1>1, <2>1 DEF Stored, AllClean, TypeOK
<1>3. ASSUME UNCHANGED <<path, lines>> PROVE Stored' = Stored
  BY <1>3 DEF Stored
<1>4. \A q \in Procs, a \in Replies : Return(q, a) => answer' = [answer EXCEPT ![q] = a]
  BY DEF Return, Put
<1>5. ASSUME NEW p \in Procs, FinishWrite(p) PROVE Log!Insert
  <2>1. /\ pc[p] = "flushing" /\ CompleteLine(p, FALSE) /\ path' = path /\ answer' = answer
        /\ handle[p] \in Inodes /\ handle[p] # None
    BY <1>5, AtWork, StoreAssumption DEF FinishWrite, Locked
  <2>2. handle[p] = path /\ Stored = lines[handle[p]] /\ Stored' = lines'[handle[p]]
    BY <2>1 DEF OneFile, Stored
  <2>3. /\ request[p] \in Records
        /\ lines'[handle[p]] = Append(lines[handle[p]], request[p])
        /\ Indexed(lines[handle[p]])[request[p].case] = None
    BY <2>1, LineIsRequest
  <2>4. request[p].case \notin {r.case : r \in ToSet(Stored)}
    <3>1. request[p].case \in CaseIds
      BY <2>3 DEF CaseIds
    <3> QED
      BY <1>2, <2>2, <2>3, <3>1, IndexedIn
  <2>5. request[p].case \notin Log!Cases
    BY <2>4 DEF Log!Cases, Log!ToSet, ToSet
  <2> QED
    BY <2>1, <2>2, <2>3, <2>5 DEF Log!Insert
<1>6. ASSUME NEW p \in Procs, NEW a \in Log!Answers, Log!True(a),
             answer' = [answer EXCEPT ![p] = a], UNCHANGED <<path, lines>>
      PROVE  Log!Next
  BY <1>3, <1>6 DEF Log!Reply, Log!Next
<1>7. ASSUME NEW p \in Procs, Confirm(p) PROVE Log!Next
  <2> DEFINE a == [verdict |-> "appended", record |-> request[p]]
  <2>1. request[p] \in Records /\ request[p] \in ToSet(Stored)
    BY <1>7, AppendedIsTrue
  <2>2. a \in Log!Answers /\ a \in Replies /\ a.verdict = "appended" /\ a.record = request[p]
    BY <2>1 DEF Log!Answers, Replies
  <2>3. answer' = [answer EXCEPT ![p] = a] /\ UNCHANGED <<path, lines>>
    BY <1>4, <1>7, <2>2 DEF Confirm
  <2> HIDE DEF a
  <2>4. Log!True(a)
    BY <2>1, <2>2 DEF Log!True, Log!Holds, Log!ToSet, ToSet
  <2> QED
    BY <1>6, <2>2, <2>3, <2>4
<1>8. ASSUME NEW p \in Procs, FindExisting(p) PROVE Log!Next
  <2> DEFINE a == [verdict |-> VerdictOnExisting(p), record |-> request[p]]
  <2>1. request[p] \in Records /\ VerdictOnExisting(p) \in {"present", "conflict"}
    BY <1>8, ExistingIsTrue
  <2>2. a \in Log!Answers /\ a \in Replies
        /\ a.verdict = VerdictOnExisting(p) /\ a.record = request[p]
    BY <2>1 DEF Log!Answers, Replies
  <2>3. answer' = [answer EXCEPT ![p] = a] /\ UNCHANGED <<path, lines>>
    BY <1>4, <1>8, <2>2 DEF FindExisting
  <2> HIDE DEF a
  <2>4. Log!True(a)
    <3>1. CASE VerdictOnExisting(p) = "present"
      <4>1. request[p] \in ToSet(Stored)
        BY <1>8, <3>1, ExistingIsTrue
      <4> QED
        BY <2>2, <3>1, <4>1 DEF Log!True, Log!Holds, Log!ToSet, ToSet
    <3>2. CASE VerdictOnExisting(p) # "present"
      <4>1. /\ a.verdict = "conflict" /\ request[p] \notin ToSet(Stored)
            /\ request[p].case \in {r.case : r \in ToSet(Stored)}
        BY <1>8, <2>2, <3>2, ExistingIsTrue
      <4> QED
        BY <2>2, <4>1 DEF Log!True, Log!Holds, Log!Cases, Log!ToSet, ToSet
    <3> QED
      BY <3>1, <3>2
  <2> QED
    BY <1>6, <2>2, <2>3, <2>4
<1>9. ASSUME NEW p \in Procs, Opened(p) PROVE Log!Next
  <2> DEFINE a == [verdict |-> "opened", cases |-> Completed(p)]
  <2>1. Completed(p) = {r.case : r \in ToSet(Stored)}
    BY <1>9, OpenedIsTrue
  <2>2. a \in Log!Answers /\ a \in Replies /\ a.verdict = "opened" /\ a.cases = Completed(p)
    BY DEF Log!Answers, Replies, Completed, CaseIds
  <2>3. answer' = [answer EXCEPT ![p] = a] /\ UNCHANGED <<path, lines>>
    BY <1>4, <1>9, <2>2 DEF Opened
  <2> HIDE DEF a
  <2>4. Log!True(a)
    BY <2>1, <2>2 DEF Log!True, Log!Cases, Log!ToSet, ToSet
  <2> QED
    BY <1>6, <2>2, <2>3, <2>4
<1>10. ASSUME NEW p \in Procs, Construct(p) \/ Crash(p) \/ \E r \in Records : AppendRecord(p, r)
       PROVE Log!Next
  <2>1. answer' = [answer EXCEPT ![p] = None] /\ UNCHANGED <<path, lines>>
    BY <1>10 DEF Construct, Crash, AppendRecord, Call, Put
  <2> QED
    BY <1>3, <2>1 DEF Log!Forget, Log!Next
<1>11. ASSUME NEW p \in Procs PROVE ~Close(p) /\ ~FailWrite(p) /\ ~FailSync(p)
  BY <1>1 DEF Close, FailWrite, FailSync, Inv, Local, RequestKept
<1>12. ASSUME NEW p \in Procs PROVE ~RefuseCorrupt(p)
  BY <1>2, CorruptIsTrue, ScanOfAll, SeqMonotonic DEF Clean, Lines
<1>13. ASSUME NEW p \in Procs PROVE ~FindReplaced(p)
  <2>1. pc[p] \in Locked => handle[p] = path
    BY AtWork, StoreAssumption DEF OneFile
  <2> QED
    BY <2>1 DEF FindReplaced, PathMatches, Locked
<1>14. ASSUME NEW p \in Procs, OpenHandle(p) PROVE Stored' = Stored /\ answer' = answer
  <2>1. lines' = lines /\ answer' = answer
    BY <1>14 DEF OpenHandle
  <2>2. CASE path # None
    BY <1>14, <2>1, <2>2 DEF OpenHandle, Stored
  <2>3. CASE path = None
    <3>1. created \in Nat /\ MaxInodes \in Nat
      BY <1>1, StoreAssumption DEF TypeOK
    <3>2. path' = created + 1 /\ path' \in Inodes /\ path' > created
      BY <1>14, <2>3, <3>1 DEF OpenHandle, Inodes
    <3>3. lines[path'] = <<>>
      BY <3>2 DEF Inv, FilesExist
    <3>4. path' # None
      BY <3>2, StoreAssumption
    <3> QED
      BY <2>1, <2>3, <3>3, <3>4 DEF Stored
  <2> QED
    BY <2>2, <2>3
<1>15. ASSUME NEW p \in Procs, Lock(p) \/ Synchronize(p) \/ GoWrite(p) \/ StartWrite(p)
       PROVE  Stored' = Stored /\ answer' = answer
  <2>1. UNCHANGED <<path, lines, answer>>
    BY <1>1, <1>15 DEF Lock, Synchronize, Repaired, GoWrite, StartWrite, Put, TypeOK
  <2> QED
    BY <1>3, <2>1
<1>16. CASE UNCHANGED vars
  BY <1>16 DEF vars, Stored
<1>17. ~Replace /\ ~Truncate
  BY <1>1 DEF Replace, Truncate
<1>18. ASSUME NEW p \in Procs, Run(p) PROVE [Log!Next]_<<Stored, answer>>
  BY <1>5, <1>7, <1>8, <1>9, <1>11, <1>12, <1>13, <1>14, <1>15, <1>18 DEF Run, Log!Next
<1> QED
  BY <1>10, <1>11, <1>16, <1>17, <1>18 DEF Next, Environment

\* The store is the append-only log its users are promised, for any number of
\* processes that may be killed at any step, as long as only they touch the
\* path and no write fails.
THEOREM StoreImplementsLog ==
  ASSUME Imports = {}, \A u \in Uses : ~u.truncated /\ u.faults = 0
  PROVE  Spec => ImplementsLog
<1>1. Benign
  BY DEF Benign
<1>2. Init => Log!Init /\ AllClean /\ OneFile
  <2>1. Init => Log!Init /\ OneFile
    BY DEF Init, Log!Init, Stored, OneFile
  <2> QED
    BY <2>1, CleanInit
<1>3. Inv /\ AllClean /\ [Next]_vars => AllClean'
  BY CleanStep
<1>4. Inv /\ OneFile /\ [Next]_vars => OneFile'
  BY OneFileStep
<1>5. Inv /\ Inv' /\ AllClean /\ OneFile /\ [Next]_vars => [Log!Next]_<<Stored, answer>>
  BY LogStep
<1>6. Spec => []Inv
  BY <1>1, StoreInvariant
<1> QED
  BY <1>2, <1>3, <1>4, <1>5, <1>6, PTL DEF Spec, ImplementsLog, Log!Spec

=============================================================================
