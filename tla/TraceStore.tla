---------------------------- MODULE TraceStore ----------------------------
(***************************************************************************)
(* The append-only JSONL evidence store (evaluation/trace_store.py), used  *)
(* by several processes on one path.  Each call opens the path, takes the  *)
(* file's exclusive flock, checks that the path still names the opened     *)
(* file, brings its in-memory index up to date, and only then writes.      *)
(*                                                                         *)
(* A file is a sequence of complete lines and possibly the beginning of    *)
(* one more; all lines count as one unit of length, so that the byte       *)
(* offset _valid_end is a number of lines.  Around the cooperating         *)
(* processes, a user may replace the file (os.replace) or truncate it, and *)
(* a process may be killed or have a write fail half-way.                  *)
(***************************************************************************)
EXTENDS Integers, Sequences, FiniteSets, SequencesExt

CONSTANTS
    Procs,
    Records,         \* normalized records: case_id and the evidence ("body")
    None,
    Garbage,         \* a complete line that is no record
    MaxPathRetries,  \* _MAX_PATH_RETRIES
    MaxInodes,       \* bound: files the path names in the course of a behaviour
    Imports,         \* contents a user may install with os.replace
    Uses             \* how the path may be used: by several processes at a
                     \* time or by one; which users and failures meddle

CaseIds == {r.case : r \in Records}
Lines == Records \cup {Garbage}
Inodes == 1..MaxInodes

ASSUME StoreAssumption ==
    /\ None \notin Procs /\ None \notin Records /\ None \notin Inodes
    /\ Garbage \notin Records
    /\ MaxPathRetries \in Nat \ {0}
    /\ MaxInodes \in Nat \ {0}
    /\ Imports \subseteq Seq(Records)
    /\ Uses \subseteq [shared: BOOLEAN,    \* by several processes at a time
                    truncated: BOOLEAN, \* a user may cut the file back
                    crashes: Nat,       \* bound on the processes killed
                    faults: Nat]        \* bound on the writes that fail

VARIABLES
    path,      \* the inode the path names, None before the first open
    created,   \* how many inodes were created
    lines,     \* complete lines of each inode
    torn,      \* who wrote the incomplete last line of each inode, if any;
               \* Garbage when several did
    holder,    \* who has each inode's flock
    pc,        \* where each process is in __init__ or append
    request,   \* the record being appended, None in __init__
    retries,   \* rounds of the path-retry loop made so far
    handle,    \* the inode of the open handle
    pending,   \* what the handle's buffer still has to write when it is closed
    records,   \* _records: the index, by case_id
    validEnd,  \* _valid_end
    inode,     \* _inode
    answer,    \* what the last finished call returned
    use,       \* how the path is used in this behaviour
    crashes, faults

files == <<path, created, lines, torn>>
index == <<records, validEnd, inode>>
bounds == <<use, crashes, faults>>
vars == <<files, holder, pc, request, retries, handle, pending, index, answer, bounds>>

NoRecords == [c \in CaseIds |-> None]

Init ==
    /\ path = None
    /\ created = 0
    /\ lines = [i \in Inodes |-> <<>>]
    /\ torn = [i \in Inodes |-> None]
    /\ holder = [i \in Inodes |-> None]
    /\ pc = [p \in Procs |-> "down"]
    /\ request = [p \in Procs |-> None]
    /\ retries = [p \in Procs |-> 0]
    /\ handle = [p \in Procs |-> None]
    /\ pending = [p \in Procs |-> "nothing"]
    /\ records = [p \in Procs |-> NoRecords]
    /\ validEnd = [p \in Procs |-> 0]
    /\ inode = [p \in Procs |-> None]
    /\ answer = [p \in Procs |-> None]
    /\ use \in Uses
    /\ crashes = 0
    /\ faults = 0

-----------------------------------------------------------------------------
(* Scanning *)

Indexed(ls) ==
    [c \in CaseIds |->
       IF \E r \in ToSet(ls) : r.case = c
       THEN CHOOSE r \in ToSet(ls) : r.case = c ELSE None]

\* _scan_from: every line is a record of a case not seen before.
Scans(ls, known) ==
    /\ Garbage \notin ToSet(ls)
    /\ \A i, j \in DOMAIN ls : i # j => ls[i].case # ls[j].case
    /\ \A i \in DOMAIN ls : known[ls[i].case] = None

\* Mutant: the opened file is taken to be the one the path names.
TrustsHandle(p) == TRUE

PathMatches(p) == path = handle[p]

\* __init__ always rebuilds; _synchronize when the file was replaced or is
\* shorter than the offset the index stands for.
IndexIsStale(p) ==
    \/ request[p] = None
    \/ inode[p] # handle[p]
    \/ Len(lines[handle[p]]) < validEnd[p]

\* The index the scan starts from, and the lines it reads.
Known(p) == IF IndexIsStale(p) THEN NoRecords ELSE records[p]

Unread(p) ==
    LET ls == lines[handle[p]] IN
    IF IndexIsStale(p) THEN ls ELSE SubSeq(ls, validEnd[p] + 1, Len(ls))

Absorb(p) ==
    [c \in CaseIds |->
       IF Known(p)[c] # None THEN Known(p)[c] ELSE Indexed(Unread(p))[c]]

\* Mutant: the repair cuts the file where the scan started.
RepairedToStart(p) ==
    LET ls == lines[handle[p]] IN
    IF torn[handle[p]] = None THEN ls ELSE SubSeq(ls, 1, Len(ls) - Len(Unread(p)))

\* truncate(valid_end): the incomplete last line goes, every complete one stays.
Repaired(p) == lines[handle[p]]

-----------------------------------------------------------------------------
(* The calls *)

Put(f, p, x) == [f EXCEPT ![p] = x]

Unlock(p) == holder' = IF handle[p] = None THEN holder ELSE Put(holder, handle[p], None)

\* The call returns or raises, with the lock released and the handle closed.
Return(p, a) ==
    /\ Unlock(p)
    /\ handle' = Put(handle, p, None)
    /\ answer' = Put(answer, p, a)
    /\ pc' = Put(pc, p, IF a.verdict \in {"corrupt", "changed"} /\ request[p] = None
                        THEN "down" ELSE "idle")
    /\ retries' = Put(retries, p, 0)

MayRetry(p) == retries[p] + 1 < MaxPathRetries

\* "continue": release everything and go round again, up to the limit.
Retry(p) ==
    IF MayRetry(p)
    THEN /\ Unlock(p)
         /\ handle' = Put(handle, p, None)
         /\ retries' = Put(retries, p, retries[p] + 1)
         /\ pc' = Put(pc, p, "opening")
         /\ UNCHANGED answer
    ELSE Return(p, [verdict |-> "changed"])

Call(p, r) ==
    /\ request' = Put(request, p, r)
    /\ pc' = Put(pc, p, "opening")
    /\ retries' = Put(retries, p, 0)
    /\ answer' = Put(answer, p, None)
    /\ UNCHANGED <<files, holder, handle, pending, bounds>>

\* A new store object: its index is empty and belongs to no file.
Construct(p) ==
    /\ pc[p] = "down"
    /\ use.shared \/ \A q \in Procs : pc[q] = "down"
    /\ records' = Put(records, p, NoRecords)
    /\ validEnd' = Put(validEnd, p, 0)
    /\ inode' = Put(inode, p, None)
    /\ Call(p, None)

AppendRecord(p, r) ==
    /\ pc[p] = "idle"
    /\ Call(p, r)
    /\ UNCHANGED index

\* open(path, "a+b") creates the file when there is none.
OpenHandle(p) ==
    /\ pc[p] = "opening"
    /\ IF path # None
       THEN UNCHANGED <<path, created>>
       ELSE /\ created < MaxInodes
            /\ created' = created + 1
            /\ path' = created + 1
    /\ handle' = Put(handle, p, path')
    /\ pc' = Put(pc, p, "opened")
    /\ UNCHANGED <<lines, torn, holder, request, retries, pending, index, answer, bounds>>

\* Mutant: opening, which may repair the tail, does not wait for the lock.
LockForAppendOnly(p) == request[p] = None \/ holder[handle[p]] = None

LockFree(p) == holder[handle[p]] = None

Lock(p) ==
    /\ pc[p] = "opened"
    /\ LockFree(p)
    /\ holder' = Put(holder, handle[p], p)
    /\ pc' = Put(pc, p, "locked")
    /\ UNCHANGED <<files, request, retries, handle, pending, index, answer, bounds>>

\* The path no longer names the file that was locked.
FindReplaced(p) ==
    /\ pc[p] \in {"locked", "synced", "written"}
    /\ ~PathMatches(p)
    /\ Retry(p)
    /\ UNCHANGED <<files, request, pending, index, bounds>>

\* _full_refresh or _synchronize: repair the tail, absorb what others wrote.
Synchronize(p) ==
    /\ pc[p] = "locked"
    /\ PathMatches(p)
    /\ Scans(Unread(p), Known(p))
    /\ records' = Put(records, p, Absorb(p))
    /\ validEnd' = Put(validEnd, p, Len(lines[handle[p]]))
    /\ inode' = Put(inode, p, handle[p])
    /\ lines' = Put(lines, handle[p], Repaired(p))
    /\ torn' = Put(torn, handle[p], None)
    /\ pc' = Put(pc, p, "synced")
    /\ UNCHANGED <<path, created, holder, request, retries, handle, pending, answer, bounds>>

RefuseCorrupt(p) ==
    /\ pc[p] = "locked"
    /\ PathMatches(p)
    /\ ~Scans(Unread(p), Known(p))
    /\ Return(p, [verdict |-> "corrupt"])
    /\ UNCHANGED <<files, request, pending, index, bounds>>

Completed(p) == {c \in CaseIds : records[p][c] # None}

Opened(p) ==
    /\ pc[p] = "synced" /\ request[p] = None
    /\ PathMatches(p)
    /\ Return(p, [verdict |-> "opened", cases |-> Completed(p)])
    /\ UNCHANGED <<files, request, pending, index, bounds>>

Existing(p) == records[p][request[p].case]

VerdictOnExisting(p) == IF Existing(p) = request[p] THEN "present" ELSE "conflict"

FindExisting(p) ==
    /\ pc[p] = "synced" /\ request[p] # None
    /\ Existing(p) # None
    /\ PathMatches(p)
    /\ Return(p, [verdict |-> VerdictOnExisting(p), record |-> request[p]])
    /\ UNCHANGED <<files, request, pending, index, bounds>>

GoWrite(p) ==
    /\ pc[p] = "synced" /\ request[p] # None
    /\ Existing(p) = None
    /\ PathMatches(p)
    /\ pc' = Put(pc, p, "writing")
    /\ UNCHANGED <<files, holder, request, retries, handle, pending, index, answer, bounds>>

\* Part of the line reaches the file; with O_APPEND, behind whatever is there.
StartWrite(p) ==
    /\ pc[p] = "writing"
    /\ torn' = Put(torn, handle[p], IF torn[handle[p]] = None THEN p ELSE Garbage)
    /\ pc' = Put(pc, p, "flushing")
    /\ UNCHANGED <<path, created, lines, holder, request, retries, handle, pending, index,
                   answer, bounds>>

\* The rest of the line follows: it completes what p began, or garbage.
CompleteLine(p, whole) ==
    LET i == handle[p]
        begun == IF whole THEN None ELSE p
    IN  /\ lines' = Put(lines, i, Append(lines[i], IF torn[i] = begun THEN request[p] ELSE Garbage))
        /\ torn' = Put(torn, i, None)

\* Mutant: the offset is not moved past the line just written.
EndBeforeWrite(p) == Len(lines[handle[p]])

EndAfterWrite(p) == Len(lines[handle[p]]) + 1

FinishWrite(p) ==
    /\ pc[p] = "flushing"
    /\ CompleteLine(p, FALSE)
    /\ records' = [records EXCEPT ![p][request[p].case] = request[p]]
    /\ validEnd' = Put(validEnd, p, EndAfterWrite(p))
    /\ inode' = Put(inode, p, handle[p])
    /\ pc' = Put(pc, p, "written")
    /\ UNCHANGED <<path, created, holder, request, retries, handle, pending, answer, bounds>>

Confirm(p) ==
    /\ pc[p] = "written"
    /\ PathMatches(p)
    /\ Return(p, [verdict |-> "appended", record |-> request[p]])
    /\ UNCHANGED <<files, request, pending, index, bounds>>

-----------------------------------------------------------------------------
(* Failures and the outside world *)

\* write() or flush() raises before or after part of the line is out: the
\* lock is released, then leaving the "with" block closes the handle, whose
\* buffer still holds the rest.
FailWrite(p) ==
    /\ faults < use.faults
    /\ pc[p] \in {"writing", "flushing"}
    /\ pending' = Put(pending, p, IF pc[p] = "writing" THEN "line" ELSE "rest")
    /\ Unlock(p)
    /\ pc' = Put(pc, p, "closing")
    /\ faults' = faults + 1
    /\ UNCHANGED <<files, request, retries, handle, index, answer, use, crashes>>

\* fsync() raises: the line is complete, the index does not have it.
FailSync(p) ==
    /\ faults < use.faults
    /\ pc[p] = "flushing"
    /\ CompleteLine(p, FALSE)
    /\ Return(p, [verdict |-> "error"])
    /\ faults' = faults + 1
    /\ UNCHANGED <<path, created, request, pending, index, use, crashes>>

\* close() flushes the buffer again, and may succeed now, or drops it.
Close(p) ==
    /\ pc[p] = "closing"
    /\ \/ CompleteLine(p, pending[p] = "line")
       \/ UNCHANGED <<lines, torn>>
    /\ pending' = Put(pending, p, "nothing")
    /\ handle' = Put(handle, p, None)
    /\ answer' = Put(answer, p, [verdict |-> "error"])
    /\ retries' = Put(retries, p, 0)
    /\ pc' = Put(pc, p, "idle")
    /\ UNCHANGED <<path, created, holder, request, index, bounds>>

\* The process is killed: the kernel drops its lock, its buffer is lost.
Crash(p) ==
    /\ crashes < use.crashes
    /\ pc[p] # "down"
    /\ holder' = [i \in Inodes |-> IF holder[i] = p THEN None ELSE holder[i]]
    /\ pc' = Put(pc, p, "down")
    /\ request' = Put(request, p, None)
    /\ retries' = Put(retries, p, 0)
    /\ handle' = Put(handle, p, None)
    /\ pending' = Put(pending, p, "nothing")
    /\ records' = Put(records, p, NoRecords)
    /\ validEnd' = Put(validEnd, p, 0)
    /\ inode' = Put(inode, p, None)
    /\ answer' = Put(answer, p, None)
    /\ crashes' = crashes + 1
    /\ UNCHANGED <<files, use, faults>>

others == <<holder, pc, request, retries, handle, pending, index, answer, bounds>>

\* os.replace(other, path): the path names another file from now on.
Replace ==
    /\ created < MaxInodes
    /\ \E ls \in Imports : lines' = [lines EXCEPT ![created + 1] = ls]
    /\ created' = created + 1
    /\ path' = created + 1
    /\ UNCHANGED <<torn, others>>

\* The file is cut back to a line boundary while nobody has it open.
Truncate ==
    /\ use.truncated
    /\ path # None
    /\ \A p \in Procs : handle[p] # path
    /\ \E n \in 0..Len(lines[path]) : lines' = [lines EXCEPT ![path] = SubSeq(@, 1, n)]
    /\ torn' = [torn EXCEPT ![path] = None]
    /\ UNCHANGED <<path, created, others>>

-----------------------------------------------------------------------------
(* The program runs its own steps; calls, failures and users just happen. *)

Run(p) ==
    \/ OpenHandle(p) \/ Lock(p) \/ FindReplaced(p) \/ Synchronize(p) \/ RefuseCorrupt(p)
    \/ Opened(p) \/ FindExisting(p) \/ GoWrite(p) \/ StartWrite(p) \/ FinishWrite(p)
    \/ Confirm(p) \/ Close(p)

Environment == Replace \/ Truncate \/ \E p \in Procs : FailWrite(p) \/ FailSync(p) \/ Crash(p)

Next ==
    \/ \E p \in Procs : Run(p) \/ Construct(p) \/ \E r \in Records : AppendRecord(p, r)
    \/ Environment

Spec == Init /\ [][Next]_vars

-----------------------------------------------------------------------------
(* Properties *)

\* Whatever was killed, retried or replaced on the way, every file the store
\* wrote can be read back: each complete line is a record, each of a case of
\* its own, so that no later open can raise CorruptTraceStoreError.
StaysReadable == \A i \in Inodes : Scans(lines[i], NoRecords)

\* The in-memory index of a process is what the file holds up to the offset
\* the process will resume scanning from, no more and no less.
IndexIsBacked ==
    \A p \in Procs :
      pc[p] # "down" /\ inode[p] # None =>
        /\ validEnd[p] <= Len(lines[inode[p]])
        /\ records[p] = Indexed(SubSeq(lines[inode[p]], 1, validEnd[p]))

\* No opener mistakes a write in flight for the tail a crash left behind.
InFlightIsProtected == \A p \in Procs : pc[p] = "flushing" => torn[handle[p]] = p

\* The file users see.
Stored == IF path = None THEN <<>> ELSE lines[path]

TrueOf(a) ==
    CASE a.verdict \in {"appended", "present"} -> a.record \in ToSet(Stored)
      [] a.verdict = "conflict" ->
           /\ a.record \notin ToSet(Stored)
           /\ a.record.case \in {r.case : r \in ToSet(Stored)}
      [] a.verdict = "opened" -> a.cases = {r.case : r \in ToSet(Stored)}
      [] a.verdict = "corrupt" -> ~Scans(Stored, NoRecords)
      [] OTHER -> TRUE

\* Each answer is true of the file the path names when it is given: True and
\* False of append() mean the record is there, a conflict means that the file
\* has other evidence, an error that it cannot be read back, and a new store
\* lists exactly the completed cases.
AnswersAreTrue ==
    [][\A p \in Procs :
         answer'[p] # answer[p] /\ answer'[p] # None => TrueOf(answer'[p])]_vars

\* While only cooperating processes touch the path, the store is the log.
Log == INSTANCE AppendOnlyLog WITH NoAnswer <- None, log <- Stored

\* Every step of every process, killed ones included, is a step of the log.
ImplementsLog == Log!Spec

=============================================================================
