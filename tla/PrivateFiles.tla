---------------------------- MODULE PrivateFiles ----------------------------
(***************************************************************************)
(* The private files of one assessment: the evidence its finding saves     *)
(* bring, the reports generated from it, and what a permanent deletion     *)
(* does with them.                                                         *)
(*                                                                         *)
(* Rows live in the database, files on a disk: no transaction covers both. *)
(* A save writes its files before it takes the lock of the assessment and  *)
(* deletes them if the transaction fails.  A deletion moves the files into *)
(* a trash directory of its own, deletes the row, and empties the trash;   *)
(* an operation row says how far it got.                                   *)
(*                                                                         *)
(* A worker serves one request (or runs one command) at a time and may die *)
(* between any two steps.  The lock lives for a fixed time in the cache,   *)
(* whether its holder is dead or merely slow.                              *)
(***************************************************************************)
EXTENDS Naturals, FiniteSets

CONSTANTS
  Workers,
  Requests,   \* UUIDs of finding saves
  Contents,   \* contents of evidence files, told apart by their hash
  Carries,    \* request -> the contents of the files it uploads
  Limit,      \* how many evidence files an assessment may have
  Freezing,   \* setting freeze_after_generation
  Free,       \* the lock is not taken
  Dead,       \* the lock of a worker that died
  MaxName,    \* bound on the files and operations ever named
  MaxFaults   \* bound on crashes, overrun locks and failures of disk or database

Formats == {"pdf", "xlsx"}

ASSUME FilesAssumption ==
  /\ Free \notin Workers /\ Dead \notin Workers /\ Free # Dead
  /\ Carries \in [Requests -> (SUBSET Contents) \ {{}}]
  /\ \A r \in Requests : IsFiniteSet(Carries[r])
  /\ Limit \in Nat /\ MaxName \in Nat /\ MaxFaults \in Nat
  /\ Freezing \in BOOLEAN

VARIABLES
  assessment, \* version, whether it is a draft, whether it exists
  rows,       \* the rows that name a file
  journal,    \* the requests that have been saved
  uploads,    \* the requests whose temporary uploads are still there
  sent,       \* request -> the version it carries, 0 before it is sent
  disk,       \* the files in their places
  trash,      \* <<operation, file>>
  ops,        \* the deletion operations
  lock,
  work,       \* worker -> what it is doing
  next,       \* source of names
  faults,
  late,       \* history: some worker has outlived its lock
  left        \* history: files given up by a crash or a failure of the disk

data == <<assessment, rows, journal, uploads, sent>>
hist == <<late, left>>
vars == <<data, disk, trash, ops, lock, work, next, faults, hist>>

Idle ==
  [at |-> "idle", job |-> "none", what |-> "none", todo |-> {}, made |-> {}, num |-> 0,
   base |-> 0, op |-> 0, ok |-> FALSE]

Evidence == {r \in rows : r.kind = "evidence"}
Reports == rows \ Evidence

Fault ==
  /\ faults < MaxFaults
  /\ faults' = faults + 1

Goes(w, rec) == work' = [work EXCEPT ![w] = rec]
GoesTo(w, at) == work' = [work EXCEPT ![w].at = at]

\* The lock is released by its owner only.
Released(w) == lock' = IF lock = w THEN Free ELSE lock

Stops(w) == Goes(w, Idle) /\ Released(w)

Named == next <= MaxName /\ next' = next + 1

-----------------------------------------------------------------------------
(* Saving evidence: SaveFindingDetails with PrepareEvidenceFiles *)

\* A tab sends a save under the version it has loaded.
Send(r) ==
  /\ sent[r] = 0
  /\ \E v \in 1 .. assessment.ver : sent' = [sent EXCEPT ![r] = v]
  /\ uploads' = uploads \cup {r}
  /\ UNCHANGED <<assessment, rows, journal, disk, trash, ops, lock, work, next, faults, hist>>

\* The checks made while nothing is locked: no file twice, and room for all.
Fits(r) ==
  /\ \A e \in Evidence : e.hash \notin Carries[r]
  /\ Cardinality(Evidence) + Cardinality(Carries[r]) <= Limit

\* The request arrives, for the first time or again.  Its uploads must be
\* there; a stored result is returned before anything is checked or written.
SaveArrives(w, r) ==
  /\ work[w] = Idle
  /\ assessment.exists
  /\ r \in uploads
  /\ \/ /\ r \in journal
        /\ uploads' = uploads \ {r}
        /\ UNCHANGED work
     \/ /\ r \notin journal
        /\ assessment.draft
        /\ Fits(r)
        /\ Goes(w, [Idle EXCEPT !.at = "write", !.job = "save", !.what = r, !.todo = Carries[r]])
        /\ UNCHANGED uploads
  /\ UNCHANGED <<assessment, rows, journal, sent, disk, trash, ops, lock, next, faults, hist>>

WriteFile(w) ==
  /\ work[w].at = "write"
  /\ \E c \in work[w].todo :
       /\ Named
       /\ disk' = disk \cup {next}
       /\ Goes(w, [work[w] EXCEPT !.todo = @ \ {c}, !.made = @ \cup {<<next, c>>}])
  /\ UNCHANGED <<data, trash, ops, lock, faults, hist>>

\* A write that fails leaves nothing, or part of the file under a name the
\* compensation does not know.
PartWritten ==
  \/ UNCHANGED <<disk, next, left>>
  \/ /\ Named
     /\ disk' = disk \cup {next}
     /\ left' = left \cup {next}

WriteFails(w) ==
  /\ work[w].at = "write"
  /\ work[w].todo # {}
  /\ Fault
  /\ PartWritten
  /\ GoesTo(w, "undo")
  /\ UNCHANGED <<data, trash, ops, lock, late>>

\* Broken: the save is let through on the status alone.
AcceptsAnyVersion(r) == assessment.exists /\ assessment.draft

\* The transaction of a save accepts it.
Accepts(r) == assessment.exists /\ assessment.draft /\ sent[r] = assessment.ver

\* Broken: the files a repeated save has written are taken for stored ones.
AfterReplayKept == "answer"

\* A repeated save gives its files up: the first one's are stored.
AfterReplay == "undo"

EvidenceRow(m) == [kind |-> "evidence", file |-> m[1], hash |-> m[2], num |-> 0, base |-> 0]

CommitSave(w) ==
  LET r == work[w].what IN
  /\ work[w].at = "commit"
  /\ work[w].job = "save"
  /\ \/ /\ r \notin journal
        /\ Accepts(r)
        /\ rows' = rows \cup {EvidenceRow(m) : m \in work[w].made}
        /\ assessment' = [assessment EXCEPT !.ver = @ + 1]
        /\ journal' = journal \cup {r}
        /\ Goes(w, [work[w] EXCEPT !.at = "answer", !.ok = TRUE])
     \/ /\ r \in journal
        /\ Goes(w, [work[w] EXCEPT !.at = AfterReplay, !.ok = TRUE])
        /\ UNCHANGED <<rows, assessment, journal>>
     \/ /\ r \notin journal
        /\ ~ Accepts(r)
        /\ GoesTo(w, "undo")
        /\ UNCHANGED <<rows, assessment, journal>>
  /\ Released(w)
  /\ UNCHANGED <<uploads, sent, disk, trash, ops, next, faults, hist>>

\* compensate: one file after the other; a failure is logged.
Undo(w) ==
  /\ work[w].at = "undo"
  /\ \E m \in work[w].made :
       /\ Goes(w, [work[w] EXCEPT !.made = @ \ {m}])
       /\ \/ /\ disk' = disk \ {m[1]}
             /\ UNCHANGED <<faults, left>>
          \/ /\ Fault
             /\ left' = left \cup {m[1]}
             /\ UNCHANGED disk
  /\ UNCHANGED <<data, trash, ops, lock, next, late>>

\* Broken: the uploads go whatever became of the save.
AnsweredAnyway(w) == work[w].job = "save"

\* A save was stored, by this delivery or an earlier one.
Answered(w) == work[w].job = "save" /\ work[w].ok

\* The page has the result, and only then deletes the temporary uploads.
Answer(w) ==
  /\ \/ work[w].at = "answer"
     \/ work[w].at = "undo" /\ work[w].made = {}
  /\ uploads' = IF Answered(w) THEN uploads \ {work[w].what} ELSE uploads
  /\ Stops(w)
  /\ UNCHANGED <<assessment, rows, journal, sent, disk, trash, ops, next, faults, hist>>

-----------------------------------------------------------------------------
(* The lock of the assessment *)

Waiting(w) ==
  \/ work[w].at = "wait"
  \/ work[w].at = "write" /\ work[w].todo = {}

\* Broken: the report is built beside the saves.
LockableReports(w) == lock = Free \/ work[w].job = "report"

Lockable(w) == lock = Free

\* nextVersion: one more than the reports of the format have reached.
NextVersion(f, n) ==
  /\ \A r \in Reports : r.kind = f => r.num < n
  /\ n = 1 \/ \E r \in Reports : r.kind = f /\ r.num = n - 1

\* The snapshot of a report reads the evidence files too.
Showable == assessment.exists /\ {e.file : e \in Evidence} \subseteq disk

\* What is read first under the lock.
TakeLock(w) ==
  /\ Waiting(w)
  /\ Lockable(w)
  /\ lock' = w
  /\ \/ /\ work[w].job = "save"
        /\ GoesTo(w, "commit")
     \/ /\ work[w].job = "report"
        /\ Showable
        /\ \E n \in 1 .. MaxName + 1 :
             /\ NextVersion(work[w].what, n)
             /\ Goes(w, [work[w] EXCEPT !.at = "render", !.base = assessment.ver, !.num = n])
     \/ /\ work[w].job = "report"
        /\ ~ Showable
        /\ GoesTo(w, "undo")
     \/ /\ work[w].job \in {"one", "all"}
        /\ GoesTo(w, "list")
  /\ UNCHANGED <<data, disk, trash, ops, next, faults, hist>>

\* block(5): the wait is given up.
LockTimeout(w) ==
  /\ Waiting(w)
  /\ lock # Free
  /\ GoesTo(w, "undo")
  /\ UNCHANGED <<data, disk, trash, ops, lock, next, faults, hist>>

\* The lock's time is over, whether its owner still works or not.
LockExpires ==
  /\ lock # Free
  /\ \/ lock = Dead /\ UNCHANGED <<faults, late>>
     \/ lock \in Workers /\ Fault /\ late' = TRUE
  /\ lock' = Free
  /\ UNCHANGED <<data, disk, trash, ops, work, next, left>>

\* The files of the trash of operation o.
InTrash(o) == {t[2] : t \in {u \in trash : u[1] = o}}

\* The worker dies; its lock stays.
Crash(w) ==
  /\ work[w] # Idle
  /\ Fault
  /\ Goes(w, Idle)
  /\ lock' = IF lock = w THEN Dead ELSE lock
  /\ left' = left \cup ({m[1] : m \in work[w].made} \ {r.file : r \in rows})
                  \cup IF work[w].at = "record" THEN InTrash(work[w].op) ELSE {}
  /\ UNCHANGED <<data, disk, trash, ops, next, late>>

-----------------------------------------------------------------------------
(* Generating a report *)

ReportAsked(w, f) ==
  /\ work[w] = Idle
  /\ assessment.exists
  /\ Goes(w, [Idle EXCEPT !.at = "wait", !.job = "report", !.what = f])
  /\ UNCHANGED <<data, disk, trash, ops, lock, next, faults, hist>>

Render(w) ==
  /\ work[w].at = "render"
  /\ Named
  /\ disk' = disk \cup {next}
  /\ Goes(w, [work[w] EXCEPT !.at = "commit", !.made = {<<next, "report">>}])
  /\ UNCHANGED <<data, trash, ops, lock, faults, hist>>

\* Too slow, too large, or not stored.
RenderFails(w) ==
  /\ work[w].at = "render"
  /\ Fault
  /\ PartWritten
  /\ GoesTo(w, "undo")
  /\ UNCHANGED <<data, trash, ops, lock, late>>

\* The unique index on assessment, format and version.
NumberTaken(w) == \E r \in Reports : r.kind = work[w].what /\ r.num = work[w].num

Freezes(w) == Freezing /\ work[w].what = "pdf" /\ assessment.draft

ReportRow(w, m) ==
  [kind |-> work[w].what, file |-> m[1], hash |-> "report", num |-> work[w].num,
   base |-> work[w].base]

CommitReport(w) ==
  /\ work[w].at = "commit"
  /\ work[w].job = "report"
  /\ \/ /\ assessment.exists
        /\ ~ NumberTaken(w)
        /\ rows' = rows \cup {ReportRow(w, m) : m \in work[w].made}
        /\ assessment' = IF Freezes(w)
                         THEN [assessment EXCEPT !.ver = @ + 1, !.draft = FALSE]
                         ELSE assessment
        /\ Stops(w)
        /\ UNCHANGED faults
     \/ /\ ~ assessment.exists \/ NumberTaken(w)
        /\ GoesTo(w, "undo")
        /\ UNCHANGED <<rows, assessment, lock, faults>>
     \/ /\ Fault
        /\ GoesTo(w, "undo")
        /\ UNCHANGED <<rows, assessment, lock>>
  /\ UNCHANGED <<journal, uploads, sent, disk, trash, ops, next, hist>>

-----------------------------------------------------------------------------
(* Permanent deletion, of one report or of the assessment *)

DeletionAsked(w) ==
  /\ work[w] = Idle
  /\ assessment.exists
  /\ \/ \E r \in Reports : Goes(w, [Idle EXCEPT !.at = "wait", !.job = "one", !.what = r])
     \/ Goes(w, [Idle EXCEPT !.at = "wait", !.job = "all"])
  /\ UNCHANGED <<data, disk, trash, ops, lock, next, faults, hist>>

Targets(w) == IF work[w].job = "one" THEN {work[w].what} ELSE rows

\* Broken: the row is stored without its status.
OperationUnset(n, files) == [id |-> n, status |-> "none", files |-> files]

\* Broken: the operation counts as committed before a file is moved.
OperationCommitted(n, files) == [id |-> n, status |-> "committed", files |-> files]

Operation(n, files) == [id |-> n, status |-> "staged", files |-> files]

\* buildManifest, and the operation row: every file must be in its place.
List(w) ==
  LET files == {r.file : r \in Targets(w)} IN
  /\ work[w].at = "list"
  /\ \/ /\ files \subseteq disk
        /\ Named
        /\ ops' = ops \cup {Operation(next, files)}
        /\ Goes(w, [work[w] EXCEPT !.at = "stage", !.todo = files, !.op = next])
     \/ /\ ~ files \subseteq disk
        /\ GoesTo(w, "undo")
        /\ UNCHANGED <<ops, next>>
  /\ UNCHANGED <<data, disk, trash, lock, faults, hist>>

\* stageFiles: one move after the other.
Stage(w) ==
  /\ work[w].at = "stage"
  /\ \E f \in work[w].todo :
       \/ /\ f \in disk
          /\ disk' = disk \ {f}
          /\ trash' = trash \cup {<<work[w].op, f>>}
          /\ Goes(w, [work[w] EXCEPT !.todo = @ \ {f}])
          /\ UNCHANGED faults
       \/ /\ f \notin disk
          /\ GoesTo(w, "restore")
          /\ UNCHANGED <<disk, trash, faults>>
       \/ /\ Fault
          /\ GoesTo(w, "restore")
          /\ UNCHANGED <<disk, trash>>
  /\ UNCHANGED <<data, ops, lock, next, hist>>

\* forceDelete must affect exactly one row.
Deletable(w) ==
  IF work[w].job = "one" THEN work[w].what \in rows ELSE assessment.exists

\* The rows of an assessment go with it.
DeleteRow(w) ==
  /\ work[w].at = "stage"
  /\ work[w].todo = {}
  /\ \/ /\ Deletable(w)
        /\ rows' = rows \ Targets(w)
        /\ IF work[w].job = "one"
           THEN UNCHANGED <<assessment, journal>>
           ELSE assessment' = [assessment EXCEPT !.exists = FALSE] /\ journal' = {}
        /\ GoesTo(w, "record")
        /\ UNCHANGED faults
     \/ /\ ~ Deletable(w)
        /\ GoesTo(w, "restore")
        /\ UNCHANGED <<rows, assessment, journal, faults>>
     \/ /\ Fault
        /\ GoesTo(w, "restore")
        /\ UNCHANGED <<rows, assessment, journal>>
  /\ UNCHANGED <<uploads, sent, disk, trash, ops, lock, next, hist>>

WithStatus(o, status) == {IF x.id = o THEN [x EXCEPT !.status = status] ELSE x : x \in ops}

\* Broken: the restoration ends one file too early.
AllBackEarly(o) == Cardinality(InTrash(o)) <= 1

AllBack(o) == InTrash(o) = {}

\* restoreFiles, then the status; what failed before may fail here again (and
\* is not counted twice): the operation stays staged and the rest of its files
\* in the trash.
Restore(w) ==
  LET o == work[w].op IN
  /\ work[w].at = "restore"
  /\ \/ /\ AllBack(o)
        /\ ops' = WithStatus(o, "restored")
        /\ Stops(w)
        /\ UNCHANGED <<disk, trash, faults>>
     \/ /\ \E f \in InTrash(o) :
             /\ disk' = disk \cup {f}
             /\ trash' = trash \ {<<o, f>>}
        /\ UNCHANGED <<ops, work, lock, faults>>
     \/ /\ Stops(w)
        /\ UNCHANGED <<disk, trash, ops, faults>>
  /\ UNCHANGED <<data, next, hist>>

\* The row is gone; if this cannot be recorded the operation stays staged.
\* Then isDirectory: without a file in the trash there is nothing to remove.
Record(w) ==
  LET o == work[w].op IN
  /\ work[w].at = "record"
  /\ \/ /\ ops' = WithStatus(o, "committed")
        /\ GoesTo(w, IF InTrash(o) = {} THEN "close" ELSE "empty")
        /\ UNCHANGED <<lock, faults, left>>
     \/ /\ Fault
        /\ Stops(w)
        /\ left' = left \cup InTrash(o)
        /\ UNCHANGED ops
  /\ UNCHANGED <<data, disk, trash, next, late>>

\* The removal of the trash of o stops half-way: some of its files stay.
HalfEmptied(o) ==
  \E kept \in SUBSET InTrash(o) :
    /\ kept # {}
    /\ trash' = {t \in trash : t[1] = o => t[2] \in kept}

\* deleteDirectory answers true: the trash is empty, or it could not remove
\* some of the files, which it does not tell.
Removed(o) ==
  \/ /\ trash' = {t \in trash : t[1] # o}
     /\ UNCHANGED <<faults, left>>
  \/ /\ Fault
     /\ HalfEmptied(o)
     /\ left' = left \cup {t[2] : t \in {u \in trash' : u[1] = o}}

\* It answers false only when another worker has removed the directory since
\* isDirectory saw it.
Vanished(o) ==
  /\ InTrash(o) = {}
  /\ UNCHANGED <<trash, faults, left>>

\* It throws: the directory cannot be read.
RemovalThrows(o) ==
  /\ Fault
  /\ HalfEmptied(o)
  /\ UNCHANGED left

\* Nothing catches an exception here: the operation stays committed.
Empty(w) ==
  LET o == work[w].op IN
  /\ work[w].at = "empty"
  /\ \/ /\ Removed(o)
        /\ GoesTo(w, "close")
        /\ UNCHANGED <<ops, lock>>
     \/ /\ Vanished(o)
        /\ ops' = WithStatus(o, "cleanup_failed")
        /\ Stops(w)
     \/ /\ RemovalThrows(o)
        /\ Stops(w)
        /\ UNCHANGED ops
  /\ UNCHANGED <<data, disk, next, late>>

Close(w) ==
  /\ work[w].at = "close"
  /\ \/ /\ ops' = WithStatus(work[w].op, "cleaned")
        /\ UNCHANGED faults
     \/ /\ Fault
        /\ UNCHANGED ops
  /\ Stops(w)
  /\ UNCHANGED <<data, disk, trash, next, hist>>

-----------------------------------------------------------------------------
(* The command storage:cleanup *)

\* Broken: operations that never reached the database deletion are taken too.
RetryableStaged == {o \in ops : o.status \in {"staged", "committed", "cleanup_failed"}}

Retryable == {o \in ops : o.status \in {"committed", "cleanup_failed"}}

CleanupStarts(w) ==
  /\ work[w] = Idle
  /\ Retryable # {}
  /\ Goes(w, [Idle EXCEPT !.at = "pick", !.job = "cleanup", !.todo = {o.id : o \in Retryable}])
  /\ UNCHANGED <<data, disk, trash, ops, lock, next, faults, hist>>

\* The next operation of the list read at the start, and isDirectory.
Pick(w) ==
  /\ work[w].at = "pick"
  /\ \/ \E o \in work[w].todo :
          Goes(w, [work[w] EXCEPT !.at = IF InTrash(o) = {} THEN "cleaned" ELSE "clean",
                                  !.op = o, !.todo = @ \ {o}])
     \/ work[w].todo = {} /\ Goes(w, Idle)
  /\ UNCHANGED <<data, disk, trash, ops, lock, next, faults, hist>>

\* An exception, and the answer false, are recorded.
Clean(w) ==
  LET o == work[w].op IN
  /\ work[w].at = "clean"
  /\ \/ /\ Removed(o)
        /\ GoesTo(w, "cleaned")
        /\ UNCHANGED ops
     \/ /\ Vanished(o) \/ RemovalThrows(o)
        /\ ops' = WithStatus(o, "cleanup_failed")
        /\ GoesTo(w, "pick")
  /\ UNCHANGED <<data, disk, lock, next, late>>

Cleaned(w) ==
  /\ work[w].at = "cleaned"
  /\ \/ /\ ops' = WithStatus(work[w].op, "cleaned")
        /\ UNCHANGED faults
     \/ /\ Fault
        /\ ops' = WithStatus(work[w].op, "cleanup_failed")
  /\ GoesTo(w, "pick")
  /\ UNCHANGED <<data, disk, trash, lock, next, hist>>

-----------------------------------------------------------------------------
(* The specification *)

Init ==
  /\ assessment = [ver |-> 1, draft |-> TRUE, exists |-> TRUE]
  /\ rows = {} /\ journal = {} /\ uploads = {}
  /\ sent = [r \in Requests |-> 0]
  /\ disk = {} /\ trash = {} /\ ops = {}
  /\ lock = Free
  /\ work = [w \in Workers |-> Idle]
  /\ next = 1 /\ faults = 0 /\ late = FALSE /\ left = {}

Asked(w) ==
  \/ \E r \in Requests : SaveArrives(w, r)
  \/ \E f \in Formats : ReportAsked(w, f)
  \/ DeletionAsked(w)
  \/ CleanupStarts(w)

Step(w) ==
  \/ WriteFile(w) \/ WriteFails(w) \/ CommitSave(w) \/ Undo(w) \/ Answer(w)
  \/ TakeLock(w) \/ LockTimeout(w)
  \/ Render(w) \/ RenderFails(w) \/ CommitReport(w)
  \/ List(w) \/ Stage(w) \/ DeleteRow(w) \/ Restore(w) \/ Record(w) \/ Empty(w) \/ Close(w)
  \/ Pick(w) \/ Clean(w) \/ Cleaned(w)

Next ==
  \/ \E r \in Requests : Send(r)
  \/ \E w \in Workers : Asked(w) \/ Step(w) \/ Crash(w)
  \/ LockExpires

Spec == Init /\ [][Next]_vars

-----------------------------------------------------------------------------
(* Properties *)

Names == 1 .. MaxName

Places ==
  {"idle", "write", "wait", "commit", "undo", "answer", "render", "list", "stage", "record",
   "restore", "empty", "close", "pick", "clean", "cleaned"}

Statuses == {"staged", "committed", "cleanup_failed", "cleaned", "restored"}

\* The type invariant.
FTypeOK ==
  /\ assessment \in [ver : Nat \ {0}, draft : BOOLEAN, exists : BOOLEAN]
  /\ rows \subseteq [kind : Formats \cup {"evidence"}, file : Names,
                     hash : Contents \cup {"report"}, num : Nat, base : Nat]
  /\ journal \subseteq Requests
  /\ uploads \subseteq Requests
  /\ sent \in [Requests -> Nat]
  /\ disk \subseteq Names
  /\ trash \subseteq Names \X Names
  /\ ops \subseteq [id : Names, status : Statuses, files : SUBSET Names]
  /\ lock \in Workers \cup {Free, Dead}
  /\ DOMAIN work = Workers
  /\ \A w \in Workers : work[w].at \in Places /\ work[w].op \in {0} \cup Names
  /\ next \in 1 .. MaxName + 1
  /\ faults \in 0 .. MaxFaults
  /\ left \subseteq Names

HasStatus(o, statuses) == \E x \in ops : x.id = o /\ x.status \in statuses

\* No row ever loses its file: it is in its place, or in the trash of a
\* deletion that has not been decided, from where nothing removes it.  This
\* is what the order of permanentlyDelete and its compensation, and the
\* statuses storage:cleanup picks up, are for, whatever crashes or fails and
\* however long a worker outlives its lock.
RowsKeepTheirFiles ==
  \A r \in rows :
    \/ r.file \in disk
    \/ \E t \in trash : t[2] = r.file /\ HasStatus(t[1], {"staged"})

\* An operation that says it is over is: nothing is left in the trash of a
\* restored one, and of the files of a cleaned one none is in its place and none
\* in the trash but those its removal could not delete without telling it.  A
\* failure at any other point, and the command working on an operation its own
\* request is still closing, must not hide files from the next cleanup.
FinishedDeletionsAreDone ==
  \A o \in ops :
    /\ o.status = "restored" => InTrash(o.id) = {}
    /\ o.status = "cleaned" => o.files \cap disk = {} /\ InTrash(o.id) \subseteq left

\* What docs/reference/reports-evidence-and-files.md:117 says of the committed
\* trash, that it is never silently complete: a cleaned operation has no file
\* in its trash.  DeleteEntityAccordingToPolicy and CleanupDeletionOperations
\* take the answer of deleteDirectory for it.
CleanedTrashIsEmpty == \A o \in ops : o.status = "cleaned" => InTrash(o.id) = {}

\* A file without a row is explained: somebody is working on it, it waits for
\* storage:cleanup, or it was given up by a crash or a failure of the disk
\* (PrepareEvidenceFiles writes before the lock, the reports before the row).
\* As long as no worker outlives its lock, refusals, repeated requests, timeouts
\* and deletions leave nothing behind.
OrphansAreExplained ==
  ~ late =>
    \A f \in disk \cup {t[2] : t \in trash} :
      \/ \E r \in rows : r.file = f
      \/ \E w \in Workers :
           (\E m \in work[w].made : m[1] = f) \/ f \in InTrash(work[w].op)
      \/ \E t \in trash : t[2] = f /\ HasStatus(t[1], {"committed", "cleanup_failed"})
      \/ f \in left

\* The quota and the search for duplicates are read before the lock and never
\* again; that two saves passing them together cannot both be stored is the
\* work of the version each carries.
EvidenceWithinLimits ==
  /\ Cardinality(Evidence) <= Limit
  /\ \A e, f \in Evidence : e.hash = f.hash => e = f

\* The temporary uploads of a save outlive it until it is stored
\* (WorkspaceAssessment deletes them after persistFindingPayload returns), so
\* that a refused, crashed or timed-out save can be sent again.
UploadsOutliveFailures ==
  assessment.exists => \A r \in Requests : sent[r] # 0 /\ r \notin uploads => r \in journal

\* Without requests, versions and lock this is a FileStore: every step writes,
\* stores, gives up, moves or discards files as it promises, or changes none.
\* What a backup beside the application relies on.
Fresh == {m[1] : m \in UNION {work[w].made : w \in {v \in Workers : work[v].at # "answer"}}}

Store ==
  INSTANCE FileStore WITH
    Files <- Names, Operations <- Names,
    rows <- {r.file : r \in rows},
    staged <- {o.id : o \in {x \in ops : x.status = "staged"}},
    fresh <- Fresh,
    used <- 1 .. (next - 1)

ImplementsFileStore == Store!FileSpec

\* The report whose generation freezes an assessment shows the version it
\* freezes: the transaction does not compare them, the lock held over the
\* rendering does.
FrozenReportIsCurrent ==
  [][assessment.draft /\ ~ assessment'.draft /\ ~ late'
     => \E r \in rows' \ rows : r.kind = "pdf" /\ r.base = assessment.ver]_vars
=============================================================================
