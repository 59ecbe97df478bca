----------------------- MODULE PrivateFilesLockProofs -----------------------
(***************************************************************************)
(* What the lock of an assessment is for, and what holds without it: the   *)
(* report that freezes it shows it as it is frozen, no file is left behind *)
(* that nobody knows of, and the quota of evidence files and the search    *)
(* for duplicates, read before the lock is taken, hold when the rows are   *)
(* stored: the version a save carries tells whether they still apply.      *)
(***************************************************************************)
EXTENDS PrivateFilesProofs, FiniteSetTheorems

-----------------------------------------------------------------------------
(* Under the lock *)

Locked(x) == x.at \in {"render", "commit"}

\* As long as no lock has been overrun, who works under it has it.
LockHeld == ~ late => \A w \in Workers : Locked(work[w]) => lock = w

\* A task comes under the lock by taking it, and to its transaction from there.
LEMMA LockedStep ==
  ASSUME TypeInv, [Next]_vars, NEW v \in Workers, Locked(work'[v])
  PROVE  work'[v] = work[v] \/ TakeLock(v) \/ Render(v)
<1>. USE DEF Locked
<1>. SUFFICES ASSUME work'[v] # work[v], ~ TakeLock(v), ~ Render(v) PROVE FALSE
  OBVIOUS
<1>1. work[v] \in Tasks
  BY DEF TypeInv
<1>2. ASSUME Stops(v) \/ Goes(v, Idle) PROVE FALSE
  <2>1. Idle.at = "idle"
    BY DEF Idle
  <2>. QED BY <1>2, <2>1, GoesFields DEF Stops
<1>3. ASSUME NEW at, GoesTo(v, at), at \notin {"render", "commit"} PROVE FALSE
  BY <1>3, GoesToFields
<1>4. ASSUME NEW x, Goes(v, x), ~ Locked(x) PROVE FALSE
  BY <1>4, GoesFields
<1>5. ~ Asked(v) /\ ~ Crash(v)
  BY <1>2, AskedFields DEF Crash
<1>6. CASE Step(v)
  <2>1. CASE WriteFile(v)
    <3>1. ASSUME NEW c, Goes(v, [work[v] EXCEPT !.todo = @ \ {c}, !.made = @ \cup {<<next, c>>}])
          PROVE  FALSE
      BY <1>1, <1>4, <2>1, <3>1 DEF WriteFile, Tasks
    <3>. QED BY <2>1, <3>1 DEF WriteFile
  <2>2. CASE \/ WriteFails(v) \/ LockTimeout(v) \/ RenderFails(v) \/ DeleteRow(v) \/ Cleaned(v)
             \/ Clean(v)
    BY <1>3, <2>2 DEF WriteFails, LockTimeout, RenderFails, DeleteRow, Cleaned, Clean
  <2>3. CASE CommitSave(v)
    <3>1. ASSUME NEW at, at \in {"answer", "undo"},
                 Goes(v, [work[v] EXCEPT !.at = at, !.ok = TRUE])
          PROVE  FALSE
      BY <1>1, <1>4, <3>1 DEF Tasks
    <3>. QED BY <1>3, <2>3, <3>1 DEF CommitSave, AfterReplay
  <2>4. CASE Undo(v)
    <3>1. ASSUME NEW m, Goes(v, [work[v] EXCEPT !.made = @ \ {m}]) PROVE FALSE
      BY <1>1, <1>4, <2>4, <3>1 DEF Undo, Tasks
    <3>. QED BY <2>4, <3>1 DEF Undo
  <2>5. CASE \/ Answer(v) \/ Close(v) \/ CommitReport(v) \/ Restore(v) \/ Record(v) \/ Empty(v)
    BY <1>2, <1>3, <2>5 DEF Answer, Close, CommitReport, Restore, Record, Empty
  <2>6. CASE List(v)
    <3>1. ASSUME NEW files, Goes(v, [work[v] EXCEPT !.at = "stage", !.todo = files, !.op = next])
          PROVE  FALSE
      BY <1>1, <1>4, <3>1 DEF Tasks
    <3>. QED BY <1>3, <2>6, <3>1 DEF List
  <2>7. CASE Stage(v)
    <3>1. ASSUME NEW f, Goes(v, [work[v] EXCEPT !.todo = @ \ {f}]) PROVE FALSE
      BY <1>1, <1>4, <2>7, <3>1 DEF Stage, Tasks
    <3>. QED BY <1>3, <2>7, <3>1 DEF Stage
  <2>8. CASE Pick(v)
    <3>1. ASSUME NEW at \in {"clean", "cleaned"}, NEW o,
                 Goes(v, [work[v] EXCEPT !.at = at, !.op = o, !.todo = @ \ {o}])
          PROVE  FALSE
      BY <1>1, <1>4, <3>1 DEF Tasks
    <3>. QED BY <1>2, <2>8, <3>1 DEF Pick
  <2>. QED BY <1>6, <2>1, <2>2, <2>3, <2>4, <2>5, <2>6, <2>7, <2>8 DEF Step
<1>. QED BY <1>5, <1>6, Mover

\* The lock is taken when it is free, and goes from a live owner that has not
\* overrun it when the owner leaves it.
Leaves(u) == work'[u].at \in {"idle", "answer", "undo"}

LEMMA LockStep ==
  ASSUME TypeInv, [Next]_vars, ~ late'
  PROVE  /\ ~ late
         /\ \/ lock' = lock
            \/ lock \notin Workers
            \/ \E u \in Workers : lock = u /\ Leaves(u)
<1>. USE FilesAssumption DEF data, hist
<1>1. ASSUME NEW u \in Workers, Stops(u) PROVE lock' = lock \/ (lock = u /\ Leaves(u))
  <2>1. Idle.at = "idle"
    BY DEF Idle
  <2>. QED BY <1>1, <2>1, GoesFields DEF Stops, Released, Leaves
<1>2. ASSUME NEW u \in Workers, CommitSave(u)
      PROVE  ~ late /\ (lock' = lock \/ (lock = u /\ Leaves(u)))
  <2>. DEFINE z(at) == [work[u] EXCEPT !.at = at, !.ok = TRUE]
  <2>1. \A at : z(at).at = at
    BY DEF TypeInv, Tasks
  <2>2. GoesTo(u, "undo") \/ Goes(u, z("answer")) \/ Goes(u, z("undo"))
    BY <1>2 DEF CommitSave, AfterReplay
  <2>. HIDE DEF z
  <2>3. Leaves(u)
    BY <1>2, <2>1, <2>2, GoesFields, GoesToFields DEF Leaves
  <2>. QED BY <1>2, <2>3 DEF CommitSave, Released
<1>3. ASSUME NEW u \in Workers, Asked(u) PROVE late' = late /\ lock' = lock
  BY <1>3 DEF Asked, SaveArrives, ReportAsked, DeletionAsked, CleanupStarts
<1>4. ASSUME NEW u \in Workers, Crash(u)
      PROVE  ~ late /\ (lock' = lock \/ (lock = u /\ Leaves(u)))
  <2>1. Idle.at = "idle"
    BY DEF Idle
  <2>. QED BY <1>4, <2>1, GoesFields DEF Crash, Leaves
<1>5. CASE LockExpires
  BY <1>5 DEF LockExpires
<1>6. ASSUME NEW u \in Workers, TakeLock(u) PROVE ~ late /\ lock \notin Workers
  BY <1>6 DEF TakeLock, Lockable
<1>7. ASSUME NEW u \in Workers, Step(u), ~ CommitSave(u), ~ TakeLock(u)
      PROVE  late' = late /\ (lock' = lock \/ Stops(u))
  BY <1>7
  DEF Step, WriteFile, WriteFails, Undo, Answer, LockTimeout, Render, RenderFails, CommitReport,
      List, Stage, DeleteRow, Restore, Record, Empty, Close, Pick, Clean, Cleaned
<1>. QED BY <1>1, <1>2, <1>3, <1>4, <1>5, <1>6, <1>7 DEF Next, Send, vars

LEMMA LockHeldStep ==
  ASSUME TypeInv, LockHeld, [Next]_vars
  PROVE  LockHeld'
<1>. SUFFICES ASSUME ~ late', NEW v \in Workers, Locked(work'[v]) PROVE lock' = v
  BY DEF LockHeld
<1>1. ~ late
  BY LockStep
<1>2. CASE Locked(work[v]) /\ ~ TakeLock(v)
  <2>1. lock = v
    BY <1>1, <1>2 DEF LockHeld
  <2>. QED BY <1>2, <2>1, LockStep DEF Leaves, Locked
<1>3. CASE TakeLock(v)
  BY <1>3 DEF TakeLock
<1>4. CASE Render(v)
  BY <1>2, <1>3, <1>4 DEF Render, Locked
<1>. QED BY <1>2, <1>3, <1>4, LockedStep

-----------------------------------------------------------------------------
(* The frozen report *)

\* The lock keeps the version a report has shown, until the report is stored.
SnapshotCurrent ==
  ~ late =>
    \A w \in Workers : Locked(work[w]) /\ work[w].job = "report" => work[w].base = assessment.ver

Rendered ==
  \A w \in Workers : work[w].at = "commit" /\ work[w].job = "report" => work[w].made # {}

FrozenInv == LockHeld /\ SnapshotCurrent /\ Rendered

\* The transaction of a report that freezes the assessment.
FreezingStep(u) ==
  /\ work[u].at = "commit" /\ work[u].job = "report" /\ work[u].what = "pdf"
  /\ ~ NumberTaken(u)
  /\ rows' = rows \cup {ReportRow(u, m) : m \in work[u].made}

\* Who changes the version or the status of the assessment is in a transaction
\* and leaves it.
LEMMA AssessmentStep ==
  ASSUME TypeInv, [Next]_vars
  PROVE  /\ assessment.draft /\ ~ assessment'.draft => \E u \in Workers : FreezingStep(u)
         /\ \/ assessment'.ver = assessment.ver
            \/ \E u \in Workers : work[u].at = "commit" /\ ~ Locked(work'[u])
<1>. USE DEF data, hist
<1>1. CASE assessment' = assessment
  BY <1>1
<1>2. ASSUME NEW u \in Workers, CommitSave(u)
      PROVE  /\ assessment'.draft = assessment.draft
             /\ \/ assessment'.ver = assessment.ver
                \/ work[u].at = "commit" /\ ~ Locked(work'[u])
  <2>. DEFINE z == [work[u] EXCEPT !.at = "answer", !.ok = TRUE]
  <2>1. z.at = "answer"
    BY DEF TypeInv, Tasks
  <2>2. /\ work[u].at = "commit"
        /\ \/ assessment' = assessment
           \/ assessment' = [assessment EXCEPT !.ver = @ + 1] /\ Goes(u, z)
    BY <1>2 DEF CommitSave
  <2>. HIDE DEF z
  <2>3. [assessment EXCEPT !.ver = @ + 1].draft = assessment.draft
    BY DEF TypeInv
  <2>. QED BY <2>1, <2>2, <2>3, GoesFields DEF Locked
<1>3. ASSUME NEW u \in Workers, CommitReport(u)
      PROVE  /\ assessment.draft /\ ~ assessment'.draft => FreezingStep(u)
             /\ \/ assessment'.ver = assessment.ver
                \/ work[u].at = "commit" /\ ~ Locked(work'[u])
  <2>1. Idle.at = "idle"
    BY DEF Idle
  <2>2. \/ assessment' = assessment
        \/ /\ Freezes(u) /\ Stops(u) /\ ~ NumberTaken(u)
           /\ rows' = rows \cup {ReportRow(u, m) : m \in work[u].made}
    BY <1>3 DEF CommitReport
  <2>3. CASE /\ Freezes(u) /\ Stops(u) /\ ~ NumberTaken(u)
             /\ rows' = rows \cup {ReportRow(u, m) : m \in work[u].made}
    <3>1. ~ Locked(work'[u])
      BY <2>1, <2>3, GoesFields DEF Stops, Locked
    <3>. QED BY <1>3, <2>3, <3>1 DEF CommitReport, Freezes, FreezingStep
  <2>. QED BY <2>2, <2>3
<1>4. ASSUME NEW u \in Workers, DeleteRow(u)
      PROVE  assessment'.draft = assessment.draft /\ assessment'.ver = assessment.ver
  <2>1. /\ [assessment EXCEPT !.exists = FALSE].draft = assessment.draft
        /\ [assessment EXCEPT !.exists = FALSE].ver = assessment.ver
    BY DEF TypeInv
  <2>. QED BY <1>4, <2>1 DEF DeleteRow
<1>5. ASSUME NEW u \in Workers, Asked(u) \/ Crash(u) PROVE assessment' = assessment
  BY <1>5 DEF Asked, SaveArrives, ReportAsked, DeletionAsked, CleanupStarts, Crash
<1>6. ASSUME NEW u \in Workers, Step(u), ~ CommitSave(u), ~ CommitReport(u), ~ DeleteRow(u)
      PROVE  assessment' = assessment
  BY <1>6
  DEF Step, WriteFile, WriteFails, Undo, Answer, TakeLock, LockTimeout, Render, RenderFails, List,
      Stage, Restore, Record, Empty, Close, Pick, Clean, Cleaned
<1>. QED BY <1>1, <1>2, <1>3, <1>4, <1>5, <1>6 DEF Next, Send, LockExpires, vars

\* What the first step under the lock reads.
LEMMA TakenFields ==
  ASSUME TypeInv, NEW v \in Workers, TakeLock(v)
  PROVE  /\ work'[v].job = work[v].job
         /\ Locked(work'[v]) /\ work[v].job = "report" =>
              work'[v].at = "render" /\ work'[v].base = assessment.ver
<1>. DEFINE z(n) == [work[v] EXCEPT !.at = "render", !.base = assessment.ver, !.num = n]
<1>1. \A n : z(n).at = "render" /\ z(n).job = work[v].job /\ z(n).base = assessment.ver
  BY DEF TypeInv, Tasks
<1>2. \/ GoesTo(v, "commit") /\ work[v].job = "save"
      \/ GoesTo(v, "undo")
      \/ GoesTo(v, "list")
      \/ \E n : Goes(v, z(n))
  BY DEF TakeLock
<1>. HIDE DEF z
<1>. QED BY <1>1, <1>2, GoesFields, GoesToFields DEF Locked

LEMMA RenderedFields ==
  ASSUME TypeInv, NEW v \in Workers, Render(v)
  PROVE  /\ work'[v].job = work[v].job /\ work'[v].base = work[v].base /\ work'[v].made # {}
         /\ Locked(work[v])
<1>. DEFINE z == [work[v] EXCEPT !.at = "commit", !.made = {<<next, "report">>}]
<1>1. z.job = work[v].job /\ z.base = work[v].base /\ z.made # {}
  BY DEF TypeInv, Tasks
<1>2. Goes(v, z) /\ work[v].at = "render"
  BY DEF Render
<1>. HIDE DEF z
<1>. QED BY <1>1, <1>2, GoesFields DEF Locked

LEMMA FrozenInvStep ==
  ASSUME TypeInv, FrozenInv, [Next]_vars
  PROVE  FrozenInv'
<1>. USE DEF data, hist, FrozenInv
<1>1. SnapshotCurrent'
  <2>. SUFFICES ASSUME ~ late', NEW v \in Workers, Locked(work'[v]), work'[v].job = "report"
                PROVE  work'[v].base = assessment'.ver
    BY DEF SnapshotCurrent
  <2>1. ~ late
    BY LockStep
  <2>2. ASSUME Locked(work[v]) PROVE assessment'.ver = assessment.ver
    <3>1. lock = v
      BY <2>1, <2>2 DEF LockHeld
    <3>2. ASSUME NEW u \in Workers, work[u].at = "commit", ~ Locked(work'[u]) PROVE FALSE
      BY <2>1, <3>1, <3>2 DEF LockHeld, Locked
    <3>. QED BY <3>2, AssessmentStep
  <2>3. CASE work'[v] = work[v]
    BY <2>1, <2>2, <2>3 DEF SnapshotCurrent
  <2>4. CASE TakeLock(v)
    <3>1. assessment' = assessment
      BY <2>4 DEF TakeLock
    <3>. QED BY <2>4, <3>1, TakenFields
  <2>5. CASE Render(v)
    BY <2>1, <2>2, <2>5, RenderedFields DEF SnapshotCurrent
  <2>. QED BY <2>3, <2>4, <2>5, LockedStep
<1>2. Rendered'
  <2>. SUFFICES ASSUME NEW v \in Workers, work'[v].at = "commit", work'[v].job = "report"
                PROVE  work'[v].made # {}
    BY DEF Rendered
  <2>1. CASE work'[v] = work[v]
    BY <2>1 DEF Rendered
  <2>2. CASE TakeLock(v)
    BY <2>2, TakenFields DEF Locked
  <2>3. CASE Render(v)
    BY <2>3, RenderedFields
  <2>. QED BY <2>1, <2>2, <2>3, LockedStep DEF Locked
<1>. QED BY <1>1, <1>2, LockHeldStep

LEMMA FreezingShowsVersion ==
  ASSUME TypeInv, FrozenInv, [Next]_vars, assessment.draft, ~ assessment'.draft, ~ late'
  PROVE  \E r \in rows' \ rows : r.kind = "pdf" /\ r.base = assessment.ver
<1>1. PICK u \in Workers : FreezingStep(u)
  BY AssessmentStep
<1>2. PICK m \in work[u].made : TRUE
  BY <1>1 DEF FrozenInv, Rendered, FreezingStep
<1>. DEFINE r == ReportRow(u, m)
<1>3. r \in rows'
  BY <1>1, <1>2 DEF FreezingStep
<1>4. r.kind = "pdf" /\ r.num = work[u].num /\ r.base = work[u].base
  BY <1>1 DEF ReportRow, FreezingStep
<1>5. r \notin rows
  BY <1>1, <1>4 DEF FreezingStep, NumberTaken, Reports, Evidence
<1>6. work[u].base = assessment.ver
  BY <1>1, LockStep DEF FrozenInv, SnapshotCurrent, FreezingStep, Locked
<1>. QED BY <1>3, <1>4, <1>5, <1>6

\* The report whose generation freezes an assessment shows the version that
\* is frozen, as long as no worker outlives its lock: for every number of
\* saves, reports and deletions racing it.
THEOREM FrozenReportCurrent == Spec => FrozenReportIsCurrent
<1>1. Init => FrozenInv
  <2>1. Idle.at = "idle"
    BY DEF Idle
  <2>. QED BY <2>1 DEF Init, FrozenInv, LockHeld, SnapshotCurrent, Rendered, Locked
<1>2. TypeInv /\ FrozenInv /\ [Next]_vars => FrozenInv'
  BY FrozenInvStep
<1>3. TypeInv /\ FrozenInv /\ [Next]_vars
        => [assessment.draft /\ ~ assessment'.draft /\ ~ late'
              => \E r \in rows' \ rows : r.kind = "pdf" /\ r.base = assessment.ver]_vars
  BY FreezingShowsVersion
<1>. QED BY <1>1, <1>2, <1>3, TypeInvariant, PTL DEF Spec, FrozenReportIsCurrent

-----------------------------------------------------------------------------
(* Files without a row *)

\* A deletion works under the lock from its list to its row.
Deleting(x) == x.at = "list" \/ IsOpen(x)

DeletingHeld == \A w \in Workers : Deleting(work[w]) => lock = w

\* While the row is there, so are the rows of all it moves, and it moves the
\* files of all the rows it will delete.
StagedShown ==
  \A w \in Workers :
    /\ work[w].at \in {"stage", "restore"} => InTrash(work[w].op) \subseteq Shown
    /\ work[w].at = "stage" => work[w].todo \subseteq Shown

TargetsStaged ==
  \A w \in Workers : work[w].at = "stage" =>
    \A r \in Targets(w) \cap rows : r.file \in work[w].todo \cup InTrash(work[w].op)

\* A report somebody asked to delete has its row, or its file is not in its place.
TargetKnown ==
  \A w \in Workers : work[w].job = "one" => work[w].what.file \in Shown \/ work[w].what.file \notin disk

DiskExplained == \A f \in disk : f \in Shown \/ f \in Fresh \/ f \in left

InHand(t) == \E w \in Workers : IsOpen(work[w]) /\ work[w].op = t[1]

TrashExplained ==
  \A t \in trash : \E x \in ops :
    /\ x.id = t[1]
    /\ \/ x.status \in {"committed", "cleanup_failed"}
       \/ t[2] \in left
       \/ x.status = "staged" /\ (t[2] \in Shown \/ InHand(t))

OrphanInv ==
  ~ late =>
    /\ LockHeld /\ DeletingHeld
    /\ StagedShown /\ TargetsStaged /\ TargetKnown
    /\ DiskExplained /\ TrashExplained

\* A deletion starts by taking the lock.
LEMMA DeletingStep ==
  ASSUME TypeInv, [Next]_vars, NEW v \in Workers, Deleting(work'[v])
  PROVE  Deleting(work[v]) \/ TakeLock(v)
<1>. USE DEF Deleting, IsOpen
<1>. SUFFICES ASSUME work'[v] # work[v], ~ TakeLock(v), ~ Deleting(work[v]) PROVE FALSE
  OBVIOUS
<1>1. work[v] \in Tasks
  BY DEF TypeInv
<1>2. ASSUME Stops(v) \/ Goes(v, Idle) PROVE FALSE
  <2>1. Idle.at = "idle"
    BY DEF Idle
  <2>. QED BY <1>2, <2>1, GoesFields DEF Stops
<1>3. ASSUME NEW at, GoesTo(v, at), at \notin {"list", "stage", "restore", "record"} PROVE FALSE
  BY <1>3, GoesToFields
<1>4. ASSUME NEW x, Goes(v, x), ~ Deleting(x) PROVE FALSE
  BY <1>4, GoesFields
<1>5. ~ Asked(v) /\ ~ Crash(v)
  BY <1>2, AskedFields DEF Crash
<1>6. CASE Step(v)
  <2>1. CASE WriteFile(v)
    <3>1. ASSUME NEW c, Goes(v, [work[v] EXCEPT !.todo = @ \ {c}, !.made = @ \cup {<<next, c>>}])
          PROVE  FALSE
      BY <1>1, <1>4, <2>1, <3>1 DEF WriteFile, Tasks
    <3>. QED BY <2>1, <3>1 DEF WriteFile
  <2>2. CASE \/ WriteFails(v) \/ LockTimeout(v) \/ RenderFails(v) \/ Cleaned(v) \/ Clean(v)
    BY <1>3, <2>2 DEF WriteFails, LockTimeout, RenderFails, Cleaned, Clean
  <2>3. CASE CommitSave(v)
    <3>1. ASSUME NEW at, at \in {"answer", "undo"},
                 Goes(v, [work[v] EXCEPT !.at = at, !.ok = TRUE])
          PROVE  FALSE
      BY <1>1, <1>4, <3>1 DEF Tasks
    <3>. QED BY <1>3, <2>3, <3>1 DEF CommitSave, AfterReplay
  <2>4. CASE Undo(v)
    <3>1. ASSUME NEW m, Goes(v, [work[v] EXCEPT !.made = @ \ {m}]) PROVE FALSE
      BY <1>1, <1>4, <2>4, <3>1 DEF Undo, Tasks
    <3>. QED BY <2>4, <3>1 DEF Undo
  <2>5. CASE Answer(v) \/ Close(v) \/ CommitReport(v) \/ Empty(v)
    BY <1>2, <1>3, <2>5 DEF Answer, Close, CommitReport, Empty
  <2>6. CASE Render(v)
    BY <1>1, <1>4, <2>6 DEF Render, Tasks
  <2>7. CASE Pick(v)
    <3>1. ASSUME NEW at \in {"clean", "cleaned"}, NEW o,
                 Goes(v, [work[v] EXCEPT !.at = at, !.op = o, !.todo = @ \ {o}])
          PROVE  FALSE
      BY <1>1, <1>4, <3>1 DEF Tasks
    <3>. QED BY <1>2, <2>7, <3>1 DEF Pick
  <2>. QED
    BY <1>6, <2>1, <2>2, <2>3, <2>4, <2>5, <2>6, <2>7
    DEF Step, List, Stage, DeleteRow, Restore, Record
<1>. QED BY <1>5, <1>6, Mover

LEMMA DeletingHeldStep ==
  ASSUME TypeInv, [Next]_vars, ~ late', DeletingHeld
  PROVE  DeletingHeld'
<1>. SUFFICES ASSUME NEW v \in Workers, Deleting(work'[v]) PROVE lock' = v
  BY DEF DeletingHeld
<1>1. CASE TakeLock(v)
  BY <1>1 DEF TakeLock
<1>2. CASE Deleting(work[v])
  <2>1. lock = v
    BY <1>2 DEF DeletingHeld
  <2>2. ~ Leaves(v)
    BY DEF Leaves, Deleting, IsOpen
  <2>. QED BY <2>1, <2>2, LockStep
<1>. QED BY <1>1, <1>2, DeletingStep

\* Rows go with the transaction of a deletion, after the last file is moved.
RowsGo(u) ==
  /\ work[u].at = "stage" /\ work[u].todo = {}
  /\ work'[u].at = "record" /\ work'[u].op = work[u].op
  /\ rows' = rows \ Targets(u)
  /\ UNCHANGED <<disk, trash, ops>>

LEMMA RowsLeave ==
  ASSUME TypeInv, [Next]_vars, NEW r \in rows, r \notin rows'
  PROVE  \E u \in Workers : RowsGo(u) /\ r \in Targets(u)
<1>. USE DEF data, hist
<1>1. ASSUME NEW u \in Workers, DeleteRow(u) PROVE RowsGo(u) /\ r \in Targets(u)
  BY <1>1, GoesToFields DEF DeleteRow, RowsGo
<1>2. ASSUME NEW u \in Workers, Asked(u) \/ Crash(u) PROVE rows' = rows
  BY <1>2 DEF Asked, SaveArrives, ReportAsked, DeletionAsked, CleanupStarts, Crash
<1>3. ASSUME NEW u \in Workers, Step(u), ~ DeleteRow(u) PROVE rows \subseteq rows'
  BY <1>3
  DEF Step, WriteFile, WriteFails, CommitSave, Undo, Answer, TakeLock, LockTimeout, Render,
      RenderFails, CommitReport, List, Stage, Restore, Record, Empty, Close, Pick, Clean, Cleaned
<1>. QED BY <1>1, <1>2, <1>3 DEF Next, Send, LockExpires, vars

\* What has lost its row is in the trash of the deletion.
LEMMA ShownLeaves ==
  ASSUME TypeInv, FilesInv, TrashInv, OrphanInv, ~ late, [Next]_vars,
         NEW f \in Shown, f \notin Shown'
  PROVE  \E u \in Workers : RowsGo(u) /\ <<work[u].op, f>> \in trash
<1>1. PICK r \in rows : r.file = f /\ r \notin rows'
  BY DEF Shown
<1>2. PICK u \in Workers : RowsGo(u) /\ r \in Targets(u)
  BY <1>1, RowsLeave
<1>3. f \in InTrash(work[u].op)
  BY <1>1, <1>2 DEF OrphanInv, TargetsStaged, RowsGo
<1>4. <<work[u].op, f>> \in trash
  <2>1. PICK t \in trash : t[1] = work[u].op /\ t[2] = f
    BY <1>3 DEF InTrash
  <2>2. t = <<t[1], t[2]>>
    BY DEF TypeInv
  <2>. QED BY <2>1, <2>2
<1>. QED BY <1>2, <1>4

\* Nothing happens to the rows while a deletion moves files.
LEMMA RowsHeld ==
  ASSUME TypeInv, OrphanInv, ~ late, [Next]_vars, NEW v \in Workers,
         work[v].at \in {"stage", "restore"}, work'[v].at \in {"stage", "restore"}
  PROVE  rows' = rows
<1>1. lock = v
  BY DEF OrphanInv, DeletingHeld, Deleting, IsOpen
<1>2. ~ RowsCome
  BY <1>1 DEF RowsCome, OrphanInv, LockHeld, Locked
<1>3. ASSUME NEW u \in Workers, RowsGo(u) PROVE FALSE
  <2>1. u # v
    BY <1>3 DEF RowsGo
  <2>2. lock = u
    BY <1>3 DEF RowsGo, OrphanInv, DeletingHeld, Deleting, IsOpen
  <2>. QED BY <1>1, <2>1, <2>2
<1>. QED BY <1>2, <1>3, RowsStep, RowsLeave

\* A deletion that has its list.
LEMMA StageComes ==
  ASSUME TypeInv, [Next]_vars, NEW v \in Workers, work'[v].at \in {"stage", "restore"},
         work[v].at \notin {"stage", "restore"}
  PROVE  /\ UNCHANGED <<rows, disk, trash>>
         /\ work'[v].at = "stage" /\ work'[v].op = next /\ Targets(v)' = Targets(v)
         /\ work'[v].job = work[v].job /\ work'[v].what = work[v].what
         /\ work'[v].todo = {r.file : r \in Targets(v)} /\ work'[v].todo \subseteq disk
<1>. USE DEF data, hist
<1>1. List(v)
  <2>1. Idle.at = "idle"
    BY DEF Idle
  <2>2. ~ Asked(v) /\ ~ Crash(v)
    BY <2>1, AskedFields, GoesFields DEF Crash
  <2>3. Deleting(work'[v])
    BY DEF Deleting, IsOpen
  <2>4. ~ TakeLock(v)
    <3>. DEFINE x(n) == [work[v] EXCEPT !.at = "render", !.base = assessment.ver, !.num = n]
    <3>1. \A n : x(n).at = "render"
      BY DEF TypeInv, Tasks
    <3>2. ASSUME TakeLock(v)
          PROVE  (\E at \in {"commit", "undo", "list"} : GoesTo(v, at)) \/ \E n : Goes(v, x(n))
      BY <3>2 DEF TakeLock
    <3>. HIDE DEF x
    <3>. QED BY <3>1, <3>2, GoesFields, GoesToFields
  <2>5. work[v].at \in {"list", "record"}
    BY <2>3, <2>4, DeletingStep DEF Deleting, IsOpen
  <2>6. ~ Record(v)
    BY <2>1, GoesFields, GoesToFields DEF Record, Stops
  <2>. QED
    BY <2>2, <2>4, <2>5, <2>6, Mover
    DEF Step, WriteFile, WriteFails, CommitSave, Undo, Answer, LockTimeout, Waiting, Render,
        RenderFails, CommitReport, Stage, DeleteRow, Restore, Empty, Close, Pick, Clean, Cleaned
<1>. DEFINE files == {r.file : r \in Targets(v)}
            x == [work[v] EXCEPT !.at = "stage", !.todo = files, !.op = next]
<1>2. files \subseteq disk /\ Goes(v, x) /\ UNCHANGED <<rows, disk, trash>>
  BY <1>1, GoesToFields DEF List
<1>3. /\ x.at = "stage" /\ x.todo = files /\ x.op = next
      /\ x.job = work[v].job /\ x.what = work[v].what
  BY DEF TypeInv, Tasks
<1>4. work'[v] = x
  BY <1>2, GoesFields
<1>. HIDE DEF x
<1>5. Targets(v)' = Targets(v)
  BY <1>2, <1>3, <1>4 DEF Targets
<1>. QED BY <1>2, <1>3, <1>4, <1>5

\* One that keeps its list.
LEMMA StageStays ==
  ASSUME TypeInv, [Next]_vars, NEW v \in Workers,
         work[v].at \in {"stage", "restore"}, work'[v].at \in {"stage", "restore"}
  PROVE  /\ work'[v].op = work[v].op
         /\ work'[v].job = work[v].job /\ work'[v].what = work[v].what
         /\ work'[v].todo \subseteq work[v].todo
         /\ work'[v].at = "stage" => work[v].at = "stage"
<1>. USE DEF data, hist
<1>1. CASE work'[v] = work[v]
  BY <1>1
<1>2. CASE work'[v] # work[v]
  <2>1. Idle.at = "idle"
    BY DEF Idle
  <2>2. ~ Asked(v) /\ ~ Crash(v) /\ ~ Stops(v)
    BY <1>2, <2>1, AskedFields, GoesFields DEF Crash, Stops
  <2>3. Stage(v) \/ DeleteRow(v) \/ Restore(v)
    BY <1>2, <2>2, Mover
    DEF Step, WriteFile, WriteFails, CommitSave, Undo, Answer, TakeLock, LockTimeout, Waiting,
        Render, RenderFails, CommitReport, List, Record, Empty, Close, Pick, Clean, Cleaned
  <2>4. CASE GoesTo(v, "restore") \/ GoesTo(v, "record")
    BY <2>4, GoesToFields
  <2>5. ASSUME NEW f, Goes(v, [work[v] EXCEPT !.todo = @ \ {f}]), work[v].at = "stage"
        PROVE  /\ work'[v].op = work[v].op
               /\ work'[v].job = work[v].job /\ work'[v].what = work[v].what
               /\ work'[v].todo \subseteq work[v].todo
    <3>. DEFINE x == [work[v] EXCEPT !.todo = @ \ {f}]
    <3>1. x.op = work[v].op /\ x.job = work[v].job /\ x.what = work[v].what /\ x.todo \subseteq work[v].todo
      BY DEF TypeInv, Tasks
    <3>2. work'[v] = x
      BY <2>5, GoesFields
    <3>. QED BY <3>1, <3>2
  <2>6. \/ GoesTo(v, "restore") \/ GoesTo(v, "record")
        \/ (\E f : Goes(v, [work[v] EXCEPT !.todo = @ \ {f}])) /\ work[v].at = "stage"
    BY <1>2, <2>2, <2>3 DEF Stage, DeleteRow, Restore
  <2>7. CASE work[v].at = "restore"
    BY <2>4, <2>6, <2>7, GoesToFields
  <2>. QED BY <2>4, <2>5, <2>6, <2>7
<1>. QED BY <1>1, <1>2

-----------------------------------------------------------------------------
(* Every part is kept *)

LEMMA StagedShownStep ==
  ASSUME TypeInv, FilesInv, OrphanInv, ~ late, [Next]_vars
  PROVE  StagedShown'
<1>. SUFFICES ASSUME NEW v \in Workers, work'[v].at \in {"stage", "restore"}
              PROVE  /\ InTrash(work[v].op)' \subseteq Shown'
                     /\ work'[v].at = "stage" => work'[v].todo \subseteq Shown'
  BY DEF StagedShown
<1>1. CASE work[v].at \notin {"stage", "restore"}
  <2>1. /\ UNCHANGED <<rows, disk, trash>> /\ work'[v].op = next
        /\ work'[v].todo = {r.file : r \in Targets(v)} /\ work'[v].todo \subseteq disk
    BY <1>1, StageComes
  <2>2. InTrash(work[v].op)' = {}
    BY <2>1 DEF InTrash, FilesInv, FreshData, TypeInv, Names
  <2>3. work'[v].todo \subseteq Shown
    <3>1. CASE work[v].job = "one"
      BY <2>1, <3>1 DEF Targets, OrphanInv, TargetKnown
    <3>2. CASE work[v].job # "one"
      BY <2>1, <3>2 DEF Targets, Shown
    <3>. QED BY <3>1, <3>2
  <2>. QED BY <2>1, <2>2, <2>3 DEF Shown
<1>2. CASE work[v].at \in {"stage", "restore"}
  <2>1. Shown' = Shown
    BY <1>2, RowsHeld DEF Shown
  <2>2. work'[v].op = work[v].op
    BY <1>2, StageStays
  <2>3. ASSUME NEW t \in trash', t[1] = work[v].op PROVE t[2] \in Shown
    <3>1. CASE t \in trash
      BY <1>2, <2>3, <3>1 DEF OrphanInv, StagedShown, InTrash
    <3>2. CASE t \notin trash
      <4>1. PICK u \in Workers : work[u].at = "stage" /\ t[1] = work[u].op /\ t[2] \in work[u].todo
        BY <2>3, <3>2, TrashComes
      <4>. QED BY <4>1 DEF OrphanInv, StagedShown
    <3>. QED BY <3>1, <3>2
  <2>4. InTrash(work[v].op)' \subseteq Shown'
    BY <2>1, <2>2, <2>3 DEF InTrash
  <2>5. work'[v].at = "stage" => work'[v].todo \subseteq Shown'
    BY <1>2, <2>1, StageStays DEF OrphanInv, StagedShown
  <2>. QED BY <2>4, <2>5
<1>. QED BY <1>1, <1>2

LEMMA TargetsStagedStep ==
  ASSUME TypeInv, FilesInv, TrashInv, OrphanInv, ~ late, [Next]_vars
  PROVE  TargetsStaged'
<1>. SUFFICES ASSUME NEW v \in Workers, work'[v].at = "stage", NEW r \in Targets(v)' \cap rows'
              PROVE  r.file \in work'[v].todo \/ r.file \in InTrash(work[v].op)'
  BY DEF TargetsStaged
<1>1. CASE work[v].at \notin {"stage", "restore"}
  BY <1>1, StageComes
<1>2. CASE work[v].at \in {"stage", "restore"}
  <2>1. work[v].at = "stage" /\ rows' = rows /\ work'[v].op = work[v].op
    BY <1>2, StageStays, RowsHeld
  <2>2. r \in Targets(v) \cap rows
    BY <1>2, <2>1, StageStays DEF Targets
  <2>3. CASE r.file \in work[v].todo
    <3>1. r.file \notin work'[v].todo => <<work[v].op, r.file>> \in trash'
      BY <2>1, <2>3, StageTakes
    <3>. QED BY <2>1, <3>1 DEF InTrash
  <2>4. CASE r.file \in InTrash(work[v].op)
    <3>1. PICK t \in trash : t[1] = work[v].op /\ t[2] = r.file
      BY <2>4 DEF InTrash
    <3>2. IsOpen(work[v])
      BY <2>1 DEF IsOpen
    <3>3. \A u \in Workers : t[1] \notin Decided(work[u])
      BY <3>1, <3>2 DEF FilesInv, OpenStaged, DecidedNotStaged
    <3>4. CASE t \notin trash'
      <4>1. t[2] \in disk' /\ t[2] \notin disk
        BY <3>3, <3>4, TrashLeaves DEF TrashInv, OnePlace
      <4>2. ASSUME NEW u \in Workers, NEW g, MovingBack(u, g) PROVE FALSE
        <5>1. t[2] = g
          BY <4>1, <4>2 DEF MovingBack
        <5>2. t[1] = work[u].op
          BY <4>2, <5>1 DEF MovingBack, TrashInv, OnePlace
        <5>3. IsOpen(work[u]) /\ u # v
          BY <2>1, <4>2 DEF MovingBack, IsOpen
        <5>. QED BY <3>1, <3>2, <5>2, <5>3 DEF FilesInv, OpenApart
      <4>. QED BY <3>4, <4>1, <4>2, PlacesStep DEF Moving
    <3>5. CASE t \in trash'
      BY <2>1, <3>1, <3>5 DEF InTrash
    <3>. QED BY <3>4, <3>5
  <2>. QED BY <2>1, <2>2, <2>3, <2>4 DEF OrphanInv, TargetsStaged
<1>. QED BY <1>1, <1>2

LEMMA TargetKnownStep ==
  ASSUME TypeInv, FilesInv, TrashInv, OrphanInv, ~ late, [Next]_vars
  PROVE  TargetKnown'
<1>. SUFFICES ASSUME NEW v \in Workers, work'[v].job = "one",
                     NEW f, f = work'[v].what.file, f \in disk', f \notin Shown'
              PROVE  FALSE
  BY DEF TargetKnown
<1>1. f \notin Shown
  <2>1. ASSUME NEW u \in Workers, RowsGo(u), <<work[u].op, f>> \in trash PROVE FALSE
    BY <2>1 DEF RowsGo, TrashInv, OnePlace
  <2>. QED BY <2>1, ShownLeaves
<1>2. f \in Wanted(work[v])
  <2>1. f \in Wanted(work'[v])
    BY DEF Wanted
  <2>. QED BY <1>1, <2>1, WantedComes DEF Shown
<1>3. f \notin disk
  BY <1>1, <1>2 DEF Wanted, OrphanInv, TargetKnown, StagedShown
<1>4. disk' # disk \cup {next}
  <2>1. f < next /\ next \in Nat
    BY <1>2, NextStep DEF FilesInv, FreshTasks
  <2>. QED BY <1>3, <2>1
<1>5. ASSUME NEW u \in Workers, NEW g, MovingBack(u, g) PROVE FALSE
  <2>1. f = g
    BY <1>3, <1>5 DEF MovingBack
  <2>2. f \in InTrash(work[u].op) /\ work[u].at = "restore"
    BY <1>5, <2>1 DEF MovingBack, InTrash
  <2>. QED BY <1>1, <2>2 DEF OrphanInv, StagedShown
<1>. QED BY <1>3, <1>4, <1>5, PlacesStep DEF Moving

\* A file that is no longer somebody's is stored, removed, or given up.
LEMMA WrittenLeaves ==
  ASSUME TypeInv, FilesInv, MadeHeld, [Next]_vars, NEW v \in Workers,
         NEW f \in Written(work[v]), f \notin Written(work'[v])
  PROVE  f \in Shown' \/ f \notin disk' \/ f \in left'
<1>. USE DEF data, hist
<1>1. PICK m \in work[v].made : m[1] = f
  BY DEF Written
<1>2. work[v].at \in {"write", "commit", "undo"}
  BY <1>1 DEF MadeHeld, Written
<1>3. work[v] # Idle
  BY <1>2 DEF Idle
<1>4. ASSUME NEW x, work'[v] = x, x.made = work[v].made, x.at # "answer" PROVE FALSE
  BY <1>1, <1>4 DEF Written
<1>5. ASSUME NEW at, GoesTo(v, at), at # "answer" PROVE FALSE
  BY <1>4, <1>5, GoesToFields
<1>6. CASE Crash(v)
  BY <1>1, <1>6 DEF Crash, Shown
<1>7. ~ Asked(v) \/ UNCHANGED work
  BY <1>3 DEF Asked, SaveArrives, ReportAsked, DeletionAsked, CleanupStarts
<1>8. CASE CommitSave(v)
  <2>. DEFINE x == [work[v] EXCEPT !.at = AfterReplay, !.ok = TRUE]
  <2>1. x.at = "undo" /\ x.made = work[v].made
    BY DEF TypeInv, Tasks, AfterReplay
  <2>2. ~ Goes(v, x)
    BY <1>4, <2>1, GoesFields
  <2>3. rows' = rows \cup {EvidenceRow(n) : n \in work[v].made}
    BY <1>5, <1>8, <2>2 DEF CommitSave
  <2>4. EvidenceRow(m) \in rows' /\ EvidenceRow(m).file = f
    BY <1>1, <2>3 DEF EvidenceRow
  <2>. QED BY <2>4 DEF Shown
<1>9. CASE CommitReport(v)
  <2>1. rows' = rows \cup {ReportRow(v, n) : n \in work[v].made}
    BY <1>5, <1>9 DEF CommitReport
  <2>2. ReportRow(v, m) \in rows' /\ ReportRow(v, m).file = f
    BY <1>1, <2>1 DEF ReportRow
  <2>. QED BY <2>2 DEF Shown
<1>10. CASE Undo(v)
  <2>1. PICK n \in work[v].made :
          /\ Goes(v, [work[v] EXCEPT !.made = @ \ {n}])
          /\ disk' = disk \ {n[1]} \/ left' = left \cup {n[1]}
    BY <1>10 DEF Undo
  <2>. DEFINE x == [work[v] EXCEPT !.made = @ \ {n}]
  <2>2. x.made = work[v].made \ {n} /\ x.at = "undo"
    BY <1>10 DEF Undo, TypeInv, Tasks
  <2>3. work'[v] = x
    BY <2>1, GoesFields
  <2>. HIDE DEF x
  <2>4. n[1] = f
    BY <1>1, <2>2, <2>3 DEF Written
  <2>. QED BY <2>1, <2>4
<1>11. ~ WriteFile(v)
  <2>. DEFINE x(c) == [work[v] EXCEPT !.todo = @ \ {c}, !.made = @ \cup {<<next, c>>}]
  <2>1. \A c : x(c).made = work[v].made \cup {<<next, c>>} /\ x(c).at = work[v].at
    BY DEF TypeInv, Tasks
  <2>2. WriteFile(v) => \E c : Goes(v, x(c))
    BY DEF WriteFile
  <2>. HIDE DEF x
  <2>3. ASSUME NEW c, Goes(v, x(c)) PROVE FALSE
    <3>1. work'[v].made = work[v].made \cup {<<next, c>>} /\ work'[v].at = work[v].at
      BY <2>1, <2>3, GoesFields
    <3>. QED BY <1>1, <1>2, <3>1 DEF Written
  <2>. QED BY <2>2, <2>3
<1>12. ~ TakeLock(v)
  <2>1. ~ GoesTo(v, "commit") /\ ~ GoesTo(v, "undo") /\ ~ GoesTo(v, "list")
    BY <1>5
  <2>2. TakeLock(v) => work[v].job # "report"
    BY <1>2 DEF TakeLock, Waiting, TypeInv, Sound
  <2>. QED BY <2>1, <2>2 DEF TakeLock
<1>13. ~ WriteFails(v) /\ ~ LockTimeout(v)
  BY <1>5 DEF WriteFails, LockTimeout
<1>14. ~ Answer(v)
  BY <1>1, <1>2 DEF Answer
<1>. QED
  BY <1>2, <1>6, <1>7, <1>8, <1>9, <1>10, <1>11, <1>12, <1>13, <1>14, Mover
  DEF Step, Render, RenderFails, List, Stage, DeleteRow, Restore, Record, Empty, Close, Pick, Clean,
      Cleaned

\* A file under a new name is somebody's, or given up by the write that failed.
LEMMA NewIsWritten ==
  ASSUME TypeInv, FilesInv, MadeHeld, [Next]_vars, next \in disk', next \notin disk,
         \A t \in trash : t[2] # next
  PROVE  next \in Fresh' \/ next \in left'
<1>. USE DEF data, hist
<1>1. ASSUME NEW u \in Workers, NEW x, NEW c, Goes(u, x), x.at # "answer", <<next, c>> \in x.made
      PROVE  next \in Fresh'
  <2>1. next \in Written(work'[u])
    <3>1. work'[u] = x
      BY <1>1, GoesFields
    <3>2. <<next, c>>[1] = next
      OBVIOUS
    <3>. QED BY <1>1, <3>1, <3>2 DEF Written
  <2>. QED BY <2>1 DEF Fresh, Written
<1>2. ASSUME NEW u \in Workers, WriteFile(u) PROVE next \in Fresh'
  <2>. DEFINE x(c) == [work[u] EXCEPT !.todo = @ \ {c}, !.made = @ \cup {<<next, c>>}]
  <2>1. \A c : x(c).at = work[u].at /\ <<next, c>> \in x(c).made
    BY DEF TypeInv, Tasks
  <2>2. PICK c : Goes(u, x(c))
    BY <1>2 DEF WriteFile
  <2>3. work[u].at = "write"
    BY <1>2 DEF WriteFile
  <2>. HIDE DEF x
  <2>. QED BY <1>1, <2>1, <2>2, <2>3
<1>3. ASSUME NEW u \in Workers, Render(u) PROVE next \in Fresh'
  <2>. DEFINE x == [work[u] EXCEPT !.at = "commit", !.made = {<<next, "report">>}]
  <2>1. x.at = "commit" /\ <<next, "report">> \in x.made
    BY DEF TypeInv, Tasks
  <2>2. Goes(u, x)
    BY <1>3 DEF Render
  <2>. HIDE DEF x
  <2>. QED BY <1>1, <2>1, <2>2
<1>4. ASSUME NEW u \in Workers, WriteFails(u) \/ RenderFails(u) PROVE next \in left'
  BY <1>4 DEF WriteFails, RenderFails, PartWritten
<1>5. ASSUME NEW u \in Workers, Restore(u) PROVE FALSE
  BY <1>5 DEF Restore, InTrash
<1>6. ASSUME NEW u \in Workers, Asked(u) \/ Crash(u) PROVE FALSE
  BY <1>6 DEF Asked, SaveArrives, ReportAsked, DeletionAsked, CleanupStarts, Crash
<1>7. ASSUME NEW u \in Workers, Step(u), ~ WriteFile(u), ~ Render(u), ~ Restore(u),
             ~ (WriteFails(u) \/ RenderFails(u))
      PROVE  FALSE
  BY <1>7
  DEF Step, CommitSave, Undo, Answer, TakeLock, LockTimeout, CommitReport, List, Stage, DeleteRow,
      Record, Empty, Close, Pick, Clean, Cleaned
<1>. QED BY <1>2, <1>3, <1>4, <1>5, <1>6, <1>7 DEF Next, Send, LockExpires, vars

LEMMA DiskExplainedStep ==
  ASSUME TypeInv, FilesInv, TrashInv, MadeHeld, OrphanInv, ~ late, [Next]_vars
  PROVE  DiskExplained'
<1>. SUFFICES ASSUME NEW f \in disk', f \notin Shown', f \notin Fresh', f \notin left'
              PROVE  FALSE
  BY DEF DiskExplained
<1>1. f \notin Shown
  <2>1. ASSUME NEW u \in Workers, RowsGo(u), <<work[u].op, f>> \in trash PROVE FALSE
    BY <2>1 DEF RowsGo, TrashInv, OnePlace
  <2>. QED BY <2>1, ShownLeaves
<1>2. CASE f \in disk
  <2>1. f \in Fresh
    BY <1>1, <1>2, LeftGrows DEF OrphanInv, DiskExplained
  <2>2. PICK v \in Workers : f \in Written(work[v])
    BY <2>1, FreshIsWritten
  <2>3. f \notin Written(work'[v])
    BY DEF Fresh, Written
  <2>. QED BY <2>2, <2>3, WrittenLeaves
<1>3. CASE f \notin disk
  <2>1. CASE disk' = disk \cup {next} /\ UNCHANGED <<trash, ops>>
    <3>1. f = next /\ next \in Nat
      BY <1>3, <2>1 DEF TypeInv
    <3>2. \A t \in trash : t[2] # next
      BY <3>1 DEF FilesInv, FreshData, TypeInv, Names
    <3>. QED BY <1>3, <3>1, <3>2, NewIsWritten
  <2>2. ASSUME NEW u \in Workers, NEW g, MovingBack(u, g) PROVE FALSE
    <3>1. f = g
      BY <1>3, <2>2 DEF MovingBack
    <3>2. f \in InTrash(work[u].op) /\ work[u].at = "restore"
      BY <2>2, <3>1 DEF MovingBack, InTrash
    <3>. QED BY <1>1, <3>2 DEF OrphanInv, StagedShown
  <2>. QED BY <1>3, <2>1, <2>2, PlacesStep DEF Moving
<1>. QED BY <1>2, <1>3

\* Once its row is gone, a deletion lets go of its operation by recording it, or
\* the trash is given up.
LEMMA OpenLeaves ==
  ASSUME TypeInv, [Next]_vars, NEW v \in Workers, IsOpen(work[v])
  PROVE  \/ IsOpen(work'[v]) /\ work'[v].op = work[v].op
         \/ work[v].at \in {"stage", "restore"}
         \/ InTrash(work[v].op) \subseteq left'
         \/ work[v].at = "record" /\ ops' = WithStatus(work[v].op, "committed")
<1>. USE DEF data, hist
<1>. SUFFICES ASSUME work[v].at = "record", work'[v] # work[v]
              PROVE  \/ InTrash(work[v].op) \subseteq left'
                     \/ ops' = WithStatus(work[v].op, "committed")
  BY DEF IsOpen
<1>0. work[v] # Idle
  BY DEF Idle
<1>1. CASE Crash(v)
  BY <1>1 DEF Crash
<1>2. CASE Asked(v)
  BY <1>0, <1>2 DEF Asked, SaveArrives, ReportAsked, DeletionAsked, CleanupStarts
<1>3. CASE Record(v)
  BY <1>3 DEF Record
<1>. QED
  BY <1>1, <1>2, <1>3, Mover
  DEF Step, WriteFile, WriteFails, CommitSave, Undo, Answer, TakeLock, Waiting, LockTimeout,
      Render, RenderFails, CommitReport, List, Stage, DeleteRow, Restore, Empty, Close, Pick, Clean,
      Cleaned

\* An operation stays, perhaps under a new status.
LEMMA OperationStays ==
  ASSUME TypeInv, [Next]_vars, NEW x \in ops
  PROVE  \/ x \in ops'
         \/ \E u \in Workers, s \in Statuses :
              /\ Ending(u, s) /\ x.id = work[u].op
              /\ \E y \in ops' : y.id = x.id /\ y.status = s
<1>1. CASE ops' = ops \/ Listing
  BY <1>1 DEF Listing
<1>2. ASSUME NEW u \in Workers, NEW s \in Statuses, Ending(u, s)
      PROVE  x \in ops' \/ (x.id = work[u].op /\ \E y \in ops' : y.id = x.id /\ y.status = s)
  <2>. DEFINE y == [x EXCEPT !.status = s]
  <2>1. y.id = x.id /\ y.status = s
    BY DEF TypeInv
  <2>2. (IF x.id = work[u].op THEN y ELSE x) \in ops'
    BY <1>2 DEF Ending, WithStatus
  <2>. HIDE DEF y
  <2>. QED BY <2>1, <2>2
<1>. QED BY <1>1, <1>2, EndingStep

LEMMA TrashExplainedStep ==
  ASSUME TypeInv, FilesInv, TrashInv, OrphanInv, ~ late, [Next]_vars
  PROVE  TrashExplained'
<1>. SUFFICES ASSUME NEW t \in trash'
              PROVE  \E x \in ops' :
                       /\ x.id = t[1]
                       /\ \/ x.status \in {"committed", "cleanup_failed"}
                          \/ t[2] \in left'
                          \/ x.status = "staged" /\ (t[2] \in Shown' \/ InHand(t)')
  BY DEF TrashExplained
<1>1. CASE t \notin trash
  <2>1. PICK u \in Workers :
          /\ ops' = ops /\ work[u].at = "stage" /\ work'[u].at = "stage" /\ t[1] = work[u].op
    BY <1>1, TrashComes
  <2>2. PICK x \in ops : x.id = t[1] /\ x.status = "staged"
    BY <2>1 DEF FilesInv, OpenStaged, IsOpen, StagedIn
  <2>3. IsOpen(work'[u]) /\ work'[u].op = t[1]
    BY <2>1, StageStays DEF IsOpen
  <2>4. InHand(t)'
    BY <2>3 DEF InHand
  <2>. QED BY <2>1, <2>2, <2>4
<1>2. CASE t \in trash
  <2>1. PICK x \in ops :
          /\ x.id = t[1]
          /\ \/ x.status \in {"committed", "cleanup_failed"}
             \/ t[2] \in left
             \/ x.status = "staged" /\ (t[2] \in Shown \/ InHand(t))
    BY <1>2 DEF OrphanInv, TrashExplained
  <2>2. ASSUME NEW u \in Workers, NEW s \in Statuses, Ending(u, s), x.id = work[u].op,
               NEW y \in ops', y.id = x.id, y.status = s
        PROVE  y.status \in {"committed", "cleanup_failed"} \/ t[2] \in left'
    <3>1. s # "restored"
      BY <1>2, <2>1, <2>2 DEF Ending, InTrash
    <3>2. s = "cleaned" => t[2] \in left'
      BY <1>2, <2>1, <2>2, LeftGrows DEF Ending, TrashInv, TrashRemoved
    <3>. QED BY <2>2, <3>1, <3>2 DEF Ending
  <2>3. CASE x \in ops'
    <3>1. CASE x.status \in {"committed", "cleanup_failed"}
      BY <2>1, <2>3, <3>1
    <3>2. CASE t[2] \in left
      BY <2>1, <2>3, <3>2, LeftGrows
    <3>3. CASE x.status = "staged" /\ t[2] \in Shown
      <4>1. ASSUME NEW u \in Workers, RowsGo(u), <<work[u].op, t[2]>> \in trash
            PROVE  InHand(t)'
        <5>1. t[1] = work[u].op
          BY <1>2, <4>1 DEF TrashInv, OnePlace
        <5>2. IsOpen(work'[u]) /\ work'[u].op = t[1]
          BY <4>1, <5>1 DEF RowsGo, IsOpen
        <5>. QED BY <5>2 DEF InHand
      <4>. QED BY <2>1, <2>3, <3>3, <4>1, ShownLeaves
    <3>4. CASE x.status = "staged" /\ t[2] \notin Shown /\ InHand(t)
      <4>1. PICK v \in Workers : IsOpen(work[v]) /\ work[v].op = t[1]
        BY <3>4 DEF InHand
      <4>2. CASE IsOpen(work'[v]) /\ work'[v].op = work[v].op
        BY <2>1, <2>3, <3>4, <4>1, <4>2 DEF InHand
      <4>3. CASE work[v].at \in {"stage", "restore"}
        BY <1>2, <3>4, <4>1, <4>3 DEF OrphanInv, StagedShown, InTrash
      <4>4. CASE InTrash(work[v].op) \subseteq left'
        <5>1. t[2] \in left'
          BY <1>2, <4>1, <4>4 DEF InTrash
        <5>. QED BY <2>1, <2>3, <3>4, <5>1
      <4>5. CASE ops' = WithStatus(work[v].op, "committed")
        <5>. DEFINE y == [x EXCEPT !.status = "committed"]
        <5>1. y.id = t[1] /\ y.status = "committed"
          BY <2>1 DEF TypeInv
        <5>2. y \in ops'
          BY <2>1, <4>1, <4>5 DEF WithStatus
        <5>. HIDE DEF y
        <5>. QED BY <5>1, <5>2
      <4>. QED BY <4>1, <4>2, <4>3, <4>4, <4>5, OpenLeaves
    <3>. QED BY <2>1, <3>1, <3>2, <3>3, <3>4
  <2>. QED BY <2>1, <2>2, <2>3, OperationStays
<1>. QED BY <1>1, <1>2

-----------------------------------------------------------------------------
(* The theorem *)

LEMMA OrphanInvStep ==
  TypeInv /\ FilesInv /\ TrashInv /\ MadeHeld /\ OrphanInv /\ [Next]_vars => OrphanInv'
<1>. SUFFICES ASSUME TypeInv, FilesInv, TrashInv, MadeHeld, OrphanInv, [Next]_vars, ~ late'
              PROVE  /\ LockHeld' /\ DeletingHeld'
                     /\ StagedShown' /\ TargetsStaged' /\ TargetKnown'
                     /\ DiskExplained' /\ TrashExplained'
  BY DEF OrphanInv
<1>1. ~ late
  BY LockStep
<1>2. LockHeld' /\ DeletingHeld'
  BY <1>1, LockHeldStep, DeletingHeldStep DEF OrphanInv
<1>3. StagedShown' /\ TargetsStaged' /\ TargetKnown'
  BY <1>1, StagedShownStep, TargetsStagedStep, TargetKnownStep
<1>. QED BY <1>1, <1>2, <1>3, DiskExplainedStep, TrashExplainedStep

LEMMA OrphanInit == Init => OrphanInv
<1>. SUFFICES ASSUME Init PROVE OrphanInv
  OBVIOUS
<1>1. \A w \in Workers : work[w].at = "idle" /\ work[w].job = "none"
  BY DEF Init, Idle
<1>2. disk = {} /\ trash = {}
  BY DEF Init
<1>. QED BY <1>1, <1>2
     DEF OrphanInv, LockHeld, Locked, DeletingHeld, Deleting, IsOpen, StagedShown, TargetsStaged,
         TargetKnown, DiskExplained, TrashExplained

\* A file without a row is explained: a task has it in hand, it waits for
\* storage:cleanup, or a crash or a failure was met - as long as no worker
\* outlives its lock, for every number of saves, reports, deletions and
\* cleanups that race, repeat, time out and are refused.
THEOREM OrphansExplained == Spec => []OrphansAreExplained
<1>1. FilesInv /\ OrphanInv => OrphansAreExplained
  <2>. SUFFICES ASSUME FilesInv, OrphanInv, ~ late, NEW f \in disk \cup {t[2] : t \in trash}
                PROVE  \/ \E r \in rows : r.file = f
                       \/ \E w \in Workers :
                            (\E m \in work[w].made : m[1] = f) \/ f \in InTrash(work[w].op)
                       \/ \E t \in trash : t[2] = f /\ HasStatus(t[1], {"committed", "cleanup_failed"})
                       \/ f \in left
    BY DEF OrphansAreExplained
  <2>1. CASE f \in disk
    <3>1. CASE f \in Fresh
      BY <3>1, FreshIsWritten DEF Written
    <3>. QED BY <2>1, <3>1 DEF OrphanInv, DiskExplained, Shown
  <2>2. ASSUME NEW t \in trash, t[2] = f
        PROVE  \/ \E r \in rows : r.file = f
               \/ \E w \in Workers : f \in InTrash(work[w].op)
               \/ HasStatus(t[1], {"committed", "cleanup_failed"})
               \/ f \in left
    BY <2>2 DEF OrphanInv, TrashExplained, Shown, InHand, InTrash, HasStatus
  <2>. QED BY <2>1, <2>2
<1>. QED
  BY <1>1, OrphanInit, OrphanInvStep, MadeHeldInit, MadeHeldStep, TrashInit, TrashStep, FilesInit,
     FilesStep, TypeInvariant, PTL DEF Spec

-----------------------------------------------------------------------------
(* The quota *)

\* A task of a save that has passed the first checks and is not stored yet.
Saving(x) == x.job = "save" /\ x.at \in {"write", "commit"}

\* Every upload becomes one file.
CarriedOnce ==
  \A w \in Workers :
    Saving(work[w]) =>
      /\ work[w].todo \subseteq Carries[work[w].what]
      /\ \A m \in work[w].made :
           m[2] \in Carries[work[w].what] /\ m[2] \notin work[w].todo
      /\ \A m, n \in work[w].made : m[2] = n[2] => m = n

\* Requests carry a version the assessment has had.
SentBounded ==
  /\ \A r \in Requests : sent[r] <= assessment.ver
  /\ \A r \in uploads : sent[r] # 0

\* What a save has checked is still so if its version is.
RoomKept ==
  \A w \in Workers, q \in Requests :
    Saving(work[w]) /\ work[w].what = q =>
      /\ sent[q] # 0
      /\ sent[q] = assessment.ver => Fits(q)

QuotaInv ==
  /\ CarriedOnce /\ SentBounded /\ RoomKept
  /\ IsFiniteSet(Evidence) /\ EvidenceWithinLimits

\* What a save does to its task before it is stored.
LEMMA SavingStep ==
  ASSUME TypeInv, [Next]_vars, NEW v \in Workers, Saving(work'[v]), work'[v] # work[v]
  PROVE  \/ \E q \in Requests : SaveBegins(v, q) /\ work'[v].made = {}
         \/ /\ Saving(work[v]) /\ work'[v].what = work[v].what
            /\ UNCHANGED <<assessment, rows, sent>>
            /\ \/ work'[v].made = work[v].made /\ work'[v].todo = work[v].todo
               \/ \E c \in work[v].todo :
                    /\ work'[v].made = work[v].made \cup {<<next, c>>}
                    /\ work'[v].todo = work[v].todo \ {c}
<1>. USE DEF Saving, data, hist
<1>1. work[v] \in Tasks /\ Sound(work[v])
  BY DEF TypeInv
<1>2. ASSUME Stops(v) \/ Goes(v, Idle) PROVE FALSE
  <2>1. Idle.at = "idle"
    BY DEF Idle
  <2>. QED BY <1>2, <2>1, GoesFields DEF Stops
<1>3. ASSUME NEW at, GoesTo(v, at), at \notin {"write", "commit"} PROVE FALSE
  BY <1>3, GoesToFields
<1>4. ASSUME NEW x, Goes(v, x), ~ Saving(x) PROVE FALSE
  BY <1>4, GoesFields
<1>5. CASE Asked(v)
  BY <1>5, AskedFields
<1>6. ~ Crash(v)
  BY <1>2 DEF Crash
<1>7. CASE Step(v)
  <2>1. CASE WriteFile(v)
    <3>. DEFINE z(c) == [work[v] EXCEPT !.todo = @ \ {c}, !.made = @ \cup {<<next, c>>}]
    <3>1. \A c : /\ z(c).at = work[v].at /\ z(c).job = work[v].job /\ z(c).what = work[v].what
                 /\ z(c).made = work[v].made \cup {<<next, c>>} /\ z(c).todo = work[v].todo \ {c}
      BY <1>1 DEF Tasks
    <3>2. PICK c \in work[v].todo : Goes(v, z(c))
      BY <2>1 DEF WriteFile
    <3>. HIDE DEF z
    <3>3. work'[v] = z(c)
      BY <3>2, GoesFields
    <3>4. work[v].at = "write" /\ work[v].job = "save" /\ UNCHANGED <<assessment, rows, sent>>
      BY <1>1, <2>1 DEF WriteFile, Sound
    <3>. QED BY <3>1, <3>3, <3>4
  <2>2. CASE \/ WriteFails(v) \/ LockTimeout(v) \/ RenderFails(v) \/ DeleteRow(v) \/ Cleaned(v)
             \/ Clean(v)
    BY <1>3, <2>2 DEF WriteFails, LockTimeout, RenderFails, DeleteRow, Cleaned, Clean
  <2>3. CASE CommitSave(v)
    <3>1. ASSUME NEW at, at \in {"answer", "undo"},
                 Goes(v, [work[v] EXCEPT !.at = at, !.ok = TRUE])
          PROVE  FALSE
      BY <1>1, <1>4, <3>1 DEF Tasks
    <3>. QED BY <1>3, <2>3, <3>1 DEF CommitSave, AfterReplay
  <2>4. CASE Undo(v)
    <3>1. ASSUME NEW m, Goes(v, [work[v] EXCEPT !.made = @ \ {m}]) PROVE FALSE
      BY <1>1, <1>4, <2>4, <3>1 DEF Undo, Tasks
    <3>. QED BY <2>4, <3>1 DEF Undo
  <2>5. CASE \/ Answer(v) \/ Close(v) \/ CommitReport(v) \/ Restore(v) \/ Record(v) \/ Empty(v)
    BY <1>2, <1>3, <2>5 DEF Answer, Close, CommitReport, Restore, Record, Empty
  <2>6. CASE List(v)
    <3>1. ASSUME NEW files, Goes(v, [work[v] EXCEPT !.at = "stage", !.todo = files, !.op = next])
          PROVE  FALSE
      BY <1>1, <1>4, <3>1 DEF Tasks
    <3>. QED BY <1>3, <2>6, <3>1 DEF List
  <2>7. CASE Stage(v)
    <3>1. ASSUME NEW f, Goes(v, [work[v] EXCEPT !.todo = @ \ {f}]) PROVE FALSE
      BY <1>1, <1>4, <2>7, <3>1 DEF Stage, Tasks
    <3>. QED BY <1>3, <2>7, <3>1 DEF Stage
  <2>8. CASE Pick(v)
    <3>1. ASSUME NEW at \in {"clean", "cleaned"}, NEW o,
                 Goes(v, [work[v] EXCEPT !.at = at, !.op = o, !.todo = @ \ {o}])
          PROVE  FALSE
      BY <1>1, <1>4, <3>1 DEF Tasks
    <3>. QED BY <1>2, <2>8, <3>1 DEF Pick
  <2>9. CASE TakeLock(v)
    <3>1. CASE GoesTo(v, "commit") /\ work[v].job = "save"
      <4>1. work[v].at = "write" /\ UNCHANGED <<assessment, rows, sent>>
        BY <1>1, <2>9, <3>1 DEF TakeLock, Waiting, Sound
      <4>. QED BY <3>1, <4>1, GoesToFields
    <3>2. ASSUME NEW n,
                 Goes(v, [work[v] EXCEPT !.at = "render", !.base = assessment.ver, !.num = n])
          PROVE  FALSE
      BY <1>1, <1>4, <3>2 DEF Tasks
    <3>. QED BY <1>3, <2>9, <3>1, <3>2 DEF TakeLock
  <2>10. CASE Render(v)
    <3>. DEFINE z == [work[v] EXCEPT !.at = "commit", !.made = {<<next, "report">>}]
    <3>1. z.job = "report" /\ Goes(v, z)
      BY <1>1, <2>10 DEF Render, Tasks, Sound
    <3>. HIDE DEF z
    <3>. QED BY <1>4, <3>1
  <2>. QED BY <1>7, <2>1, <2>2, <2>3, <2>4, <2>5, <2>6, <2>7, <2>8, <2>9, <2>10 DEF Step
<1>. QED BY <1>5, <1>6, <1>7, Mover

\* The transaction that stores the files of a save.
StoringStep(u) ==
  /\ Saving(work[u]) /\ sent[work[u].what] = assessment.ver
  /\ assessment'.ver = assessment.ver + 1
  /\ rows' = rows \cup {EvidenceRow(m) : m \in work[u].made}

\* Evidence comes by a save that is accepted, under a new version.
LEMMA EvidenceStep ==
  ASSUME TypeInv, [Next]_vars
  PROVE  Evidence' \subseteq Evidence \/ \E u \in Workers : StoringStep(u)
<1>. USE DEF data, hist
<1>1. CASE rows' \subseteq rows
  BY <1>1 DEF Evidence
<1>2. ASSUME NEW u \in Workers, CommitSave(u) PROVE rows' = rows \/ StoringStep(u)
  <2>1. [assessment EXCEPT !.ver = @ + 1].ver = assessment.ver + 1
    BY DEF TypeInv
  <2>. QED BY <1>2, <2>1 DEF CommitSave, Accepts, StoringStep, Saving
<1>3. ASSUME NEW u \in Workers, CommitReport(u) PROVE Evidence' \subseteq Evidence
  <2>1. work[u].what \in {"pdf", "xlsx"}
    BY <1>3 DEF CommitReport, TypeInv, Sound, Formats
  <2>2. \A m : ReportRow(u, m).kind # "evidence"
    BY <2>1 DEF ReportRow
  <2>3. rows' = rows \/ rows' = rows \cup {ReportRow(u, m) : m \in work[u].made}
    BY <1>3 DEF CommitReport
  <2>. QED BY <2>2, <2>3 DEF Evidence
<1>4. ASSUME NEW u \in Workers, Asked(u) \/ Crash(u) PROVE rows' = rows
  BY <1>4 DEF Asked, SaveArrives, ReportAsked, DeletionAsked, CleanupStarts, Crash
<1>5. ASSUME NEW u \in Workers, Step(u), ~ CommitSave(u), ~ CommitReport(u) PROVE rows' \subseteq rows
  BY <1>5
  DEF Step, WriteFile, WriteFails, Undo, Answer, TakeLock, LockTimeout, Render, RenderFails, List,
      Stage, DeleteRow, Restore, Record, Empty, Close, Pick, Clean, Cleaned
<1>. QED BY <1>1, <1>2, <1>3, <1>4, <1>5 DEF Next, Send, LockExpires, vars

\* Versions only grow; a request is given the one it carries once.
LEMMA VersionStep ==
  ASSUME TypeInv, [Next]_vars
  PROVE  /\ assessment'.ver = assessment.ver \/ assessment'.ver = assessment.ver + 1
         /\ \/ sent' = sent /\ uploads' \subseteq uploads
            \/ \E r \in Requests : Send(r)
<1>. USE DEF data, hist
<1>1. ASSUME NEW r \in Requests, Send(r) PROVE assessment' = assessment
  BY <1>1 DEF Send
<1>2. ASSUME NEW u \in Workers, CommitSave(u)
      PROVE  assessment'.ver = assessment.ver \/ assessment'.ver = assessment.ver + 1
  <2>1. [assessment EXCEPT !.ver = @ + 1].ver = assessment.ver + 1
    BY DEF TypeInv
  <2>. QED BY <1>2, <2>1 DEF CommitSave
<1>3. ASSUME NEW u \in Workers, CommitReport(u)
      PROVE  assessment'.ver = assessment.ver \/ assessment'.ver = assessment.ver + 1
  <2>. DEFINE counted == [assessment EXCEPT !.ver = @ + 1]
  <2>1. assessment' = assessment \/ assessment' = [counted EXCEPT !.draft = FALSE]
    BY <1>3, Zenon DEF CommitReport
  <2>2. counted.ver = assessment.ver + 1
    BY DEF TypeInv
  <2>3. counted \in [ver : Nat \ {0}, draft : BOOLEAN, exists : BOOLEAN]
    BY DEF TypeInv
  <2>. HIDE DEF counted
  <2>. QED BY <2>1, <2>2, <2>3
<1>4. ASSUME NEW u \in Workers, DeleteRow(u) PROVE assessment'.ver = assessment.ver
  <2>1. [assessment EXCEPT !.exists = FALSE].ver = assessment.ver
    BY DEF TypeInv
  <2>. QED BY <1>4, <2>1 DEF DeleteRow
<1>5. ASSUME NEW u \in Workers, Asked(u) \/ Crash(u)
      PROVE  assessment' = assessment /\ sent' = sent /\ uploads' \subseteq uploads
  BY <1>5 DEF Asked, SaveArrives, ReportAsked, DeletionAsked, CleanupStarts, Crash
<1>6. ASSUME NEW u \in Workers, Step(u) PROVE sent' = sent /\ uploads' \subseteq uploads
  BY <1>6
  DEF Step, WriteFile, WriteFails, CommitSave, Undo, Answer, TakeLock, LockTimeout, Render,
      RenderFails, CommitReport, List, Stage, DeleteRow, Restore, Record, Empty, Close, Pick,
      Clean, Cleaned
<1>7. ASSUME NEW u \in Workers, Step(u), ~ CommitSave(u), ~ CommitReport(u), ~ DeleteRow(u)
      PROVE  assessment' = assessment
  BY <1>7
  DEF Step, WriteFile, WriteFails, Undo, Answer, TakeLock, LockTimeout, Render, RenderFails, List,
      Stage, Restore, Record, Empty, Close, Pick, Clean, Cleaned
<1>. QED BY <1>1, <1>2, <1>3, <1>4, <1>5, <1>6, <1>7 DEF Next, LockExpires, vars

LEMMA CarriedOnceStep ==
  ASSUME TypeInv, QuotaInv, [Next]_vars
  PROVE  CarriedOnce'
<1>. SUFFICES ASSUME NEW v \in Workers, Saving(work'[v])
              PROVE  /\ work'[v].todo \subseteq Carries[work'[v].what]
                     /\ \A m \in work'[v].made :
                          m[2] \in Carries[work'[v].what] /\ m[2] \notin work'[v].todo
                     /\ \A m, n \in work'[v].made : m[2] = n[2] => m = n
  BY DEF CarriedOnce
<1>1. CASE work'[v] = work[v]
  BY <1>1 DEF QuotaInv, CarriedOnce
<1>2. ASSUME NEW q \in Requests, SaveBegins(v, q), work'[v].made = {}
      PROVE  /\ work'[v].todo \subseteq Carries[work'[v].what]
             /\ \A m \in work'[v].made :
                  m[2] \in Carries[work'[v].what] /\ m[2] \notin work'[v].todo
             /\ \A m, n \in work'[v].made : m[2] = n[2] => m = n
  BY <1>2 DEF SaveBegins
<1>3. CASE /\ Saving(work[v]) /\ work'[v].what = work[v].what
           /\ work'[v].made = work[v].made /\ work'[v].todo = work[v].todo
  BY <1>3 DEF QuotaInv, CarriedOnce
<1>4. ASSUME Saving(work[v]), work'[v].what = work[v].what, NEW c \in work[v].todo,
             work'[v].made = work[v].made \cup {<<next, c>>}, work'[v].todo = work[v].todo \ {c}
      PROVE  /\ work'[v].todo \subseteq Carries[work'[v].what]
             /\ \A m \in work'[v].made :
                  m[2] \in Carries[work'[v].what] /\ m[2] \notin work'[v].todo
             /\ \A m, n \in work'[v].made : m[2] = n[2] => m = n
  <2>. DEFINE new == <<next, c>>
  <2>1. new[2] = c
    OBVIOUS
  <2>2. \A m \in work'[v].made : m \in work[v].made \/ m = new
    BY <1>4
  <2>. HIDE DEF new
  <2>. QED BY <1>4, <2>1, <2>2 DEF QuotaInv, CarriedOnce
<1>. QED BY <1>1, <1>2, <1>3, <1>4, SavingStep

LEMMA SentBoundedStep ==
  ASSUME TypeInv, QuotaInv, [Next]_vars
  PROVE  SentBounded'
<1>. USE DEF QuotaInv, SentBounded
<1>1. assessment.ver \in Nat /\ \A r \in Requests : sent[r] \in Nat
  BY DEF TypeInv
<1>2. CASE sent' = sent /\ uploads' \subseteq uploads
  BY <1>1, <1>2, VersionStep
<1>3. ASSUME NEW q \in Requests, Send(q) PROVE SentBounded'
  <2>1. PICK n \in 1 .. assessment.ver : sent' = [sent EXCEPT ![q] = n]
    BY <1>3 DEF Send
  <2>2. \A r \in Requests : sent'[r] = IF r = q THEN n ELSE sent[r]
    BY <2>1 DEF TypeInv
  <2>3. assessment' = assessment /\ uploads' = uploads \cup {q}
    BY <1>3 DEF Send
  <2>. QED BY <1>1, <2>2, <2>3 DEF TypeInv
<1>. QED BY <1>2, <1>3, VersionStep

\* Less evidence leaves no less room.
LEMMA LessFits ==
  ASSUME IsFiniteSet(Evidence), Evidence' \subseteq Evidence, NEW q \in Requests, Fits(q)
  PROVE  Fits(q)'
<1>1. Cardinality(Evidence') <= Cardinality(Evidence) /\ IsFiniteSet(Evidence')
  BY FS_Subset
<1>2. Cardinality(Evidence') \in Nat /\ Cardinality(Evidence) \in Nat /\ Cardinality(Carries[q]) \in Nat
  BY <1>1, FS_CardinalityType, FilesAssumption
<1>. QED BY <1>1, <1>2, FilesAssumption DEF Fits

LEMMA RoomKeptStep ==
  ASSUME TypeInv, QuotaInv, [Next]_vars
  PROVE  RoomKept'
<1>. USE DEF QuotaInv
<1>. SUFFICES ASSUME NEW v \in Workers, NEW q \in Requests, Saving(work'[v]), work'[v].what = q
              PROVE  sent'[q] # 0 /\ (sent'[q] = assessment'.ver => Fits(q)')
  BY DEF RoomKept
<1>1. assessment.ver \in Nat /\ sent[q] \in Nat
  BY DEF TypeInv
<1>2. CASE SaveBegins(v, q)
  <2>1. sent' = sent /\ rows' = rows /\ Fits(q) /\ q \in uploads
    BY <1>2 DEF SaveBegins
  <2>2. Fits(q)'
    BY <2>1 DEF Fits, Evidence
  <2>. QED BY <2>1, <2>2 DEF SentBounded
<1>3. CASE Saving(work[v]) /\ work[v].what = q
  <2>1. sent[q] # 0 /\ (sent[q] = assessment.ver => Fits(q))
    BY <1>3 DEF RoomKept
  <2>2. \A r \in Requests : Send(r) => sent'[q] = sent[q]
    BY <2>1 DEF Send, TypeInv
  <2>3. sent'[q] = sent[q]
    BY <2>2, VersionStep
  <2>4. sent[q] <= assessment.ver
    BY DEF SentBounded
  <2>5. CASE Evidence' \subseteq Evidence
    <3>1. ASSUME sent'[q] = assessment'.ver PROVE Fits(q)
      BY <1>1, <2>1, <2>3, <2>4, <3>1, VersionStep
    <3>. QED BY <2>1, <2>3, <2>5, <3>1, LessFits
  <2>6. ASSUME NEW u \in Workers, StoringStep(u) PROVE sent'[q] # assessment'.ver
    BY <1>1, <2>3, <2>4, <2>6 DEF StoringStep
  <2>. QED BY <2>1, <2>3, <2>5, <2>6, EvidenceStep
<1>4. \/ work'[v] = work[v]
      \/ \E r \in Requests : SaveBegins(v, r)
      \/ Saving(work[v]) /\ work'[v].what = work[v].what
  BY SavingStep
<1>. QED BY <1>2, <1>3, <1>4 DEF SaveBegins

\* A save that still fits is stored whole.
LEMMA QuotaStep ==
  ASSUME TypeInv, QuotaInv, [Next]_vars
  PROVE  (IsFiniteSet(Evidence) /\ EvidenceWithinLimits)'
<1>. USE DEF QuotaInv
<1>0. Cardinality(Evidence) \in Nat /\ Limit \in Nat
  BY FS_CardinalityType, FilesAssumption
<1>1. CASE Evidence' \subseteq Evidence
  <2>1. Cardinality(Evidence') <= Cardinality(Evidence) /\ IsFiniteSet(Evidence')
    BY <1>1, FS_Subset
  <2>2. Cardinality(Evidence') \in Nat
    BY <2>1, FS_CardinalityType
  <2>. QED BY <1>0, <1>1, <2>1, <2>2 DEF EvidenceWithinLimits
<1>2. ASSUME NEW u \in Workers, StoringStep(u) PROVE (IsFiniteSet(Evidence) /\ EvidenceWithinLimits)'
  <2>. DEFINE q == work[u].what
              made == work[u].made
              new == {EvidenceRow(m) : m \in made}
              hash == [r \in new |-> r.hash]
  <2>1. q \in Requests
    BY <1>2 DEF StoringStep, Saving, TypeInv, Sound
  <2>2. Fits(q)
    BY <1>2, <2>1 DEF StoringStep, RoomKept
  <2>3. /\ \A m \in made : m[2] \in Carries[q]
        /\ \A m, n \in made : m[2] = n[2] => m = n
    BY <1>2 DEF StoringStep, CarriedOnce
  <2>4. \A m : EvidenceRow(m).hash = m[2] /\ EvidenceRow(m).kind = "evidence"
    BY DEF EvidenceRow
  <2>5. Evidence' = Evidence \cup new
    BY <1>2, <2>4 DEF StoringStep, Evidence
  <2>6. \A r \in new : r.hash \in Carries[q]
    BY <2>3, <2>4
  <2>7. \A r, s \in new : r.hash = s.hash => r = s
    BY <2>3, <2>4
  <2>8. IsFiniteSet(Carries[q]) /\ Cardinality(Carries[q]) \in Nat
    BY <2>1, FS_CardinalityType, FilesAssumption
  <2>. HIDE DEF new, q
  <2>9. hash \in Injection(new, Carries[q])
    BY <2>6, <2>7 DEF Injection, IsInjective
  <2>10. IsFiniteSet(new) /\ Cardinality(new) <= Cardinality(Carries[q])
    BY <2>8, <2>9, FS_Injection
  <2>11. IsFiniteSet(Evidence \cup new)
    BY <2>10, FS_Union
  <2>12. Cardinality(Evidence \cup new) <= Cardinality(Evidence) + Cardinality(new)
    <3>1. Cardinality(Evidence \cup new)
            = Cardinality(Evidence) + Cardinality(new) - Cardinality(Evidence \cap new)
      BY <2>10, FS_Union
    <3>2. IsFiniteSet(Evidence \cap new)
      BY FS_Subset
    <3>3. Cardinality(Evidence \cap new) \in Nat /\ Cardinality(new) \in Nat
      BY <2>10, <3>2, FS_CardinalityType
    <3>. QED BY <1>0, <3>1, <3>3
  <2>13. Cardinality(Evidence \cup new) \in Nat /\ Cardinality(new) \in Nat
    BY <2>10, <2>11, FS_CardinalityType
  <2>14. Cardinality(Evidence') <= Limit
    BY <1>0, <2>2, <2>5, <2>8, <2>10, <2>12, <2>13 DEF Fits
  <2>15. ASSUME NEW e \in Evidence', NEW f \in Evidence', e.hash = f.hash PROVE e = f
    <3>1. \A r \in Evidence : r.hash \notin Carries[q]
      BY <2>2 DEF Fits
    <3>. QED BY <2>5, <2>6, <2>7, <2>15, <3>1 DEF EvidenceWithinLimits
  <2>. QED BY <2>5, <2>11, <2>14, <2>15 DEF EvidenceWithinLimits
<1>. QED BY <1>1, <1>2, EvidenceStep

\* No interleaving of saves, reports, deletions and crashes takes an
\* assessment over its quota of evidence files or stores a file twice, though
\* both are checked before anything is locked.
THEOREM QuotaHolds == Spec => []EvidenceWithinLimits
<1>1. Init => QuotaInv
  <2>. SUFFICES ASSUME Init PROVE QuotaInv
    OBVIOUS
  <2>1. Evidence = {} /\ IsFiniteSet(Evidence) /\ Cardinality(Evidence) = 0
    BY FS_EmptySet DEF Init, Evidence
  <2>2. EvidenceWithinLimits
    BY <2>1, FilesAssumption DEF EvidenceWithinLimits
  <2>3. \A w \in Workers : ~ Saving(work[w])
    BY DEF Init, Idle, Saving
  <2>4. SentBounded
    BY DEF Init, SentBounded
  <2>. QED BY <2>1, <2>2, <2>3, <2>4 DEF QuotaInv, CarriedOnce, RoomKept
<1>2. TypeInv /\ QuotaInv /\ [Next]_vars => QuotaInv'
  BY CarriedOnceStep, SentBoundedStep, RoomKeptStep, QuotaStep DEF QuotaInv
<1>3. QuotaInv => EvidenceWithinLimits
  BY DEF QuotaInv
<1>. QED BY <1>1, <1>2, <1>3, TypeInvariant, PTL DEF Spec
=============================================================================
