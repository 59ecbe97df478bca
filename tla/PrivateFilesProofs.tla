------------------------- MODULE PrivateFilesProofs -------------------------
(***************************************************************************)
(* Theorems of PrivateFiles, for every number of workers, requests, files, *)
(* operations and faults: what the values are, what the status of a        *)
(* deletion says of its files, however many deletions and cleanups run at  *)
(* once and whatever fails half-way, and that what the rows, the disk and  *)
(* the trash go through is a FileStore.                                    *)
(***************************************************************************)
EXTENDS PrivateFiles, TLAPS

-----------------------------------------------------------------------------
(* Types *)

Rows ==
  [kind : Formats \cup {"evidence"}, file : Names, hash : Contents \cup {"report"},
   num : Nat, base : Nat]

Tasks ==
  [at : Places, job : {"none", "save", "report", "one", "all", "cleanup"},
   what : {"none"} \cup Requests \cup Formats \cup Rows, todo : SUBSET (Contents \cup Names),
   made : SUBSET (Names \X (Contents \cup {"report"})), num : Nat, base : Nat,
   op : {0} \cup Names, ok : BOOLEAN]

\* What a worker's task means at each point.
Sound(x) ==
  /\ x.job = "save" => x.what \in Requests
  /\ x.job = "report" => x.what \in Formats
  /\ x.job = "one" => x.what \in Rows
  /\ x.at = "write" => x.job = "save" /\ x.todo \subseteq Contents
  /\ x.at = "wait" => x.job # "save"
  /\ x.at = "render" => x.job = "report"
  /\ x.at \in {"stage", "record", "restore", "empty", "close"} =>
       x.job \in {"one", "all"} /\ x.op \in Names /\ x.todo \subseteq Names
  /\ x.at = "list" => x.job \in {"one", "all"}
  /\ x.at \in {"pick", "clean", "cleaned"} => x.job = "cleanup" /\ x.todo \subseteq Names
  /\ x.at \in {"clean", "cleaned"} => x.op \in Names

TypeInv ==
  /\ assessment \in [ver : Nat \ {0}, draft : BOOLEAN, exists : BOOLEAN]
  /\ rows \subseteq Rows
  /\ journal \subseteq Requests
  /\ uploads \subseteq Requests
  /\ sent \in [Requests -> Nat]
  /\ disk \subseteq Names
  /\ trash \subseteq Names \X Names
  /\ ops \subseteq [id : Names, status : Statuses, files : SUBSET Names]
  /\ lock \in Workers \cup {Free, Dead}
  /\ work \in [Workers -> Tasks]
  /\ \A w \in Workers : Sound(work[w])
  /\ next \in 1 .. MaxName + 1
  /\ faults \in 0 .. MaxFaults
  /\ left \subseteq Names

LEMMA IdleType == Idle \in Tasks /\ Sound(Idle)
BY DEF Idle, Tasks, Sound, Places

\* A step that leaves the rest alone and gives w a task.
LEMMA GoesType ==
  ASSUME TypeInv, NEW w \in Workers, NEW x \in Tasks, Sound(x), Goes(w, x)
  PROVE  work' \in [Workers -> Tasks] /\ \A v \in Workers : Sound(work'[v])
BY DEF TypeInv, Goes

\* A new operation status keeps the type of the operations.
LEMMA StatusType ==
  ASSUME TypeInv, NEW o, NEW s \in Statuses
  PROVE  WithStatus(o, s) \subseteq [id : Names, status : Statuses, files : SUBSET Names]
BY DEF TypeInv, WithStatus

LEMMA TrashType ==
  ASSUME TypeInv, NEW o
  PROVE  InTrash(o) \subseteq Names
BY DEF TypeInv, InTrash

\* What a write that fails may leave behind.
LEMMA PartType ==
  ASSUME TypeInv, PartWritten
  PROVE  disk' \subseteq Names /\ left' \subseteq Names /\ next' \in 1 .. MaxName + 1
<1>1. CASE UNCHANGED <<disk, next, left>>
  BY <1>1 DEF TypeInv
<1>2. CASE Named /\ disk' = disk \cup {next} /\ left' = left \cup {next}
  <2>1. next \in Names /\ next' \in 1 .. MaxName + 1
    BY <1>2, FilesAssumption DEF TypeInv, Named, Names
  <2>. QED BY <1>2, <2>1 DEF TypeInv
<1>. QED BY <1>1, <1>2 DEF PartWritten

\* A removal takes pairs from the trash, whatever it answers.
LEMMA RemovalType ==
  ASSUME TypeInv, NEW o, Removed(o) \/ Vanished(o) \/ RemovalThrows(o)
  PROVE  /\ trash' \subseteq trash
         /\ faults' \in 0 .. MaxFaults
         /\ left' \subseteq Names
<1>1. trash' \subseteq trash
  BY DEF Removed, Vanished, RemovalThrows, HalfEmptied
<1>2. faults' \in 0 .. MaxFaults
  BY FilesAssumption DEF Removed, Vanished, RemovalThrows, Fault, TypeInv
<1>3. {t[2] : t \in {u \in trash' : u[1] = o}} \subseteq Names
  BY <1>1 DEF TypeInv
<1>4. left' \subseteq Names
  BY <1>3 DEF Removed, Vanished, RemovalThrows, TypeInv
<1>. QED BY <1>1, <1>2, <1>4

LEMMA TypeInit == Init => TypeInv
BY FilesAssumption, IdleType DEF Init, TypeInv

LEMMA TypeStep == TypeInv /\ [Next]_vars => TypeInv'
<1>. SUFFICES ASSUME TypeInv, [Next]_vars PROVE TypeInv'
  OBVIOUS
<1>. USE FilesAssumption DEF hist, data
<1>0. CASE UNCHANGED vars
  BY <1>0 DEF vars, TypeInv
<1>1. ASSUME NEW r \in Requests, Send(r) PROVE TypeInv'
  BY <1>1 DEF Send, TypeInv
<1>2. CASE LockExpires
  BY <1>2 DEF LockExpires, Fault, TypeInv
<1>3. ASSUME NEW w \in Workers, Asked(w) PROVE TypeInv'
  <2>1. ASSUME NEW r \in Requests, SaveArrives(w, r) PROVE TypeInv'
    <3>. DEFINE x == [Idle EXCEPT !.at = "write", !.job = "save", !.what = r,
                                  !.todo = Carries[r]]
    <3>1. x \in Tasks /\ Sound(x)
      BY DEF Idle, Tasks, Sound, Places
    <3>2. CASE Goes(w, x)
      <4>1. work' \in [Workers -> Tasks] /\ \A v \in Workers : Sound(work'[v])
        BY <1>3, <3>1, <3>2, GoesType
      <4>. QED BY <2>1, <4>1 DEF SaveArrives, TypeInv
    <3>3. CASE UNCHANGED work
      BY <2>1, <3>3 DEF SaveArrives, TypeInv
    <3>. QED BY <2>1, <3>2, <3>3 DEF SaveArrives
  <2>2. ASSUME NEW f \in Formats, ReportAsked(w, f) PROVE TypeInv'
    <3>. DEFINE x == [Idle EXCEPT !.at = "wait", !.job = "report", !.what = f]
    <3>1. x \in Tasks /\ Sound(x)
      BY <2>2 DEF Idle, Tasks, Sound, Places
    <3>2. work' \in [Workers -> Tasks] /\ \A v \in Workers : Sound(work'[v])
      BY <1>3, <2>2, <3>1, GoesType DEF ReportAsked
    <3>. QED BY <2>2, <3>2 DEF ReportAsked, TypeInv
  <2>3. CASE DeletionAsked(w)
    <3>. DEFINE one(r) == [Idle EXCEPT !.at = "wait", !.job = "one", !.what = r]
                all == [Idle EXCEPT !.at = "wait", !.job = "all"]
    <3>1. all \in Tasks /\ Sound(all)
      BY DEF Idle, Tasks, Sound, Places
    <3>2. ASSUME NEW r \in Reports PROVE one(r) \in Tasks /\ Sound(one(r))
      BY DEF Idle, Tasks, Sound, Places, Reports, TypeInv
    <3>3. work' \in [Workers -> Tasks] /\ \A v \in Workers : Sound(work'[v])
      <4>1. CASE Goes(w, all)
        BY <1>3, <3>1, <4>1, GoesType
      <4>2. ASSUME NEW r \in Reports, Goes(w, one(r))
            PROVE  work' \in [Workers -> Tasks] /\ \A v \in Workers : Sound(work'[v])
        BY <1>3, <3>2, <4>2, GoesType
      <4>. QED BY <2>3, <4>1, <4>2 DEF DeletionAsked
    <3>. QED BY <2>3, <3>3 DEF DeletionAsked, TypeInv
  <2>4. CASE CleanupStarts(w)
    <3>. DEFINE x == [Idle EXCEPT !.at = "pick", !.job = "cleanup",
                                  !.todo = {o.id : o \in Retryable}]
    <3>1. {o.id : o \in Retryable} \subseteq Names
      BY DEF Retryable, TypeInv
    <3>2. x \in Tasks /\ Sound(x)
      BY <3>1 DEF Idle, Tasks, Sound, Places
    <3>3. work' \in [Workers -> Tasks] /\ \A v \in Workers : Sound(work'[v])
      BY <1>3, <2>4, <3>2, GoesType DEF CleanupStarts
    <3>. QED BY <2>4, <3>3 DEF CleanupStarts, TypeInv
  <2>. QED BY <1>3, <2>1, <2>2, <2>3, <2>4 DEF Asked
<1>4. ASSUME NEW w \in Workers, Crash(w) PROVE TypeInv'
  <2>1. work' \in [Workers -> Tasks] /\ \A v \in Workers : Sound(work'[v])
    BY <1>4, IdleType, GoesType DEF Crash
  <2>2. {m[1] : m \in work[w].made} \subseteq Names
    BY <1>4 DEF TypeInv, Tasks
  <2>3. left' \subseteq Names
    BY <1>4, <2>2, TrashType DEF Crash, TypeInv
  <2>. QED BY <1>4, <2>1, <2>3 DEF Crash, Fault, TypeInv
<1>5. ASSUME NEW w \in Workers, Step(w) PROVE TypeInv'
  <2>0. work[w] \in Tasks /\ Sound(work[w])
    BY <1>5 DEF TypeInv
  <2>1. CASE WriteFile(w)
    <3>1. PICK c \in work[w].todo :
            Goes(w, [work[w] EXCEPT !.todo = @ \ {c}, !.made = @ \cup {<<next, c>>}])
      BY <2>1 DEF WriteFile
    <3>. DEFINE x == [work[w] EXCEPT !.todo = @ \ {c}, !.made = @ \cup {<<next, c>>}]
    <3>2. next \in Names /\ c \in Contents /\ work[w].at = "write" /\ next' = next + 1
      BY <2>0, <2>1 DEF WriteFile, Named, Names, TypeInv, Sound
    <3>3. x \in Tasks
      <4>1. <<next, c>> \in Names \X (Contents \cup {"report"})
        BY <3>2
      <4>2. x.todo \subseteq Contents \cup Names
        BY <2>0 DEF Tasks
      <4>3. x.made \subseteq Names \X (Contents \cup {"report"})
        BY <2>0, <4>1 DEF Tasks
      <4>. QED BY <2>0, <4>2, <4>3 DEF Tasks
    <3>4. Sound(x)
      BY <2>0, <3>2 DEF Sound, Tasks
    <3>5. work' \in [Workers -> Tasks] /\ \A v \in Workers : Sound(work'[v])
      BY <1>5, <3>1, <3>3, <3>4, GoesType
    <3>. QED BY <2>1, <3>2, <3>5 DEF WriteFile, TypeInv, Names, Named
  <2>2. CASE WriteFails(w)
    <3>1. disk' \subseteq Names /\ left' \subseteq Names /\ next' \in 1 .. MaxName + 1
      BY <2>2, PartType DEF WriteFails
    <3>. QED BY <2>0, <2>2, <3>1 DEF WriteFails, GoesTo, Fault, TypeInv, Sound, Tasks, Places
  <2>3. CASE CommitSave(w)
    <3>. DEFINE stored == [work[w] EXCEPT !.at = "answer", !.ok = TRUE]
                again == [work[w] EXCEPT !.at = AfterReplay, !.ok = TRUE]
                refused == [work[w] EXCEPT !.at = "undo"]
    <3>1. stored \in Tasks /\ again \in Tasks /\ refused \in Tasks
      BY <2>0 DEF Tasks, Places, AfterReplay
    <3>2. Sound(stored) /\ Sound(again) /\ Sound(refused)
      BY <2>0 DEF Sound, Tasks, AfterReplay
    <3>3. Goes(w, stored) \/ Goes(w, again) \/ Goes(w, refused)
      BY <2>3 DEF CommitSave, Goes, GoesTo
    <3>4. work' \in [Workers -> Tasks] /\ \A v \in Workers : Sound(work'[v])
      BY <1>5, <3>1, <3>2, <3>3, GoesType
    <3>5. \A m \in work[w].made : EvidenceRow(m) \in Rows
      BY <2>0 DEF EvidenceRow, Rows, Tasks
    <3>. QED BY <2>0, <2>3, <3>4, <3>5 DEF CommitSave, Released, TypeInv, Sound
  <2>4. CASE Undo(w)
    BY <2>0, <2>4 DEF Undo, Goes, Fault, TypeInv, Sound, Tasks, Places
  <2>5. CASE Answer(w)
    BY <2>0, <2>5, IdleType DEF Answer, Stops, Goes, Released, Answered, TypeInv
  <2>6. CASE TakeLock(w)
    <3>. DEFINE to(at) == [work[w] EXCEPT !.at = at]
                shot(n) == [work[w] EXCEPT !.at = "render", !.base = assessment.ver, !.num = n]
    <3>1. ASSUME NEW at \in {"commit", "undo", "list"}, at = "list" => work[w].job \in {"one", "all"}
          PROVE  to(at) \in Tasks /\ Sound(to(at))
      BY <2>0, <3>1 DEF Tasks, Places, Sound
    <3>2. ASSUME NEW n \in 1 .. MaxName + 1, work[w].job = "report"
          PROVE  shot(n) \in Tasks /\ Sound(shot(n))
      <4>1. n \in Nat /\ assessment.ver \in Nat
        BY DEF TypeInv
      <4>2. shot(n) \in Tasks
        BY <2>0, <4>1 DEF Tasks, Places
      <4>. QED BY <2>0, <3>2, <4>2 DEF Sound, Tasks
    <3>3. \/ Goes(w, to("commit"))
          \/ Goes(w, to("undo"))
          \/ Goes(w, to("list")) /\ work[w].job \in {"one", "all"}
          \/ work[w].job = "report" /\ \E n \in 1 .. MaxName + 1 : Goes(w, shot(n))
      BY <2>6 DEF TakeLock, Goes, GoesTo
    <3>4. work' \in [Workers -> Tasks] /\ \A v \in Workers : Sound(work'[v])
      BY <1>5, <3>1, <3>2, <3>3, GoesType
    <3>. QED BY <2>6, <3>4 DEF TakeLock, TypeInv
  <2>7. CASE LockTimeout(w)
    <3>. DEFINE x == [work[w] EXCEPT !.at = "undo"]
    <3>1. x \in Tasks /\ Sound(x)
      BY <2>0 DEF Tasks, Places, Sound
    <3>2. work' \in [Workers -> Tasks] /\ \A v \in Workers : Sound(work'[v])
      BY <1>5, <2>7, <3>1, GoesType DEF LockTimeout, Goes, GoesTo
    <3>. QED BY <2>7, <3>2 DEF LockTimeout, TypeInv
  <2>8. CASE Render(w)
    <3>. DEFINE x == [work[w] EXCEPT !.at = "commit", !.made = {<<next, "report">>}]
    <3>1. next \in Names /\ next' = next + 1
      BY <2>8 DEF Render, Named, Names, TypeInv
    <3>2. x \in Tasks /\ Sound(x)
      <4>1. {<<next, "report">>} \subseteq Names \X (Contents \cup {"report"})
        BY <3>1
      <4>2. x \in Tasks
        BY <2>0, <4>1 DEF Tasks, Places
      <4>. QED BY <2>0, <4>2 DEF Sound, Tasks
    <3>3. work' \in [Workers -> Tasks] /\ \A v \in Workers : Sound(work'[v])
      BY <1>5, <2>8, <3>2, GoesType DEF Render
    <3>. QED BY <2>8, <3>1, <3>3 DEF Render, TypeInv, Names
  <2>9. CASE RenderFails(w)
    <3>1. disk' \subseteq Names /\ left' \subseteq Names /\ next' \in 1 .. MaxName + 1
      BY <2>9, PartType DEF RenderFails
    <3>. QED BY <2>0, <2>9, <3>1 DEF RenderFails, GoesTo, Fault, TypeInv, Sound, Tasks, Places
  <2>10. CASE CommitReport(w)
    <3>. DEFINE x == [work[w] EXCEPT !.at = "undo"]
    <3>1. x \in Tasks /\ Sound(x)
      BY <2>0 DEF Tasks, Places, Sound
    <3>2. Goes(w, Idle) \/ Goes(w, x)
      BY <2>10 DEF CommitReport, Stops, Goes, GoesTo
    <3>3. work' \in [Workers -> Tasks] /\ \A v \in Workers : Sound(work'[v])
      BY <1>5, <3>1, <3>2, IdleType, GoesType
    <3>4. \A m \in work[w].made : ReportRow(w, m) \in Rows
      BY <2>0, <2>10 DEF CommitReport, ReportRow, Rows, Tasks, Sound
    <3>5. rows' \subseteq Rows
      <4>1. rows' = rows \/ rows' = rows \cup {ReportRow(w, m) : m \in work[w].made}
        BY <2>10 DEF CommitReport
      <4>2. {ReportRow(w, m) : m \in work[w].made} \subseteq Rows
        BY <3>4
      <4>. QED BY <4>1, <4>2 DEF TypeInv
    <3>7. assessment' \in [ver : Nat \ {0}, draft : BOOLEAN, exists : BOOLEAN]
      <4>. DEFINE Type == [ver : Nat \ {0}, draft : BOOLEAN, exists : BOOLEAN]
                  counted == [assessment EXCEPT !.ver = @ + 1]
      <4>1. assessment \in Type /\ counted \in Type
        BY DEF TypeInv
      <4>2. assessment' = assessment \/ assessment' = [counted EXCEPT !.draft = FALSE]
        BY <2>10, Zenon DEF CommitReport
      <4>. HIDE DEF counted
      <4>. QED BY <4>1, <4>2
    <3>6. lock' \in Workers \cup {Free, Dead} /\ faults' \in 0 .. MaxFaults
      BY <2>10 DEF CommitReport, Stops, Released, Fault, TypeInv
    <3>. QED BY <2>10, <3>3, <3>5, <3>6, <3>7 DEF CommitReport, TypeInv
  <2>11. CASE List(w)
    <3>. DEFINE files == {r.file : r \in Targets(w)}
                x == [work[w] EXCEPT !.at = "stage", !.todo = files, !.op = next]
                y == [work[w] EXCEPT !.at = "undo"]
    <3>1. CASE files \subseteq disk /\ Named /\ ops' = ops \cup {Operation(next, files)} /\ Goes(w, x)
      <4>1. next \in Names /\ next' = next + 1 /\ files \subseteq Names /\ work[w].at = "list"
        BY <2>11, <3>1 DEF Named, Names, TypeInv, List
      <4>2. x \in Tasks /\ Sound(x)
        BY <2>0, <4>1 DEF Tasks, Places, Sound
      <4>3. work' \in [Workers -> Tasks] /\ \A v \in Workers : Sound(work'[v])
        BY <1>5, <3>1, <4>2, GoesType
      <4>4. Operation(next, files) \in [id : Names, status : Statuses, files : SUBSET Names]
        BY <4>1 DEF Operation, Statuses
      <4>. QED BY <2>11, <3>1, <4>1, <4>3, <4>4 DEF List, TypeInv, Names
    <3>2. CASE Goes(w, y) /\ UNCHANGED <<ops, next>>
      <4>1. y \in Tasks /\ Sound(y)
        BY <2>0 DEF Tasks, Places, Sound
      <4>2. work' \in [Workers -> Tasks] /\ \A v \in Workers : Sound(work'[v])
        BY <1>5, <3>2, <4>1, GoesType
      <4>. QED BY <2>11, <3>2, <4>2 DEF List, TypeInv
    <3>. QED BY <2>11, <3>1, <3>2 DEF List, Goes, GoesTo
  <2>12. CASE Stage(w)
    BY <2>0, <2>12 DEF Stage, Goes, GoesTo, Fault, TypeInv, Sound, Tasks, Places
  <2>13. CASE DeleteRow(w)
    <3>. DEFINE to(at) == [work[w] EXCEPT !.at = at]
    <3>1. to("record") \in Tasks /\ to("restore") \in Tasks
      BY <2>0 DEF Tasks, Places
    <3>2. Sound(to("record")) /\ Sound(to("restore"))
      BY <2>0, <2>13 DEF DeleteRow, Sound, Tasks
    <3>3. Goes(w, to("record")) \/ Goes(w, to("restore"))
      BY <2>13 DEF DeleteRow, Goes, GoesTo
    <3>4. work' \in [Workers -> Tasks] /\ \A v \in Workers : Sound(work'[v])
      BY <1>5, <3>1, <3>2, <3>3, GoesType
    <3>5. rows' \subseteq Rows /\ journal' \subseteq Requests /\ faults' \in 0 .. MaxFaults
      BY <2>13 DEF DeleteRow, Fault, TypeInv
    <3>6. assessment' \in [ver : Nat \ {0}, draft : BOOLEAN, exists : BOOLEAN]
      BY <2>13 DEF DeleteRow, TypeInv
    <3>. QED BY <2>13, <3>4, <3>5, <3>6 DEF DeleteRow, TypeInv
  <2>14. CASE Restore(w)
    BY <2>0, <2>14, IdleType, StatusType, TrashType DEF Restore, Stops, Goes, Released, TypeInv, Statuses
  <2>15. CASE Record(w)
    <3>. DEFINE to(at) == [work[w] EXCEPT !.at = at]
    <3>1. ASSUME NEW at \in {"empty", "close"} PROVE to(at) \in Tasks /\ Sound(to(at))
      BY <2>0, <2>15 DEF Record, Tasks, Places, Sound
    <3>2. Goes(w, Idle) \/ Goes(w, to("empty")) \/ Goes(w, to("close"))
      BY <2>15 DEF Record, GoesTo, Goes, Stops
    <3>3. work' \in [Workers -> Tasks] /\ \A v \in Workers : Sound(work'[v])
      BY <1>5, <3>1, <3>2, IdleType, GoesType
    <3>4. ops' \subseteq [id : Names, status : Statuses, files : SUBSET Names]
      BY <2>15, StatusType DEF Record, TypeInv, Statuses
    <3>5. left' \subseteq Names
      BY <2>15, TrashType DEF Record, TypeInv
    <3>6. faults' \in 0 .. MaxFaults /\ lock' \in Workers \cup {Free, Dead}
      BY <2>15 DEF Record, Fault, Stops, Released, TypeInv
    <3>. QED BY <2>15, <3>3, <3>4, <3>5, <3>6 DEF Record, TypeInv
  <2>16. CASE Empty(w)
    <3>. DEFINE x == [work[w] EXCEPT !.at = "close"]
    <3>1. x \in Tasks /\ Sound(x)
      BY <2>0, <2>16 DEF Empty, Tasks, Places, Sound
    <3>2. work' \in [Workers -> Tasks] /\ \A v \in Workers : Sound(work'[v])
      BY <1>5, <2>16, <3>1, IdleType, GoesType DEF Empty, GoesTo, Goes, Stops
    <3>3. trash' \subseteq trash /\ faults' \in 0 .. MaxFaults /\ left' \subseteq Names
      BY <2>16, RemovalType DEF Empty
    <3>4. ops' \subseteq [id : Names, status : Statuses, files : SUBSET Names]
      BY <2>16, StatusType DEF Empty, TypeInv, Statuses
    <3>5. lock' \in Workers \cup {Free, Dead}
      BY <2>16 DEF Empty, Stops, Released, TypeInv
    <3>. QED BY <2>16, <3>2, <3>3, <3>4, <3>5 DEF Empty, TypeInv
  <2>17. CASE Close(w)
    <3>1. ops' \subseteq [id : Names, status : Statuses, files : SUBSET Names]
      BY <2>17, StatusType DEF Close, TypeInv, Statuses
    <3>2. work' \in [Workers -> Tasks] /\ \A v \in Workers : Sound(work'[v])
      BY <1>5, <2>17, IdleType, GoesType DEF Close, Stops
    <3>3. faults' \in 0 .. MaxFaults /\ lock' \in Workers \cup {Free, Dead}
      BY <2>17 DEF Close, Fault, Stops, Released, TypeInv
    <3>. QED BY <2>17, <3>1, <3>2, <3>3 DEF Close, TypeInv
  <2>18. CASE Pick(w)
    <3>. DEFINE x(at, o) == [work[w] EXCEPT !.at = at, !.op = o, !.todo = @ \ {o}]
    <3>1. ASSUME NEW at \in {"clean", "cleaned"}, NEW o \in work[w].todo
          PROVE  x(at, o) \in Tasks /\ Sound(x(at, o))
      <4>1. o \in Names /\ work[w].job = "cleanup" /\ work[w].todo \subseteq Names
        BY <2>0, <2>18 DEF Pick, Sound
      <4>2. x(at, o) \in Tasks
        BY <2>0, <4>1 DEF Tasks, Places
      <4>. QED BY <2>0, <4>1, <4>2 DEF Sound, Tasks
    <3>2. Goes(w, Idle) \/ \E o \in work[w].todo, at \in {"clean", "cleaned"} : Goes(w, x(at, o))
      BY <2>18 DEF Pick
    <3>3. work' \in [Workers -> Tasks] /\ \A v \in Workers : Sound(work'[v])
      BY <1>5, <3>1, <3>2, IdleType, GoesType
    <3>. QED BY <2>18, <3>3 DEF Pick, TypeInv
  <2>19. CASE Clean(w)
    <3>. DEFINE to(at) == [work[w] EXCEPT !.at = at]
    <3>1. ASSUME NEW at \in {"pick", "cleaned"} PROVE to(at) \in Tasks /\ Sound(to(at))
      BY <2>0, <2>19 DEF Clean, Tasks, Places, Sound
    <3>2. work' \in [Workers -> Tasks] /\ \A v \in Workers : Sound(work'[v])
      BY <1>5, <2>19, <3>1, GoesType DEF Clean, GoesTo, Goes
    <3>3. trash' \subseteq trash /\ faults' \in 0 .. MaxFaults /\ left' \subseteq Names
      BY <2>19, RemovalType DEF Clean
    <3>4. ops' \subseteq [id : Names, status : Statuses, files : SUBSET Names]
      BY <2>19, StatusType DEF Clean, TypeInv, Statuses
    <3>. QED BY <2>19, <3>2, <3>3, <3>4 DEF Clean, TypeInv
  <2>20. CASE Cleaned(w)
    <3>1. ops' \subseteq [id : Names, status : Statuses, files : SUBSET Names]
      BY <2>20, StatusType DEF Cleaned, TypeInv, Statuses
    <3>2. faults' \in 0 .. MaxFaults
      BY <2>20 DEF Cleaned, Fault, TypeInv
    <3>. QED BY <2>0, <2>20, <3>1, <3>2 DEF Cleaned, GoesTo, TypeInv, Sound, Tasks, Places
  <2>. QED BY <1>5, <2>1, <2>2, <2>3, <2>4, <2>5, <2>6, <2>7, <2>8, <2>9, <2>10, <2>11, <2>12,
              <2>13, <2>14, <2>15, <2>16, <2>17, <2>18, <2>19, <2>20 DEF Step
<1>. QED BY <1>0, <1>1, <1>2, <1>3, <1>4, <1>5 DEF Next

\* What the type invariant of the checked property says follows.
LEMMA TypeImplies == TypeInv => FTypeOK
<1>. SUFFICES ASSUME TypeInv PROVE FTypeOK
  OBVIOUS
<1>1. DOMAIN work = Workers
  BY DEF TypeInv
<1>2. \A w \in Workers : work[w].at \in Places /\ work[w].op \in {0} \cup Names
  BY DEF TypeInv, Tasks
<1>. QED BY <1>1, <1>2 DEF TypeInv, FTypeOK, Rows

LEMMA TypeInvariant == Spec => []TypeInv
BY TypeInit, TypeStep, PTL DEF Spec

\* Every file, operation and status keeps its type: for every number of
\* workers, requests, files and faults, whatever crashes or overruns its lock.
THEOREM FilesTypeCorrect == Spec => []FTypeOK
BY TypeInvariant, TypeImplies, PTL

-----------------------------------------------------------------------------
(* Who moves *)

\* The task of a worker after a move.
LEMMA GoesToFields ==
  ASSUME TypeInv, NEW w \in Workers, NEW at, GoesTo(w, at)
  PROVE  /\ work'[w].at = at
         /\ work'[w].job = work[w].job /\ work'[w].what = work[w].what
         /\ work'[w].todo = work[w].todo /\ work'[w].made = work[w].made
         /\ work'[w].op = work[w].op /\ work'[w].ok = work[w].ok
         /\ work'[w].base = work[w].base /\ work'[w].num = work[w].num
BY DEF TypeInv, Tasks, GoesTo

LEMMA GoesFields ==
  ASSUME TypeInv, NEW w \in Workers, NEW x, Goes(w, x)
  PROVE  work'[w] = x
BY DEF TypeInv, Goes

\* At most one worker moves.
LEMMA OneMoves ==
  ASSUME TypeInv, [Next]_vars, NEW v \in Workers, NEW w \in Workers, v # w
  PROVE  work'[v] = work[v] \/ work'[w] = work[w]
<1>. USE DEF data, hist
<1>1. ASSUME NEW u \in Workers, NEW x, Goes(u, x) PROVE work'[v] = work[v] \/ work'[w] = work[w]
  BY <1>1 DEF Goes, TypeInv
<1>2. ASSUME NEW u \in Workers, NEW at, GoesTo(u, at)
      PROVE  work'[v] = work[v] \/ work'[w] = work[w]
  BY <1>2 DEF GoesTo, TypeInv
<1>3. CASE UNCHANGED work
  BY <1>3
<1>4. ASSUME NEW u \in Workers, Asked(u) \/ Crash(u) PROVE work'[v] = work[v] \/ work'[w] = work[w]
  BY <1>1, <1>3, <1>4 DEF Asked, SaveArrives, ReportAsked, DeletionAsked, CleanupStarts, Crash
<1>5. ASSUME NEW u \in Workers, Step(u) PROVE work'[v] = work[v] \/ work'[w] = work[w]
  <2>1. (\E x : Goes(u, x)) \/ (\E at : GoesTo(u, at)) \/ UNCHANGED work
    BY <1>5
    DEF Step, WriteFile, WriteFails, CommitSave, Undo, Answer, TakeLock, LockTimeout, Render,
        RenderFails, CommitReport, List, Stage, DeleteRow, Restore, Record, Empty, Close, Pick,
        Clean, Cleaned, Stops
  <2>. QED BY <1>1, <1>2, <1>3, <1>5, <2>1
<1>. QED BY <1>3, <1>4, <1>5 DEF Next, Send, LockExpires, vars

\* A task changes by a step of its worker.
LEMMA Mover ==
  ASSUME TypeInv, [Next]_vars, NEW v \in Workers, work'[v] # work[v]
  PROVE  Asked(v) \/ Crash(v) \/ Step(v)
<1>. USE DEF data, hist
<1>1. ASSUME NEW u \in Workers, NEW x, Goes(u, x) PROVE u = v
  BY <1>1 DEF Goes, TypeInv
<1>2. ASSUME NEW u \in Workers, NEW at, GoesTo(u, at) PROVE u = v
  BY <1>2 DEF GoesTo, TypeInv
<1>3. ASSUME NEW u \in Workers, Asked(u) \/ Crash(u) PROVE u = v
  BY <1>1, <1>3 DEF Asked, SaveArrives, ReportAsked, DeletionAsked, CleanupStarts, Crash
<1>4. ASSUME NEW u \in Workers, Step(u) PROVE u = v
  <2>1. (\E x : Goes(u, x)) \/ (\E at : GoesTo(u, at)) \/ UNCHANGED work
    BY <1>4
    DEF Step, WriteFile, WriteFails, CommitSave, Undo, Answer, TakeLock, LockTimeout, Render,
        RenderFails, CommitReport, List, Stage, DeleteRow, Restore, Record, Empty, Close, Pick,
        Clean, Cleaned, Stops
  <2>. QED BY <1>1, <1>2, <1>4, <2>1
<1>5. \E u \in Workers : Asked(u) \/ Crash(u) \/ Step(u)
  BY DEF Next, Send, LockExpires, vars
<1>. QED BY <1>3, <1>4, <1>5

\* What a save that gets past the first checks is asked to do.
SaveBegins(w, q) ==
  /\ Fits(q) /\ q \in uploads
  /\ work'[w].job = "save" /\ work'[w].what = q /\ work'[w].todo = Carries[q]
  /\ UNCHANGED <<assessment, rows, journal, sent>>

\* A worker that has just been asked has nothing yet.
LEMMA AskedFields ==
  ASSUME TypeInv, NEW w \in Workers, Asked(w), work'[w] # work[w]
  PROVE  /\ work'[w].made = {} /\ ~ work'[w].ok
         /\ \/ work'[w].at = "write" /\ \E q \in Requests : SaveBegins(w, q)
            \/ /\ work'[w].at = "wait"
               /\ work'[w].job = "one" => \E r \in rows : work'[w].what = r
            \/ /\ work'[w].at = "pick" /\ work'[w].job = "cleanup"
               /\ work'[w].todo = {o.id : o \in Retryable} /\ ops' = ops
<1>. DEFINE x == work'[w]
<1>1. work \in [Workers -> Tasks]
  BY DEF TypeInv
<1>2. ASSUME NEW q \in Requests, SaveArrives(w, q)
      PROVE  x.made = {} /\ ~ x.ok /\ x.at = "write" /\ SaveBegins(w, q)
  <2>. DEFINE y == [Idle EXCEPT !.at = "write", !.job = "save", !.what = q, !.todo = Carries[q]]
  <2>1. /\ y.made = {} /\ ~ y.ok /\ y.at = "write" /\ y.job = "save"
        /\ y.what = q /\ y.todo = Carries[q]
    BY DEF Idle
  <2>2. Goes(w, y) /\ Fits(q) /\ q \in uploads /\ UNCHANGED <<assessment, rows, journal, sent>>
    BY <1>2 DEF SaveArrives
  <2>. HIDE DEF y
  <2>. QED BY <1>1, <2>1, <2>2 DEF Goes, SaveBegins
<1>3. ASSUME NEW f \in Formats, ReportAsked(w, f)
      PROVE  x.made = {} /\ ~ x.ok /\ x.at = "wait" /\ x.job = "report"
  <2>. DEFINE y == [Idle EXCEPT !.at = "wait", !.job = "report", !.what = f]
  <2>1. y.made = {} /\ ~ y.ok /\ y.at = "wait" /\ y.job = "report"
    BY DEF Idle
  <2>2. Goes(w, y)
    BY <1>3 DEF ReportAsked
  <2>. HIDE DEF y
  <2>. QED BY <1>1, <2>1, <2>2 DEF Goes
<1>4. CASE DeletionAsked(w)
  <2>. DEFINE one(r) == [Idle EXCEPT !.at = "wait", !.job = "one", !.what = r]
              all == [Idle EXCEPT !.at = "wait", !.job = "all"]
  <2>1. all.made = {} /\ ~ all.ok /\ all.at = "wait" /\ all.job = "all"
    BY DEF Idle
  <2>2. \A r : one(r).made = {} /\ ~ one(r).ok /\ one(r).at = "wait" /\ one(r).what = r
    BY DEF Idle
  <2>3. Goes(w, all) \/ \E r \in rows : Goes(w, one(r))
    BY <1>4 DEF DeletionAsked, Reports
  <2>. HIDE DEF one, all
  <2>. QED BY <1>1, <2>1, <2>2, <2>3 DEF Goes
<1>5. CASE CleanupStarts(w)
  <2>. DEFINE ids == {o.id : o \in Retryable}
              y == [Idle EXCEPT !.at = "pick", !.job = "cleanup", !.todo = ids]
  <2>1. y.made = {} /\ ~ y.ok /\ y.at = "pick" /\ y.job = "cleanup" /\ y.todo = ids
    BY DEF Idle
  <2>2. Goes(w, y) /\ ops' = ops
    BY <1>5 DEF CleanupStarts
  <2>. HIDE DEF y
  <2>. QED BY <1>1, <2>1, <2>2 DEF Goes
<1>. QED BY <1>2, <1>3, <1>4, <1>5 DEF Asked

-----------------------------------------------------------------------------
(* Temporary uploads *)

\* A save that was found stored is in the journal, as long as there is one.
StoredIsStored ==
  \A w \in Workers :
    work[w].job = "save" /\ work[w].ok /\ assessment.exists => work[w].what \in journal

UploadInv ==
  /\ StoredIsStored
  /\ UploadsOutliveFailures

LEMMA UploadInit == Init => UploadInv
BY DEF Init, UploadInv, StoredIsStored, UploadsOutliveFailures, Idle

\* The journal only grows, until the assessment goes, for good.
LEMMA JournalGrows ==
  ASSUME TypeInv, [Next]_vars, assessment'.exists
  PROVE  assessment.exists /\ journal \subseteq journal'
<1>. USE DEF data, hist
<1>. SUFFICES \/ UNCHANGED <<assessment, journal>>
              \/ assessment'.exists = assessment.exists /\ journal \subseteq journal'
  OBVIOUS
<1>0. CASE UNCHANGED vars
  BY <1>0 DEF vars
<1>1. ASSUME NEW r \in Requests, Send(r) PROVE UNCHANGED <<assessment, journal>>
  BY <1>1 DEF Send
<1>2. CASE LockExpires
  BY <1>2 DEF LockExpires
<1>3. ASSUME NEW w \in Workers, Asked(w) \/ Crash(w) PROVE UNCHANGED <<assessment, journal>>
  BY <1>3 DEF Asked, Crash, SaveArrives, ReportAsked, DeletionAsked, CleanupStarts
<1>4. ASSUME NEW w \in Workers, Step(w)
      PROVE  \/ UNCHANGED <<assessment, journal>>
             \/ assessment'.exists = assessment.exists /\ journal \subseteq journal'
  <2>1. CASE CommitSave(w)
    BY <2>1 DEF CommitSave, TypeInv
  <2>2. CASE CommitReport(w)
    <3>. DEFINE counted == [assessment EXCEPT !.ver = @ + 1]
    <3>1. assessment' = assessment \/ assessment' = [counted EXCEPT !.draft = FALSE]
      BY <2>2, Zenon DEF CommitReport
    <3>2. counted.exists = assessment.exists
      BY DEF TypeInv
    <3>3. counted \in [ver : Nat \ {0}, draft : BOOLEAN, exists : BOOLEAN]
      BY DEF TypeInv
    <3>. HIDE DEF counted
    <3>4. assessment'.exists = assessment.exists
      BY <3>1, <3>2, <3>3
    <3>. QED BY <2>2, <3>4 DEF CommitReport
  <2>3. CASE DeleteRow(w)
    <3>1. assessment' # [assessment EXCEPT !.exists = FALSE]
      BY DEF TypeInv
    <3>. QED BY <2>3, <3>1 DEF DeleteRow
  <2>. QED
    BY <1>4, <2>1, <2>2, <2>3
    DEF Step, WriteFile, WriteFails, Undo, Answer, TakeLock, LockTimeout, Render, RenderFails,
        List, Stage, Restore, Record, Empty, Close, Pick, Clean, Cleaned
<1>. QED BY <1>0, <1>1, <1>2, <1>3, <1>4 DEF Next

\* A worker that gets to know that its save is stored has it in the journal.
LEMMA StoredComesFromJournal ==
  ASSUME TypeInv, [Next]_vars, NEW v \in Workers, work'[v].job = "save", work'[v].ok
  PROVE  \/ work[v].job = "save" /\ work[v].ok /\ work'[v].what = work[v].what
         \/ work'[v].what \in journal'
<1>. USE DEF data, hist
<1>. SUFFICES ASSUME work'[v] # work[v]
              PROVE  \/ work'[v].job = work[v].job /\ work'[v].ok = work[v].ok
                        /\ work'[v].what = work[v].what
                     \/ work'[v].what \in journal'
  OBVIOUS
<1>1. ASSUME Stops(v) \/ Goes(v, Idle) PROVE FALSE
  <2>1. ~ Idle.ok
    BY DEF Idle
  <2>. QED BY <1>1, <2>1, GoesFields DEF Stops
<1>2. ASSUME NEW at, GoesTo(v, at)
      PROVE  work'[v].job = work[v].job /\ work'[v].ok = work[v].ok /\ work'[v].what = work[v].what
  BY <1>2, GoesToFields
<1>3. ASSUME NEW x, Goes(v, x),
             x.job = work[v].job, x.ok = work[v].ok, x.what = work[v].what
      PROVE  work'[v].job = work[v].job /\ work'[v].ok = work[v].ok /\ work'[v].what = work[v].what
  BY <1>3, GoesFields
<1>4. ~ Asked(v) /\ ~ Crash(v)
  BY <1>1, AskedFields DEF Crash
<1>5. CASE Step(v)
  <2>0. work \in [Workers -> Tasks]
    BY DEF TypeInv
  <2>1. CASE WriteFile(v)
    BY <1>3, <2>0, <2>1 DEF WriteFile, Tasks
  <2>2. CASE WriteFails(v) \/ LockTimeout(v) \/ RenderFails(v) \/ DeleteRow(v) \/ Cleaned(v) \/ Clean(v)
    BY <1>2, <2>2 DEF WriteFails, LockTimeout, RenderFails, DeleteRow, Cleaned, Clean
  <2>3. CASE CommitSave(v)
    <3>1. CASE GoesTo(v, "undo")
      BY <1>2, <3>1
    <3>2. ASSUME NEW at, Goes(v, [work[v] EXCEPT !.at = at, !.ok = TRUE]), work[v].what \in journal'
          PROVE  work'[v].what \in journal'
      BY <2>0, <3>2 DEF Goes, Tasks
    <3>3. \/ GoesTo(v, "undo")
          \/ Goes(v, [work[v] EXCEPT !.at = "answer", !.ok = TRUE]) /\ work[v].what \in journal'
          \/ Goes(v, [work[v] EXCEPT !.at = AfterReplay, !.ok = TRUE]) /\ work[v].what \in journal'
      BY <2>3 DEF CommitSave
    <3>. QED BY <3>1, <3>2, <3>3
  <2>4. CASE Undo(v)
    BY <1>3, <2>0, <2>4 DEF Undo, Tasks
  <2>5. CASE Answer(v) \/ Close(v)
    BY <1>1, <2>5 DEF Answer, Close
  <2>6. CASE TakeLock(v)
    <3>1. ASSUME NEW n, Goes(v, [work[v] EXCEPT !.at = "render", !.base = assessment.ver, !.num = n])
          PROVE  work'[v].job = work[v].job /\ work'[v].ok = work[v].ok /\ work'[v].what = work[v].what
      BY <1>3, <2>0, <3>1 DEF Tasks
    <3>. QED BY <1>2, <2>6, <3>1 DEF TakeLock
  <2>7. CASE Render(v)
    BY <1>3, <2>0, <2>7 DEF Render, Tasks
  <2>8. CASE CommitReport(v) \/ Restore(v) \/ Record(v) \/ Empty(v)
    BY <1>1, <1>2, <2>8 DEF CommitReport, Restore, Record, Empty
  <2>9. CASE List(v)
    <3>1. ASSUME NEW files, Goes(v, [work[v] EXCEPT !.at = "stage", !.todo = files, !.op = next])
          PROVE  work'[v].job = work[v].job /\ work'[v].ok = work[v].ok /\ work'[v].what = work[v].what
      BY <1>3, <2>0, <3>1 DEF Tasks
    <3>. QED BY <1>2, <2>9, <3>1 DEF List
  <2>10. CASE Stage(v)
    <3>1. ASSUME NEW f, Goes(v, [work[v] EXCEPT !.todo = @ \ {f}])
          PROVE  work'[v].job = work[v].job /\ work'[v].ok = work[v].ok /\ work'[v].what = work[v].what
      BY <1>3, <2>0, <3>1 DEF Tasks
    <3>. QED BY <1>2, <2>10, <3>1 DEF Stage
  <2>11. CASE Pick(v)
    <3>1. ASSUME NEW at, NEW o, Goes(v, [work[v] EXCEPT !.at = at, !.op = o, !.todo = @ \ {o}])
          PROVE  work'[v].job = work[v].job /\ work'[v].ok = work[v].ok /\ work'[v].what = work[v].what
      BY <1>3, <2>0, <3>1 DEF Tasks
    <3>. QED BY <1>1, <2>11, <3>1 DEF Pick
  <2>. QED BY <1>5, <2>1, <2>2, <2>3, <2>4, <2>5, <2>6, <2>7, <2>8, <2>9, <2>10, <2>11 DEF Step
<1>. QED BY <1>4, <1>5, Mover

\* Uploads go when their save is in the journal, and only then.
LEMMA UploadsGo ==
  ASSUME TypeInv, UploadInv, [Next]_vars, assessment.exists,
         NEW r \in Requests, r \in uploads, r \notin uploads'
  PROVE  r \in journal
<1>. USE DEF data, hist
<1>1. ASSUME NEW w \in Workers, NEW q \in Requests, SaveArrives(w, q) PROVE r \in journal
  BY <1>1 DEF SaveArrives
<1>2. ASSUME NEW w \in Workers, Answer(w) PROVE r \in journal
  BY <1>2 DEF Answer, Answered, UploadInv, StoredIsStored
<1>3. \/ \E w \in Workers, q \in Requests : SaveArrives(w, q)
      \/ \E w \in Workers : Answer(w)
  <2>1. \A q \in Requests : ~ Send(q)
    BY DEF Send
  <2>2. ~ LockExpires /\ ~ UNCHANGED vars
    BY DEF LockExpires, vars
  <2>3. \A w \in Workers : ~ Crash(w)
    BY DEF Crash
  <2>4. ASSUME NEW w \in Workers, Asked(w) PROVE \E q \in Requests : SaveArrives(w, q)
    BY <2>4 DEF Asked, ReportAsked, DeletionAsked, CleanupStarts
  <2>5. ASSUME NEW w \in Workers, Step(w) PROVE Answer(w)
    BY <2>5
    DEF Step, WriteFile, WriteFails, CommitSave, Undo, TakeLock, LockTimeout, Render, RenderFails,
        CommitReport, List, Stage, DeleteRow, Restore, Record, Empty, Close, Pick, Clean, Cleaned
  <2>. QED BY <2>1, <2>2, <2>3, <2>4, <2>5 DEF Next
<1>. QED BY <1>1, <1>2, <1>3

\* A request that is sent has its uploads.
LEMMA SentWithUploads ==
  ASSUME TypeInv, [Next]_vars, NEW r \in Requests, sent'[r] # 0, sent[r] = 0
  PROVE  r \in uploads'
<1>. USE DEF data, hist
<1>1. ASSUME NEW q \in Requests, Send(q) PROVE r \in uploads'
  BY <1>1 DEF Send, TypeInv
<1>2. CASE UNCHANGED sent
  BY <1>2
<1>3. ASSUME NEW w \in Workers, Asked(w) \/ Crash(w) PROVE UNCHANGED sent
  BY <1>3 DEF Asked, SaveArrives, ReportAsked, DeletionAsked, CleanupStarts, Crash
<1>4. ASSUME NEW w \in Workers, Step(w) PROVE UNCHANGED sent
  BY <1>4
  DEF Step, WriteFile, WriteFails, CommitSave, Undo, Answer, TakeLock, LockTimeout, Render,
      RenderFails, CommitReport, List, Stage, DeleteRow, Restore, Record, Empty, Close, Pick, Clean,
      Cleaned
<1>. QED BY <1>1, <1>2, <1>3, <1>4 DEF Next, LockExpires, vars

LEMMA UploadStep == TypeInv /\ UploadInv /\ [Next]_vars => UploadInv'
<1>. SUFFICES ASSUME TypeInv, UploadInv, [Next]_vars PROVE UploadInv'
  OBVIOUS
<1>1. StoredIsStored'
  BY JournalGrows, StoredComesFromJournal DEF UploadInv, StoredIsStored
<1>2. UploadsOutliveFailures'
  <2>. SUFFICES ASSUME assessment'.exists, NEW r \in Requests, sent'[r] # 0, r \notin uploads'
                PROVE  r \in journal'
    BY DEF UploadsOutliveFailures
  <2>1. assessment.exists /\ journal \subseteq journal'
    BY JournalGrows
  <2>2. sent[r] # 0
    BY SentWithUploads
  <2>3. CASE r \in uploads
    BY <2>1, <2>3, UploadsGo
  <2>4. CASE r \notin uploads
    BY <2>1, <2>2, <2>4 DEF UploadInv, UploadsOutliveFailures
  <2>. QED BY <2>3, <2>4
<1>. QED BY <1>1, <1>2 DEF UploadInv

\* The temporary uploads of a save outlive it until it is stored, whatever
\* the workers, the lock and the disk do: what was refused, timed out or died
\* can be sent again.
THEOREM UploadsAreKept == Spec => []UploadsOutliveFailures
<1>1. UploadInv => UploadsOutliveFailures
  BY DEF UploadInv
<1>. QED BY <1>1, UploadInit, UploadStep, TypeInvariant, PTL DEF Spec

-----------------------------------------------------------------------------
(* Rows and their files: the inductive invariant *)

\* The files a task has written that no row names yet.
Written(x) == IF x.at = "answer" THEN {} ELSE {m[1] : m \in x.made}

\* The files a deletion is about to move.
Wanted(x) ==
  (IF x.job = "one" THEN {x.what.file} ELSE {}) \cup (IF x.at = "stage" THEN x.todo ELSE {})

\* The row of its target is still there, or its deletion not yet recorded.
IsOpen(x) == x.at \in {"stage", "restore", "record"}

\* The operations whose trash it removes, now or later.
Decided(x) ==
  (IF x.at \in {"empty", "close", "clean", "cleaned"} THEN {x.op} ELSE {})
    \cup (IF x.at \in {"pick", "clean", "cleaned"} THEN x.todo ELSE {})

\* Names are never used twice.
FreshData ==
  /\ \A f \in disk : f < next
  /\ \A r \in rows : r.file < next
  /\ \A t \in trash : t[1] < next /\ t[2] < next
  /\ \A o \in ops : o.id < next

FreshTasks ==
  \A w \in Workers :
    /\ \A f \in Written(work[w]) \cup Wanted(work[w]) \cup Decided(work[w]) : f < next
    /\ IsOpen(work[w]) => work[w].op < next

\* What a task has written is on the disk until it gives it up, is one file
\* for each content, and is nobody else's.
WrittenOnce ==
  \A w \in Workers : \A m, n \in work[w].made : m[1] = n[1] => m = n

WrittenThere ==
  \A w \in Workers : work[w].at \in {"write", "commit"} => Written(work[w]) \subseteq disk

WrittenApart ==
  \A v, w \in Workers : v # w => Written(work[v]) \cap Written(work[w]) = {}

WrittenUnnamed ==
  \A w \in Workers : \A f \in Written(work[w]) :
    /\ \A r \in rows : r.file # f
    /\ \A t \in trash : t[2] # f

WrittenUnwanted ==
  \A v, w \in Workers : Wanted(work[v]) \cap Written(work[w]) = {}

RowsApart == \A r, s \in rows : r.file = s.file => r = s

StagedIn(operations, o) == \E x \in operations : x.id = o /\ x.status = "staged"

\* A deletion owns its operation until it has recorded what became of it.
OperationsApart == \A x, y \in ops : x.id = y.id => x = y

OpenStaged == \A w \in Workers : IsOpen(work[w]) => StagedIn(ops, work[w].op)

OpenApart ==
  \A v, w \in Workers :
    v # w /\ IsOpen(work[v]) /\ IsOpen(work[w]) => work[v].op # work[w].op

DecidedNotStaged ==
  \A w \in Workers : \A o \in Decided(work[w]) : ~ StagedIn(ops, o)

OneFile ==
  \A w \in Workers :
    work[w].at = "stage" /\ work[w].job = "one"
      => work[w].todo \cup InTrash(work[w].op) \subseteq {work[w].what.file}

\* A row's file is in the trash of undecided deletions only, and of none that
\* has deleted its row.
TrashUndecided ==
  \A r \in rows, t \in trash :
    t[2] = r.file =>
      /\ StagedIn(ops, t[1])
      /\ \A w \in Workers : work[w].at = "record" => work[w].op # t[1]

RowsPlaced == \A r \in rows : r.file \in disk \/ \E t \in trash : t[2] = r.file

FilesInv ==
  /\ FreshData /\ FreshTasks
  /\ WrittenOnce /\ WrittenThere /\ WrittenApart /\ WrittenUnnamed /\ WrittenUnwanted
  /\ RowsApart /\ OperationsApart
  /\ OpenStaged /\ OpenApart /\ DecidedNotStaged /\ OneFile
  /\ TrashUndecided /\ RowsPlaced

-----------------------------------------------------------------------------
(* What one step does to a task *)

NewFile ==
  /\ next' = next + 1
  /\ disk' = disk \cup {next}
  /\ UNCHANGED <<rows, trash, ops>>

NewOperation ==
  /\ next' = next + 1
  /\ \E files : ops' = ops \cup {Operation(next, files)}
  /\ UNCHANGED <<rows, disk, trash>>

\* y is the task of v before the step, x the one after it.
MadeStep(y, x) ==
  \/ x.made = {}
  \/ /\ x.made \subseteq y.made
     /\ y.at # "answer"
     /\ x.at \in {"write", "commit"} => y.at \in {"write", "commit"}
  \/ /\ y.at = "write"
     /\ NewFile
     /\ \E c : x.made = y.made \cup {<<next, c>>}
  \/ /\ NewFile
     /\ x.made = {<<next, "report">>}

WantedStep(y, x) ==
  \A f \in Wanted(x) : f \in Wanted(y) \/ \E r \in rows : r.file = f

StageStep(y, x) ==
  x.at = "stage" =>
    \/ /\ y.at = "stage" /\ x.op = y.op /\ x.job = y.job /\ x.what = y.what
       /\ x.todo \subseteq y.todo
    \/ /\ NewOperation /\ x.op = next
       /\ x.job = "one" => x.todo = {x.what.file}

OpenStep(v, y, x) ==
  IsOpen(x) =>
    \/ /\ IsOpen(y) /\ x.op = y.op
       /\ x.at = "record" => y.at = "record" \/ DeleteRow(v)
    \/ NewOperation /\ x.op = next /\ x.at = "stage" /\ Operation(next, x.todo) \in ops'

DecidedStep(y, x) ==
  \A o \in Decided(x) :
    \/ o \in Decided(y)
    \/ IsOpen(y) /\ o = y.op /\ ops' = WithStatus(o, "committed")
    \/ ops' = ops /\ \E p \in Retryable : p.id = o

TaskStep(v, y, x) ==
  MadeStep(y, x) /\ WantedStep(y, x) /\ StageStep(y, x) /\ OpenStep(v, y, x) /\ DecidedStep(y, x)

\* A worker that has nothing to do has nothing.
LEMMA IdleStep ==
  ASSUME NEW v, NEW y
  PROVE  TaskStep(v, y, Idle)
<1>1. Idle.made = {} /\ Idle.at = "idle" /\ Idle.job = "none"
  BY DEF Idle
<1>2. Wanted(Idle) = {} /\ Decided(Idle) = {} /\ ~ IsOpen(Idle)
  BY <1>1 DEF Wanted, Decided, IsOpen
<1>. QED BY <1>1, <1>2 DEF TaskStep, MadeStep, WantedStep, StageStep, OpenStep, DecidedStep

\* Neither has one that has just been asked.
LEMMA AskedStep ==
  ASSUME TypeInv, NEW w \in Workers, Asked(w), work'[w] # work[w]
  PROVE  TaskStep(w, work[w], work'[w])
<1>1. work'[w].at \in {"write", "wait", "pick"} /\ work'[w].made = {}
  BY AskedFields
<1>2. work'[w].job = "one" => \E r \in rows : work'[w].what = r
  BY AskedFields DEF SaveBegins
<1>3. WantedStep(work[w], work'[w])
  BY <1>1, <1>2 DEF WantedStep, Wanted
<1>4. DecidedStep(work[w], work'[w])
  BY AskedFields DEF DecidedStep, Decided
<1>. QED BY <1>1, <1>3, <1>4 DEF TaskStep, MadeStep, StageStep, OpenStep, IsOpen

LEMMA WorkerStep ==
  ASSUME TypeInv, NEW w \in Workers, Step(w), work'[w] # work[w]
  PROVE  TaskStep(w, work[w], work'[w])
<1>. DEFINE y == work[w]
            x == work'[w]
<1>0. y \in Tasks /\ Sound(y)
  BY DEF TypeInv
<1>1. ASSUME Stops(w) \/ Goes(w, Idle) PROVE TaskStep(w, y, x)
  BY <1>1, GoesFields, IdleStep DEF Stops
<1>. USE DEF TaskStep, MadeStep, WantedStep, Wanted, StageStep, OpenStep, IsOpen, DecidedStep, Decided,
             data, hist
\* Moves that change neither the data of the task nor what it holds.
<1>2. ASSUME GoesTo(w, "undo"), y.at # "answer" PROVE TaskStep(w, y, x)
  BY <1>2, GoesToFields
<1>3. CASE WriteFile(w)
  <2>. DEFINE z(c) == [y EXCEPT !.todo = @ \ {c}, !.made = @ \cup {<<next, c>>}]
  <2>1. \A c : z(c).at = y.at /\ z(c).job = y.job /\ z(c).made = y.made \cup {<<next, c>>}
    BY <1>0 DEF Tasks
  <2>2. PICK c : Goes(w, z(c))
    BY <1>3 DEF WriteFile
  <2>. HIDE DEF z
  <2>3. x.at = "write" /\ x.job = "save" /\ x.made = y.made \cup {<<next, c>>} /\ y.at = "write"
    BY <1>0, <1>3, <2>1, <2>2, GoesFields DEF WriteFile, Sound
  <2>4. NewFile
    BY <1>3 DEF WriteFile, NewFile, Named
  <2>. QED BY <2>3, <2>4
<1>4. CASE WriteFails(w) \/ LockTimeout(w) \/ RenderFails(w)
  BY <1>2, <1>4 DEF WriteFails, LockTimeout, Waiting, RenderFails
<1>5. CASE CommitSave(w)
  <2>. DEFINE z(at) == [y EXCEPT !.at = at, !.ok = TRUE]
  <2>1. \A at : z(at).at = at /\ z(at).job = y.job /\ z(at).made = y.made
    BY <1>0 DEF Tasks
  <2>2. GoesTo(w, "undo") \/ Goes(w, z("answer")) \/ Goes(w, z("undo"))
    BY <1>5 DEF CommitSave, AfterReplay
  <2>. HIDE DEF z
  <2>3. y.at = "commit" /\ y.job = "save"
    BY <1>5 DEF CommitSave
  <2>. QED BY <1>2, <2>1, <2>2, <2>3, GoesFields
<1>6. CASE Undo(w)
  <2>. DEFINE z(m) == [y EXCEPT !.made = @ \ {m}]
  <2>1. \A m : z(m).at = y.at /\ z(m).job = y.job /\ z(m).what = y.what /\ z(m).made = y.made \ {m}
    BY <1>0 DEF Tasks
  <2>2. y.at = "undo" /\ \E m : Goes(w, z(m))
    BY <1>6 DEF Undo
  <2>. HIDE DEF z
  <2>. QED BY <2>1, <2>2, GoesFields
<1>7. CASE Answer(w) \/ Close(w)
  BY <1>1, <1>7 DEF Answer, Close
<1>8. CASE TakeLock(w)
  <2>. DEFINE z(n) == [y EXCEPT !.at = "render", !.base = assessment.ver, !.num = n]
  <2>1. \A n : z(n).at = "render" /\ z(n).job = y.job /\ z(n).what = y.what /\ z(n).made = y.made
    BY <1>0 DEF Tasks
  <2>2. \/ GoesTo(w, "commit") /\ y.job = "save"
        \/ GoesTo(w, "undo")
        \/ GoesTo(w, "list")
        \/ \E n : Goes(w, z(n))
    BY <1>8 DEF TakeLock
  <2>. HIDE DEF z
  <2>3. y.at \in {"wait", "write"} /\ (y.job = "save" => y.at = "write")
    BY <1>0, <1>8 DEF TakeLock, Waiting, Sound
  <2>4. CASE GoesTo(w, "commit") /\ y.job = "save"
    BY <2>3, <2>4, GoesToFields
  <2>5. CASE GoesTo(w, "list")
    BY <2>3, <2>5, GoesToFields
  <2>6. ASSUME NEW n, Goes(w, z(n)) PROVE TaskStep(w, y, x)
    BY <2>1, <2>3, <2>6, GoesFields
  <2>. QED BY <1>2, <2>2, <2>3, <2>4, <2>5, <2>6
<1>9. CASE Render(w)
  <2>. DEFINE z == [y EXCEPT !.at = "commit", !.made = {<<next, "report">>}]
  <2>1. z.at = "commit" /\ z.job = y.job /\ z.what = y.what /\ z.made = {<<next, "report">>}
    BY <1>0 DEF Tasks
  <2>2. Goes(w, z)
    BY <1>9 DEF Render
  <2>. HIDE DEF z
  <2>3. NewFile
    BY <1>9 DEF Render, NewFile, Named
  <2>. QED BY <2>1, <2>2, <2>3, GoesFields
<1>10. CASE CommitReport(w)
  BY <1>1, <1>2, <1>10 DEF CommitReport
<1>11. CASE List(w)
  <2>. DEFINE files == {r.file : r \in Targets(w)}
              z == [y EXCEPT !.at = "stage", !.todo = files, !.op = next]
  <2>1. /\ z.at = "stage" /\ z.job = y.job /\ z.what = y.what /\ z.made = y.made
        /\ z.todo = files /\ z.op = next
    BY <1>0 DEF Tasks
  <2>2. y.at = "list" /\ y.job \in {"one", "all"}
    BY <1>0, <1>11 DEF List, Sound
  <2>3. \A f \in files : (y.job = "one" /\ f = y.what.file) \/ \E r \in rows : r.file = f
    BY DEF Targets
  <2>4. y.job = "one" => files = {y.what.file}
    BY DEF Targets
  <2>5. CASE Goes(w, z) /\ Named /\ ops' = ops \cup {Operation(next, files)}
    <3>1. NewOperation
      BY <1>11, <2>5 DEF List, NewOperation, Named
    <3>2. Operation(next, files) \in ops'
      BY <2>5
    <3>. HIDE DEF z, files
    <3>3. x = z
      BY <2>5, GoesFields
    <3>4. MadeStep(y, x) /\ DecidedStep(y, x)
      BY <2>1, <2>2, <3>3
    <3>5. WantedStep(y, x)
      BY <2>1, <2>2, <2>3, <3>3
    <3>6. StageStep(y, x)
      BY <2>1, <2>4, <3>1, <3>3
    <3>7. OpenStep(w, y, x)
      BY <2>1, <3>1, <3>2, <3>3
    <3>. QED BY <3>4, <3>5, <3>6, <3>7
  <2>. QED BY <1>2, <1>11, <2>2, <2>5 DEF List
<1>12. CASE Stage(w)
  <2>. DEFINE z(f) == [y EXCEPT !.todo = @ \ {f}]
  <2>1. \A f : /\ z(f).at = y.at /\ z(f).job = y.job /\ z(f).what = y.what /\ z(f).made = y.made
               /\ z(f).todo = y.todo \ {f} /\ z(f).op = y.op
    BY <1>0 DEF Tasks
  <2>2. y.at = "stage" /\ (GoesTo(w, "restore") \/ \E f : Goes(w, z(f)))
    BY <1>12 DEF Stage
  <2>. HIDE DEF z
  <2>3. CASE GoesTo(w, "restore")
    BY <2>2, <2>3, GoesToFields
  <2>4. ASSUME NEW f, Goes(w, z(f)) PROVE TaskStep(w, y, x)
    BY <2>1, <2>2, <2>4, GoesFields
  <2>. QED BY <2>2, <2>3, <2>4
<1>13. CASE DeleteRow(w)
  <2>1. y.at = "stage" /\ (GoesTo(w, "restore") \/ GoesTo(w, "record"))
    BY <1>13 DEF DeleteRow
  <2>. QED BY <1>13, <2>1, GoesToFields
<1>14. CASE Restore(w)
  BY <1>1, <1>14 DEF Restore
<1>15. CASE Record(w)
  <2>1. \/ Stops(w)
        \/ /\ y.at = "record" /\ ops' = WithStatus(y.op, "committed")
           /\ GoesTo(w, "empty") \/ GoesTo(w, "close")
    BY <1>15 DEF Record
  <2>2. CASE /\ y.at = "record" /\ ops' = WithStatus(y.op, "committed")
             /\ GoesTo(w, "empty") \/ GoesTo(w, "close")
    BY <2>2, GoesToFields
  <2>. QED BY <1>1, <2>1, <2>2
<1>16. CASE Empty(w)
  <2>1. y.at = "empty" /\ (Stops(w) \/ GoesTo(w, "close"))
    BY <1>16 DEF Empty
  <2>2. CASE GoesTo(w, "close")
    BY <2>1, <2>2, GoesToFields
  <2>. QED BY <1>1, <2>1, <2>2
<1>17. CASE Pick(w)
  <2>. DEFINE z(at, o) == [y EXCEPT !.at = at, !.op = o, !.todo = @ \ {o}]
  <2>1. \A at, o :
          /\ z(at, o).at = at /\ z(at, o).job = y.job /\ z(at, o).what = y.what
          /\ z(at, o).made = y.made /\ z(at, o).op = o /\ z(at, o).todo = y.todo \ {o}
    BY <1>0 DEF Tasks
  <2>2. /\ y.at = "pick"
        /\ \/ Goes(w, Idle)
           \/ \E o \in y.todo, at \in {"clean", "cleaned"} : Goes(w, z(at, o))
    BY <1>17 DEF Pick
  <2>. HIDE DEF z
  <2>3. ASSUME NEW o \in y.todo, NEW at \in {"clean", "cleaned"}, Goes(w, z(at, o))
        PROVE  TaskStep(w, y, x)
    BY <2>1, <2>2, <2>3, GoesFields
  <2>. QED BY <1>1, <2>2, <2>3
<1>18. CASE Clean(w) \/ Cleaned(w)
  <2>1. y.at \in {"clean", "cleaned"} /\ (GoesTo(w, "cleaned") \/ GoesTo(w, "pick"))
    BY <1>18 DEF Clean, Cleaned
  <2>. QED BY <2>1, GoesToFields
<1>. QED
  BY <1>3, <1>4, <1>5, <1>6, <1>7, <1>8, <1>9, <1>10, <1>11, <1>12, <1>13, <1>14, <1>15, <1>16,
     <1>17, <1>18 DEF Step

-----------------------------------------------------------------------------
(* What one step does to the files, the rows and the operations *)

LEMMA TasksStep ==
  ASSUME TypeInv, [Next]_vars, NEW v \in Workers, work'[v] # work[v]
  PROVE  TaskStep(v, work[v], work'[v])
<1>1. CASE Crash(v)
  BY <1>1, GoesFields, IdleStep DEF Crash
<1>. QED BY <1>1, Mover, AskedStep, WorkerStep

\* Names are given out one at a time.
LEMMA NextStep ==
  ASSUME TypeInv, [Next]_vars
  PROVE  next \in Nat /\ (next' = next \/ next' = next + 1)
<1>. USE DEF data, hist
<1>1. next \in Nat
  BY DEF TypeInv
<1>2. ASSUME NEW u \in Workers, Asked(u) \/ Crash(u) PROVE next' = next
  BY <1>2 DEF Asked, SaveArrives, ReportAsked, DeletionAsked, CleanupStarts, Crash
<1>3. ASSUME NEW u \in Workers, Step(u) PROVE next' = next \/ next' = next + 1
  BY <1>3
  DEF Step, WriteFile, WriteFails, CommitSave, Undo, Answer, TakeLock, LockTimeout, Render,
      RenderFails, CommitReport, List, Stage, DeleteRow, Restore, Record, Empty, Close, Pick,
      Clean, Cleaned, Named, PartWritten
<1>. QED BY <1>1, <1>2, <1>3 DEF Next, Send, LockExpires, vars

\* Rows come with the files of one task, at the end of it.
RowsCome ==
  /\ UNCHANGED <<disk, trash, ops>>
  /\ \E u \in Workers :
       /\ work[u].at = "commit" /\ Written(work'[u]) = {}
       /\ \E row : /\ rows' = rows \cup {row[m] : m \in work[u].made}
                   /\ \A m \in work[u].made : row[m].file = m[1]

LEMMA RowsStep ==
  ASSUME TypeInv, [Next]_vars
  PROVE  rows' \subseteq rows \/ RowsCome
<1>. USE DEF data, hist
<1>1. ASSUME NEW u \in Workers, CommitSave(u) PROVE rows' \subseteq rows \/ RowsCome
  <2>. DEFINE row == [m \in work[u].made |-> EvidenceRow(m)]
              z == [work[u] EXCEPT !.at = "answer", !.ok = TRUE]
  <2>1. z.at = "answer"
    BY DEF TypeInv, Tasks
  <2>2. \/ rows' = rows
        \/ /\ Goes(u, z)
           /\ rows' = rows \cup {EvidenceRow(m) : m \in work[u].made}
    BY <1>1 DEF CommitSave
  <2>. HIDE DEF z
  <2>3. {EvidenceRow(m) : m \in work[u].made} = {row[m] : m \in work[u].made}
    OBVIOUS
  <2>4. \A m \in work[u].made : row[m].file = m[1]
    BY DEF EvidenceRow
  <2>5. work[u].at = "commit" /\ UNCHANGED <<disk, trash, ops>>
    BY <1>1 DEF CommitSave
  <2>. HIDE DEF row
  <2>6. CASE Goes(u, z) /\ rows' = rows \cup {row[m] : m \in work[u].made}
    <3>1. Written(work'[u]) = {}
      BY <2>1, <2>6, GoesFields DEF Written
    <3>. QED BY <1>1, <2>4, <2>5, <2>6, <3>1 DEF RowsCome
  <2>. QED BY <2>2, <2>3, <2>6
<1>2. ASSUME NEW u \in Workers, CommitReport(u) PROVE rows' \subseteq rows \/ RowsCome
  <2>. DEFINE row == [m \in work[u].made |-> ReportRow(u, m)]
  <2>1. \/ rows' = rows
        \/ /\ Stops(u)
           /\ rows' = rows \cup {ReportRow(u, m) : m \in work[u].made}
    BY <1>2 DEF CommitReport
  <2>2. {ReportRow(u, m) : m \in work[u].made} = {row[m] : m \in work[u].made}
    OBVIOUS
  <2>3. \A m \in work[u].made : row[m].file = m[1]
    BY DEF ReportRow
  <2>4. work[u].at = "commit" /\ UNCHANGED <<disk, trash, ops>>
    BY <1>2 DEF CommitReport
  <2>. HIDE DEF row
  <2>5. CASE Stops(u) /\ rows' = rows \cup {row[m] : m \in work[u].made}
    <3>1. Idle.made = {} /\ Idle.at = "idle"
      BY DEF Idle
    <3>2. Written(work'[u]) = {}
      BY <2>5, <3>1, GoesFields DEF Stops, Written
    <3>. QED BY <1>2, <2>3, <2>4, <2>5, <3>2 DEF RowsCome
  <2>. QED BY <2>1, <2>2, <2>5
<1>3. ASSUME NEW u \in Workers, Asked(u) \/ Crash(u) PROVE rows' = rows
  BY <1>3 DEF Asked, SaveArrives, ReportAsked, DeletionAsked, CleanupStarts, Crash
<1>4. ASSUME NEW u \in Workers, Step(u), ~ CommitSave(u), ~ CommitReport(u) PROVE rows' \subseteq rows
  BY <1>4
  DEF Step, WriteFile, WriteFails, Undo, Answer, TakeLock, LockTimeout, Render, RenderFails, List,
      Stage, DeleteRow, Restore, Record, Empty, Close, Pick, Clean, Cleaned
<1>. QED BY <1>1, <1>2, <1>3, <1>4 DEF Next, Send, LockExpires, vars

\* A file leaves its place when its task gives it up or for a trash directory.
LEMMA DiskLeaves ==
  ASSUME TypeInv, [Next]_vars, NEW f \in disk, f \notin disk'
  PROVE  /\ rows' = rows
         /\ \E u \in Workers :
              \/ work[u].at = "undo" /\ f \in Written(work[u])
              \/ work[u].at = "stage" /\ f \in work[u].todo /\ <<work[u].op, f>> \in trash'
<1>. USE DEF data, hist
<1>1. ASSUME NEW u \in Workers, Undo(u)
      PROVE  rows' = rows /\ work[u].at = "undo" /\ f \in Written(work[u])
  BY <1>1 DEF Undo, Written
<1>2. ASSUME NEW u \in Workers, Stage(u)
      PROVE  /\ rows' = rows
             /\ work[u].at = "stage" /\ f \in work[u].todo /\ <<work[u].op, f>> \in trash'
  BY <1>2 DEF Stage
<1>3. ASSUME NEW u \in Workers, Asked(u) \/ Crash(u) PROVE FALSE
  BY <1>3 DEF Asked, SaveArrives, ReportAsked, DeletionAsked, CleanupStarts, Crash
<1>4. ASSUME NEW u \in Workers, WriteFails(u) \/ RenderFails(u) PROVE FALSE
  BY <1>4 DEF WriteFails, RenderFails, PartWritten
<1>5. ASSUME NEW u \in Workers, Step(u), ~ Undo(u), ~ Stage(u), ~ (WriteFails(u) \/ RenderFails(u))
      PROVE  FALSE
  BY <1>5
  DEF Step, WriteFile, CommitSave, Answer, TakeLock, LockTimeout, Render, CommitReport, List,
      DeleteRow, Restore, Record, Empty, Close, Pick, Clean, Cleaned
<1>. QED BY <1>1, <1>2, <1>3, <1>4, <1>5 DEF Next, Send, LockExpires, vars

\* It comes under a new name or back from the trash.
LEMMA DiskComes ==
  ASSUME TypeInv, [Next]_vars, NEW f \in disk', f \notin disk
  PROVE  (f = next /\ next' = next + 1) \/ \E t \in trash : t[2] = f
<1>. USE DEF data, hist
<1>1. ASSUME NEW u \in Workers, WriteFile(u) \/ Render(u) \/ WriteFails(u) \/ RenderFails(u)
      PROVE  f = next /\ next' = next + 1
  <2>1. \/ UNCHANGED disk
        \/ next' = next + 1 /\ disk' = disk \cup {next}
    BY <1>1 DEF WriteFile, Render, WriteFails, RenderFails, PartWritten, Named
  <2>. QED BY <2>1
<1>2. ASSUME NEW u \in Workers, Restore(u) PROVE \E t \in trash : t[2] = f
  BY <1>2 DEF Restore, InTrash
<1>3. ASSUME NEW u \in Workers, Asked(u) \/ Crash(u) PROVE FALSE
  BY <1>3 DEF Asked, SaveArrives, ReportAsked, DeletionAsked, CleanupStarts, Crash
<1>4. ASSUME NEW u \in Workers, Step(u), ~ WriteFile(u), ~ Render(u), ~ Restore(u),
             ~ WriteFails(u), ~ RenderFails(u)
      PROVE  FALSE
  BY <1>4
  DEF Step, CommitSave, Undo, Answer, TakeLock, LockTimeout, CommitReport, List, Stage,
      DeleteRow, Record, Empty, Close, Pick, Clean, Cleaned
<1>. QED BY <1>1, <1>2, <1>3, <1>4 DEF Next, Send, LockExpires, vars

\* The trash of an operation is filled by the worker that stages it.
LEMMA TrashComes ==
  ASSUME TypeInv, [Next]_vars, NEW t \in trash', t \notin trash
  PROVE  /\ UNCHANGED <<rows, ops>>
         /\ \E u \in Workers :
              /\ work[u].at = "stage" /\ work'[u].at = "stage"
              /\ t[1] = work[u].op /\ t[2] \in work[u].todo
<1>. USE DEF data, hist
<1>1. ASSUME NEW u \in Workers, Stage(u)
      PROVE  /\ UNCHANGED <<rows, ops>>
             /\ work[u].at = "stage" /\ work'[u].at = "stage"
             /\ t[1] = work[u].op /\ t[2] \in work[u].todo
  <2>. DEFINE z(f) == [work[u] EXCEPT !.todo = @ \ {f}]
  <2>1. \A f : z(f).at = work[u].at
    BY DEF TypeInv, Tasks
  <2>2. PICK f \in work[u].todo : trash' = trash \cup {<<work[u].op, f>>} /\ Goes(u, z(f))
    BY <1>1 DEF Stage
  <2>3. t = <<work[u].op, f>>
    BY <2>2
  <2>. HIDE DEF z
  <2>4. work[u].at = "stage" /\ work'[u].at = "stage"
    BY <1>1, <2>1, <2>2, GoesFields DEF Stage
  <2>. QED BY <1>1, <2>2, <2>3, <2>4 DEF Stage
<1>2. ASSUME NEW u \in Workers, Asked(u) \/ Crash(u) PROVE FALSE
  BY <1>2 DEF Asked, SaveArrives, ReportAsked, DeletionAsked, CleanupStarts, Crash
<1>3. ASSUME NEW u \in Workers, Step(u), ~ Stage(u) PROVE FALSE
  BY <1>3
  DEF Step, WriteFile, WriteFails, CommitSave, Undo, Answer, TakeLock, LockTimeout, Render,
      RenderFails, CommitReport, List, DeleteRow, Restore, Record, Empty, Close, Pick, Clean, Cleaned,
      Removed, Vanished, RemovalThrows, HalfEmptied
<1>. QED BY <1>1, <1>2, <1>3 DEF Next, Send, LockExpires, vars

\* It is emptied by a restoration or once the operation is decided.
LEMMA TrashLeaves ==
  ASSUME TypeInv, [Next]_vars, NEW t \in trash, t \notin trash'
  PROVE  t[2] \in disk' \/ \E u \in Workers : t[1] \in Decided(work[u])
<1>. USE DEF data, hist
<1>1. ASSUME NEW u \in Workers, Restore(u) PROVE t[2] \in disk'
  BY <1>1 DEF Restore
<1>2. ASSUME NEW u \in Workers, Empty(u) PROVE t[1] \in Decided(work[u])
  <2>1. t[1] = work[u].op
    BY <1>2 DEF Empty, Removed, Vanished, RemovalThrows, HalfEmptied
  <2>. QED BY <1>2, <2>1 DEF Empty, Decided
<1>3. ASSUME NEW u \in Workers, Clean(u) PROVE t[1] \in Decided(work[u])
  <2>1. t[1] = work[u].op
    BY <1>3 DEF Clean, Removed, Vanished, RemovalThrows, HalfEmptied
  <2>. QED BY <1>3, <2>1 DEF Clean, Decided
<1>4. ASSUME NEW u \in Workers, Asked(u) \/ Crash(u) PROVE FALSE
  BY <1>4 DEF Asked, SaveArrives, ReportAsked, DeletionAsked, CleanupStarts, Crash
<1>5. ASSUME NEW u \in Workers, Step(u), ~ Restore(u), ~ Empty(u), ~ Clean(u) PROVE FALSE
  BY <1>5
  DEF Step, WriteFile, WriteFails, CommitSave, Undo, Answer, TakeLock, LockTimeout, Render,
      RenderFails, CommitReport, List, Stage, DeleteRow, Record, Close, Pick, Cleaned
<1>. QED BY <1>1, <1>2, <1>3, <1>4, <1>5 DEF Next, Send, LockExpires, vars

\* A worker gives a new status, never "staged", to the operation it owns, and
\* gives it up, or to one that has been decided.
Ends(o) ==
  /\ UNCHANGED rows
  /\ \E s \in Statuses \ {"staged"} : ops' = WithStatus(o, s)
  /\ \E u \in Workers :
       \/ o \in Decided(work[u])
       \/ /\ IsOpen(work[u]) /\ ~ IsOpen(work'[u]) /\ o = work[u].op
          /\ UNCHANGED trash
          /\ work[u].at = "record" \/ InTrash(o) = {}

LEMMA OpsStep ==
  ASSUME TypeInv, [Next]_vars
  PROVE  ops' = ops \/ NewOperation \/ \E o : Ends(o)
<1>. USE DEF data, hist
<1>1. ASSUME NEW u \in Workers, List(u) PROVE ops' = ops \/ NewOperation
  BY <1>1 DEF List, NewOperation, Named
<1>2. ASSUME NEW u \in Workers, Restore(u) PROVE ops' = ops \/ Ends(work[u].op)
  <2>1. ~ IsOpen(Idle)
    BY DEF Idle, IsOpen
  <2>. SUFFICES ASSUME AllBack(work[u].op), ops' = WithStatus(work[u].op, "restored"), Stops(u),
                       trash' = trash
                PROVE  Ends(work[u].op)
    BY <1>2 DEF Restore
  <2>2. IsOpen(work[u]) /\ ~ IsOpen(work'[u])
    BY <1>2, <2>1, GoesFields DEF Restore, Stops, IsOpen
  <2>. QED BY <1>2, <2>2 DEF Restore, Ends, AllBack, Statuses
<1>3. ASSUME NEW u \in Workers, Record(u) PROVE ops' = ops \/ Ends(work[u].op)
  <2>. SUFFICES ASSUME ops' = WithStatus(work[u].op, "committed"),
                       GoesTo(u, "empty") \/ GoesTo(u, "close")
                PROVE  Ends(work[u].op)
    BY <1>3 DEF Record
  <2>1. IsOpen(work[u]) /\ ~ IsOpen(work'[u])
    BY <1>3, GoesToFields DEF Record, IsOpen
  <2>. QED BY <1>3, <2>1 DEF Record, Ends, Statuses
<1>4. ASSUME NEW u \in Workers, Empty(u) \/ Close(u) \/ Clean(u) \/ Cleaned(u)
      PROVE  ops' = ops \/ Ends(work[u].op)
  <2>1. work[u].op \in Decided(work[u])
    BY <1>4 DEF Empty, Close, Clean, Cleaned, Decided
  <2>2. ops' = ops \/ \E s \in {"cleanup_failed", "cleaned"} : ops' = WithStatus(work[u].op, s)
    BY <1>4 DEF Empty, Close, Clean, Cleaned
  <2>3. rows' = rows
    BY <1>4 DEF Empty, Close, Clean, Cleaned
  <2>. QED BY <1>4, <2>1, <2>2, <2>3 DEF Ends, Statuses
<1>5. ASSUME NEW u \in Workers, Asked(u) \/ Crash(u) PROVE ops' = ops
  BY <1>5 DEF Asked, SaveArrives, ReportAsked, DeletionAsked, CleanupStarts, Crash
<1>6. ASSUME NEW u \in Workers, Step(u), ~ List(u), ~ Restore(u), ~ Record(u),
             ~ (Empty(u) \/ Close(u) \/ Clean(u) \/ Cleaned(u))
      PROVE  ops' = ops
  BY <1>6
  DEF Step, WriteFile, WriteFails, CommitSave, Undo, Answer, TakeLock, LockTimeout, Render,
      RenderFails, CommitReport, Stage, DeleteRow, Pick
<1>. QED BY <1>1, <1>2, <1>3, <1>4, <1>5, <1>6 DEF Next, Send, LockExpires, vars

\* An operation becomes staged by being new, and stops being so by its end.
LEMMA StagedStep ==
  ASSUME TypeInv, [Next]_vars
  PROVE  \A o :
           /\ StagedIn(ops', o) => StagedIn(ops, o) \/ (NewOperation /\ o = next)
           /\ StagedIn(ops, o) => StagedIn(ops', o) \/ Ends(o)
<1>. SUFFICES ASSUME NEW o
              PROVE  /\ StagedIn(ops', o) => StagedIn(ops, o) \/ (NewOperation /\ o = next)
                     /\ StagedIn(ops, o) => StagedIn(ops', o) \/ Ends(o)
  OBVIOUS
<1>1. CASE ops' = ops
  BY <1>1 DEF StagedIn
<1>2. CASE NewOperation
  BY <1>2 DEF NewOperation, Operation, StagedIn
<1>3. ASSUME NEW p, Ends(p)
      PROVE  /\ StagedIn(ops', o) => StagedIn(ops, o)
             /\ StagedIn(ops, o) => StagedIn(ops', o) \/ o = p
  <2>1. PICK s \in Statuses \ {"staged"} : ops' = WithStatus(p, s)
    BY <1>3 DEF Ends
  <2>2. \A x \in ops : [x EXCEPT !.status = s].status = s /\ [x EXCEPT !.status = s].id = x.id
    BY DEF TypeInv
  <2>3. ASSUME StagedIn(ops', o) PROVE StagedIn(ops, o)
    <3>1. PICK x \in ops' : x.id = o /\ x.status = "staged"
      BY <2>3 DEF StagedIn
    <3>2. PICK y \in ops : x = IF y.id = p THEN [y EXCEPT !.status = s] ELSE y
      BY <2>1, <3>1 DEF WithStatus
    <3>3. x = y
      BY <2>2, <3>1, <3>2
    <3>. QED BY <3>1, <3>3 DEF StagedIn
  <2>4. ASSUME StagedIn(ops, o), o # p PROVE StagedIn(ops', o)
    <3>1. PICK x \in ops : x.id = o /\ x.status = "staged"
      BY <2>4 DEF StagedIn
    <3>2. x \in ops'
      BY <2>1, <2>4, <3>1 DEF WithStatus
    <3>. QED BY <3>1, <3>2 DEF StagedIn
  <2>. QED BY <2>3, <2>4
<1>. QED BY <1>1, <1>2, <1>3, OpsStep

\* A file a task has written was its own before, or is new.
LEMMA WrittenComes ==
  ASSUME TypeInv, [Next]_vars, NEW v \in Workers, NEW f \in Written(work'[v])
  PROVE  f \in Written(work[v]) \/ (f = next /\ NewFile /\ work'[v] # work[v])
<1>1. CASE work'[v] = work[v]
  BY <1>1
<1>2. CASE work'[v] # work[v]
  <2>1. MadeStep(work[v], work'[v])
    BY <1>2, TasksStep DEF TaskStep
  <2>2. PICK m \in work'[v].made : f = m[1]
    BY DEF Written
  <2>3. CASE work'[v].made \subseteq work[v].made /\ work[v].at # "answer"
    BY <2>2, <2>3 DEF Written
  <2>4. CASE work[v].at = "write" /\ NewFile /\ \E c : work'[v].made = work[v].made \cup {<<next, c>>}
    <3>1. m \in work[v].made \/ m[1] = next
      BY <2>2, <2>4
    <3>. QED BY <1>2, <2>2, <2>4, <3>1 DEF Written
  <2>5. CASE NewFile /\ work'[v].made = {<<next, "report">>}
    BY <1>2, <2>2, <2>5
  <2>. QED BY <2>1, <2>2, <2>3, <2>4, <2>5 DEF MadeStep
<1>. QED BY <1>1, <1>2

\* A file a deletion is about to move belonged to a row when it was chosen.
LEMMA WantedComes ==
  ASSUME TypeInv, [Next]_vars, NEW v \in Workers, NEW f \in Wanted(work'[v])
  PROVE  f \in Wanted(work[v]) \/ \E r \in rows : r.file = f
BY TasksStep DEF TaskStep, WantedStep

LEMMA DecidedComes ==
  ASSUME TypeInv, [Next]_vars, NEW v \in Workers, NEW o \in Decided(work'[v])
  PROVE  \/ o \in Decided(work[v])
         \/ IsOpen(work[v]) /\ o = work[v].op /\ ops' = WithStatus(o, "committed")
         \/ ops' = ops /\ \E p \in Retryable : p.id = o
BY TasksStep DEF TaskStep, DecidedStep

LEMMA OpenComes ==
  ASSUME TypeInv, [Next]_vars, NEW v \in Workers, IsOpen(work'[v])
  PROVE  \/ /\ IsOpen(work[v]) /\ work'[v].op = work[v].op
            /\ work'[v].at = "record" => work[v].at = "record" \/ DeleteRow(v)
         \/ /\ NewOperation /\ work'[v].op = next /\ work'[v].at = "stage"
            /\ Operation(next, work'[v].todo) \in ops' /\ work'[v] # work[v]
<1>1. CASE work'[v] = work[v]
  BY <1>1
<1>2. CASE work'[v] # work[v]
  BY <1>2, TasksStep DEF TaskStep, OpenStep
<1>. QED BY <1>1, <1>2

-----------------------------------------------------------------------------
(* Every part of the invariant is kept *)

LEMMA FreshDataStep ==
  ASSUME TypeInv, FilesInv, [Next]_vars
  PROVE  FreshData'
<1>. USE DEF FilesInv
<1>1. next \in Nat /\ (next' = next \/ next' = next + 1)
  BY NextStep
<1>2. disk \subseteq Nat /\ \A r \in rows : r.file \in Nat
  BY DEF TypeInv, Names, Rows
<1>3. (\A t \in trash : t[1] \in Nat /\ t[2] \in Nat) /\ \A o \in ops : o.id \in Nat
  BY DEF TypeInv, Names
<1>4. ASSUME NEW f \in disk' PROVE f < next'
  <2>1. CASE f \in disk \/ \E t \in trash : t[2] = f
    <3>1. f \in Nat /\ f < next
      BY <1>2, <1>3, <2>1 DEF FreshData
    <3>. QED BY <1>1, <3>1
  <2>2. CASE f = next /\ next' = next + 1
    BY <1>1, <2>2
  <2>. QED BY <2>1, <2>2, DiskComes
<1>5. ASSUME NEW r \in rows' PROVE r.file < next'
  <2>1. CASE r \in rows
    BY <1>1, <1>2, <2>1 DEF FreshData
  <2>2. CASE r \notin rows
    <3>1. RowsCome
      BY <2>2, RowsStep
    <3>2. PICK u \in Workers : \E m \in work[u].made : r.file = m[1] /\ work[u].at = "commit"
      BY <2>2, <3>1 DEF RowsCome
    <3>3. r.file \in Written(work[u])
      BY <3>2 DEF Written
    <3>4. r.file < next /\ r.file \in Nat
      BY <3>2, <3>3 DEF FreshTasks, TypeInv, Tasks, Names
    <3>. QED BY <1>1, <3>4
  <2>. QED BY <2>1, <2>2
<1>6. ASSUME NEW t \in trash' PROVE t[1] < next' /\ t[2] < next'
  <2>1. CASE t \in trash
    BY <1>1, <1>3, <2>1 DEF FreshData
  <2>2. CASE t \notin trash
    <3>1. PICK u \in Workers : /\ work[u].at = "stage"
                               /\ t[1] = work[u].op /\ t[2] \in work[u].todo
      BY <2>2, TrashComes
    <3>2. t[1] < next /\ t[2] < next
      BY <3>1 DEF FreshTasks, IsOpen, Wanted
    <3>3. t[1] \in Nat /\ t[2] \in Nat
      BY <3>1 DEF TypeInv, Sound, Names
    <3>. QED BY <1>1, <3>2, <3>3
  <2>. QED BY <2>1, <2>2
<1>7. ASSUME NEW o \in ops' PROVE o.id < next'
  <2>1. CASE ops' = ops
    BY <1>1, <1>3, <2>1 DEF FreshData
  <2>2. CASE NewOperation
    BY <1>1, <1>3, <2>2 DEF FreshData, NewOperation, Operation
  <2>3. ASSUME NEW p, Ends(p) PROVE o.id < next'
    <3>1. PICK s : ops' = WithStatus(p, s)
      BY <2>3 DEF Ends
    <3>2. PICK x \in ops : o = IF x.id = p THEN [x EXCEPT !.status = s] ELSE x
      BY <3>1 DEF WithStatus
    <3>3. o.id = x.id
      BY <3>2 DEF TypeInv
    <3>. QED BY <1>1, <1>3, <3>3 DEF FreshData
  <2>. QED BY <2>1, <2>2, <2>3, OpsStep
<1>. QED BY <1>4, <1>5, <1>6, <1>7 DEF FreshData

LEMMA FreshTasksStep ==
  ASSUME TypeInv, FilesInv, [Next]_vars
  PROVE  FreshTasks'
<1>. USE DEF FilesInv
<1>1. next \in Nat /\ (next' = next \/ next' = next + 1)
  BY NextStep
<1>. SUFFICES ASSUME NEW v \in Workers
              PROVE  /\ \A f \in Written(work'[v]) \cup Wanted(work'[v]) \cup Decided(work'[v]) :
                          f < next'
                     /\ IsOpen(work'[v]) => work'[v].op < next'
  BY DEF FreshTasks
<1>2. work[v] \in Tasks /\ Sound(work[v])
  BY DEF TypeInv
<1>3. ASSUME NEW f \in Written(work'[v]) PROVE f < next'
  <2>1. CASE f \in Written(work[v])
    <3>1. f \in Nat /\ f < next
      BY <1>2, <2>1 DEF Written, Tasks, Names, FreshTasks
    <3>. QED BY <1>1, <3>1
  <2>2. CASE f = next /\ NewFile
    BY <1>1, <2>2 DEF NewFile
  <2>. QED BY <2>1, <2>2, WrittenComes
<1>4. ASSUME NEW f \in Wanted(work'[v]) PROVE f < next'
  <2>1. CASE f \in Wanted(work[v])
    <3>1. f \in Nat
      BY <1>2, <2>1 DEF Wanted, Sound, Rows, Names
    <3>2. f < next
      BY <2>1 DEF FreshTasks
    <3>. QED BY <1>1, <3>1, <3>2
  <2>2. CASE \E r \in rows : r.file = f
    <3>1. f \in Nat /\ f < next
      BY <2>2 DEF FreshData, TypeInv, Rows, Names
    <3>. QED BY <1>1, <3>1
  <2>. QED BY <2>1, <2>2, WantedComes
<1>5. ASSUME NEW o \in Decided(work'[v]) PROVE o < next'
  <2>1. CASE o \in Decided(work[v])
    <3>1. o \in Nat
      BY <1>2, <2>1 DEF Decided, Sound, Names
    <3>2. o < next
      BY <2>1 DEF FreshTasks
    <3>. QED BY <1>1, <3>1, <3>2
  <2>2. CASE IsOpen(work[v]) /\ o = work[v].op
    <3>1. o \in Nat /\ o < next
      BY <1>2, <2>2 DEF IsOpen, Sound, Names, FreshTasks
    <3>. QED BY <1>1, <3>1
  <2>3. CASE \E p \in Retryable : p.id = o
    <3>1. o \in Nat /\ o < next
      BY <2>3 DEF Retryable, FreshData, TypeInv, Names
    <3>. QED BY <1>1, <3>1
  <2>. QED BY <2>1, <2>2, <2>3, DecidedComes
<1>6. ASSUME IsOpen(work'[v]) PROVE work'[v].op < next'
  <2>1. CASE IsOpen(work[v]) /\ work'[v].op = work[v].op
    <3>1. work[v].op \in Nat /\ work[v].op < next
      BY <1>2, <2>1 DEF IsOpen, Sound, Names, FreshTasks
    <3>. QED BY <1>1, <2>1, <3>1
  <2>2. CASE NewOperation /\ work'[v].op = next
    BY <1>1, <2>2 DEF NewOperation
  <2>. QED BY <1>6, <2>1, <2>2, OpenComes
<1>. QED BY <1>3, <1>4, <1>5, <1>6

LEMMA WrittenOnceStep ==
  ASSUME TypeInv, FilesInv, [Next]_vars
  PROVE  WrittenOnce'
<1>. SUFFICES ASSUME NEW v \in Workers, NEW m \in work'[v].made, NEW n \in work'[v].made, m[1] = n[1]
              PROVE  m = n
  BY DEF WrittenOnce
<1>1. CASE work'[v].made \subseteq work[v].made
  BY <1>1 DEF FilesInv, WrittenOnce
<1>2. CASE work[v].at = "write" /\ \E c : work'[v].made = work[v].made \cup {<<next, c>>}
  <2>1. PICK c : work'[v].made = work[v].made \cup {<<next, c>>}
    BY <1>2
  <2>2. \A k \in work[v].made : k[1] \in Nat /\ k[1] < next
    BY <1>2 DEF FilesInv, FreshTasks, Written, TypeInv, Tasks, Names
  <2>3. next \in Nat
    BY NextStep
  <2>4. \A k \in work[v].made : k[1] # next
    BY <2>2, <2>3
  <2>. QED BY <2>1, <2>4 DEF FilesInv, WrittenOnce
<1>3. CASE work'[v].made = {<<next, "report">>}
  BY <1>3
<1>4. CASE work'[v].made = {}
  BY <1>4
<1>. QED BY <1>1, <1>2, <1>3, <1>4, TasksStep DEF TaskStep, MadeStep

LEMMA WrittenThereStep ==
  ASSUME TypeInv, FilesInv, [Next]_vars
  PROVE  WrittenThere'
<1>. USE DEF FilesInv
<1>. SUFFICES ASSUME NEW v \in Workers, work'[v].at \in {"write", "commit"},
                     NEW f \in Written(work'[v])
              PROVE  f \in disk'
  BY DEF WrittenThere
<1>1. CASE NewFile
  <2>1. disk' = disk \cup {next}
    BY <1>1 DEF NewFile
  <2>2. CASE f = next
    BY <2>1, <2>2
  <2>3. CASE f \in Written(work[v]) /\ work[v].at \in {"write", "commit"}
    BY <2>1, <2>3 DEF WrittenThere
  <2>4. CASE work'[v] = work[v]
    BY <2>3, <2>4
  <2>5. CASE work'[v] # work[v] /\ f # next
    <3>1. f \in Written(work[v])
      BY <2>5, WrittenComes
    <3>2. MadeStep(work[v], work'[v])
      BY <2>5, TasksStep DEF TaskStep
    <3>3. work[v].at \in {"write", "commit"}
      BY <2>5, <3>2 DEF MadeStep, Written
    <3>. QED BY <2>3, <3>1, <3>3
  <2>. QED BY <2>2, <2>4, <2>5
<1>2. CASE ~ NewFile
  <2>1. f \in Written(work[v])
    BY <1>2, WrittenComes
  <2>2. work[v].at \in {"write", "commit"}
    <3>1. CASE work'[v] = work[v]
      BY <3>1
    <3>2. CASE work'[v] # work[v]
      <4>1. MadeStep(work[v], work'[v])
        BY <3>2, TasksStep DEF TaskStep
      <4>. QED BY <1>2, <4>1 DEF MadeStep, Written
    <3>. QED BY <3>1, <3>2
  <2>3. f \in disk
    BY <2>1, <2>2 DEF WrittenThere
  <2>4. ASSUME NEW u \in Workers, work[u].at = "undo", f \in Written(work[u]) PROVE FALSE
    <3>1. u # v
      BY <2>2, <2>4
    <3>. QED BY <2>1, <2>4, <3>1 DEF WrittenApart
  <2>5. ASSUME NEW u \in Workers, work[u].at = "stage", f \in work[u].todo PROVE FALSE
    <3>1. f \in Wanted(work[u])
      BY <2>5 DEF Wanted
    <3>. QED BY <2>1, <3>1 DEF WrittenUnwanted
  <2>. QED BY <2>3, <2>4, <2>5, DiskLeaves
<1>. QED BY <1>1, <1>2

LEMMA WrittenApartStep ==
  ASSUME TypeInv, FilesInv, [Next]_vars
  PROVE  WrittenApart'
<1>. USE DEF FilesInv
<1>. SUFFICES ASSUME NEW v \in Workers, NEW w \in Workers, v # w,
                     NEW f \in Written(work'[v]), f \in Written(work'[w])
              PROVE  FALSE
  BY DEF WrittenApart
<1>1. next \in Nat
  BY NextStep
<1>2. ASSUME NEW u \in Workers PROVE next \notin Written(work[u])
  BY <1>1 DEF FreshTasks
<1>3. \/ f \in Written(work[v]) /\ f \in Written(work[w])
      \/ work'[v] # work[v] /\ work'[w] # work[w]
  BY <1>2, WrittenComes
<1>. QED BY <1>3, OneMoves DEF WrittenApart

LEMMA WrittenUnnamedStep ==
  ASSUME TypeInv, FilesInv, [Next]_vars
  PROVE  WrittenUnnamed'
<1>. USE DEF FilesInv
<1>1. next \in Nat
  BY NextStep
<1>. SUFFICES ASSUME NEW v \in Workers, NEW f \in Written(work'[v])
              PROVE  (\A r \in rows' : r.file # f) /\ (\A t \in trash' : t[2] # f)
  BY DEF WrittenUnnamed
<1>2. \A r \in rows : r.file # f
  <2>1. CASE f \in Written(work[v])
    BY <2>1 DEF WrittenUnnamed
  <2>2. CASE f = next
    BY <1>1, <2>2 DEF FreshData
  <2>. QED BY <2>1, <2>2, WrittenComes
<1>3. \A t \in trash : t[2] # f
  <2>1. CASE f \in Written(work[v])
    BY <2>1 DEF WrittenUnnamed
  <2>2. CASE f = next
    BY <1>1, <2>2 DEF FreshData
  <2>. QED BY <2>1, <2>2, WrittenComes
<1>4. ASSUME RowsCome, NEW r \in rows', r \notin rows PROVE r.file # f
  <2>1. PICK u \in Workers : /\ work[u].at = "commit" /\ Written(work'[u]) = {}
                             /\ \E m \in work[u].made : r.file = m[1]
    BY <1>4 DEF RowsCome
  <2>2. r.file \in Written(work[u]) /\ u # v
    BY <2>1 DEF Written
  <2>3. CASE f \in Written(work[v])
    BY <2>2, <2>3 DEF WrittenApart
  <2>4. CASE f = next
    BY <1>1, <2>2, <2>4 DEF FreshTasks
  <2>. QED BY <2>3, <2>4, WrittenComes
<1>5. ASSUME NEW t \in trash', t \notin trash PROVE t[2] # f
  <2>1. PICK u \in Workers : t[2] \in Wanted(work[u])
    BY <1>5, TrashComes DEF Wanted
  <2>2. CASE f \in Written(work[v])
    BY <2>1, <2>2 DEF WrittenUnwanted
  <2>3. CASE f = next
    BY <1>1, <2>1, <2>3 DEF FreshTasks
  <2>. QED BY <2>2, <2>3, WrittenComes
<1>. QED BY <1>2, <1>3, <1>4, <1>5, RowsStep

LEMMA WrittenUnwantedStep ==
  ASSUME TypeInv, FilesInv, [Next]_vars
  PROVE  WrittenUnwanted'
<1>. USE DEF FilesInv
<1>1. next \in Nat
  BY NextStep
<1>. SUFFICES ASSUME NEW v \in Workers, NEW w \in Workers,
                     NEW f \in Written(work'[w]), f \in Wanted(work'[v])
              PROVE  FALSE
  BY DEF WrittenUnwanted
<1>2. f \in Wanted(work[v]) \/ \E r \in rows : r.file = f
  BY WantedComes
<1>3. CASE f \in Written(work[w])
  BY <1>2, <1>3 DEF WrittenUnwanted, WrittenUnnamed
<1>4. CASE f = next
  BY <1>1, <1>2, <1>4 DEF FreshTasks, FreshData
<1>. QED BY <1>3, <1>4, WrittenComes

LEMMA RowsApartStep ==
  ASSUME TypeInv, FilesInv, [Next]_vars
  PROVE  RowsApart'
<1>. USE DEF FilesInv
<1>1. CASE rows' \subseteq rows
  BY <1>1 DEF RowsApart
<1>2. CASE RowsCome
  <2>1. PICK u \in Workers :
          /\ work[u].at = "commit"
          /\ \E row : /\ rows' = rows \cup {row[m] : m \in work[u].made}
                      /\ \A m \in work[u].made : row[m].file = m[1]
    BY <1>2 DEF RowsCome
  <2>2. PICK row : /\ rows' = rows \cup {row[m] : m \in work[u].made}
                   /\ \A m \in work[u].made : row[m].file = m[1]
    BY <2>1
  <2>3. \A m \in work[u].made : \A r \in rows : r.file # m[1]
    BY <2>1 DEF Written, WrittenUnnamed
  <2>4. \A m, n \in work[u].made : m[1] = n[1] => m = n
    BY DEF WrittenOnce
  <2>5. ASSUME NEW r \in rows', NEW q \in rows', r.file = q.file PROVE r = q
    <3>1. r \in rows \/ \E m \in work[u].made : r = row[m]
      BY <2>2
    <3>2. q \in rows \/ \E m \in work[u].made : q = row[m]
      BY <2>2
    <3>. QED BY <2>2, <2>3, <2>4, <2>5, <3>1, <3>2 DEF RowsApart
  <2>. QED BY <2>5 DEF RowsApart
<1>. QED BY <1>1, <1>2, RowsStep

LEMMA OperationsApartStep ==
  ASSUME TypeInv, FilesInv, [Next]_vars
  PROVE  OperationsApart'
<1>. USE DEF FilesInv
<1>1. CASE ops' = ops
  BY <1>1 DEF OperationsApart
<1>2. CASE NewOperation
  <2>1. next \in Nat
    BY NextStep
  <2>2. \A x \in ops : x.id # next
    BY <2>1 DEF FreshData
  <2>3. PICK files : ops' = ops \cup {Operation(next, files)}
    BY <1>2 DEF NewOperation
  <2>. QED BY <2>2, <2>3 DEF OperationsApart, Operation
<1>3. ASSUME NEW o, Ends(o) PROVE OperationsApart'
  <2>1. PICK s : ops' = WithStatus(o, s)
    BY <1>3 DEF Ends
  <2>2. \A x \in ops : [x EXCEPT !.status = s].id = x.id
    BY DEF TypeInv
  <2>3. ASSUME NEW x \in ops', NEW y \in ops', x.id = y.id PROVE x = y
    <3>1. PICK a \in ops : x = IF a.id = o THEN [a EXCEPT !.status = s] ELSE a
      BY <2>1 DEF WithStatus
    <3>2. PICK b \in ops : y = IF b.id = o THEN [b EXCEPT !.status = s] ELSE b
      BY <2>1 DEF WithStatus
    <3>3. a = b
      BY <2>2, <2>3, <3>1, <3>2 DEF OperationsApart
    <3>. QED BY <3>1, <3>2, <3>3
  <2>. QED BY <2>3 DEF OperationsApart
<1>. QED BY <1>1, <1>2, <1>3, OpsStep

\* The operation of an open deletion stays staged: nobody else ends it.
LEMMA OpenStaysStaged ==
  ASSUME TypeInv, FilesInv, [Next]_vars, NEW v \in Workers, IsOpen(work[v]), IsOpen(work'[v])
  PROVE  StagedIn(ops', work[v].op)
<1>1. ASSUME Ends(work[v].op) PROVE FALSE
  <2>1. PICK u \in Workers :
          \/ work[v].op \in Decided(work[u])
          \/ IsOpen(work[u]) /\ ~ IsOpen(work'[u]) /\ work[v].op = work[u].op
    BY <1>1 DEF Ends
  <2>2. CASE work[v].op \in Decided(work[u])
    BY <2>2 DEF FilesInv, OpenStaged, DecidedNotStaged
  <2>3. CASE IsOpen(work[u]) /\ ~ IsOpen(work'[u]) /\ work[v].op = work[u].op
    BY <2>3 DEF FilesInv, OpenApart
  <2>. QED BY <2>1, <2>2, <2>3
<1>. QED BY <1>1, StagedStep DEF FilesInv, OpenStaged

LEMMA OpenStagedStep ==
  ASSUME TypeInv, FilesInv, [Next]_vars
  PROVE  OpenStaged'
<1>. SUFFICES ASSUME NEW v \in Workers, IsOpen(work'[v]) PROVE StagedIn(ops', work'[v].op)
  BY DEF OpenStaged
<1>1. CASE IsOpen(work[v]) /\ work'[v].op = work[v].op
  BY <1>1, OpenStaysStaged
<1>2. CASE work'[v].op = next /\ Operation(next, work'[v].todo) \in ops'
  BY <1>2 DEF Operation, StagedIn
<1>. QED BY <1>1, <1>2, OpenComes

LEMMA OpenApartStep ==
  ASSUME TypeInv, FilesInv, [Next]_vars
  PROVE  OpenApart'
<1>. USE DEF FilesInv
<1>. SUFFICES ASSUME NEW v \in Workers, NEW w \in Workers, v # w,
                     IsOpen(work'[v]), IsOpen(work'[w])
              PROVE  work'[v].op # work'[w].op
  BY DEF OpenApart
<1>1. next \in Nat
  BY NextStep
<1>2. ASSUME NEW u \in Workers, IsOpen(work[u]) PROVE work[u].op # next
  <2>1. work[u].op < next
    BY <1>2 DEF FreshTasks
  <2>. QED BY <1>1, <2>1
<1>3. CASE IsOpen(work[v]) /\ work'[v].op = work[v].op
  <2>1. CASE IsOpen(work[w]) /\ work'[w].op = work[w].op
    BY <1>3, <2>1 DEF OpenApart
  <2>2. CASE work'[w].op = next
    BY <1>2, <1>3, <2>2
  <2>. QED BY <2>1, <2>2, OpenComes
<1>4. CASE work'[v].op = next /\ work'[v] # work[v]
  <2>1. CASE IsOpen(work[w]) /\ work'[w].op = work[w].op
    BY <1>2, <1>4, <2>1
  <2>2. CASE work'[w] # work[w]
    BY <1>4, <2>2, OneMoves
  <2>. QED BY <2>1, <2>2, OpenComes
<1>. QED BY <1>3, <1>4, OpenComes

LEMMA DecidedNotStagedStep ==
  ASSUME TypeInv, FilesInv, [Next]_vars
  PROVE  DecidedNotStaged'
<1>. USE DEF FilesInv
<1>. SUFFICES ASSUME NEW v \in Workers, NEW o \in Decided(work'[v]), StagedIn(ops', o)
              PROVE  FALSE
  BY DEF DecidedNotStaged
<1>1. next \in Nat
  BY NextStep
<1>2. CASE o \in Decided(work[v])
  <2>1. o # next
    BY <1>1, <1>2 DEF FreshTasks
  <2>. QED BY <1>2, <2>1, StagedStep DEF DecidedNotStaged
<1>3. CASE ops' = WithStatus(o, "committed")
  <2>1. \A x \in ops : /\ [x EXCEPT !.status = "committed"].status = "committed"
                       /\ [x EXCEPT !.status = "committed"].id = x.id
    BY DEF TypeInv
  <2>2. PICK x \in ops' : x.id = o /\ x.status = "staged"
    BY DEF StagedIn
  <2>3. PICK y \in ops : x = IF y.id = o THEN [y EXCEPT !.status = "committed"] ELSE y
    BY <1>3, <2>2 DEF WithStatus
  <2>. QED BY <2>1, <2>2, <2>3
<1>4. CASE ops' = ops /\ \E p \in Retryable : p.id = o
  BY <1>4 DEF StagedIn, OperationsApart, Retryable
<1>. QED BY <1>2, <1>3, <1>4, DecidedComes

LEMMA OneFileStep ==
  ASSUME TypeInv, FilesInv, [Next]_vars
  PROVE  OneFile'
<1>. USE DEF FilesInv
<1>. DEFINE TrashOf(o) == {t \in trash' : t[1] = o}
<1>. SUFFICES ASSUME NEW v \in Workers, work'[v].at = "stage", work'[v].job = "one"
              PROVE  /\ \A f \in work'[v].todo : f = work'[v].what.file
                     /\ \A t \in trash' : t[1] = work'[v].op => t[2] = work'[v].what.file
  BY DEF OneFile, InTrash
<1>1. StageStep(work[v], work'[v])
  BY TasksStep DEF TaskStep, StageStep
<1>2. CASE /\ work[v].at = "stage" /\ work'[v].op = work[v].op /\ work'[v].job = work[v].job
           /\ work'[v].what = work[v].what /\ work'[v].todo \subseteq work[v].todo
  <2>1. \A f \in work[v].todo : f = work[v].what.file
    BY <1>2 DEF OneFile
  <2>2. \A t \in trash : t[1] = work[v].op => t[2] = work[v].what.file
    BY <1>2 DEF OneFile, InTrash
  <2>3. ASSUME NEW t \in trash', t \notin trash, t[1] = work[v].op PROVE t[2] = work[v].what.file
    <3>1. PICK u \in Workers : /\ work[u].at = "stage" /\ t[1] = work[u].op
                               /\ t[2] \in work[u].todo
      BY <2>3, TrashComes
    <3>2. u = v
      BY <1>2, <2>3, <3>1 DEF OpenApart, IsOpen
    <3>. QED BY <2>1, <3>1, <3>2
  <2>. QED BY <1>2, <2>1, <2>2, <2>3
<1>3. CASE NewOperation /\ work'[v].op = next /\ work'[v].todo = {work'[v].what.file}
  <2>1. next \in Nat
    BY NextStep
  <2>2. \A t \in trash' : t[1] # next
    BY <1>3, <2>1 DEF NewOperation, FreshData
  <2>. QED BY <1>3, <2>2
<1>. QED BY <1>1, <1>2, <1>3 DEF StageStep

\* A row whose file is in the trash of an operation keeps it staged.
LEMMA TrashUndecidedStep ==
  ASSUME TypeInv, FilesInv, [Next]_vars
  PROVE  TrashUndecided'
<1>. USE DEF FilesInv
<1>. SUFFICES ASSUME NEW r \in rows', NEW t \in trash', t[2] = r.file
              PROVE  /\ StagedIn(ops', t[1])
                     /\ \A w \in Workers : work'[w].at = "record" => work'[w].op # t[1]
  BY DEF TrashUndecided
<1>1. next \in Nat
  BY NextStep
<1>2. r \in rows
  <2>1. ASSUME r \notin rows PROVE FALSE
    <3>1. RowsCome
      BY <2>1, RowsStep
    <3>2. PICK u \in Workers : \E m \in work[u].made : work[u].at = "commit" /\ r.file = m[1]
      BY <2>1, <3>1 DEF RowsCome
    <3>3. r.file \in Written(work[u]) /\ t \in trash
      BY <3>1, <3>2 DEF Written, RowsCome
    <3>. QED BY <3>3 DEF WrittenUnnamed
  <2>. QED BY <2>1
<1>3. CASE t \in trash
  <2>1. StagedIn(ops, t[1]) /\ \A w \in Workers : work[w].at = "record" => work[w].op # t[1]
    BY <1>2, <1>3 DEF TrashUndecided
  <2>2. ASSUME Ends(t[1]) PROVE FALSE
    <3>1. PICK u \in Workers :
            \/ t[1] \in Decided(work[u])
            \/ t[1] = work[u].op /\ (work[u].at = "record" \/ InTrash(t[1]) = {})
      BY <2>2 DEF Ends
    <3>2. t[2] \in InTrash(t[1])
      BY <1>3 DEF InTrash
    <3>. QED BY <2>1, <3>1, <3>2 DEF DecidedNotStaged
  <2>3. StagedIn(ops', t[1])
    BY <2>1, <2>2, StagedStep
  <2>4. ASSUME NEW w \in Workers, work'[w].at = "record", work'[w].op = t[1] PROVE FALSE
    <3>1. IsOpen(work'[w])
      BY <2>4 DEF IsOpen
    <3>2. work'[w].op = work[w].op /\ (work[w].at = "record" \/ DeleteRow(w))
      BY <2>4, <3>1, OpenComes
    <3>3. DeleteRow(w)
      BY <2>1, <2>4, <3>2
    <3>4. work[w].at = "stage" /\ work[w].job \in {"one", "all"}
      BY <3>3 DEF DeleteRow, TypeInv, Sound
    <3>5. Deletable(w) /\ rows' = rows \ Targets(w)
      <4>1. ~ GoesTo(w, "restore")
        BY <2>4, GoesToFields
      <4>. QED BY <3>3, <4>1 DEF DeleteRow
    <3>6. CASE work[w].job = "all"
      BY <1>2, <3>5, <3>6 DEF Targets
    <3>7. CASE work[w].job = "one"
      <4>1. t[2] = work[w].what.file
        BY <1>3, <2>4, <3>2, <3>4, <3>7 DEF OneFile, InTrash
      <4>2. r = work[w].what
        BY <1>2, <3>5, <3>7, <4>1 DEF Deletable, RowsApart
      <4>. QED BY <3>5, <3>7, <4>2 DEF Targets
    <3>. QED BY <3>4, <3>6, <3>7
  <2>. QED BY <2>3, <2>4
<1>4. CASE t \notin trash
  <2>1. PICK u \in Workers : /\ work[u].at = "stage" /\ work'[u].at = "stage"
                             /\ t[1] = work[u].op
    BY <1>4, TrashComes
  <2>2. IsOpen(work[u]) /\ IsOpen(work'[u])
    BY <2>1 DEF IsOpen
  <2>3. StagedIn(ops', t[1])
    BY <2>1, <2>2, OpenStaysStaged
  <2>4. ASSUME NEW w \in Workers, work'[w].at = "record", work'[w].op = t[1] PROVE FALSE
    <3>1. IsOpen(work'[w]) /\ w # u
      BY <2>1, <2>4 DEF IsOpen
    <3>2. IsOpen(work[w]) /\ work'[w].op = work[w].op
      BY <2>4, <3>1, OpenComes
    <3>. QED BY <2>1, <2>2, <2>4, <3>1, <3>2 DEF OpenApart
  <2>. QED BY <2>3, <2>4
<1>. QED BY <1>3, <1>4

LEMMA RowsPlacedStep ==
  ASSUME TypeInv, FilesInv, [Next]_vars
  PROVE  RowsPlaced'
<1>. USE DEF FilesInv
<1>. SUFFICES ASSUME NEW r \in rows' PROVE r.file \in disk' \/ \E t \in trash' : t[2] = r.file
  BY DEF RowsPlaced
<1>1. CASE r \notin rows
  <2>1. RowsCome
    BY <1>1, RowsStep
  <2>2. PICK u \in Workers : \E m \in work[u].made : work[u].at = "commit" /\ r.file = m[1]
    BY <1>1, <2>1 DEF RowsCome
  <2>3. r.file \in Written(work[u])
    BY <2>2 DEF Written
  <2>. QED BY <2>1, <2>2, <2>3 DEF RowsCome, WrittenThere
<1>2. CASE r \in rows /\ r.file \in disk
  <2>1. ASSUME NEW u \in Workers, r.file \in Written(work[u]) PROVE FALSE
    BY <1>2, <2>1 DEF WrittenUnnamed
  <2>2. ASSUME NEW u \in Workers, <<work[u].op, r.file>> \in trash'
        PROVE  \E t \in trash' : t[2] = r.file
    BY <2>2
  <2>. QED BY <1>2, <2>1, <2>2, DiskLeaves
<1>3. ASSUME r \in rows, NEW t \in trash, t[2] = r.file
      PROVE  r.file \in disk' \/ \E q \in trash' : q[2] = r.file
  <2>1. ASSUME NEW u \in Workers, t[1] \in Decided(work[u]) PROVE FALSE
    BY <1>3, <2>1 DEF TrashUndecided, DecidedNotStaged
  <2>. QED BY <1>3, <2>1, TrashLeaves
<1>. QED BY <1>1, <1>2, <1>3 DEF RowsPlaced

-----------------------------------------------------------------------------
(* The theorem *)

LEMMA FilesInit == Init => FilesInv
<1>. SUFFICES ASSUME Init PROVE FilesInv
  OBVIOUS
<1>1. \A w \in Workers : work[w] = Idle
  BY DEF Init
<1>2. /\ Idle.made = {} /\ Idle.at = "idle" /\ Idle.job = "none"
      /\ Written(Idle) = {} /\ Wanted(Idle) = {} /\ Decided(Idle) = {} /\ ~ IsOpen(Idle)
  BY DEF Idle, Written, Wanted, Decided, IsOpen
<1>3. rows = {} /\ disk = {} /\ trash = {} /\ ops = {}
  BY DEF Init
<1>4. FreshData /\ RowsApart /\ OperationsApart /\ TrashUndecided /\ RowsPlaced
  BY <1>3 DEF FreshData, RowsApart, OperationsApart, TrashUndecided, RowsPlaced
<1>5. /\ FreshTasks /\ WrittenOnce /\ WrittenThere /\ WrittenApart /\ WrittenUnnamed
      /\ WrittenUnwanted
  BY <1>1, <1>2 DEF FreshTasks, WrittenOnce, WrittenThere, WrittenApart, WrittenUnnamed, WrittenUnwanted
<1>6. OpenStaged /\ OpenApart /\ DecidedNotStaged /\ OneFile
  BY <1>1, <1>2 DEF OpenStaged, OpenApart, DecidedNotStaged, OneFile
<1>. QED BY <1>4, <1>5, <1>6 DEF FilesInv

LEMMA FilesStep == TypeInv /\ FilesInv /\ [Next]_vars => FilesInv'
BY FreshDataStep, FreshTasksStep, WrittenOnceStep, WrittenThereStep, WrittenApartStep,
   WrittenUnnamedStep, WrittenUnwantedStep, RowsApartStep, OperationsApartStep, OpenStagedStep,
   OpenApartStep, DecidedNotStagedStep, OneFileStep, TrashUndecidedStep, RowsPlacedStep
   DEF FilesInv

\* No row ever loses its file: it is in its place or in the trash of a
\* deletion that has not been decided, whoever crashes, fails or outlives the
\* lock, and however many workers save, generate, delete and clean up at once.
THEOREM RowsNeverLoseTheirFiles == Spec => []RowsKeepTheirFiles
<1>1. FilesInv => RowsKeepTheirFiles
  BY DEF FilesInv, RowsPlaced, TrashUndecided, RowsKeepTheirFiles, HasStatus, StagedIn
<1>. QED BY <1>1, FilesInit, FilesStep, TypeInvariant, PTL DEF Spec

-----------------------------------------------------------------------------
(* Deletions *)

Over == {"committed", "cleanup_failed", "cleaned"}

\* A file is in one place at a time.
OnePlace ==
  /\ \A t, u \in trash : t[2] = u[2] => t = u
  /\ \A t \in trash : t[2] \notin disk

\* Who is about to record that the trash is gone has removed what it could.
TrashRemoved ==
  \A w \in Workers :
    work[w].at \in {"close", "cleaned"} => \A t \in trash : t[1] = work[w].op => t[2] \in left

\* What has been staged is in the trash, the rest is still to be moved.
StagedSoFar ==
  \A w \in Workers, x \in ops :
    work[w].at = "stage" /\ x.id = work[w].op =>
      \A f \in x.files : f \in work[w].todo \/ <<x.id, f>> \in trash

\* The deletion has gone through; its files are nowhere but in its trash.
RowGone(x) == x.status \in Over \/ \E w \in Workers : work[w].at = "record" /\ work[w].op = x.id

OverGone ==
  \A x \in ops : RowGone(x) =>
    \A f \in x.files : f \notin disk /\ \A t \in trash : t[2] = f => t[1] = x.id

DecidedOver == \A w \in Workers, x \in ops : x.id \in Decided(work[w]) => x.status \in Over

ListedOld == \A x \in ops : \A f \in x.files : f < next

EndedEmpty ==
  \A x \in ops : \A t \in trash :
    t[1] = x.id => x.status # "restored" /\ (x.status = "cleaned" => t[2] \in left)

TrashInv ==
  /\ OnePlace /\ TrashRemoved /\ StagedSoFar /\ OverGone /\ DecidedOver /\ ListedOld
  /\ EndedEmpty

-----------------------------------------------------------------------------
(* What one step does to the trash and the operations *)

Listing ==
  /\ next' = next + 1 /\ UNCHANGED <<disk, trash>>
  /\ \E files \in SUBSET disk : ops' = ops \cup {Operation(next, files)}

\* How an operation gets a new status.
Ending(u, s) ==
  /\ ops' = WithStatus(work[u].op, s)
  /\ \/ /\ s = "restored" /\ work[u].at = "restore" /\ InTrash(work[u].op) = {}
        /\ UNCHANGED <<disk, trash>>
     \/ /\ s = "committed" /\ work[u].at = "record"
        /\ UNCHANGED <<disk, trash>>
     \/ /\ s = "cleanup_failed" /\ work[u].at \in {"empty", "clean", "cleaned"}
        /\ disk' = disk /\ trash' \subseteq trash
     \/ /\ s = "cleaned" /\ work[u].at \in {"close", "cleaned"}
        /\ UNCHANGED <<disk, trash>>

LEMMA EndingStep ==
  ASSUME TypeInv, [Next]_vars
  PROVE  ops' = ops \/ Listing \/ \E u \in Workers, s \in Statuses : Ending(u, s)
<1>. USE DEF data, hist
<1>1. ASSUME NEW u \in Workers, List(u) PROVE ops' = ops \/ Listing
  BY <1>1 DEF List, Listing, Named
<1>2. ASSUME NEW u \in Workers, Restore(u) PROVE ops' = ops \/ Ending(u, "restored")
  BY <1>2 DEF Restore, Ending, AllBack
<1>3. ASSUME NEW u \in Workers, Record(u) PROVE ops' = ops \/ Ending(u, "committed")
  BY <1>3 DEF Record, Ending
<1>4. ASSUME NEW u \in Workers, Empty(u) \/ Clean(u) PROVE ops' = ops \/ Ending(u, "cleanup_failed")
  BY <1>4 DEF Empty, Clean, Vanished, RemovalThrows, HalfEmptied, Ending
<1>5. ASSUME NEW u \in Workers, Close(u) \/ Cleaned(u)
      PROVE  ops' = ops \/ Ending(u, "cleaned") \/ Ending(u, "cleanup_failed")
  BY <1>5 DEF Close, Cleaned, Ending
<1>6. ASSUME NEW u \in Workers, Asked(u) \/ Crash(u) PROVE ops' = ops
  BY <1>6 DEF Asked, SaveArrives, ReportAsked, DeletionAsked, CleanupStarts, Crash
<1>7. ASSUME NEW u \in Workers, Step(u), ~ List(u), ~ Restore(u), ~ Record(u),
             ~ (Empty(u) \/ Clean(u)), ~ (Close(u) \/ Cleaned(u))
      PROVE  ops' = ops
  BY <1>7
  DEF Step, WriteFile, WriteFails, CommitSave, Undo, Answer, TakeLock, LockTimeout, Render,
      RenderFails, CommitReport, Stage, DeleteRow, Pick
<1>. QED
  BY <1>1, <1>2, <1>3, <1>4, <1>5, <1>6, <1>7 DEF Next, Send, LockExpires, vars, Statuses

\* The file a staging moves, and the one a restoration moves back.
Moving(u, f) ==
  /\ work[u].at = "stage" /\ f \in disk /\ ops' = ops
  /\ disk' = disk \ {f} /\ trash' = trash \cup {<<work[u].op, f>>}

MovingBack(u, f) ==
  /\ work[u].at = "restore" /\ <<work[u].op, f>> \in trash /\ ops' = ops
  /\ disk' = disk \cup {f} /\ trash' = trash \ {<<work[u].op, f>>}

LEMMA PlacesStep ==
  ASSUME TypeInv, [Next]_vars
  PROVE  \/ disk' \subseteq disk /\ trash' \subseteq trash
         \/ disk' = disk \cup {next} /\ UNCHANGED <<trash, ops>>
         \/ \E u \in Workers, f \in disk : Moving(u, f)
         \/ \E u \in Workers, f \in Names : MovingBack(u, f)
<1>. USE DEF data, hist
<1>1. ASSUME NEW u \in Workers, WriteFile(u) \/ Render(u) \/ WriteFails(u) \/ RenderFails(u)
      PROVE  disk' \in {disk, disk \cup {next}} /\ UNCHANGED <<trash, ops>>
  BY <1>1 DEF WriteFile, Render, WriteFails, RenderFails, PartWritten
<1>2. ASSUME NEW u \in Workers, Stage(u)
      PROVE  UNCHANGED <<disk, trash>> \/ \E f \in disk : Moving(u, f)
  BY <1>2 DEF Stage, Moving
<1>3. ASSUME NEW u \in Workers, Restore(u)
      PROVE  UNCHANGED <<disk, trash>> \/ \E f \in Names : MovingBack(u, f)
  <2>1. \A f \in InTrash(work[u].op) : <<work[u].op, f>> \in trash /\ f \in Names
    BY DEF InTrash, TypeInv
  <2>. QED BY <1>3, <2>1 DEF Restore, MovingBack
<1>4. ASSUME NEW u \in Workers, Asked(u) \/ Crash(u) PROVE UNCHANGED <<disk, trash>>
  BY <1>4 DEF Asked, SaveArrives, ReportAsked, DeletionAsked, CleanupStarts, Crash
<1>5. ASSUME NEW u \in Workers, Empty(u) \/ Clean(u) PROVE disk' = disk /\ trash' \subseteq trash
  BY <1>5 DEF Empty, Clean, Removed, Vanished, RemovalThrows, HalfEmptied
<1>6. ASSUME NEW u \in Workers, Step(u), ~ Stage(u), ~ Restore(u), ~ (Empty(u) \/ Clean(u)),
             ~ (WriteFile(u) \/ Render(u) \/ WriteFails(u) \/ RenderFails(u))
      PROVE  disk' \subseteq disk /\ trash' \subseteq trash
  BY <1>6
  DEF Step, CommitSave, Undo, Answer, TakeLock, LockTimeout, CommitReport, List, DeleteRow, Record,
      Close, Pick, Cleaned
<1>. QED BY <1>1, <1>2, <1>3, <1>4, <1>5, <1>6 DEF Next, Send, LockExpires, vars

\* An operation keeps its files; its status changes only by its ending.
LEMMA OperationsKept ==
  ASSUME TypeInv, [Next]_vars, NEW x \in ops'
  PROVE  \/ x \in ops
         \/ Listing /\ \E files \in SUBSET disk : x = Operation(next, files)
         \/ \E y \in ops, u \in Workers, s \in Statuses :
              /\ Ending(u, s) /\ y.id = work[u].op
              /\ x.id = y.id /\ x.files = y.files /\ x.status = s
<1>1. CASE ops' = ops
  BY <1>1
<1>2. CASE Listing
  BY <1>2 DEF Listing
<1>3. ASSUME NEW u \in Workers, NEW s \in Statuses, Ending(u, s)
      PROVE  x \in ops \/ \E y \in ops : /\ y.id = work[u].op
                                         /\ x.id = y.id /\ x.files = y.files /\ x.status = s
  <2>1. PICK y \in ops : x = IF y.id = work[u].op THEN [y EXCEPT !.status = s] ELSE y
    BY <1>3 DEF Ending, WithStatus
  <2>2. /\ [y EXCEPT !.status = s].id = y.id /\ [y EXCEPT !.status = s].files = y.files
        /\ [y EXCEPT !.status = s].status = s
    BY DEF TypeInv
  <2>. QED BY <2>1, <2>2
<1>. QED BY <1>1, <1>2, <1>3, EndingStep

\* So every operation was there before, with the same files, or is listed now.
LEMMA OperationsCome ==
  ASSUME TypeInv, [Next]_vars, NEW x \in ops'
  PROVE  \/ \E y \in ops : y.id = x.id /\ y.files = x.files
         \/ Listing /\ x.id = next /\ x.status = "staged" /\ x.files \subseteq disk
<1>1. ASSUME NEW files \in SUBSET disk, x = Operation(next, files)
      PROVE  x.id = next /\ x.status = "staged" /\ x.files \subseteq disk
  BY <1>1 DEF Operation
<1>. QED BY <1>1, OperationsKept

\* Who takes a file out of a trash directory.
LEMMA TrashTaken ==
  ASSUME TypeInv, [Next]_vars, NEW t \in trash, t \notin trash'
  PROVE  \E u \in Workers :
           \/ work[u].at = "restore" /\ t[1] = work[u].op
           \/ t[1] \in Decided(work[u])
<1>. USE DEF data, hist
<1>1. ASSUME NEW u \in Workers, Restore(u) PROVE work[u].at = "restore" /\ t[1] = work[u].op
  BY <1>1 DEF Restore
<1>2. ASSUME NEW u \in Workers, Empty(u) \/ Clean(u) PROVE t[1] \in Decided(work[u])
  <2>1. t[1] = work[u].op
    BY <1>2 DEF Empty, Clean, Removed, Vanished, RemovalThrows, HalfEmptied
  <2>. QED BY <1>2, <2>1 DEF Empty, Clean, Decided
<1>3. ASSUME NEW u \in Workers, Asked(u) \/ Crash(u) PROVE FALSE
  BY <1>3 DEF Asked, SaveArrives, ReportAsked, DeletionAsked, CleanupStarts, Crash
<1>4. ASSUME NEW u \in Workers, Step(u), ~ Restore(u), ~ (Empty(u) \/ Clean(u)) PROVE FALSE
  BY <1>4
  DEF Step, WriteFile, WriteFails, CommitSave, Undo, Answer, TakeLock, LockTimeout, Render,
      RenderFails, CommitReport, List, Stage, DeleteRow, Record, Close, Pick, Cleaned
<1>. QED BY <1>1, <1>2, <1>3, <1>4 DEF Next, Send, LockExpires, vars

\* What a crash or a failure has given up stays given up.
LEMMA LeftGrows ==
  ASSUME TypeInv, [Next]_vars
  PROVE  left \subseteq left'
<1>. USE DEF data, hist
<1>1. ASSUME NEW u \in Workers, Undo(u) \/ Record(u) \/ Crash(u) PROVE left \subseteq left'
  BY <1>1 DEF Undo, Record, Crash
<1>2. ASSUME NEW u \in Workers, WriteFails(u) \/ RenderFails(u) PROVE left \subseteq left'
  BY <1>2 DEF WriteFails, RenderFails, PartWritten
<1>3. ASSUME NEW u \in Workers, Empty(u) \/ Clean(u) PROVE left \subseteq left'
  BY <1>3 DEF Empty, Clean, Removed, Vanished, RemovalThrows
<1>4. ASSUME NEW u \in Workers, Asked(u) PROVE left' = left
  BY <1>4 DEF Asked, SaveArrives, ReportAsked, DeletionAsked, CleanupStarts
<1>5. ASSUME NEW u \in Workers, Step(u), ~ (Undo(u) \/ Record(u)), ~ (WriteFails(u) \/ RenderFails(u)),
             ~ (Empty(u) \/ Clean(u))
      PROVE  left' = left
  BY <1>5
  DEF Step, WriteFile, CommitSave, Answer, TakeLock, LockTimeout, Render, CommitReport, List, Stage,
      DeleteRow, Restore, Close, Pick, Cleaned
<1>. QED BY <1>1, <1>2, <1>3, <1>4, <1>5 DEF Next, Send, LockExpires, vars

\* A removal that answers true leaves only what it could not delete.
LEMMA RemovedLeaves ==
  ASSUME NEW o, Removed(o), NEW t \in trash', t[1] = o
  PROVE  t[2] \in left'
BY DEF Removed

\* Who is about to record that the trash is gone has just removed what it
\* could, or found nothing there.
LEMMA RemovedComes ==
  ASSUME TypeInv, [Next]_vars, NEW v \in Workers, work'[v] # work[v],
         work'[v].at \in {"close", "cleaned"}, NEW t \in trash', t[1] = work'[v].op
  PROVE  t[2] \in left'
<1>1. Idle.at = "idle"
  BY DEF Idle
<1>2. Step(v)
  <2>1. ~ Crash(v)
    BY <1>1, GoesFields DEF Crash
  <2>2. ~ Asked(v)
    BY AskedFields
  <2>. QED BY <2>1, <2>2, Mover
<1>3. ~ (Stops(v) \/ Goes(v, Idle))
  BY <1>1, GoesFields DEF Stops
<1>4. ASSUME NEW at, GoesTo(v, at) PROVE at \in {"close", "cleaned"} /\ work'[v].op = work[v].op
  BY <1>4, GoesToFields
<1>5. ASSUME NEW x, Goes(v, x) PROVE x.at \in {"close", "cleaned"}
  BY <1>5, GoesFields
<1>6. work[v] \in Tasks
  BY DEF TypeInv
<1>7. CASE Empty(v) \/ Clean(v)
  <2>1. Removed(work[v].op) /\ work'[v].op = work[v].op
    BY <1>3, <1>4, <1>7 DEF Empty, Clean
  <2>. QED BY <2>1, RemovedLeaves
<1>8. CASE Record(v)
  <2>1. /\ InTrash(work[v].op) = {} /\ trash' = trash
        /\ work'[v].op = work[v].op
    BY <1>3, <1>4, <1>8 DEF Record
  <2>. QED BY <2>1 DEF InTrash
<1>9. ~ (WriteFails(v) \/ LockTimeout(v) \/ RenderFails(v) \/ DeleteRow(v) \/ Cleaned(v)
         \/ CommitReport(v))
  BY <1>3, <1>4
  DEF WriteFails, LockTimeout, RenderFails, DeleteRow, Cleaned, CommitReport
<1>10. ~ (Answer(v) \/ Restore(v) \/ Close(v))
  BY <1>3 DEF Answer, Restore, Close
<1>11. ~ TakeLock(v)
  <2>. DEFINE z(n) == [work[v] EXCEPT !.at = "render", !.base = assessment.ver, !.num = n]
  <2>1. \A n : z(n).at = "render"
    BY <1>6 DEF Tasks
  <2>2. TakeLock(v) => (\E n : Goes(v, z(n))) \/ \E at \in {"commit", "undo", "list"} : GoesTo(v, at)
    BY DEF TakeLock
  <2>. HIDE DEF z
  <2>. QED BY <1>4, <1>5, <2>1, <2>2
<1>12. ~ WriteFile(v)
  <2>. DEFINE z(c) == [work[v] EXCEPT !.todo = @ \ {c}, !.made = @ \cup {<<next, c>>}]
  <2>1. \A c : z(c).at = work[v].at
    BY <1>6 DEF Tasks
  <2>2. WriteFile(v) => work[v].at = "write" /\ \E c : Goes(v, z(c))
    BY DEF WriteFile
  <2>. HIDE DEF z
  <2>. QED BY <1>5, <2>1, <2>2
<1>13. ~ Undo(v)
  <2>. DEFINE z(m) == [work[v] EXCEPT !.made = @ \ {m}]
  <2>1. \A m : z(m).at = work[v].at
    BY <1>6 DEF Tasks
  <2>2. Undo(v) => work[v].at = "undo" /\ \E m : Goes(v, z(m))
    BY DEF Undo
  <2>. HIDE DEF z
  <2>. QED BY <1>5, <2>1, <2>2
<1>14. ~ CommitSave(v)
  <2>. DEFINE z(at) == [work[v] EXCEPT !.at = at, !.ok = TRUE]
  <2>1. \A at : z(at).at = at
    BY <1>6 DEF Tasks
  <2>2. CommitSave(v) => (\E at \in {"answer", "undo"} : Goes(v, z(at))) \/ GoesTo(v, "undo")
    BY DEF CommitSave, AfterReplay
  <2>. HIDE DEF z
  <2>. QED BY <1>4, <1>5, <2>1, <2>2
<1>15. ~ Render(v)
  <2>. DEFINE z == [work[v] EXCEPT !.at = "commit", !.made = {<<next, "report">>}]
  <2>1. z.at = "commit"
    BY <1>6 DEF Tasks
  <2>2. Render(v) => Goes(v, z)
    BY DEF Render
  <2>. HIDE DEF z
  <2>. QED BY <1>5, <2>1, <2>2
<1>16. ~ List(v)
  <2>. DEFINE z(files) == [work[v] EXCEPT !.at = "stage", !.todo = files, !.op = next]
  <2>1. \A files : z(files).at = "stage"
    BY <1>6 DEF Tasks
  <2>2. List(v) => (\E files : Goes(v, z(files))) \/ GoesTo(v, "undo")
    BY DEF List
  <2>. HIDE DEF z
  <2>. QED BY <1>4, <1>5, <2>1, <2>2
<1>17. ~ Stage(v)
  <2>. DEFINE z(f) == [work[v] EXCEPT !.todo = @ \ {f}]
  <2>1. \A f : z(f).at = work[v].at
    BY <1>6 DEF Tasks
  <2>2. Stage(v) => work[v].at = "stage" /\ ((\E f : Goes(v, z(f))) \/ GoesTo(v, "restore"))
    BY DEF Stage
  <2>. HIDE DEF z
  <2>. QED BY <1>4, <1>5, <2>1, <2>2
<1>18. CASE Pick(v)
  <2>. DEFINE z(at, o) == [work[v] EXCEPT !.at = at, !.op = o, !.todo = @ \ {o}]
  <2>1. \A at, o : z(at, o).at = at /\ z(at, o).op = o
    BY <1>6 DEF Tasks
  <2>2. /\ trash' = trash
        /\ \/ Goes(v, Idle)
           \/ \E o : InTrash(o) # {} /\ Goes(v, z("clean", o))
           \/ \E o : InTrash(o) = {} /\ Goes(v, z("cleaned", o))
    BY <1>18 DEF Pick
  <2>. HIDE DEF z
  <2>3. PICK o : InTrash(o) = {} /\ Goes(v, z("cleaned", o))
    BY <1>3, <1>5, <2>1, <2>2
  <2>4. work'[v].op = o
    BY <2>1, <2>3, GoesFields
  <2>. QED BY <2>2, <2>3, <2>4 DEF InTrash
<1>. QED
  BY <1>2, <1>7, <1>8, <1>9, <1>10, <1>11, <1>12, <1>13, <1>14, <1>15, <1>16, <1>17, <1>18 DEF Step

\* What a staging takes off its list it has moved.
LEMMA StageTakes ==
  ASSUME TypeInv, [Next]_vars, NEW v \in Workers, work[v].at = "stage", work'[v].at = "stage",
         NEW f \in work[v].todo, f \notin work'[v].todo
  PROVE  <<work[v].op, f>> \in trash'
<1>1. Idle.at = "idle"
  BY DEF Idle
<1>2. ~ Crash(v) /\ ~ Asked(v)
  BY <1>1, GoesFields
  DEF Crash, Asked, SaveArrives, ReportAsked, DeletionAsked, CleanupStarts
<1>3. Step(v)
  BY <1>2, Mover
<1>4. ~ DeleteRow(v)
  BY GoesToFields DEF DeleteRow
<1>5. Stage(v)
  BY <1>3, <1>4
  DEF Step, WriteFile, WriteFails, CommitSave, Undo, Answer, TakeLock, Waiting, LockTimeout, Render,
      RenderFails, CommitReport, List, Restore, Record, Empty, Close, Pick, Clean, Cleaned
<1>6. ~ GoesTo(v, "restore")
  BY GoesToFields
<1>7. PICK g \in work[v].todo :
        /\ Goes(v, [work[v] EXCEPT !.todo = @ \ {g}])
        /\ trash' = trash \cup {<<work[v].op, g>>}
  BY <1>5, <1>6 DEF Stage
<1>8. work'[v] = [work[v] EXCEPT !.todo = @ \ {g}]
  BY <1>7, GoesFields
<1>9. work'[v].todo = work[v].todo \ {g}
  BY <1>8 DEF TypeInv, Tasks
<1>. QED BY <1>7, <1>9

-----------------------------------------------------------------------------
(* Every part is kept *)

LEMMA OnePlaceStep ==
  ASSUME TypeInv, FilesInv, TrashInv, [Next]_vars
  PROVE  OnePlace'
<1>. USE DEF TrashInv, OnePlace
<1>1. CASE disk' \subseteq disk /\ trash' \subseteq trash
  BY <1>1
<1>2. CASE disk' = disk \cup {next} /\ UNCHANGED <<trash, ops>>
  <2>1. \A t \in trash : t[2] < next /\ t[2] \in Nat
    BY DEF FilesInv, FreshData, TypeInv, Names
  <2>2. next \in Nat
    BY NextStep
  <2>3. \A t \in trash : t[2] # next
    BY <2>1, <2>2
  <2>. QED BY <1>2, <2>3
<1>3. ASSUME NEW u \in Workers, NEW f \in disk, Moving(u, f) PROVE OnePlace'
  BY <1>3 DEF Moving
<1>4. ASSUME NEW u \in Workers, NEW f \in Names, MovingBack(u, f) PROVE OnePlace'
  <2>1. \A t \in trash : t[2] = f => t = <<work[u].op, f>>
    BY <1>4 DEF MovingBack
  <2>. QED BY <1>4, <2>1 DEF MovingBack
<1>. QED BY <1>1, <1>2, <1>3, <1>4, PlacesStep

LEMMA TrashRemovedStep ==
  ASSUME TypeInv, FilesInv, TrashInv, [Next]_vars
  PROVE  TrashRemoved'
<1>. SUFFICES ASSUME NEW v \in Workers, work'[v].at \in {"close", "cleaned"},
                     NEW t \in trash', t[1] = work'[v].op
              PROVE  t[2] \in left'
  BY DEF TrashRemoved
<1>1. CASE work'[v] # work[v]
  BY <1>1, RemovedComes
<1>2. CASE work'[v] = work[v] /\ t \in trash
  BY <1>2, LeftGrows DEF TrashInv, TrashRemoved
<1>3. CASE work'[v] = work[v] /\ t \notin trash
  <2>2. PICK u \in Workers : work[u].at = "stage" /\ t[1] = work[u].op
    BY <1>3, TrashComes
  <2>3. StagedIn(ops, t[1])
    BY <2>2 DEF FilesInv, OpenStaged, IsOpen
  <2>4. t[1] \in Decided(work[v])
    BY <1>3 DEF Decided
  <2>. QED BY <2>3, <2>4 DEF FilesInv, DecidedNotStaged
<1>. QED BY <1>1, <1>2, <1>3

LEMMA StagedSoFarStep ==
  ASSUME TypeInv, FilesInv, TrashInv, [Next]_vars
  PROVE  StagedSoFar'
<1>. SUFFICES ASSUME NEW v \in Workers, NEW x \in ops', work'[v].at = "stage", x.id = work'[v].op,
                     NEW f \in x.files, f \notin work'[v].todo
              PROVE  <<x.id, f>> \in trash'
  BY DEF StagedSoFar
<1>1. IsOpen(work'[v])
  BY DEF IsOpen
<1>2. next \in Nat
  BY NextStep
<1>3. CASE IsOpen(work[v]) /\ work'[v].op = work[v].op
  <2>1. x.id < next /\ x.id # next
    BY <1>2, <1>3 DEF FilesInv, FreshTasks
  <2>2. work[v].at = "stage"
    <3>1. CASE work'[v] # work[v]
      BY <2>1, <3>1, TasksStep DEF TaskStep, StageStep
    <3>. QED BY <3>1
  <2>3. PICK y \in ops : y.id = x.id /\ y.files = x.files
    BY <2>1, OperationsCome
  <2>4. CASE f \in work[v].todo
    BY <1>3, <2>2, <2>4, StageTakes
  <2>5. CASE <<x.id, f>> \in trash
    <3>. DEFINE t == <<x.id, f>>
    <3>1. ASSUME NEW u \in Workers, work[u].at = "restore" /\ x.id = work[u].op PROVE FALSE
      BY <1>3, <2>2, <3>1 DEF FilesInv, OpenApart, IsOpen
    <3>2. ASSUME NEW u \in Workers, x.id \in Decided(work[u]) PROVE FALSE
      BY <1>3, <3>2 DEF FilesInv, OpenStaged, DecidedNotStaged
    <3>3. t[1] = x.id
      OBVIOUS
    <3>. HIDE DEF t
    <3>4. t \in trash => t \in trash'
      BY <3>1, <3>2, <3>3, TrashTaken
    <3>. QED BY <2>5, <3>4 DEF t
  <2>. QED BY <1>3, <2>2, <2>3, <2>4, <2>5 DEF TrashInv, StagedSoFar
<1>4. CASE work'[v].op = next /\ Operation(next, work'[v].todo) \in ops'
  <2>1. x = Operation(next, work'[v].todo)
    <3>1. Operation(next, work'[v].todo).id = next
      BY DEF Operation
    <3>. QED BY <1>4, <3>1, OperationsApartStep DEF OperationsApart
  <2>2. x.files = work'[v].todo
    BY <2>1 DEF Operation
  <2>. QED BY <2>2
<1>. QED BY <1>1, <1>3, <1>4, OpenComes

LEMMA ListedOldStep ==
  ASSUME TypeInv, FilesInv, TrashInv, [Next]_vars
  PROVE  ListedOld'
<1>. SUFFICES ASSUME NEW x \in ops', NEW f \in x.files PROVE f < next'
  BY DEF ListedOld
<1>1. next \in Nat /\ (next' = next \/ next' = next + 1)
  BY NextStep
<1>2. f < next /\ f \in Nat
  <2>1. CASE f \in disk
    BY <2>1 DEF FilesInv, FreshData, TypeInv, Names
  <2>2. ASSUME NEW y \in ops, y.files = x.files PROVE f < next /\ f \in Nat
    BY <2>2 DEF TrashInv, ListedOld, TypeInv, Names
  <2>. QED BY <2>1, <2>2, OperationsCome
<1>. QED BY <1>1, <1>2

LEMMA DecidedOverStep ==
  ASSUME TypeInv, FilesInv, TrashInv, [Next]_vars
  PROVE  DecidedOver'
<1>. USE DEF Over
<1>. SUFFICES ASSUME NEW v \in Workers, NEW x \in ops', x.id \in Decided(work'[v])
              PROVE  x.status \in Over
  BY DEF DecidedOver
<1>1. CASE x.id \in Decided(work[v])
  <2>1. x.id # next
    <3>1. x.id < next /\ next \in Nat
      BY <1>1, NextStep DEF FilesInv, FreshTasks
    <3>. QED BY <3>1
  <2>2. CASE x \in ops
    BY <1>1, <2>2 DEF TrashInv, DecidedOver
  <2>3. ASSUME NEW u \in Workers, NEW s, Ending(u, s), x.id = work[u].op, x.status = s
        PROVE  x.status \in Over
    <3>1. CASE work[u].at = "restore"
      BY <1>1, <2>3, <3>1 DEF FilesInv, OpenStaged, DecidedNotStaged, IsOpen
    <3>2. CASE work[u].at # "restore"
      BY <2>3, <3>2 DEF Ending
    <3>. QED BY <3>1, <3>2
  <2>4. ASSUME NEW files, x = Operation(next, files) PROVE FALSE
    BY <2>1, <2>4 DEF Operation
  <2>. QED BY <2>2, <2>3, <2>4, OperationsKept
<1>2. CASE ops' = WithStatus(x.id, "committed")
  <2>1. PICK y \in ops : x = IF y.id = x.id THEN [y EXCEPT !.status = "committed"] ELSE y
    BY <1>2 DEF WithStatus
  <2>2. [y EXCEPT !.status = "committed"].status = "committed"
    BY DEF TypeInv
  <2>. QED BY <2>1, <2>2
<1>3. CASE ops' = ops /\ \E p \in Retryable : p.id = x.id
  BY <1>3 DEF FilesInv, OperationsApart, Retryable
<1>. QED BY <1>1, <1>2, <1>3, DecidedComes

LEMMA EndedEmptyStep ==
  ASSUME TypeInv, FilesInv, TrashInv, [Next]_vars
  PROVE  EndedEmpty'
<1>. SUFFICES ASSUME NEW x \in ops', NEW t \in trash', t[1] = x.id
              PROVE  x.status # "restored" /\ (x.status = "cleaned" => t[2] \in left')
  BY DEF EndedEmpty
<1>1. CASE t \notin trash
  <2>1. PICK u \in Workers : ops' = ops /\ work[u].at = "stage" /\ t[1] = work[u].op
    BY <1>1, TrashComes
  <2>2. StagedIn(ops, x.id)
    BY <2>1 DEF FilesInv, OpenStaged, IsOpen
  <2>. QED BY <2>1, <2>2 DEF FilesInv, OperationsApart, StagedIn
<1>2. CASE t \in trash
  <2>1. CASE x \in ops
    BY <1>2, <2>1, LeftGrows DEF TrashInv, EndedEmpty
  <2>2. ASSUME NEW u \in Workers, NEW s, Ending(u, s), x.id = work[u].op, x.status = s
        PROVE  s # "restored" /\ (s = "cleaned" => t[2] \in left')
    <3>1. InTrash(work[u].op) # {}
      BY <1>2, <2>2 DEF InTrash
    <3>2. s # "restored"
      BY <2>2, <3>1 DEF Ending
    <3>3. CASE s = "cleaned"
      <4>1. work[u].at \in {"close", "cleaned"}
        BY <2>2, <3>3 DEF Ending
      <4>. QED BY <1>2, <2>2, <3>2, <4>1, LeftGrows DEF TrashInv, TrashRemoved
    <3>. QED BY <3>2, <3>3
  <2>3. ASSUME NEW files, x = Operation(next, files)
        PROVE  x.status \notin {"restored", "cleaned"}
    BY <2>3 DEF Operation
  <2>. QED BY <2>1, <2>2, <2>3, OperationsKept
<1>. QED BY <1>1, <1>2

\* The row of an operation was gone before, or goes now.
LEMMA RowGoes ==
  ASSUME TypeInv, FilesInv, TrashInv, [Next]_vars, NEW x \in ops',
         \/ x.status \in Over
         \/ \E w \in Workers : work'[w].at = "record" /\ work'[w].op = x.id
  PROVE  \/ \E y \in ops : y.id = x.id /\ y.files = x.files /\ RowGone(y)
         \/ \E w \in Workers : DeleteRow(w) /\ work[w].op = x.id
<1>. USE DEF Over
<1>1. CASE x.status \in Over
  <2>1. CASE x \in ops
    BY <1>1, <2>1 DEF RowGone
  <2>2. ASSUME NEW y \in ops, NEW u \in Workers, NEW s, Ending(u, s), y.id = work[u].op,
               x.id = y.id, x.files = y.files, x.status = s
        PROVE  RowGone(y)
    <3>1. CASE s = "committed"
      BY <2>2, <3>1 DEF Ending, RowGone
    <3>2. CASE s \in {"cleanup_failed", "cleaned"}
      <4>1. y.id \in Decided(work[u])
        BY <2>2, <3>2 DEF Ending, Decided
      <4>. QED BY <4>1 DEF TrashInv, DecidedOver, RowGone
    <3>. QED BY <1>1, <2>2, <3>1, <3>2
  <2>3. ASSUME NEW files, x = Operation(next, files) PROVE FALSE
    BY <1>1, <2>3 DEF Operation
  <2>. QED BY <2>1, <2>2, <2>3, OperationsKept
<1>2. ASSUME NEW w \in Workers, work'[w].at = "record", work'[w].op = x.id
      PROVE  \/ \E y \in ops : y.id = x.id /\ y.files = x.files /\ RowGone(y)
             \/ DeleteRow(w) /\ work[w].op = x.id
  <2>1. IsOpen(work'[w])
    BY <1>2 DEF IsOpen
  <2>2. /\ IsOpen(work[w]) /\ work[w].op = x.id
        /\ work[w].at = "record" \/ DeleteRow(w)
    BY <1>2, <2>1, OpenComes
  <2>3. x.id # next
    <3>1. x.id < next /\ next \in Nat
      BY <2>2, NextStep DEF FilesInv, FreshTasks
    <3>. QED BY <3>1
  <2>4. PICK y \in ops : y.id = x.id /\ y.files = x.files
    BY <2>3, OperationsCome
  <2>. QED BY <2>2, <2>4 DEF RowGone
<1>. QED BY <1>1, <1>2

LEMMA OverGoneStep ==
  ASSUME TypeInv, FilesInv, TrashInv, [Next]_vars
  PROVE  OverGone'
<1>. SUFFICES ASSUME NEW x \in ops',
                     \/ x.status \in Over
                     \/ \E w \in Workers : work'[w].at = "record" /\ work'[w].op = x.id,
                     NEW f \in x.files
              PROVE  f \notin disk' /\ \A t \in trash' : t[2] = f => t[1] = x.id
  BY DEF OverGone, RowGone
<1>1. ASSUME NEW y \in ops, y.id = x.id, y.files = x.files, RowGone(y)
      PROVE  f \notin disk' /\ \A t \in trash' : t[2] = f => t[1] = x.id
  <2>1. f \notin disk /\ \A t \in trash : t[2] = f => t[1] = x.id
    BY <1>1 DEF TrashInv, OverGone
  <2>2. CASE disk' \subseteq disk /\ trash' \subseteq trash
    BY <2>1, <2>2
  <2>3. CASE disk' = disk \cup {next} /\ UNCHANGED <<trash, ops>>
    <3>1. f < next /\ f \in Nat /\ next \in Nat
      BY <1>1, NextStep DEF TrashInv, ListedOld, TypeInv, Names
    <3>. QED BY <2>1, <2>3, <3>1
  <2>4. ASSUME NEW u \in Workers, NEW g \in disk, Moving(u, g)
        PROVE  f \notin disk' /\ \A t \in trash' : t[2] = f => t[1] = x.id
    BY <2>1, <2>4 DEF Moving
  <2>5. ASSUME NEW u \in Workers, NEW g \in Names, MovingBack(u, g)
        PROVE  f \notin disk' /\ \A t \in trash' : t[2] = f => t[1] = x.id
    <3>1. ASSUME work[u].op = y.id PROVE FALSE
      <4>1. work[u].at = "restore" /\ IsOpen(work[u])
        BY <2>5 DEF MovingBack, IsOpen
      <4>2. y.status = "staged"
        BY <3>1, <4>1 DEF FilesInv, OpenStaged, StagedIn, OperationsApart
      <4>3. PICK w \in Workers : work[w].at = "record" /\ work[w].op = y.id
        BY <1>1, <4>2 DEF RowGone, Over
      <4>4. IsOpen(work[w]) /\ w # u
        BY <4>1, <4>3 DEF IsOpen
      <4>. QED BY <3>1, <4>1, <4>3, <4>4 DEF FilesInv, OpenApart
    <3>2. g # f
      BY <1>1, <2>1, <2>5, <3>1 DEF MovingBack
    <3>. QED BY <2>1, <2>5, <3>2 DEF MovingBack
  <2>. QED BY <2>2, <2>3, <2>4, <2>5, PlacesStep
<1>2. ASSUME NEW w \in Workers, DeleteRow(w), work[w].op = x.id
      PROVE  f \notin disk' /\ \A t \in trash' : t[2] = f => t[1] = x.id
  <2>1. work[w].at = "stage" /\ work[w].todo = {} /\ UNCHANGED <<disk, trash, ops>>
    BY <1>2 DEF DeleteRow
  <2>2. <<x.id, f>> \in trash
    BY <1>2, <2>1 DEF TrashInv, StagedSoFar
  <2>. QED BY <2>1, <2>2 DEF TrashInv, OnePlace
<1>. QED BY <1>1, <1>2, RowGoes

-----------------------------------------------------------------------------
(* The theorem *)

LEMMA TrashInit == Init => TrashInv
<1>. SUFFICES ASSUME Init PROVE TrashInv
  OBVIOUS
<1>1. \A w \in Workers : work[w].at = "idle"
  BY DEF Init, Idle
<1>2. trash = {} /\ ops = {} /\ disk = {}
  BY DEF Init
<1>. QED BY <1>1, <1>2
     DEF TrashInv, OnePlace, TrashRemoved, StagedSoFar, OverGone, DecidedOver, ListedOld, EndedEmpty

LEMMA TrashStep == TypeInv /\ FilesInv /\ TrashInv /\ [Next]_vars => TrashInv'
BY OnePlaceStep, TrashRemovedStep, StagedSoFarStep, OverGoneStep, DecidedOverStep, ListedOldStep,
   EndedEmptyStep
   DEF TrashInv

\* A deletion that says it is over is: a restored one has nothing left in its
\* trash; the files of a cleaned one are not in their places, and in its trash
\* only those its removal could not delete and did not report (deleteDirectory
\* answers true).  All this although storage:cleanup works without the lock on
\* the operations a request is still closing, and every move, removal and status
\* may fail or be lost.
THEOREM FinishedDeletionsDone == Spec => []FinishedDeletionsAreDone
<1>1. TrashInv => FinishedDeletionsAreDone
  BY DEF TrashInv, EndedEmpty, OverGone, RowGone, Over, InTrash, FinishedDeletionsAreDone
<1>. QED BY <1>1, TrashInit, TrashStep, FilesInit, FilesStep, TypeInvariant, PTL DEF Spec

-----------------------------------------------------------------------------
(* The abstract store: what it sees of the rows and the operations *)

Shown == {r.file : r \in rows}
Undecided == {o.id : o \in {x \in ops : x.status = "staged"}}
Used == 1 .. (next - 1)

LEMMA FreshIsWritten == \A f : f \in Fresh <=> \E w \in Workers : f \in Written(work[w])
BY DEF Fresh, Written

LEMMA UndecidedIsStaged == \A o : o \in Undecided <=> StagedIn(ops, o)
BY DEF Undecided, StagedIn

\* The files of a task that gives some up, and of one that writes one more.
LEMMA FreshLoses ==
  ASSUME TypeInv, WrittenApart, NEW w \in Workers, NEW x, Goes(w, x), NEW gone,
         gone \subseteq Written(work[w]), Written(x) = Written(work[w]) \ gone
  PROVE  Fresh' = Fresh \ gone
<1>1. \A v \in Workers : work'[v] = IF v = w THEN x ELSE work[v]
  BY DEF Goes, TypeInv
<1>2. \A f : f \in Fresh' <=> \E v \in Workers : f \in Written(work'[v])
  BY DEF Fresh, Written
<1>3. \A v \in Workers : v # w => Written(work[v]) \cap gone = {}
  BY DEF WrittenApart
<1>. QED BY <1>1, <1>2, <1>3, FreshIsWritten

LEMMA FreshGains ==
  ASSUME TypeInv, NEW w \in Workers, NEW x, Goes(w, x), NEW f,
         Written(x) = Written(work[w]) \cup {f}
  PROVE  Fresh' = Fresh \cup {f}
<1>1. \A v \in Workers : work'[v] = IF v = w THEN x ELSE work[v]
  BY DEF Goes, TypeInv
<1>2. \A g : g \in Fresh' <=> \E v \in Workers : g \in Written(work'[v])
  BY DEF Fresh, Written
<1>. QED BY <1>1, <1>2, FreshIsWritten

\* A new status takes the operation from the undecided ones.
LEMMA StatusDecides ==
  ASSUME TypeInv, NEW o, NEW s \in Statuses \ {"staged"}, ops' = WithStatus(o, s)
  PROVE  Undecided' = Undecided \ {o}
<1>1. \A y : y \in ops' <=> \E x \in ops : y = IF x.id = o THEN [x EXCEPT !.status = s] ELSE x
  BY DEF WithStatus
<1>2. \A x \in ops : [x EXCEPT !.status = s].id = x.id /\ [x EXCEPT !.status = s].status = s
  BY DEF TypeInv
<1>3. \A p : p \in Undecided' <=> \E y \in ops' : y.id = p /\ y.status = "staged"
  BY DEF Undecided
<1>4. ASSUME NEW p \in Undecided' PROVE p \in Undecided \ {o}
  <2>1. PICK y \in ops' : y.id = p /\ y.status = "staged"
    BY <1>3, <1>4
  <2>2. PICK x \in ops : y = IF x.id = o THEN [x EXCEPT !.status = s] ELSE x
    BY <1>1, <2>1
  <2>3. x.id # o
    BY <1>2, <2>1, <2>2
  <2>. QED BY <2>1, <2>2, <2>3, UndecidedIsStaged DEF StagedIn
<1>5. ASSUME NEW p \in Undecided \ {o} PROVE p \in Undecided'
  <2>1. PICK x \in ops : x.id = p /\ x.status = "staged"
    BY <1>5, UndecidedIsStaged DEF StagedIn
  <2>2. x \in ops'
    BY <1>1, <1>5, <2>1
  <2>. QED BY <1>3, <2>1, <2>2
<1>. QED BY <1>4, <1>5

LEMMA StoreInit == Init => Store!FileInit
<1>. SUFFICES ASSUME Init PROVE Store!FileInit
  OBVIOUS
<1>1. \A w \in Workers : Written(work[w]) = {}
  BY DEF Init, Idle, Written
<1>2. Fresh = {}
  BY <1>1, FreshIsWritten
<1>3. rows = {} /\ ops = {} /\ disk = {} /\ trash = {} /\ 1 .. (next - 1) = {}
  BY DEF Init
<1>. QED BY <1>2, <1>3 DEF Store!FileInit

-----------------------------------------------------------------------------
(* The abstract steps, by what the worker has written before and after *)

StoreStep == [Store!FileNext]_(Store!fileVars)

LEMMA KeepsFresh ==
  ASSUME TypeInv, FilesInv, NEW w \in Workers, NEW x, Goes(w, x),
         Written(x) = Written(work[w])
  PROVE  Fresh' = Fresh
<1>1. WrittenApart /\ {} \subseteq Written(work[w]) /\ Written(x) = Written(work[w]) \ {}
  BY DEF FilesInv
<1>2. Fresh' = Fresh \ {}
  BY <1>1, FreshLoses
<1>. QED BY <1>2

LEMMA Stutters ==
  ASSUME Fresh' = Fresh, UNCHANGED <<rows, ops, disk, trash, next>>
  PROVE  StoreStep
BY DEF StoreStep, Store!fileVars

LEMMA Writes ==
  ASSUME TypeInv, FilesInv, NEW w \in Workers, NEW x, Goes(w, x), Named,
         Written(x) = Written(work[w]) \cup {next},
         disk' = disk \cup {next}, UNCHANGED <<rows, ops, trash>>
  PROVE  StoreStep
<1>1. Fresh' = Fresh \cup {next}
  BY FreshGains
<1>2. next \in Names /\ next \notin 1 .. (next - 1) /\ next' = next + 1
  BY DEF Named, Names, TypeInv
<1>3. 1 .. (next' - 1) = (1 .. (next - 1)) \cup {next}
  BY <1>2 DEF Names, TypeInv
<1>4. Store!Write(next)
  BY <1>1, <1>2, <1>3 DEF Store!Write
<1>. QED BY <1>2, <1>4 DEF StoreStep, Store!FileNext

\* A write that fails writes a file that is nobody's, or none.
LEMMA PartWrites ==
  ASSUME TypeInv, Fresh' = Fresh, PartWritten, UNCHANGED <<rows, ops, trash>>
  PROVE  StoreStep
<1>1. CASE UNCHANGED <<disk, next, left>>
  BY <1>1, Stutters
<1>2. CASE Named /\ disk' = disk \cup {next}
  <2>1. next \in Names /\ next \notin 1 .. (next - 1) /\ next' = next + 1
    BY <1>2 DEF Named, Names, TypeInv
  <2>2. 1 .. (next' - 1) = (1 .. (next - 1)) \cup {next}
    BY <2>1 DEF Names, TypeInv
  <2>3. Store!Write(next)
    BY <1>2, <2>1, <2>2 DEF Store!Write
  <2>. QED BY <2>1, <2>3 DEF StoreStep, Store!FileNext
<1>. QED BY <1>1, <1>2 DEF PartWritten

LEMMA GivesUp ==
  ASSUME TypeInv, FilesInv, NEW w \in Workers, NEW x, Goes(w, x), NEW gone,
         gone \subseteq Written(work[w]), Written(x) = Written(work[w]) \ gone,
         disk' = disk \/ disk' = disk \ gone, UNCHANGED <<rows, ops, trash, next>>
  PROVE  StoreStep
<1>1. Fresh' = Fresh \ gone
  BY FreshLoses DEF FilesInv
<1>2. gone \subseteq Fresh
  BY FreshIsWritten
<1>3. CASE gone = {}
  BY <1>1, <1>3, Stutters
<1>4. CASE gone # {}
  <2>1. Store!GiveUp(gone)
    BY <1>1, <1>2, <1>4 DEF Store!GiveUp
  <2>. QED BY <1>2, <2>1 DEF StoreStep, Store!FileNext
<1>. QED BY <1>3, <1>4

LEMMA StoresRows ==
  ASSUME TypeInv, FilesInv, NEW w \in Workers, NEW x, Goes(w, x), Written(x) = {},
         Shown' = Shown \cup Written(work[w]), UNCHANGED <<ops, disk, trash, next>>
  PROVE  StoreStep
<1>0. PICK files \in SUBSET Fresh : files = Written(work[w])
  BY FreshIsWritten
<1>1. Fresh' = Fresh \ files
  BY <1>0, FreshLoses DEF FilesInv
<1>3. CASE files = {}
  BY <1>0, <1>1, <1>3 DEF StoreStep, Store!fileVars, Shown
<1>4. CASE files # {}
  <2>1. Store!Store(files)
    BY <1>0, <1>1, <1>4 DEF Store!Store, Shown
  <2>. QED BY <2>1 DEF StoreStep, Store!FileNext
<1>. QED BY <1>3, <1>4

LEMMA Decides ==
  ASSUME TypeInv, FilesInv, Fresh' = Fresh, NEW o \in Names, o \in Undecided,
         InTrash(o) \cap Shown = {}, Undecided' = Undecided \ {o},
         UNCHANGED <<rows, disk, trash, next>>
  PROVE  StoreStep
<1>1. Store!Decide(o)
  BY DEF Store!Decide, Store!InTrash, InTrash, Undecided, Shown
<1>. QED BY <1>1 DEF StoreStep, Store!FileNext

LEMMA Discards ==
  ASSUME TypeInv, FilesInv, Fresh' = Fresh, NEW o \in Names, o \notin Undecided,
         NEW kept \in SUBSET InTrash(o), trash' = {t \in trash : t[1] = o => t[2] \in kept},
         Undecided' = Undecided, UNCHANGED <<rows, disk, next>>
  PROVE  StoreStep
<1>1. CASE trash' = trash
  BY <1>1 DEF StoreStep, Store!fileVars, Undecided
<1>2. CASE trash' # trash
  <2>1. Store!Discard(o)
    BY <1>2 DEF Store!Discard, Store!InTrash, InTrash, Undecided
  <2>. QED BY <2>1 DEF StoreStep, Store!FileNext
<1>. QED BY <1>1, <1>2

\* Only savers and reporters hold files they have written.
MadeHeld ==
  \A w \in Workers : work[w].made # {} => work[w].at \in {"write", "commit", "undo", "answer"}

LEMMA MadeHeldStep == TypeInv /\ MadeHeld /\ [Next]_vars => MadeHeld'
<1>. SUFFICES ASSUME TypeInv, MadeHeld, [Next]_vars, NEW v \in Workers, work'[v] # work[v],
                     work'[v].made # {}
              PROVE  work'[v].at \in {"write", "commit", "undo", "answer"}
  BY DEF MadeHeld
<1>. USE DEF data, hist
<1>. DEFINE holding == {"write", "commit", "undo", "answer"}
<1>0. work \in [Workers -> Tasks] /\ Idle.made = {} /\ Sound(work[v])
  BY DEF TypeInv, Idle
<1>1. ASSUME NEW at, GoesTo(v, at) PROVE work'[v].at = at /\ work[v].at \in holding
  BY <1>1, GoesToFields DEF MadeHeld
<1>2. ~ Goes(v, Idle) /\ ~ Asked(v) /\ ~ Crash(v)
  BY <1>0, AskedFields, GoesFields DEF Crash
<1>3. Step(v)
  BY <1>2, Mover
<1>4. ASSUME NEW x, Goes(v, x), x.at \in holding PROVE work'[v].at \in holding
  BY <1>4, GoesFields
<1>5. ASSUME NEW x, Goes(v, x), x.made = work[v].made, work[v].at \notin holding PROVE FALSE
  <2>1. work'[v].made = work[v].made
    BY <1>5, GoesFields
  <2>. QED BY <1>5, <2>1 DEF MadeHeld
<1>6. CASE WriteFile(v) \/ Render(v) \/ Undo(v)
  BY <1>0, <1>4, <1>6 DEF WriteFile, Render, Undo, Tasks
<1>7. CASE WriteFails(v) \/ LockTimeout(v) \/ RenderFails(v)
  BY <1>1, <1>7 DEF WriteFails, LockTimeout, RenderFails
<1>8. CASE CommitSave(v)
  <2>1. ASSUME NEW at \in {"answer", "undo"}, Goes(v, [work[v] EXCEPT !.at = at, !.ok = TRUE])
        PROVE  work'[v].at \in holding
    BY <1>0, <1>4, <2>1 DEF Tasks
  <2>2. \/ GoesTo(v, "undo")
        \/ \E at \in {"answer", "undo"} : Goes(v, [work[v] EXCEPT !.at = at, !.ok = TRUE])
    BY <1>8 DEF CommitSave, AfterReplay
  <2>. QED BY <1>1, <2>1, <2>2
<1>9. CASE CommitReport(v)
  BY <1>1, <1>2, <1>9 DEF CommitReport, Stops
<1>10. CASE TakeLock(v)
  <2>1. ASSUME NEW n, Goes(v, [work[v] EXCEPT !.at = "render", !.base = assessment.ver, !.num = n]),
               work[v].job = "report"
        PROVE  FALSE
    <3>1. work[v].at = "wait"
      BY <1>0, <1>10, <2>1 DEF TakeLock, Waiting, Sound
    <3>. QED BY <1>0, <1>5, <2>1, <3>1 DEF Tasks
  <2>2. ASSUME GoesTo(v, "list"), work[v].job \in {"one", "all"} PROVE FALSE
    <3>1. work[v].at = "wait"
      BY <1>0, <1>10, <2>2 DEF TakeLock, Waiting, Sound
    <3>. QED BY <1>1, <2>2, <3>1
  <2>. QED BY <1>1, <1>10, <2>1, <2>2 DEF TakeLock
<1>11. CASE List(v)
  <2>1. ASSUME NEW files, Goes(v, [work[v] EXCEPT !.at = "stage", !.todo = files, !.op = next])
        PROVE  FALSE
    BY <1>0, <1>5, <1>11, <2>1 DEF List, Tasks
  <2>. QED BY <1>1, <1>11, <2>1 DEF List
<1>12. CASE Stage(v)
  <2>1. ASSUME NEW f, Goes(v, [work[v] EXCEPT !.todo = @ \ {f}]) PROVE FALSE
    BY <1>0, <1>5, <1>12, <2>1 DEF Stage, Tasks
  <2>. QED BY <1>1, <1>12, <2>1 DEF Stage
<1>13. CASE Pick(v)
  <2>1. ASSUME NEW at, NEW o, Goes(v, [work[v] EXCEPT !.at = at, !.op = o, !.todo = @ \ {o}])
        PROVE  FALSE
    BY <1>0, <1>5, <1>13, <2>1 DEF Pick, Tasks
  <2>. QED BY <1>2, <1>13, <2>1 DEF Pick
<1>14. CASE Restore(v) \/ Record(v) \/ Empty(v) \/ Close(v) \/ Answer(v)
  BY <1>1, <1>2, <1>14 DEF Restore, Record, Empty, Close, Answer, Stops
<1>15. CASE DeleteRow(v) \/ Clean(v) \/ Cleaned(v)
  BY <1>1, <1>15 DEF DeleteRow, Clean, Cleaned
<1>. QED BY <1>3, <1>6, <1>7, <1>8, <1>9, <1>10, <1>11, <1>12, <1>13, <1>14, <1>15 DEF Step

\* A task that only moves on, and one that ends with nothing written.
LEMMA MovesOn ==
  ASSUME TypeInv, FilesInv, NEW w \in Workers, NEW at, GoesTo(w, at),
         at # "answer", work[w].at # "answer"
  PROVE  Fresh' = Fresh
<1>1. work[w] \in Tasks
  BY DEF TypeInv
<1>. DEFINE x == [work[w] EXCEPT !.at = at]
<1>2. x.made = work[w].made /\ x.at = at
  BY <1>1 DEF Tasks
<1>3. Goes(w, x)
  BY DEF Goes, GoesTo
<1>. HIDE DEF x
<1>4. Written(x) = Written(work[w])
  BY <1>2 DEF Written
<1>. QED BY <1>3, <1>4, KeepsFresh

LEMMA EndsWithNothing ==
  ASSUME TypeInv, FilesInv, MadeHeld, NEW w \in Workers, Goes(w, Idle),
         work[w].at \notin {"write", "commit", "undo"}
  PROVE  Fresh' = Fresh
<1>1. Written(work[w]) = {} /\ Written(Idle) = {}
  BY DEF MadeHeld, Written, Idle
<1>. QED BY <1>1, KeepsFresh

\* The trash of an operation that is no longer staged may go.
LEMMA DecidedMayGo ==
  ASSUME TypeInv, FilesInv, NEW w \in Workers, NEW o, o \in Decided(work[w])
  PROVE  o \notin Undecided
BY UndecidedIsStaged DEF FilesInv, DecidedNotStaged

-----------------------------------------------------------------------------
(* Each action is a step of the abstract store, or none *)

LEMMA SavingSteps ==
  ASSUME TypeInv, FilesInv, NEW w \in Workers,
         WriteFile(w) \/ WriteFails(w) \/ CommitSave(w) \/ Undo(w) \/ Answer(w)
  PROVE  StoreStep
<1>. USE DEF data, hist
<1>0. work[w] \in Tasks /\ Idle.made = {}
  BY DEF TypeInv, Idle
<1>1. CASE WriteFile(w)
  <2>1. PICK c \in work[w].todo :
          /\ Named /\ disk' = disk \cup {next}
          /\ Goes(w, [work[w] EXCEPT !.todo = @ \ {c}, !.made = @ \cup {<<next, c>>}])
    BY <1>1 DEF WriteFile
  <2>. DEFINE x == [work[w] EXCEPT !.todo = @ \ {c}, !.made = @ \cup {<<next, c>>}]
  <2>2. x.at = "write" /\ work[w].at = "write" /\ x.made = work[w].made \cup {<<next, c>>}
    BY <1>0, <1>1 DEF WriteFile, Tasks
  <2>3. Goes(w, x) /\ UNCHANGED <<rows, ops, trash>>
    BY <1>1, <2>1 DEF WriteFile
  <2>. HIDE DEF x
  <2>4. Written(x) = Written(work[w]) \cup {next}
    <3>1. \A m : m \in x.made <=> m \in work[w].made \/ m = <<next, c>>
      BY <2>2
    <3>2. Written(x) = {m[1] : m \in x.made} /\ Written(work[w]) = {m[1] : m \in work[w].made}
      BY <2>2 DEF Written
    <3>3. <<next, c>>[1] = next
      OBVIOUS
    <3>. QED BY <3>1, <3>2, <3>3
  <2>. QED BY <2>1, <2>3, <2>4, Writes
<1>2. CASE WriteFails(w)
  BY <1>2, MovesOn, PartWrites DEF WriteFails
<1>3. CASE CommitSave(w)
  <2>0. work[w].at = "commit" /\ UNCHANGED <<ops, disk, trash, next>>
    BY <1>3 DEF CommitSave
  <2>1. CASE /\ rows' = rows \cup {EvidenceRow(m) : m \in work[w].made}
             /\ Goes(w, [work[w] EXCEPT !.at = "answer", !.ok = TRUE])
    <3>. DEFINE x == [work[w] EXCEPT !.at = "answer", !.ok = TRUE]
    <3>1. x.at = "answer"
      BY <1>0 DEF Tasks
    <3>2. Written(x) = {}
      BY <3>1 DEF Written
    <3>3. \A m : EvidenceRow(m).file = m[1]
      BY DEF EvidenceRow
    <3>4. Written(work[w]) = {m[1] : m \in work[w].made}
      BY <2>0 DEF Written
    <3>5. Shown' = Shown \cup Written(work[w])
      BY <2>1, <3>3, <3>4 DEF Shown
    <3>. QED BY <2>0, <2>1, <3>2, <3>5, StoresRows
  <2>2. CASE rows' = rows /\ Goes(w, [work[w] EXCEPT !.at = AfterReplay, !.ok = TRUE])
    <3>. DEFINE x == [work[w] EXCEPT !.at = AfterReplay, !.ok = TRUE]
    <3>1. x.made = work[w].made /\ x.at = "undo"
      BY <1>0 DEF Tasks, AfterReplay
    <3>. HIDE DEF x
    <3>2. Written(x) = Written(work[w])
      BY <2>0, <3>1 DEF Written
    <3>3. Goes(w, x)
      BY <2>2 DEF x
    <3>. QED BY <2>0, <2>2, <3>2, <3>3, KeepsFresh, Stutters
  <2>3. CASE rows' = rows /\ GoesTo(w, "undo")
    BY <2>0, <2>3, MovesOn, Stutters
  <2>. QED BY <1>3, <2>1, <2>2, <2>3 DEF CommitSave
<1>4. CASE Undo(w)
  <2>1. PICK m \in work[w].made :
          /\ Goes(w, [work[w] EXCEPT !.made = @ \ {m}])
          /\ disk' = disk \/ disk' = disk \ {m[1]}
    BY <1>4 DEF Undo
  <2>. DEFINE x == [work[w] EXCEPT !.made = @ \ {m}]
  <2>2. x.made = work[w].made \ {m} /\ x.at = work[w].at /\ work[w].at = "undo"
    BY <1>0, <1>4 DEF Undo, Tasks
  <2>3. Goes(w, x) /\ UNCHANGED <<rows, ops, trash, next>>
    BY <1>4, <2>1 DEF Undo
  <2>. HIDE DEF x
  <2>4. \A n \in work[w].made : n[1] = m[1] => n = m
    BY <2>1 DEF FilesInv, WrittenOnce
  <2>5. {m[1]} \subseteq Written(work[w]) /\ Written(x) = Written(work[w]) \ {m[1]}
    BY <2>1, <2>2, <2>4 DEF Written
  <2>. QED BY <2>1, <2>3, <2>5, GivesUp
<1>5. CASE Answer(w)
  <2>1. Goes(w, Idle) /\ UNCHANGED <<rows, ops, disk, trash, next>>
    BY <1>5 DEF Answer, Stops
  <2>2. Written(work[w]) = {} /\ Written(Idle) = {}
    BY <1>0, <1>5 DEF Answer, Written
  <2>. QED BY <2>1, <2>2, KeepsFresh, Stutters
<1>. QED BY <1>1, <1>2, <1>3, <1>4, <1>5

LEMMA LockingSteps ==
  ASSUME TypeInv, FilesInv, MadeHeld, NEW w \in Workers,
         TakeLock(w) \/ LockTimeout(w) \/ Render(w) \/ RenderFails(w) \/ CommitReport(w)
  PROVE  StoreStep
<1>. USE DEF data, hist
<1>0. work[w] \in Tasks /\ Idle.made = {}
  BY DEF TypeInv, Idle
<1>1. CASE TakeLock(w)
  <2>1. UNCHANGED <<rows, ops, disk, trash, next>> /\ work[w].at \in {"wait", "write"}
    BY <1>1 DEF TakeLock, Waiting
  <2>2. ASSUME NEW n, Goes(w, [work[w] EXCEPT !.at = "render", !.base = assessment.ver, !.num = n])
        PROVE  Fresh' = Fresh
    <3>. DEFINE x == [work[w] EXCEPT !.at = "render", !.base = assessment.ver, !.num = n]
    <3>1. x.made = work[w].made /\ x.at = "render"
      BY <1>0 DEF Tasks
    <3>2. Goes(w, x)
      BY <2>2
    <3>. HIDE DEF x
    <3>3. Written(x) = Written(work[w])
      BY <2>1, <3>1 DEF Written
    <3>. QED BY <3>2, <3>3, KeepsFresh
  <2>. QED BY <1>1, <2>1, <2>2, MovesOn, Stutters DEF TakeLock
<1>2. CASE LockTimeout(w)
  BY <1>2, MovesOn, Stutters DEF LockTimeout, Waiting
<1>5. CASE RenderFails(w)
  BY <1>5, MovesOn, PartWrites DEF RenderFails
<1>3. CASE Render(w)
  <2>. DEFINE x == [work[w] EXCEPT !.at = "commit", !.made = {<<next, "report">>}]
  <2>1. x.made = {<<next, "report">>} /\ x.at = "commit"
    BY <1>0 DEF Tasks
  <2>2. work[w].at = "render" /\ work[w].made = {}
    BY <1>3 DEF Render, MadeHeld
  <2>3. Goes(w, x) /\ Named /\ disk' = disk \cup {next} /\ UNCHANGED <<rows, ops, trash>>
    BY <1>3 DEF Render
  <2>. HIDE DEF x
  <2>4. Written(x) = Written(work[w]) \cup {next}
    BY <2>1, <2>2 DEF Written
  <2>. QED BY <2>3, <2>4, Writes
<1>4. CASE CommitReport(w)
  <2>0. work[w].at = "commit" /\ UNCHANGED <<ops, disk, trash, next>>
    BY <1>4 DEF CommitReport
  <2>1. CASE rows' = rows \cup {ReportRow(w, m) : m \in work[w].made} /\ Goes(w, Idle)
    <3>1. Written(Idle) = {}
      BY <1>0 DEF Written
    <3>2. \A m : ReportRow(w, m).file = m[1]
      BY DEF ReportRow
    <3>3. Written(work[w]) = {m[1] : m \in work[w].made}
      BY <2>0 DEF Written
    <3>4. Shown' = Shown \cup Written(work[w])
      BY <2>1, <3>2, <3>3 DEF Shown
    <3>. QED BY <2>0, <2>1, <3>1, <3>4, StoresRows
  <2>2. CASE rows' = rows /\ GoesTo(w, "undo")
    BY <2>0, <2>2, MovesOn, Stutters
  <2>. QED BY <1>4, <2>1, <2>2 DEF CommitReport, Stops
<1>. QED BY <1>1, <1>2, <1>3, <1>4, <1>5

LEMMA ListingStep ==
  ASSUME TypeInv, FilesInv, NEW w \in Workers, List(w)
  PROVE  StoreStep
<1>. USE DEF data, hist
<1>0. work[w] \in Tasks /\ work[w].at = "list" /\ UNCHANGED <<rows, disk, trash>>
  BY DEF TypeInv, List
<1>. DEFINE files == {r.file : r \in Targets(w)}
            x == [work[w] EXCEPT !.at = "stage", !.todo = files, !.op = next]
<1>1. CASE Named /\ ops' = ops \cup {Operation(next, files)} /\ Goes(w, x)
  <2>1. x.made = work[w].made /\ x.at = "stage"
    BY <1>0 DEF Tasks
  <2>2. Goes(w, x)
    BY <1>1
  <2>3. Operation(next, files).id = next /\ Operation(next, files).status = "staged"
    BY DEF Operation
  <2>4. Undecided' = Undecided \cup {next}
    <3>1. \A y : y \in ops' <=> y \in ops \/ y = Operation(next, files)
      BY <1>1
    <3>. HIDE DEF files
    <3>. QED BY <2>3, <3>1 DEF Undecided
  <2>. HIDE DEF x
  <2>5. Fresh' = Fresh
    <3>1. Written(x) = Written(work[w])
      BY <1>0, <2>1 DEF Written
    <3>. QED BY <2>2, <3>1, KeepsFresh
  <2>6. next \in Names /\ next \notin 1 .. (next - 1) /\ next' = next + 1
    BY <1>1 DEF Named, Names, TypeInv
  <2>7. 1 .. (next' - 1) = (1 .. (next - 1)) \cup {next}
    BY <2>6 DEF Names, TypeInv
  <2>8. PICK p \in Names : p = next
    BY <2>6
  <2>9. Store!Open(p)
    BY <1>0, <2>4, <2>5, <2>6, <2>7, <2>8 DEF Store!Open, Undecided
  <2>. QED BY <2>9 DEF StoreStep, Store!FileNext
<1>2. CASE GoesTo(w, "undo") /\ UNCHANGED <<ops, next>>
  BY <1>0, <1>2, MovesOn, Stutters
<1>. QED BY <1>1, <1>2 DEF List

LEMMA MovingSteps ==
  ASSUME TypeInv, FilesInv, MadeHeld, NEW w \in Workers, Stage(w) \/ Restore(w)
  PROVE  StoreStep
<1>. USE DEF data, hist
<1>0. work[w] \in Tasks /\ Sound(work[w])
  BY DEF TypeInv
<1>. DEFINE o == work[w].op
<1>1. UNCHANGED <<rows, next>> /\ work[w].at \in {"stage", "restore"}
  BY DEF Stage, Restore
<1>2. o \in Names /\ o \in Undecided
  BY <1>0, <1>1, UndecidedIsStaged DEF Sound, FilesInv, OpenStaged, IsOpen
<1>3. CASE Stage(w)
  <2>1. PICK f \in work[w].todo :
          \/ /\ f \in disk /\ disk' = disk \ {f} /\ trash' = trash \cup {<<o, f>>}
             /\ Goes(w, [work[w] EXCEPT !.todo = @ \ {f}])
          \/ GoesTo(w, "restore") /\ UNCHANGED <<disk, trash>>
    BY <1>3 DEF Stage
  <2>2. ops' = ops /\ work[w].at = "stage"
    BY <1>3 DEF Stage
  <2>3. CASE /\ f \in disk /\ disk' = disk \ {f} /\ trash' = trash \cup {<<o, f>>}
             /\ Goes(w, [work[w] EXCEPT !.todo = @ \ {f}])
    <3>. DEFINE x == [work[w] EXCEPT !.todo = @ \ {f}]
    <3>1. x.made = work[w].made /\ x.at = work[w].at
      BY <1>0 DEF Tasks
    <3>2. Goes(w, x)
      BY <2>3
    <3>. HIDE DEF x
    <3>3. Fresh' = Fresh
      <4>1. Written(x) = Written(work[w])
        BY <3>1 DEF Written
      <4>. QED BY <3>2, <4>1, KeepsFresh
    <3>4. f \notin Fresh
      <4>1. f \in Wanted(work[w])
        BY <2>1, <2>2 DEF Wanted
      <4>. QED BY <4>1, FreshIsWritten DEF FilesInv, WrittenUnwanted
    <3>5. f \in Names
      BY <2>3 DEF TypeInv
    <3>. HIDE DEF o
    <3>6. Store!ToTrash(o, f)
      BY <1>1, <1>2, <2>2, <2>3, <3>3, <3>4 DEF Store!ToTrash, Undecided
    <3>. QED BY <1>2, <3>5, <3>6 DEF StoreStep, Store!FileNext
  <2>4. CASE GoesTo(w, "restore") /\ UNCHANGED <<disk, trash>>
    BY <1>1, <2>2, <2>4, MovesOn, Stutters
  <2>. QED BY <2>1, <2>3, <2>4
<1>4. CASE Restore(w)
  <2>0. work[w].at = "restore"
    BY <1>4 DEF Restore
  <2>1. CASE AllBack(o) /\ ops' = WithStatus(o, "restored") /\ Stops(w) /\ UNCHANGED <<disk, trash>>
    <3>1. Fresh' = Fresh
      BY <2>0, <2>1, EndsWithNothing DEF Stops
    <3>2. Undecided' = Undecided \ {o}
      BY <2>1, StatusDecides DEF Statuses
    <3>3. InTrash(o) \cap Shown = {}
      BY <2>1 DEF AllBack
    <3>. QED BY <1>1, <1>2, <2>1, <3>1, <3>2, <3>3, Decides
  <2>2. ASSUME NEW f \in InTrash(o), disk' = disk \cup {f}, trash' = trash \ {<<o, f>>},
               UNCHANGED <<ops, work>>
        PROVE  StoreStep
    <3>1. f \in Names
      BY <2>2, TrashType
    <3>2. Fresh' = Fresh
      BY <2>2 DEF Fresh
    <3>. HIDE DEF o
    <3>3. Store!FromTrash(o, f)
      BY <1>1, <1>2, <2>2, <3>2 DEF Store!FromTrash, Store!InTrash, InTrash, Undecided
    <3>. QED BY <1>2, <3>1, <3>3 DEF StoreStep, Store!FileNext
  <2>3. CASE Stops(w) /\ UNCHANGED <<disk, trash, ops>>
    BY <1>1, <2>0, <2>3, EndsWithNothing, Stutters DEF Stops
  <2>. QED BY <1>4, <2>1, <2>2, <2>3 DEF Restore
<1>. QED BY <1>3, <1>4

LEMMA DeletingSteps ==
  ASSUME TypeInv, FilesInv, MadeHeld, NEW w \in Workers, DeleteRow(w) \/ Record(w)
  PROVE  StoreStep
<1>. USE DEF data, hist
<1>0. work[w] \in Tasks /\ Sound(work[w])
  BY DEF TypeInv
<1>. DEFINE o == work[w].op
<1>1. UNCHANGED <<disk, trash, next>> /\ work[w].at \in {"stage", "record"}
  BY DEF DeleteRow, Record
<1>2. CASE DeleteRow(w)
  <2>1. ops' = ops
    BY <1>2 DEF DeleteRow
  <2>2. Fresh' = Fresh
    BY <1>1, <1>2, MovesOn DEF DeleteRow
  <2>3. CASE rows' = rows
    BY <1>1, <2>1, <2>2, <2>3, Stutters
  <2>4. CASE Deletable(w) /\ rows' = rows \ Targets(w)
    <3>1. PICK gone \in SUBSET rows : gone = rows \cap Targets(w)
      OBVIOUS
    <3>0. rows' = rows \ gone
      BY <2>4, <3>1
    <3>2. PICK files \in SUBSET Shown : files = {r.file : r \in gone}
      BY DEF Shown
    <3>3. \A f : f \in Shown' <=> f \in Shown \ files
      BY <3>0, <3>2 DEF Shown, FilesInv, RowsApart
    <3>4. CASE files = {}
      BY <1>1, <2>1, <2>2, <3>3, <3>4 DEF StoreStep, Store!fileVars, Shown
    <3>5. CASE files # {}
      <4>1. Store!DeleteRows(files)
        BY <1>1, <2>1, <2>2, <3>3, <3>5 DEF Store!DeleteRows, Shown
      <4>. QED BY <4>1 DEF StoreStep, Store!FileNext, Shown
    <3>. QED BY <3>4, <3>5
  <2>. QED BY <1>2, <2>3, <2>4 DEF DeleteRow
<1>3. CASE Record(w)
  <2>0. work[w].at = "record" /\ rows' = rows
    BY <1>3 DEF Record
  <2>1. CASE ops' = WithStatus(o, "committed") /\ (GoesTo(w, "empty") \/ GoesTo(w, "close"))
    <3>1. Fresh' = Fresh
      BY <2>0, <2>1, MovesOn
    <3>2. Undecided' = Undecided \ {o}
      BY <2>1, StatusDecides DEF Statuses
    <3>3. InTrash(o) \cap Shown = {}
      BY <2>0 DEF InTrash, Shown, FilesInv, TrashUndecided
    <3>4. o \in Names /\ o \in Undecided
      BY <1>0, <2>0, UndecidedIsStaged DEF Sound, FilesInv, OpenStaged, IsOpen
    <3>. QED BY <1>1, <2>0, <3>1, <3>2, <3>3, <3>4, Decides
  <2>2. CASE Stops(w) /\ ops' = ops
    BY <1>1, <2>0, <2>2, EndsWithNothing, Stutters DEF Stops
  <2>. QED BY <1>3, <2>1, <2>2 DEF Record
<1>. QED BY <1>2, <1>3

LEMMA RemovingSteps ==
  ASSUME TypeInv, FilesInv, MadeHeld, NEW w \in Workers,
         Empty(w) \/ Close(w) \/ Clean(w) \/ Cleaned(w)
  PROVE  StoreStep
<1>. USE DEF data, hist
<1>0. work[w] \in Tasks /\ Sound(work[w])
  BY DEF TypeInv
<1>. DEFINE o == work[w].op
<1>1. UNCHANGED <<rows, disk, next>> /\ work[w].at \in {"empty", "close", "clean", "cleaned"}
  BY DEF Empty, Close, Clean, Cleaned
<1>2. o \in Names /\ o \notin Undecided
  BY <1>0, <1>1, DecidedMayGo DEF Sound, Decided
<1>3. Fresh' = Fresh
  BY <1>1, MovesOn, EndsWithNothing DEF Empty, Close, Clean, Cleaned, Stops
<1>4. Undecided' = Undecided
  <2>1. \/ ops' = ops
        \/ \E s \in Statuses \ {"staged"} : ops' = WithStatus(o, s)
    BY DEF Empty, Close, Clean, Cleaned, Statuses
  <2>2. CASE ops' = ops
    BY <2>2 DEF Undecided
  <2>3. ASSUME NEW s \in Statuses \ {"staged"}, ops' = WithStatus(o, s)
        PROVE  Undecided' = Undecided
    BY <1>2, <2>3, StatusDecides
  <2>. QED BY <2>1, <2>2, <2>3
<1>5. CASE trash' = trash
  BY <1>1, <1>3, <1>4, <1>5 DEF StoreStep, Store!fileVars, Undecided
<1>6. ASSUME trash' # trash
      PROVE  \E kept \in SUBSET InTrash(o) : trash' = {t \in trash : t[1] = o => t[2] \in kept}
  <2>1. CASE trash' = {t \in trash : t[1] # o}
    <3>1. PICK none \in SUBSET InTrash(o) : none = {}
      OBVIOUS
    <3>2. trash' = {t \in trash : t[1] = o => t[2] \in none}
      BY <2>1, <3>1
    <3>. QED BY <3>2
  <2>2. CASE HalfEmptied(o)
    BY <2>2 DEF HalfEmptied
  <2>. QED BY <1>6, <2>1, <2>2
       DEF Empty, Close, Clean, Cleaned, Removed, Vanished, RemovalThrows
<1>. QED BY <1>1, <1>2, <1>3, <1>4, <1>5, <1>6, Discards

LEMMA PickingStep ==
  ASSUME TypeInv, FilesInv, MadeHeld, NEW w \in Workers, Pick(w)
  PROVE  StoreStep
<1>. USE DEF data, hist
<1>0. work[w] \in Tasks
  BY DEF TypeInv
<1>1. UNCHANGED <<rows, ops, disk, trash, next>> /\ work[w].at = "pick"
  BY DEF Pick
<1>2. ASSUME NEW at \in {"clean", "cleaned"}, NEW o,
             Goes(w, [work[w] EXCEPT !.at = at, !.op = o, !.todo = @ \ {o}])
      PROVE  Fresh' = Fresh
  <2>. DEFINE x == [work[w] EXCEPT !.at = at, !.op = o, !.todo = @ \ {o}]
  <2>1. x.made = work[w].made /\ x.at \in {"clean", "cleaned"}
    BY <1>0 DEF Tasks
  <2>2. Goes(w, x)
    BY <1>2
  <2>. HIDE DEF x
  <2>3. Written(x) = Written(work[w])
    BY <1>1, <2>1 DEF Written
  <2>. QED BY <2>2, <2>3, KeepsFresh
<1>. QED BY <1>1, <1>2, EndsWithNothing, Stutters DEF Pick

LEMMA AskingSteps ==
  ASSUME TypeInv, FilesInv, MadeHeld, [Next]_vars, NEW w \in Workers, Asked(w)
  PROVE  StoreStep
<1>. USE DEF data, hist
<1>1. UNCHANGED <<rows, ops, disk, trash, next>>
  BY DEF Asked, SaveArrives, ReportAsked, DeletionAsked, CleanupStarts
<1>2. CASE work' = work
  BY <1>1, <1>2, Stutters DEF Fresh
<1>3. CASE work' # work
  <2>1. PICK x : Goes(w, x) /\ work[w] = Idle
    BY <1>3 DEF Asked, SaveArrives, ReportAsked, DeletionAsked, CleanupStarts
  <2>2. work'[w] = x
    BY <2>1, GoesFields
  <2>3. work'[w] # work[w]
    BY <1>3, <2>1, <2>2 DEF Goes, TypeInv
  <2>4. x.made = {} /\ Idle.made = {}
    BY <2>2, <2>3, AskedFields DEF Idle
  <2>5. Written(x) = {} /\ Written(work[w]) = {}
    BY <2>1, <2>4 DEF Written
  <2>. QED BY <1>1, <2>1, <2>5, KeepsFresh, Stutters
<1>. QED BY <1>2, <1>3

LEMMA CrashingStep ==
  ASSUME TypeInv, FilesInv, NEW w \in Workers, Crash(w)
  PROVE  StoreStep
<1>. USE DEF data, hist
<1>1. PICK gone : gone = Written(work[w])
  OBVIOUS
<1>2. Written(Idle) = Written(work[w]) \ gone
  BY <1>1 DEF Written, Idle
<1>. QED BY <1>1, <1>2, GivesUp DEF Crash

LEMMA EveryStepStores == TypeInv /\ FilesInv /\ MadeHeld /\ [Next]_vars => StoreStep
<1>. SUFFICES ASSUME TypeInv, FilesInv, MadeHeld, [Next]_vars PROVE StoreStep
  OBVIOUS
<1>. USE DEF data, hist
<1>1. ASSUME NEW r \in Requests, Send(r) PROVE StoreStep
  BY <1>1, Stutters DEF Send, Fresh
<1>2. CASE LockExpires \/ UNCHANGED vars
  BY <1>2, Stutters DEF LockExpires, vars, Fresh
<1>3. ASSUME NEW w \in Workers, Step(w) PROVE StoreStep
  BY <1>3, SavingSteps, LockingSteps, ListingStep, MovingSteps, DeletingSteps, RemovingSteps,
     PickingStep DEF Step
<1>. QED BY <1>1, <1>2, <1>3, AskingSteps, CrashingStep DEF Next

LEMMA MadeHeldInit == Init => MadeHeld
BY DEF Init, MadeHeld, Idle

\* Every save, report, deletion, cleanup, crash and failure is a step of the
\* abstract store, or none.
THEOREM FilesImplementStore == Spec => ImplementsFileStore
<1>. USE DEF StoreStep
<1>. QED
  BY StoreInit, EveryStepStores, MadeHeldInit, MadeHeldStep, FilesInit, FilesStep, TypeInvariant, PTL
  DEF Spec, ImplementsFileStore, Store!FileSpec
=============================================================================
