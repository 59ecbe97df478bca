--------------------------- MODULE BackupRestore ---------------------------
(***************************************************************************)
(* Backups of the database and the private storage, their pruning, and the *)
(* restore of one of them, beside an application that does with its files  *)
(* what FileStore promises.                                                *)
(*                                                                         *)
(* CreateBackup runs as the scheduled command, from the page of the panel, *)
(* and inside a restore, for the safety archive.  It dumps the database,   *)
(* lists the storage and copies it file by file, all while the application *)
(* goes on; then the archive is moved into place, verified, and the older  *)
(* ones are pruned.                                                        *)
(*                                                                         *)
(* RestoreBackup moves the storage aside, installs the archived one,       *)
(* imports the database, and on a failure puts both back; when its process *)
(* dies nothing resumes it.  It starts in maintenance mode, which keeps    *)
(* new requests out but waits for none that is running, stops no command,  *)
(* and can be lifted at any time.  So nothing is concluded from it: it is  *)
(* no variable, and requests go on at every step, more than can happen.    *)
(***************************************************************************)
EXTENDS FileStore, Retention, Sequences

CONSTANTS
  Savers,      \* the processes that make backups
  Restorer,    \* the process of the restore command; its lock admits one
  MaxArchive,  \* bound on the archives ever named
  MaxFaults    \* bound on the steps that fail and the processes that die

ASSUME BackupAssumption ==
  /\ Restorer \notin Savers
  /\ MaxArchive \in Nat /\ MaxFaults \in Nat
  /\ 0 \in Days

VARIABLES
  archives,    \* what is in the backup directory
  saving,      \* process -> the backup it is making
  rest,        \* the restore
  broken,      \* the database is missing or half imported
  today,
  stamp,       \* the time in the names of archives
  faults,
  placed,      \* history: every managed archive ever moved into place
  made,        \* history: those whose backup succeeded
  dropped,     \* history: those the administrator has deleted
  secured      \* history: the safety archives restores relied on, with what was there

clockVars == <<today, stamp>>
past == <<placed, made, dropped, secured>>
backupVars == <<archives, saving, rest, broken, clockVars, past>>
allVars == <<fileVars, faults, backupVars>>

Makers == Savers \cup {Restorer}

EmptyDatabase == [rows |-> {}, staged |-> {}]

Database == [rows |-> rows, staged |-> staged]

\* The storage with its trash: <<f>> is f in its place, <<o, f>> in the trash.
Storage == {<<f>> : f \in disk} \cup trash

Content == [db |-> Database, files |-> Storage]

DatabaseBecomes(d) == rows' = d.rows /\ staged' = d.staged

StorageBecomes(s) ==
  /\ disk' = {e[1] : e \in {x \in s : Len(x) = 1}}
  /\ trash' = {x \in s : Len(x) = 2}

DatabaseStays == UNCHANGED <<rows, staged>>
StorageStays == UNCHANGED <<disk, trash>>
OthersStay == UNCHANGED <<fresh, used>>
FilesStay == UNCHANGED fileVars

Fault == faults < MaxFaults /\ faults' = faults + 1

NoBackup ==
  [at |-> "idle", kind |-> "backup", day |-> 0, n |-> 0, db |-> EmptyDatabase, todo |-> {},
   got |-> {}, doomed |-> {}, calm |-> FALSE]

NoRestore ==
  [at |-> "idle", from |-> [db |-> EmptyDatabase, files |-> {}],
   before |-> [db |-> EmptyDatabase, files |-> {}], safe |-> 0, aside |-> {},
   moved |-> FALSE, installed |-> FALSE, mutated |-> FALSE, stray |-> FALSE, out |-> "none"]

Makes(p, rec) == saving' = [saving EXCEPT ![p] = rec]
MakesOn(p, at) == saving' = [saving EXCEPT ![p].at = at]

\* An archive has the day and the time it was begun in its name; any number of
\* days may have passed since the one before.
Stamped ==
  /\ stamp <= MaxArchive
  /\ stamp' = stamp + 1
  /\ today' \in {d \in Days : d >= today}

NewBackup(kind) == [NoBackup EXCEPT !.at = "dump", !.kind = kind, !.day = today', !.n = stamp]

\* Nothing of a restore that is over is kept but its answer; its safety archive
\* stays in the directory.
Ended(out) == [NoRestore EXCEPT !.out = out]

-----------------------------------------------------------------------------
(* CreateBackup *)

BackupAsked(p) ==
  /\ p \in Savers
  /\ saving[p].at = "idle"
  /\ Stamped
  /\ Makes(p, NewBackup("backup"))
  /\ FilesStay
  /\ UNCHANGED <<faults, archives, rest, broken, past>>

\* createSnapshot: one consistent state of the database.
Dump(p) ==
  /\ saving[p].at = "dump"
  /\ ~ broken
  /\ Makes(p, [saving[p] EXCEPT !.at = "walk", !.db = Database, !.calm = Sound])
  /\ FilesStay
  /\ UNCHANGED <<faults, archives, rest, broken, clockVars, past>>

Listed == Storage

\* copyPrivateStorage lists all files before it copies any.
Walk(p) ==
  /\ saving[p].at = "walk"
  /\ Makes(p, [saving[p] EXCEPT !.at = "copy", !.todo = Listed])
  /\ FilesStay
  /\ UNCHANGED <<faults, archives, rest, broken, clockVars, past>>

Copy(p) ==
  /\ saving[p].at = "copy"
  /\ \E e \in saving[p].todo \cap Storage :
       Makes(p, [saving[p] EXCEPT !.todo = @ \ {e}, !.got = @ \cup {e}])
  /\ FilesStay
  /\ UNCHANGED <<faults, archives, rest, broken, clockVars, past>>

\* Broken: a restore goes on without its safety archive.
GivesUpAlone(p) == Makes(p, NoBackup) /\ UNCHANGED rest

\* A backup is given up, and a restore that needed it refused.
GivesUp(p) ==
  /\ Makes(p, NoBackup)
  /\ rest' = IF p = Restorer THEN Ended("refused") ELSE rest

\* A listed file has gone, or a step fails.
BackupFails(p) ==
  /\ \/ /\ saving[p].at = "copy" /\ ~ saving[p].todo \subseteq Storage
        /\ UNCHANGED faults
     \/ /\ saving[p].at = "dump" /\ broken
        /\ UNCHANGED faults
     \/ /\ saving[p].at \in {"dump", "walk", "copy"}
        /\ Fault
  /\ GivesUp(p)
  /\ FilesStay
  /\ UNCHANGED <<archives, broken, clockVars, past>>

\* Broken: the database is dumped after the files have been copied.
DumpedLate(p) == Database

Dumped(p) == saving[p].db

Archive(p, good) ==
  [kind |-> saving[p].kind, day |-> saving[p].day, n |-> saving[p].n, db |-> Dumped(p),
   files |-> saving[p].got, good |-> good, calm |-> saving[p].calm]

Name(a) == [day |-> a.day, n |-> a.n]

\* createArchive: written aside and moved into place, perhaps damaged.
Pack(p) ==
  /\ saving[p].at = "copy"
  /\ saving[p].todo = {}
  /\ \E good \in BOOLEAN :
       /\ IF good THEN UNCHANGED faults ELSE Fault
       /\ archives' = archives \cup {Archive(p, good)}
       /\ placed' = IF saving[p].kind = "backup" THEN placed \cup {Name(saving[p])} ELSE placed
  /\ Makes(p, [saving[p] EXCEPT !.at = "verify", !.todo = {}, !.got = {}, !.db = EmptyDatabase,
                                !.calm = FALSE])
  /\ FilesStay
  /\ UNCHANGED <<rest, broken, clockVars, made, dropped, secured>>

Without(n) == archives' = {a \in archives : a.n # n}

\* Broken: the archive is there, whatever is in it.
PresentAtAll(n) == \E a \in archives : a.n = n

Present(n) == \E a \in archives : a.n = n /\ a.good

\* VerifyBackup reads the archive again; a damaged one is deleted, if it can
\* be, and one that somebody has deleted meanwhile is a failure too.
Verify(p) ==
  /\ saving[p].at = "verify"
  /\ \/ /\ Present(saving[p].n)
        /\ MakesOn(p, IF saving[p].kind = "backup" THEN "prune" ELSE "tidy")
        /\ UNCHANGED <<faults, archives, rest>>
     \/ /\ ~ Present(saving[p].n)
        /\ \/ Without(saving[p].n) /\ UNCHANGED faults
           \/ Fault /\ UNCHANGED archives
        /\ GivesUp(p)
  /\ FilesStay
  /\ UNCHANGED <<broken, clockVars, past>>

\* Broken: safety archives are pruned with the others.
ManagedAll == archives

\* The archives whose names PruneBackups matches.
Managed == {a \in archives : a.kind = "backup"}

\* The directory is read once, then the rest is deleted.
Prune(p) ==
  /\ saving[p].at = "prune"
  /\ Makes(p, [saving[p] EXCEPT !.at = "delete", !.doomed = {a.n : a \in Managed \ Kept(Managed)}])
  /\ FilesStay
  /\ UNCHANGED <<faults, archives, rest, broken, clockVars, past>>

\* A deletion that fails is not counted, and that is all.
DeleteOld(p) ==
  /\ saving[p].at = "delete"
  /\ \E n \in saving[p].doomed :
       /\ Makes(p, [saving[p] EXCEPT !.doomed = @ \ {n}])
       /\ \/ Without(n) /\ UNCHANGED faults
          \/ Fault /\ UNCHANGED archives
  /\ FilesStay
  /\ UNCHANGED <<rest, broken, clockVars, past>>

Tidying(p) ==
  \/ saving[p].at = "tidy"
  \/ saving[p].at = "delete" /\ saving[p].doomed = {}

\* The safety archive, and what was there when the restore was asked for.
Secured(p) == [n |-> saving[p].n, content |-> rest.before]

\* The working directory is removed and the backup reported; a restore goes
\* on with its safety archive.
BackupDone(p) ==
  /\ Tidying(p)
  /\ Makes(p, NoBackup)
  /\ IF p = Restorer
     THEN /\ rest' = [rest EXCEPT !.at = "moveout", !.safe = saving[p].n, !.mutated = TRUE]
          /\ secured' = IF rest.stray THEN secured ELSE secured \cup {Secured(p)}
          /\ UNCHANGED made
     ELSE made' = made \cup {Name(saving[p])} /\ UNCHANGED <<rest, secured>>
  /\ FilesStay
  /\ UNCHANGED <<faults, archives, broken, clockVars, placed, dropped>>

\* It cannot be removed: the archive goes too, whatever was pruned for it.
TidyFails(p) ==
  /\ Tidying(p)
  /\ Fault
  /\ Without(saving[p].n)
  /\ GivesUp(p)
  /\ FilesStay
  /\ UNCHANGED <<broken, clockVars, past>>

SaverDies(p) ==
  /\ p \in Savers
  /\ saving[p].at # "idle"
  /\ Fault
  /\ Makes(p, NoBackup)
  /\ FilesStay
  /\ UNCHANGED <<archives, rest, broken, clockVars, past>>

\* DeleteBackup, from the page.
DeleteBackup(a) ==
  /\ a \in archives
  /\ Without(a.n)
  /\ dropped' = dropped \cup {a.n}
  /\ FilesStay
  /\ UNCHANGED <<faults, saving, rest, broken, clockVars, placed, made, secured>>

-----------------------------------------------------------------------------
(* RestoreBackup *)

\* Asked for in maintenance mode (see above); extractVerified refuses a damaged
\* archive before anything is touched.
RestoreAsked(a) ==
  /\ rest.at = "idle"
  /\ a \in archives
  /\ a.good
  /\ Stamped
  /\ rest' = [NoRestore EXCEPT !.at = "safety", !.from = [db |-> a.db, files |-> a.files],
                               !.before = Content]
  /\ Makes(Restorer, NewBackup("safety"))
  /\ FilesStay
  /\ UNCHANGED <<faults, archives, broken, past>>

\* A step that changes storage or database under the other processes.
NotCalm == [p \in Makers |-> [saving[p] EXCEPT !.calm = FALSE]]

\* Broken: the mutation counts from the installation of the archived storage.
FailedBeforeInstalled ==
  IF rest.installed THEN [rest EXCEPT !.at = "reimport"] ELSE Ended("refused")

\* A failure is compensated from the moment the safety archive is there.
Failed == [rest EXCEPT !.at = "reimport"]

Compensates(at) ==
  /\ rest.at = at
  /\ rest' = Failed
  /\ Fault
  /\ FilesStay
  /\ UNCHANGED <<archives, saving, broken, clockVars, past>>

MoveOut ==
  /\ rest.at = "moveout"
  /\ rest' = [rest EXCEPT !.at = "movein", !.aside = Storage, !.moved = TRUE]
  /\ StorageBecomes({})
  /\ saving' = NotCalm
  /\ DatabaseStays /\ OthersStay
  /\ UNCHANGED <<faults, archives, broken, clockVars, past>>

MoveIn ==
  /\ rest.at = "movein"
  /\ rest' = [rest EXCEPT !.at = "import", !.installed = TRUE]
  /\ StorageBecomes(rest.from.files)
  /\ saving' = NotCalm
  /\ DatabaseStays /\ OthersStay
  /\ UNCHANGED <<faults, archives, broken, clockVars, past>>

\* A failed import leaves the database as it was, or broken, or imported all
\* the same (the credentials of the client could not be removed).
ImportFails(d) ==
  \/ DatabaseStays /\ broken' \in {broken, TRUE}
  \/ DatabaseBecomes(d) /\ broken' = FALSE

Import ==
  /\ rest.at = "import"
  /\ \/ /\ rest' = [rest EXCEPT !.at = "check"]
        /\ DatabaseBecomes(rest.from.db)
        /\ broken' = FALSE
        /\ UNCHANGED faults
     \/ /\ rest' = Failed
        /\ Fault
        /\ ImportFails(rest.from.db)
  /\ saving' = NotCalm
  /\ StorageStays /\ OthersStay
  /\ UNCHANGED <<archives, clockVars, past>>

\* The working directory cannot be removed: the answer says that, no more.
Unclean == Fault /\ rest' = Ended("unclean")

\* DatabaseRestoreVerifier: an archive of another release has migrations to
\* run and is refused.
CheckRestored ==
  /\ rest.at = "check"
  /\ \/ rest' \in {Ended("restored"), Failed} /\ UNCHANGED faults
     \/ Unclean
  /\ FilesStay
  /\ UNCHANGED <<archives, saving, broken, clockVars, past>>

\* The safety archive is verified and imported, or all is left as it is.
Reimport ==
  /\ rest.at = "reimport"
  /\ \/ \E a \in archives :
          /\ a.n = rest.safe
          /\ a.good
          /\ \/ /\ rest' = [rest EXCEPT !.at = "clear"]
                /\ DatabaseBecomes(a.db)
                /\ broken' = FALSE
                /\ UNCHANGED faults
             \/ /\ rest' = Ended("lost")
                /\ ImportFails(a.db)
                /\ IF broken THEN UNCHANGED faults ELSE Fault
     \/ /\ ~ Present(rest.safe)
        /\ rest' = Ended("lost")
        /\ DatabaseStays
        /\ UNCHANGED <<broken, faults>>
  /\ saving' = NotCalm
  /\ StorageStays /\ OthersStay
  /\ UNCHANGED <<archives, clockVars, past>>

\* reinstatePrivateStorage: first what was installed is removed, perhaps in
\* part.
Clear ==
  /\ rest.at = "clear"
  /\ \/ /\ rest' = [rest EXCEPT !.at = "moveback"]
        /\ StorageBecomes(IF rest.installed THEN {} ELSE Storage)
        /\ UNCHANGED faults
     \/ /\ rest.installed
        /\ Fault
        /\ rest' = Ended("lost")
        /\ \E kept \in SUBSET Storage : StorageBecomes(kept)
  /\ saving' = NotCalm
  /\ DatabaseStays /\ OthersStay
  /\ UNCHANGED <<archives, broken, clockVars, past>>

Reinstated == IF rest.moved THEN rest.aside ELSE Storage

MoveBack ==
  /\ rest.at = "moveback"
  /\ \/ /\ rest' = [rest EXCEPT !.at = "recheck"]
        /\ StorageBecomes(Reinstated)
        /\ UNCHANGED faults
     \/ /\ rest.moved
        /\ Fault
        /\ rest' = Ended("lost")
        /\ StorageStays
  /\ saving' = NotCalm
  /\ DatabaseStays /\ OthersStay
  /\ UNCHANGED <<archives, broken, clockVars, past>>

\* What is back is checked as strictly as what was restored.
CheckReinstated ==
  /\ rest.at = "recheck"
  /\ \/ rest' \in {Ended("compensated"), Ended("lost")} /\ UNCHANGED faults
     \/ Unclean
  /\ FilesStay
  /\ UNCHANGED <<archives, saving, broken, clockVars, past>>

RestorerDies ==
  /\ rest.at # "idle"
  /\ Fault
  /\ rest' = Ended("died")
  /\ Makes(Restorer, NoBackup)
  /\ FilesStay
  /\ UNCHANGED <<archives, broken, clockVars, past>>

-----------------------------------------------------------------------------
(* The application and its operator *)

\* Requests and commands go on beside all this.  A deletion moves files under a
\* backup.  A change of the content in a restore goes astray; one of them stands
\* for all (bound).
Served ==
  /\ ~ broken
  /\ rest.at = "idle" \/ ~ rest.stray
  /\ FileNext
  /\ saving' = IF trash' = trash THEN saving ELSE NotCalm
  /\ rest' = IF rest.at = "idle" \/ Content' = Content THEN rest
             ELSE [rest EXCEPT !.stray = TRUE, !.before = NoRestore.before]
  /\ UNCHANGED <<faults, archives, broken, clockVars, past>>

BackupInit ==
  /\ FileInit
  /\ faults = 0
  /\ archives = {}
  /\ saving = [p \in Makers |-> NoBackup]
  /\ rest = NoRestore
  /\ broken = FALSE
  /\ today = 0 /\ stamp = 1
  /\ placed = {} /\ made = {} /\ dropped = {} /\ secured = {}

Making(p) ==
  \/ BackupAsked(p) \/ Dump(p) \/ Walk(p) \/ Copy(p) \/ BackupFails(p) \/ Pack(p)
  \/ Verify(p) \/ Prune(p) \/ DeleteOld(p) \/ BackupDone(p) \/ TidyFails(p) \/ SaverDies(p)

Restoring ==
  \/ \E a \in archives : RestoreAsked(a)
  \/ MoveOut \/ MoveIn \/ Import \/ CheckRestored
  \/ \E at \in {"moveout", "movein"} : Compensates(at)
  \/ Reimport \/ Clear \/ MoveBack \/ CheckReinstated
  \/ RestorerDies

BackupNext ==
  \/ Served
  \/ \E p \in Makers : Making(p)
  \/ \E a \in archives : DeleteBackup(a)
  \/ Restoring

BackupSpec == BackupInit /\ [][BackupNext]_allVars

-----------------------------------------------------------------------------
(* Properties *)

\* The type invariant.
BTypeOK ==
  /\ \A a \in archives : a.kind \in {"backup", "safety"} /\ a.day \in Days /\ a.n \in 1 .. MaxArchive
  /\ \A a, b \in archives : a.n = b.n => a = b
  /\ \A p \in Makers :
       /\ saving[p].at \in {"idle", "dump", "walk", "copy", "verify", "prune", "delete", "tidy"}
       /\ saving[p].doomed \subseteq 1 .. MaxArchive
  /\ rest.at \in {"idle", "safety", "moveout", "movein", "import", "check", "reimport", "clear",
                  "moveback", "recheck"}
  /\ rest.at = "safety" <=> saving[Restorer].at # "idle"
  /\ rest.out \in {"none", "refused", "restored", "compensated", "lost", "unclean", "died"}
  /\ broken \in BOOLEAN
  /\ today \in Days /\ stamp \in 1 .. MaxArchive + 1
  /\ made \subseteq placed

\* An archive has the file of every row it has, in its place or in the trash
\* of a deletion that may still be undone: files are written before their
\* rows and the database is dumped before the storage is read, so that no
\* save, report, compensation or crash beside the backup tears them apart.
\* Deletions and restores do, so an archive with one of them meanwhile, or of
\* data that were torn already, is left out (calm).
ArchivesAreComplete ==
  \A a \in archives :
    a.calm => \A r \in a.db.rows :
                <<r>> \in a.files \/ \E o \in a.db.staged : <<o, r>> \in a.files

\* A restore that says it has restored the archive has installed its database
\* with its storage, and one that says it was refused or that the safety
\* backup was reinstated has left both as it found them, whichever step
\* failed; provided no request was still changing them.
RestoresAreWhole ==
  [][rest.at # "idle" /\ rest'.at = "idle" /\ ~ rest.stray =>
       /\ rest'.out = "restored" => Content' = rest.from /\ ~ broken'
       /\ rest'.out \in {"refused", "compensated"} => Content' = rest.before]_allVars

\* If no request changed anything between the asking for a restore and the
\* completion of its safety archive (one without stray), that archive holds what
\* was there at the asking, in every later state until the administrator deletes
\* it: whatever becomes of that restore, and whatever later backups, prunings
\* and restores do.  Before it is complete, the restore has touched nothing.
PriorDataAreKept ==
  /\ \A s \in secured : s.n \notin dropped =>
       \E a \in archives : a.n = s.n /\ a.good /\ [db |-> a.db, files |-> a.files] = s.content
  /\ rest.at # "idle" /\ ~ rest.mutated /\ ~ rest.stray => Content = rest.before

\* Pruning after every backup loses nothing that one pruning of all archives
\* would keep, although several processes prune at once, on lists that are
\* old, next to archives nobody has verified yet.
GenerationsAreKept ==
  \A m \in made \cap Kept(placed) :
    m.n \notin dropped => \E a \in archives : a.n = m.n /\ a.good
=============================================================================
