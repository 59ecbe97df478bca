# AssestMe: formal models

AssestMe is a Laravel/Livewire application with one administrator who works in
any number of browser tabs. PHP workers handle the requests of these tabs at the
same time, a scheduler runs backups, integrity checks and the Google Drive
synchronisation beside them, and responses get lost on the way. The models here
are about what survives that: which writes are applied, in which order, on top
of what, and what the tabs believe afterwards.

## 1. Inventory

| component | state | operations | hard behaviour | what makes it correct |
|---|---|---|---|---|
| Assessment save protocol (`app/Actions/Assessments`) | assessment row (`status`, `completed_at`, `lock_version`), findings with `sort_order`, `workspace_save_requests`, the cache lock `assessment:{id}:save` | save details, save finding, reorder, create, copy template, duplicate, delete, complete, reopen, archive | concurrent workers, a lock that expires after 10 s under its owner, crashes, repeated and reused request UUIDs, stale versions | one operation at a time; applied at most once; truthful replays; contiguous order; closed assessments frozen; every call ends |
| Workspace page (`WorkspaceAssessment.php`) | the Livewire component held by each tab: expected version, tab shown, selection, two forms with status and pending UUID | edit, select, close, switch, save, save and next, discard, create, duplicate, delete, reorder, complete, reopen, reload | several tabs, a gate that saves before acting, lost responses, versions adopted after own operations | no save over something not shown; no edit taken off the screen unsaved; refusals explained; every request answered |
| General-data edit form (`EditAssessment`, `AssessmentForm`) | a form filled at some earlier time | save | writes outside the protocol | closed assessments stay closed (they do not, see `closed_readonly`) |
| Browser drafts (`resources/js/assestme-workspace-drafts.js`, `assestme-workspace.js`) | IndexedDB drafts with payload, base version, UUID; timers, queues, attempts and flags of the script; the status label | type, attach, store, attempt, save, confirm, recover, drop, discard, go offline, warn | promises interleaved with input, late and repeated confirmations, several tabs, structural changes on the server, a store that breaks | a confirmed draft disappears, an unconfirmed one does not; every save ends; what no draft holds is warned about |
| Finding lifecycle | finding status, recommended and implemented solution | transition, set recommended, set implemented | two pieces of state that must agree | a resolved finding has its implemented solution |
| Evidence files, reports, deletion, private storage | evidence and report rows, files, temporary uploads, trash, `deletion_operations` | prepare, save, compensate, generate, delete, restore, clean up | files and rows in two stores without a common transaction, crashes, checks before the lock, a rendering longer than the lock | no row without its file; every orphan explained; statuses that claim no more than was done |
| Template learning and catalogue | templates, fingerprints on findings | link, save as template, update template, import | one template, many assessments | no update over an unknown revision |
| Backup, restore, pruning (`app/Actions/Backups`) | archives, safety archive, working directories | create, verify, prune, delete, restore, compensate | snapshot and copy beside running writers, several processes pruning one directory, failure or death at each step of a restore | an archive has the files of its rows; a failed restore puts both stores back; the safety archive has all there was; pruning keeps the generations |
| Google Drive | content hash, remote folder | synchronise | partial uploads, a one-hour lock | equal hash means equal remote |
| Fatture in Cloud | tokens, remote quotes | refresh, create quote | ambiguous answers, rotating refresh tokens, two tabs | one quote per marker; the stored token is live |
| Risk profiles, installation, catalogue tables, panel, deployment | as named | as named | mostly validation and I/O | see `PROJECT.json` |

Interactions: the tabs talk to the workers by Livewire requests that carry the
whole component; workers share the database, the cache (lock) and private
storage; scheduled commands share the same three; the two integrations are HTTP
clients of the workers. The hazards of each part, at their lines, are in
`PROJECT.json` under `hazards`.

## 2. Modules

* `AssessmentDocument` - the abstract specification: a document changed by one
  counted operation at a time (`Edit`, `Add`, `Copy`, `Remove`, `Arrange`,
  `Move`), open to them only as a draft. `Amend` admits the edit form, which
  counts nothing.
* `AssessmentStore` - the protocol that implements it. A call is a record
  `call[w]` of the PHP worker `w` and goes through `Receive` (the checks before
  the lock), `Begin` (the lock is taken, the transaction reads the rows and
  works out its writes, `plan`), `ApplyChange`/`RefuseChange` (the conditional
  `UPDATE` of `IncrementAssessmentVersion` and the commit or rollback) or
  `ApplyLifecycle`/`RefuseLifecycle` (row locked by `lockForUpdate`, no version),
  and `Finish` (the lock is released if still owned). `LockTimeout` is
  `block(5)` giving up, `LockExpires` the 10 seconds, `Crash` the death of the
  worker, `RefuseInvalid` any failed validation of a payload, and `SaveEditForm`
  the general-data form. The status of a transaction's early checks is read
  where the code reads it, so another worker can be between any two phases.
  Every call of the application is there, `archive` included, although only
  tests call `ArchiveAssessment`. A report generated with
  `freeze_after_generation` closes a draft too; on these rows it does what
  `complete` does (status, `completed_at`, version, under `lockForUpdate`). What
  the report then shows belongs to the file storage (see the plan).
* `AssessmentWorkspace` - the page in several tabs on top of the store
  (`EXTENDS AssessmentStore`; its steps are store steps plus what the page
  does). `tab[t]` is the component as the browser holds it, `handler[w]` the
  copy a worker runs on, which comes back with the response (`Reply`) or is lost
  (`GiveUp`, `Die`). `Send` is the arrival of a request up to its first call,
  `AfterSave` the end of `saveFinding`/`saveAssessmentDetails`, `ActLocally`
  and `ActOnServer` the operation behind the gate
  `persistCurrentWorkspaceStateBeforeAction`, `AfterCall` its end. Form contents
  are stamps, one per edit; a stamp also stands for the request UUID the
  browser draft keeps for exactly that payload.
* `AssessmentStoreProofs`, `AssessmentWorkspaceProofs` - theorems on the store and
  on the page, checked by TLAPS.
* `DraftRecords` - the records of the browser's draft store as functions: how a
  draft is made, rewritten under a new UUID once the old one was attempted,
  copied into another tab (`Adopted`), found (`ActiveDraft`, `Matching`) and
  deleted or marked only if it is still what was read (`UnchangedSince`,
  `SourceMarked`).
* `WorkspaceStatus` - the label of the page and, for each finding, whether it is
  dirty, durable and waiting with files; `Warns` is the `beforeunload` question.
* `WorkspaceDrafts` - the script of `assestme-workspace-drafts.js` in one or more
  pages, with the server as far as it meets it. `db` is IndexedDB, shared by the
  pages of the browser; `mem[p]` the variables of the script (timer, queue of
  jobs per finding, attempts, the save under way, confirmations being worked
  off, the draft on offer), `ui[p]` the status, `wire[p]` the component as the
  browser holds it and `flight[p]` the one Livewire request a component has at a
  time. What the user does (`User`) runs to the first await; each further stretch
  between two awaits is an action: `TimerFires`, `JobReads` and `JobWrites` of
  the queue `queueDraftMutation` chains, `SaveLeaves`, the three stages of
  `handleServerConfirmation` (`ConfirmReads`, `ConfirmMarks`, `ConfirmEnds`),
  `RecoveryReads` and `RecoveryEnds`, `DropEnds`. `Serve` is the request on the
  server up to the response (gate, `saveFinding`, discard, selection, repeater
  actions), `Arrives` and `Lost` its fate. `Breakdown` is IndexedDB failing.
* `WorkspaceDraftsProofs` - theorems on the drafts, checked by TLAPS;
  `WorkspaceEditsProofs` and `WorkspaceEvidenceProofs` - those on what becomes of
  the user's edits and of the files on the form.
* `PrivateFiles` - evidence, reports and deletions of one assessment. A worker's
  request is `work[w]`, its steps are the single writes and moves of
  `PrepareEvidenceFiles`, `SaveFindingDetails`, `GenerateAssessmentPdf` and
  `GenerateAssessmentWorkbook`, `DeleteEntityAccordingToPolicy` and
  `CleanupDeletionOperations`, each a point at which the worker can die
  (`Crash`), lose its lock (`LockExpires`) or find the disk or database failing.
  What a failing disk does is modelled by what the calls do: a write can leave part
  of a file (`PartWritten`), the removal of a directory can pass over files and
  answer true (`Removed`) or throw half-way (`RemovalThrows`).
* `PrivateFilesProofs`, `PrivateFilesLockProofs` - theorems on the files, checked
  by TLAPS: types, the rows' files, the finished deletions and the refinement of
  `FileStore`; the frozen report, the orphans and the quota.
* `FileStore` - what `PrivateFiles` promises about files, as an abstract
  specification: written before their row (`Write`, `Store`, `GiveUp`), moved to
  the trash of a recorded deletion and back (`Open`, `ToTrash`, `FromTrash`),
  their rows deleted (`DeleteRows`), the deletion decided when nothing in its
  trash has a row (`Decide`), and only then discarded (`Discard`).
  `PrivateFiles!ImplementsFileStore` is the refinement; `fresh` maps to what the
  workers have written and neither stored nor dropped.
* `Retention` - which archives one pruning keeps, as a set: the loops of
  `PruneBackups` take the newest archive of a group unless the limit of groups is
  reached. `MCBackups` compares the definition with the loops
  (`KeptIsTheLoop`), on four days whose weeks and months overlap.
* `BackupRestore` - `CreateBackup`, `PruneBackups`, `DeleteBackup` and
  `RestoreBackup` beside `FileStore`. `saving[p]` is a process inside
  `CreateBackup` (dump, listing, copying file by file, packing, verification,
  pruning, removal of its directory), `rest` the one restore the file lock
  admits, which makes its safety archive through the same steps, then moves the
  storage out and in, imports, checks, and on a failure imports the safety
  archive and reinstates the storage (`Reimport`, `Clear`, `MoveBack`,
  `CheckReinstated`). `SaverDies` and `RestorerDies` are processes killed at any
  of these points. Requests go on throughout (`Served`): maintenance mode, without
  which a restore does not begin (`RestoreBackup.php:32`), waits for none that is
  running and may be lifted under the restore, so the model has no variable for it
  and allows every request at every step, more than the program does.
* `BackupRestoreProofs` - theorems on archives and restores, checked by TLAPS.
* `MCStore`, `MCWorkspace`, `MCDrafts`, `MCFiles`, `MCBackups` - instances for TLC.

Operators whose comment begins with "Broken:" are deliberate bugs, used to see
that a property notices them; no specification uses them.

### Abstractions

Contents are values, not fields. A payload hash is the payload. Validation
rules, completion rules and failures of the database are the nondeterministic
`RefuseInvalid` and `RefuseLifecycle`. A commit is one step: the application's
writes of one transaction are seen together or not at all. The journal is
never purged (the code deletes rows after a day). A deleted assessment is not
modelled here. Evidence inside a finding save is the subject of `PrivateFiles`.

A form in `WorkspaceDrafts` is the finding it belongs to, the number of the edit
that made it, and the identifiers of its solutions (0 for one never saved),
which is what `alignSolutionPayload` looks at; files wait on the form and are in
no draft. Identifiers, UUIDs and timestamps come from one clock, so `updatedAt`
orders drafts as the code assumes. IndexedDB transactions are atomic; the
draft of the assessment details, which
goes through the same code without evidence, is left out. A save on the server
is one step: `AssessmentStore` and `AssessmentWorkspace` have its interleavings.

In `BackupRestore` an archive is the two contents it was made from and whether it
is damaged; the database is the set of files its rows name and the undecided
deletions. Names of archives sort as the moments they were begun.

In `PrivateFiles` one finding stands for the assessment's findings, the size of a
file is one, and every upload carries at least one file. The rows of an
assessment, its request journal included, go with it (foreign keys with
`cascadeOnDelete`). A version belongs to a request for good, as the expected
version does to the snapshot a tab sends.

## 3. Runs

| run | checks | shows |
|---|---|---|
| `store` | `TypeOK`, `SortContiguous`, `AppliedOnce`, `JournalTruthful`, `PlansAreCurrent`, `FindingsFrozenWhileClosed`, `ImplementsDocument` | the protocol is safe for arbitrary callers and implements the document |
| `closed_readonly` (violation) | `ClosedIsReadOnly` | the edit form changes, and can reopen, a closed assessment, against `docs/explanation/architecture.md:45` |
| `workspace` | `WTypeOK`, `CurrentFormsAreTrue`, `OverwritesOnlyTheShown`, `EditsAreKeptOrShown` | what the version check is worth to a user: a save replaces only what its form had shown, and edits do not vanish - with the exception the next run shows |
| `workspace_workers` | `UsesStore`, `TabsAreAnswered`, `CallsEnd` | two workers at once; whatever the page asks for, the store lets arrive (`Serves`: its steps without the bound on versions), so all of the store's theorems hold of it; every call ends, also when the other worker takes the lock again and again |
| `lost_update` (violation) | `NoLostUpdate` | `refreshExpectedVersion` adopts other tabs' versions and turns off the conflict of `docs/reference/ui-persistence-import-export.md:71` |
| `silent_refusal` (violation) | `RefusalsAreExplained` | with its finding deleted elsewhere, the gate refuses without a message |
| `drafts_page` | `DTypeOK`, `SettledEditsAreSafe`, `EvidenceIsGuarded`, `DraftsRemovedOnlyWhenSafe`, `DirtyFormIsSavedFirst` | whatever one page does, a form at rest is on the server, in a draft, given up, or guarded by the browser's question |
| `drafts_live` | `SavesEnd`, `EditsAreStored`, `ConfirmedDraftsLeave` | no await, failure or lost response leaves the page unable to save, an edit stuck in a queue or a confirmed draft behind |
| `drafts_recovery` | `UuidNamesOneDraft`, `ConfirmedDraftsAreOvertaken`, `StaleIsFlagged`, `DraftsRemovedOnlyWhenSafe` | two tabs on one finding, recovery of the other's draft, another user |
| `files` | `FTypeOK`, `RowsKeepTheirFiles`, `FinishedDeletionsAreDone`, `OrphansAreExplained`, `EvidenceWithinLimits`, `UploadsOutliveFailures`, `FrozenReportIsCurrent`, `ImplementsFileStore` | rows and files stay together through crashes, lost locks and failures at any step; what a backup relies on |
| `trash_left` (violation) | `CleanedTrashIsEmpty` | an operation is recorded as cleaned with files left in its trash, against `docs/reference/reports-evidence-and-files.md:117` |
| `backups` | `BTypeOK`, `ArchivesAreComplete`, `PriorDataAreKept`, `GenerationsAreKept`, `RestoresAreWhole` | backups, prunings, deletions of archives and a restore, interleaved with each other and with the application, one of them failing or dying; what a restore leaves is checked against the backups and restores after it |

Notes on the properties. `AppliedOnce` uses the history `applied`, the key of
every operation that raised the version. `CurrentFormsAreTrue` and
`OverwritesOnlyTheShown` exclude forms marked `adopted`, the history bit that is
set when a tab takes over a version more than one above its own, and so skips a
foreign operation (`Reaching`): they say that this is the only way to a lost
update. Two paths of the page set it: `refreshExpectedVersion` after creating,
duplicating and deleting, and the replayed answer to a repeated request (known
behaviour 13). `EditsAreKeptOrShown` looks at the
moment a response reaches its tab; it excludes the user's discard, a page
loaded anew, and an assessment closed elsewhere, after which the page drops
what it cannot save.

`DraftsRemovedOnlyWhenSafe` counts a draft as overtaken when the server has
applied a save of its finding under a UUID younger than the edit: the response
to that save has replaced the form. It leaves out a save that left with another form
than it was recorded with (`Missent`, known behaviour 17). `DirtyFormIsSavedFirst` passes where the
repeater actions are left out and fails with them (known behaviour 8), which says
that they are the hole in the gate. `OrphansAreExplained` and `FrozenReportIsCurrent` exclude the
behaviours in which some worker has outlived its lock (`late`); the others hold
with it. A report of such a worker can freeze contents it does not show (hazard at
`GenerateAssessmentPdf.php:33`): the model has that, and no property rules it out.

`FinishedDeletionsAreDone` takes `deleteDirectory` at its word: what it could not
remove without saying so is in `left`. `CleanedTrashIsEmpty` is the documented rule
without that allowance, and is violated (known behaviour 18).
`PriorDataAreKept` uses the history `secured`, the number of every safety archive a
restore has relied on with what was there when that restore was asked, so it goes on
speaking of that archive after later restores. Restores a request interfered with
before the safety archive was complete are not in it (`stray`, known behaviour 11).

### Known behaviour the properties step around

These are in the model as they are in the code; each property that would trip
over one names it in its comment or is run without the event.

1. A structural click and a restoration leave a pending debounce timer alone
   (`drafts.js:736`, `1125`). When it fires within half a second it writes the
   payload it captured over the newer draft. `SettledEditsAreSafe` is checked
   without these two events.
2. The response to a save re-keys the form and so replaces what was typed while
   the save was under way; the newer text is in the draft and on offer.
3. Two attempts to save a finding can both still be confirmed. A save repeated before
   the confirmation of the first one is worked off loses its attempt, and its own
   confirmation clears the warning about files. When the second save keeps its
   attempt, the first confirmation resets the count of chosen files
   (`drafts.js:1430`) the second attempt was marked with, and a file chosen after
   the second save is taken for saved with it. The same happens without a second
   save on its way: the second one's answer is lost, the first confirmation resets
   the count, and the attempt that is left is confirmed when a selection saves the
   form under the pending UUID. These page loads and findings are
   `history.stray`, excluded from `EvidenceIsGuarded`.
4. A save followed by a selection in the same request can rewrite the draft of
   one finding with the form of the next. `DraftsRemovedOnlyWhenSafe` leaves
   out drafts whose payload is another finding's (`d.pay.of = d.e`).
5. Text typed while a discard is under way is given up with it, and a tab can
   drop the draft another tab is still writing.
6. A save made by the gate runs under a UUID of the server's, so its draft is
   not confirmed and shows up as stale later.
7. A deletion interrupted after staging stays `staged` for good: its files stay
   in the trash (`RowsKeepTheirFiles`), a later deletion of the assessment is
   refused because they are missing, and no command repairs it.
8. Adding, removing or moving a solution changes the form on the server and
   leaves its status at "saved" (`WorkspaceAssessment.php:172`); a selection, tab
   change or close that follows drops the change, although
   `docs/reference/ui-persistence-import-export.md:73` promises that a dirty form
   is persisted first. Only the browser's own draft still has it. Two events show
   it in `WorkspaceDrafts` (`structure`, then `select`).
9. `BackupCommand.php:17` calls a backup consistent. A deletion that moves files
   between the dump and the copy leaves rows in the archive whose files it has in
   another place or not at all; `ArchivesAreComplete` speaks of archives without a
   deletion or restore under way (`calm`). A deletion during the copying itself is
   noticed and fails the backup.
10. Pruning runs before the working directory is removed. When that removal fails,
    the new archive goes too, and the earlier one of its day has already been
    pruned. In the same way an archive of another process that is not verified yet
    counts as the newest of its day. `GenerationsAreKept` counts every archive ever
    moved into place.
11. A request running when maintenance mode begins is not waited for; what it
    changes during a restore is neither in the safety archive nor in the restored
    data, or survives in only one of the two stores (`stray`).
12. After a restorer has died, the storage it had moved aside is only in its
    working directory and the safety archive; nothing resumes the compensation. A
    broken database cannot be dumped, so no restore works over it either: the
    archive has to be imported by hand.
13. A second way to a lost update. A reorder in a tab with a dirty finding form saves
    the form first. If that request is slow and the user gives up on it, saves again
    (refused: the lock is taken), discards the edit and sends the same reorder once
    more, the first request may meanwhile have committed its save and its reorder;
    the second is answered from the journal without a look at the expected version
    (`ReorderFindings.php:64`), and the tab takes over the version of that answer
    (`WorkspaceAssessment.php:599`), two above its own, under a form filled before the
    save. The attempt to prove `CurrentFormsAreTrue` brought this to light, and TLC
    confirms it (one tab, two workers, one fault, the messages `save_finding`,
    `discard` and `reorder`, with the bit of `Reaching` taken out of `AfterCall`). The
    properties leave such forms out as they do those of `refreshExpectedVersion`.
14. After a discard the drafts are deleted in the queue, and only then the warning is
    cleared (`drafts.js:1507`): a file attached between the response and that moment
    waits on the new form without a warning. `EvidenceIsGuarded` leaves out findings
    whose form was given up.
15. A save takes the form as it is when the request leaves, and its confirmation marks
    the source of a restored draft by the payload the attempt was marked with
    (`drafts.js:1330`). Text typed in between is in the saved form although the source
    never had it; that the source is overtaken is still true, and this is what
    `ConfirmedDraftsAreOvertaken` says. A draft that carries such a mark and is then
    continued by its own confirmation keeps it (`...stored`, `drafts.js:1338`): its
    newer text is no longer offered to other pages, until its tab writes it again.
16. A draft whose base version the page has reached is not flagged as stale. With a
    third page, a draft restored from an older one and saved anew takes the version it
    was saved on as its base. `StaleIsFlagged` is checked with two pages.
17. A save that waits for the draft store has recorded its attempt with the form of
    that moment. If the finding is closed and opened again meanwhile, the request
    leaves with another form, and its confirmation removes the draft it was recorded
    with.
18. Laravel's `deleteDirectory` answers false only when the path is no directory. A
    child it cannot remove is passed over, and the answer is true. `CreateBackup`
    (`CreateBackup.php:362`) and `RestoreBackup` look at the directory again;
    `DeleteEntityAccordingToPolicy.php:92` and `CleanupDeletionOperations.php:52` do
    not, so they record an operation as cleaned that still has files in its trash,
    and no later cleanup takes it up. `trash_left` shows it. When `deleteDirectory`
    throws instead, because the directory cannot be read, the request that deletes
    fails although the row is gone, and the operation stays committed; the command
    records `cleanup_failed`. Both are retried.
19. A write that fails half-way can leave part of a file under a name nobody has kept
    (`PrepareEvidenceFiles.php:72`, `GenerateAssessmentPdf.php:53`): the compensation
    removes only the files written before it. `OrphansAreExplained` counts it among
    the files a failure has given up (`left`).

### Bounds

* Store: two workers, because every hazard of the protocol is between a holder
  of the lock and one other call; three finding identifiers from one finding
  (two insertions and a deletion can race); two request keys, one for a repetition and one for a
  bystander. `MaxVersion` stops new calls, not running ones, so with
  `MaxVersion = 2` two operations are always followed by every call that
  was already under way. The theorems have none of these bounds.
* Workspace: `MaxStamp` edits and reorder keys, `LastVersion` stops new
  requests, `MaxFaults` counts what goes wrong: a lost response, a dead worker,
  a lock that expires under its owner, an invalid payload, a write of the edit
  form. `Offered` is the set of messages the instance's tabs send: the `workspace` run
  offers all of them, with one worker, so that requests of two tabs alternate;
  the interleavings inside a request are the business of `workspace_workers`,
  which has two workers and the three messages that meet in the database (a
  save, a deletion, a completion). A completion the server refuses is not counted
  as a fault, so tabs can go on asking for one without end: this is what a waiting
  call competes with in `CallsEnd`.

* Drafts: `Happens` says which events a run offers to each page and to the world,
  `Budget` how many of them. Everything the script and the server do in reply is
  unbounded. The page run has one page, two findings (a switch with work left
  behind) and three events: a save, an edit in its shadow and a third thing that
  goes wrong. The live run has one finding and two events of nearly every kind,
  and one of the world. The recovery run starts where one page has an edit in
  its draft, with and without a foreign save since, and gives that page another
  edit and the second page two events: restore and save, or save and drop.
* Files: two workers; two saves that carry the same file, one of them a second
  file too; `Limit` 2, so that a third file is over the quota; `MaxName` 3 bounds
  files and operations ever named (two files and the deletion that moves both,
  or one file and two competing deletions); `MaxFaults` 1. A restoration may
  fail besides, since it only runs after something has failed. The workers are
  symmetric. The theorems have none of these bounds.

* Backups: one file and one deletion (a file is with or without row, in place or
  in the trash, the deletion decided or not, at each of the moments compared); two
  savers and the restorer; `MaxArchive` 3 archives ever begun. From an empty
  installation three archives are out of TLC's reach, so the run starts from two
  states the specification reaches (`LaterSpec` in `MCBackups`). `Early`: the first
  backup was made and deleted by the administrator; two more prune the same or
  different days, or one is restored under a safety archive while its maker is still
  verifying or pruning. `Midway`: a restore of the first backup has just made its
  safety archive; it ends in every way it can, and one more backup or restore, with
  its pruning, comes after it or beside it. Two days in two weeks of
  one month, one archive kept for each day and month, two for the weeks;
  `MaxFaults` 1. One change that goes astray in a restore stands for all of them.

### Fairness

`WFairSpec` assumes that a worker with an enabled step, of a call or of the page's
handler around it, takes one or dies, and that time passes (`WF` on the expiry of
the lock). A PHP
worker is a running process with a request timeout, and the cache lock has a
fixed life, so both are what the deployment gives. There is no fairness on the
order in which workers get the lock and none is needed: `block(5)` ends the
wait. Nothing is assumed of users, tabs or the network.

`WorkspaceDrafts` assumes, for each page, that the browser goes on running its
timers and promises (`WF` on `Script(p)`), that a broken store answers every
request with an error (`WF` on `Breakdown(p)` while broken), and that a request
is answered or fails (`WF` on `Network(p)`): the event loop, the error path of
IndexedDB and the timeouts of the browser. No fairness makes the user act, brings
the network back or picks one of several pending jobs. `PrivateFiles` states none:
`storage:cleanup` is not scheduled, so nothing promises that a trash is emptied.

## 4. Theorems

`AssessmentStoreProofs` proves, for any number of workers, findings, keys and
payloads and from `StoreAssumption` only:

* `TypeCorrect`: `Spec => []TypeOK`
* `AtMostOnce`: `Spec => []AppliedOnce`
* `TruthfulReplay`: `Spec => []JournalTruthful`
* `CurrentPlans`: `Spec => []PlansAreCurrent`
* `Frozen`: `Spec => FindingsFrozenWhileClosed`

The argument is the inductive invariant `IInv` (theorem `Inductive`). None of
the properties is inductive alone. The lock is not part of it at all, since it
may expire at any time; what carries the proof is that a conditional update
succeeds only at the version the call expects:

* `ExpectsThePast` - no running call expects a version that has not existed, so
  once the version has passed a call's expectation it can never match again;
* `VersionCounts` - the version is the length of the history;
* `KeysAreRecorded` - every key of the history has its journal row, so a key
  without a row has never been applied, and
* `PlansAreCurrent` - a call that still matches has no row for its key yet and
  has computed its writes from the rows as they are. Every step that changes
  the rows raises the version and so takes all running calls out of its scope;
  `SaveEditForm`, which does not count, touches neither order nor findings.

`AppliedOnce` and `JournalTruthful` follow for `ApplyChange` because the key it
appends is new.

* `OrderContiguous`: `Spec => []SortContiguous`
* `StoreImplementsDocument`: `Spec => ImplementsDocument`

Both need more than `IInv`: that the sort orders are a numbering of the findings
(`Numbered`, from which the lemmas on inserting, deleting and listing count), that
the row a running call will insert is its own and not in the assessment yet
(`Fresh`), and that a call which can still commit deletes a finding that is there
or lists exactly the findings that are (`Fits`). Together they are `OrderInv`. The
refinement then maps the rows to the list of findings in order (`OrderShown`) and
goes through the operations: a save edits, an insertion appends, a deletion closes
the gap, a reorder arranges, a lifecycle call moves, the edit form amends; every
other step leaves the mapped state alone.

`AssessmentWorkspaceProofs` proves, for any number of tabs, workers, findings,
edits and faults and from `StoreAssumption` and `WorkspaceAssumption`:

* `PagesUseStore`: `WSpec => UsesStore`, and from it `PagesApplyOnce`:
  `WSpec => []AppliedOnce`
* `WTypeCorrect`: `WSpec => []WTypeOK`
* `FormsTrue`: `WSpec => []CurrentFormsAreTrue`
* `ShownOverwritten`: `WSpec => OverwritesOnlyTheShown`
* `EditsKept`: `WSpec => EditsAreKeptOrShown`

One inductive invariant, `WInv`, carries all of them:

* `Sound(p)`, of every page in a tab or in a worker's hands: it is of the past, and
  if only operations that change no finding (saves of the details, reorders:
  `Neutral`, read off the journal) came after its version, then its finding form
  was filled with what the database holds. `CurrentFormsAreTrue` is the case in
  which nothing came after; the general form is needed because a page goes on
  living in a worker while others commit, and because the answer to a save moves
  the version of a form that was filled before it.
* `Staged`, `SaveFits`, `CallFits`: what a worker's call is about is what its page
  shows, expects the page's version, and, once it has ended, the version in its
  answer is one the page may take over. A replayed answer names an old version,
  and this is why `Sound` cannot do without the journal.
* `Awaits`: while a tab waits, the copy of its page at the worker still holds the
  tab's edit, or the edit was committed, given up by the user, or met a closed
  assessment. `JournalIsKept` - what a replay may answer for has been committed -
  makes this survive a repeated save.

`OverwritesOnlyTheShown` follows because a save that commits expects the current
version and expects its page's version, so `Sound` speaks of that page, and the
plan being current (`PlansAreCurrent`) says that its finding is still there.

The modules on `PrivateFiles` prove, for any number of workers, uploads,
files, faults and versions and from `FilesAssumption` only:

* `FilesTypeCorrect`: `Spec => []FTypeOK`
* `RowsNeverLoseTheirFiles`: `Spec => []RowsKeepTheirFiles`
* `UploadsAreKept`: `Spec => []UploadsOutliveFailures`
* `FrozenReportCurrent`: `Spec => FrozenReportIsCurrent`
* `OrphansExplained`: `Spec => []OrphansAreExplained`
* `QuotaHolds`: `Spec => []EvidenceWithinLimits`
* `FinishedDeletionsDone`: `Spec => []FinishedDeletionsAreDone`
* `FilesImplementStore`: `Spec => ImplementsFileStore`

Why they hold, each with the strengthening it needs:

* The rows' files (`FilesInv`). A name is fresh, so what a worker has written and
  not yet committed is in no row, in no other worker's hands and wanted by no
  deletion. A deletion whose row is gone has been decided; the files of an
  undecided one are in the trash or in place, and an operation a worker still
  stages belongs to that worker alone. A row's file can so leave its place only
  into the trash of an undecided deletion, which the cleanup does not touch.
* Uploads: the answer that removes them is given only after the journal has the
  save (`StoredIsStored`).
* The frozen report: while no worker has outlived its lock, the holder is the
  only one between snapshot and commit (`LockHeld`), so its snapshot is still the
  version of the rows (`SnapshotCurrent`).
* The quota: a save that can still commit counted the rows as they are
  (`RoomKept`) and brings no more than it counted (`SentBounded`). This uses the
  one assumption that is not a matter of counting workers: an upload carries
  finitely many files.
* Finished deletions (`TrashInv`): a file is in one place at a time; a staging
  deletion has moved exactly the files it has passed, and none once it was
  decided and its trash is recorded as emptied; files staged by anybody were
  named before. An operation can be recorded as restored only when nothing of it is
  left in the trash, and as cleaned only after a removal, which leaves nothing there
  but what is in `left`.

* Orphans (`OrphanInv`): while no worker has outlived its lock, only one worker is
  inside a deletion (`DeletingHeld`), what it stages was shown in a row when it
  started (`StagedShown`, `TargetsStaged`), and each file on disk and each in the
  trash has its explanation separately (`DiskExplained`, `TrashExplained`): moving a
  file exchanges one explanation for the other.
* The refinement of `FileStore`: every step of a worker is one abstract step, by
  `FilesInv` and `TrashInv` (which give the guards of `Decide` and `Discard`) and by
  `MadeHeld`, that only a save or a report in progress holds files it has written.

`BackupRestoreProofs` proves, for any number of processes, days, files, archives
and faults, any limits of retention and from `RetentionAssumption` and
`BackupAssumption`:

* `GenerationsKept`: `BackupSpec => []GenerationsAreKept`
* `ArchivesComplete`: `BackupSpec => []ArchivesAreComplete`
* `PriorDataKept`: `BackupSpec => []PriorDataAreKept`
* `RestoresWhole`: `BackupSpec => RestoresAreWhole`
* `BTypeCorrect`: `BackupSpec => []BTypeOK`

Their arguments are four:

* Generations (`RetentionInv`): a larger set of archives never keeps one that a
  smaller set drops (`KeptAmongFewer`), so an archive that a process has marked for
  deletion on a part of the list (`DoomedIsDropped`) is none that one pruning of
  all would keep.
* Completeness (`CalmInv`, with `KnownInv` for the shapes of what is read from the
  directory): between dump and listing the rows of the dump have their files in the
  storage, in place or in the trash of a deletion already open at the dump; between
  listing and end they are among what is copied or still to copy. `FileStore` is used
  here, not `PrivateFiles`: requests that leave the trash alone only add such files.
* Prior data (`RestoreInv`): the safety archive is made through the steps of every
  archive (`SafetyGathered`), keeps its number (`ArchivesAreOnce`), and no pruning
  takes it (`SafetyIsApart`). When the restore goes on with it, its number and what was
  there at the asking enter the history `secured`; from then on no step but a deletion
  on request touches an archive of that number (`Apart`), whatever restores follow
  (`SecuredHolds`).
* Whole restores (`StepsFit`, part of `RestoreInv`): what is in the two stores at each
  step of restoring and compensating, as a function of the step and of whether the
  storage has been moved. Each exit then leaves what its answer says.

`WorkspaceDraftsProofs` proves, for any number of pages, findings and edits, any
events and budgets and from `DraftsAssumption` (findings are listed without
repetition):

* `DTypeCorrect`: `Spec => []DTypeOK`
* `UuidsAreUnique`: `Spec => []UuidNamesOneDraft`
* `MarksAreTrue`: `Spec => []ConfirmedDraftsAreOvertaken`

None of the three is inductive, because a draft exists in more places than the
store: a job of a queue holds the record it is going to write, a confirmation the
drafts it has found, a page the draft it offers, and each can land after others have
rewritten or deleted what it was read from. The invariant `DInv` therefore says that
there is a *context* (`Contexts`), all that was ever handed out: the clock, the
request UUIDs with the draft each names, the drafts born with their source, and the
saves applied. Store, jobs with their plans (`Jobs`), confirmations under way
(`Traced`), offers, messages and server all fit it (`At`): a record found anywhere is
of a draft that was born, carries a UUID that names it, and, if it is marked, the mark
of an applied save. Every step extends the context in one of four ways (`Later`,
`Named`, `Made`, `Rowed`), and what the step leaves alone fits the larger context too
(the lemmas ending in `Grow`). Beside it, `OneSave`: at most one queued job belongs to
the save under way and it is the one the save's phase waits for, so that a job that
ends moves the right save on. `DInv` quantifies over an infinite set of contexts,
which TLC cannot enumerate; the runs check the three properties it gives.

`WorkspaceEditsProofs` builds on `DInv` and proves, for the same constants:

* `GateHolds`: `Spec => DirtyFormIsSavedFirst`, where `Happens` offers no page the
  event `structure`. Without this hypothesis the property is false (known behaviour
  8); every other event, in any number and on any number of pages, is admitted.

The invariant beside `DInv` is `Gate`: the server has held what it shows and what its
journal would replay, and every component, in a page or in a message, that says
"saved" has as its canonical form one the server has held (`Clean`). A request that
leaves the form without saving it then finds either that it is unchanged since such a
moment or that the assessment is closed; one that saves it goes on only after it was
applied or replayed. Most steps of the script leave what `Gate` speaks of alone
(`Steady`).

`WorkspaceEvidenceProofs` builds on `DInv` too and proves:

* `EvidenceHolds`: `Spec => []EvidenceIsGuarded`, where `Happens` offers no page the
  event `restore`. A draft can hold the form of another finding (known behaviour 4),
  and once such a draft has been restored the form on a page need not be of the
  finding on display, which the argument rests on; the runs neither show the property
  false there nor check it. Every other event is admitted, in any number and on any
  number of pages.

What the browser is told of files is put right by confirmations alone, and these come
late. The invariant (`Evidence`, per page `OpenEvidence`) says, of every finding that
is not `Excused` (known behaviours 3 and 14): files on the form are known to the
browser (`Warned`); an attempt whose request is on its way, or will be sent under the
same UUID, counts no more files than the page has counted (`Lives`); a confirmation
under way counts no more either, and fewer if there are files on the form (`Tasked`,
`Passed`), so that it finds more than it confirms and clears nothing; and a request
left with files that are still there, the finding still being the same (`Asked`).
Two more parts carry these through the queue and the network: a queued confirmation
is under way, queued once and has a key of its own (`Linked`), and a response brings
back no other files than were sent, and none after a save or a selection (`Replied`).
A confirmation that resets the count of a finding takes it out of the invariant and,
if no other attempt or confirmation of it is left, brings it back (`Readmit`,
`EndingEvidence`); where one is left the model records `stray`. All other steps of the
script keep what the invariant speaks of, or give it up with a form (`Kept`, `Calm`,
`Careful`).

Model-checked only: of the drafts, `SettledEditsAreSafe`
(it is about what the user has typed, known exceptions apart, and follows a form
through timer, queue, save and answer); `DraftsRemovedOnlyWhenSafe`, which two pages
with more events than the runs have can break where a page drops what another is
writing (known behaviour 5); `StaleIsFlagged` has a known
exception with three pages (item 16 above) and is claimed for two. Liveness
(`CallsEnd`, `TabsAreAnswered`, `SavesEnd`,
`EditsAreStored`, `ConfirmedDraftsLeave`) is out of the prover's reach:
it reasons neither about `ENABLED` nor, with it, about fairness. That `Retention`
is what the loops compute (`KeptIsTheLoop`) is an induction over data and is
evaluated by TLC on four days.

## 5. Plan

Done so far: the store, the workspace, the drafts, the private files, the backups, and
the proofs above. Next, in this order:

1. More proofs of the drafts over the same context: of `DraftsRemovedOnlyWhenSafe` for
   one page, and of `SettledEditsAreSafe` as much as the provers carry.
2. The page's own share of reports, templates and evidence under
   `AssessmentWorkspace`.
3. The journal's purge (rows older than a day) under `WorkspaceDrafts`, whose
   drafts can outlive a row, and the draft of the assessment details.
4. `Integrations`: Google Drive content hash and lock; quote creation with
   ambiguous outcomes; token refresh with rotation.
5. `TemplateLearning` and `FindingLifecycle`: fingerprints, template versions,
   status table and solutions.

## 6. Not modelled

* A lock whose release throws after the commit (`SaveFindingDetails.php:87`): the
  cache would have to fail between two statements of one worker.
* `StoreEvidence`, `DeleteEvidence`: only tests call them. The archive policy, client
  logos and the storage audit: single writes or reads.
* Archives written elsewhere with `--output`, the manifest and hashes inside an
  archive, and a deletion request that outlives a restore: its operation row is
  gone with the old database, and it stops in the model.
* Rendering of reports, panel layout, probes and diagnostics, deployment
  scripts, single-row catalogue tables: I/O or validation without a protocol.
* Fields: no property tells them apart. The merging of server errors into the
  form, the dialogs and the keyboard handling of `assestme-workspace.js` beyond
  save and save-and-next are layout.
