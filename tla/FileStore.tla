------------------------------ MODULE FileStore -----------------------------
(***************************************************************************)
(* What the application promises about its private files, with the         *)
(* requests, versions, lock and failures of PrivateFiles left out: which   *)
(* files the database names, which are in their places, and which are in   *)
(* the trash of a deletion.  PrivateFiles implements this specification;   *)
(* BackupRestore runs beside it.                                           *)
(***************************************************************************)
EXTENDS FiniteSets

CONSTANTS
  Files,
  Operations   \* names of deletions

VARIABLES
  rows,     \* the files the database names
  staged,   \* the operations the database has as undecided
  disk,     \* the files in their places
  trash,    \* <<operation, file>>
  fresh,    \* files written by a request that has not stored or dropped them
  used      \* the names given so far: none is given twice

fileVars == <<rows, staged, disk, trash, fresh, used>>

FileInit ==
  /\ rows = {} /\ staged = {}
  /\ disk = {} /\ trash = {}
  /\ fresh = {} /\ used = {}

InTrash(o) == {t[2] : t \in {u \in trash : u[1] = o}}

\* A file is written before its row; if the write fails, what is there of it is
\* nobody's.
Write(f) ==
  /\ f \notin used
  /\ used' = used \cup {f}
  /\ disk' = disk \cup {f}
  /\ fresh' \in {fresh, fresh \cup {f}}
  /\ UNCHANGED <<rows, staged, trash>>

\* The transaction of a save or a report.
Store(files) ==
  /\ files # {}
  /\ files \subseteq fresh
  /\ rows' = rows \cup files
  /\ fresh' = fresh \ files
  /\ UNCHANGED <<staged, disk, trash, used>>

\* The request gives its files up: it removes them, or leaves them.
GiveUp(files) ==
  /\ files # {}
  /\ files \subseteq fresh
  /\ fresh' = fresh \ files
  /\ disk' \in {disk, disk \ files}
  /\ UNCHANGED <<rows, staged, trash, used>>

\* A deletion is recorded before it moves a file.
Open(o) ==
  /\ o \notin used
  /\ used' = used \cup {o}
  /\ staged' = staged \cup {o}
  /\ UNCHANGED <<rows, disk, trash, fresh>>

ToTrash(o, f) ==
  /\ o \in staged
  /\ f \in disk \ fresh
  /\ disk' = disk \ {f}
  /\ trash' = trash \cup {<<o, f>>}
  /\ UNCHANGED <<rows, staged, fresh, used>>

FromTrash(o, f) ==
  /\ o \in staged
  /\ f \in InTrash(o)
  /\ disk' = disk \cup {f}
  /\ trash' = trash \ {<<o, f>>}
  /\ UNCHANGED <<rows, staged, fresh, used>>

DeleteRows(files) ==
  /\ files # {}
  /\ files \subseteq rows
  /\ rows' = rows \ files
  /\ UNCHANGED <<staged, disk, trash, fresh, used>>

\* Committed or restored: what is in the trash has no row.
Decide(o) ==
  /\ o \in staged
  /\ InTrash(o) \cap rows = {}
  /\ staged' = staged \ {o}
  /\ UNCHANGED <<rows, disk, trash, fresh, used>>

\* Only the trash of a decided operation is emptied, perhaps in part.
Discard(o) ==
  /\ o \notin staged
  /\ \E kept \in SUBSET InTrash(o) : trash' = {t \in trash : t[1] = o => t[2] \in kept}
  /\ trash' # trash
  /\ UNCHANGED <<rows, staged, disk, fresh, used>>

FileNext ==
  \/ \E f \in Files : Write(f)
  \/ \E files \in SUBSET fresh : Store(files) \/ GiveUp(files)
  \/ \E o \in Operations : Open(o) \/ Decide(o) \/ Discard(o)
  \/ \E o \in Operations, f \in Files : ToTrash(o, f) \/ FromTrash(o, f)
  \/ \E files \in SUBSET rows : DeleteRows(files)

FileSpec == FileInit /\ [][FileNext]_fileVars

\* Every file the database names is in its place or in the trash of an
\* operation it has as undecided.
Sound == \A f \in rows : f \in disk \/ \E o \in staged : <<o, f>> \in trash
=============================================================================
