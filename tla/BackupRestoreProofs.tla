------------------------ MODULE BackupRestoreProofs -------------------------
(***************************************************************************)
(* Pruning beside pruning loses no generation, for any calendar, limits,   *)
(* processes and failures.                                                 *)
(*                                                                         *)
(* A process prunes by a list that misses what others have since placed,   *)
(* or that holds what is not verified yet.  It matters not: the loop keeps *)
(* no backup on a larger list that it drops on a smaller one, so what one  *)
(* pruning dooms, a pruning of all archives ever placed would drop too.    *)
(***************************************************************************)
EXTENDS BackupRestore, FiniteSetTheorems, TLAPS

\* The groups of a finite set of backups are finite.
LEMMA GroupsFinite ==
  ASSUME NEW S, IsFiniteSet(S), NEW group
  PROVE  IsFiniteSet({group[b.day] : b \in S})
<1>. DEFINE G == {group[b.day] : b \in S}
            f == [b \in S |-> group[b.day]]
<1>1. f \in Surjection(S, G)
  BY DEF Surjection
<1>. QED BY <1>1, FS_Surjection

\* Fewer backups, the same choice.
LEMMA ChosenAmongFewer ==
  ASSUME NEW S, NEW T, IsFiniteSet(T),
         \A b \in S : \E c \in T : c.n = b.n /\ c.day = b.day,
         NEW a, NEW m, m.n = a.n, m.day = a.day,
         NEW group, NEW limit \in Nat, Chosen(m, T, group, limit)
  PROVE  Chosen(a, S, group, limit)
<1>. DEFINE seenS == {group[b.day] : b \in Newer(a, S)}
            seenT == {group[b.day] : b \in Newer(m, T)}
<1>1. \A b \in Newer(a, S) : \E c \in Newer(m, T) : c.day = b.day
  BY DEF Newer
<1>2. \A b \in Newer(a, S) : group[b.day] # group[a.day]
  BY <1>1 DEF Chosen
<1>3. seenS \subseteq seenT
  BY <1>1
<1>4. IsFiniteSet(Newer(m, T))
  BY FS_Subset DEF Newer
<1>5. IsFiniteSet(seenT)
  BY <1>4, GroupsFinite
<1>6. Cardinality(seenT) < limit
  BY DEF Chosen
<1>7. IsFiniteSet(seenS) /\ Cardinality(seenS) <= Cardinality(seenT)
  BY <1>3, <1>5, FS_Subset
<1>8. Cardinality(seenS) \in Nat /\ Cardinality(seenT) \in Nat
  BY <1>5, <1>7, FS_CardinalityType
<1>9. Cardinality(seenS) < limit
  BY <1>6, <1>7, <1>8
<1>. QED BY <1>2, <1>9 DEF Chosen

\* A backup that is kept among more is kept among fewer.
LEMMA KeptAmongFewer ==
  ASSUME NEW S, NEW T, IsFiniteSet(T),
         \A b \in S : \E c \in T : c.n = b.n /\ c.day = b.day,
         NEW a \in S, NEW m \in Kept(T), m.n = a.n, m.day = a.day
  PROVE  a \in Kept(S)
<1>. USE RetentionAssumption
<1>1. CASE Chosen(m, T, Day, DailyLimit)
  BY <1>1, ChosenAmongFewer DEF Kept
<1>2. CASE Chosen(m, T, Week, WeeklyLimit)
  BY <1>2, ChosenAmongFewer DEF Kept
<1>3. CASE Chosen(m, T, Month, MonthlyLimit)
  BY <1>3, ChosenAmongFewer DEF Kept
<1>. QED BY <1>1, <1>2, <1>3 DEF Kept

-----------------------------------------------------------------------------
(* The invariant *)

Active(p) == saving[p].at # "idle"
Unplaced(p) == saving[p].at \in {"dump", "walk", "copy"}
Verified(p) == saving[p].at \in {"prune", "delete"}

\* What a backup that was placed is worth.
Safe(m) == m \notin Kept(placed) \/ m.n \in dropped \/ Present(m.n)

IsSlot(r) ==
  {"at", "kind", "day", "n", "db", "todo", "got", "doomed", "calm"} \subseteq DOMAIN r

\* Every process has a record of its backup.
SlotsAreRecords ==
  /\ saving = [p \in Makers |-> saving[p]]
  /\ \A p \in Makers : IsSlot(saving[p])

\* Only the restore makes a safety archive, which is never pruned for.
Roles ==
  \A p \in Makers :
    Active(p) => /\ saving[p].kind = IF p = Restorer THEN "safety" ELSE "backup"
                 /\ Verified(p) => p # Restorer
                 /\ saving[p].at = "tidy" => p = Restorer

\* No number is given twice.
NumbersAreOnce ==
  /\ stamp \in Nat
  /\ \A a \in archives : a.n \in Nat /\ a.n < stamp
  /\ \A m \in placed : m.n \in Nat /\ m.n < stamp
  /\ \A m, k \in placed : m.n = k.n => m = k
  /\ \A p \in Makers : Active(p) => saving[p].n \in Nat /\ saving[p].n < stamp
  /\ \A p, q \in Makers : Active(p) /\ Active(q) /\ saving[p].n = saving[q].n => p = q

\* placed has the names of the backups, and nothing of one that has no archive.
PlacedIsArchived ==
  /\ IsFiniteSet(placed)
  /\ \A m \in placed : m = Name(m)
  /\ \A a \in archives : a.kind = "backup" => Name(a) \in placed
  /\ \A p \in Makers :
       /\ Unplaced(p) => /\ \A a \in archives : a.n # saving[p].n
                         /\ \A m \in placed : m.n # saving[p].n
       /\ saving[p].at = "verify" /\ p # Restorer => Name(saving[p]) \in placed
       /\ Verified(p) => Name(saving[p]) \in placed /\ Safe(Name(saving[p]))

\* What has been made is reported by nobody who still works at it.
MadeIsSafe ==
  /\ \A m \in made : m \in placed /\ Safe(m)
  /\ \A m \in made, p \in Makers : Active(p) => saving[p].n # m.n

\* A list, however old, dooms only what a pruning of all would drop.
DoomedIsDropped ==
  \A p \in Makers : \A n \in saving[p].doomed :
    \E m \in placed : m.n = n /\ m \notin Kept(placed)

RetentionInv ==
  /\ SlotsAreRecords /\ Roles /\ NumbersAreOnce
  /\ PlacedIsArchived /\ MadeIsSafe /\ DoomedIsDropped

LEMMA KeptBefore ==
  ASSUME NEW T, IsFiniteSet(T), NEW S \in SUBSET T, NEW m \in S, m \in Kept(T)
  PROVE  m \in Kept(S)
BY KeptAmongFewer

-----------------------------------------------------------------------------
(* What a step writes *)

LEMMA MakesSlot ==
  ASSUME SlotsAreRecords, NEW p \in Makers, NEW rec, IsSlot(rec), Makes(p, rec)
  PROVE  /\ SlotsAreRecords'
         /\ saving'[p] = rec
         /\ \A q \in Makers \ {p} : saving'[q] = saving[q]
<1>1. saving' = [q \in Makers |-> IF q = p THEN rec ELSE saving[q]]
  BY DEF SlotsAreRecords, Makes
<1>2. saving'[p] = rec /\ \A q \in Makers \ {p} : saving'[q] = saving[q]
  BY <1>1
<1>3. \A q \in Makers : IsSlot(saving'[q])
  <2>1. IsSlot(saving'[p])
    BY <1>2
  <2>2. \A q \in Makers \ {p} : IsSlot(saving'[q])
    BY <1>2 DEF SlotsAreRecords
  <2>. QED BY <2>1, <2>2
<1>4. saving' = [q \in Makers |-> saving'[q]]
  BY <1>1
<1>. QED BY <1>2, <1>3, <1>4 DEF SlotsAreRecords, IsSlot

LEMMA EmptySlot == IsSlot(NoBackup) /\ NoBackup.at = "idle" /\ NoBackup.doomed = {}
BY DEF IsSlot, NoBackup

LEMMA NewSlot ==
  ASSUME NEW kind
  PROVE  /\ IsSlot(NewBackup(kind))
         /\ NewBackup(kind).at = "dump" /\ NewBackup(kind).kind = kind
         /\ NewBackup(kind).n = stamp /\ NewBackup(kind).doomed = {}
BY EmptySlot DEF NewBackup, IsSlot

LEMMA CalmSlots ==
  ASSUME SlotsAreRecords, saving' = NotCalm
  PROVE  /\ SlotsAreRecords'
         /\ \A p \in Makers : /\ saving'[p].at = saving[p].at
                             /\ saving'[p].kind = saving[p].kind
                             /\ saving'[p].day = saving[p].day
                             /\ saving'[p].n = saving[p].n
                             /\ saving'[p].doomed = saving[p].doomed
<1>1. \A p \in Makers : IsSlot(saving[p]) /\ saving'[p] = [saving[p] EXCEPT !.calm = FALSE]
  BY DEF SlotsAreRecords, NotCalm
<1>2. \A p \in Makers : IsSlot(saving'[p])
  BY <1>1 DEF IsSlot
<1>3. saving' = [p \in Makers |-> saving'[p]]
  BY DEF NotCalm
<1>. QED BY <1>1, <1>2, <1>3 DEF SlotsAreRecords, IsSlot

-----------------------------------------------------------------------------
(* Steps that give no number and place no backup *)

\* How a process may go on.
Moves(p) ==
  \/ saving'[p].at = "idle" /\ saving'[p].doomed = {}
  \/ /\ saving'[p].kind = saving[p].kind
     /\ saving'[p].day = saving[p].day
     /\ saving'[p].n = saving[p].n
     /\ \A n \in saving'[p].doomed \ saving[p].doomed :
          \E m \in placed : m.n = n /\ m \notin Kept(placed)
     /\ \/ saving'[p].at = saving[p].at
        \/ Unplaced(p) /\ Unplaced(p)'
        \/ saving[p].at = "verify" /\ saving'[p].at = "tidy" /\ p = Restorer
        \/ saving[p].at = "verify" /\ Verified(p)' /\ p # Restorer /\ Present(saving[p].n)'
        \/ Verified(p) /\ Verified(p)'

\* Worth keeping, before a step and after it.
Valued(m) ==
  m \in made \/ \E p \in Makers : Verified(p) /\ Verified(p)' /\ saving[p].n = m.n

Proceeds ==
  /\ UNCHANGED <<placed, stamp>>
  /\ \A m \in made' \ made :
       m \in placed /\ Safe(m)' /\ \A p \in Makers : Active(p)' => saving[p].n # m.n
  /\ dropped \subseteq dropped'
  /\ archives' \subseteq archives
  /\ \A p \in Makers : Moves(p)
  /\ \A m \in placed : Valued(m) /\ Present(m.n) =>
       Present(m.n)' \/ m.n \in dropped' \/ m \notin Kept(placed)

LEMMA ProceedsKeeps ==
  ASSUME RetentionInv, SlotsAreRecords', Proceeds
  PROVE  RetentionInv'
<1>. USE DEF Active, Unplaced, Verified
<1>1. \A p \in Makers : Moves(p)
  BY DEF Proceeds
<1>2. placed' = placed /\ stamp' = stamp /\ archives' \subseteq archives
  BY DEF Proceeds
<1>3. \A m \in placed : Valued(m) /\ Safe(m) => Safe(m)'
  BY <1>2 DEF Proceeds, Safe
<1>4. \A p \in Makers : Active(p)' => /\ Active(p)
                                    /\ saving'[p].kind = saving[p].kind
                                    /\ saving'[p].day = saving[p].day
                                    /\ saving'[p].n = saving[p].n
  BY <1>1 DEF Moves
<1>5. Roles'
  BY <1>1, <1>4 DEF RetentionInv, Roles, Moves
<1>6. NumbersAreOnce'
  BY <1>2, <1>4 DEF RetentionInv, NumbersAreOnce
<1>7. PlacedIsArchived'
  <2>1. /\ IsFiniteSet(placed')
        /\ \A m \in placed' : m = Name(m)
        /\ \A a \in archives' : a.kind = "backup" => Name(a) \in placed'
    BY <1>2 DEF RetentionInv, PlacedIsArchived
  <2>. SUFFICES ASSUME NEW p \in Makers, Active(p)'
                PROVE  /\ Unplaced(p)' => /\ \A a \in archives' : a.n # saving'[p].n
                                          /\ \A m \in placed' : m.n # saving'[p].n
                       /\ saving'[p].at = "verify" /\ p # Restorer => Name(saving'[p]) \in placed'
                       /\ Verified(p)' => /\ Name(saving'[p]) \in placed'
                                          /\ Safe(Name(saving[p]))'
    BY <2>1, <1>4 DEF PlacedIsArchived, Name
  <2>2. Unplaced(p)' => Unplaced(p)
    BY <1>1 DEF Moves
  <2>3. saving'[p].at = "verify" => saving[p].at = "verify"
    BY <1>1 DEF Moves
  <2>4. Name(saving'[p]) = Name(saving[p])
    BY <1>4 DEF Name
  <2>5. ASSUME Verified(p)' PROVE Name(saving[p]) \in placed /\ Safe(Name(saving[p]))'
    <3>1. CASE Verified(p)
      <4>1. Name(saving[p]) \in placed /\ Safe(Name(saving[p]))
        BY <3>1 DEF RetentionInv, PlacedIsArchived
      <4>2. PICK m \in placed : m = Name(saving[p])
        BY <4>1
      <4>3. Safe(m)
        BY <4>1, <4>2 DEF Safe
      <4>4. Valued(m)
        BY <2>5, <3>1, <4>2 DEF Valued, Name
      <4>5. Safe(m)'
        BY <4>3, <4>4, <1>3
      <4>6. m = Name(saving'[p])
        BY <4>2, <2>4
      <4>. QED BY <4>1, <4>5, <4>6 DEF Safe
    <3>2. CASE ~ Verified(p)
      <4>1. saving[p].at = "verify" /\ p # Restorer /\ Present(saving[p].n)'
        BY <3>2, <2>5, <1>1, <1>4 DEF Moves
      <4>. QED BY <4>1, <2>4, <1>4 DEF RetentionInv, PlacedIsArchived, Safe, Name
    <3>. QED BY <3>1, <3>2
  <2>. QED BY <2>2, <2>3, <2>4, <2>5, <1>2, <1>4 DEF RetentionInv, PlacedIsArchived
<1>8. MadeIsSafe'
  <2>1. \A m \in made : Valued(m)
    BY DEF Valued
  <2>2. \A m \in made : m \in placed /\ Safe(m)'
    BY <2>1, <1>3 DEF RetentionInv, MadeIsSafe
  <2>3. \A m \in made, p \in Makers : Active(p)' => saving'[p].n # m.n
    BY <1>4 DEF RetentionInv, MadeIsSafe
  <2>4. \A m \in made' \ made :
          /\ m \in placed /\ Safe(m)'
          /\ \A p \in Makers : Active(p)' => saving'[p].n # m.n
    BY <1>4 DEF Proceeds
  <2>. QED BY <2>2, <2>3, <2>4, <1>2 DEF MadeIsSafe
<1>9. DoomedIsDropped'
  BY <1>1, <1>2 DEF RetentionInv, DoomedIsDropped, Moves
<1>. QED BY <1>5, <1>6, <1>7, <1>8, <1>9 DEF RetentionInv

\* Archives, names and history stay.
Quiet == UNCHANGED <<archives, stamp, past>>

LEMMA QuietKeeps ==
  ASSUME RetentionInv, SlotsAreRecords', Quiet, \A p \in Makers : Moves(p)
  PROVE  RetentionInv'
<1>1. \A m \in placed : Present(m.n) => Present(m.n)'
  BY DEF Quiet, Present
<1>2. Proceeds
  BY <1>1 DEF Proceeds, Quiet, past
<1>. QED BY <1>2, ProceedsKeeps

LEMMA OneMoves ==
  ASSUME NEW p \in Makers, \A q \in Makers \ {p} : saving'[q] = saving[q], Moves(p)
  PROVE  \A q \in Makers : Moves(q)
BY DEF Moves

\* The processes stay where they are, or only lose their calm.
LEMMA CalmKeeps ==
  ASSUME RetentionInv, Quiet, saving' = saving \/ saving' = NotCalm
  PROVE  RetentionInv'
<1>1. SlotsAreRecords
  BY DEF RetentionInv
<1>2. CASE saving' = saving
  <2>1. SlotsAreRecords'
    BY <1>1, <1>2 DEF SlotsAreRecords, IsSlot
  <2>2. \A p \in Makers : Moves(p)
    BY <1>2 DEF Moves
  <2>. QED BY <2>1, <2>2, QuietKeeps
<1>3. CASE saving' = NotCalm
  <2>1. \A p \in Makers : Moves(p)
    BY <1>1, <1>3, CalmSlots DEF Moves
  <2>. QED BY <1>1, <1>3, <2>1, CalmSlots, QuietKeeps
<1>. QED BY <1>2, <1>3

\* A process gives up, ends or dies.
LEMMA EndKeeps ==
  ASSUME RetentionInv, Quiet, NEW p \in Makers, Makes(p, NoBackup)
  PROVE  RetentionInv'
<1>1. /\ SlotsAreRecords'
      /\ saving'[p] = NoBackup
      /\ \A q \in Makers \ {p} : saving'[q] = saving[q]
  BY EmptySlot, MakesSlot DEF RetentionInv
<1>2. Moves(p)
  BY <1>1, EmptySlot DEF Moves
<1>. QED BY <1>1, <1>2, OneMoves, QuietKeeps

\* A process goes on.
LEMMA GoesOnKeeps ==
  ASSUME RetentionInv, Quiet, NEW p \in Makers, NEW rec, Makes(p, rec), IsSlot(rec),
         rec.kind = saving[p].kind, rec.day = saving[p].day, rec.n = saving[p].n,
         \/ /\ Unplaced(p) /\ rec.at \in {"dump", "walk", "copy"}
            /\ rec.doomed = saving[p].doomed
         \/ /\ Verified(p) /\ rec.at \in {"prune", "delete"}
            /\ \A n \in rec.doomed \ saving[p].doomed :
                 \E m \in placed : m.n = n /\ m \notin Kept(placed)
  PROVE  RetentionInv'
<1>1. /\ SlotsAreRecords'
      /\ saving'[p] = rec
      /\ \A q \in Makers \ {p} : saving'[q] = saving[q]
  BY MakesSlot DEF RetentionInv
<1>2. Moves(p)
  BY <1>1 DEF Moves, Unplaced, Verified
<1>. QED BY <1>1, <1>2, OneMoves, QuietKeeps

-----------------------------------------------------------------------------
(* The actions *)

\* The same backup, one step on.
Onward(rec, p) ==
  /\ IsSlot(rec)
  /\ rec.kind = saving[p].kind /\ rec.day = saving[p].day
  /\ rec.n = saving[p].n /\ rec.doomed = saving[p].doomed

LEMMA DumpKeeps ==
  ASSUME RetentionInv, NEW p \in Makers, Dump(p) \/ Walk(p) \/ Copy(p)
  PROVE  RetentionInv'
<1>1. IsSlot(saving[p])
  BY DEF RetentionInv, SlotsAreRecords
<1>2. Quiet
  BY DEF Dump, Walk, Copy, Quiet, clockVars, past
<1>3. Unplaced(p)
  BY DEF Dump, Walk, Copy, Unplaced
<1>4. CASE Dump(p)
  <2>1. PICK rec : /\ Makes(p, rec)
                   /\ rec = [saving[p] EXCEPT !.at = "walk", !.db = Database, !.calm = Sound]
    BY <1>4 DEF Dump
  <2>2. Onward(rec, p) /\ rec.at = "walk"
    BY <1>1, <1>4, <2>1 DEF Onward, IsSlot
  <2>. QED BY <1>2, <1>3, <2>1, <2>2, GoesOnKeeps DEF Onward
<1>5. CASE Walk(p)
  <2>1. PICK rec : Makes(p, rec) /\ rec = [saving[p] EXCEPT !.at = "copy", !.todo = Listed]
    BY <1>5 DEF Walk
  <2>2. Onward(rec, p) /\ rec.at = "copy"
    BY <1>1, <1>5, <2>1 DEF Onward, IsSlot
  <2>. QED BY <1>2, <1>3, <2>1, <2>2, GoesOnKeeps DEF Onward
<1>6. CASE Copy(p)
  <2>1. PICK e, rec : /\ Makes(p, rec)
                      /\ rec = [saving[p] EXCEPT !.todo = @ \ {e}, !.got = @ \cup {e}]
    BY <1>6 DEF Copy
  <2>2. Onward(rec, p) /\ rec.at = "copy"
    BY <1>1, <1>6, <2>1 DEF Onward, IsSlot, Copy
  <2>. QED BY <1>2, <1>3, <2>1, <2>2, GoesOnKeeps DEF Onward
<1>. QED BY <1>4, <1>5, <1>6

\* The list may be old when it is used, but it is true of any time since.
LEMMA PruneKeeps ==
  ASSUME RetentionInv, NEW p \in Makers, Prune(p)
  PROVE  RetentionInv'
<1>1. IsSlot(saving[p]) /\ Verified(p)
  BY DEF RetentionInv, SlotsAreRecords, Prune, Verified
<1>2. Quiet
  BY DEF Prune, Quiet, clockVars, past
<1>3. PICK list : list = {a.n : a \in Managed \ Kept(Managed)}
  OBVIOUS
<1>4. PICK rec : Makes(p, rec) /\ rec = [saving[p] EXCEPT !.at = "delete", !.doomed = list]
  BY <1>3 DEF Prune
<1>5. ASSUME NEW n \in list PROVE \E m \in placed : m.n = n /\ m \notin Kept(placed)
  <2>1. PICK a \in Managed : a \notin Kept(Managed) /\ a.n = n
    BY <1>3, <1>5
  <2>2. PICK m \in placed : m.n = a.n /\ m.day = a.day
    BY <2>1 DEF Managed, RetentionInv, PlacedIsArchived, Name
  <2>3. \A b \in Managed : \E c \in placed : c.n = b.n /\ c.day = b.day
    BY DEF Managed, RetentionInv, PlacedIsArchived, Name
  <2>4. IsFiniteSet(placed)
    BY DEF RetentionInv, PlacedIsArchived
  <2>5. m \notin Kept(placed)
    BY <2>1, <2>2, <2>3, <2>4, KeptAmongFewer
  <2>. QED BY <2>1, <2>2, <2>5
<1>6. /\ IsSlot(rec) /\ rec.at = "delete" /\ rec.kind = saving[p].kind
      /\ rec.day = saving[p].day /\ rec.n = saving[p].n /\ rec.doomed = list
  BY <1>1, <1>4 DEF IsSlot
<1>. QED BY <1>1, <1>2, <1>4, <1>5, <1>6, GoesOnKeeps

LEMMA VerifyKeeps ==
  ASSUME RetentionInv, NEW p \in Makers, Verify(p)
  PROVE  RetentionInv'
<1>1. IsSlot(saving[p]) /\ saving[p].at = "verify" /\ UNCHANGED <<stamp, past>>
  BY DEF RetentionInv, SlotsAreRecords, Verify, clockVars
<1>2. Active(p) /\ saving[p].kind = IF p = Restorer THEN "safety" ELSE "backup"
  BY <1>1 DEF Active, RetentionInv, Roles
<1>3. CASE Present(saving[p].n)
  <2>1. archives' = archives
    BY <1>3 DEF Verify
  <2>2. PICK at, rec : /\ at = (IF p = Restorer THEN "tidy" ELSE "prune")
                       /\ rec = [saving[p] EXCEPT !.at = at]
                       /\ Makes(p, rec)
    BY <1>2, <1>3 DEF Verify, Makes, MakesOn
  <2>3. Onward(rec, p) /\ rec.at = at
    BY <1>1, <2>2 DEF Onward, IsSlot
  <2>4. /\ SlotsAreRecords'
        /\ saving'[p] = rec
        /\ \A q \in Makers \ {p} : saving'[q] = saving[q]
    BY <2>2, <2>3, MakesSlot DEF RetentionInv, Onward
  <2>5. Present(saving[p].n)' /\ Quiet
    <3>1. Quiet
      BY <1>1, <2>1 DEF Quiet
    <3>2. saving'[p].n = saving[p].n
      BY <2>3, <2>4 DEF Onward
    <3>. QED BY <1>3, <2>1, <3>1, <3>2 DEF Present
  <2>6. Moves(p)
    BY <1>1, <2>2, <2>3, <2>4, <2>5 DEF Moves, Onward, Verified
  <2>. QED BY <2>4, <2>5, <2>6, OneMoves, QuietKeeps
<1>4. CASE ~ Present(saving[p].n)
  <2>1. Makes(p, NoBackup) /\ (Without(saving[p].n) \/ archives' = archives)
    BY <1>4 DEF Verify, GivesUp
  <2>2. /\ SlotsAreRecords'
        /\ saving'[p] = NoBackup
        /\ \A q \in Makers \ {p} : saving'[q] = saving[q]
    BY <2>1, EmptySlot, MakesSlot DEF RetentionInv
  <2>3. \A q \in Makers : Moves(q)
    BY <2>2, EmptySlot, OneMoves DEF Moves
  <2>4. archives' \subseteq archives
    BY <2>1 DEF Without
  <2>5. \A m \in placed : Present(m.n) => Present(m.n)'
    BY <1>4, <2>1 DEF Present, Without
  <2>6. Proceeds
    BY <1>1, <2>3, <2>4, <2>5 DEF Proceeds, past
  <2>. QED BY <2>2, <2>6, ProceedsKeeps
<1>. QED BY <1>3, <1>4

\* What is on a list goes; no pruning of all would have kept it.
LEMMA DeleteOldKeeps ==
  ASSUME RetentionInv, NEW p \in Makers, DeleteOld(p)
  PROVE  RetentionInv'
<1>1. IsSlot(saving[p]) /\ saving[p].at = "delete" /\ UNCHANGED <<stamp, past>>
  BY DEF RetentionInv, SlotsAreRecords, DeleteOld, clockVars
<1>2. PICK n \in saving[p].doomed : /\ Makes(p, [saving[p] EXCEPT !.doomed = @ \ {n}])
                                    /\ Without(n) \/ archives' = archives
  BY DEF DeleteOld
<1>3. PICK rec : Makes(p, rec) /\ rec = [saving[p] EXCEPT !.doomed = @ \ {n}]
  BY <1>2
<1>4. /\ IsSlot(rec) /\ rec.at = "delete" /\ rec.kind = saving[p].kind
      /\ rec.day = saving[p].day /\ rec.n = saving[p].n
      /\ rec.doomed = saving[p].doomed \ {n}
  BY <1>1, <1>3 DEF IsSlot
<1>5. /\ SlotsAreRecords'
      /\ saving'[p] = rec
      /\ \A q \in Makers \ {p} : saving'[q] = saving[q]
  BY <1>3, <1>4, MakesSlot DEF RetentionInv
<1>6. Moves(p)
  BY <1>1, <1>4, <1>5 DEF Moves
<1>7. \A m \in placed : m.n = n => m \notin Kept(placed)
  <2>1. PICK k \in placed : k.n = n /\ k \notin Kept(placed)
    BY <1>2 DEF RetentionInv, DoomedIsDropped
  <2>2. \A m \in placed : m.n = n => m = k
    BY <2>1 DEF RetentionInv, NumbersAreOnce
  <2>. QED BY <2>1, <2>2
<1>8. \A m \in placed : Present(m.n) => Present(m.n)' \/ m \notin Kept(placed)
  BY <1>2, <1>7 DEF Present, Without
<1>9. Proceeds
  <2>1. \A q \in Makers : Moves(q)
    BY <1>5, <1>6, OneMoves
  <2>. QED BY <1>1, <1>2, <1>8, <2>1 DEF Proceeds, past, Without
<1>. QED BY <1>5, <1>9, ProceedsKeeps

\* The backup is reported: its archive is there, unless it has been deleted or
\* pruned by another.
LEMMA BackupDoneKeeps ==
  ASSUME RetentionInv, NEW p \in Makers, BackupDone(p)
  PROVE  RetentionInv'
<1>1. Makes(p, NoBackup) /\ UNCHANGED <<archives, stamp, placed, dropped>>
  BY DEF BackupDone, clockVars
<1>2. /\ SlotsAreRecords'
      /\ saving'[p] = NoBackup
      /\ \A q \in Makers \ {p} : saving'[q] = saving[q]
  BY <1>1, EmptySlot, MakesSlot DEF RetentionInv
<1>3. \A q \in Makers : Moves(q)
  BY <1>2, EmptySlot, OneMoves DEF Moves
<1>4. \A n : Present(n) => Present(n)'
  BY <1>1 DEF Present
<1>5. ASSUME NEW m \in made' \ made
      PROVE  m \in placed /\ Safe(m)' /\ \A q \in Makers : Active(q)' => saving[q].n # m.n
  <2>1. p # Restorer /\ m = Name(saving[p]) /\ Active(p)
    BY <1>5 DEF BackupDone, Tidying, Active
  <2>2. Verified(p)
    BY <2>1 DEF BackupDone, Tidying, Verified, RetentionInv, Roles
  <2>3. m \in placed /\ Safe(m)
    <3>1. Name(saving[p]) \in placed /\ Safe(Name(saving[p]))
      BY <2>2 DEF RetentionInv, PlacedIsArchived
    <3>. QED BY <2>1, <3>1 DEF Safe
  <2>4. Safe(m)'
    BY <1>1, <1>4, <2>3 DEF Safe
  <2>5. ASSUME NEW q \in Makers, Active(q)' PROVE saving[q].n # m.n
    <3>1. q # p /\ Active(q)
      BY <1>2, <2>5, EmptySlot DEF Active
    <3>. QED BY <2>1, <3>1 DEF RetentionInv, NumbersAreOnce, Name
  <2>. QED BY <2>3, <2>4, <2>5
<1>6. Proceeds
  BY <1>1, <1>3, <1>4, <1>5 DEF Proceeds
<1>. QED BY <1>2, <1>6, ProceedsKeeps

\* The archive that goes is that of a process that will not report it.
LEMMA TidyFailsKeeps ==
  ASSUME RetentionInv, NEW p \in Makers, TidyFails(p)
  PROVE  RetentionInv'
<1>1. Makes(p, NoBackup) /\ UNCHANGED <<stamp, past>> /\ Without(saving[p].n) /\ Active(p)
  BY DEF TidyFails, Tidying, GivesUp, clockVars, Active
<1>2. /\ SlotsAreRecords'
      /\ saving'[p] = NoBackup
      /\ \A q \in Makers \ {p} : saving'[q] = saving[q]
  BY <1>1, EmptySlot, MakesSlot DEF RetentionInv
<1>3. \A q \in Makers : Moves(q)
  BY <1>2, EmptySlot, OneMoves DEF Moves
<1>4. ASSUME NEW m \in placed, Valued(m), Present(m.n) PROVE Present(m.n)'
  <2>1. m.n # saving[p].n
    <3>1. CASE m \in made
      BY <1>1, <3>1 DEF RetentionInv, MadeIsSafe
    <3>2. ASSUME NEW q \in Makers, Verified(q), Verified(q)', saving[q].n = m.n
          PROVE  m.n # saving[p].n
      <4>1. q # p /\ Active(q)
        BY <1>2, <3>2, EmptySlot DEF Verified, Active
      <4>. QED BY <1>1, <3>2, <4>1 DEF RetentionInv, NumbersAreOnce
    <3>. QED BY <1>4, <3>1, <3>2 DEF Valued
  <2>. QED BY <1>1, <1>4, <2>1 DEF Present, Without
<1>5. archives' \subseteq archives
  BY <1>1 DEF Without
<1>6. Proceeds
  BY <1>1, <1>3, <1>4, <1>5 DEF Proceeds, past
<1>. QED BY <1>2, <1>6, ProceedsKeeps

LEMMA DeleteBackupKeeps ==
  ASSUME RetentionInv, NEW a \in archives, DeleteBackup(a)
  PROVE  RetentionInv'
<1>1. /\ Without(a.n) /\ dropped' = dropped \cup {a.n}
      /\ UNCHANGED <<stamp, placed, made, saving>>
  BY DEF DeleteBackup, clockVars
<1>2. SlotsAreRecords'
  BY <1>1 DEF RetentionInv, SlotsAreRecords, IsSlot
<1>3. \A m \in placed : Present(m.n) => Present(m.n)' \/ m.n \in dropped'
  BY <1>1 DEF Present, Without
<1>4. Proceeds
  <2>1. \A q \in Makers : Moves(q)
    BY <1>1 DEF Moves
  <2>. QED BY <1>1, <1>3, <2>1 DEF Proceeds, Without
<1>. QED BY <1>2, <1>4, ProceedsKeeps

-----------------------------------------------------------------------------
(* A backup begins, and is placed *)

LEMMA BeginKeeps ==
  ASSUME RetentionInv, NEW p \in Makers, Stamped,
         NEW kind, kind = (IF p = Restorer THEN "safety" ELSE "backup"),
         Makes(p, NewBackup(kind)), UNCHANGED <<archives, past>>
  PROVE  RetentionInv'
<1>. USE DEF Active, Unplaced, Verified
<1>1. PICK rec : /\ rec = NewBackup(kind)
                 /\ IsSlot(rec) /\ rec.at = "dump" /\ rec.kind = kind
                 /\ rec.n = stamp /\ rec.doomed = {}
  BY NewSlot
<1>2. /\ SlotsAreRecords'
      /\ saving'[p] = rec
      /\ \A q \in Makers \ {p} : saving'[q] = saving[q]
  BY <1>1, MakesSlot DEF RetentionInv
<1>3. stamp \in Nat /\ stamp' = stamp + 1
  BY DEF RetentionInv, NumbersAreOnce, Stamped
<1>4. placed' = placed /\ made' = made /\ dropped' = dropped /\ archives' = archives
  BY DEF past
<1>5. \A m : Safe(m)' <=> Safe(m)
  BY <1>4 DEF Safe, Present
<1>6. Roles'
  BY <1>1, <1>2 DEF RetentionInv, Roles
<1>7. NumbersAreOnce'
  BY <1>1, <1>2, <1>3, <1>4 DEF RetentionInv, NumbersAreOnce
<1>8. PlacedIsArchived'
  <2>1. /\ IsFiniteSet(placed')
        /\ \A m \in placed' : m = Name(m)
        /\ \A a \in archives' : a.kind = "backup" => Name(a) \in placed'
    BY <1>4 DEF RetentionInv, PlacedIsArchived
  <2>2. /\ \A a \in archives' : a.n # saving'[p].n
        /\ \A m \in placed' : m.n # saving'[p].n
    BY <1>1, <1>2, <1>4 DEF RetentionInv, NumbersAreOnce
  <2>3. ASSUME NEW q \in Makers \ {p}, Verified(q)'
        PROVE  Name(saving'[q]) \in placed' /\ Safe(Name(saving[q]))'
    <3>1. saving'[q] = saving[q]
      BY <1>2
    <3>2. Name(saving[q]) \in placed /\ Safe(Name(saving[q]))
      BY <2>3, <3>1 DEF RetentionInv, PlacedIsArchived
    <3>. QED BY <1>4, <3>1, <3>2 DEF Safe, Present
  <2>. QED BY <1>1, <1>2, <1>4, <2>1, <2>2, <2>3 DEF RetentionInv, PlacedIsArchived
<1>9. MadeIsSafe'
  BY <1>1, <1>2, <1>4, <1>5 DEF RetentionInv, MadeIsSafe, NumbersAreOnce
<1>10. DoomedIsDropped'
  BY <1>1, <1>2, <1>4 DEF RetentionInv, DoomedIsDropped
<1>. QED BY <1>2, <1>6, <1>7, <1>8, <1>9, <1>10 DEF RetentionInv

LEMMA PackKeeps ==
  ASSUME RetentionInv, NEW p \in Makers, Pack(p)
  PROVE  RetentionInv'
<1>. USE DEF Active, Unplaced, Verified
<1>1. /\ IsSlot(saving[p]) /\ saving[p].at = "copy"
      /\ saving[p].kind = (IF p = Restorer THEN "safety" ELSE "backup")
  BY DEF RetentionInv, SlotsAreRecords, Roles, Pack
<1>2. PICK good : archives' = archives \cup {Archive(p, good)}
  BY DEF Pack
<1>3. PICK arch : /\ archives' = archives \cup {arch}
                  /\ arch.n = saving[p].n /\ arch.kind = saving[p].kind
                  /\ Name(arch) = Name(saving[p])
  <2>1. PICK arch : arch = Archive(p, good)
    OBVIOUS
  <2>2. arch.n = saving[p].n /\ arch.kind = saving[p].kind /\ arch.day = saving[p].day
    BY <2>1 DEF Archive
  <2>. QED BY <1>2, <2>1, <2>2 DEF Name
<1>4. PICK rec : /\ Makes(p, rec)
                 /\ rec = [saving[p] EXCEPT !.at = "verify", !.todo = {}, !.got = {},
                                            !.db = EmptyDatabase, !.calm = FALSE]
  BY DEF Pack
<1>5. Onward(rec, p) /\ rec.at = "verify"
  BY <1>1, <1>4 DEF Onward, IsSlot
<1>6. /\ SlotsAreRecords'
      /\ saving'[p] = rec
      /\ \A q \in Makers \ {p} : saving'[q] = saving[q]
  BY <1>4, <1>5, MakesSlot DEF RetentionInv, Onward
<1>7. PICK name : name = Name(saving[p]) /\ name.n = saving[p].n /\ name = Name(name)
  <2>1. PICK name : name = [day |-> saving[p].day, n |-> saving[p].n]
    OBVIOUS
  <2>2. name.n = saving[p].n /\ name.day = saving[p].day
    BY <2>1
  <2>. QED BY <2>1, <2>2 DEF Name
<1>8. /\ stamp' = stamp /\ made' = made /\ dropped' = dropped
      /\ placed' = IF p = Restorer THEN placed ELSE placed \cup {name}
  BY <1>1, <1>7 DEF Pack, clockVars
<1>9. /\ saving[p].n \in Nat /\ saving[p].n < stamp
      /\ \A a \in archives : a.n # saving[p].n
      /\ \A m \in placed : m.n # saving[p].n
  BY <1>1 DEF RetentionInv, NumbersAreOnce, PlacedIsArchived
<1>10. IsFiniteSet(placed) /\ IsFiniteSet(placed') /\ placed \subseteq placed'
  BY <1>8, FS_AddElement DEF RetentionInv, PlacedIsArchived
<1>11. \A m \in placed : m \notin Kept(placed) => m \notin Kept(placed')
  BY <1>10, KeptBefore
<1>12. \A m \in placed : Safe(m) => Safe(m)'
  BY <1>3, <1>8, <1>11 DEF Safe, Present
<1>13. \A q \in Makers :
         /\ saving'[q].n = saving[q].n /\ saving'[q].kind = saving[q].kind
         /\ saving'[q].doomed = saving[q].doomed
         /\ Name(saving'[q]) = Name(saving[q])
         /\ Active(q)' => Active(q)
         /\ Verified(q)' => q # p /\ Verified(q)
         /\ Unplaced(q)' => q # p /\ Unplaced(q)
         /\ saving'[q].at = "tidy" => saving[q].at = "tidy"
         /\ saving'[q].at = "verify" => q = p \/ saving[q].at = "verify"
  <2>1. ASSUME NEW q \in Makers, q # p PROVE saving'[q] = saving[q]
    BY <1>6, <2>1
  <2>. QED BY <1>1, <1>5, <1>6, <2>1 DEF Onward, Name
<1>14. Roles'
  BY <1>13 DEF RetentionInv, Roles
<1>15. NumbersAreOnce'
  BY <1>3, <1>7, <1>8, <1>9, <1>13 DEF RetentionInv, NumbersAreOnce
<1>16. PlacedIsArchived'
  <2>1. \A m \in placed' : m = Name(m)
    BY <1>7, <1>8 DEF RetentionInv, PlacedIsArchived
  <2>2. \A a \in archives' : a.kind = "backup" => Name(a) \in placed'
    BY <1>1, <1>3, <1>7, <1>8 DEF RetentionInv, PlacedIsArchived
  <2>3. ASSUME NEW q \in Makers, Unplaced(q)'
        PROVE  /\ \A a \in archives' : a.n # saving'[q].n
               /\ \A m \in placed' : m.n # saving'[q].n
    <3>1. q # p /\ Unplaced(q) /\ saving'[q].n = saving[q].n
      BY <1>13, <2>3
    <3>2. saving[q].n # saving[p].n
      BY <1>1, <3>1 DEF RetentionInv, NumbersAreOnce
    <3>. QED BY <1>3, <1>7, <1>8, <3>1, <3>2 DEF RetentionInv, PlacedIsArchived
  <2>4. ASSUME NEW q \in Makers, saving'[q].at = "verify", q # Restorer
        PROVE  Name(saving'[q]) \in placed'
    BY <1>7, <1>8, <1>13, <2>4 DEF RetentionInv, PlacedIsArchived
  <2>5. ASSUME NEW q \in Makers, Verified(q)'
        PROVE  Name(saving'[q]) \in placed' /\ Safe(Name(saving[q]))'
    <3>1. Verified(q) /\ Name(saving'[q]) = Name(saving[q])
      BY <1>13, <2>5
    <3>2. Name(saving[q]) \in placed /\ Safe(Name(saving[q]))
      BY <3>1 DEF RetentionInv, PlacedIsArchived
    <3>3. PICK m \in placed : m = Name(saving[q])
      BY <3>2
    <3>4. Safe(m)
      BY <3>2, <3>3 DEF Safe
    <3>5. Safe(m)'
      BY <3>4, <1>12
    <3>6. m = Name(saving'[q])
      BY <3>1, <3>3
    <3>. QED BY <1>8, <3>5, <3>6 DEF Safe
  <2>. QED BY <1>10, <2>1, <2>2, <2>3, <2>4, <2>5 DEF PlacedIsArchived
<1>17. MadeIsSafe'
  BY <1>8, <1>12, <1>13 DEF RetentionInv, MadeIsSafe
<1>18. DoomedIsDropped'
  BY <1>10, <1>11, <1>13 DEF RetentionInv, DoomedIsDropped
<1>. QED BY <1>6, <1>14, <1>15, <1>16, <1>17, <1>18 DEF RetentionInv

-----------------------------------------------------------------------------

LEMMA MakingKeeps ==
  ASSUME RetentionInv, NEW p \in Makers, Making(p)
  PROVE  RetentionInv'
<1>1. CASE BackupAsked(p)
  BY <1>1, BeginKeeps, BackupAssumption DEF BackupAsked
<1>2. CASE BackupFails(p) \/ SaverDies(p)
  BY <1>2, EndKeeps DEF BackupFails, SaverDies, GivesUp, Quiet, clockVars
<1>. QED
  BY <1>1, <1>2, DumpKeeps, PackKeeps, VerifyKeeps, PruneKeeps, DeleteOldKeeps, BackupDoneKeeps,
     TidyFailsKeeps DEF Making

LEMMA RestoringKeeps ==
  ASSUME RetentionInv, Restoring
  PROVE  RetentionInv'
<1>1. Restorer \in Makers
  BY DEF Makers
<1>2. ASSUME NEW a \in archives, RestoreAsked(a) PROVE RetentionInv'
  BY <1>1, <1>2, BeginKeeps DEF RestoreAsked
<1>3. CASE RestorerDies
  BY <1>1, <1>3, EndKeeps DEF RestorerDies, Quiet, clockVars
<1>4. CASE \/ MoveOut \/ MoveIn \/ Import \/ CheckRestored
           \/ \E at \in {"moveout", "movein"} : Compensates(at)
           \/ Reimport \/ Clear \/ MoveBack \/ CheckReinstated
  BY <1>4, CalmKeeps DEF MoveOut, MoveIn, Import, CheckRestored, Compensates, Reimport, Clear,
     MoveBack, CheckReinstated, Quiet, clockVars
<1>. QED BY <1>2, <1>3, <1>4 DEF Restoring

LEMMA InitRetention == BackupInit => RetentionInv
<1>. SUFFICES ASSUME BackupInit PROVE RetentionInv
  OBVIOUS
<1>1. \A p \in Makers : saving[p] = NoBackup
  BY DEF BackupInit
<1>2. SlotsAreRecords
  BY <1>1, EmptySlot DEF BackupInit, SlotsAreRecords, IsSlot
<1>3. Roles /\ DoomedIsDropped
  BY <1>1, EmptySlot DEF Roles, DoomedIsDropped, Active
<1>4. NumbersAreOnce
  BY <1>1, EmptySlot DEF NumbersAreOnce, Active, BackupInit
<1>5. PlacedIsArchived /\ MadeIsSafe
  BY <1>1, EmptySlot, FS_EmptySet
  DEF PlacedIsArchived, MadeIsSafe, Unplaced, Verified, Active, BackupInit
<1>. QED BY <1>2, <1>3, <1>4, <1>5 DEF RetentionInv

LEMMA RetentionKeeps ==
  ASSUME RetentionInv, [BackupNext]_allVars
  PROVE  RetentionInv'
<1>1. CASE Served
  BY <1>1, CalmKeeps DEF Served, Quiet, clockVars
<1>2. CASE UNCHANGED allVars
  BY <1>2, CalmKeeps DEF allVars, backupVars, Quiet, clockVars
<1>. QED BY <1>1, <1>2, MakingKeeps, RestoringKeeps, DeleteBackupKeeps DEF BackupNext

LEMMA RetentionInductive == BackupSpec => []RetentionInv
BY InitRetention, RetentionKeeps, PTL DEF BackupSpec

\* GenerationsAreKept: CreateBackup and PruneBackups running in several
\* processes, on old lists, failing and dying, lose no backup that one pruning
\* of all ever placed would keep, unless DeleteBackup was asked to.
THEOREM GenerationsKept == BackupSpec => []GenerationsAreKept
<1>1. RetentionInv => GenerationsAreKept
  BY DEF RetentionInv, MadeIsSafe, Safe, Present, GenerationsAreKept
<1>. QED BY <1>1, RetentionInductive, PTL

-----------------------------------------------------------------------------
(* What is in the archives *)

\* Rows name files that have been stored, operations have been named, and the
\* places in a storage are <<f>>, or <<o, f>> of such an operation.
DbKnown(d) ==
  /\ d = [rows |-> d.rows, staged |-> d.staged]
  /\ d.rows \subseteq used \ fresh /\ d.staged \subseteq used

IsPlace(e) == e = <<e[1]>> /\ Len(e) = 1
IsTrashed(e) == e = <<e[1], e[2]>> /\ Len(e) = 2 /\ e[1] \in used

PlacesKnown(S) == \A e \in S : IsPlace(e) \/ IsTrashed(e)

RestFields ==
  {"at", "from", "before", "safe", "aside", "moved", "installed", "mutated", "stray", "out"}

IsContent(c) == c = [db |-> c.db, files |-> c.files]

RestIsRecord ==
  /\ RestFields \subseteq DOMAIN rest
  /\ IsContent(rest.from) /\ IsContent(rest.before)

ApplicationKnown ==
  DbKnown(Database) /\ fresh \subseteq used /\ \A t \in trash : IsTrashed(t)

ArchivesKnown ==
  \A a \in archives : DbKnown(a.db) /\ PlacesKnown(a.files)

SlotsKnown ==
  \A p \in Makers :
    DbKnown(saving[p].db) /\ PlacesKnown(saving[p].todo) /\ PlacesKnown(saving[p].got)

RestKnown ==
  /\ DbKnown(rest.from.db) /\ PlacesKnown(rest.from.files) /\ PlacesKnown(rest.aside)

KnownInv ==
  /\ RestIsRecord /\ ApplicationKnown /\ ArchivesKnown /\ SlotsKnown /\ RestKnown

LEMMA StorageKnown ==
  ASSUME \A t \in trash : IsTrashed(t)
  PROVE  PlacesKnown(Storage)
<1>1. \A f \in disk : IsPlace(<<f>>)
  BY DEF IsPlace
<1>. QED BY <1>1 DEF Storage, PlacesKnown

\* What is put in the place of the storage is the storage then.
LEMMA StorageInstalled ==
  ASSUME NEW S, PlacesKnown(S), StorageBecomes(S)
  PROVE  Storage' = S /\ \A t \in trash' : IsTrashed(t)
<1>1. trash' = {e \in S : Len(e) = 2} /\ disk' = {e[1] : e \in {x \in S : Len(x) = 1}}
  BY DEF StorageBecomes
<1>2. \A e \in S : Len(e) = 1 => e = <<e[1]>>
  BY DEF PlacesKnown, IsPlace, IsTrashed
<1>3. \A e \in S : Len(e) \in {1, 2}
  BY DEF PlacesKnown, IsPlace, IsTrashed
<1>4. {<<f>> : f \in disk'} = {e \in S : Len(e) = 1}
  BY <1>1, <1>2
<1>5. Storage' = S
  BY <1>1, <1>3, <1>4 DEF Storage
<1>6. \A t \in trash' : IsTrashed(t)
  BY <1>1 DEF PlacesKnown, IsPlace, IsTrashed
<1>. QED BY <1>5, <1>6

\* The steps of a restore that change storage or database.
Restores == MoveOut \/ MoveIn \/ Import \/ Reimport \/ Clear \/ MoveBack

LEMMA FilesFrame ==
  ASSUME [BackupNext]_allVars
  PROVE  Served \/ FilesStay \/ Restores
<1>1. ASSUME NEW p \in Makers, Making(p) PROVE FilesStay
  BY <1>1 DEF Making, BackupAsked, Dump, Walk, Copy, BackupFails, Pack, Verify, Prune, DeleteOld,
     BackupDone, TidyFails, SaverDies
<1>2. ASSUME Restoring PROVE FilesStay \/ Restores
  BY <1>2 DEF Restoring, Restores, RestoreAsked, CheckRestored, Compensates, CheckReinstated,
     RestorerDies
<1>3. ASSUME UNCHANGED allVars PROVE FilesStay
  BY <1>3 DEF allVars, FilesStay
<1>. QED BY <1>1, <1>2, <1>3 DEF BackupNext, DeleteBackup

LEMMA UsedGrows ==
  ASSUME [BackupNext]_allVars
  PROVE  used \subseteq used' /\ used \ fresh \subseteq used' \ fresh'
<1>1. CASE Served
  BY <1>1 DEF Served, FileNext, Write, Store, GiveUp, Open, Decide, Discard, ToTrash, FromTrash,
     DeleteRows
<1>2. CASE FilesStay \/ Restores
  BY <1>2 DEF FilesStay, fileVars, Restores, OthersStay, MoveOut, MoveIn, Import, Reimport, Clear,
     MoveBack
<1>. QED BY <1>1, <1>2, FilesFrame

\* What is known stays known.
LEMMA StaysKnown ==
  ASSUME [BackupNext]_allVars
  PROVE  /\ \A d : DbKnown(d) => d.rows \subseteq used' \ fresh' /\ d.staged \subseteq used'
         /\ \A e : IsTrashed(e) => e = <<e[1], e[2]>> /\ Len(e) = 2 /\ e[1] \in used'
         /\ \A S : PlacesKnown(S) =>
              \A e \in S : IsPlace(e) \/ (e = <<e[1], e[2]>> /\ Len(e) = 2 /\ e[1] \in used')
BY UsedGrows DEF DbKnown, IsTrashed, PlacesKnown

\* The process goes on with what it has.
SlotKeeps(p) ==
  /\ saving'[p].kind = saving[p].kind /\ saving'[p].day = saving[p].day
  /\ saving'[p].n = saving[p].n
  /\ saving'[p].db = saving[p].db /\ saving'[p].todo = saving[p].todo
  /\ saving'[p].got = saving[p].got
  /\ saving'[p].calm => saving[p].calm
  /\ \/ saving'[p].at = saving[p].at
     \/ Verify(p) /\ Present(saving[p].n)
        /\ saving'[p].at = IF saving[p].kind = "backup" THEN "prune" ELSE "tidy"
     \/ saving[p].at = "prune" /\ saving'[p].at = "delete"

\* It has no contents: it begins, ends, or has made its archive.
SlotEmptied(p) ==
  /\ saving'[p].db = EmptyDatabase /\ saving'[p].todo = {} /\ saving'[p].got = {}
  /\ ~ saving'[p].calm
  /\ \/ saving'[p].at = "idle" /\ saving'[p].doomed = {}
     \/ /\ saving'[p].at = "dump" /\ saving'[p].doomed = {}
        /\ Stamped /\ saving'[p].day = today' /\ saving'[p].n = stamp
     \/ Pack(p) /\ saving'[p].at = "verify" /\ saving'[p].kind = saving[p].kind
        /\ saving'[p].n = saving[p].n /\ saving'[p].day = saving[p].day

SlotFrame(p) ==
  \/ SlotKeeps(p)
  \/ SlotEmptied(p)
  \/ Dump(p) \/ Walk(p) \/ Copy(p)

LEMMA EmptyContents ==
  /\ NoBackup.db = EmptyDatabase /\ NoBackup.todo = {} /\ NoBackup.got = {} /\ ~ NoBackup.calm
  /\ \A kind : LET b == NewBackup(kind)
              IN  /\ b.db = EmptyDatabase /\ b.todo = {} /\ b.got = {} /\ ~ b.calm
                  /\ b.day = today'
<1>1. NoBackup.db = EmptyDatabase /\ NoBackup.todo = {} /\ NoBackup.got = {} /\ ~ NoBackup.calm
  BY DEF NoBackup
<1>. QED BY <1>1, EmptySlot DEF NewBackup, IsSlot

\* What the steps that gather the contents write.
Same(p) ==
  /\ saving'[p].kind = saving[p].kind /\ saving'[p].day = saving[p].day
  /\ saving'[p].n = saving[p].n /\ saving'[p].doomed = saving[p].doomed

LEMMA DumpFields ==
  ASSUME SlotsAreRecords, NEW p \in Makers, Dump(p)
  PROVE  /\ Same(p) /\ saving'[p].at = "walk"
         /\ saving'[p].db = Database /\ saving'[p].calm = Sound
         /\ saving'[p].todo = saving[p].todo /\ saving'[p].got = saving[p].got
<1>1. PICK rec : Makes(p, rec) /\ rec = [saving[p] EXCEPT !.at = "walk", !.db = Database,
                                                         !.calm = Sound]
  BY DEF Dump
<1>2. IsSlot(saving[p])
  BY DEF SlotsAreRecords
<1>3. IsSlot(rec)
  BY <1>1, <1>2 DEF IsSlot
<1>4. saving'[p] = rec
  BY <1>1, <1>3, MakesSlot
<1>. QED BY <1>1, <1>2, <1>4 DEF IsSlot, Same

LEMMA WalkFields ==
  ASSUME SlotsAreRecords, NEW p \in Makers, Walk(p)
  PROVE  /\ Same(p) /\ saving'[p].at = "copy"
         /\ saving'[p].db = saving[p].db /\ saving'[p].calm = saving[p].calm
         /\ saving'[p].todo = Storage /\ saving'[p].got = saving[p].got
<1>1. PICK rec : Makes(p, rec) /\ rec = [saving[p] EXCEPT !.at = "copy", !.todo = Listed]
  BY DEF Walk
<1>2. IsSlot(saving[p])
  BY DEF SlotsAreRecords
<1>3. IsSlot(rec)
  BY <1>1, <1>2 DEF IsSlot
<1>4. saving'[p] = rec
  BY <1>1, <1>3, MakesSlot
<1>. QED BY <1>1, <1>2, <1>4 DEF IsSlot, Same, Listed

LEMMA CopyFields ==
  ASSUME SlotsAreRecords, NEW p \in Makers, Copy(p)
  PROVE  \E e \in saving[p].todo \cap Storage :
           /\ Same(p) /\ saving[p].at = "copy" /\ saving'[p].at = "copy"
           /\ saving'[p].db = saving[p].db /\ saving'[p].calm = saving[p].calm
           /\ saving'[p].todo = saving[p].todo \ {e} /\ saving'[p].got = saving[p].got \cup {e}
<1>0. PICK e \in saving[p].todo \cap Storage :
        Makes(p, [saving[p] EXCEPT !.todo = @ \ {e}, !.got = @ \cup {e}])
  BY DEF Copy
<1>1. PICK rec : Makes(p, rec) /\ rec = [saving[p] EXCEPT !.todo = @ \ {e}, !.got = @ \cup {e}]
  BY <1>0
<1>2. IsSlot(saving[p]) /\ saving[p].at = "copy"
  BY DEF SlotsAreRecords, Copy
<1>3. IsSlot(rec)
  BY <1>1, <1>2 DEF IsSlot
<1>4. saving'[p] = rec
  BY <1>1, <1>3, MakesSlot
<1>. QED BY <1>1, <1>2, <1>4 DEF IsSlot, Same

\* What is archived.
LEMMA PackedArchive ==
  ASSUME NEW p, Pack(p)
  PROVE  /\ saving[p].at = "copy" /\ saving[p].todo = {}
         /\ \E arch : /\ archives' = archives \cup {arch}
                      /\ arch.kind = saving[p].kind /\ arch.day = saving[p].day
                      /\ arch.n = saving[p].n
                      /\ arch.db = saving[p].db /\ arch.files = saving[p].got
                      /\ arch.calm = saving[p].calm
<1>1. PICK good, arch : archives' = archives \cup {arch} /\ arch = Archive(p, good)
  BY DEF Pack
<1>2. /\ arch.kind = saving[p].kind /\ arch.day = saving[p].day /\ arch.n = saving[p].n
      /\ arch.db = saving[p].db /\ arch.files = saving[p].got /\ arch.calm = saving[p].calm
  BY <1>1 DEF Archive, Dumped
<1>. QED BY <1>1, <1>2 DEF Pack

LEMMA SlotsFrame ==
  ASSUME SlotsAreRecords, NEW p \in Makers, Making(p)
  PROVE  SlotFrame(p) /\ \A q \in Makers \ {p} : saving'[q] = saving[q]
<1>. USE DEF SlotFrame
<1>1. IsSlot(saving[p])
  BY DEF SlotsAreRecords
<1>2. ASSUME NEW rec, IsSlot(rec), Makes(p, rec)
      PROVE  saving'[p] = rec /\ \A q \in Makers \ {p} : saving'[q] = saving[q]
  BY <1>2, MakesSlot
<1>3. ASSUME Makes(p, NoBackup)
      PROVE  SlotEmptied(p) /\ \A q \in Makers \ {p} : saving'[q] = saving[q]
  BY <1>2, <1>3, EmptySlot, EmptyContents DEF SlotEmptied
<1>4. CASE BackupAsked(p)
  <2>1. PICK rec : rec = NewBackup("backup") /\ Makes(p, rec)
    BY <1>4 DEF BackupAsked
  <2>2. IsSlot(rec) /\ rec.at = "dump" /\ rec.n = stamp /\ rec.doomed = {}
    BY <2>1, NewSlot
  <2>3. rec.db = EmptyDatabase /\ rec.todo = {} /\ rec.got = {} /\ ~ rec.calm /\ rec.day = today'
    BY <2>1, EmptyContents
  <2>. QED BY <1>2, <1>4, <2>1, <2>2, <2>3 DEF SlotEmptied, BackupAsked
<1>5. CASE \/ BackupFails(p) \/ SaverDies(p) \/ BackupDone(p) \/ TidyFails(p)
           \/ Verify(p) /\ ~ Present(saving[p].n)
  BY <1>3, <1>5 DEF BackupFails, SaverDies, BackupDone, TidyFails, Verify, GivesUp
<1>6. CASE Pack(p)
  <2>1. PICK rec : /\ Makes(p, rec)
                   /\ rec = [saving[p] EXCEPT !.at = "verify", !.todo = {}, !.got = {},
                                              !.db = EmptyDatabase, !.calm = FALSE]
    BY <1>6 DEF Pack
  <2>2. /\ IsSlot(rec) /\ rec.at = "verify" /\ rec.kind = saving[p].kind
        /\ rec.n = saving[p].n /\ rec.day = saving[p].day /\ rec.todo = {} /\ rec.got = {}
        /\ rec.db = EmptyDatabase /\ ~ rec.calm
    BY <1>1, <2>1 DEF IsSlot
  <2>. QED BY <1>2, <1>6, <2>1, <2>2 DEF SlotEmptied
<1>7. CASE Verify(p) /\ Present(saving[p].n)
  <2>1. PICK at, rec : /\ at = (IF saving[p].kind = "backup" THEN "prune" ELSE "tidy")
                       /\ rec = [saving[p] EXCEPT !.at = at]
                       /\ Makes(p, rec)
    BY <1>7 DEF Verify, Makes, MakesOn
  <2>2. /\ IsSlot(rec) /\ rec.at = at /\ rec.kind = saving[p].kind /\ rec.day = saving[p].day
        /\ rec.n = saving[p].n /\ rec.db = saving[p].db /\ rec.todo = saving[p].todo
        /\ rec.got = saving[p].got /\ rec.calm = saving[p].calm
    BY <1>1, <2>1 DEF IsSlot
  <2>. QED BY <1>2, <1>7, <2>1, <2>2 DEF SlotKeeps
<1>8. CASE Prune(p)
  <2>1. PICK list : list = {a.n : a \in Managed \ Kept(Managed)}
    OBVIOUS
  <2>2. PICK rec : Makes(p, rec) /\ rec = [saving[p] EXCEPT !.at = "delete", !.doomed = list]
    BY <1>8, <2>1 DEF Prune
  <2>3. /\ IsSlot(rec) /\ rec.at = "delete" /\ rec.kind = saving[p].kind
        /\ rec.day = saving[p].day
        /\ rec.n = saving[p].n /\ rec.db = saving[p].db /\ rec.todo = saving[p].todo
        /\ rec.got = saving[p].got /\ rec.calm = saving[p].calm
    BY <1>1, <2>2 DEF IsSlot
  <2>. QED BY <1>2, <1>8, <2>2, <2>3 DEF SlotKeeps, Prune
<1>9. CASE DeleteOld(p)
  <2>1. PICK n, rec : Makes(p, rec) /\ rec = [saving[p] EXCEPT !.doomed = @ \ {n}]
    BY <1>9 DEF DeleteOld
  <2>2. /\ IsSlot(rec) /\ rec.at = saving[p].at /\ rec.kind = saving[p].kind
        /\ rec.day = saving[p].day
        /\ rec.n = saving[p].n /\ rec.db = saving[p].db /\ rec.todo = saving[p].todo
        /\ rec.got = saving[p].got /\ rec.calm = saving[p].calm
    BY <1>1, <2>1 DEF IsSlot
  <2>. QED BY <1>2, <2>1, <2>2 DEF SlotKeeps
<1>10. CASE Dump(p)
  <2>1. PICK rec : Makes(p, rec) /\ rec = [saving[p] EXCEPT !.at = "walk", !.db = Database,
                                                            !.calm = Sound]
    BY <1>10 DEF Dump
  <2>. QED BY <1>1, <1>2, <1>10, <2>1 DEF IsSlot
<1>11. CASE Walk(p)
  <2>1. PICK rec : Makes(p, rec) /\ rec = [saving[p] EXCEPT !.at = "copy", !.todo = Listed]
    BY <1>11 DEF Walk
  <2>. QED BY <1>1, <1>2, <1>11, <2>1 DEF IsSlot
<1>12. CASE Copy(p)
  <2>1. PICK e, rec : Makes(p, rec) /\ rec = [saving[p] EXCEPT !.todo = @ \ {e},
                                                               !.got = @ \cup {e}]
    BY <1>12 DEF Copy
  <2>. QED BY <1>1, <1>2, <1>12, <2>1 DEF IsSlot
<1>. QED BY <1>4, <1>5, <1>6, <1>7, <1>8, <1>9, <1>10, <1>11, <1>12 DEF Making

LEMMA ServedKnown ==
  ASSUME ApplicationKnown, Served
  PROVE  ApplicationKnown'
<1>1. /\ rows \subseteq used \ fresh /\ staged \subseteq used /\ fresh \subseteq used
      /\ \A t \in trash : IsTrashed(t)
  BY DEF ApplicationKnown, DbKnown, Database
<1>2. FileNext
  BY DEF Served
<1>3. rows' \subseteq used' \ fresh' /\ staged' \subseteq used' /\ fresh' \subseteq used'
  BY <1>1, <1>2 DEF FileNext, Write, Store, GiveUp, Open, Decide, Discard, ToTrash, FromTrash,
     DeleteRows
<1>4. used \subseteq used'
  BY <1>2 DEF FileNext, Write, Store, GiveUp, Open, Decide, Discard, ToTrash, FromTrash, DeleteRows
<1>5. \A t \in trash' : t \in trash \/ \E o \in staged, f \in Files : t = <<o, f>>
  BY <1>2 DEF FileNext, Write, Store, GiveUp, Open, Decide, Discard, ToTrash, FromTrash, DeleteRows
<1>6. \A o \in staged, f \in Files : IsTrashed(<<o, f>>)
  BY <1>1 DEF IsTrashed
<1>7. \A t \in trash' : IsTrashed(t)
  BY <1>1, <1>5, <1>6
<1>8. \A t \in trash' : IsTrashed(t)'
  BY <1>4, <1>7 DEF IsTrashed
<1>9. DbKnown(Database)'
  BY <1>3 DEF DbKnown, Database
<1>. QED BY <1>3, <1>8, <1>9 DEF ApplicationKnown

LEMMA RestoresKnown ==
  ASSUME KnownInv, Restores
  PROVE  ApplicationKnown'
<1>1. used' = used /\ fresh' = fresh
  BY DEF Restores, MoveOut, MoveIn, Import, Reimport, Clear, MoveBack, OthersStay
<1>2. \/ rows' = rows /\ staged' = staged
      \/ \E d : DbKnown(d) /\ rows' = d.rows /\ staged' = d.staged
  <2>1. CASE Import
    BY <2>1 DEF Import, ImportFails, DatabaseBecomes, DatabaseStays, KnownInv, RestKnown
  <2>2. CASE Reimport
    BY <2>2 DEF Reimport, ImportFails, DatabaseBecomes, DatabaseStays, KnownInv, ArchivesKnown
  <2>. QED BY <2>1, <2>2 DEF Restores, MoveOut, MoveIn, Clear, MoveBack, DatabaseStays
<1>3. DbKnown(Database)'
  BY <1>1, <1>2 DEF DbKnown, Database, KnownInv, ApplicationKnown
<1>4. PlacesKnown(Storage)
  BY StorageKnown DEF KnownInv, ApplicationKnown
<1>5. trash' = trash \/ \E S : PlacesKnown(S) /\ StorageBecomes(S)
  <2>1. CASE MoveOut
    <3>1. PlacesKnown({})
      BY DEF PlacesKnown
    <3>. QED BY <2>1, <3>1 DEF MoveOut
  <2>2. CASE MoveIn
    BY <2>2 DEF MoveIn, KnownInv, RestKnown
  <2>3. CASE Clear
    <3>1. \A kept \in SUBSET Storage : PlacesKnown(kept)
      BY <1>4 DEF PlacesKnown
    <3>2. PlacesKnown({})
      BY DEF PlacesKnown
    <3>. QED BY <1>4, <2>3, <3>1, <3>2 DEF Clear
  <2>4. CASE MoveBack
    BY <1>4, <2>4 DEF MoveBack, Reinstated, StorageStays, KnownInv, RestKnown
  <2>5. CASE Import \/ Reimport
    BY <2>5 DEF Import, Reimport, StorageStays
  <2>. QED BY <2>1, <2>2, <2>3, <2>4, <2>5 DEF Restores
<1>6. \A t \in trash' : IsTrashed(t)
  BY <1>5, StorageInstalled DEF KnownInv, ApplicationKnown
<1>7. \A t \in trash' : IsTrashed(t)'
  BY <1>1, <1>6 DEF IsTrashed
<1>. QED BY <1>1, <1>3, <1>7 DEF KnownInv, ApplicationKnown

LEMMA EmptyRest ==
  /\ RestFields \subseteq DOMAIN NoRestore
  /\ IsContent(NoRestore.from) /\ IsContent(NoRestore.before)
  /\ NoRestore.at = "idle" /\ NoRestore.from.db = EmptyDatabase /\ NoRestore.from.files = {}
  /\ NoRestore.aside = {} /\ NoRestore.mutated = FALSE /\ NoRestore.moved = FALSE
  /\ NoRestore.installed = FALSE /\ NoRestore.stray = FALSE /\ NoRestore.out = "none"
  /\ NoRestore.safe = 0
BY DEF RestFields, NoRestore, IsContent

LEMMA EndedRest ==
  ASSUME NEW out
  PROVE  /\ RestFields \subseteq DOMAIN Ended(out)
         /\ IsContent(Ended(out).from) /\ IsContent(Ended(out).before)
         /\ Ended(out).at = "idle"
         /\ Ended(out).from.db = EmptyDatabase /\ Ended(out).from.files = {}
         /\ Ended(out).aside = {} /\ ~ Ended(out).moved /\ ~ Ended(out).installed
         /\ ~ Ended(out).mutated /\ ~ Ended(out).stray
         /\ Ended(out).out = out
BY EmptyRest DEF Ended, RestFields

\* A restore goes on with the archive it has.
RestKeeps ==
  /\ RestFields \subseteq DOMAIN rest'
  /\ rest'.from = rest.from
  /\ rest'.before \in {rest.before, NoRestore.before}
  /\ rest'.aside \in {rest.aside, Storage}

RestFrame ==
  \/ RestKeeps
  \/ \E out : rest' = Ended(out)
  \/ \E a \in archives : RestoreAsked(a)

LEMMA RestsFrame ==
  ASSUME RestIsRecord, SlotsAreRecords, [BackupNext]_allVars
  PROVE  RestFrame
<1>. USE DEF RestFrame
<1>1. RestFields \subseteq DOMAIN rest
  BY DEF RestIsRecord
<1>2. ASSUME rest' = rest PROVE RestKeeps
  BY <1>1, <1>2 DEF RestKeeps
<1>3. CASE Served
  <2>1. rest' = rest \/ rest' = [rest EXCEPT !.stray = TRUE, !.before = NoRestore.before]
    BY <1>3 DEF Served
  <2>. QED BY <1>1, <1>2, <2>1 DEF RestKeeps, RestFields
<1>4. ASSUME NEW p \in Makers, Making(p) PROVE RestFrame
  <2>1. \/ rest' = rest \/ rest' = Ended("refused")
        \/ rest' = [rest EXCEPT !.at = "moveout", !.safe = saving[p].n, !.mutated = TRUE]
    BY <1>4 DEF Making, BackupAsked, Dump, Walk, Copy, BackupFails, Pack, Verify, Prune, DeleteOld,
       BackupDone, TidyFails, SaverDies, GivesUp
  <2>. QED BY <1>1, <1>2, <2>1 DEF RestKeeps, RestFields
<1>5. CASE MoveOut \/ MoveIn
  <2>1. \/ rest' = [rest EXCEPT !.at = "movein", !.aside = Storage, !.moved = TRUE]
        \/ rest' = [rest EXCEPT !.at = "import", !.installed = TRUE]
    BY <1>5 DEF MoveOut, MoveIn
  <2>. QED BY <1>1, <2>1 DEF RestKeeps, RestFields
<1>6. CASE \/ Import \/ CheckRestored \/ \E at \in {"moveout", "movein"} : Compensates(at)
           \/ Reimport \/ Clear \/ MoveBack \/ CheckReinstated \/ RestorerDies
  <2>1. \/ \E at : rest' = [rest EXCEPT !.at = at]
        \/ \E out : rest' = Ended(out)
    BY <1>6 DEF Import, CheckRestored, Compensates, Reimport, Clear, MoveBack, CheckReinstated,
       RestorerDies, Failed, Unclean
  <2>. QED BY <1>1, <2>1 DEF RestKeeps, RestFields
<1>7. CASE \E a \in archives : DeleteBackup(a)
  BY <1>2, <1>7 DEF DeleteBackup
<1>8. CASE UNCHANGED allVars
  BY <1>2, <1>8 DEF allVars, backupVars
<1>. QED BY <1>3, <1>4, <1>5, <1>6, <1>7, <1>8 DEF BackupNext, Restoring

LEMMA ArchivesFrame ==
  ASSUME [BackupNext]_allVars
  PROVE  archives' \subseteq archives \/ \E p \in Makers : Pack(p)
<1>1. ASSUME NEW p \in Makers, Making(p) PROVE archives' \subseteq archives \/ Pack(p)
  BY <1>1 DEF Making, BackupAsked, Dump, Walk, Copy, BackupFails, Verify, Prune, DeleteOld,
     BackupDone, TidyFails, SaverDies, Without
<1>2. CASE Restoring
  BY <1>2 DEF Restoring, RestoreAsked, MoveOut, MoveIn, Import, CheckRestored, Compensates,
     Reimport, Clear, MoveBack, CheckReinstated, RestorerDies
<1>3. ASSUME NEW a \in archives, DeleteBackup(a) PROVE archives' \subseteq archives
  BY <1>3 DEF DeleteBackup, Without
<1>4. CASE Served \/ UNCHANGED allVars
  BY <1>4 DEF Served, allVars, backupVars
<1>. QED BY <1>1, <1>2, <1>3, <1>4 DEF BackupNext

LEMMA AllSlotsFrame ==
  ASSUME SlotsAreRecords, [BackupNext]_allVars, NEW q \in Makers
  PROVE  SlotFrame(q)
<1>. USE DEF SlotFrame
<1>1. ASSUME saving'[q] = saving[q] PROVE SlotKeeps(q)
  BY <1>1 DEF SlotKeeps
<1>2. ASSUME saving' = NotCalm PROVE SlotKeeps(q)
  <2>1. IsSlot(saving[q]) /\ saving'[q] = [saving[q] EXCEPT !.calm = FALSE]
    BY <1>2 DEF SlotsAreRecords, NotCalm
  <2>. QED BY <2>1 DEF IsSlot, SlotKeeps
<1>3. ASSUME NEW p \in Makers, Making(p) PROVE SlotFrame(q)
  BY <1>1, <1>3, SlotsFrame
<1>4. ASSUME NEW a \in archives, RestoreAsked(a) PROVE SlotFrame(q)
  <2>1. PICK rec : rec = NewBackup("safety") /\ Makes(Restorer, rec) /\ Stamped
    BY <1>4 DEF RestoreAsked
  <2>2. /\ IsSlot(rec) /\ rec.at = "dump" /\ rec.n = stamp /\ rec.doomed = {}
        /\ rec.db = EmptyDatabase /\ rec.todo = {} /\ rec.got = {} /\ ~ rec.calm
        /\ rec.day = today'
    BY <2>1, NewSlot, EmptyContents
  <2>3. Restorer \in Makers
    BY DEF Makers
  <2>4. saving'[Restorer] = rec /\ (q # Restorer => saving'[q] = saving[q])
    BY <2>1, <2>2, <2>3, MakesSlot
  <2>. QED BY <1>1, <2>1, <2>2, <2>4 DEF SlotEmptied
<1>5. CASE RestorerDies
  <2>1. Restorer \in Makers /\ Makes(Restorer, NoBackup)
    BY <1>5 DEF Makers, RestorerDies
  <2>2. saving'[Restorer] = NoBackup /\ (q # Restorer => saving'[q] = saving[q])
    BY <2>1, EmptySlot, MakesSlot
  <2>. QED BY <1>1, <2>2, EmptySlot, EmptyContents DEF SlotEmptied
<1>6. CASE \/ MoveOut \/ MoveIn \/ Import \/ CheckRestored
           \/ \E at \in {"moveout", "movein"} : Compensates(at)
           \/ Reimport \/ Clear \/ MoveBack \/ CheckReinstated
           \/ Served \/ (\E a \in archives : DeleteBackup(a)) \/ UNCHANGED allVars
  <2>1. saving' = NotCalm \/ saving' = saving
    BY <1>6 DEF MoveOut, MoveIn, Import, CheckRestored, Compensates, Reimport, Clear, MoveBack,
       CheckReinstated, Served, DeleteBackup, allVars, backupVars
  <2>. QED BY <1>1, <1>2, <2>1
<1>. QED BY <1>3, <1>4, <1>5, <1>6 DEF BackupNext, Restoring

LEMMA KnownKeeps ==
  ASSUME RetentionInv, KnownInv, [BackupNext]_allVars
  PROVE  KnownInv'
<1>1. ApplicationKnown'
  <2>1. CASE FilesStay
    BY <2>1 DEF FilesStay, fileVars, KnownInv, ApplicationKnown, DbKnown, Database, IsTrashed
  <2>. QED BY <2>1, FilesFrame, ServedKnown, RestoresKnown DEF KnownInv
<1>2. PlacesKnown(Storage) /\ DbKnown(Database)
  BY StorageKnown DEF KnownInv, ApplicationKnown
<1>3. ASSUME NEW d, DbKnown(d) PROVE d.rows \subseteq used' \ fresh' /\ d.staged \subseteq used'
  BY <1>3, StaysKnown
<1>4. ASSUME NEW S, PlacesKnown(S)
      PROVE  \A e \in S : IsPlace(e) \/ (e = <<e[1], e[2]>> /\ Len(e) = 2 /\ e[1] \in used')
  BY <1>4, StaysKnown
<1>. HIDE <1>3, <1>4
<1>5. PlacesKnown({}) /\ DbKnown(EmptyDatabase)
  BY DEF PlacesKnown, DbKnown, EmptyDatabase
<1>6. ASSUME NEW a \in archives' PROVE DbKnown(a.db)' /\ PlacesKnown(a.files)'
  <2>1. DbKnown(a.db) /\ PlacesKnown(a.files)
    <3>1. CASE a \in archives
      BY <3>1 DEF KnownInv, ArchivesKnown
    <3>2. ASSUME NEW p \in Makers, Pack(p), a \notin archives
          PROVE  DbKnown(a.db) /\ PlacesKnown(a.files)
      <4>1. a.db = saving[p].db /\ a.files = saving[p].got
        BY <1>6, <3>2, PackedArchive
      <4>. QED BY <4>1 DEF KnownInv, SlotsKnown
    <3>. QED BY <1>6, <3>1, <3>2, ArchivesFrame
  <2>2. PICK d, S : d = a.db /\ S = a.files
    OBVIOUS
  <2>. QED BY <1>3, <1>4, <2>1, <2>2 DEF DbKnown, PlacesKnown, IsPlace, IsTrashed
<1>7. ASSUME NEW p \in Makers
      PROVE  DbKnown(saving'[p].db) /\ PlacesKnown(saving'[p].todo) /\ PlacesKnown(saving'[p].got)
  <2>1. SlotFrame(p) /\ IsSlot(saving[p])
    BY AllSlotsFrame DEF RetentionInv, SlotsAreRecords
  <2>2. DbKnown(saving[p].db) /\ PlacesKnown(saving[p].todo) /\ PlacesKnown(saving[p].got)
    BY DEF KnownInv, SlotsKnown
  <2>3. CASE SlotKeeps(p)
    BY <2>2, <2>3 DEF SlotKeeps
  <2>4. CASE SlotEmptied(p)
    BY <1>5, <2>4 DEF SlotEmptied
  <2>5. CASE Dump(p)
    BY <1>2, <2>2, <2>5, DumpFields DEF RetentionInv
  <2>6. CASE Walk(p)
    BY <1>2, <2>2, <2>6, WalkFields DEF RetentionInv
  <2>7. CASE Copy(p)
    BY <2>2, <2>7, CopyFields DEF RetentionInv, PlacesKnown
  <2>. QED BY <2>1, <2>3, <2>4, <2>5, <2>6, <2>7 DEF SlotFrame
<1>8. SlotsKnown'
  <2>. SUFFICES ASSUME NEW p \in Makers
                PROVE  /\ DbKnown(saving[p].db)' /\ PlacesKnown(saving[p].todo)'
                       /\ PlacesKnown(saving[p].got)'
    BY DEF SlotsKnown
  <2>1. PICK d, S, T : d = saving'[p].db /\ S = saving'[p].todo /\ T = saving'[p].got
    OBVIOUS
  <2>2. DbKnown(d) /\ PlacesKnown(S) /\ PlacesKnown(T)
    BY <1>7, <2>1
  <2>. QED BY <1>3, <1>4, <2>1, <2>2 DEF DbKnown, PlacesKnown, IsPlace, IsTrashed
<1>9. /\ RestFields \subseteq DOMAIN rest' /\ IsContent(rest'.from) /\ IsContent(rest'.before)
      /\ DbKnown(rest'.from.db) /\ PlacesKnown(rest'.from.files) /\ PlacesKnown(rest'.aside)
  <2>1. RestFrame
    BY RestsFrame DEF KnownInv, RetentionInv
  <2>2. CASE RestKeeps
    BY <1>2, <2>2, EmptyRest DEF RestKeeps, KnownInv, RestKnown, RestIsRecord
  <2>3. ASSUME NEW out, rest' = Ended(out)
        PROVE  /\ RestFields \subseteq DOMAIN rest' /\ IsContent(rest'.from) /\ IsContent(rest'.before)
               /\ DbKnown(rest'.from.db) /\ PlacesKnown(rest'.from.files)
               /\ PlacesKnown(rest'.aside)
    <3>1. IsContent(Ended(out).from) /\ IsContent(Ended(out).before)
      BY EndedRest DEF KnownInv, RestIsRecord
    <3>. QED BY <1>5, <2>3, <3>1, EndedRest
  <2>4. ASSUME NEW a \in archives, RestoreAsked(a)
        PROVE  /\ RestFields \subseteq DOMAIN rest' /\ IsContent(rest'.from) /\ IsContent(rest'.before)
               /\ DbKnown(rest'.from.db) /\ PlacesKnown(rest'.from.files)
               /\ PlacesKnown(rest'.aside)
    <3>1. PICK c : c = [db |-> a.db, files |-> a.files]
      OBVIOUS
    <3>2. rest' = [NoRestore EXCEPT !.at = "safety", !.from = c, !.before = Content]
      BY <2>4, <3>1 DEF RestoreAsked
    <3>3. /\ RestFields \subseteq DOMAIN rest' /\ rest'.from = c /\ rest'.aside = {}
          /\ rest'.before = Content
      BY <3>2, EmptyRest DEF RestFields
    <3>5. IsContent(c) /\ IsContent(Content)
      BY <3>1 DEF IsContent, Content
    <3>4. DbKnown(a.db) /\ PlacesKnown(a.files)
      BY DEF KnownInv, ArchivesKnown
    <3>. QED BY <1>5, <3>1, <3>3, <3>4, <3>5
  <2>. QED BY <2>1, <2>2, <2>3, <2>4 DEF RestFrame
<1>10. RestKnown' /\ RestIsRecord'
  <2>1. PICK d, S, T : d = rest'.from.db /\ S = rest'.from.files /\ T = rest'.aside
    OBVIOUS
  <2>2. DbKnown(d) /\ PlacesKnown(S) /\ PlacesKnown(T)
    BY <1>9, <2>1
  <2>3. RestKnown'
    BY <1>3, <1>4, <2>1, <2>2 DEF RestKnown, DbKnown, PlacesKnown, IsPlace, IsTrashed
  <2>. QED BY <1>9, <2>3 DEF RestIsRecord, IsContent
<1>. QED BY <1>1, <1>6, <1>8, <1>10 DEF KnownInv, ArchivesKnown

-----------------------------------------------------------------------------
(* Archives are complete *)

\* The storage has the file of every row of the database.
Covers(d, S) == \A r \in d.rows : <<r>> \in S \/ \E o \in d.staged : <<o, r>> \in S

\* Between the dump and the listing, deletions that are open now and have files
\* in the trash were open then.
CalmInv ==
  /\ \A a \in archives : a.calm => Covers(a.db, a.files)
  /\ \A p \in Makers :
       saving[p].calm =>
         /\ saving[p].at = "walk" =>
              /\ Covers(saving[p].db, Storage)
              /\ \A t \in trash : t[1] \in staged => t[1] \in saving[p].db.staged
         /\ saving[p].at = "copy" => Covers(saving[p].db, saving[p].todo \cup saving[p].got)

LEMMA CoversMore ==
  ASSUME NEW d, NEW S, NEW T, Covers(d, S), S \subseteq T
  PROVE  Covers(d, T)
BY DEF Covers

\* Requests that leave the trash alone leave the files of the dump where the
\* listing finds them.
LEMMA ServedCovers ==
  ASSUME ApplicationKnown, Served, trash' = trash,
         NEW d, DbKnown(d), Covers(d, Storage),
         \A t \in trash : t[1] \in staged => t[1] \in d.staged
  PROVE  /\ Covers(d, Storage')
         /\ \A t \in trash' : t[1] \in staged' => t[1] \in d.staged
<1>1. FileNext
  BY DEF Served
<1>2. \A t \in trash : t = <<t[1], t[2]>> /\ Len(t) = 2 /\ t[1] \in used
  BY DEF ApplicationKnown, IsTrashed
<1>3. ASSUME NEW f, f \in disk, f \notin disk', f \notin fresh
      PROVE  \E o \in staged : <<o, f>> \in trash'
  BY <1>1, <1>3 DEF FileNext, Write, Store, GiveUp, Open, Decide, Discard, ToTrash, FromTrash,
     DeleteRows
<1>4. \A o \in staged' : o \in staged \/ o \notin used
  BY <1>1 DEF FileNext, Write, Store, GiveUp, Open, Decide, Discard, ToTrash, FromTrash, DeleteRows
<1>5. \A t \in trash' : t[1] \in staged' => t[1] \in d.staged
  BY <1>2, <1>4
<1>6. ASSUME NEW r \in d.rows
      PROVE  <<r>> \in Storage' \/ \E o \in d.staged : <<o, r>> \in Storage'
  <2>1. r \notin fresh
    BY DEF DbKnown
  <2>2. CASE <<r>> \in Storage
    <3>1. Len(<<r>>) = 1
      OBVIOUS
    <3>2. <<r>> \notin trash
      BY <1>2, <3>1
    <3>3. r \in disk
      BY <2>2, <3>2 DEF Storage
    <3>4. CASE r \in disk'
      BY <3>4 DEF Storage
    <3>5. CASE r \notin disk'
      <4>1. PICK o \in staged : <<o, r>> \in trash'
        BY <1>3, <2>1, <3>3, <3>5
      <4>2. o \in d.staged
        <5>1. PICK t \in trash : t = <<o, r>>
          BY <4>1
        <5>2. t[1] = o
          BY <5>1
        <5>. QED BY <4>1, <5>2
      <4>. QED BY <4>1, <4>2 DEF Storage
    <3>. QED BY <3>4, <3>5
  <2>3. ASSUME NEW o \in d.staged, <<o, r>> \in Storage
        PROVE  <<o, r>> \in Storage'
    <3>1. Len(<<o, r>>) = 2 /\ \A f : Len(<<f>>) = 1
      OBVIOUS
    <3>2. <<o, r>> \in trash
      BY <2>3, <3>1 DEF Storage
    <3>. QED BY <3>2 DEF Storage
  <2>. QED BY <2>2, <2>3 DEF Covers
<1>. QED BY <1>5, <1>6 DEF Covers

\* Sound says that the storage covers the database.
LEMMA SoundCovers ==
  ASSUME Sound
  PROVE  Covers(Database, Storage)
BY DEF Sound, Covers, Database, Storage

LEMMA CalmFrame ==
  ASSUME RetentionInv, [BackupNext]_allVars, NEW q \in Makers, saving'[q].calm
  PROVE  \/ UNCHANGED <<disk, trash, rows, staged>>
         \/ Served /\ trash' = trash
<1>1. ASSUME saving' = NotCalm PROVE FALSE
  <2>1. IsSlot(saving[q]) /\ saving'[q] = [saving[q] EXCEPT !.calm = FALSE]
    BY <1>1 DEF NotCalm, RetentionInv, SlotsAreRecords
  <2>. QED BY <2>1 DEF IsSlot
<1>2. CASE Served
  BY <1>1, <1>2 DEF Served
<1>3. CASE FilesStay
  BY <1>3 DEF FilesStay, fileVars
<1>4. CASE Restores
  BY <1>1, <1>4 DEF Restores, MoveOut, MoveIn, Import, Reimport, Clear, MoveBack
<1>. QED BY <1>2, <1>3, <1>4, FilesFrame

LEMMA CalmKeptOn ==
  ASSUME RetentionInv, KnownInv, CalmInv, [BackupNext]_allVars
  PROVE  CalmInv'
<1>1. ASSUME NEW a \in archives', a.calm PROVE Covers(a.db, a.files)
  <2>1. CASE a \in archives
    BY <1>1, <2>1 DEF CalmInv
  <2>2. ASSUME NEW p \in Makers, Pack(p), a \notin archives PROVE Covers(a.db, a.files)
    <3>1. a.db = saving[p].db /\ a.files = saving[p].got /\ saving[p].calm
      <4>1. PICK arch : /\ archives' = archives \cup {arch}
                        /\ arch.db = saving[p].db /\ arch.files = saving[p].got
                        /\ arch.calm = saving[p].calm
        BY <2>2, PackedArchive
      <4>2. a = arch
        BY <1>1, <2>2, <4>1
      <4>3. arch.calm
        BY <1>1, <4>2
      <4>4. saving[p].calm
        BY <4>1, <4>3
      <4>. QED BY <4>1, <4>2, <4>4
    <3>2. saving[p].at = "copy" /\ saving[p].todo = {}
      BY <2>2, PackedArchive
    <3>3. Covers(saving[p].db, saving[p].todo \cup saving[p].got)
      BY <1>1, <3>1, <3>2 DEF CalmInv
    <3>4. saving[p].todo \cup saving[p].got = saving[p].got
      BY <3>2
    <3>. QED BY <3>1, <3>3, <3>4 DEF Covers
  <2>. QED BY <2>1, <2>2, ArchivesFrame
<1>2. ASSUME NEW p \in Makers, saving'[p].calm, saving'[p].at = "walk"
      PROVE  /\ Covers(saving'[p].db, Storage')
             /\ \A t \in trash' : t[1] \in staged' => t[1] \in saving'[p].db.staged
  <2>1. SlotFrame(p) /\ IsSlot(saving[p])
    BY AllSlotsFrame DEF RetentionInv, SlotsAreRecords
  <2>2. CASE SlotKeeps(p)
    <3>1. saving[p].calm /\ saving[p].at = "walk" /\ saving'[p].db = saving[p].db
      BY <1>2, <2>2 DEF SlotKeeps, Verify
    <3>2. PICK d : d = saving[p].db
      OBVIOUS
    <3>3. /\ Covers(d, Storage) /\ DbKnown(d)
          /\ \A t \in trash : t[1] \in staged => t[1] \in d.staged
      BY <3>1, <3>2 DEF CalmInv, KnownInv, SlotsKnown
    <3>4. CASE UNCHANGED <<disk, trash, rows, staged>>
      <4>1. Storage' = Storage
        BY <3>4 DEF Storage
      <4>. QED BY <3>1, <3>2, <3>3, <3>4, <4>1
    <3>5. CASE Served /\ trash' = trash
      BY <3>1, <3>2, <3>3, <3>5, ServedCovers DEF KnownInv
    <3>. QED BY <1>2, <3>4, <3>5, CalmFrame
  <2>3. CASE Dump(p)
    <3>1. saving'[p].db = Database /\ saving'[p].calm = Sound
      BY <2>3, DumpFields DEF RetentionInv
    <3>4. UNCHANGED <<rows, staged, disk, trash>>
      BY <2>3 DEF Dump, FilesStay, fileVars
    <3>5. Covers(Database, Storage)
      BY <1>2, <3>1, SoundCovers
    <3>6. Storage' = Storage
      BY <3>4 DEF Storage
    <3>. QED BY <3>1, <3>4, <3>5, <3>6 DEF Database
  <2>4. CASE SlotEmptied(p)
    BY <1>2, <2>4 DEF SlotEmptied
  <2>5. CASE Walk(p) \/ Copy(p)
    BY <1>2, <2>5, WalkFields, CopyFields DEF RetentionInv
  <2>. QED BY <2>1, <2>2, <2>3, <2>4, <2>5 DEF SlotFrame
<1>3. ASSUME NEW p \in Makers, saving'[p].calm, saving'[p].at = "copy"
      PROVE  Covers(saving'[p].db, saving'[p].todo \cup saving'[p].got)
  <2>1. SlotFrame(p) /\ IsSlot(saving[p])
    BY AllSlotsFrame DEF RetentionInv, SlotsAreRecords
  <2>2. CASE SlotKeeps(p)
    <3>1. /\ saving[p].calm /\ saving[p].at = "copy" /\ saving'[p].db = saving[p].db
          /\ saving'[p].todo = saving[p].todo /\ saving'[p].got = saving[p].got
      BY <1>3, <2>2 DEF SlotKeeps, Verify
    <3>. QED BY <3>1 DEF CalmInv
  <2>3. CASE Walk(p)
    <3>1. /\ saving'[p].db = saving[p].db /\ saving'[p].todo = Storage
          /\ saving'[p].got = saving[p].got /\ saving'[p].calm = saving[p].calm
      BY <2>3, WalkFields DEF RetentionInv
    <3>2. Covers(saving[p].db, Storage)
      BY <1>3, <2>3, <3>1 DEF CalmInv, Walk
    <3>. QED BY <3>1, <3>2, CoversMore
  <2>4. CASE Copy(p)
    <3>1. PICK e \in saving[p].todo :
            /\ saving[p].at = "copy" /\ saving'[p].db = saving[p].db
            /\ saving'[p].calm = saving[p].calm
            /\ saving'[p].todo = saving[p].todo \ {e} /\ saving'[p].got = saving[p].got \cup {e}
      BY <2>4, CopyFields DEF RetentionInv
    <3>2. Covers(saving[p].db, saving[p].todo \cup saving[p].got)
      BY <1>3, <3>1 DEF CalmInv
    <3>3. saving[p].todo \cup saving[p].got = saving'[p].todo \cup saving'[p].got
      BY <3>1
    <3>. QED BY <3>1, <3>2, <3>3
  <2>5. CASE SlotEmptied(p)
    BY <1>3, <2>5 DEF SlotEmptied
  <2>6. CASE Dump(p)
    BY <1>3, <2>6, DumpFields DEF RetentionInv
  <2>. QED BY <2>1, <2>2, <2>3, <2>4, <2>5, <2>6 DEF SlotFrame
<1>. QED BY <1>1, <1>2, <1>3 DEF CalmInv, Covers

-----------------------------------------------------------------------------
(* A restore keeps what was there *)

\* Where a restore is, and what it has done so far.
PhasesFit ==
  /\ rest.at = "safety" <=> Active(Restorer)
  /\ rest.at = "safety" => ~ rest.mutated
  /\ rest.at \notin {"idle", "safety"} => rest.mutated
  /\ rest.installed => rest.moved
  /\ rest.at \in {"idle", "safety", "moveout"} => ~ rest.moved
  /\ rest.at \in {"movein", "import", "check"} => rest.moved

\* A safety archive has no number that a pruning can doom or another process
\* works at.
ArchivesAreOnce == \A a, b \in archives : a.n = b.n => a = b

Apart(n) ==
  /\ n \in Nat /\ n < stamp
  /\ \A m \in placed : m.n # n
  /\ \A p \in Makers : Active(p) => saving[p].n # n

SafetyIsApart ==
  /\ Active(Restorer) => \A m \in placed : m.n # saving[Restorer].n
  /\ rest.mutated => Apart(rest.safe)

Numbered(n) == {a \in archives : a.n = n}

Good(n) == \A a \in Numbered(n) : a.good

\* The archive of that number, unless deleted by hand, has those contents.
Has(n, c) ==
  /\ n \notin dropped => Numbered(n) # {}
  /\ \A a \in Numbered(n) : [db |-> a.db, files |-> a.files] = c

\* It holds what was there.
Holds(n) == Has(n, rest.before)

SafetyArchived ==
  /\ rest.mutated => Good(rest.safe)
  /\ saving[Restorer].at = "tidy" => Good(saving[Restorer].n)
  /\ ~ rest.stray /\ rest.mutated => Holds(rest.safe)
  /\ ~ rest.stray /\ saving[Restorer].at \in {"verify", "tidy"} => Holds(saving[Restorer].n)

\* The safety archives of this restore and of all before it.
SecuredHolds == \A c \in secured : Apart(c.n) /\ Good(c.n) /\ Has(c.n, c.content)

\* What the safety archive is made from.
SafetyGathered ==
  /\ saving[Restorer].at \in {"dump", "walk"} => saving[Restorer].got = {}
  /\ ~ rest.stray =>
       /\ saving[Restorer].at \in {"walk", "copy"} => saving[Restorer].db = rest.before.db
       /\ saving[Restorer].at = "copy" =>
            saving[Restorer].todo \cup saving[Restorer].got = rest.before.files

\* What is where at each step, while no request has interfered.
StepsFit ==
  ~ rest.stray =>
    /\ rest.at \in {"safety", "moveout", "recheck"} => Content = rest.before
    /\ rest.moved => rest.aside = rest.before.files
    /\ rest.at = "import" => Storage = rest.from.files
    /\ rest.at = "check" => Content = rest.from /\ ~ broken
    /\ rest.at \in {"reimport", "clear", "moveback"} /\ ~ rest.moved => Storage = rest.before.files
    /\ rest.at \in {"clear", "moveback"} => Database = rest.before.db

RestoreInv ==
  /\ PhasesFit /\ ArchivesAreOnce /\ SafetyIsApart
  /\ SafetyArchived /\ SecuredHolds /\ SafetyGathered /\ StepsFit

\* Makes the archive of its number, or gives it up.
Spoils(p, n) == Pack(p) \/ TidyFails(p) \/ (Verify(p) /\ ~ Present(n))

NumberedNext(n) == {a \in archives' : a.n = n}

LEMMA NumberFrame ==
  ASSUME [BackupNext]_allVars, NEW n
  PROVE  \/ NumberedNext(n) = Numbered(n)
         \/ NumberedNext(n) \subseteq Numbered(n) /\ n \in dropped'
         \/ \E p \in Makers : saving[p].n = n /\ Spoils(p, n)
         \/ \E p \in Makers : DeleteOld(p) /\ n \in saving[p].doomed
<1>1. ASSUME archives' = archives PROVE NumberedNext(n) = Numbered(n)
  BY <1>1 DEF Numbered, NumberedNext
<1>2. ASSUME NEW k, Without(k), k # n PROVE NumberedNext(n) = Numbered(n)
  BY <1>2 DEF Numbered, NumberedNext, Without
<1>3. ASSUME NEW p \in Makers, Pack(p), saving[p].n # n PROVE NumberedNext(n) = Numbered(n)
  <2>1. PICK arch : archives' = archives \cup {arch} /\ arch.n = saving[p].n
    BY <1>3, PackedArchive
  <2>. QED BY <1>3, <2>1 DEF Numbered, NumberedNext
<1>4. ASSUME NEW p \in Makers, Making(p), ~ Pack(p)
      PROVE  \/ NumberedNext(n) = Numbered(n)
             \/ saving[p].n = n /\ Spoils(p, n)
             \/ DeleteOld(p) /\ n \in saving[p].doomed
  <2>1. CASE Verify(p)
    BY <1>1, <1>2, <2>1 DEF Verify, Spoils
  <2>2. CASE TidyFails(p)
    BY <1>2, <2>2 DEF TidyFails, Spoils
  <2>3. CASE DeleteOld(p)
    BY <1>1, <1>2, <2>3 DEF DeleteOld
  <2>. QED BY <1>1, <1>4, <2>1, <2>2, <2>3 DEF Making, BackupAsked, Dump, Walk, Copy, BackupFails,
              Prune, BackupDone, SaverDies
<1>5. CASE Restoring \/ Served \/ UNCHANGED allVars
  BY <1>1, <1>5 DEF Restoring, RestoreAsked, MoveOut, MoveIn, Import, CheckRestored, Compensates,
     Reimport, Clear, MoveBack, CheckReinstated, RestorerDies, Served, allVars, backupVars
<1>6. ASSUME NEW a \in archives, DeleteBackup(a)
      PROVE  \/ NumberedNext(n) = Numbered(n)
             \/ NumberedNext(n) \subseteq Numbered(n) /\ n \in dropped'
  <2>1. Without(a.n) /\ dropped' = dropped \cup {a.n}
    BY <1>6 DEF DeleteBackup
  <2>2. NumberedNext(n) \subseteq Numbered(n)
    BY <2>1 DEF Numbered, NumberedNext, Without
  <2>. QED BY <1>2, <2>1, <2>2
<1>. QED BY <1>3, <1>4, <1>5, <1>6 DEF BackupNext, Spoils

LEMMA DroppedGrows ==
  ASSUME [BackupNext]_allVars
  PROVE  dropped \subseteq dropped'
BY DEF BackupNext, Making, Restoring, BackupAsked, Dump, Walk, Copy, BackupFails, Pack, Verify,
   Prune, DeleteOld, BackupDone, TidyFails, SaverDies, RestoreAsked, MoveOut, MoveIn, Import,
   CheckRestored, Compensates, Reimport, Clear, MoveBack, CheckReinstated, RestorerDies, Served,
   DeleteBackup, past, allVars, backupVars

\* A safety archive, there or gone by hand, stays as it is.
LEMMA HoldsOn ==
  ASSUME RetentionInv, [BackupNext]_allVars, NEW n,
         \A m \in placed : m.n # n,
         \A p \in Makers : saving[p].n = n => ~ Spoils(p, n)
  PROVE  /\ Good(n) => Good(n)'
         /\ \A c : Has(n, c) => Has(n, c)'
         /\ Holds(n) /\ rest'.before = rest.before => Holds(n)'
<1>1. ~ \E p \in Makers : DeleteOld(p) /\ n \in saving[p].doomed
  BY DEF RetentionInv, DoomedIsDropped
<1>2. ~ \E p \in Makers : saving[p].n = n /\ Spoils(p, n)
  OBVIOUS
<1>3. \/ NumberedNext(n) = Numbered(n)
      \/ NumberedNext(n) \subseteq Numbered(n) /\ n \in dropped'
      \/ \E p \in Makers : saving[p].n = n /\ Spoils(p, n)
      \/ \E p \in Makers : DeleteOld(p) /\ n \in saving[p].doomed
  BY NumberFrame
<1>4. \/ NumberedNext(n) = Numbered(n)
      \/ NumberedNext(n) \subseteq Numbered(n) /\ n \in dropped'
  BY <1>1, <1>2, <1>3
<1>5. Good(n) => Good(n)'
  BY <1>4 DEF Good, Numbered, NumberedNext
<1>6. ASSUME NEW c, Has(n, c) PROVE Has(n, c)'
  BY <1>4, <1>6, DroppedGrows DEF Has, Numbered, NumberedNext
<1>7. Holds(n) /\ rest'.before = rest.before => Holds(n)'
  BY <1>4, DroppedGrows DEF Holds, Has, Numbered, NumberedNext
<1>. QED BY <1>5, <1>6, <1>7

SlotStays(q) ==
  /\ saving'[q].at = saving[q].at /\ saving'[q].kind = saving[q].kind
  /\ saving'[q].day = saving[q].day /\ saving'[q].n = saving[q].n
  /\ saving'[q].db = saving[q].db /\ saving'[q].todo = saving[q].todo
  /\ saving'[q].got = saving[q].got /\ saving'[q].doomed = saving[q].doomed

\* Who writes a process's slot.
LEMMA SlotWriters ==
  ASSUME SlotsAreRecords, [BackupNext]_allVars, NEW q \in Makers
  PROVE  \/ Making(q)
         \/ q = Restorer /\ (RestorerDies \/ \E a \in archives : RestoreAsked(a))
         \/ SlotStays(q)
<1>1. ASSUME saving'[q] = saving[q] PROVE SlotStays(q)
  BY <1>1 DEF SlotStays
<1>2. ASSUME NEW p \in Makers, Making(p), p # q PROVE SlotStays(q)
  BY <1>1, <1>2, SlotsFrame
<1>3. ASSUME saving' = NotCalm PROVE SlotStays(q)
  BY <1>3, CalmSlots, AllSlotsFrame DEF SlotStays, NotCalm, SlotsAreRecords, IsSlot
<1>4. ASSUME NEW rec, IsSlot(rec), Makes(Restorer, rec), q # Restorer PROVE SlotStays(q)
  <2>1. Restorer \in Makers
    BY DEF Makers
  <2>. QED BY <1>1, <1>4, <2>1, MakesSlot
<1>5. ASSUME RestorerDies \/ \E a \in archives : RestoreAsked(a), q # Restorer PROVE SlotStays(q)
  BY <1>4, <1>5, EmptySlot, NewSlot DEF RestorerDies, RestoreAsked
<1>6. CASE \/ MoveOut \/ MoveIn \/ Import \/ CheckRestored
           \/ \E at \in {"moveout", "movein"} : Compensates(at)
           \/ Reimport \/ Clear \/ MoveBack \/ CheckReinstated
           \/ Served \/ (\E a \in archives : DeleteBackup(a)) \/ UNCHANGED allVars
  <2>1. saving' = NotCalm \/ saving' = saving
    BY <1>6 DEF MoveOut, MoveIn, Import, CheckRestored, Compensates, Reimport, Clear, MoveBack,
       CheckReinstated, Served, DeleteBackup, allVars, backupVars
  <2>. QED BY <1>1, <1>3, <2>1
<1>. QED BY <1>2, <1>5, <1>6 DEF BackupNext, Restoring

\* What becomes of the record of what was there.
SafeStays ==
  /\ rest'.mutated <=> rest.mutated
  /\ rest'.safe = rest.safe
  /\ ~ rest'.stray => ~ rest.stray /\ rest'.before = rest.before

\* It is over; its process makes no safety archive, or stops making it.
Closes ==
  /\ \E out : rest' = Ended(out)
  /\ Makes(Restorer, NoBackup) \/ (rest.at # "safety" /\ saving' \in {saving, NotCalm})

LEMMA SafeFrame ==
  ASSUME RestIsRecord, [BackupNext]_allVars
  PROVE  \/ SafeStays
         \/ Closes
         \/ BackupDone(Restorer)
         \/ \E a \in archives : RestoreAsked(a)
<1>1. RestFields \subseteq DOMAIN rest
  BY DEF RestIsRecord
<1>2. ASSUME rest' = rest PROVE SafeStays
  BY <1>2 DEF SafeStays
<1>3. ASSUME NEW at, rest' = [rest EXCEPT !.at = at] PROVE SafeStays
  BY <1>1, <1>3 DEF SafeStays, RestFields
<1>4. CASE Served
  <2>1. rest' = rest \/ rest' = [rest EXCEPT !.stray = TRUE, !.before = NoRestore.before]
    BY <1>4 DEF Served
  <2>2. ASSUME rest' = [rest EXCEPT !.stray = TRUE, !.before = NoRestore.before] PROVE SafeStays
    BY <1>1, <2>2 DEF SafeStays, RestFields
  <2>. QED BY <1>2, <2>1, <2>2
<1>5. ASSUME NEW p \in Makers, Making(p) PROVE SafeStays \/ Closes \/ BackupDone(Restorer)
  <2>1. \/ rest' = rest
        \/ rest' = Ended("refused") /\ Makes(Restorer, NoBackup)
        \/ BackupDone(Restorer)
    BY <1>5 DEF Making, BackupAsked, Dump, Walk, Copy, BackupFails, Pack, Verify, Prune, DeleteOld,
       BackupDone, TidyFails, SaverDies, GivesUp
  <2>. QED BY <1>2, <2>1 DEF Closes
<1>6. CASE RestorerDies
  BY <1>6 DEF RestorerDies, Closes
<1>7. CASE MoveOut \/ MoveIn
  <2>1. \/ rest' = [rest EXCEPT !.at = "movein", !.aside = Storage, !.moved = TRUE]
        \/ rest' = [rest EXCEPT !.at = "import", !.installed = TRUE]
    BY <1>7 DEF MoveOut, MoveIn
  <2>. QED BY <1>1, <2>1 DEF SafeStays, RestFields
<1>8. CASE \/ Import \/ CheckRestored \/ \E at \in {"moveout", "movein"} : Compensates(at)
           \/ Reimport \/ Clear \/ MoveBack \/ CheckReinstated
  <2>1. \/ \E at : rest' = [rest EXCEPT !.at = at]
        \/ \E out : rest' = Ended(out)
    BY <1>8 DEF Import, CheckRestored, Compensates, Reimport, Clear, MoveBack, CheckReinstated,
       Failed, Unclean
  <2>2. rest.at # "safety" /\ saving' \in {saving, NotCalm}
    BY <1>8 DEF Import, CheckRestored, Compensates, Reimport, Clear, MoveBack, CheckReinstated
  <2>. QED BY <1>3, <2>1, <2>2 DEF Closes
<1>9. CASE (\E a \in archives : DeleteBackup(a)) \/ UNCHANGED allVars
  BY <1>2, <1>9 DEF DeleteBackup, allVars, backupVars
<1>. QED BY <1>4, <1>5, <1>6, <1>7, <1>8, <1>9 DEF BackupNext, Restoring

\* Only the completion of a safety archive adds to those that are relied on.
LEMMA SecuredFrame ==
  ASSUME [BackupNext]_allVars
  PROVE  \/ secured' = secured
         \/ BackupDone(Restorer) /\ ~ rest.stray /\ secured' = secured \cup {Secured(Restorer)}
<1>1. ASSUME NEW p \in Makers, BackupDone(p)
      PROVE  \/ secured' = secured
             \/ BackupDone(Restorer) /\ ~ rest.stray /\ secured' = secured \cup {Secured(Restorer)}
  BY <1>1 DEF BackupDone
<1>2. ASSUME NEW p \in Makers, Making(p), ~ BackupDone(p) PROVE secured' = secured
  BY <1>2 DEF Making, BackupAsked, Dump, Walk, Copy, BackupFails, Pack, Verify, Prune, DeleteOld,
     TidyFails, SaverDies, past
<1>3. CASE Restoring \/ Served \/ (\E a \in archives : DeleteBackup(a)) \/ UNCHANGED allVars
  BY <1>3 DEF Restoring, RestoreAsked, MoveOut, MoveIn, Import, CheckRestored, Compensates,
     Reimport, Clear, MoveBack, CheckReinstated, RestorerDies, Served, DeleteBackup, past, allVars,
     backupVars
<1>. QED BY <1>1, <1>2, <1>3 DEF BackupNext

LEMMA PlacedFrame ==
  ASSUME [BackupNext]_allVars
  PROVE  \/ placed' = placed
         \/ \E p \in Makers : /\ Pack(p)
                              /\ saving[p].kind = "backup"
                              /\ placed' = placed \cup {Name(saving[p])}
<1>1. ASSUME NEW p \in Makers, Making(p)
      PROVE  placed' = placed
             \/ (Pack(p) /\ saving[p].kind = "backup" /\ placed' = placed \cup {Name(saving[p])})
  BY <1>1 DEF Making, BackupAsked, Dump, Walk, Copy, BackupFails, Pack, Verify, Prune, DeleteOld,
     BackupDone, TidyFails, SaverDies, past
<1>2. CASE Restoring \/ Served \/ (\E a \in archives : DeleteBackup(a)) \/ UNCHANGED allVars
  BY <1>2 DEF Restoring, RestoreAsked, MoveOut, MoveIn, Import, CheckRestored, Compensates,
     Reimport, Clear, MoveBack, CheckReinstated, RestorerDies, Served, DeleteBackup, past, allVars,
     backupVars
<1>. QED BY <1>1, <1>2 DEF BackupNext

LEMMA StampFrame ==
  ASSUME [BackupNext]_allVars
  PROVE  stamp' = stamp \/ stamp' = stamp + 1
BY DEF BackupNext, Making, Restoring, BackupAsked, Dump, Walk, Copy, BackupFails, Pack, Verify,
   Prune, DeleteOld, BackupDone, TidyFails, SaverDies, RestoreAsked, MoveOut, MoveIn, Import,
   CheckRestored, Compensates, Reimport, Clear, MoveBack, CheckReinstated, RestorerDies, Served,
   DeleteBackup, Stamped, clockVars, allVars, backupVars

\* A process at work had its number, or has a new one.
LEMMA BusyFrame ==
  ASSUME SlotsAreRecords, [BackupNext]_allVars, NEW q \in Makers, saving'[q].at # "idle"
  PROVE  \/ Active(q) /\ saving'[q].n = saving[q].n
         \/ saving'[q].n = stamp
<1>1. SlotFrame(q)
  BY AllSlotsFrame
<1>2. CASE SlotKeeps(q)
  BY <1>2 DEF SlotKeeps, Active, Verify
<1>3. CASE SlotEmptied(q)
  BY <1>3 DEF SlotEmptied, Active, Pack
<1>4. CASE Dump(q) \/ Walk(q) \/ Copy(q)
  BY <1>4, DumpFields, WalkFields, CopyFields DEF Active, Same, Dump, Walk
<1>. QED BY <1>1, <1>2, <1>3, <1>4 DEF SlotFrame

LEMMA OnceKeeps ==
  ASSUME RetentionInv, ArchivesAreOnce, [BackupNext]_allVars
  PROVE  ArchivesAreOnce'
<1>1. ASSUME NEW p \in Makers, Pack(p) PROVE ArchivesAreOnce'
  <2>1. PICK arch : archives' = archives \cup {arch} /\ arch.n = saving[p].n
    BY <1>1, PackedArchive
  <2>2. \A a \in archives : a.n # saving[p].n
    BY <1>1 DEF Pack, RetentionInv, PlacedIsArchived, Unplaced
  <2>. QED BY <2>1, <2>2 DEF ArchivesAreOnce
<1>. QED BY <1>1, ArchivesFrame DEF ArchivesAreOnce

\* A number that is nobody's, and of no backup, stays so.
LEMMA NumberStaysApart ==
  ASSUME RetentionInv, [BackupNext]_allVars, NEW n, Apart(n)
  PROVE  Apart(n)'
<1>1. stamp \in Nat /\ stamp' \in Nat /\ stamp' >= stamp
  BY StampFrame DEF RetentionInv, NumbersAreOnce
<1>2. ASSUME NEW m \in placed' PROVE m.n # n
  <2>1. CASE m \in placed
    BY <2>1 DEF Apart
  <2>2. CASE m \notin placed
    <3>1. PICK p \in Makers : Pack(p) /\ m = Name(saving[p])
      BY <1>2, <2>2, PlacedFrame
    <3>2. Active(p)
      BY <3>1 DEF Pack, Active
    <3>. QED BY <3>1, <3>2 DEF Name, Apart
  <2>. QED BY <2>1, <2>2
<1>3. ASSUME NEW p \in Makers, saving'[p].at # "idle" PROVE saving'[p].n # n
  BY <1>1, <1>3, BusyFrame DEF Apart, RetentionInv
<1>. QED BY <1>1, <1>2, <1>3 DEF Apart, Active

\* The number of the safety archive just made is no longer anybody's.
LEMMA DoneApart ==
  ASSUME RetentionInv, SafetyIsApart, [BackupNext]_allVars, BackupDone(Restorer),
         NEW n, n = saving[Restorer].n
  PROVE  Apart(n)'
<1>1. Restorer \in Makers /\ SlotsAreRecords
  BY DEF Makers, RetentionInv
<1>2. Active(Restorer) /\ Makes(Restorer, NoBackup) /\ placed' = placed /\ stamp' = stamp
  BY DEF BackupDone, Tidying, Active, clockVars
<1>3. saving'[Restorer] = NoBackup /\ \A q \in Makers \ {Restorer} : saving'[q] = saving[q]
  BY <1>1, <1>2, EmptySlot, MakesSlot
<1>4. n \in Nat /\ n < stamp
  BY <1>1, <1>2 DEF RetentionInv, NumbersAreOnce
<1>5. ASSUME NEW p \in Makers, saving'[p].at # "idle" PROVE saving'[p].n # n
  <2>1. p # Restorer /\ saving'[p] = saving[p]
    BY <1>3, <1>5, EmptySlot
  <2>. QED BY <1>1, <1>2, <1>5, <2>1 DEF Active, RetentionInv, NumbersAreOnce
<1>. QED BY <1>2, <1>4, <1>5 DEF SafetyIsApart, Apart, Active

LEMMA ApartKeeps ==
  ASSUME RetentionInv, RestIsRecord, SafetyIsApart, [BackupNext]_allVars
  PROVE  SafetyIsApart'
<1>1. Restorer \in Makers /\ SlotsAreRecords
  BY DEF Makers, RetentionInv
<1>2. ASSUME NEW p \in Makers, Pack(p), saving[p].kind = "backup"
      PROVE  /\ p # Restorer /\ Active(p)
             /\ Active(Restorer) => saving[p].n # saving[Restorer].n
  BY <1>1, <1>2 DEF Pack, Active, RetentionInv, Roles, NumbersAreOnce
<1>3. stamp \in Nat /\ \A m \in placed : m.n \in Nat /\ m.n < stamp
  BY DEF RetentionInv, NumbersAreOnce
<1>4. ASSUME saving'[Restorer].at # "idle", NEW m \in placed' PROVE m.n # saving'[Restorer].n
  <2>1. \/ Active(Restorer) /\ saving'[Restorer].n = saving[Restorer].n
        \/ saving'[Restorer].n = stamp
    BY <1>1, <1>4, BusyFrame
  <2>2. CASE m \in placed
    BY <1>3, <2>1, <2>2 DEF SafetyIsApart
  <2>3. CASE m \notin placed
    <3>1. PICK p \in Makers : Pack(p) /\ saving[p].kind = "backup" /\ m = Name(saving[p])
      BY <1>4, <2>3, PlacedFrame
    <3>2. p # Restorer /\ saving[p].n \in Nat /\ saving[p].n < stamp /\ m.n = saving[p].n
      BY <1>2, <3>1 DEF Name, RetentionInv, NumbersAreOnce
    <3>. QED BY <1>2, <1>3, <2>1, <3>1, <3>2
  <2>. QED BY <2>2, <2>3
<1>5. ASSUME rest'.mutated PROVE Apart(rest.safe)'
  <2>1. CASE SafeStays
    <3>1. PICK n : n = rest.safe
      OBVIOUS
    <3>2. rest'.safe = n /\ Apart(n)
      BY <1>5, <2>1, <3>1 DEF SafeStays, SafetyIsApart
    <3>3. Apart(n)'
      BY <3>2, NumberStaysApart
    <3>. QED BY <3>2, <3>3 DEF Apart
  <2>2. CASE BackupDone(Restorer)
    <3>1. PICK n : n = saving[Restorer].n
      OBVIOUS
    <3>2. rest'.safe = n
      BY <2>2, <3>1 DEF BackupDone, RestIsRecord, RestFields
    <3>3. Apart(n)'
      BY <2>2, <3>1, DoneApart
    <3>. QED BY <3>2, <3>3 DEF Apart
  <2>3. CASE Closes
    BY <1>5, <2>3, EndedRest DEF Closes
  <2>4. ASSUME NEW a \in archives, RestoreAsked(a) PROVE FALSE
    BY <1>5, <2>4, EmptyRest DEF RestoreAsked, RestFields
  <2>. QED BY <2>1, <2>2, <2>3, <2>4, SafeFrame
<1>. QED BY <1>4, <1>5 DEF SafetyIsApart, Active

\* Nobody else spoils an archive that a restore has kept or is making.
LEMMA SafeUnspoilt ==
  ASSUME RetentionInv, SafetyIsApart
  PROVE  /\ \A n : Active(Restorer) /\ n = saving[Restorer].n =>
              /\ \A m \in placed : m.n # n
              /\ \A p \in Makers \ {Restorer} : saving[p].n = n => ~ Spoils(p, n)
         /\ \A n : Apart(n) =>
              /\ \A m \in placed : m.n # n
              /\ \A p \in Makers : saving[p].n = n => ~ Spoils(p, n)
<1>1. ASSUME NEW p \in Makers, NEW n, Spoils(p, n) PROVE Active(p)
  BY <1>1 DEF Spoils, Pack, TidyFails, Tidying, Verify, Active
<1>2. Restorer \in Makers
  BY DEF Makers
<1>3. \A p \in Makers \ {Restorer} : Active(p) /\ Active(Restorer) => saving[p].n # saving[Restorer].n
  BY <1>2 DEF RetentionInv, NumbersAreOnce
<1>. QED BY <1>1, <1>3 DEF SafetyIsApart, Apart

\* The kept archive.
LEMMA KeptHolds ==
  ASSUME RetentionInv, RestIsRecord, SafetyIsApart, SafetyArchived, [BackupNext]_allVars,
         rest'.mutated, NEW n, n = rest'.safe
  PROVE  Good(n)' /\ (~ rest'.stray => Holds(n)')
<1>1. CASE SafeStays
  <2>1. rest.mutated /\ n = rest.safe /\ Apart(n)
    BY <1>1 DEF SafeStays, SafetyIsApart
  <2>2. (\A m \in placed : m.n # n) /\ \A p \in Makers : saving[p].n = n => ~ Spoils(p, n)
    BY <2>1, SafeUnspoilt
  <2>3. Good(n) /\ (~ rest.stray => Holds(n))
    BY <2>1 DEF SafetyArchived
  <2>4. ~ rest'.stray => ~ rest.stray /\ rest'.before = rest.before
    BY <1>1 DEF SafeStays
  <2>5. (Good(n) => Good(n)') /\ (Holds(n) /\ rest'.before = rest.before => Holds(n)')
    BY <2>2, HoldsOn
  <2>. QED BY <2>3, <2>4, <2>5
<1>2. CASE BackupDone(Restorer)
  <2>1. saving[Restorer].at = "tidy"
    BY <1>2 DEF BackupDone, Tidying, RetentionInv, Roles, Verified, Active, Makers
  <2>2. /\ n = saving[Restorer].n /\ rest'.before = rest.before /\ rest'.stray = rest.stray
        /\ archives' = archives /\ dropped' = dropped
    BY <1>2 DEF BackupDone, RestIsRecord, RestFields
  <2>3. Good(n) /\ (~ rest.stray => Holds(n))
    BY <2>1, <2>2 DEF SafetyArchived
  <2>. QED BY <2>2, <2>3 DEF Good, Holds, Has, Numbered
<1>3. ASSUME NEW a \in archives, RestoreAsked(a) PROVE ~ rest'.mutated
  BY <1>3, EmptyRest DEF RestoreAsked, RestFields
<1>4. CASE Closes
  BY <1>4, EndedRest DEF Closes
<1>. QED BY <1>1, <1>2, <1>3, <1>4, SafeFrame

\* The process of a restore that has the slot it had.
LEMMA RestorerStays ==
  ASSUME RetentionInv, RestIsRecord, PhasesFit, [BackupNext]_allVars,
         saving'[Restorer].at \in {"walk", "copy", "verify", "tidy"}
  PROVE  SafeStays
<1>1. Restorer \in Makers /\ SlotsAreRecords
  BY DEF Makers, RetentionInv
<1>2. ASSUME BackupDone(Restorer) PROVE FALSE
  <2>1. Makes(Restorer, NoBackup)
    BY <1>2 DEF BackupDone
  <2>. QED BY <1>1, <2>1, EmptySlot, MakesSlot
<1>3. ASSUME NEW a \in archives, RestoreAsked(a) PROVE FALSE
  <2>1. PICK rec : rec = NewBackup("safety") /\ Makes(Restorer, rec)
    BY <1>3 DEF RestoreAsked
  <2>2. saving'[Restorer] = rec /\ rec.at = "dump"
    BY <1>1, <2>1, NewSlot, MakesSlot
  <2>. QED BY <2>2
<1>4. ASSUME Closes PROVE FALSE
  <2>1. CASE Makes(Restorer, NoBackup)
    BY <1>1, <2>1, EmptySlot, MakesSlot
  <2>2. CASE rest.at # "safety" /\ saving' \in {saving, NotCalm}
    <3>1. saving[Restorer].at = "idle"
      BY <2>2 DEF PhasesFit, Active
    <3>2. saving'[Restorer].at = saving[Restorer].at
      BY <1>1, <2>2, CalmSlots
    <3>. QED BY <3>1, <3>2
  <2>. QED BY <1>4, <2>1, <2>2 DEF Closes
<1>. QED BY <1>2, <1>3, <1>4, SafeFrame

\* The archive being made.
LEMMA MadeHolds ==
  ASSUME RetentionInv, RestIsRecord, PhasesFit, ArchivesAreOnce, SafetyIsApart, SafetyArchived,
         SafetyGathered, [BackupNext]_allVars,
         saving'[Restorer].at \in {"verify", "tidy"}, NEW n, n = saving'[Restorer].n
  PROVE  /\ saving'[Restorer].at = "tidy" => Good(n)'
         /\ ~ rest'.stray => Holds(n)'
<1>1. Restorer \in Makers /\ SlotsAreRecords
  BY DEF Makers, RetentionInv
<1>2. ~ rest'.stray => ~ rest.stray /\ rest'.before = rest.before
  BY RestorerStays DEF SafeStays
<1>3. CASE Pack(Restorer) /\ saving'[Restorer].n = saving[Restorer].n /\ saving'[Restorer].at = "verify"
  <2>1. saving[Restorer].at = "copy" /\ saving[Restorer].todo = {}
    BY <1>3, PackedArchive
  <2>2. PICK arch : /\ archives' = archives \cup {arch} /\ arch.n = n
                    /\ arch.db = saving[Restorer].db /\ arch.files = saving[Restorer].got
    BY <1>3, PackedArchive
  <2>3. \A a \in archives : a.n # n
    BY <1>1, <1>3, <2>1 DEF RetentionInv, PlacedIsArchived, Unplaced
  <2>4. ASSUME ~ rest'.stray PROVE Holds(n)'
    <3>1. saving[Restorer].db = rest.before.db /\ saving[Restorer].got = rest.before.files
      BY <1>2, <2>1, <2>4 DEF SafetyGathered
    <3>2. [db |-> arch.db, files |-> arch.files] = rest'.before
      BY <1>2, <2>2, <2>4, <3>1 DEF RestIsRecord, IsContent
    <3>. QED BY <2>2, <2>3, <3>2 DEF Holds, Has, Numbered
  <2>. QED BY <1>3, <2>4
<1>4. CASE /\ saving[Restorer].at = saving'[Restorer].at
           /\ saving[Restorer].n = n
  <2>1. ~ Spoils(Restorer, n)
    <3>1. ASSUME TidyFails(Restorer) PROVE FALSE
      <4>1. Makes(Restorer, NoBackup)
        BY <3>1 DEF TidyFails, GivesUp
      <4>. QED BY <1>1, <4>1, EmptySlot, MakesSlot
    <3>2. ASSUME Verify(Restorer), ~ Present(n) PROVE FALSE
      <4>1. Makes(Restorer, NoBackup)
        BY <1>4, <3>2 DEF Verify, GivesUp
      <4>. QED BY <1>1, <4>1, EmptySlot, MakesSlot
    <3>. QED BY <1>4, <3>1, <3>2 DEF Spoils, Pack
  <2>2. (\A m \in placed : m.n # n) /\ \A p \in Makers : saving[p].n = n => ~ Spoils(p, n)
    <3>1. Active(Restorer)
      BY <1>4 DEF Active
    <3>. QED BY <1>4, <2>1, <3>1, SafeUnspoilt
  <2>3. (Good(n) => Good(n)') /\ (Holds(n) /\ rest'.before = rest.before => Holds(n)')
    BY <2>2, HoldsOn
  <2>. QED BY <1>2, <1>4, <2>3 DEF SafetyArchived
<1>5. CASE /\ Verify(Restorer) /\ Present(n) /\ saving[Restorer].n = n
           /\ saving[Restorer].at = "verify"
  <2>1. archives' = archives /\ dropped' = dropped
    BY <1>5 DEF Verify, past
  <2>2. Good(n)
    BY <1>5 DEF Present, ArchivesAreOnce, Good, Numbered
  <2>3. ~ rest.stray => Holds(n)
    BY <1>5 DEF SafetyArchived
  <2>. QED BY <1>2, <2>1, <2>2, <2>3 DEF Good, Holds, Has, Numbered
<1>6. SlotFrame(Restorer)
  BY <1>1, AllSlotsFrame
<1>7. CASE SlotKeeps(Restorer)
  BY <1>4, <1>5, <1>7 DEF SlotKeeps, Verify
<1>8. CASE SlotEmptied(Restorer)
  BY <1>3, <1>8 DEF SlotEmptied
<1>9. CASE Dump(Restorer) \/ Walk(Restorer) \/ Copy(Restorer)
  BY <1>1, <1>9, DumpFields, WalkFields, CopyFields
<1>. QED BY <1>6, <1>7, <1>8, <1>9 DEF SlotFrame

LEMMA ArchivedKeeps ==
  ASSUME RetentionInv, RestIsRecord, PhasesFit, ArchivesAreOnce, SafetyIsApart, SafetyArchived,
         SafetyGathered, [BackupNext]_allVars
  PROVE  SafetyArchived'
BY KeptHolds, MadeHolds DEF SafetyArchived, Good, Holds, Has, Numbered

\* What a restore has relied on stays, and what it comes to rely on is there.
LEMMA SecuredKeeps ==
  ASSUME RetentionInv, SafetyIsApart, SafetyArchived, SecuredHolds, [BackupNext]_allVars
  PROVE  SecuredHolds'
<1>1. ASSUME NEW c \in secured PROVE (Apart(c.n) /\ Good(c.n) /\ Has(c.n, c.content))'
  <2>1. PICK n, content : n = c.n /\ content = c.content
    OBVIOUS
  <2>2. Apart(n) /\ Good(n) /\ Has(n, content)
    BY <2>1 DEF SecuredHolds
  <2>3. (\A m \in placed : m.n # n) /\ \A p \in Makers : saving[p].n = n => ~ Spoils(p, n)
    BY <2>2, SafeUnspoilt
  <2>4. Apart(n)' /\ Good(n)' /\ Has(n, content)'
    BY <2>2, <2>3, NumberStaysApart, HoldsOn
  <2>. QED BY <2>1, <2>4
<1>2. ASSUME BackupDone(Restorer), ~ rest.stray,
             NEW c, c = Secured(Restorer)
      PROVE  (Apart(c.n) /\ Good(c.n) /\ Has(c.n, c.content))'
  <2>1. c.n = saving[Restorer].n /\ c.content = rest.before
    BY <1>2 DEF Secured
  <2>2. PICK n, content : n = saving[Restorer].n /\ content = rest.before
    OBVIOUS
  <2>3. saving[Restorer].at = "tidy" /\ archives' = archives /\ dropped' = dropped
    BY <1>2 DEF BackupDone, Tidying, RetentionInv, Roles, Verified, Active, Makers
  <2>4. Good(n) /\ Has(n, content)
    BY <1>2, <2>2, <2>3 DEF SafetyArchived, Holds
  <2>5. Good(n)' /\ Has(n, content)'
    BY <2>3, <2>4 DEF Good, Has, Numbered
  <2>6. Apart(n)'
    BY <1>2, <2>2, DoneApart
  <2>. QED BY <2>1, <2>2, <2>5, <2>6
<1>3. CASE secured' = secured
  BY <1>1, <1>3 DEF SecuredHolds
<1>4. CASE /\ BackupDone(Restorer) /\ ~ rest.stray
           /\ secured' = secured \cup {Secured(Restorer)}
  BY <1>1, <1>2, <1>4 DEF SecuredHolds
<1>. QED BY <1>3, <1>4, SecuredFrame

LEMMA GatheredKeeps ==
  ASSUME RetentionInv, RestIsRecord, PhasesFit, SafetyGathered, StepsFit, [BackupNext]_allVars
  PROVE  SafetyGathered'
<1>1. Restorer \in Makers /\ SlotsAreRecords /\ SlotFrame(Restorer)
  BY AllSlotsFrame DEF Makers, RetentionInv
<1>2. saving'[Restorer].at \in {"dump", "walk"} => saving'[Restorer].got = {}
  <2>1. CASE SlotKeeps(Restorer)
    BY <2>1 DEF SlotKeeps, SafetyGathered, Verify
  <2>2. CASE SlotEmptied(Restorer)
    BY <2>2 DEF SlotEmptied
  <2>3. CASE Dump(Restorer) \/ Walk(Restorer) \/ Copy(Restorer)
    BY <1>1, <2>3, DumpFields, WalkFields, CopyFields DEF Dump, SafetyGathered
  <2>. QED BY <1>1, <2>1, <2>2, <2>3 DEF SlotFrame
<1>3. ASSUME ~ rest'.stray, saving'[Restorer].at \in {"walk", "copy"}
      PROVE  /\ saving'[Restorer].db = rest'.before.db
             /\ saving'[Restorer].at = "copy" =>
                  saving'[Restorer].todo \cup saving'[Restorer].got = rest'.before.files
  <2>1. ~ rest.stray /\ rest'.before = rest.before
    BY <1>3, RestorerStays DEF SafeStays
  <2>2. CASE SlotKeeps(Restorer)
    BY <1>3, <2>1, <2>2 DEF SlotKeeps, SafetyGathered, Verify
  <2>3. CASE SlotEmptied(Restorer)
    BY <1>3, <2>3 DEF SlotEmptied
  <2>4. ASSUME Active(Restorer) PROVE Database = rest.before.db /\ Storage = rest.before.files
    <3>1. Content = rest.before
      BY <2>1, <2>4 DEF PhasesFit, StepsFit
    <3>. QED BY <3>1 DEF Content
  <2>5. CASE Dump(Restorer)
    BY <1>1, <2>1, <2>4, <2>5, DumpFields DEF Dump, Active
  <2>6. CASE Walk(Restorer)
    BY <1>1, <2>1, <2>4, <2>6, WalkFields DEF Walk, Active, SafetyGathered
  <2>7. CASE Copy(Restorer)
    <3>1. PICK e \in saving[Restorer].todo \cap Storage :
            /\ saving[Restorer].at = "copy" /\ saving'[Restorer].db = saving[Restorer].db
            /\ saving'[Restorer].todo = saving[Restorer].todo \ {e}
            /\ saving'[Restorer].got = saving[Restorer].got \cup {e}
      BY <1>1, <2>7, CopyFields
    <3>2. saving'[Restorer].todo \cup saving'[Restorer].got
            = saving[Restorer].todo \cup saving[Restorer].got
      BY <3>1
    <3>. QED BY <2>1, <3>1, <3>2 DEF SafetyGathered
  <2>. QED BY <1>1, <2>2, <2>3, <2>5, <2>6, <2>7 DEF SlotFrame
<1>. QED BY <1>2, <1>3 DEF SafetyGathered

-----------------------------------------------------------------------------
(* The steps of a restore *)

RestFits == PhasesFit /\ StepsFit

\* What is the same when the application's data are.
LEMMA ContentStays ==
  ASSUME FilesStay
  PROVE  Database' = Database /\ Storage' = Storage /\ Content' = Content
BY DEF FilesStay, fileVars, Database, Storage, Content

\* A restore that has ended, however it has.
LEMMA EndedFits ==
  ASSUME NEW out, rest' = Ended(out), saving'[Restorer].at = "idle"
  PROVE  RestFits'
<1>1. rest'.at = "idle" /\ ~ rest'.moved /\ ~ rest'.installed
  BY EndedRest
<1>. QED BY <1>1 DEF RestFits, PhasesFit, StepsFit, Active

\* A step beside the restore that leaves it and the data as they are.
LEMMA AsideFits ==
  ASSUME RestFits, rest' = rest, broken' = broken, Content' = Content,
         saving'[Restorer].at = "idle" <=> saving[Restorer].at = "idle"
  PROVE  RestFits'
<1>1. Database' = Database /\ Storage' = Storage
  BY DEF Content
<1>. QED BY <1>1 DEF RestFits, PhasesFit, StepsFit, Active

LEMMA OthersFit ==
  ASSUME RetentionInv, RestFits, NEW p \in Savers, Making(p)
  PROVE  RestFits'
<1>1. p \in Makers /\ p # Restorer /\ Restorer \in Makers
  BY BackupAssumption DEF Makers
<1>2. saving'[Restorer] = saving[Restorer]
  BY <1>1, SlotsFrame DEF RetentionInv
<1>3. rest' = rest /\ broken' = broken /\ FilesStay
  BY <1>1 DEF Making, BackupAsked, Dump, Walk, Copy, BackupFails, Pack, Verify, Prune, DeleteOld,
     BackupDone, TidyFails, SaverDies, GivesUp
<1>. QED BY <1>2, <1>3, ContentStays, AsideFits

LEMMA MakingSafetyFits ==
  ASSUME RetentionInv, RestIsRecord, RestFits, Making(Restorer)
  PROVE  RestFits'
<1>1. Restorer \in Makers /\ SlotsAreRecords /\ Restorer \notin Savers
  BY BackupAssumption DEF Makers, RetentionInv
<1>2. FilesStay /\ broken' = broken
  BY DEF Making, BackupAsked, Dump, Walk, Copy, BackupFails, Pack, Verify, Prune, DeleteOld,
     BackupDone, TidyFails, SaverDies
<1>3. Active(Restorer) /\ ~ Verified(Restorer)
  BY <1>1 DEF Making, BackupAsked, Dump, Walk, Copy, BackupFails, Pack, Verify, Prune, DeleteOld,
     BackupDone, TidyFails, SaverDies, Tidying, Active, Verified, RetentionInv, Roles
<1>4. ASSUME Makes(Restorer, NoBackup) PROVE saving'[Restorer].at = "idle"
  BY <1>1, <1>4, EmptySlot, MakesSlot
<1>5. CASE rest' = Ended("refused") /\ Makes(Restorer, NoBackup)
  BY <1>4, <1>5, EndedFits
<1>6. CASE BackupDone(Restorer)
  <2>1. rest' = [rest EXCEPT !.at = "moveout", !.safe = saving[Restorer].n, !.mutated = TRUE]
        /\ Makes(Restorer, NoBackup)
    BY <1>6 DEF BackupDone
  <2>2. /\ rest'.at = "moveout" /\ rest'.mutated /\ rest'.moved = rest.moved
        /\ rest'.installed = rest.installed /\ rest'.stray = rest.stray
        /\ rest'.before = rest.before
    BY <2>1 DEF RestIsRecord, RestFields
  <2>3. rest.at = "safety" /\ ~ rest.moved /\ ~ rest.installed
    BY <1>3 DEF RestFits, PhasesFit
  <2>4. ~ rest.stray => Content' = rest.before
    BY <1>2, <2>3, ContentStays DEF RestFits, StepsFit
  <2>. QED BY <1>4, <2>1, <2>2, <2>3, <2>4 DEF RestFits, PhasesFit, StepsFit, Active
<1>7. CASE Dump(Restorer) \/ Walk(Restorer) \/ Copy(Restorer)
  <2>1. saving'[Restorer].at # "idle"
    BY <1>1, <1>7, DumpFields, WalkFields, CopyFields
  <2>2. rest' = rest
    BY <1>7 DEF Dump, Walk, Copy
  <2>. QED BY <1>2, <1>3, <2>1, <2>2, ContentStays, AsideFits DEF Active
<1>8. CASE Pack(Restorer) \/ (Verify(Restorer) /\ Present(saving[Restorer].n))
  <2>1. saving'[Restorer].at # "idle"
    <3>1. PICK rec : IsSlot(rec) /\ Makes(Restorer, rec) /\ rec.at # "idle"
      <4>1. IsSlot(saving[Restorer])
        BY <1>1 DEF SlotsAreRecords
      <4>2. CASE Pack(Restorer)
        <5>1. PICK rec : /\ Makes(Restorer, rec)
                         /\ rec = [saving[Restorer] EXCEPT !.at = "verify", !.todo = {}, !.got = {},
                                                           !.db = EmptyDatabase, !.calm = FALSE]
          BY <4>2 DEF Pack
        <5>2. IsSlot(rec)
          BY <4>1, <5>1 DEF IsSlot
        <5>3. rec.at = "verify"
          BY <4>1, <5>1 DEF IsSlot
        <5>. QED BY <5>1, <5>2, <5>3
      <4>3. CASE Verify(Restorer) /\ Present(saving[Restorer].n)
        <5>1. PICK at \in {"prune", "tidy"} : MakesOn(Restorer, at)
          BY <4>3 DEF Verify
        <5>2. PICK rec : Makes(Restorer, rec) /\ rec = [saving[Restorer] EXCEPT !.at = at]
          BY <5>1 DEF MakesOn, Makes
        <5>. QED BY <4>1, <5>1, <5>2 DEF IsSlot
      <4>. QED BY <1>8, <4>2, <4>3
    <3>. QED BY <1>1, <3>1, MakesSlot
  <2>2. rest' = rest
    BY <1>8 DEF Pack, Verify
  <2>. QED BY <1>2, <1>3, <2>1, <2>2, ContentStays, AsideFits DEF Active
<1>. QED BY <1>1, <1>3, <1>5, <1>6, <1>7, <1>8 DEF Making, BackupAsked, BackupFails, Verify, Prune,
            DeleteOld, TidyFails, SaverDies, GivesUp, Verified

\* While the restore changes the data it is the only one to write its record.
LEMMA RestoresFrame ==
  ASSUME RetentionInv, RestFits, Restores
  PROVE  /\ saving'[Restorer].at = "idle"
         /\ rest.mutated
<1>1. rest.at \notin {"idle", "safety"}
  BY DEF Restores, MoveOut, MoveIn, Import, Reimport, Clear, MoveBack
<1>2. saving' = NotCalm /\ Restorer \in Makers
  BY DEF Restores, MoveOut, MoveIn, Import, Reimport, Clear, MoveBack, Makers
<1>3. saving'[Restorer].at = saving[Restorer].at
  BY <1>2, CalmSlots DEF RetentionInv
<1>. QED BY <1>1, <1>3 DEF RestFits, PhasesFit, Active

LEMMA MoveOutFits ==
  ASSUME RetentionInv, RestIsRecord, RestFits, MoveOut
  PROVE  RestFits'
<1>1. saving'[Restorer].at = "idle" /\ rest.mutated
  BY RestoresFrame DEF Restores
<1>2. /\ rest'.at = "movein" /\ rest'.aside = Storage /\ rest'.moved
      /\ rest'.installed = rest.installed /\ rest'.mutated = rest.mutated
      /\ rest'.stray = rest.stray /\ rest'.before = rest.before
  <2>1. rest' = [rest EXCEPT !.at = "movein", !.aside = Storage, !.moved = TRUE]
    BY DEF MoveOut
  <2>. QED BY <2>1 DEF RestIsRecord, RestFields
<1>3. ~ rest.stray => Storage = rest.before.files
  <2>1. ~ rest.stray => Content = rest.before
    BY DEF MoveOut, RestFits, StepsFit
  <2>. QED BY <2>1 DEF Content
<1>. QED BY <1>1, <1>2, <1>3 DEF RestFits, PhasesFit, StepsFit, Active

LEMMA MoveInFits ==
  ASSUME RetentionInv, KnownInv, RestFits, MoveIn
  PROVE  RestFits'
<1>1. saving'[Restorer].at = "idle" /\ rest.mutated
  BY RestoresFrame DEF Restores
<1>2. /\ rest'.at = "import" /\ rest'.installed /\ rest'.moved = rest.moved
      /\ rest'.mutated = rest.mutated /\ rest'.stray = rest.stray
      /\ rest'.before = rest.before /\ rest'.from = rest.from /\ rest'.aside = rest.aside
  <2>1. rest' = [rest EXCEPT !.at = "import", !.installed = TRUE]
    BY DEF MoveIn
  <2>. QED BY <2>1 DEF KnownInv, RestIsRecord, RestFields
<1>3. Storage' = rest.from.files
  BY StorageInstalled DEF MoveIn, KnownInv, RestKnown
<1>. QED BY <1>1, <1>2, <1>3 DEF RestFits, PhasesFit, StepsFit, Active, MoveIn

\* A step of the restore that only takes it to another step.
GoesTo(at) ==
  /\ rest'.at = at
  /\ rest'.from = rest.from /\ rest'.before = rest.before
  /\ rest'.aside = rest.aside
  /\ rest'.moved = rest.moved /\ rest'.installed = rest.installed
  /\ rest'.mutated = rest.mutated /\ rest'.stray = rest.stray

LEMMA GoesToOnly ==
  ASSUME RestIsRecord, NEW at, rest' = [rest EXCEPT !.at = at]
  PROVE  GoesTo(at)
BY DEF RestIsRecord, RestFields, GoesTo

\* A compensation begins with what was moved aside, or with all in its place.
LEMMA FailedFits ==
  ASSUME RestIsRecord, RestFits, rest' = Failed, rest.mutated, saving'[Restorer].at = "idle",
         rest.moved \/ (rest.at = "moveout" /\ Storage' = Storage)
  PROVE  RestFits'
<1>1. GoesTo("reimport")
  BY GoesToOnly DEF Failed
<1>2. ~ rest.stray /\ rest.at = "moveout" => Storage = rest.before.files
  <2>1. ~ rest.stray /\ rest.at = "moveout" => Content = rest.before
    BY DEF RestFits, StepsFit
  <2>. QED BY <2>1 DEF Content
<1>. QED BY <1>1, <1>2 DEF RestFits, PhasesFit, StepsFit, Active, GoesTo

LEMMA ImportFits ==
  ASSUME RetentionInv, KnownInv, RestFits, Import
  PROVE  RestFits'
<1>1. saving'[Restorer].at = "idle" /\ rest.mutated /\ rest.moved
  BY RestoresFrame DEF Restores, Import, RestFits, PhasesFit
<1>2. Storage' = Storage
  BY DEF Import, StorageStays, Storage
<1>3. CASE rest' = Failed
  BY <1>1, <1>3, FailedFits DEF KnownInv
<1>4. CASE /\ rest' = [rest EXCEPT !.at = "check"]
           /\ DatabaseBecomes(rest.from.db) /\ broken' = FALSE
  <2>1. GoesTo("check")
    BY <1>4, GoesToOnly DEF KnownInv
  <2>2. Database' = rest.from.db
    BY <1>4 DEF DatabaseBecomes, Database, KnownInv, RestKnown, DbKnown
  <2>3. ~ rest.stray => Storage' = rest.from.files
    BY <1>2 DEF Import, RestFits, StepsFit
  <2>4. ~ rest.stray => Content' = rest.from
    BY <2>2, <2>3 DEF Content, KnownInv, RestIsRecord, IsContent
  <2>. QED BY <1>1, <1>4, <2>1, <2>4 DEF RestFits, PhasesFit, StepsFit, Active, GoesTo
<1>. QED BY <1>3, <1>4 DEF Import

LEMMA ReimportFits ==
  ASSUME RetentionInv, KnownInv, RestFits, SafetyArchived, Reimport
  PROVE  RestFits'
<1>1. saving'[Restorer].at = "idle" /\ rest.mutated
  BY RestoresFrame DEF Restores
<1>2. Storage' = Storage
  BY DEF Reimport, StorageStays, Storage
<1>3. CASE rest' = Ended("lost")
  BY <1>1, <1>3, EndedFits
<1>4. ASSUME NEW a \in archives, a.n = rest.safe, rest' = [rest EXCEPT !.at = "clear"],
             DatabaseBecomes(a.db)
      PROVE  RestFits'
  <2>1. GoesTo("clear")
    BY <1>4, GoesToOnly DEF KnownInv
  <2>2. Database' = a.db
    BY <1>4 DEF DatabaseBecomes, Database, KnownInv, ArchivesKnown, DbKnown
  <2>3. ~ rest.stray => a.db = rest.before.db
    <3>1. ~ rest.stray => [db |-> a.db, files |-> a.files] = rest.before
      BY <1>1, <1>4 DEF SafetyArchived, Holds, Has, Numbered
    <3>. QED BY <3>1
  <2>4. ~ rest.stray /\ ~ rest.moved => Storage' = rest.before.files
    BY <1>2 DEF Reimport, RestFits, StepsFit
  <2>5. ~ rest.stray /\ rest.moved => rest.aside = rest.before.files
    BY DEF RestFits, StepsFit
  <2>. QED BY <1>1, <2>1, <2>2, <2>3, <2>4, <2>5 DEF RestFits, PhasesFit, StepsFit, Active, GoesTo
<1>. QED BY <1>3, <1>4 DEF Reimport

LEMMA ClearFits ==
  ASSUME RetentionInv, KnownInv, RestFits, Clear
  PROVE  RestFits'
<1>1. saving'[Restorer].at = "idle" /\ rest.mutated
  BY RestoresFrame DEF Restores
<1>2. Database' = Database
  BY DEF Clear, DatabaseStays, Database
<1>3. CASE rest' = Ended("lost")
  BY <1>1, <1>3, EndedFits
<1>4. CASE /\ rest' = [rest EXCEPT !.at = "moveback"]
           /\ StorageBecomes(IF rest.installed THEN {} ELSE Storage)
  <2>1. GoesTo("moveback")
    BY <1>4, GoesToOnly DEF KnownInv
  <2>2. ASSUME ~ rest.moved PROVE Storage' = Storage
    <3>1. StorageBecomes(Storage)
      BY <1>4, <2>2 DEF RestFits, PhasesFit
    <3>. QED BY <3>1, StorageKnown, StorageInstalled DEF KnownInv, ApplicationKnown
  <2>3. /\ ~ rest.stray => Database = rest.before.db
        /\ ~ rest.stray /\ ~ rest.moved => Storage = rest.before.files
        /\ ~ rest.stray /\ rest.moved => rest.aside = rest.before.files
    BY DEF Clear, RestFits, StepsFit
  <2>. QED BY <1>1, <1>2, <2>1, <2>2, <2>3 DEF RestFits, PhasesFit, StepsFit, Active, GoesTo
<1>. QED BY <1>3, <1>4 DEF Clear

LEMMA MoveBackFits ==
  ASSUME RetentionInv, KnownInv, RestFits, MoveBack
  PROVE  RestFits'
<1>1. saving'[Restorer].at = "idle" /\ rest.mutated
  BY RestoresFrame DEF Restores
<1>2. Database' = Database
  BY DEF MoveBack, DatabaseStays, Database
<1>3. CASE rest' = Ended("lost")
  BY <1>1, <1>3, EndedFits
<1>4. CASE rest' = [rest EXCEPT !.at = "recheck"] /\ StorageBecomes(Reinstated)
  <2>1. GoesTo("recheck")
    BY <1>4, GoesToOnly DEF KnownInv
  <2>2. PlacesKnown(Reinstated)
    BY StorageKnown DEF Reinstated, KnownInv, RestKnown, ApplicationKnown
  <2>3. Storage' = Reinstated
    BY <1>4, <2>2, StorageInstalled
  <2>4. /\ ~ rest.stray => Database = rest.before.db
        /\ ~ rest.stray /\ ~ rest.moved => Storage = rest.before.files
        /\ ~ rest.stray /\ rest.moved => rest.aside = rest.before.files
    BY DEF MoveBack, RestFits, StepsFit
  <2>5. ~ rest.stray => Content' = rest.before
    BY <1>2, <2>3, <2>4 DEF Reinstated, Content, KnownInv, RestIsRecord, IsContent
  <2>. QED BY <1>1, <2>1, <2>4, <2>5 DEF RestFits, PhasesFit, StepsFit, Active, GoesTo
<1>. QED BY <1>3, <1>4 DEF MoveBack

LEMMA ChecksFit ==
  ASSUME RetentionInv, KnownInv, RestFits,
         CheckRestored \/ CheckReinstated \/ \E at \in {"moveout", "movein"} : Compensates(at)
  PROVE  RestFits'
<1>1. FilesStay /\ saving' = saving /\ rest.at \in {"moveout", "movein", "check", "recheck"}
  BY DEF CheckRestored, CheckReinstated, Compensates
<1>2. saving'[Restorer].at = "idle" /\ rest.mutated
  BY <1>1 DEF RestFits, PhasesFit, Active
<1>3. CASE \E out : rest' = Ended(out)
  BY <1>2, <1>3, EndedFits
<1>4. CASE rest' = Failed /\ rest.at \in {"moveout", "movein", "check"}
  <2>1. rest.moved \/ rest.at = "moveout"
    BY <1>4 DEF RestFits, PhasesFit
  <2>. QED BY <1>1, <1>2, <1>4, <2>1, FailedFits, ContentStays DEF KnownInv
<1>. QED BY <1>3, <1>4 DEF CheckRestored, CheckReinstated, Compensates, Unclean

LEMMA RestoreAskedFits ==
  ASSUME RetentionInv, NEW a \in archives, RestoreAsked(a)
  PROVE  RestFits'
<1>1. rest' = [NoRestore EXCEPT !.at = "safety", !.from = [db |-> a.db, files |-> a.files],
                                !.before = Content]
  BY DEF RestoreAsked
<1>2. /\ rest'.at = "safety" /\ rest'.before = Content /\ ~ rest'.moved /\ ~ rest'.installed
      /\ ~ rest'.mutated
  BY <1>1, EmptyRest DEF RestFields
<1>3. PICK rec : rec = NewBackup("safety") /\ Makes(Restorer, rec)
  BY DEF RestoreAsked
<1>4. saving'[Restorer].at # "idle"
  <2>1. Restorer \in Makers /\ IsSlot(rec) /\ rec.at = "dump"
    BY <1>3, NewSlot DEF Makers
  <2>2. saving'[Restorer] = rec
    BY <1>3, <2>1, MakesSlot DEF RetentionInv
  <2>. QED BY <2>1, <2>2
<1>5. Content' = Content
  BY ContentStays DEF RestoreAsked
<1>. QED BY <1>2, <1>4, <1>5 DEF RestFits, PhasesFit, StepsFit, Active

LEMMA ServedFits ==
  ASSUME RetentionInv, RestIsRecord, RestFits, Served
  PROVE  RestFits'
<1>1. saving'[Restorer].at = saving[Restorer].at
  BY CalmSlots DEF Served, RetentionInv, Makers
<1>2. broken' = broken
  BY DEF Served
<1>3. CASE rest' = rest /\ rest.at = "idle"
  BY <1>1, <1>3 DEF RestFits, PhasesFit, StepsFit, Active
<1>4. CASE rest' = rest /\ Content' = Content
  BY <1>1, <1>2, <1>4, AsideFits
<1>5. CASE rest' = [rest EXCEPT !.stray = TRUE, !.before = NoRestore.before]
  <2>1. /\ rest'.at = rest.at /\ rest'.moved = rest.moved /\ rest'.installed = rest.installed
        /\ rest'.mutated = rest.mutated /\ rest'.stray
    BY <1>5 DEF RestIsRecord, RestFields
  <2>. QED BY <1>1, <2>1 DEF RestFits, PhasesFit, StepsFit, Active
<1>. QED BY <1>3, <1>4, <1>5 DEF Served

LEMMA FitsKeep ==
  ASSUME RetentionInv, KnownInv, RestFits, SafetyArchived, [BackupNext]_allVars
  PROVE  RestFits'
<1>1. RestIsRecord /\ SlotsAreRecords
  BY DEF KnownInv, RetentionInv
<1>2. CASE RestorerDies
  <2>1. Makes(Restorer, NoBackup) /\ rest' = Ended("died") /\ Restorer \in Makers
    BY <1>2 DEF RestorerDies, Makers
  <2>2. saving'[Restorer].at = "idle"
    BY <1>1, <2>1, EmptySlot, MakesSlot
  <2>. QED BY <2>1, <2>2, EndedFits
<1>3. CASE (\E a \in archives : DeleteBackup(a)) \/ UNCHANGED allVars
  <2>1. rest' = rest /\ broken' = broken /\ saving' = saving /\ FilesStay
    BY <1>3 DEF DeleteBackup, allVars, backupVars, FilesStay
  <2>. QED BY <2>1, ContentStays, AsideFits
<1>4. ASSUME NEW p \in Makers, Making(p) PROVE RestFits'
  BY <1>1, <1>4, OthersFit, MakingSafetyFits DEF Makers
<1>5. CASE Restoring
  <2>1. ASSUME NEW a \in archives, RestoreAsked(a) PROVE RestFits'
    BY <2>1, RestoreAskedFits
  <2>2. CASE CheckRestored \/ CheckReinstated \/ \E at \in {"moveout", "movein"} : Compensates(at)
    BY <2>2, ChecksFit
  <2>3. CASE MoveOut \/ MoveIn \/ Import
    BY <1>1, <2>3, MoveOutFits, MoveInFits, ImportFits
  <2>4. CASE Reimport \/ Clear \/ MoveBack
    BY <2>4, ReimportFits, ClearFits, MoveBackFits
  <2>. QED BY <1>2, <1>5, <2>1, <2>2, <2>3, <2>4 DEF Restoring
<1>. QED BY <1>1, <1>3, <1>4, <1>5, ServedFits DEF BackupNext

BackupInv == RetentionInv /\ KnownInv /\ CalmInv /\ RestoreInv

LEMMA InitBackupInv == BackupInit => BackupInv
<1>. SUFFICES ASSUME BackupInit PROVE BackupInv
  OBVIOUS
<1>1. RetentionInv
  BY InitRetention
<1>2. /\ \A p \in Makers : saving[p] = NoBackup
      /\ Restorer \in Makers /\ archives = {} /\ placed = {}
      /\ rest = NoRestore
  BY DEF BackupInit, Makers
<1>3. rows = {} /\ staged = {} /\ disk = {} /\ trash = {} /\ fresh = {} /\ used = {}
  BY DEF BackupInit, FileInit
<1>4. PlacesKnown({}) /\ DbKnown(EmptyDatabase)
  BY DEF PlacesKnown, DbKnown, EmptyDatabase
<1>5. KnownInv
  <2>1. RestIsRecord /\ RestKnown
    BY <1>2, <1>4, EmptyRest DEF RestIsRecord, RestKnown
  <2>2. ApplicationKnown
    BY <1>3 DEF ApplicationKnown, DbKnown, Database
  <2>3. ArchivesKnown /\ SlotsKnown
    BY <1>2, <1>4, EmptyContents DEF ArchivesKnown, SlotsKnown
  <2>. QED BY <2>1, <2>2, <2>3 DEF KnownInv
<1>6. CalmInv
  BY <1>2, EmptyContents DEF CalmInv
<1>7. PhasesFit /\ StepsFit
  BY <1>2, EmptyRest, EmptySlot DEF PhasesFit, StepsFit, Active
<1>8. ArchivesAreOnce /\ SafetyIsApart
  BY <1>2, EmptyRest, EmptySlot DEF ArchivesAreOnce, SafetyIsApart, Active
<1>9. SafetyArchived /\ SafetyGathered
  BY <1>2, EmptyRest, EmptySlot DEF SafetyArchived, SafetyGathered
<1>10. SecuredHolds
  BY DEF BackupInit, SecuredHolds
<1>. QED BY <1>1, <1>5, <1>6, <1>7, <1>8, <1>9, <1>10 DEF BackupInv, RestoreInv

\* What is known, complete and kept is so at every step.
LEMMA BackupInductive == BackupSpec => []BackupInv
<1>1. BackupInv /\ [BackupNext]_allVars => BackupInv'
  <2>. SUFFICES ASSUME BackupInv, [BackupNext]_allVars PROVE BackupInv'
    OBVIOUS
  <2>1. RetentionInv'
    BY RetentionKeeps DEF BackupInv
  <2>2. KnownInv' /\ CalmInv'
    BY KnownKeeps, CalmKeptOn DEF BackupInv
  <2>3. RestIsRecord /\ RestFits
    BY DEF BackupInv, KnownInv, RestoreInv, RestFits
  <2>4. PhasesFit' /\ StepsFit'
    BY <2>3, FitsKeep DEF BackupInv, RestoreInv, RestFits
  <2>5. ArchivesAreOnce' /\ SafetyIsApart'
    BY <2>3, OnceKeeps, ApartKeeps DEF BackupInv, RestoreInv
  <2>6. SafetyArchived' /\ SecuredHolds' /\ SafetyGathered'
    BY <2>3, ArchivedKeeps, SecuredKeeps, GatheredKeeps DEF BackupInv, RestoreInv
  <2>. QED BY <2>1, <2>2, <2>4, <2>5, <2>6 DEF BackupInv, RestoreInv
<1>. QED BY <1>1, InitBackupInv, PTL DEF BackupSpec

\* ArchivesAreComplete: an archive that CreateBackup makes while nothing is
\* deleted or restored has the file of every row it has, whatever saves,
\* reports, compensations and crashes run between its dump and its copies.
THEOREM ArchivesComplete == BackupSpec => []ArchivesAreComplete
<1>1. BackupInv => ArchivesAreComplete
  BY DEF BackupInv, CalmInv, Covers, ArchivesAreComplete
<1>. QED BY <1>1, BackupInductive, PTL

\* PriorDataAreKept: whatever RestoreBackup, CreateBackup and PruneBackups do,
\* fail at or die of later, every safety archive of a restore still holds what
\* was there when that restore was asked for, until DeleteBackup is asked to
\* delete it, if no request changed anything before the archive was complete;
\* and a restore that has none yet has moved nothing.
THEOREM PriorDataKept == BackupSpec => []PriorDataAreKept
<1>1. BackupInv => PriorDataAreKept
  <2>. SUFFICES ASSUME BackupInv PROVE PriorDataAreKept
    OBVIOUS
  <2>1. ASSUME NEW c \in secured, c.n \notin dropped
        PROVE  \E a \in archives :
                 a.n = c.n /\ a.good /\ [db |-> a.db, files |-> a.files] = c.content
    <3>1. Good(c.n) /\ Has(c.n, c.content)
      BY DEF BackupInv, RestoreInv, SecuredHolds
    <3>. QED BY <2>1, <3>1 DEF Good, Has, Numbered
  <2>2. ASSUME rest.at # "idle", ~ rest.mutated, ~ rest.stray PROVE Content = rest.before
    BY <2>2 DEF BackupInv, RestoreInv, PhasesFit, StepsFit
  <2>. QED BY <2>1, <2>2 DEF PriorDataAreKept
<1>. QED BY <1>1, BackupInductive, PTL

\* How a restore ends, and with which data.
LEMMA EndsWhole ==
  ASSUME RetentionInv, RestIsRecord, RestFits, [BackupNext]_allVars,
         rest.at # "idle", rest'.at = "idle", ~ rest.stray
  PROVE  /\ rest'.out = "restored" => Content' = rest.from /\ ~ broken'
         /\ rest'.out \in {"refused", "compensated"} => Content' = rest.before
<1>1. RestFields \subseteq DOMAIN rest
  BY DEF RestIsRecord
<1>2. ASSUME NEW at, rest' = [rest EXCEPT !.at = at], at # "idle" PROVE FALSE
  BY <1>1, <1>2 DEF RestFields
<1>3. ASSUME rest' \in {Ended("lost"), Ended("unclean"), Ended("died")}
      PROVE  rest'.out \notin {"restored", "refused", "compensated"}
  <2>1. \A out : Ended(out).out = out
    BY EndedRest
  <2>2. rest'.out \in {"lost", "unclean", "died"}
    <3>1. PICK out \in {"lost", "unclean", "died"} : rest' = Ended(out)
      BY <1>3
    <3>. QED BY <2>1, <3>1
  <2>. QED BY <2>2
<1>4. CASE rest' = rest
  BY <1>4
<1>5. ASSUME NEW p \in Makers, Making(p) PROVE rest'.out = "refused" /\ Content' = rest.before
  <2>1. \/ rest' = rest
        \/ rest' = Ended("refused") /\ p = Restorer
        \/ rest' = [rest EXCEPT !.at = "moveout", !.safe = saving[p].n, !.mutated = TRUE]
    BY <1>5 DEF Making, BackupAsked, Dump, Walk, Copy, BackupFails, Pack, Verify, Prune, DeleteOld,
       BackupDone, TidyFails, SaverDies, GivesUp
  <2>2. rest' = Ended("refused") /\ p = Restorer
    BY <1>1, <2>1 DEF RestFields
  <2>3. FilesStay
    BY <1>5 DEF Making, BackupAsked, Dump, Walk, Copy, BackupFails, Pack, Verify, Prune, DeleteOld,
       BackupDone, TidyFails, SaverDies
  <2>4. Active(Restorer)
    <3>1. Restorer \notin Savers
      BY BackupAssumption
    <3>. QED BY <1>5, <2>2, <3>1 DEF Making, BackupAsked, Dump, Walk, Copy, BackupFails, Pack,
                Verify, Prune, DeleteOld, BackupDone, TidyFails, SaverDies, Tidying, Active
  <2>5. Content = rest.before
    BY <2>4 DEF RestFits, PhasesFit, StepsFit
  <2>. QED BY <2>2, <2>3, <2>5, EndedRest, ContentStays
<1>6. CASE CheckRestored
  <2>1. Content = rest.from /\ ~ broken /\ broken' = broken /\ Content' = Content
    BY <1>6, ContentStays DEF CheckRestored, RestFits, StepsFit
  <2>2. rest' \in {Ended("restored"), Failed, Ended("unclean")}
    BY <1>6 DEF CheckRestored, Unclean
  <2>3. rest' # Failed
    BY <1>2 DEF Failed
  <2>4. CASE rest' = Ended("restored")
    BY <2>1, <2>4, EndedRest
  <2>. QED BY <1>3, <2>2, <2>3, <2>4
<1>7. CASE CheckReinstated
  <2>1. Content = rest.before /\ Content' = Content
    BY <1>7, ContentStays DEF CheckReinstated, RestFits, StepsFit
  <2>2. rest' \in {Ended("compensated"), Ended("lost"), Ended("unclean")}
    BY <1>7 DEF CheckReinstated, Unclean
  <2>3. CASE rest' = Ended("compensated")
    BY <2>1, <2>3, EndedRest
  <2>. QED BY <1>3, <2>2, <2>3
<1>8. CASE \/ Import \/ \E at \in {"moveout", "movein"} : Compensates(at)
           \/ Reimport \/ Clear \/ MoveBack \/ RestorerDies
  <2>1. \/ \E at \in {"check", "reimport", "clear", "moveback", "recheck"} :
             rest' = [rest EXCEPT !.at = at]
        \/ rest' \in {Ended("lost"), Ended("died")}
    BY <1>8 DEF Import, Compensates, Reimport, Clear, MoveBack, RestorerDies, Failed
  <2>2. ~ \E at \in {"check", "reimport", "clear", "moveback", "recheck"} :
             rest' = [rest EXCEPT !.at = at]
    BY <1>2
  <2>. QED BY <1>3, <2>1, <2>2
<1>9. CASE \/ MoveOut \/ MoveIn \/ (\E a \in archives : RestoreAsked(a)) \/ Served
           \/ (\E a \in archives : DeleteBackup(a)) \/ UNCHANGED allVars
  <2>1. \/ rest' = rest
        \/ rest' = [rest EXCEPT !.at = "movein", !.aside = Storage, !.moved = TRUE]
        \/ rest' = [rest EXCEPT !.at = "import", !.installed = TRUE]
        \/ rest' = [rest EXCEPT !.stray = TRUE, !.before = NoRestore.before]
    BY <1>9 DEF MoveOut, MoveIn, RestoreAsked, Served, DeleteBackup, allVars, backupVars
  <2>. QED BY <1>1, <2>1 DEF RestFields
<1>. QED BY <1>5, <1>6, <1>7, <1>8, <1>9 DEF BackupNext, Restoring

\* RestoresAreWhole: RestoreBackup answers restored with the archived database
\* and storage both in place, and refused or compensated with both as they
\* were, at whichever step it failed, while no request interferes.
THEOREM RestoresWhole == BackupSpec => RestoresAreWhole
<1>1. BackupInv /\ [BackupNext]_allVars
        => [rest.at # "idle" /\ rest'.at = "idle" /\ ~ rest.stray =>
              /\ rest'.out = "restored" => Content' = rest.from /\ ~ broken'
              /\ rest'.out \in {"refused", "compensated"} => Content' = rest.before]_allVars
  BY EndsWhole DEF BackupInv, KnownInv, RestoreInv, RestFits
<1>. QED BY <1>1, BackupInductive, PTL DEF BackupSpec, RestoresAreWhole

-----------------------------------------------------------------------------
(* Types *)

SlotSteps == {"idle", "dump", "walk", "copy", "verify", "prune", "delete", "tidy"}
RestSteps ==
  {"idle", "safety", "moveout", "movein", "import", "check", "reimport", "clear", "moveback",
   "recheck"}
Outcomes == {"none", "refused", "restored", "compensated", "lost", "unclean", "died"}

ClockTyped == stamp \in 1 .. MaxArchive + 1 /\ today \in Days

BackupsTyped ==
  /\ \A a \in archives : a.kind \in {"backup", "safety"} /\ a.day \in Days /\ a.n >= 1
  /\ \A m \in placed : m.n >= 1
  /\ \A p \in Makers :
       /\ saving[p].at \in SlotSteps
       /\ Active(p) => saving[p].day \in Days /\ saving[p].n >= 1
  /\ made \subseteq placed

RestTyped == rest.at \in RestSteps /\ rest.out \in Outcomes /\ broken \in BOOLEAN

TypedInv == ClockTyped /\ BackupsTyped /\ RestTyped

LEMMA ClockKeeps ==
  ASSUME ClockTyped, [BackupNext]_allVars
  PROVE  ClockTyped' /\ (Stamped => today' \in Days)
<1>1. UNCHANGED clockVars \/ Stamped
  BY DEF BackupNext, Making, Restoring, BackupAsked, Dump, Walk, Copy, BackupFails, Pack, Verify,
     Prune, DeleteOld, BackupDone, TidyFails, SaverDies, RestoreAsked, MoveOut, MoveIn, Import,
     CheckRestored, Compensates, Reimport, Clear, MoveBack, CheckReinstated, RestorerDies, Served,
     DeleteBackup, clockVars, allVars, backupVars
<1>. QED BY <1>1, BackupAssumption DEF clockVars, Stamped, ClockTyped

LEMMA MadeFrame ==
  ASSUME [BackupNext]_allVars
  PROVE  made' = made \/ \E p \in Makers : BackupDone(p) /\ p # Restorer
                                           /\ made' = made \cup {Name(saving[p])}
<1>1. ASSUME NEW p \in Makers, Making(p)
      PROVE  made' = made \/ (BackupDone(p) /\ p # Restorer /\ made' = made \cup {Name(saving[p])})
  BY <1>1 DEF Making, BackupAsked, Dump, Walk, Copy, BackupFails, Pack, Verify, Prune, DeleteOld,
     BackupDone, TidyFails, SaverDies, past
<1>2. CASE Restoring \/ Served \/ (\E a \in archives : DeleteBackup(a)) \/ UNCHANGED allVars
  BY <1>2 DEF Restoring, RestoreAsked, MoveOut, MoveIn, Import, CheckRestored, Compensates,
     Reimport, Clear, MoveBack, CheckReinstated, RestorerDies, Served, DeleteBackup, past, allVars,
     backupVars
<1>. QED BY <1>1, <1>2 DEF BackupNext

LEMMA BackupsKeep ==
  ASSUME RetentionInv, ClockTyped, BackupsTyped, [BackupNext]_allVars
  PROVE  BackupsTyped'
<1>1. SlotsAreRecords /\ stamp \in Nat /\ stamp >= 1
  BY DEF RetentionInv, ClockTyped
<1>2. ASSUME NEW p \in Makers, Pack(p)
      PROVE  /\ saving[p].kind \in {"backup", "safety"} /\ saving[p].day \in Days
             /\ saving[p].n >= 1
  BY <1>2 DEF Pack, Active, RetentionInv, Roles, BackupsTyped
<1>3. ASSUME NEW a \in archives'
      PROVE  a.kind \in {"backup", "safety"} /\ a.day \in Days /\ a.n >= 1
  <2>1. CASE a \in archives
    BY <2>1 DEF BackupsTyped
  <2>2. CASE a \notin archives
    <3>1. PICK p \in Makers : Pack(p)
      BY <1>3, <2>2, ArchivesFrame
    <3>2. a.kind = saving[p].kind /\ a.day = saving[p].day /\ a.n = saving[p].n
      BY <1>3, <2>2, <3>1, PackedArchive
    <3>. QED BY <1>2, <3>1, <3>2
  <2>. QED BY <2>1, <2>2
<1>4. ASSUME NEW m \in placed' PROVE m.n >= 1
  BY <1>2, <1>4, PlacedFrame DEF BackupsTyped, Name
<1>5. ASSUME NEW p \in Makers
      PROVE  /\ saving'[p].at \in SlotSteps
             /\ saving'[p].at # "idle" => saving'[p].day \in Days /\ saving'[p].n >= 1
  <2>1. SlotFrame(p)
    BY <1>1, AllSlotsFrame
  <2>2. CASE SlotKeeps(p)
    BY <2>2 DEF SlotKeeps, BackupsTyped, Active, SlotSteps, Verify
  <2>3. CASE SlotEmptied(p)
    BY <1>1, <2>3, ClockKeeps DEF SlotEmptied, BackupsTyped, Active, SlotSteps, Pack
  <2>4. CASE Dump(p) \/ Walk(p) \/ Copy(p)
    BY <1>1, <2>4, DumpFields, WalkFields, CopyFields
    DEF Same, BackupsTyped, Active, SlotSteps, Dump, Walk
  <2>. QED BY <2>1, <2>2, <2>3, <2>4 DEF SlotFrame
<1>6. made' \subseteq placed'
  <2>1. placed \subseteq placed'
    BY PlacedFrame
  <2>2. ASSUME NEW p \in Makers, BackupDone(p), p # Restorer PROVE Name(saving[p]) \in placed
    BY <2>2 DEF BackupDone, Tidying, RetentionInv, PlacedIsArchived, Roles, Verified, Active
  <2>. QED BY <2>1, <2>2, MadeFrame DEF BackupsTyped
<1>. QED BY <1>3, <1>4, <1>5, <1>6 DEF BackupsTyped, Active

LEMMA RestStepsKeep ==
  ASSUME RestIsRecord, RestTyped, [BackupNext]_allVars
  PROVE  RestTyped'
<1>1. RestFields \subseteq DOMAIN rest
  BY DEF RestIsRecord
<1>2. ASSUME NEW at \in RestSteps, rest' = [rest EXCEPT !.at = at]
      PROVE  rest'.at \in RestSteps /\ rest'.out \in Outcomes
  BY <1>1, <1>2 DEF RestTyped, RestFields
<1>3. ASSUME NEW out \in Outcomes, rest' = Ended(out)
      PROVE  rest'.at \in RestSteps /\ rest'.out \in Outcomes
  BY <1>3, EndedRest DEF RestSteps
<1>4. ASSUME rest' = rest PROVE rest'.at \in RestSteps /\ rest'.out \in Outcomes
  BY <1>4 DEF RestTyped
<1>5. ASSUME NEW p \in Makers, Making(p) PROVE rest'.at \in RestSteps /\ rest'.out \in Outcomes
  <2>1. \/ rest' = rest
        \/ rest' = Ended("refused")
        \/ rest' = [rest EXCEPT !.at = "moveout", !.safe = saving[p].n, !.mutated = TRUE]
    BY <1>5 DEF Making, BackupAsked, Dump, Walk, Copy, BackupFails, Pack, Verify, Prune, DeleteOld,
       BackupDone, TidyFails, SaverDies, GivesUp
  <2>2. CASE rest' = [rest EXCEPT !.at = "moveout", !.safe = saving[p].n, !.mutated = TRUE]
    BY <1>1, <2>2 DEF RestTyped, RestFields, RestSteps
  <2>. QED BY <1>3, <1>4, <2>1, <2>2 DEF Outcomes
<1>6. ASSUME NEW a \in archives, RestoreAsked(a)
      PROVE  rest'.at \in RestSteps /\ rest'.out \in Outcomes
  BY <1>6, EmptyRest DEF RestoreAsked, RestFields, RestSteps, Outcomes
<1>7. CASE MoveOut \/ MoveIn \/ Served
  <2>1. \/ rest' = rest
        \/ rest' = [rest EXCEPT !.at = "movein", !.aside = Storage, !.moved = TRUE]
        \/ rest' = [rest EXCEPT !.at = "import", !.installed = TRUE]
        \/ rest' = [rest EXCEPT !.stray = TRUE, !.before = NoRestore.before]
    BY <1>7 DEF MoveOut, MoveIn, Served
  <2>2. rest'.at \in RestSteps /\ rest'.out \in Outcomes
    BY <1>1, <2>1 DEF RestTyped, RestFields, RestSteps
  <2>3. broken' = broken
    BY <1>7 DEF MoveOut, MoveIn, Served
  <2>. QED BY <2>2, <2>3 DEF RestTyped
<1>8. CASE \/ Import \/ CheckRestored \/ \E at \in {"moveout", "movein"} : Compensates(at)
           \/ Reimport \/ Clear \/ MoveBack \/ CheckReinstated \/ RestorerDies
  <2>1. \/ \E at \in {"check", "reimport", "clear", "moveback", "recheck"} :
             rest' = [rest EXCEPT !.at = at]
        \/ \E out \in {"restored", "compensated", "lost", "unclean", "died"} : rest' = Ended(out)
    BY <1>8 DEF Import, CheckRestored, Compensates, Reimport, Clear, MoveBack, CheckReinstated,
       RestorerDies, Failed, Unclean
  <2>2. rest'.at \in RestSteps /\ rest'.out \in Outcomes
    BY <1>2, <1>3, <2>1 DEF RestSteps, Outcomes
  <2>3. broken' \in {broken, TRUE, FALSE}
    BY <1>8 DEF Import, ImportFails, CheckRestored, Compensates, Reimport, Clear, MoveBack,
       CheckReinstated, RestorerDies
  <2>. QED BY <2>2, <2>3 DEF RestTyped
<1>9. ASSUME NEW p \in Makers, Making(p) PROVE broken' = broken
  BY <1>9 DEF Making, BackupAsked, Dump, Walk, Copy, BackupFails, Pack, Verify, Prune, DeleteOld,
     BackupDone, TidyFails, SaverDies
<1>10. CASE (\E a \in archives : RestoreAsked(a) \/ DeleteBackup(a)) \/ UNCHANGED allVars
  BY <1>4, <1>6, <1>10 DEF RestoreAsked, DeleteBackup, RestTyped, allVars, backupVars
<1>. QED BY <1>5, <1>7, <1>8, <1>9, <1>10 DEF BackupNext, Restoring, RestTyped

\* BTypeOK: the fields of archives, of the backups being made and of the restore
\* are what the code puts there, an archive's name is its own, and a restore
\* waits for its safety archive exactly while its process makes one.
THEOREM BTypeCorrect == BackupSpec => []BTypeOK
<1>1. BackupInit => TypedInv
  <2>. SUFFICES ASSUME BackupInit PROVE TypedInv
    OBVIOUS
  <2>1. ClockTyped
    BY BackupAssumption DEF BackupInit, ClockTyped
  <2>2. BackupsTyped
    <3>1. \A p \in Makers : saving[p].at = "idle"
      BY EmptySlot DEF BackupInit
    <3>. QED BY <3>1 DEF BackupInit, BackupsTyped, Active, SlotSteps
  <2>3. RestTyped
    BY EmptyRest DEF BackupInit, RestTyped, RestSteps, Outcomes
  <2>. QED BY <2>1, <2>2, <2>3 DEF TypedInv
<1>2. BackupInv /\ TypedInv /\ [BackupNext]_allVars => TypedInv'
  BY ClockKeeps, BackupsKeep, RestStepsKeep DEF BackupInv, KnownInv, TypedInv
<1>3. BackupInv /\ TypedInv => BTypeOK
  <2>. SUFFICES ASSUME BackupInv, TypedInv PROVE BTypeOK
    OBVIOUS
  <2>1. RetentionInv /\ stamp \in Nat /\ stamp <= MaxArchive + 1 /\ MaxArchive \in Nat
    BY BackupAssumption DEF BackupInv, TypedInv, ClockTyped
  <2>2. ASSUME NEW n \in Nat, n >= 1, n < stamp PROVE n \in 1 .. MaxArchive
    BY <2>1, <2>2
  <2>3. \A a \in archives : a.n \in 1 .. MaxArchive
    BY <2>1, <2>2 DEF RetentionInv, NumbersAreOnce, TypedInv, BackupsTyped
  <2>4. \A p \in Makers : saving[p].doomed \subseteq 1 .. MaxArchive
    BY <2>1, <2>2 DEF RetentionInv, NumbersAreOnce, DoomedIsDropped, TypedInv, BackupsTyped
  <2>5. /\ \A a, b \in archives : a.n = b.n => a = b
        /\ rest.at = "safety" <=> saving[Restorer].at # "idle"
    BY DEF BackupInv, RestoreInv, ArchivesAreOnce, PhasesFit, Active
  <2>. QED BY <2>3, <2>4, <2>5
       DEF BTypeOK, TypedInv, ClockTyped, BackupsTyped, RestTyped, SlotSteps, RestSteps, Outcomes
<1>. QED BY <1>1, <1>2, <1>3, BackupInductive, PTL DEF BackupSpec
=============================================================================
