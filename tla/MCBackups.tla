------------------------------ MODULE MCBackups -----------------------------
(***************************************************************************)
(* BackupRestore for TLC: two days, of two weeks and one month.            *)
(*                                                                         *)
(* What a restore leaves is checked against what comes after it, so the    *)
(* run starts from two states the system reaches: Early, where a backup    *)
(* has been made and deleted, and Midway, in a restore that has its safety *)
(* archive, where one more backup or restore is within the bound.          *)
(***************************************************************************)
EXTENDS BackupRestore, SequencesExt

Symmetric == Permutations(Savers)

\* A verified archive of the first day.
Archived(n, kind, d, s) ==
  [kind |-> kind, day |-> 0, n |-> n, db |-> d, files |-> s, good |-> TRUE, calm |-> TRUE]

\* The name of the first archive; it was a backup that succeeded.
First == [day |-> 0, n |-> 1]

\* No backup under way, and nothing has failed.
Calmly ==
  /\ faults = 0
  /\ saving = [p \in Makers |-> NoBackup]
  /\ broken = FALSE
  /\ today = 0
  /\ placed = {First} /\ made = {First}

\* The first backup has been made and deleted by the administrator.
Early ==
  /\ FileInit
  /\ Calmly
  /\ archives = {}
  /\ rest = NoRestore
  /\ stamp = 2
  /\ dropped = {1} /\ secured = {}

\* The first backup has the file in its place, which a deletion has since moved
\* to its trash; a restore of that backup has just made its safety archive.
Midway ==
  \E f \in Files, o \in Operations :
    LET kept == [db |-> [rows |-> {f}, staged |-> {}], files |-> {<<f>>}]
        now == [db |-> [rows |-> {f}, staged |-> {o}], files |-> {<<o, f>>}]
    IN /\ rows = {f} /\ staged = {o}
       /\ disk = {} /\ trash = {<<o, f>>}
       /\ fresh = {} /\ used = {f, o}
       /\ Calmly
       /\ archives = {Archived(1, "backup", kept.db, kept.files),
                      Archived(2, "safety", now.db, now.files)}
       /\ rest = [NoRestore EXCEPT !.at = "moveout", !.from = kept, !.before = now,
                                   !.safe = 2, !.mutated = TRUE]
       /\ stamp = 3
       /\ dropped = {} /\ secured = {[n |-> 2, content |-> now]}

LaterSpec == (Early \/ Midway) /\ [][BackupNext]_allVars

WeekOf == [d \in Days |-> d]
MonthOf == [d \in Days |-> 0]

\* Kept against the loops of PruneBackups, on four days: weeks of two, a month
\* that ends within a week.
Four == 0 .. 3
Pairs == [d \in Four |-> d \div 2]
Triples == [d \in Four |-> d \div 3]

Calendar ==
  INSTANCE Retention WITH
    Days <- Four, Week <- Pairs, Month <- Triples,
    DailyLimit <- 2, WeeklyLimit <- 2, MonthlyLimit <- 1

Taken(seen, group, limit, d) == group[d] \notin seen /\ Cardinality(seen) < limit

Loop(S) ==
  LET step(b, acc) ==
        LET d == Taken(acc.daily, Calendar!Day, 2, b.day)
            w == Taken(acc.weekly, Pairs, 2, b.day)
            m == Taken(acc.monthly, Triples, 1, b.day)
        IN [keep |-> IF d \/ w \/ m THEN acc.keep \cup {b} ELSE acc.keep,
            daily |-> IF d THEN acc.daily \cup {b.day} ELSE acc.daily,
            weekly |-> IF w THEN acc.weekly \cup {Pairs[b.day]} ELSE acc.weekly,
            monthly |-> IF m THEN acc.monthly \cup {Triples[b.day]} ELSE acc.monthly]
  IN FoldRight(step, SetToSortSeq(S, LAMBDA a, b : a.n < b.n),
               [keep |-> {}, daily |-> {}, weekly |-> {}, monthly |-> {}]).keep

Timelines ==
  {S \in SUBSET [day : Four, n : 1 .. 4] : \A a, b \in S :
     (a.n = b.n => a = b) /\ (a.n < b.n => a.day <= b.day)}

ASSUME KeptIsTheLoop == \A S \in Timelines : Calendar!Kept(S) = Loop(S)
=============================================================================
