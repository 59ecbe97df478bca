----------------------------- MODULE Retention -----------------------------
(***************************************************************************)
(* Which managed backups PruneBackups keeps: the newest of each of the     *)
(* last days, ISO weeks and months that have a backup.                     *)
(*                                                                         *)
(* A backup has the day of its name and a number, n, for the rest of it:   *)
(* names sort as the moments they are made from.                           *)
(***************************************************************************)
EXTENDS Naturals, FiniteSets

CONSTANTS
  Days,
  Week, Month,   \* day -> the ISO week and the month it belongs to
  DailyLimit, WeeklyLimit, MonthlyLimit

ASSUME RetentionAssumption ==
  /\ Days \subseteq Nat
  /\ DOMAIN Week = Days /\ DOMAIN Month = Days
  /\ DailyLimit \in Nat \ {0} /\ WeeklyLimit \in Nat /\ MonthlyLimit \in Nat

Day == [d \in Days |-> d]

\* What the loop has passed when it comes to a.
Newer(a, S) == {b \in S : b.n > a.n}

\* Broken: a generation is as old as its first backup.
ChosenOldest(a, S, group, limit) ==
  /\ \A b \in S \ Newer(a, S) : b = a \/ group[b.day] # group[a.day]
  /\ Cardinality({group[b.day] : b \in Newer(a, S)}) < limit

\* The loop takes a for one kind of generation: the group is not taken yet,
\* and fewer than limit groups are.
Chosen(a, S, group, limit) ==
  /\ \A b \in Newer(a, S) : group[b.day] # group[a.day]
  /\ Cardinality({group[b.day] : b \in Newer(a, S)}) < limit

Kept(S) ==
  {a \in S : \/ Chosen(a, S, Day, DailyLimit)
             \/ Chosen(a, S, Week, WeeklyLimit)
             \/ Chosen(a, S, Month, MonthlyLimit)}
=============================================================================
