----------------------- MODULE AssessmentStoreProofs -----------------------
(***************************************************************************)
(* Theorems of AssessmentStore, for every number of workers, findings,     *)
(* keys and payloads and every bound.                                      *)
(***************************************************************************)
EXTENDS AssessmentStore, FiniteSetTheorems, TLAPS

-----------------------------------------------------------------------------
(* Types of what calls are made of *)

\* A worker that does nothing is a call too.
LEMMA IdleCallType == IdleCall \in Calls
<1>1. <<>> \in Seq(Findings) /\ NoPlan \in [Findings -> Nat]
  BY DEF NoPlan
<1>. QED BY <1>1 DEF IdleCall, Calls, Phases, Outcomes, Units, Contents

\* What is left of a call that ended is a call.
LEMMA DoneType ==
  ASSUME NEW outcome \in Outcomes, NEW result \in Nat
  PROVE  Done(outcome, result) \in Calls
<1>1. IdleCall \in Calls
  BY IdleCallType
<1>2. [IdleCall EXCEPT !.phase = "done", !.outcome = outcome, !.result = result] \in Calls
  BY <1>1 DEF Calls, Phases
<1>. QED BY <1>2 DEF Done

\* A well-formed request is a call.
LEMMA RequestType ==
  ASSUME NEW op \in Versioned \cup Lifecycle,
         NEW target \in Units, NEW source \in Units,
         NEW key \in Keys \cup {NoKey}, NEW pay \in Contents,
         NEW order \in Seq(Findings), NEW expected \in Nat
  PROVE  Request(op, target, source, key, pay, order, expected) \in Calls
BY IdleCallType DEF Request, Calls, Phases

\* The findings of the assessment are finitely many.
LEMMA SomeFinite ==
  ASSUME NEW S \in SUBSET Findings
  PROVE  IsFiniteSet(S) /\ Cardinality(S) \in Nat
BY StoreAssumption, FS_Subset, FS_CardinalityType

\* The highest sort order is a number.
LEMMA LastType == TypeOK => Last \in Nat
BY DEF TypeOK, Last, Live

\* What a transaction means to write gives every finding a place.
LEMMA PlannedType ==
  ASSUME TypeOK, NEW c \in Calls
  PROVE  Planned(c) \in [Findings -> Nat]
<1>1. CASE c.op \in Creating
  <2>1. Planned(c) = [sort EXCEPT ![c.target] = Last + 1]
    BY <1>1 DEF Planned, Creating
  <2>2. sort \in [Findings -> Nat] /\ Last + 1 \in Nat
    BY LastType DEF TypeOK
  <2>. QED BY <2>1, <2>2
<1>2. CASE c.op = "delete"
  <2>1. Renumbered(c.target) \in [Findings -> Nat]
    BY SomeFinite DEF Renumbered, Live
  <2>. QED BY <1>2, <2>1 DEF Planned, Creating
<1>3. CASE c.op = "reorder"
  <2>1. \A f \in Elements(c.order) :
           (CHOOSE i \in DOMAIN c.order : c.order[i] = f) \in Nat
    BY DEF Elements, Calls
  <2>. QED BY <1>3, <2>1 DEF Planned, Creating
<1>4. CASE c.op \notin Creating \cup {"delete", "reorder"}
  BY <1>4 DEF Planned, NoPlan
<1>. QED BY <1>1, <1>2, <1>3, <1>4

\* A replay answers with a number.
LEMMA ReplayedType ==
  ASSUME TypeOK, NEW c \in Calls, Stored(c)
  PROVE  Replayed(c) \in Calls
<1>1. journal[c.key].applied \in Nat
  BY DEF TypeOK, Stored, Calls, Rows
<1>. QED BY <1>1, DoneType DEF Replayed, Outcomes

\* What the checks before the lock make of a call is a call.
LEMMA BeforeLockType ==
  ASSUME TypeOK, NEW c \in Calls
  PROVE  BeforeLock(c) \in Calls
BY ReplayedType, DoneType DEF BeforeLock, Outcomes

\* What a transaction makes of a call is a call.
LEMMA InTransactionType ==
  ASSUME TypeOK, NEW c \in Calls
  PROVE  InTransaction(c) \in Calls
<1>1. ASSUME Stored(c)
      PROVE  InTransaction(c) \in Calls
  BY <1>1, ReplayedType DEF InTransaction
<1>2. Done("missing", 0) \in Calls /\ Done("readonly", 0) \in Calls
  BY DoneType DEF Outcomes
<1>3. [c EXCEPT !.phase = "running"] \in Calls
  BY DEF Calls, Phases
<1>4. ASSUME c.op = "duplicate" => ~ Gone(c)
      PROVE  [c EXCEPT !.phase = "running", !.plan = Planned(c),
                       !.pay = IF c.op = "duplicate" THEN content[c.source] ELSE @] \in Calls
  <2>1. (IF c.op = "duplicate" THEN content[c.source] ELSE c.pay) \in Contents
    BY DEF TypeOK, Calls
  <2>. QED BY <2>1, PlannedType DEF Calls, Phases
<1>. QED BY <1>1, <1>2, <1>3, <1>4 DEF InTransaction

-----------------------------------------------------------------------------
(* Type correctness *)

LEMMA InitType == Init => TypeOK
<1>. SUFFICES ASSUME Init PROVE TypeOK
  OBVIOUS
<1>1. sort \in [Findings -> Nat]
  <2>1. \A f \in Elements(InitialFindings) :
           (CHOOSE i \in DOMAIN InitialFindings : InitialFindings[i] = f) \in Nat
    BY StoreAssumption DEF Elements
  <2>. QED BY <2>1 DEF Init
<1>2. born \subseteq Findings
  BY StoreAssumption DEF Init, Elements
<1>3. journal \in [Keys -> Rows]
  <2>1. <<>> \in Seq(Findings)
    OBVIOUS
  <2>. QED BY <2>1 DEF Init, NoRow, Rows, Units, Contents
<1>4. call \in [Workers -> Calls]
  BY IdleCallType DEF Init
<1>5. applied \in Seq(Keys \cup {NoKey})
  BY DEF Init
<1>. QED
  BY <1>1, <1>2, <1>3, <1>4, <1>5 DEF Init, TypeOK, Statuses, Contents

\* Whatever is received is a call, and every new finding has an identifier.
LEMMA ReceiveType ==
  ASSUME TypeOK, NEW w \in Workers, NEW c \in Calls, Receive(w, c),
         c.op \in Creating => c.target \in Findings
  PROVE  TypeOK'
<1>1. BeforeLock(c) \in Calls
  BY BeforeLockType
<1>. QED BY <1>1 DEF TypeOK, Receive, rows

\* Everything that arrives is a call.
LEMMA AsksType ==
  ASSUME TypeOK, NEW w \in Workers, Asks(w)
  PROVE  TypeOK'
<1>1. PICK expected \in 0..version :
        \/ \E k \in Keys \cup {NoKey}, p \in Payloads :
             \/ Receive(w, Request("save_assessment", Details, Details, k, p, <<>>, expected))
             \/ \E f \in born :
                  Receive(w, Request("save_finding", f, Details, k, p, <<>>, expected))
        \/ \E k \in Keys, o \in Orders :
             Receive(w, Request("reorder", Details, Details, k, Blank, o, expected))
        \/ \E f \in Findings \ born :
             \/ Receive(w, Request("create", f, Details, NoKey, Blank, <<>>, expected))
             \/ \E p \in Payloads :
                  Receive(w, Request("copy_template", f, Details, NoKey, p, <<>>, expected))
             \/ \E g \in born :
                  Receive(w, Request("duplicate", f, g, NoKey, Blank, <<>>, expected))
        \/ \E f \in born :
             Receive(w, Request("delete", f, Details, NoKey, Blank, <<>>, expected))
        \/ \E op \in Lifecycle :
             Receive(w, Request(op, Details, Details, NoKey, Blank, <<>>, expected))
  BY DEF Asks
<1>2. expected \in Nat /\ born \subseteq Findings /\ <<>> \in Seq(Findings)
  BY DEF TypeOK
<1>4. ASSUME NEW op \in Versioned \cup Lifecycle, NEW target \in Units,
             NEW source \in Units, NEW key \in Keys \cup {NoKey},
             NEW pay \in Contents, NEW order \in Seq(Findings),
             op \in Creating => target \in Findings,
             Receive(w, Request(op, target, source, key, pay, order, expected))
      PROVE  TypeOK'
  <2>. DEFINE c == Request(op, target, source, key, pay, order, expected)
  <2>1. c \in Calls
    BY <1>2, RequestType
  <2>2. c.op = op /\ c.target = target
    BY DEF Request, IdleCall
  <2>3. Receive(w, c) /\ (c.op \in Creating => c.target \in Findings)
    BY <1>4, <2>2
  <2>. HIDE DEF c
  <2>. QED BY <2>1, <2>3, ReceiveType
<1>5. CASE \E k \in Keys \cup {NoKey}, p \in Payloads :
             \/ Receive(w, Request("save_assessment", Details, Details, k, p, <<>>, expected))
             \/ \E f \in born :
                  Receive(w, Request("save_finding", f, Details, k, p, <<>>, expected))
  <2>1. ASSUME NEW k \in Keys \cup {NoKey}, NEW p \in Payloads, NEW u \in Units,
               NEW op \in Saving,
               Receive(w, Request(op, u, Details, k, p, <<>>, expected))
        PROVE  TypeOK'
    BY <1>2, <1>4, <2>1 DEF Versioned, Saving, Creating, Units, Contents
  <2>. QED BY <1>2, <1>5, <2>1 DEF Saving, Units
<1>6. CASE \E k \in Keys, o \in Orders :
             Receive(w, Request("reorder", Details, Details, k, Blank, o, expected))
  <2>1. Orders \subseteq Seq(Findings)
    <3>1. Cardinality(born) \in Nat
      BY <1>2, SomeFinite
    <3>2. \A n \in Nat : [1..n -> born] \subseteq Seq(Findings)
      BY <1>2
    <3>. QED BY <3>1, <3>2 DEF Orders
  <2>. QED BY <1>4, <1>6, <2>1 DEF Versioned, Saving, Creating, Units, Contents
<1>7. CASE \E f \in Findings \ born :
             \/ Receive(w, Request("create", f, Details, NoKey, Blank, <<>>, expected))
             \/ \E p \in Payloads :
                  Receive(w, Request("copy_template", f, Details, NoKey, p, <<>>, expected))
             \/ \E g \in born :
                  Receive(w, Request("duplicate", f, g, NoKey, Blank, <<>>, expected))
  BY <1>2, <1>4, <1>7 DEF Versioned, Creating, Units, Contents
<1>8. CASE \E f \in born :
             Receive(w, Request("delete", f, Details, NoKey, Blank, <<>>, expected))
  BY <1>2, <1>4, <1>8 DEF Versioned, Creating, Units, Contents
<1>9. CASE \E op \in Lifecycle :
             Receive(w, Request(op, Details, Details, NoKey, Blank, <<>>, expected))
  BY <1>2, <1>4, <1>9 DEF Lifecycle, Creating, Units, Contents
<1>. QED BY <1>1, <1>5, <1>6, <1>7, <1>8, <1>9

\* An applied change leaves well-typed rows.
LEMMA ApplyChangeType ==
  ASSUME TypeOK, NEW w \in Workers, ApplyChange(w)
  PROVE  TypeOK'
<1>. DEFINE c == call[w]
<1>1. c \in Calls /\ c.expected + 1 \in Nat
  BY DEF TypeOK, Calls
<1>2. version' \in Nat
  BY <1>1 DEF ApplyChange
<1>3. sort' \in [Findings -> Nat]
  BY <1>1 DEF ApplyChange, TypeOK, Calls
<1>4. content' \in [Units -> Contents]
  BY <1>1 DEF ApplyChange, TypeOK, Calls
<1>5. journal' \in [Keys -> Rows]
  <2>1. c.op \in Versioned
    BY DEF ApplyChange
  <2>2. [op |-> c.op, target |-> c.target, pay |-> c.pay,
         order |-> c.order, applied |-> c.expected + 1] \in Rows
    BY <1>1, <2>1 DEF Calls, Rows
  <2>. QED BY <2>2 DEF ApplyChange, TypeOK
<1>6. call' \in [Workers -> Calls]
  BY <1>1, DoneType DEF ApplyChange, TypeOK, Outcomes
<1>7. applied' \in Seq(Keys \cup {NoKey})
  BY <1>1 DEF ApplyChange, TypeOK, Calls
<1>. QED
  BY <1>2, <1>3, <1>4, <1>5, <1>6, <1>7 DEF ApplyChange, TypeOK

\* The lemmas of this module are about Serves, the steps without the bound.
LEMMA NextServes == [Next]_storeVars => [Serves]_storeVars
BY DEF Next, Arrives, Serves

\* Every step keeps the types.
LEMMA NextType == TypeOK /\ [Serves]_storeVars => TypeOK'
<1>. SUFFICES ASSUME TypeOK, [Serves]_storeVars PROVE TypeOK'
  OBVIOUS
<1>0. \A outcome \in Outcomes, result \in Nat : Done(outcome, result) \in Calls
  BY DoneType
<1>1. ASSUME NEW w \in Workers, Asks(w) PROVE TypeOK'
  BY <1>1, AsksType
<1>2. ASSUME NEW w \in Workers, Begin(w) PROVE TypeOK'
  <2>1. InTransaction(call[w]) \in Calls
    BY InTransactionType DEF TypeOK
  <2>. QED BY <1>2, <2>1 DEF TypeOK, Begin, rows
<1>3. ASSUME NEW w \in Workers, LockTimeout(w) PROVE TypeOK'
  BY <1>0, <1>3 DEF TypeOK, LockTimeout, rows, Outcomes
<1>4. ASSUME NEW w \in Workers, ApplyChange(w) PROVE TypeOK'
  BY <1>4, ApplyChangeType
<1>5. ASSUME NEW w \in Workers, RefuseChange(w) PROVE TypeOK'
  BY <1>0, <1>5 DEF TypeOK, RefuseChange, rows, Outcomes
<1>6. ASSUME NEW w \in Workers, RefuseInvalid(w) PROVE TypeOK'
  BY <1>0, <1>6 DEF TypeOK, RefuseInvalid, rows, Outcomes
<1>7. ASSUME NEW w \in Workers, ApplyLifecycle(w) PROVE TypeOK'
  <2>1. status' \in Statuses /\ completedAt' \in BOOLEAN /\ shown' \subseteq Statuses
    BY <1>7 DEF TypeOK, ApplyLifecycle, Lifecycle, Destination, Statuses
  <2>2. version' \in Nat /\ call' \in [Workers -> Calls]
    BY <1>0, <1>7 DEF TypeOK, ApplyLifecycle, Outcomes
  <2>3. applied' \in Seq(Keys \cup {NoKey})
    BY <1>7 DEF TypeOK, ApplyLifecycle
  <2>. QED BY <1>7, <2>1, <2>2, <2>3 DEF TypeOK, ApplyLifecycle
<1>8. ASSUME NEW w \in Workers, RefuseLifecycle(w) PROVE TypeOK'
  BY <1>0, <1>8 DEF TypeOK, RefuseLifecycle, rows, Outcomes
<1>9. ASSUME NEW w \in Workers, Finish(w) PROVE TypeOK'
  BY <1>9, IdleCallType DEF TypeOK, Finish, rows
<1>10. ASSUME NEW w \in Workers, Crash(w) PROVE TypeOK'
  BY <1>10, IdleCallType DEF TypeOK, Crash, rows
<1>11. CASE LockExpires
  BY <1>11 DEF TypeOK, LockExpires, rows
<1>12. ASSUME NEW s \in Statuses, NEW p \in Payloads, SaveEditForm(s, p) PROVE TypeOK'
  BY <1>12 DEF TypeOK, SaveEditForm, Contents
<1>13. CASE UNCHANGED storeVars
  BY <1>13 DEF TypeOK, storeVars
<1>. QED
  BY <1>1, <1>2, <1>3, <1>4, <1>5, <1>6, <1>7, <1>8, <1>9, <1>10, <1>11, <1>12, <1>13
     DEF Serves, Proceeds

\* Whatever is delivered, in whatever order, however many workers there are:
\* every variable has its type.
THEOREM TypeCorrect == Spec => []TypeOK
BY NextServes, InitType, NextType, PTL DEF Spec

-----------------------------------------------------------------------------
(* The inductive invariant *)

\* No call expects a version that does not exist yet.
ExpectsThePast == \A w \in Workers : call[w].expected <= version

\* The version is the number of operations applied.
VersionCounts == version = Len(applied)

\* A key that was applied is in the journal, at its place in the history.
KeysAreRecorded ==
  \A i \in 1..Len(applied) :
     applied[i] # NoKey => journal[applied[i]].applied = i

\* Why no key is applied twice: a keyed call that may still succeed found no
\* journal row (PlansAreCurrent), the journal has a row for every key applied
\* (KeysAreRecorded), and nothing changes between its look at the journal and
\* its success, because every change raises the version it expects.
IInv ==
  /\ TypeOK
  /\ ExpectsThePast
  /\ VersionCounts
  /\ KeysAreRecorded
  /\ JournalTruthful
  /\ PlansAreCurrent

\* What every step but an applied operation leaves alone.
Quiet ==
  /\ UNCHANGED <<version, sort, journal, applied>>
  /\ \A f \in Findings : content'[f] = content[f]

\* A step applies an operation, or is quiet.
LEMMA StepKinds ==
  ASSUME TypeOK, [Serves]_storeVars
  PROVE  \/ \E w \in Workers : ApplyChange(w) \/ ApplyLifecycle(w)
         \/ Quiet
<1>1. ASSUME NEW w \in Workers, Asks(w) PROVE Quiet
  BY <1>1 DEF Asks, Receive, rows, Quiet
<1>2. ASSUME NEW w \in Workers, Begin(w) \/ LockTimeout(w) PROVE Quiet
  BY <1>2 DEF Begin, LockTimeout, rows, Quiet
<1>3. ASSUME NEW w \in Workers, RefuseChange(w) \/ RefuseInvalid(w) \/ RefuseLifecycle(w)
      PROVE Quiet
  BY <1>3 DEF RefuseChange, RefuseInvalid, RefuseLifecycle, rows, Quiet
<1>4. ASSUME NEW w \in Workers, Finish(w) \/ Crash(w) PROVE Quiet
  BY <1>4 DEF Finish, Crash, rows, Quiet
<1>5. ASSUME LockExpires PROVE Quiet
  BY <1>5 DEF LockExpires, rows, Quiet
<1>6. ASSUME NEW s \in Statuses, NEW p \in Payloads, SaveEditForm(s, p) PROVE Quiet
  BY <1>6, StoreAssumption DEF SaveEditForm, Quiet, TypeOK
<1>7. ASSUME UNCHANGED storeVars PROVE Quiet
  BY <1>7 DEF storeVars, Quiet
<1>. QED
  BY <1>1, <1>2, <1>3, <1>4, <1>5, <1>6, <1>7 DEF Serves, Proceeds

LEMMA InitInv == Init => IInv
<1>. SUFFICES ASSUME Init PROVE IInv
  OBVIOUS
<1>1. TypeOK
  BY InitType
<1>2. version = 0 /\ applied = <<>> /\ \A w \in Workers : call[w] = IdleCall
  BY DEF Init
<1>3. \A k \in Keys : journal[k].applied = 0
  BY DEF Init, NoRow
<1>4. IdleCall.phase = "idle" /\ IdleCall.expected = 0
  BY DEF IdleCall
<1>. QED
  BY <1>1, <1>2, <1>3, <1>4
     DEF IInv, ExpectsThePast, VersionCounts, KeysAreRecorded, JournalTruthful,
         PlansAreCurrent, PlanIsCurrent

\* An applied change appends the key that no earlier change carried.
LEMMA HistoryOfChange ==
  ASSUME IInv, NEW w \in Workers, ApplyChange(w)
  PROVE  (VersionCounts /\ KeysAreRecorded /\ JournalTruthful)'
<1>. DEFINE c == call[w]
             n == Len(applied)
<1>1. /\ c \in Calls /\ c.key \in Keys \cup {NoKey} /\ c.expected \in Nat
      /\ applied \in Seq(Keys \cup {NoKey}) /\ journal \in [Keys -> Rows]
  BY DEF IInv, TypeOK, Calls
<1>2. c.expected = version /\ version = n /\ n \in Nat
  BY <1>1 DEF IInv, VersionCounts, ApplyChange, Matches
<1>3. /\ applied' = Append(applied, c.key)
      /\ version' = n + 1
  BY <1>2 DEF ApplyChange
<1>4. /\ Len(applied') = n + 1
      /\ applied'[n + 1] = c.key
      /\ \A i \in 1..n : applied'[i] = applied[i]
      /\ \A i \in 1..(n + 1) : i \in 1..n \/ i = n + 1
  BY <1>1, <1>2, <1>3
<1>5. CASE c.key = NoKey
  <2>1. journal' = journal /\ applied'[n + 1] = NoKey
    BY <1>4, <1>5 DEF ApplyChange
  <2>. HIDE DEF c
  <2>2. VersionCounts'
    BY <1>3, <1>4 DEF VersionCounts
  <2>3. KeysAreRecorded'
    BY <1>4, <2>1 DEF IInv, KeysAreRecorded
  <2>4. JournalTruthful'
    BY <1>2, <1>4, <2>1 DEF IInv, JournalTruthful
  <2>. QED BY <2>2, <2>3, <2>4
<1>6. CASE c.key # NoKey
  <2>1. c.key \in Keys /\ journal[c.key].applied = 0
    <3>1. ~ Stored(c)
      BY <1>2 DEF IInv, PlansAreCurrent, PlanIsCurrent, ApplyChange
    <3>2. journal[c.key].applied \in Nat
      BY <1>1, <1>6 DEF Rows
    <3>. QED BY <1>1, <1>6, <3>1, <3>2 DEF Stored
  <2>2. \A i \in 1..n : applied[i] # c.key
    BY <1>2, <1>6, <2>1 DEF IInv, KeysAreRecorded
  <2>3. /\ journal'[c.key].applied = n + 1
        /\ \A k \in Keys : k # c.key => journal'[k] = journal[k]
    BY <1>1, <1>2, <1>6, <2>1 DEF ApplyChange
  <2>4. VersionCounts'
    BY <1>3, <1>4 DEF VersionCounts
  <2>5. KeysAreRecorded'
    <3>. SUFFICES ASSUME NEW i \in 1..(n + 1), applied'[i] # NoKey
                  PROVE  journal'[applied'[i]].applied = i
      BY <1>4 DEF KeysAreRecorded
    <3>1. CASE i = n + 1
      BY <1>4, <2>3, <3>1
    <3>2. CASE i \in 1..n
      <4>1. applied[i] \in Keys /\ applied[i] # c.key
        BY <1>1, <1>4, <2>2, <3>2
      <4>2. journal[applied[i]].applied = i
        BY <1>4, <3>2 DEF IInv, KeysAreRecorded
      <4>. QED BY <1>4, <2>3, <3>2, <4>1, <4>2
    <3>. QED BY <1>4, <3>1, <3>2
  <2>6. JournalTruthful'
    <3>. SUFFICES ASSUME NEW k \in Keys, journal'[k].applied > 0
                  PROVE  /\ journal'[k].applied \in 1..(n + 1)
                         /\ applied'[journal'[k].applied] = k
      BY <1>4 DEF JournalTruthful
    <3>1. CASE k = c.key
      BY <1>2, <1>4, <2>3, <3>1
    <3>2. CASE k # c.key
      <4>1. journal[k].applied \in 1..n /\ applied[journal[k].applied] = k
        BY <2>3, <3>2 DEF IInv, JournalTruthful
      <4>. QED BY <1>2, <1>4, <2>3, <3>2, <4>1
    <3>. QED BY <3>1, <3>2
  <2>. QED BY <2>4, <2>5, <2>6
<1>. QED BY <1>5, <1>6

\* A lifecycle operation appends an entry without a key.
LEMMA HistoryOfLifecycle ==
  ASSUME IInv, NEW w \in Workers, ApplyLifecycle(w)
  PROVE  (VersionCounts /\ KeysAreRecorded /\ JournalTruthful)'
<1>. DEFINE n == Len(applied)
<1>1. applied \in Seq(Keys \cup {NoKey}) /\ version = n /\ n \in Nat
  BY DEF IInv, TypeOK, VersionCounts
<1>2. /\ applied' = Append(applied, NoKey)
      /\ version' = n + 1
      /\ journal' = journal
  BY <1>1 DEF ApplyLifecycle
<1>3. /\ Len(applied') = n + 1
      /\ applied'[n + 1] = NoKey
      /\ \A i \in 1..n : applied'[i] = applied[i]
      /\ \A i \in 1..(n + 1) : i \in 1..n \/ i = n + 1
  BY <1>1, <1>2
<1>. QED
  BY <1>1, <1>2, <1>3 DEF IInv, VersionCounts, KeysAreRecorded, JournalTruthful

LEMMA HistoryKept ==
  ASSUME IInv, [Serves]_storeVars
  PROVE  (VersionCounts /\ KeysAreRecorded /\ JournalTruthful)'
<1>1. CASE Quiet
  BY <1>1 DEF Quiet, IInv, VersionCounts, KeysAreRecorded, JournalTruthful
<1>2. CASE \E w \in Workers : ApplyChange(w) \/ ApplyLifecycle(w)
  BY <1>2, HistoryOfChange, HistoryOfLifecycle
<1>. QED BY <1>1, <1>2, StepKinds DEF IInv

\* A call that ends expects nothing any more.
LEMMA DoneShape ==
  \A outcome, result : /\ Done(outcome, result).phase = "done"
                       /\ Done(outcome, result).expected = 0
BY DEF Done, IdleCall

\* A request waits, for the version it is given.
LEMMA RequestShape ==
  \A op, target, source, key, pay, order, expected :
     /\ Request(op, target, source, key, pay, order, expected).phase = "waiting"
     /\ Request(op, target, source, key, pay, order, expected).expected = expected
BY DEF Request, IdleCall

\* A call leaves the checks before the lock as it is or ended.
LEMMA BeforeLockShape ==
  \A c : \/ BeforeLock(c) = c
         \/ BeforeLock(c).phase = "done" /\ BeforeLock(c).expected = 0
BY DoneShape DEF BeforeLock, Replayed

\* A transaction does not change what the call expects, unless it ends it.
LEMMA InTransactionShape ==
  ASSUME NEW c \in Calls
  PROVE  \/ InTransaction(c).expected = c.expected
         \/ InTransaction(c).phase = "done" /\ InTransaction(c).expected = 0
<1>1. [c EXCEPT !.phase = "running"].expected = c.expected
  BY DEF Calls
<1>2. \A plan, pay : [c EXCEPT !.phase = "running", !.plan = plan, !.pay = pay].expected
                     = c.expected
  BY DEF Calls
<1>. QED BY <1>1, <1>2, DoneShape DEF InTransaction, Replayed

\* What a step does to one call.
LEMMA CallSteps ==
  ASSUME TypeOK, [Serves]_storeVars, NEW v \in Workers
  PROVE  \/ call'[v] = call[v]
         \/ call'[v].phase # "running" /\ call'[v].expected <= version
         \/ Begin(v)
<1>. DEFINE Goal == \/ call'[v] = call[v]
                    \/ call'[v].phase # "running" /\ call'[v].expected <= version
                    \/ Begin(v)
<1>0. version \in Nat /\ call \in [Workers -> Calls]
      /\ IdleCall.phase = "idle" /\ IdleCall.expected = 0
  BY DEF TypeOK, IdleCall
<1>1. ASSUME NEW w \in Workers, Asks(w) PROVE Goal
  <2>1. PICK c : Receive(w, c) /\ c.phase = "waiting" /\ c.expected \in 0..version
    BY <1>1, RequestShape DEF Asks
  <2>2. BeforeLock(c).phase # "running" /\ BeforeLock(c).expected <= version
    BY <1>0, <2>1, BeforeLockShape
  <2>. QED BY <1>0, <2>1, <2>2 DEF Receive
<1>2. ASSUME NEW w \in Workers, Begin(w) PROVE Goal
  BY <1>0, <1>2 DEF Begin
<1>3. ASSUME NEW w \in Workers, LockTimeout(w) PROVE Goal
  BY <1>0, <1>3, DoneShape DEF LockTimeout
<1>4. ASSUME NEW w \in Workers, ApplyChange(w) PROVE Goal
  BY <1>0, <1>4, DoneShape DEF ApplyChange
<1>5. ASSUME NEW w \in Workers, RefuseChange(w) PROVE Goal
  BY <1>0, <1>5, DoneShape DEF RefuseChange
<1>6. ASSUME NEW w \in Workers, RefuseInvalid(w) PROVE Goal
  BY <1>0, <1>6, DoneShape DEF RefuseInvalid
<1>7. ASSUME NEW w \in Workers, ApplyLifecycle(w) PROVE Goal
  BY <1>0, <1>7, DoneShape DEF ApplyLifecycle
<1>8. ASSUME NEW w \in Workers, RefuseLifecycle(w) PROVE Goal
  BY <1>0, <1>8, DoneShape DEF RefuseLifecycle
<1>9. ASSUME NEW w \in Workers, Finish(w) \/ Crash(w) PROVE Goal
  BY <1>0, <1>9 DEF Finish, Crash
<1>10. ASSUME LockExpires PROVE Goal
  BY <1>10 DEF LockExpires
<1>11. ASSUME NEW s \in Statuses, NEW p \in Payloads, SaveEditForm(s, p) PROVE Goal
  BY <1>11 DEF SaveEditForm
<1>12. ASSUME UNCHANGED storeVars PROVE Goal
  BY <1>12 DEF storeVars
<1>. QED
  BY <1>1, <1>2, <1>3, <1>4, <1>5, <1>6, <1>7, <1>8, <1>9, <1>10, <1>11, <1>12
     DEF Serves, Proceeds

\* The version never goes back, and an applied operation raises it.
LEMMA VersionRises ==
  ASSUME TypeOK, [Serves]_storeVars
  PROVE  version' \in Nat /\ (version' = version \/ version' = version + 1)
<1>1. ASSUME NEW w \in Workers, ApplyChange(w) PROVE version' = version + 1
  BY <1>1 DEF ApplyChange, Matches
<1>2. ASSUME NEW w \in Workers, ApplyLifecycle(w) PROVE version' = version + 1
  BY <1>2 DEF ApplyLifecycle
<1>. QED BY <1>1, <1>2, StepKinds DEF Quiet, TypeOK

LEMMA ExpectsThePastKept ==
  ASSUME IInv, [Serves]_storeVars
  PROVE  ExpectsThePast'
<1>. SUFFICES ASSUME NEW v \in Workers PROVE call'[v].expected <= version'
  BY DEF ExpectsThePast
<1>1. /\ call \in [Workers -> Calls] /\ call[v] \in Calls
      /\ version \in Nat /\ call[v].expected \in Nat
      /\ call[v].expected <= version
  BY DEF IInv, TypeOK, ExpectsThePast, Calls
<1>2. call'[v].expected \in Nat
  BY NextType DEF IInv, TypeOK, Calls
<1>3. call'[v].expected <= version
  <2>1. CASE Begin(v)
    BY <1>1, <2>1, InTransactionShape DEF Begin
  <2>. QED BY <1>1, <2>1, CallSteps DEF IInv
<1>. QED BY <1>1, <1>2, <1>3, VersionRises DEF IInv

\* A current plan stays current while nothing it was worked out from changes.
LEMMA PlanKept ==
  ASSUME TypeOK, Quiet, NEW v \in Workers, call'[v] = call[v], PlanIsCurrent(call[v])
  PROVE  PlanIsCurrent(call[v])'
<1>1. sort' = sort /\ journal' = journal /\ version' = version
  BY DEF Quiet
<1>2. \A f \in Findings : content'[f] = content[f]
  BY DEF Quiet
<1>3. Live' = Live
  BY <1>1 DEF Live
<1>4. Planned(call[v])' = Planned(call[v])
  BY <1>1, <1>3 DEF Planned, Last, Renumbered
<1>5. Stored(call[v])' = Stored(call[v])
  BY <1>1 DEF Stored
<1>. QED BY <1>1, <1>2, <1>3, <1>4, <1>5 DEF PlanIsCurrent, Live

\* A transaction starts with a current plan.
LEMMA PlanStarts ==
  ASSUME TypeOK, NEW v \in Workers, Begin(v)
  PROVE  PlanIsCurrent(call[v])'
<1>1. PICK c \in Calls : c = call[v]
  BY DEF TypeOK
<1>2. /\ call'[v] = InTransaction(c)
      /\ sort' = sort /\ journal' = journal /\ content' = content /\ version' = version
  BY <1>1 DEF Begin, TypeOK, rows
<1>3. CASE InTransaction(c).phase # "running"
  BY <1>2, <1>3 DEF PlanIsCurrent
<1>4. CASE InTransaction(c).phase = "running"
  <2>1. ~ Stored(c)
    BY <1>4, DoneShape DEF InTransaction, Replayed
  <2>2. CASE c.op \in Lifecycle
    <3>1. InTransaction(c).op = c.op
      BY <2>1, <2>2 DEF InTransaction, Calls
    <3>. QED
      BY <1>2, <2>2, <3>1
         DEF PlanIsCurrent, Versioned, Lifecycle, Saving, Creating
  <2>3. CASE c.op = "save_assessment"
    <3>1. InTransaction(c) = [c EXCEPT !.phase = "running"]
      BY <2>1, <2>3 DEF InTransaction
    <3>2. InTransaction(c).op = "save_assessment" /\ InTransaction(c).key = c.key
      BY <2>3, <3>1 DEF Calls
    <3>. QED BY <1>2, <2>1, <3>2 DEF PlanIsCurrent, Stored, Saving
  <2>4. CASE c.op \notin Lifecycle \cup {"save_assessment"}
    <3>. DEFINE pay == IF c.op = "duplicate" THEN content[c.source] ELSE c.pay
                d == [c EXCEPT !.phase = "running", !.plan = Planned(c), !.pay = pay]
    <3>1. ~ Gone(c) /\ InTransaction(c) = d
      BY <1>4, <2>1, <2>4, DoneShape DEF InTransaction
    <3>2. /\ d.op = c.op /\ d.key = c.key /\ d.target = c.target /\ d.source = c.source
          /\ d.order = c.order /\ d.plan = Planned(c) /\ d.pay = pay
      BY DEF Calls
    <3>. HIDE DEF d
    <3>3. Planned(d) = Planned(c)
      BY <3>2 DEF Planned
    <3>4. call'[v] = d
      BY <1>2, <3>1
    <3>5. Live' = Live
      BY <1>2 DEF Live
    <3>6. Planned(call[v])' = Planned(d)
      BY <1>2, <3>4, <3>5 DEF Planned, Last, Renumbered
    <3>7. ~ Stored(call[v])'
      BY <1>2, <2>1, <3>2, <3>4 DEF Stored
    <3>8. c.op = "save_finding" => c.target \in Live
      BY <3>1 DEF Gone
    <3>9. c.op = "duplicate" => c.source \in Live /\ pay = content[c.source]
      BY <3>1 DEF Gone
    <3>. QED
      BY <1>2, <3>2, <3>3, <3>4, <3>5, <3>6, <3>7, <3>8, <3>9 DEF PlanIsCurrent
  <2>. QED BY <2>2, <2>3, <2>4
<1>. QED BY <1>3, <1>4

LEMMA PlansKept ==
  ASSUME IInv, [Serves]_storeVars
  PROVE  PlansAreCurrent'
<1>. SUFFICES ASSUME NEW v \in Workers PROVE PlanIsCurrent(call[v])'
  BY DEF PlansAreCurrent
<1>1. TypeOK /\ PlanIsCurrent(call[v]) /\ call[v].expected <= version
  BY DEF IInv, PlansAreCurrent, ExpectsThePast
<1>2. CASE Begin(v)
  BY <1>1, <1>2, PlanStarts
<1>3. CASE call'[v].phase # "running"
  BY <1>3 DEF PlanIsCurrent
<1>4. CASE call'[v] = call[v] /\ Quiet
  BY <1>1, <1>4, PlanKept
<1>5. CASE call'[v] = call[v] /\ ~ Quiet
  <2>1. version' = version + 1
    BY <1>1, <1>5, StepKinds DEF ApplyChange, Matches, ApplyLifecycle
  <2>2. version \in Nat /\ call[v].expected \in Nat
    BY <1>1 DEF TypeOK, Calls
  <2>3. call'[v].expected # version'
    BY <1>1, <1>5, <2>1, <2>2
  <2>. QED BY <2>3 DEF PlanIsCurrent
<1>. QED BY <1>1, <1>2, <1>3, <1>4, <1>5, CallSteps

\* The invariant holds in every state the server reaches.
THEOREM Inductive == Spec => []IInv
<1>1. IInv /\ [Serves]_storeVars => IInv'
  BY NextType, HistoryKept, ExpectsThePastKept, PlansKept DEF IInv
<1>. QED BY NextServes, InitInv, <1>1, PTL DEF Spec

\* No request UUID is applied twice, and the version counts what was applied:
\* the promise of the journal, the lock and the conditional UPDATE together.
THEOREM AtMostOnce == Spec => []AppliedOnce
<1>1. IInv => AppliedOnce
  BY DEF IInv, VersionCounts, KeysAreRecorded, AppliedOnce
<1>. QED BY Inductive, <1>1, PTL

\* A repeated delivery is answered with the version its own operation made.
THEOREM TruthfulReplay == Spec => []JournalTruthful
<1>1. IInv => JournalTruthful
  BY DEF IInv
<1>. QED BY Inductive, <1>1, PTL

\* A transaction that can still commit was worked out from the rows as they
\* are, whoever owns the lock by then.
THEOREM CurrentPlans == Spec => []PlansAreCurrent
<1>1. IInv => PlansAreCurrent
  BY DEF IInv
<1>. QED BY Inductive, <1>1, PTL

\* No step of any call changes a finding, the order or the journal of an
\* assessment that is completed or archived.
THEOREM Frozen == Spec => FindingsFrozenWhileClosed
<1>1. TypeOK /\ [Serves]_storeVars /\ Closed =>
        /\ sort' = sort
        /\ journal' = journal
        /\ \A f \in Findings : content'[f] = content[f]
  <2>1. ASSUME NEW w \in Workers, Closed PROVE ~ ApplyChange(w)
    BY <2>1 DEF ApplyChange, Matches, Closed
  <2>2. ASSUME NEW w \in Workers, ApplyLifecycle(w)
        PROVE  UNCHANGED <<sort, journal, content>>
    BY <2>2 DEF ApplyLifecycle
  <2>. QED BY <2>1, <2>2, StepKinds DEF Quiet
<1>2. TypeOK /\ [Serves]_storeVars =>
        [Closed => /\ sort' = sort
                   /\ journal' = journal
                   /\ \A f \in Findings : content'[f] = content[f]]_storeVars
  BY <1>1
<1>. QED BY NextServes, TypeCorrect, <1>2, PTL DEF Spec, FindingsFrozenWhileClosed

-----------------------------------------------------------------------------
(* The order of the findings *)

Placed(s) == {f \in Findings : s[f] > 0}

\* The placed findings have different numbers, none above their count.
Numbered(s) ==
  /\ \A f, g \in Placed(s) : s[f] = s[g] => f = g
  /\ \A f \in Placed(s) : s[f] <= Cardinality(Placed(s))

\* So every number from 1 to the count is taken.
LEMMA NumbersTaken ==
  ASSUME NEW s \in [Findings -> Nat], Numbered(s)
  PROVE  \A i \in 1..Cardinality(Placed(s)) : \E f \in Placed(s) : s[f] = i
<1>. DEFINE S == Placed(s)
            n == Cardinality(S)
            m == [f \in S |-> s[f]]
<1>1. IsFiniteSet(S) /\ n \in Nat
  BY SomeFinite DEF Placed
<1>2. IsFiniteSet(1..n) /\ Cardinality(1..n) = n
  BY <1>1, FS_Interval
<1>3. m \in Injection(S, 1..n)
  <2>1. \A f \in S : s[f] \in 1..n
    BY <1>1 DEF Placed, Numbered
  <2>2. \A f, g \in S : m[f] = m[g] => f = g
    BY DEF Numbered
  <2>. QED BY <2>1, <2>2 DEF Injection, IsInjective
<1>4. m \in Surjection(S, 1..n)
  <2>. HIDE DEF m, n, S
  <2>. QED BY <1>1, <1>2, <1>3, FS_Injection DEF n
<1>5. \A i \in 1..n : \E f \in S : m[f] = i
  BY <1>4 DEF Surjection
<1>. QED BY <1>5

\* A finding's number is the count of those up to it.
LEMMA RankIsNumber ==
  ASSUME NEW s \in [Findings -> Nat], Numbered(s), NEW f \in Placed(s)
  PROVE  Cardinality({g \in Placed(s) : s[g] <= s[f]}) = s[f]
<1>. DEFINE S == {g \in Placed(s) : s[g] <= s[f]}
            T == 1..s[f]
            m == [g \in S |-> s[g]]
<1>1. s[f] \in Nat /\ s[f] <= Cardinality(Placed(s)) /\ Cardinality(Placed(s)) \in Nat
  BY SomeFinite DEF Placed, Numbered
<1>2. IsFiniteSet(T) /\ Cardinality(T) = s[f]
  <2>1. \A k \in Nat : IsFiniteSet(1..k) /\ Cardinality(1..k) = k
    BY FS_Interval
  <2>. QED BY <1>1, <2>1
<1>3. m \in [S -> T]
  BY <1>1 DEF Placed
<1>4. m \in Injection(S, T)
  <2>1. \A g, h \in S : m[g] = m[h] => g = h
    BY DEF Numbered
  <2>. QED BY <1>3, <2>1 DEF Injection, IsInjective
<1>5. m \in Surjection(S, T)
  <2>. SUFFICES ASSUME NEW i \in T PROVE \E g \in S : m[g] = i
    BY <1>3 DEF Surjection
  <2>1. PICK g \in Placed(s) : s[g] = i
    BY <1>1, NumbersTaken
  <2>2. g \in S
    BY <1>1, <2>1
  <2>. QED BY <2>1, <2>2
<1>. HIDE DEF m, S, T
<1>6. Cardinality(S) = Cardinality(T)
  BY <1>2, <1>4, <1>5, FS_Injection
<1>. QED BY <1>2, <1>6 DEF S

\* The highest number is the count.
LEMMA LastIsCount ==
  ASSUME TypeOK, Numbered(sort)
  PROVE  Last = Cardinality(Live) /\ Live = Placed(sort)
<1>. DEFINE n == Cardinality(Live)
            last == {f \in Live : \A g \in Live : sort[g] <= sort[f]}
<1>1. Live = Placed(sort) /\ sort \in [Findings -> Nat]
  BY DEF Live, Placed, TypeOK
<1>2. n \in Nat /\ IsFiniteSet(Live)
  BY SomeFinite DEF Live
<1>3. CASE n = 0
  <2>1. Live = {}
    BY <1>2, <1>3, FS_EmptySet
  <2>. QED BY <1>1, <1>3, <2>1 DEF Last
<1>4. CASE n # 0
  <2>1. PICK f \in Live : sort[f] = n
    BY <1>1, <1>2, <1>4, NumbersTaken
  <2>2. f \in last
    BY <1>1, <2>1 DEF Numbered
  <2>3. \A g \in last : sort[g] = n
    <3>. SUFFICES ASSUME NEW g \in last PROVE sort[g] = n
      OBVIOUS
    <3>1. sort[g] <= n /\ n <= sort[g] /\ sort[g] \in Nat
      BY <1>1, <2>1 DEF Numbered, Placed
    <3>. QED BY <1>2, <3>1
  <2>4. Last = sort[CHOOSE g \in last : TRUE]
    BY <2>2 DEF Last
  <2>. QED BY <1>1, <2>2, <2>3, <2>4
<1>. QED BY <1>3, <1>4

\* A new finding behind the last one.
LEMMA NumberedAfterAdding ==
  ASSUME NEW s \in [Findings -> Nat], Numbered(s), NEW t \in Findings \ Placed(s),
         NEW r, r = [s EXCEPT ![t] = Cardinality(Placed(s)) + 1]
  PROVE  /\ Numbered(r)
         /\ Placed(r) = Placed(s) \cup {t}
         /\ Cardinality(Placed(r)) = Cardinality(Placed(s)) + 1
<1>. DEFINE n == Cardinality(Placed(s))
<1>1. n \in Nat /\ IsFiniteSet(Placed(s))
  BY SomeFinite DEF Placed
<1>2. /\ r[t] = n + 1
      /\ \A f \in Findings : f # t => r[f] = s[f]
  OBVIOUS
<1>3. Placed(r) = Placed(s) \cup {t}
  BY <1>1, <1>2 DEF Placed
<1>4. Cardinality(Placed(r)) = n + 1
  BY <1>1, <1>3, FS_AddElement
<1>5. \A f \in Placed(s) : r[f] = s[f] /\ s[f] \in Nat /\ s[f] <= n
  BY <1>2 DEF Numbered, Placed
<1>6. \A f, g \in Placed(s) : s[f] = s[g] => f = g
  BY DEF Numbered
<1>. HIDE DEF n
<1>7. \A f, g \in Placed(s) \cup {t} : r[f] = r[g] => f = g
  BY <1>1, <1>2, <1>5, <1>6
<1>8. \A f \in Placed(s) \cup {t} : r[f] <= n + 1
  BY <1>1, <1>2, <1>5
<1>9. Cardinality(Placed(r)) = Cardinality(Placed(s)) + 1
  BY <1>4 DEF n
<1>10. Numbered(r)
  <2>1. \A f, g \in Placed(r) : r[f] = r[g] => f = g
    BY <1>3, <1>7
  <2>2. \A f \in Placed(r) : r[f] <= Cardinality(Placed(r))
    BY <1>3, <1>4, <1>8
  <2>. QED BY <2>1, <2>2 DEF Numbered
<1>. QED BY <1>3, <1>9, <1>10

\* A renumbering moves the findings behind the one that left up by one.
LEMMA RenumberedShape ==
  ASSUME TypeOK, Numbered(sort), NEW gone \in Live
  PROVE  \A f \in Findings :
           Renumbered(gone)[f] =
             IF f \notin Live \ {gone} THEN 0
             ELSE IF sort[f] < sort[gone] THEN sort[f] ELSE sort[f] - 1
<1>. SUFFICES ASSUME NEW f \in Findings
              PROVE  Renumbered(gone)[f] =
                       IF f \notin Live \ {gone} THEN 0
                       ELSE IF sort[f] < sort[gone] THEN sort[f] ELSE sort[f] - 1
  OBVIOUS
<1>1. CASE f \notin Live \ {gone}
  BY <1>1 DEF Renumbered
<1>2. CASE f \in Live \ {gone}
  <2>. DEFINE S == {g \in Live : sort[g] <= sort[f]}
              R == {g \in Live \ {gone} : sort[g] <= sort[f]}
  <2>1. Live = Placed(sort) /\ sort \in [Findings -> Nat] /\ sort[f] \in Nat /\ sort[gone] \in Nat
    BY DEF Live, Placed, TypeOK
  <2>2. Cardinality(S) = sort[f] /\ IsFiniteSet(S)
    BY <1>2, <2>1, RankIsNumber, SomeFinite DEF Live
  <2>3. R = S \ {gone}
    OBVIOUS
  <2>4. Cardinality(R) = IF gone \in S THEN sort[f] - 1 ELSE sort[f]
    <3>. HIDE DEF S, R
    <3>. QED BY <2>2, <2>3, FS_RemoveElement
  <2>5. gone \in S <=> sort[gone] <= sort[f]
    OBVIOUS
  <2>6. sort[gone] # sort[f]
    BY <1>2, <2>1 DEF Numbered
  <2>7. Renumbered(gone)[f] = Cardinality(R)
    BY <1>2 DEF Renumbered
  <2>. HIDE DEF S, R
  <2>. QED BY <1>2, <2>1, <2>4, <2>5, <2>6, <2>7
<1>. QED BY <1>1, <1>2

LEMMA NumberedAfterRemoving ==
  ASSUME TypeOK, Numbered(sort), NEW gone \in Live
  PROVE  /\ Numbered(Renumbered(gone))
         /\ Placed(Renumbered(gone)) = Live \ {gone}
         /\ Cardinality(Live \ {gone}) = Cardinality(Live) - 1
<1>. DEFINE r == Renumbered(gone)
            n == Cardinality(Live)
<1>1. \A f \in Findings :
        r[f] = IF f \notin Live \ {gone} THEN 0
               ELSE IF sort[f] < sort[gone] THEN sort[f] ELSE sort[f] - 1
  BY RenumberedShape
<1>2. /\ Live = Placed(sort) /\ sort \in [Findings -> Nat]
      /\ \A f \in Live : f \in Findings /\ sort[f] \in Nat /\ sort[f] > 0
  BY DEF Live, Placed, TypeOK
<1>3. n \in Nat /\ IsFiniteSet(Live)
  BY SomeFinite DEF Live
<1>4. \A f, g \in Live : sort[f] = sort[g] => f = g
  BY <1>2 DEF Numbered
<1>5. \A f \in Live : sort[f] <= n
  BY <1>2 DEF Numbered
<1>6. Cardinality(Live \ {gone}) = n - 1
  BY <1>3, FS_RemoveElement
<1>. HIDE DEF r, n
<1>7. Placed(r) = Live \ {gone}
  BY <1>1, <1>2, <1>4 DEF Placed
<1>8. \A f, g \in Live \ {gone} : r[f] = r[g] => f = g
  BY <1>1, <1>2, <1>4
<1>9. \A f \in Live \ {gone} : r[f] <= n - 1
  BY <1>1, <1>2, <1>3, <1>4, <1>5
<1>. QED BY <1>6, <1>7, <1>8, <1>9 DEF Numbered, r, n

\* A list of all the findings, as many as they are, names each of them once.
LEMMA FullListsAreDistinct ==
  ASSUME NEW o \in Seq(Findings), NEW S \in SUBSET Findings,
         Elements(o) = S, Len(o) = Cardinality(S)
  PROVE  \A i, j \in 1..Len(o) : o[i] = o[j] => i = j
<1>. DEFINE n == Len(o)
<1>1. n \in Nat /\ DOMAIN o = 1..n /\ o \in [1..n -> S]
  BY DEF Elements
<1>2. o \in Surjection(1..n, S)
  BY <1>1 DEF Surjection, Elements
<1>3. IsFiniteSet(1..n) /\ Cardinality(1..n) = n
  BY <1>1, FS_Interval
<1>4. o \in Injection(1..n, S)
  BY <1>2, <1>3, FS_SurjSameCardinalityImpliesInj
<1>. QED BY <1>1, <1>4 DEF Injection, IsInjective

\* The places of a list number what the list names.
LEMMA PlacesNumber ==
  ASSUME NEW o \in Seq(Findings), NEW S \in SUBSET Findings,
         Elements(o) = S, Len(o) = Cardinality(S),
         NEW r \in [Findings -> Nat],
         \A f \in S : r[f] \in 1..Len(o) /\ o[r[f]] = f,
         \A f \in Findings \ S : r[f] = 0
  PROVE  /\ Numbered(r) /\ Placed(r) = S
         /\ \A i \in 1..Len(o) : r[o[i]] = i
<1>1. \A i, j \in 1..Len(o) : o[i] = o[j] => i = j
  BY FullListsAreDistinct
<1>2. Len(o) \in Nat /\ DOMAIN o = 1..Len(o)
  OBVIOUS
<1>3. Placed(r) = S
  <2>1. \A f \in Findings : r[f] > 0 <=> f \in S
    BY <1>2
  <2>. QED BY <2>1 DEF Placed
<1>4. \A i \in 1..Len(o) : r[o[i]] = i
  BY <1>1, <1>2 DEF Elements
<1>5. Numbered(r)
  <2>1. \A f, g \in S : r[f] = r[g] => f = g
    OBVIOUS
  <2>2. \A f \in S : r[f] <= Cardinality(S)
    BY <1>2
  <2>. QED BY <1>3, <2>1, <2>2 DEF Numbered
<1>. QED BY <1>3, <1>4, <1>5

\* The place of each finding in a list.
PlacesIn(o) ==
  [f \in Findings |-> IF f \in Elements(o) THEN CHOOSE i \in DOMAIN o : o[i] = f ELSE 0]

LEMMA PlacesShape ==
  ASSUME NEW o \in Seq(Findings)
  PROVE  /\ PlacesIn(o) \in [Findings -> Nat]
         /\ \A f \in Elements(o) : PlacesIn(o)[f] \in 1..Len(o) /\ o[PlacesIn(o)[f]] = f
         /\ \A f \in Findings \ Elements(o) : PlacesIn(o)[f] = 0
<1>1. DOMAIN o = 1..Len(o) /\ Len(o) \in Nat /\ Elements(o) \subseteq Findings
  BY DEF Elements
<1>2. \A f \in Elements(o) : \E i \in DOMAIN o : o[i] = f
  BY DEF Elements
<1>3. \A f \in Elements(o) :
         LET i == CHOOSE i \in DOMAIN o : o[i] = f IN i \in 1..Len(o) /\ o[i] = f
  BY <1>1, <1>2
<1>4. \A f \in Elements(o) : PlacesIn(o)[f] \in 1..Len(o) /\ o[PlacesIn(o)[f]] = f
  BY <1>1, <1>3 DEF PlacesIn
<1>5. \A f \in Findings \ Elements(o) : PlacesIn(o)[f] = 0
  BY DEF PlacesIn
<1>6. PlacesIn(o) \in [Findings -> Nat]
  BY <1>1, <1>3 DEF PlacesIn
<1>. QED BY <1>4, <1>5, <1>6

\* A reorder numbers the findings by their places in the list.
LEMMA NumberedAfterOrdering ==
  ASSUME NEW o \in Seq(Findings), NEW S \in SUBSET Findings,
         Elements(o) = S, Len(o) = Cardinality(S)
  PROVE  /\ Numbered(PlacesIn(o)) /\ Placed(PlacesIn(o)) = S
         /\ \A i \in 1..Len(o) : PlacesIn(o)[o[i]] = i
<1>. DEFINE r == PlacesIn(o)
<1>1. /\ r \in [Findings -> Nat]
      /\ \A f \in S : r[f] \in 1..Len(o) /\ o[r[f]] = f
      /\ \A f \in Findings \ S : r[f] = 0
  BY PlacesShape
<1>. HIDE DEF r
<1>2. Numbered(r) /\ Placed(r) = S /\ \A i \in 1..Len(o) : r[o[i]] = i
  BY <1>1, PlacesNumber
<1>. QED BY <1>2 DEF r

-----------------------------------------------------------------------------
(* What the calls under way carry, and why their plans keep the numbering *)

\* What a request is made of.
Shaped(c) ==
  /\ c.op = "save_assessment" => c.target = Details
  /\ c.op \in Saving \cup {"copy_template"} => c.pay \in Payloads
  /\ c.op = "create" => c.pay = Blank
  /\ c.op \in Creating \cup {"save_finding", "delete"} => c.target \in Findings

\* The row a call will insert is its own, and not in the assessment yet.
Fresh ==
  \A w \in Workers : call[w].op \in Creating =>
    /\ call[w].target \in born \ Live
    /\ \A v \in Workers : call[v].op \in Creating /\ call[v].target = call[w].target => v = w

\* A transaction that can still commit deletes a finding that is there, or
\* orders exactly the findings that are.
Fits(c) ==
  c.phase = "running" /\ c.expected = version =>
    /\ c.op = "delete" => c.target \in Live
    /\ c.op = "reorder" => Elements(c.order) = Live /\ Len(c.order) = Cardinality(Live)

OrderInv ==
  /\ IInv
  /\ Numbered(sort)
  /\ Live \subseteq born
  /\ \A w \in Workers : Shaped(call[w])
  /\ Fresh
  /\ \A w \in Workers : Fits(call[w])

\* A plan that fits numbers the findings it leaves.
LEMMA PlanNumbers ==
  ASSUME TypeOK, Numbered(sort), NEW c \in Calls,
         c.op \in Creating => c.target \in Findings \ Live,
         c.op = "delete" => c.target \in Live,
         c.op = "reorder" => Elements(c.order) = Live /\ Len(c.order) = Cardinality(Live),
         c.op \in Creating \cup {"delete", "reorder"}
  PROVE  /\ Numbered(Planned(c))
         /\ Placed(Planned(c)) = IF c.op \in Creating THEN Live \cup {c.target}
                                 ELSE IF c.op = "delete" THEN Live \ {c.target} ELSE Live
<1>1. Live = Placed(sort) /\ Last = Cardinality(Placed(sort)) /\ sort \in [Findings -> Nat]
  BY LastIsCount DEF TypeOK
<1>2. CASE c.op \in Creating
  <2>1. Planned(c) = [sort EXCEPT ![c.target] = Cardinality(Placed(sort)) + 1]
    <3>1. Planned(c) = [sort EXCEPT ![c.target] = Last + 1]
      BY <1>2 DEF Planned, Creating
    <3>. QED BY <1>1, <3>1
  <2>2. c.target \in Findings \ Placed(sort)
    BY <1>1, <1>2
  <2>. QED BY <1>1, <1>2, <2>1, <2>2, NumberedAfterAdding
<1>3. CASE c.op = "delete"
  <2>1. Planned(c) = Renumbered(c.target)
    BY <1>3 DEF Planned, Creating
  <2>. QED BY <1>3, <2>1, NumberedAfterRemoving DEF Creating
<1>4. CASE c.op = "reorder"
  <2>1. Planned(c) = PlacesIn(c.order)
    BY <1>4 DEF Planned, Creating, PlacesIn
  <2>2. c.order \in Seq(Findings) /\ Live \in SUBSET Findings
    BY DEF Calls, Live
  <2>. QED BY <1>4, <2>1, <2>2, NumberedAfterOrdering DEF Creating
<1>. QED BY <1>2, <1>3, <1>4

LEMMA DoneIsNothing ==
  \A outcome, result : Done(outcome, result).op = "none" /\ Done(outcome, result).phase = "done"
BY DEF Done, IdleCall

\* A transaction keeps what its call is about, or ends it.
LEMMA BeginKeeps ==
  ASSUME NEW c \in Calls
  PROVE  \/ InTransaction(c).op = "none" /\ InTransaction(c).phase = "done"
         \/ /\ InTransaction(c).op = c.op
            /\ InTransaction(c).target = c.target
            /\ InTransaction(c).order = c.order
            /\ InTransaction(c).expected = c.expected
            /\ c.op # "duplicate" => InTransaction(c).pay = c.pay
            /\ c.op = "delete" => c.target \in Live
            /\ c.op = "reorder" => Elements(c.order) = Live /\ Len(c.order) = Cardinality(Live)
<1>. DEFINE d == [c EXCEPT !.phase = "running"]
            e == [c EXCEPT !.phase = "running", !.plan = Planned(c),
                           !.pay = IF c.op = "duplicate" THEN content[c.source] ELSE @]
<1>1. /\ d.op = c.op /\ d.target = c.target /\ d.order = c.order
      /\ d.expected = c.expected /\ d.pay = c.pay
  BY DEF Calls
<1>2. /\ e.op = c.op /\ e.target = c.target /\ e.order = c.order
      /\ e.expected = c.expected /\ (c.op # "duplicate" => e.pay = c.pay)
  BY DEF Calls
<1>3. CASE InTransaction(c) = d /\ c.op \in Lifecycle \cup {"save_assessment"}
  BY <1>1, <1>3 DEF Lifecycle
<1>4. CASE InTransaction(c) = e /\ ~ Gone(c) /\ ~ WrongSet(c)
  BY <1>2, <1>4 DEF Gone, WrongSet
<1>5. CASE InTransaction(c).op = "none" /\ InTransaction(c).phase = "done"
  BY <1>5
<1>. HIDE DEF d, e
<1>. QED BY <1>3, <1>4, <1>5, DoneIsNothing DEF InTransaction, Replayed, d, e

\* What arrives has the shape of a request, and its new finding is not born.
LEMMA ArrivalShape ==
  ASSUME TypeOK, NEW w \in Workers, Asks(w)
  PROVE  \E c \in Calls : Receive(w, c) /\ Shaped(c) /\ c.phase = "waiting"
<1>. DEFINE Goal == \E c \in Calls : Receive(w, c) /\ Shaped(c) /\ c.phase = "waiting"
<1>1. PICK expected \in 0..version :
        \/ \E k \in Keys \cup {NoKey}, p \in Payloads :
             \/ Receive(w, Request("save_assessment", Details, Details, k, p, <<>>, expected))
             \/ \E f \in born :
                  Receive(w, Request("save_finding", f, Details, k, p, <<>>, expected))
        \/ \E k \in Keys, o \in Orders :
             Receive(w, Request("reorder", Details, Details, k, Blank, o, expected))
        \/ \E f \in Findings \ born :
             \/ Receive(w, Request("create", f, Details, NoKey, Blank, <<>>, expected))
             \/ \E p \in Payloads :
                  Receive(w, Request("copy_template", f, Details, NoKey, p, <<>>, expected))
             \/ \E g \in born :
                  Receive(w, Request("duplicate", f, g, NoKey, Blank, <<>>, expected))
        \/ \E f \in born :
             Receive(w, Request("delete", f, Details, NoKey, Blank, <<>>, expected))
        \/ \E op \in Lifecycle :
             Receive(w, Request(op, Details, Details, NoKey, Blank, <<>>, expected))
  BY DEF Asks
<1>2. expected \in Nat /\ born \subseteq Findings /\ <<>> \in Seq(Findings)
  BY DEF TypeOK
<1>3. ASSUME NEW op \in Versioned \cup Lifecycle, NEW target \in Units,
             NEW source \in Units, NEW key \in Keys \cup {NoKey},
             NEW pay \in Contents, NEW order \in Seq(Findings),
             op = "save_assessment" => target = Details,
             op \in Saving \cup {"copy_template"} => pay \in Payloads,
             op = "create" => pay = Blank,
             op \in Creating \cup {"save_finding", "delete"} => target \in Findings,
             Receive(w, Request(op, target, source, key, pay, order, expected))
      PROVE  Goal
  <2>. DEFINE c == Request(op, target, source, key, pay, order, expected)
  <2>1. c \in Calls
    BY <1>2, RequestType
  <2>2. c.op = op /\ c.target = target /\ c.pay = pay /\ c.phase = "waiting"
    BY DEF Request, IdleCall
  <2>. HIDE DEF c
  <2>3. Shaped(c)
    BY <1>3, <2>2 DEF Shaped
  <2>4. Receive(w, c)
    BY <1>3 DEF c
  <2>. QED BY <2>1, <2>2, <2>3, <2>4
<1>. SUFFICES Goal
  OBVIOUS
<1>. HIDE DEF Goal
<1>4. /\ Blank \in Contents /\ Payloads \subseteq Contents
      /\ Details \in Units /\ Findings \subseteq Units
      /\ Versioned \subseteq Versioned \cup Lifecycle
  BY DEF Contents, Units
<1>5. CASE \E k \in Keys \cup {NoKey}, p \in Payloads :
             \/ Receive(w, Request("save_assessment", Details, Details, k, p, <<>>, expected))
             \/ \E f \in born :
                  Receive(w, Request("save_finding", f, Details, k, p, <<>>, expected))
  <2>1. ASSUME NEW k \in Keys \cup {NoKey}, NEW p \in Payloads, NEW u \in Units,
               NEW op \in Saving,
               op = "save_assessment" => u = Details,
               op = "save_finding" => u \in Findings,
               Receive(w, Request(op, u, Details, k, p, <<>>, expected))
        PROVE  Goal
    <3>1. /\ op \in Versioned /\ Details \in Units /\ p \in Contents
          /\ op \notin Creating /\ op # "delete" /\ op # "create"
      BY DEF Versioned, Saving, Creating, Units, Contents
    <3>. QED BY <1>2, <1>3, <2>1, <3>1
  <2>2. \A f \in born : f \in Units /\ f \in Findings
    BY <1>2 DEF Units
  <2>3. "save_assessment" \in Saving /\ "save_finding" \in Saving /\ Details \in Units
    BY DEF Saving, Units
  <2>. QED BY <1>5, <2>1, <2>2, <2>3
<1>6. CASE \E k \in Keys, o \in Orders :
             Receive(w, Request("reorder", Details, Details, k, Blank, o, expected))
  <2>1. Orders \subseteq Seq(Findings)
    <3>1. Cardinality(born) \in Nat
      BY <1>2, SomeFinite
    <3>2. \A n \in Nat : [1..n -> born] \subseteq Seq(Findings)
      BY <1>2
    <3>. QED BY <3>1, <3>2 DEF Orders
  <2>2. PICK k \in Keys, o \in Orders :
          Receive(w, Request("reorder", Details, Details, k, Blank, o, expected))
    BY <1>6
  <2>3. "reorder" \in Versioned
    BY DEF Versioned
  <2>4. "reorder" \notin Saving \cup {"copy_template"} \cup Creating \cup {"save_finding", "delete"}
    BY DEF Saving, Creating
  <2>. QED BY <1>2, <1>3, <1>4, <2>1, <2>2, <2>3, <2>4
<1>7. CASE \E f \in Findings \ born :
             \/ Receive(w, Request("create", f, Details, NoKey, Blank, <<>>, expected))
             \/ \E p \in Payloads :
                  Receive(w, Request("copy_template", f, Details, NoKey, p, <<>>, expected))
             \/ \E g \in born :
                  Receive(w, Request("duplicate", f, g, NoKey, Blank, <<>>, expected))
  <2>1. ASSUME NEW f \in Findings, NEW g \in Units, NEW p \in Contents, NEW op \in Creating,
               op = "copy_template" => p \in Payloads,
               op = "create" => p = Blank,
               Receive(w, Request(op, f, g, NoKey, p, <<>>, expected))
        PROVE  Goal
    <3>1. op \in Versioned /\ op \notin Saving /\ op # "save_assessment"
      BY DEF Versioned, Creating, Saving
    <3>. QED BY <1>2, <1>3, <1>4, <2>1, <3>1
  <2>2. {"create", "copy_template", "duplicate"} \subseteq Creating
    BY DEF Creating
  <2>. QED BY <1>2, <1>4, <1>7, <2>1, <2>2
<1>8. CASE \E f \in born :
             Receive(w, Request("delete", f, Details, NoKey, Blank, <<>>, expected))
  <2>1. "delete" \in Versioned
    BY DEF Versioned
  <2>2. "delete" \notin Saving \cup {"copy_template"}
    BY DEF Saving
  <2>. QED BY <1>2, <1>3, <1>4, <1>8, <2>1, <2>2
<1>9. CASE \E op \in Lifecycle :
             Receive(w, Request(op, Details, Details, NoKey, Blank, <<>>, expected))
  BY <1>2, <1>3, <1>9 DEF Lifecycle, Saving, Creating, Units, Contents
<1>. QED BY <1>1, <1>5, <1>6, <1>7, <1>8, <1>9

\* The checks before the lock leave a call as it is, or end it.
LEMMA ReceivedIsKept ==
  \A c : \/ BeforeLock(c) = c
         \/ BeforeLock(c).op = "none" /\ BeforeLock(c).phase = "done"
<1>1. \A c : Replayed(c).op = "none" /\ Replayed(c).phase = "done"
  BY DoneIsNothing DEF Replayed
<1>. QED BY <1>1, DoneIsNothing DEF BeforeLock

\* What a step does to one call: nothing, an end, a start or a transaction.
LEMMA CallMoves ==
  ASSUME TypeOK, [Serves]_storeVars, NEW v \in Workers
  PROVE  \/ call'[v] = call[v]
         \/ call'[v].op = "none" /\ call'[v].phase # "running"
         \/ Begin(v)
         \/ \E c \in Calls : /\ Receive(v, c) /\ Shaped(c) /\ c.phase = "waiting"
                            /\ call'[v] = c
<1>. DEFINE Goal == \/ call'[v] = call[v]
                    \/ call'[v].op = "none" /\ call'[v].phase # "running"
                    \/ Begin(v)
                    \/ \E c \in Calls : Receive(v, c) /\ Shaped(c) /\ c.phase = "waiting" /\ call'[v] = c
<1>0. call \in [Workers -> Calls] /\ IdleCall.op = "none" /\ IdleCall.phase = "idle"
  BY DEF TypeOK, IdleCall
<1>1. ASSUME NEW w \in Workers, Asks(w) PROVE Goal
  <2>1. PICK c \in Calls : Receive(w, c) /\ Shaped(c) /\ c.phase = "waiting"
    BY <1>1, ArrivalShape
  <2>2. call' = [call EXCEPT ![w] = BeforeLock(c)]
    BY <2>1 DEF Receive
  <2>3. \/ BeforeLock(c) = c
        \/ BeforeLock(c).op = "none" /\ BeforeLock(c).phase = "done"
    BY ReceivedIsKept
  <2>. QED BY <1>0, <2>1, <2>2, <2>3
<1>2. ASSUME NEW w \in Workers, Begin(w) PROVE Goal
  BY <1>0, <1>2 DEF Begin
<1>3. ASSUME NEW w \in Workers, LockTimeout(w) PROVE Goal
  BY <1>0, <1>3, DoneIsNothing DEF LockTimeout
<1>4. ASSUME NEW w \in Workers, ApplyChange(w) PROVE Goal
  BY <1>0, <1>4, DoneIsNothing DEF ApplyChange
<1>5. ASSUME NEW w \in Workers, RefuseChange(w) PROVE Goal
  BY <1>0, <1>5, DoneIsNothing DEF RefuseChange
<1>6. ASSUME NEW w \in Workers, RefuseInvalid(w) PROVE Goal
  BY <1>0, <1>6, DoneIsNothing DEF RefuseInvalid
<1>7. ASSUME NEW w \in Workers, ApplyLifecycle(w) PROVE Goal
  BY <1>0, <1>7, DoneIsNothing DEF ApplyLifecycle
<1>8. ASSUME NEW w \in Workers, RefuseLifecycle(w) PROVE Goal
  BY <1>0, <1>8, DoneIsNothing DEF RefuseLifecycle
<1>9. ASSUME NEW w \in Workers, Finish(w) \/ Crash(w) PROVE Goal
  BY <1>0, <1>9 DEF Finish, Crash
<1>10. ASSUME LockExpires PROVE Goal
  BY <1>10 DEF LockExpires
<1>11. ASSUME NEW s \in Statuses, NEW p \in Payloads, SaveEditForm(s, p) PROVE Goal
  BY <1>11 DEF SaveEditForm
<1>12. ASSUME UNCHANGED storeVars PROVE Goal
  BY <1>12 DEF storeVars
<1>. QED
  BY <1>1, <1>2, <1>3, <1>4, <1>5, <1>6, <1>7, <1>8, <1>9, <1>10, <1>11, <1>12
     DEF Serves, Proceeds

\* What a step does to the sort orders: nothing, or the plan of one change.
LEMMA SortMoves ==
  ASSUME OrderInv, [Serves]_storeVars
  PROVE  \/ sort' = sort
         \/ \E w \in Workers :
              LET c == call[w] IN
              /\ ApplyChange(w)
              /\ c.op \in Creating \cup {"delete", "reorder"}
              /\ sort' = Planned(c)
              /\ Numbered(sort')
              /\ Placed(sort') = IF c.op \in Creating THEN Live \cup {c.target}
                                ELSE IF c.op = "delete" THEN Live \ {c.target} ELSE Live
<1>1. CASE Quiet
  BY <1>1 DEF Quiet
<1>2. ASSUME NEW w \in Workers, ApplyLifecycle(w) PROVE sort' = sort
  BY <1>2 DEF ApplyLifecycle
<1>3. ASSUME NEW w \in Workers, ApplyChange(w), call[w].op \in Saving
      PROVE  sort' = sort
  BY <1>3 DEF ApplyChange
<1>4. ASSUME NEW w \in Workers, ApplyChange(w), call[w].op \notin Saving
      PROVE  LET c == call[w] IN
             /\ c.op \in Creating \cup {"delete", "reorder"}
             /\ sort' = Planned(c)
             /\ Numbered(sort')
             /\ Placed(sort') = IF c.op \in Creating THEN Live \cup {c.target}
                               ELSE IF c.op = "delete" THEN Live \ {c.target} ELSE Live
  <2>1. PICK c \in Calls : c = call[w]
    BY DEF OrderInv, IInv, TypeOK
  <2>2. /\ c.phase = "running" /\ c.expected = version
        /\ c.op \in Creating \cup {"delete", "reorder"}
        /\ sort' = c.plan
    BY <1>4, <2>1 DEF ApplyChange, Matches, Versioned
  <2>3. c.plan = Planned(c)
    BY <1>4, <2>1, <2>2 DEF OrderInv, IInv, PlansAreCurrent, PlanIsCurrent, ApplyChange
  <2>4. c.op \in Creating => c.target \in Findings \ Live
    BY <2>1 DEF OrderInv, Shaped, Fresh
  <2>5. /\ c.op = "delete" => c.target \in Live
        /\ c.op = "reorder" => Elements(c.order) = Live /\ Len(c.order) = Cardinality(Live)
    BY <2>1, <2>2 DEF OrderInv, Fits
  <2>6. TypeOK /\ Numbered(sort)
    BY DEF OrderInv, IInv
  <2>7. /\ Numbered(Planned(c))
        /\ Placed(Planned(c)) = IF c.op \in Creating THEN Live \cup {c.target}
                                ELSE IF c.op = "delete" THEN Live \ {c.target} ELSE Live
    BY <2>2, <2>4, <2>5, <2>6, PlanNumbers
  <2>. QED BY <2>1, <2>2, <2>3, <2>7
<1>. QED BY <1>1, <1>2, <1>3, <1>4, StepKinds DEF OrderInv, IInv

\* Identifiers are handed out, never taken back.
LEMMA BornGrows ==
  ASSUME TypeOK, [Serves]_storeVars
  PROVE  born \subseteq born'
<1>1. ASSUME NEW w \in Workers, Asks(w) PROVE born \subseteq born'
  <2>1. PICK c : Receive(w, c)
    BY <1>1, ArrivalShape
  <2>. QED BY <2>1 DEF Receive
<1>. QED
  BY <1>1 DEF Serves, Proceeds, Begin, LockTimeout, ApplyChange, RefuseChange, RefuseInvalid,
              ApplyLifecycle, RefuseLifecycle, Finish, Crash, LockExpires, SaveEditForm, storeVars

LEMMA ShapedKept ==
  ASSUME OrderInv, [Serves]_storeVars, NEW v \in Workers
  PROVE  Shaped(call[v])'
<1>1. PICK c \in Calls : c = call[v]
  BY DEF OrderInv, IInv, TypeOK
<1>2. Shaped(c)
  BY <1>1 DEF OrderInv
<1>3. PICK d : d = call'[v]
  OBVIOUS
<1>4. CASE d = c
  BY <1>1, <1>2, <1>3, <1>4 DEF Shaped
<1>5. CASE d.op = "none"
  BY <1>3, <1>5 DEF Shaped, Saving, Creating
<1>6. CASE Begin(v)
  <2>1. d = InTransaction(c)
    BY <1>1, <1>3, <1>6 DEF Begin, OrderInv, IInv, TypeOK
  <2>2. \/ d.op = "none"
        \/ d.op = c.op /\ d.target = c.target /\ (c.op # "duplicate" => d.pay = c.pay)
    BY <2>1, BeginKeeps
  <2>3. Shaped(d)
    BY <1>2, <2>2 DEF Shaped, Saving, Creating
  <2>. QED BY <1>3, <2>3 DEF Shaped
<1>7. CASE \E e \in Calls : Shaped(e) /\ call'[v] = e
  BY <1>7 DEF Shaped
<1>. QED BY <1>1, <1>3, <1>4, <1>5, <1>6, <1>7, CallMoves DEF OrderInv, IInv

LEMMA FitsKept ==
  ASSUME OrderInv, [Serves]_storeVars, NEW v \in Workers
  PROVE  Fits(call[v])'
<1>1. PICK c \in Calls : c = call[v]
  BY DEF OrderInv, IInv, TypeOK
<1>2. TypeOK /\ Fits(c) /\ c.expected <= version /\ version \in Nat /\ c.expected \in Nat
  BY <1>1 DEF OrderInv, IInv, ExpectsThePast, TypeOK, Calls
<1>3. CASE call'[v] = c /\ Quiet
  <2>1. sort' = sort /\ version' = version /\ Live' = Live
    BY <1>3 DEF Quiet, Live
  <2>. QED BY <1>2, <1>3, <2>1 DEF Fits
<1>4. CASE call'[v] = c /\ ~ Quiet
  <2>1. version' = version + 1
    BY <1>2, <1>4, StepKinds DEF ApplyChange, Matches, ApplyLifecycle
  <2>. QED BY <1>2, <1>4, <2>1 DEF Fits
<1>5. CASE call'[v].phase # "running"
  BY <1>5 DEF Fits
<1>6. CASE Begin(v)
  <2>1. call'[v] = InTransaction(c) /\ sort' = sort /\ Live' = Live
    BY <1>1, <1>2, <1>6 DEF Begin, TypeOK, rows, Live
  <2>2. PICK d : d = InTransaction(c)
    OBVIOUS
  <2>3. \/ d.phase = "done"
        \/ /\ d.op = c.op /\ d.target = c.target /\ d.order = c.order
           /\ c.op = "delete" => c.target \in Live
           /\ c.op = "reorder" => Elements(c.order) = Live /\ Len(c.order) = Cardinality(Live)
    BY <2>2, BeginKeeps
  <2>. QED BY <2>1, <2>2, <2>3 DEF Fits
<1>. QED BY <1>1, <1>2, <1>3, <1>4, <1>5, <1>6, CallMoves

\* A call that inserts a row did so before the step, or has just arrived.
LEMMA CreatorMoves ==
  ASSUME TypeOK, [Serves]_storeVars, NEW v \in Workers, call'[v].op \in Creating
  PROVE  \/ call[v].op = call'[v].op /\ call[v].target = call'[v].target
         \/ /\ call'[v].target \in born' \ born
            /\ sort' = sort
            /\ \A w \in Workers : w # v => call'[w] = call[w]
<1>1. PICK c \in Calls : c = call[v]
  BY DEF TypeOK
<1>2. CASE Begin(v)
  <2>1. call'[v] = InTransaction(c)
    BY <1>1, <1>2 DEF Begin, TypeOK
  <2>. QED BY <1>1, <2>1, BeginKeeps DEF Creating
<1>3. CASE \E d \in Calls : Receive(v, d) /\ call'[v] = d
  BY <1>3 DEF Receive, rows, TypeOK
<1>4. CASE call'[v].op = "none"
  BY <1>4 DEF Creating
<1>. QED BY <1>2, <1>3, <1>4, CallMoves

LEMMA FreshKept ==
  ASSUME OrderInv, [Serves]_storeVars
  PROVE  Fresh'
<1>1. TypeOK /\ Fresh /\ Live \subseteq born /\ born \subseteq born'
  BY BornGrows DEF OrderInv, IInv
<1>2. ASSUME NEW w \in Workers, call'[w].op \in Creating
      PROVE  call'[w].target \in born' \ Live'
  <2>1. CASE /\ call'[w].target \in born' \ born
             /\ sort' = sort
    BY <1>1, <2>1 DEF Live
  <2>2. CASE call[w].op = call'[w].op /\ call[w].target = call'[w].target
    <3>1. call[w].target \in born \ Live
      BY <1>1, <1>2, <2>2 DEF Fresh
    <3>2. CASE sort' = sort
      BY <1>1, <2>2, <3>1, <3>2 DEF Live
    <3>3. ASSUME NEW x \in Workers, ApplyChange(x), call[w].target \in Placed(sort'),
                 Placed(sort') = IF call[x].op \in Creating THEN Live \cup {call[x].target}
                                 ELSE IF call[x].op = "delete" THEN Live \ {call[x].target}
                                 ELSE Live
          PROVE  FALSE
      <4>1. call[x].op \in Creating /\ call[w].target = call[x].target
        BY <3>1, <3>3
      <4>2. x = w
        BY <1>1, <1>2, <2>2, <4>1 DEF Fresh
      <4>3. call'[w].op = "none"
        BY <1>1, <3>3, <4>2, DoneIsNothing DEF ApplyChange, TypeOK
      <4>. QED BY <1>2, <4>3 DEF Creating
    <3>4. Placed(sort') = Live'
      BY DEF Placed, Live
    <3>. QED BY <1>1, <2>2, <3>1, <3>2, <3>3, <3>4, SortMoves
  <2>. QED BY <1>1, <1>2, <2>1, <2>2, CreatorMoves
<1>3. ASSUME NEW w \in Workers, call'[w].op \in Creating,
             NEW v \in Workers, call'[v].op \in Creating, call'[v].target = call'[w].target,
             v # w
      PROVE  FALSE
  <2>1. \A x \in {v, w} : \/ call[x].op = call'[x].op /\ call[x].target = call'[x].target
                          \/ /\ call'[x].target \in born' \ born
                             /\ \A y \in Workers : y # x => call'[y] = call[y]
    BY <1>1, <1>3, CreatorMoves
  <2>2. \A x \in Workers : call[x].op \in Creating => call[x].target \in born
    BY <1>1 DEF Fresh
  <2>3. CASE \A x \in {v, w} : call[x].op = call'[x].op /\ call[x].target = call'[x].target
    BY <1>1, <1>3, <2>3 DEF Fresh
  <2>. QED BY <1>3, <2>1, <2>2, <2>3
<1>. QED BY <1>2, <1>3 DEF Fresh

\* The findings at the start are listed once each.
LEMMA InitialListIsFull ==
  LET o == InitialFindings IN Len(o) = Cardinality(Elements(o))
<1>. DEFINE o == InitialFindings
<1>1. o \in Seq(Findings) /\ Len(o) \in Nat /\ DOMAIN o = 1..Len(o)
  BY StoreAssumption
<1>2. o \in Bijection(1..Len(o), Elements(o))
  BY <1>1, StoreAssumption DEF Bijection, Injection, Surjection, IsInjective, Elements
<1>3. IsFiniteSet(1..Len(o)) /\ Cardinality(1..Len(o)) = Len(o)
  <2>1. \A k \in Nat : IsFiniteSet(1..k) /\ Cardinality(1..k) = k
    BY FS_Interval
  <2>. QED BY <1>1, <2>1
<1>. QED BY <1>2, <1>3, FS_Bijection DEF ExistsBijection

LEMMA InitOrder == Init => OrderInv
<1>. SUFFICES ASSUME Init PROVE OrderInv
  OBVIOUS
<1>1. IInv
  BY InitInv
<1>. DEFINE o == InitialFindings
<1>2. sort = PlacesIn(o) /\ born = Elements(o) /\ \A w \in Workers : call[w] = IdleCall
  BY DEF Init, PlacesIn
<1>3. o \in Seq(Findings) /\ Elements(o) \in SUBSET Findings
  BY StoreAssumption DEF Elements
<1>4. Len(o) = Cardinality(Elements(o))
  BY InitialListIsFull
<1>5. Numbered(sort) /\ Placed(sort) = Elements(o)
  BY <1>2, <1>3, <1>4, NumberedAfterOrdering
<1>6. Live \subseteq born
  BY <1>2, <1>5 DEF Live, Placed
<1>7. IdleCall.op = "none" /\ IdleCall.phase = "idle"
  BY DEF IdleCall
<1>8. \A w \in Workers : Shaped(call[w]) /\ Fits(call[w])
  BY <1>2, <1>7 DEF Shaped, Fits, Saving, Creating
<1>9. Fresh
  BY <1>2, <1>7 DEF Fresh, Creating
<1>. QED BY <1>1, <1>5, <1>6, <1>8, <1>9 DEF OrderInv

LEMMA OrderKept == OrderInv /\ [Serves]_storeVars => OrderInv'
<1>. SUFFICES ASSUME OrderInv, [Serves]_storeVars PROVE OrderInv'
  OBVIOUS
<1>1. IInv'
  BY NextType, HistoryKept, ExpectsThePastKept, PlansKept DEF OrderInv, IInv
<1>2. Numbered(sort)'
  BY SortMoves DEF OrderInv, Numbered, Placed
<1>3. Live' \subseteq born'
  <2>1. Live \subseteq born /\ born \subseteq born' /\ Fresh
    BY BornGrows DEF OrderInv, IInv
  <2>2. Placed(sort') = Live' /\ Placed(sort) = Live
    BY DEF Placed, Live
  <2>. QED BY <2>1, <2>2, SortMoves DEF Fresh
<1>4. \A w \in Workers : Shaped(call[w])'
  BY ShapedKept
<1>5. Fresh'
  BY FreshKept
<1>6. \A w \in Workers : Fits(call[w])'
  BY FitsKept
<1>. QED BY <1>1, <1>2, <1>3, <1>4, <1>5, <1>6 DEF OrderInv

LEMMA OrderAlways == Spec => []OrderInv
<1>. QED BY NextServes, InitOrder, OrderKept, PTL DEF Spec

\* The findings are numbered without gap or repetition, although every plan is
\* made before the conditional UPDATE and the lock may be lost in between.
THEOREM OrderContiguous == Spec => []SortContiguous
<1>1. OrderInv => SortContiguous
  <2>. SUFFICES ASSUME OrderInv PROVE SortContiguous
    OBVIOUS
  <2>1. /\ Numbered(sort) /\ Live = Placed(sort) /\ sort \in [Findings -> Nat]
        /\ \A f \in Live : sort[f] \in Nat /\ sort[f] > 0
    BY DEF OrderInv, IInv, TypeOK, Live, Placed
  <2>2. Cardinality(Live) \in Nat
    BY SomeFinite DEF Live
  <2>3. ASSUME NEW f \in Live, sort[f] # 1
        PROVE  \E g \in Live : sort[g] = sort[f] - 1
    <3>1. sort[f] <= Cardinality(Live)
      BY <2>1 DEF Numbered
    <3>2. sort[f] - 1 \in 1..Cardinality(Live)
      BY <2>1, <2>2, <2>3, <3>1
    <3>. QED BY <2>1, <3>2, NumbersTaken
  <2>4. \A f, g \in Live : sort[f] = sort[g] => f = g
    BY <2>1 DEF Numbered
  <2>. QED BY <2>3, <2>4 DEF SortContiguous
<1>. QED BY OrderAlways, <1>1, PTL

-----------------------------------------------------------------------------
(* The server implements the document *)

\* The numbered findings as a list, and what it shows of their contents.
Listed(s) == [i \in 1..Cardinality(Placed(s)) |-> CHOOSE f \in Placed(s) : s[f] = i]
Shown(s, c) == [u \in Units |-> IF u \in Placed(s) \cup {Details} THEN c[u] ELSE Blank]

LEMMA ListedShape ==
  ASSUME NEW s \in [Findings -> Nat], Numbered(s)
  PROVE  /\ Cardinality(Placed(s)) \in Nat
         /\ Listed(s) \in Seq(Findings)
         /\ Len(Listed(s)) = Cardinality(Placed(s))
         /\ Elements(Listed(s)) = Placed(s)
         /\ \A f \in Placed(s) : s[f] \in 1..Cardinality(Placed(s)) /\ Listed(s)[s[f]] = f
<1>. DEFINE n == Cardinality(Placed(s))
            o == Listed(s)
<1>1. n \in Nat
  BY SomeFinite DEF Placed
<1>2. \A f \in Placed(s) : f \in Findings /\ s[f] \in 1..n
  BY <1>1 DEF Placed, Numbered
<1>3. \A i \in 1..n : o[i] \in Placed(s) /\ s[o[i]] = i
  BY NumbersTaken DEF Listed
<1>4. DOMAIN o = 1..n /\ o \in [1..n -> Findings]
  BY <1>2, <1>3 DEF Listed
<1>5. o \in Seq(Findings) /\ Len(o) = n
  BY <1>1, <1>4
<1>6. \A f \in Placed(s) : o[s[f]] = f
  BY <1>2, <1>3 DEF Numbered
<1>7. Elements(o) = Placed(s)
  <2>. HIDE DEF o, n
  <2>1. ASSUME NEW f \in Placed(s) PROVE f \in Elements(o)
    BY <1>2, <1>4, <1>6 DEF Elements
  <2>2. ASSUME NEW f \in Elements(o) PROVE f \in Placed(s)
    BY <1>3, <1>4 DEF Elements
  <2>. QED BY <2>1, <2>2
<1>. QED BY <1>1, <1>2, <1>5, <1>6, <1>7

\* Only one list has every finding at its number.
LEMMA ListedUnique ==
  ASSUME NEW s \in [Findings -> Nat], Numbered(s), NEW o \in Seq(Findings),
         Len(o) = Cardinality(Placed(s)),
         \A f \in Placed(s) : o[s[f]] = f
  PROVE  o = Listed(s)
<1>. DEFINE n == Cardinality(Placed(s))
<1>1. n \in Nat /\ o \in [1..n -> Findings] /\ Listed(s) \in [1..n -> Findings]
  BY ListedShape
<1>2. \A i \in 1..n : o[i] = Listed(s)[i]
  <2>. SUFFICES ASSUME NEW i \in 1..n PROVE o[i] = Listed(s)[i]
    OBVIOUS
  <2>1. PICK f \in Placed(s) : s[f] = i
    BY NumbersTaken
  <2>. QED BY <2>1, ListedShape
<1>. HIDE DEF n
<1>. QED BY <1>1, <1>2

\* Adding a finding behind the last one appends it.
LEMMA ListedLonger ==
  ASSUME NEW s \in [Findings -> Nat], Numbered(s), NEW t \in Findings \ Placed(s),
         NEW r \in [Findings -> Nat], Numbered(r), Placed(r) = Placed(s) \cup {t},
         Cardinality(Placed(r)) = Cardinality(Placed(s)) + 1,
         r[t] = Cardinality(Placed(s)) + 1, \A f \in Placed(s) : r[f] = s[f]
  PROVE  Listed(r) = Append(Listed(s), t)
<1>. DEFINE n == Cardinality(Placed(s))
            o == Append(Listed(s), t)
<1>1. n \in Nat
  BY ListedShape
<1>2. /\ Listed(s) \in Seq(Findings) /\ Len(Listed(s)) = n
      /\ \A f \in Placed(s) : s[f] \in 1..n /\ Listed(s)[s[f]] = f
  BY ListedShape
<1>3. /\ o \in Seq(Findings) /\ Len(o) = n + 1 /\ o[n + 1] = t
      /\ \A i \in 1..n : o[i] = Listed(s)[i]
  BY <1>1, <1>2
<1>. HIDE DEF o, n
<1>4. \A f \in Placed(r) : o[r[f]] = f
  BY <1>1, <1>2, <1>3 DEF n
<1>5. o = Listed(r)
  BY <1>3, <1>4, ListedUnique DEF n
<1>. QED BY <1>5 DEF o

LEMMA ListedAdded ==
  ASSUME NEW s \in [Findings -> Nat], Numbered(s), NEW t \in Findings \ Placed(s)
  PROVE  Listed([s EXCEPT ![t] = Cardinality(Placed(s)) + 1]) = Append(Listed(s), t)
<1>. DEFINE r == [s EXCEPT ![t] = Cardinality(Placed(s)) + 1]
<1>1. /\ Numbered(r) /\ Placed(r) = Placed(s) \cup {t}
      /\ Cardinality(Placed(r)) = Cardinality(Placed(s)) + 1
  BY NumberedAfterAdding
<1>2. /\ r \in [Findings -> Nat] /\ r[t] = Cardinality(Placed(s)) + 1
      /\ \A f \in Placed(s) : r[f] = s[f]
  BY ListedShape DEF Placed
<1>. HIDE DEF r
<1>3. Listed(r) = Append(Listed(s), t)
  BY <1>1, <1>2, ListedLonger
<1>. QED BY <1>3 DEF r

\* A list without its entry i.
LEMMA Joined ==
  ASSUME NEW S, NEW a \in Seq(S), NEW b \in Seq(S)
  PROVE  /\ a \o b \in Seq(S)
         /\ Len(a \o b) = Len(a) + Len(b)
         /\ \A j \in 1..(Len(a) + Len(b)) :
              (a \o b)[j] = IF j <= Len(a) THEN a[j] ELSE b[j - Len(a)]
OBVIOUS

LEMMA WithoutOne ==
  ASSUME NEW S, NEW o \in Seq(S), NEW i \in 1..Len(o)
  PROVE  LET q == SubSeq(o, 1, i - 1) \o SubSeq(o, i + 1, Len(o)) IN
         /\ q \in Seq(S)
         /\ Len(q) = Len(o) - 1
         /\ \A j \in 1..(Len(o) - 1) : q[j] = IF j < i THEN o[j] ELSE o[j + 1]
<1>. DEFINE a == SubSeq(o, 1, i - 1)
            b == SubSeq(o, i + 1, Len(o))
<1>1. Len(o) \in Nat /\ i \in Nat /\ 1 <= i /\ i <= Len(o)
  OBVIOUS
<1>2. /\ a \in Seq(S) /\ Len(a) = i - 1
      /\ \A j \in 1..(i - 1) : a[j] = o[j]
  BY <1>1
<1>3. /\ b \in Seq(S) /\ Len(b) = Len(o) - i
      /\ \A j \in 1..(Len(o) - i) : b[j] = o[j + i]
  BY <1>1
<1>. DEFINE q == a \o b
<1>. HIDE DEF a, b
<1>5. /\ q \in Seq(S)
      /\ Len(q) = Len(a) + Len(b)
      /\ \A j \in 1..(Len(a) + Len(b)) : q[j] = IF j <= Len(a) THEN a[j] ELSE b[j - Len(a)]
  BY <1>2, <1>3, Joined
<1>. HIDE DEF q
<1>6. Len(q) = Len(o) - 1
  BY <1>1, <1>2, <1>3, <1>5
<1>7. \A j \in 1..(Len(o) - 1) : q[j] = IF j < i THEN o[j] ELSE o[j + 1]
  <2>. SUFFICES ASSUME NEW j \in 1..(Len(o) - 1) PROVE q[j] = IF j < i THEN o[j] ELSE o[j + 1]
    OBVIOUS
  <2>1. q[j] = IF j <= i - 1 THEN a[j] ELSE b[j - (i - 1)]
    BY <1>1, <1>2, <1>3, <1>5
  <2>2. CASE j < i
    BY <1>1, <1>2, <2>1, <2>2
  <2>3. CASE ~ j < i
    <3>1. j - (i - 1) \in 1..(Len(o) - i) /\ (j - (i - 1)) + i = j + 1 /\ ~ j <= i - 1
      BY <1>1, <2>3
    <3>2. b[j - (i - 1)] = o[(j - (i - 1)) + i]
      BY <1>3, <3>1
    <3>. QED BY <2>1, <2>3, <3>1, <3>2
  <2>. QED BY <2>2, <2>3
<1>. QED BY <1>2, <1>3, <1>5, <1>6, <1>7 DEF q, a, b

\* Renumbering takes the finding that leaves out of the list.
LEMMA ListedRemoved ==
  ASSUME TypeOK, Numbered(sort), NEW gone \in Live
  PROVE  LET o == Listed(sort) i == sort[gone] IN
         /\ i \in DOMAIN o /\ o[i] = gone
         /\ Listed(Renumbered(gone)) = SubSeq(o, 1, i - 1) \o SubSeq(o, i + 1, Len(o))
<1>. DEFINE o == Listed(sort)
            i == sort[gone]
            r == Renumbered(gone)
            n == Cardinality(Live)
            q == SubSeq(o, 1, i - 1) \o SubSeq(o, i + 1, Len(o))
<1>1. Live = Placed(sort) /\ sort \in [Findings -> Nat]
  BY DEF Live, Placed, TypeOK
<1>2. /\ n \in Nat /\ o \in Seq(Findings) /\ Len(o) = n
      /\ \A f \in Live : f \in Findings /\ sort[f] \in 1..n /\ o[sort[f]] = f
  BY <1>1, ListedShape DEF Live
<1>3. i \in 1..n /\ i \in DOMAIN o /\ o[i] = gone
  BY <1>2
<1>4. /\ Numbered(r) /\ Placed(r) = Live \ {gone} /\ Cardinality(Placed(r)) = n - 1
  BY NumberedAfterRemoving
<1>5. \A f \in Findings :
         r[f] = IF f \notin Live \ {gone} THEN 0
                ELSE IF sort[f] < sort[gone] THEN sort[f] ELSE sort[f] - 1
  BY RenumberedShape
<1>6. \A f, g \in Live : sort[f] = sort[g] => f = g
  BY <1>1 DEF Numbered
<1>7. r \in [Findings -> Nat]
  BY SomeFinite DEF Renumbered, Live
<1>. HIDE DEF o, r, n
<1>8. /\ q \in Seq(Findings) /\ Len(q) = n - 1
      /\ \A j \in 1..(n - 1) : q[j] = IF j < i THEN o[j] ELSE o[j + 1]
  <2>. HIDE DEF i
  <2>. QED BY <1>2, <1>3, WithoutOne
<1>. HIDE DEF q
<1>9. \A f \in Placed(r) : q[r[f]] = f
  <2>. SUFFICES ASSUME NEW f \in Live \ {gone} PROVE q[r[f]] = f
    BY <1>4
  <2>1. f \in Findings /\ sort[f] \in 1..n /\ o[sort[f]] = f /\ sort[f] # i
    BY <1>2, <1>6
  <2>2. CASE sort[f] < i
    BY <1>2, <1>3, <1>5, <1>8, <2>1, <2>2
  <2>3. CASE sort[f] > i
    <3>1. r[f] = sort[f] - 1 /\ r[f] \in 1..(n - 1) /\ ~ r[f] < i /\ r[f] + 1 = sort[f]
      BY <1>2, <1>3, <1>5, <2>1, <2>3
    <3>. QED BY <1>8, <2>1, <3>1
  <2>. QED BY <1>2, <1>3, <2>1, <2>2, <2>3
<1>10. q = Listed(r)
  BY <1>4, <1>7, <1>8, <1>9, ListedUnique
<1>. QED BY <1>3, <1>10 DEF o, q, r

\* A reorder replaces the list by the one it sends.
LEMMA ListedOrdered ==
  ASSUME NEW o \in Seq(Findings), NEW S \in SUBSET Findings,
         Elements(o) = S, Len(o) = Cardinality(S)
  PROVE  Listed(PlacesIn(o)) = o
<1>. DEFINE r == PlacesIn(o)
<1>1. Numbered(r) /\ Placed(r) = S
  BY NumberedAfterOrdering
<1>2. r \in [Findings -> Nat] /\ \A f \in S : o[r[f]] = f
  BY PlacesShape
<1>. HIDE DEF r
<1>3. o = Listed(r)
  BY <1>1, <1>2, ListedUnique
<1>. QED BY <1>3 DEF r

\* The refinement mapping in these terms, now and after a step.
LEMMA Mapping ==
  /\ OrderShown = Listed(sort) /\ ContentShown = Shown(sort, content)
  /\ OrderShown' = Listed(sort') /\ ContentShown' = Shown(sort', content')
  /\ Live = Placed(sort)
<1>1. Live = Placed(sort) /\ Live' = Placed(sort')
  BY DEF Live, Placed
<1>. QED BY <1>1 DEF OrderShown, ContentShown, Listed, Shown

\* What is known of a change that commits.
LEMMA Committing ==
  ASSUME OrderInv, NEW w \in Workers, ApplyChange(w), NEW c, c = call[w]
  PROVE  /\ c \in Calls /\ c.op \in Versioned /\ Shaped(c)
         /\ status = "draft" /\ status' = status /\ version' = version + 1
         /\ c.op \in Saving => sort' = sort
         /\ c.op \notin Saving => sort' = Planned(c)
         /\ c.op \in Saving \cup Creating => content' = [content EXCEPT ![c.target] = c.pay]
         /\ c.op \notin Saving \cup Creating => content' = content
         /\ c.op = "save_finding" => c.target \in Live
         /\ c.op = "duplicate" => c.source \in Live /\ c.pay = content[c.source]
         /\ c.op \in Creating => c.target \in Findings \ Live
         /\ c.op = "delete" => c.target \in Live
         /\ c.op = "reorder" => Elements(c.order) = Live /\ Len(c.order) = Cardinality(Live)
<1>1. c \in Calls /\ c.op \in Versioned /\ c.phase = "running" /\ c.expected = version
  BY DEF OrderInv, IInv, TypeOK, ApplyChange, Matches
<1>2. PlanIsCurrent(c) /\ Fits(c) /\ Shaped(c)
  BY DEF OrderInv, IInv, PlansAreCurrent
<1>3. c.op \in Creating => c.target \in Findings \ Live
  BY DEF OrderInv, Fresh, Shaped
<1>4. /\ status = "draft" /\ status' = status /\ version' = version + 1
      /\ sort' = IF c.op \in Saving THEN sort ELSE c.plan
      /\ content' = IF c.op \in Saving \cup Creating
                    THEN [content EXCEPT ![c.target] = c.pay] ELSE content
  BY <1>1 DEF ApplyChange, Matches
<1>5. c.op \notin Saving => c.plan = Planned(c)
  BY <1>1, <1>2 DEF PlanIsCurrent
<1>6. /\ c.op = "save_finding" => c.target \in Live
      /\ c.op = "duplicate" => c.source \in Live /\ c.pay = content[c.source]
  BY <1>1, <1>2 DEF PlanIsCurrent
<1>7. /\ c.op = "delete" => c.target \in Live
      /\ c.op = "reorder" => Elements(c.order) = Live /\ Len(c.order) = Cardinality(Live)
  BY <1>1, <1>2 DEF Fits
<1>. QED BY <1>1, <1>2, <1>3, <1>4, <1>5, <1>6, <1>7

\* What the list of the document shows is what is placed.
LEMMA ListShows ==
  ASSUME OrderInv
  PROVE  /\ Document!Elements(OrderShown) = Placed(sort)
         /\ OrderShown = Listed(sort) /\ OrderShown \in Seq(Findings)
         /\ Len(OrderShown) = Cardinality(Live)
         /\ Placed(sort) = Live /\ Live \subseteq Findings
<1>1. sort \in [Findings -> Nat] /\ Numbered(sort)
  BY DEF OrderInv, IInv, TypeOK
<1>2. Elements(Listed(sort)) = Placed(sort)
  BY <1>1, ListedShape
<1>3. Document!Elements(OrderShown) = Elements(OrderShown)
  BY DEF Document!Elements, Elements
<1>. QED BY <1>1, <1>2, <1>3, ListedShape, Mapping DEF Live

\* A save edits its unit.
LEMMA SaveEdits ==
  ASSUME OrderInv, NEW w \in Workers, ApplyChange(w), call[w].op \in Saving
  PROVE  Document!Next
<1>1. PICK c : c = call[w]
  OBVIOUS
<1>2. /\ c \in Calls /\ Shaped(c) /\ sort' = sort
      /\ status = "draft" /\ status' = status /\ version' = version + 1
      /\ content' = [content EXCEPT ![c.target] = c.pay]
      /\ c.op = "save_finding" => c.target \in Live
  BY <1>1, Committing
<1>3. c.pay \in Payloads /\ c.target \in Placed(sort) \cup {Details}
  BY <1>1, <1>2, Mapping DEF Shaped, Saving
<1>4. ContentShown' = [ContentShown EXCEPT ![c.target] = c.pay]
  <2>1. content \in [Units -> Contents]
    BY DEF OrderInv, IInv, TypeOK
  <2>. QED BY <1>2, <1>3, <2>1, Mapping DEF Shown, Placed
<1>5. OrderShown' = OrderShown
  BY <1>2, Mapping
<1>6. Document!Edit(c.target, c.pay)
  BY <1>2, <1>3, <1>4, <1>5, ListShows DEF Document!Edit, Document!Counted
<1>7. c.target \in Findings \cup {Details}
  BY <1>3 DEF Placed
<1>. QED BY <1>3, <1>6, <1>7 DEF Document!Next

\* An insertion adds its row behind the last one.
LEMMA InsertionAdds ==
  ASSUME OrderInv, NEW w \in Workers, ApplyChange(w), call[w].op \in Creating
  PROVE  Document!Next
<1>1. PICK c : c = call[w]
  OBVIOUS
<1>2. /\ c \in Calls /\ Shaped(c) /\ sort' = Planned(c)
      /\ status = "draft" /\ status' = status /\ version' = version + 1
      /\ content' = [content EXCEPT ![c.target] = c.pay]
      /\ c.target \in Findings \ Live
      /\ c.op = "duplicate" => c.source \in Live /\ c.pay = content[c.source]
  BY <1>1, Committing DEF Creating, Saving
<1>3. TypeOK /\ Numbered(sort) /\ sort \in [Findings -> Nat] /\ content \in [Units -> Contents]
  BY DEF OrderInv, IInv, TypeOK
<1>4. sort' = [sort EXCEPT ![c.target] = Cardinality(Placed(sort)) + 1]
  BY <1>1, <1>2, <1>3, LastIsCount DEF Planned, Creating
<1>5. Placed(sort) = Live /\ Placed(sort') = Live \cup {c.target}
  <2>1. Live = Placed(sort)
    BY Mapping
  <2>. QED BY <1>2, <1>3, <1>4, <2>1, NumberedAfterAdding
<1>6. OrderShown' = Append(OrderShown, c.target)
  <2>1. Listed(sort') = Append(Listed(sort), c.target)
    BY <1>2, <1>3, <1>4, <1>5, ListedAdded
  <2>. QED BY <2>1, Mapping
<1>7. ContentShown' = [ContentShown EXCEPT ![c.target] = c.pay]
  <2>1. c.target \in Units
    BY <1>2 DEF Units
  <2>2. Shown(sort', content') = [Shown(sort, content) EXCEPT ![c.target] = c.pay]
    BY <1>2, <1>3, <1>5, <2>1 DEF Shown
  <2>. QED BY <2>2, Mapping
<1>8. Document!Add(c.target, c.pay)
  BY <1>2, <1>5, <1>6, <1>7, ListShows DEF Document!Add, Document!Counted
<1>9. CASE c.op = "duplicate"
  <2>1. c.source \in Findings /\ c.source \in Live /\ ContentShown[c.source] = c.pay
    BY <1>2, <1>5, <1>9, Mapping DEF Shown, Live, Units
  <2>2. Document!Copy(c.target, c.source)
    BY <1>8, <2>1, <1>5, ListShows DEF Document!Copy
  <2>. QED BY <1>2, <2>1, <2>2 DEF Document!Next
<1>10. CASE c.op # "duplicate"
  <2>1. c.pay \in Payloads \cup {Blank}
    BY <1>1, <1>2, <1>10 DEF Shaped, Creating
  <2>. QED BY <1>2, <1>8, <2>1 DEF Document!Next
<1>. QED BY <1>9, <1>10

\* A deletion removes its row, and the others move up.
LEMMA DeletionRemoves ==
  ASSUME OrderInv, NEW w \in Workers, ApplyChange(w), call[w].op = "delete"
  PROVE  Document!Next
<1>1. PICK c : c = call[w]
  OBVIOUS
<1>2. /\ c \in Calls /\ sort' = Planned(c) /\ content' = content
      /\ status = "draft" /\ status' = status /\ version' = version + 1
      /\ c.target \in Live
  BY <1>1, Committing DEF Creating, Saving
<1>3. TypeOK /\ Numbered(sort) /\ content \in [Units -> Contents] /\ Live \subseteq Findings
  BY DEF OrderInv, IInv, TypeOK, Live
<1>4. sort' = Renumbered(c.target)
  BY <1>1, <1>2 DEF Planned, Creating
<1>5. Placed(sort) = Live /\ Placed(sort') = Live \ {c.target}
  BY <1>2, <1>3, <1>4, NumberedAfterRemoving, Mapping
<1>6. \E i \in DOMAIN OrderShown :
        /\ OrderShown[i] = c.target
        /\ OrderShown' = SubSeq(OrderShown, 1, i - 1) \o SubSeq(OrderShown, i + 1, Len(OrderShown))
  BY <1>2, <1>3, <1>4, ListedRemoved, Mapping
<1>7. ContentShown' = [ContentShown EXCEPT ![c.target] = Blank]
  <2>1. c.target \in Units /\ c.target # Details
    BY <1>2, <1>3, StoreAssumption DEF Units
  <2>2. Shown(sort', content') = [Shown(sort, content) EXCEPT ![c.target] = Blank]
    BY <1>2, <1>3, <1>5, <2>1 DEF Shown
  <2>. QED BY <2>2, Mapping
<1>8. Document!Remove(c.target)
  BY <1>2, <1>6, <1>7 DEF Document!Remove, Document!Counted
<1>. QED BY <1>2, <1>3, <1>8 DEF Document!Next

\* A reorder arranges the findings as it was sent.
LEMMA ReorderArranges ==
  ASSUME OrderInv, NEW w \in Workers, ApplyChange(w), call[w].op = "reorder"
  PROVE  Document!Next
<1>1. PICK c : c = call[w]
  OBVIOUS
<1>2. /\ c \in Calls /\ sort' = Planned(c) /\ content' = content
      /\ status = "draft" /\ status' = status /\ version' = version + 1
      /\ Elements(c.order) = Live /\ Len(c.order) = Cardinality(Live)
  BY <1>1, Committing DEF Creating, Saving
<1>3. c.order \in Seq(Findings) /\ Live \in SUBSET Findings
  BY <1>2 DEF Calls, Live
<1>4. sort' = PlacesIn(c.order)
  BY <1>1, <1>2 DEF Planned, Creating, PlacesIn
<1>5. OrderShown' = c.order
  BY <1>2, <1>3, <1>4, ListedOrdered, Mapping
<1>6. Placed(sort') = Live /\ Placed(sort) = Live
  BY <1>2, <1>3, <1>4, NumberedAfterOrdering, Mapping
<1>7. ContentShown' = ContentShown
  BY <1>2, <1>6, Mapping DEF Shown
<1>8. Document!Arrange(c.order)
  <2>1. Document!Elements(c.order) = Elements(c.order)
    BY DEF Document!Elements, Elements
  <2>. QED BY <1>2, <1>5, <1>6, <1>7, <2>1, ListShows DEF Document!Arrange, Document!Counted
<1>9. c.order \in [DOMAIN OrderShown -> Document!Elements(OrderShown)]
  <2>1. c.order \in [1..Len(c.order) -> Elements(c.order)]
    BY <1>3 DEF Elements
  <2>2. DOMAIN OrderShown = 1..Len(c.order)
    BY <1>2, ListShows
  <2>. QED BY <1>2, <2>1, <2>2, ListShows
<1>. QED BY <1>8, <1>9 DEF Document!Next

\* A lifecycle operation moves the status and counts.
LEMMA LifecycleMoves ==
  ASSUME OrderInv, NEW w \in Workers, ApplyLifecycle(w)
  PROVE  Document!Next
<1>1. /\ status \in Allowed(call[w].op) /\ status' = Destination(call[w].op)
      /\ version' = version + 1 /\ call[w].op \in Lifecycle
      /\ sort' = sort /\ content' = content
  BY DEF ApplyLifecycle
<1>2. OrderShown' = OrderShown /\ ContentShown' = ContentShown
  BY <1>1, Mapping
<1>3. \/ Document!Move({"draft"}, "completed")
      \/ Document!Move({"draft", "completed"}, "archived")
      \/ Document!Move({"completed", "archived"}, "draft")
  BY <1>1, <1>2 DEF Document!Move, Document!Counted, Allowed, Destination, Lifecycle
<1>. QED BY <1>3 DEF Document!Next

\* The edit form amends the details.
LEMMA FormAmends ==
  ASSUME OrderInv, NEW s \in Statuses, NEW p \in Payloads, SaveEditForm(s, p)
  PROVE  Document!Next
<1>1. /\ status' = s /\ content' = [content EXCEPT ![Details] = p]
      /\ sort' = sort /\ version' = version
  BY DEF SaveEditForm
<1>2. OrderShown' = OrderShown
  BY <1>1, Mapping
<1>3. ContentShown' = [ContentShown EXCEPT ![Details] = p]
  <2>1. content \in [Units -> Contents] /\ Details \in Units
    BY DEF OrderInv, IInv, TypeOK, Units
  <2>2. Shown(sort', content') = [Shown(sort, content) EXCEPT ![Details] = p]
    BY <1>1, <2>1 DEF Shown
  <2>. QED BY <2>2, Mapping
<1>4. Document!Amend(p, s)
  BY <1>1, <1>2, <1>3 DEF Document!Amend
<1>. QED BY <1>4 DEF Document!Next, Statuses

\* Everything else leaves the document as it is.
LEMMA OthersStutter ==
  ASSUME OrderInv, UNCHANGED <<status, version, sort, content>>
  PROVE  UNCHANGED <<version, status, OrderShown, ContentShown>>
BY Mapping

LEMMA DocumentInit == Init => Document!Init
<1>. SUFFICES ASSUME Init PROVE Document!Init
  OBVIOUS
<1>. DEFINE o == InitialFindings
<1>1. OrderInv
  BY InitOrder
<1>2. sort = PlacesIn(o) /\ content = [u \in Units |-> Blank] /\ version = 0 /\ status = "draft"
  BY DEF Init, PlacesIn
<1>3. o \in Seq(Findings) /\ Elements(o) \in SUBSET Findings
  BY StoreAssumption DEF Elements
<1>4. OrderShown = o
  BY <1>2, <1>3, InitialListIsFull, ListedOrdered, Mapping
<1>5. ContentShown = [u \in Findings \cup {Details} |-> Blank]
  BY <1>2, Mapping DEF Shown, Units
<1>. QED BY <1>2, <1>4, <1>5 DEF Document!Init

\* Every commit is one operation on the document, and every other step is none,
\* for every number of workers, whatever locks expire and workers die.
THEOREM StoreImplementsDocument == Spec => ImplementsDocument
<1>1. OrderInv /\ [Serves]_storeVars => [Document!Next]_(Document!docVars)
  <2>. SUFFICES ASSUME OrderInv, [Serves]_storeVars
                PROVE  Document!Next \/ UNCHANGED <<version, status, OrderShown, ContentShown>>
    BY DEF Document!docVars
  <2>1. ASSUME NEW w \in Workers, ApplyChange(w) PROVE Document!Next
    <3>1. call[w].op \in Versioned
      BY <2>1 DEF ApplyChange
    <3>. QED
      BY <2>1, <3>1, SaveEdits, InsertionAdds, DeletionRemoves, ReorderArranges DEF Versioned
  <2>2. ASSUME NEW w \in Workers, Asks(w) PROVE UNCHANGED <<status, version, sort, content>>
    BY <2>2 DEF Asks, Receive, rows
  <2>3. ASSUME NEW w \in Workers,
               \/ Begin(w) \/ LockTimeout(w) \/ RefuseChange(w) \/ RefuseInvalid(w)
               \/ RefuseLifecycle(w) \/ Finish(w) \/ Crash(w)
        PROVE  UNCHANGED <<status, version, sort, content>>
    BY <2>3 DEF Begin, LockTimeout, RefuseChange, RefuseInvalid, RefuseLifecycle, Finish, Crash, rows
  <2>4. ASSUME LockExpires \/ UNCHANGED storeVars
        PROVE  UNCHANGED <<status, version, sort, content>>
    BY <2>4 DEF LockExpires, rows, storeVars
  <2>. QED
    BY <2>1, <2>2, <2>3, <2>4, LifecycleMoves, FormAmends, OthersStutter DEF Serves, Proceeds
<1>. QED BY NextServes, DocumentInit, OrderAlways, <1>1, PTL DEF Spec, ImplementsDocument, Document!Spec
=============================================================================
