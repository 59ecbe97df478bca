------------------------- MODULE AssessmentStore --------------------------
(***************************************************************************)
(* The server side of one assessment: the rows of the assessment and its   *)
(* findings, the journal of applied save requests, the per-assessment      *)
(* cache lock, and the PHP workers that run the save actions of            *)
(* app/Actions/Assessments.                                                *)
(*                                                                         *)
(* A call goes through the same phases in every action:                    *)
(*   Receive   checks made before the lock (replay, status, existence);    *)
(*   Begin     the lock is taken, the transaction reads the rows and works *)
(*             out what it will write;                                     *)
(*   Apply*/Refuse*   the conditional UPDATE on status and lock_version    *)
(*             decides, and the transaction commits or rolls back;         *)
(*   Finish    the lock is released, if it is still this call's.           *)
(* The lock lives 10 seconds and a call waits for it 5 seconds, so a slow  *)
(* holder can lose it (LockExpires) and a waiter can give up (LockTimeout).*)
(* A worker can die at any point (Crash): its transaction rolls back and   *)
(* its lock stays until it expires.                                        *)
(*                                                                         *)
(* Callers are arbitrary here: a call may carry any version that has       *)
(* existed, any key, any payload.  AssessmentWorkspace restricts them to   *)
(* what the browser pages send.                                            *)
(***************************************************************************)
EXTENDS Naturals, Sequences, FiniteSets

CONSTANTS
  Workers,          \* PHP workers
  Findings,         \* identifiers of finding rows
  InitialFindings,  \* the findings present at the start, in display order
  Details,          \* the unit of the assessment's own fields
  Keys,             \* request UUIDs
  NoKey,            \* no journal row: the action journals nothing, or the UUID is never sent again
  Payloads,         \* contents a form can submit
  Blank,            \* the content of a finding nobody has filled in
  NoWorker,         \* the lock is free
  Orphan,           \* the lock of a worker that died
  MaxVersion        \* bound: no call arrives at this version

Units == Findings \cup {Details}
Contents == Payloads \cup {Blank}
Statuses == {"draft", "completed", "archived"}

Elements(s) == {s[i] : i \in DOMAIN s}

ASSUME StoreAssumption ==
  /\ MaxVersion \in Nat
  /\ IsFiniteSet(Findings)
  /\ NoKey \notin Keys
  /\ Details \notin Findings
  /\ NoWorker \notin Workers
  /\ Orphan \notin Workers
  /\ Orphan # NoWorker
  /\ InitialFindings \in Seq(Findings)
  /\ \A i, j \in 1..Len(InitialFindings) :
        i # j => InitialFindings[i] # InitialFindings[j]

VARIABLES
  status,      \* assessments.status
  completedAt, \* assessments.completed_at is set
  version,     \* assessments.lock_version
  sort,        \* findings.sort_order; 0 for a finding that is not in the assessment
  content,     \* what each unit holds
  born,        \* finding identifiers already handed out
  journal,     \* workspace_save_requests, by request_id
  lock,        \* owner of the cache lock "assessment:{id}:save"
  call,        \* what each worker is doing
  shown,       \* the statuses an edit form still open may have been filled with
  applied      \* history: the key of each operation that raised the version

rows == <<status, completedAt, version, sort, content, journal>>
storeVars == <<status, completedAt, version, sort, content, born, journal,
               lock, call, shown, applied>>

Live == {f \in Findings : sort[f] > 0}

-----------------------------------------------------------------------------
(* Calls *)

Lifecycle == {"complete", "reopen", "archive"}
Creating == {"create", "copy_template", "duplicate"}
Saving == {"save_assessment", "save_finding"}
Versioned == Saving \cup Creating \cup {"delete", "reorder"}

Phases == {"idle", "waiting", "running", "done"}
Outcomes == {"none", "applied", "replayed", "mismatch", "readonly", "missing",
             "conflict", "invalid", "timeout"}

NoPlan == [f \in Findings |-> 0]

\* A key the journal knows nothing of.
NoRow == [op |-> "none", target |-> Details, pay |-> Blank, order |-> <<>>, applied |-> 0]

IdleCall ==
  [phase |-> "idle", op |-> "none", target |-> Details, source |-> Details,
   key |-> NoKey, pay |-> Blank, order |-> <<>>, expected |-> 0,
   plan |-> NoPlan, outcome |-> "none", result |-> 0]

\* One request: the record a worker starts from.
Request(op, target, source, key, pay, order, expected) ==
  [IdleCall EXCEPT !.phase = "waiting", !.op = op, !.target = target,
                   !.source = source, !.key = key, !.pay = pay,
                   !.order = order, !.expected = expected]

\* What is left of it when the action has returned or thrown.
Done(outcome, result) ==
  [IdleCall EXCEPT !.phase = "done", !.outcome = outcome, !.result = result]

-----------------------------------------------------------------------------
(* The checks of the actions *)

\* Broken: the journal is never consulted.
StoredForgotten(c) == FALSE

\* findReplay: the journal has a row under this key.
Stored(c) == c.key # NoKey /\ journal[c.key].applied > 0

SameRequest(c) ==
  /\ journal[c.key].op = c.op
  /\ journal[c.key].target = c.target
  /\ journal[c.key].pay = c.pay
  /\ journal[c.key].order = c.order

\* Broken: only a deletion looks its finding up.
GoneForDelete(c) == c.op = "delete" /\ c.target \notin Live

\* findOrFail on the finding the call is about.
Gone(c) ==
  \/ c.op \in {"save_finding", "delete"} /\ c.target \notin Live
  \/ c.op = "duplicate" /\ c.source \notin Live

\* The stored result, or IdempotencyKeyMismatch; a stored finding save also
\* loads its finding.
Replayed(c) ==
  IF ~ SameRequest(c) THEN Done("mismatch", 0)
  ELSE IF Gone(c) THEN Done("missing", 0)
  ELSE Done("replayed", journal[c.key].applied)

\* ReorderFindings: the ids sent are exactly the ids of the assessment.
WrongSet(c) ==
  c.op = "reorder" /\ (Elements(c.order) # Live \/ Len(c.order) # Cardinality(Live))

Closed == status # "draft"

\* What an action decides before it asks for the lock.
BeforeLock(c) ==
  IF c.op = "save_assessment" /\ Closed THEN Done("readonly", 0)
  ELSE IF Stored(c) THEN Replayed(c)
  ELSE IF Gone(c) THEN Done("missing", 0)
  ELSE IF c.op \in {"save_finding", "copy_template", "duplicate"} /\ Closed
       THEN Done("readonly", 0)
  ELSE c

\* max(sort_order), 0 in an assessment without findings.
Last ==
  LET last == {f \in Live : \A g \in Live : sort[g] <= sort[f]}
  IN  IF last = {} THEN 0 ELSE sort[CHOOSE f \in last : TRUE]

\* Broken: a deletion leaves the other sort orders as they are.
RenumberedNot(gone) == [sort EXCEPT ![gone] = 0]

\* DeleteFinding renumbers the findings that are left, in their order.
Renumbered(gone) ==
  [f \in Findings |->
     IF f \in Live \ {gone}
     THEN Cardinality({g \in Live \ {gone} : sort[g] <= sort[f]})
     ELSE 0]

\* The sort orders a transaction will write, worked out from the rows it reads.
Planned(c) ==
  CASE c.op \in Creating -> [sort EXCEPT ![c.target] = Last + 1]
    [] c.op = "delete"   -> Renumbered(c.target)
    [] c.op = "reorder"  -> [f \in Findings |->
                               IF f \in Elements(c.order)
                               THEN CHOOSE i \in DOMAIN c.order : c.order[i] = f
                               ELSE 0]
    [] OTHER             -> NoPlan

\* What an action decides once its transaction has read the rows.
InTransaction(c) ==
  IF Stored(c) THEN Replayed(c)
  ELSE IF c.op \in Lifecycle \cup {"save_assessment"} THEN [c EXCEPT !.phase = "running"]
  ELSE IF c.op \in {"save_finding", "duplicate"} /\ Gone(c) THEN Done("missing", 0)
  ELSE IF Closed THEN Done("readonly", 0)
  ELSE IF Gone(c) \/ WrongSet(c) THEN Done("missing", 0)
  ELSE [c EXCEPT !.phase = "running",
                 !.plan = Planned(c),
                 !.pay = IF c.op = "duplicate" THEN content[c.source] ELSE @]

-----------------------------------------------------------------------------
(* The steps of a call *)

Receive(w, c) ==
  /\ call[w].phase = "idle"
  /\ c.op \in Creating => c.target \notin born
  /\ born' = IF c.op \in Creating THEN born \cup {c.target} ELSE born
  /\ call' = [call EXCEPT ![w] = BeforeLock(c)]
  /\ UNCHANGED <<rows, lock, shown, applied>>

Begin(w) ==
  /\ call[w].phase = "waiting"
  /\ lock = NoWorker
  /\ lock' = w
  /\ call' = [call EXCEPT ![w] = InTransaction(@)]
  /\ UNCHANGED <<rows, born, shown, applied>>

\* Broken: a call waits for the lock as long as it takes.
LockTimeoutNever(w) == FALSE

\* block(5): LockTimeoutException while somebody else holds the lock.
LockTimeout(w) ==
  /\ call[w].phase = "waiting"
  /\ lock # NoWorker
  /\ call' = [call EXCEPT ![w] = Done("timeout", 0)]
  /\ UNCHANGED <<rows, born, lock, shown, applied>>

\* Broken: the conditional UPDATE looks at one column only.
MatchesStatus(c) == status = "draft"
MatchesVersion(c) == version = c.expected

\* UPDATE ... WHERE status = draft AND lock_version = expected.
Matches(c) == status = "draft" /\ version = c.expected

ApplyChange(w) ==
  LET c == call[w] IN
  /\ c.phase = "running"
  /\ c.op \in Versioned
  /\ Matches(c)
  /\ version' = c.expected + 1
  /\ sort' = IF c.op \in Saving THEN sort ELSE c.plan
  /\ content' = IF c.op \in Saving \cup Creating
                THEN [content EXCEPT ![c.target] = c.pay]
                ELSE content
  /\ journal' = IF c.key = NoKey THEN journal
                ELSE [journal EXCEPT ![c.key] =
                        [op |-> c.op, target |-> c.target, pay |-> c.pay,
                         order |-> c.order, applied |-> c.expected + 1]]
  /\ call' = [call EXCEPT ![w] = Done("applied", c.expected + 1)]
  /\ applied' = Append(applied, c.key)
  /\ UNCHANGED <<status, completedAt, born, lock, shown>>

\* The row is read once more to say why: a transaction that reads a snapshot
\* still sees the draft that another call has closed, and reports a conflict.
RefuseChange(w) ==
  LET c == call[w] IN
  /\ c.phase = "running"
  /\ c.op \in Versioned
  /\ ~ Matches(c)
  /\ \E why \in IF Closed THEN {"readonly", "conflict"} ELSE {"conflict"} :
       call' = [call EXCEPT ![w] = Done(why, 0)]
  /\ UNCHANGED <<rows, born, lock, shown, applied>>

\* The payload breaks a rule: checked before the lock, and for a finding again
\* inside the transaction, against tables this module leaves out.
RefuseInvalid(w) ==
  LET c == call[w] IN
  /\ \/ c.phase = "waiting" /\ c.op \in Saving
     \/ c.phase = "running" /\ c.op = "save_finding"
  /\ call' = [call EXCEPT ![w] = Done("invalid", 0)]
  /\ UNCHANGED <<rows, born, lock, shown, applied>>

\* lockForUpdate: these read the row they write, and check no version.
Allowed(op) ==
  CASE op = "complete" -> {"draft"}
    [] op = "reopen"   -> {"completed", "archived"}
    [] op = "archive"  -> {"draft", "completed"}

\* Broken: the status is written as the verb.
DestinationVerb(op) == IF op = "reopen" THEN "draft" ELSE op

Destination(op) ==
  CASE op = "complete" -> "completed"
    [] op = "reopen"   -> "draft"
    [] op = "archive"  -> "archived"

ApplyLifecycle(w) ==
  LET c == call[w] IN
  /\ c.phase = "running"
  /\ c.op \in Lifecycle
  /\ status \in Allowed(c.op)
  /\ status' = Destination(c.op)
  /\ completedAt' = CASE c.op = "complete" -> TRUE
                      [] c.op = "reopen"   -> FALSE
                      [] c.op = "archive"  -> completedAt
  /\ version' = version + 1
  /\ shown' = shown \cup {status'}
  /\ call' = [call EXCEPT ![w] = Done("applied", version + 1)]
  /\ applied' = Append(applied, NoKey)
  /\ UNCHANGED <<sort, content, journal, born, lock>>

\* The status does not allow it, or the findings are not complete.
RefuseLifecycle(w) ==
  LET c == call[w] IN
  /\ c.phase = "running"
  /\ c.op \in Lifecycle
  /\ status \notin Allowed(c.op) \/ c.op = "complete"
  /\ call' = [call EXCEPT ![w] = Done("invalid", 0)]
  /\ UNCHANGED <<rows, born, lock, shown, applied>>

Finish(w) ==
  /\ call[w].phase = "done"
  /\ lock' = IF lock = w THEN NoWorker ELSE lock
  /\ call' = [call EXCEPT ![w] = IdleCall]
  /\ UNCHANGED <<rows, born, shown, applied>>

-----------------------------------------------------------------------------
(* What happens to workers and locks, and the writer outside the protocol *)

Crash(w) ==
  /\ call[w].phase # "idle"
  /\ call' = [call EXCEPT ![w] = IdleCall]
  /\ lock' = IF lock = w THEN Orphan ELSE lock
  /\ UNCHANGED <<rows, born, shown, applied>>

\* The 10 seconds of the lock are over, whatever its owner is doing.
LockExpires ==
  /\ lock # NoWorker
  /\ lock' = NoWorker
  /\ UNCHANGED <<rows, born, call, shown, applied>>

\* EditAssessment, the general-data form.  It was filled from the row at some
\* earlier moment, the hidden status field included; saving it updates the row
\* in place, in any status and without lock, version or key.
SaveEditForm(s, p) ==
  /\ s \in shown
  /\ status' = s
  /\ content' = [content EXCEPT ![Details] = p]
  /\ UNCHANGED <<completedAt, version, sort, journal, born, lock, call, shown, applied>>

-----------------------------------------------------------------------------
\* A draft with some findings; versions are counted from here.
Init ==
  /\ status = "draft"
  /\ completedAt = FALSE
  /\ version = 0
  /\ sort = [f \in Findings |->
               IF f \in Elements(InitialFindings)
               THEN CHOOSE i \in DOMAIN InitialFindings : InitialFindings[i] = f
               ELSE 0]
  /\ content = [u \in Units |-> Blank]
  /\ born = Elements(InitialFindings)
  /\ journal = [k \in Keys |-> NoRow]
  /\ lock = NoWorker
  /\ call = [w \in Workers |-> IdleCall]
  /\ shown = {"draft"}
  /\ applied = <<>>

\* The orders a table can send: distinct identifiers it has been shown.
Orders == {o \in UNION {[1..n -> born] : n \in 1..Cardinality(born)} :
             \A i, j \in DOMAIN o : i # j => o[i] # o[j]}

\* A request with any version that has existed.
Asks(w) ==
  \E expected \in 0..version :
     \/ \E k \in Keys \cup {NoKey}, p \in Payloads :
          \/ Receive(w, Request("save_assessment", Details, Details, k, p, <<>>, expected))
          \/ \E f \in born :
               Receive(w, Request("save_finding", f, Details, k, p, <<>>, expected))
     \/ \E k \in Keys, o \in Orders :
          Receive(w, Request("reorder", Details, Details, k, Blank, o, expected))
     \/ \E f \in Findings \ born :
          \/ Receive(w, Request("create", f, Details, NoKey, Blank, <<>>, expected))
          \/ \E p \in Payloads :
               Receive(w, Request("copy_template", f, Details, NoKey, p, <<>>, expected))
          \/ \E g \in born :
               Receive(w, Request("duplicate", f, g, NoKey, Blank, <<>>, expected))
     \/ \E f \in born :
          Receive(w, Request("delete", f, Details, NoKey, Blank, <<>>, expected))
     \/ \E op \in Lifecycle :
          Receive(w, Request(op, Details, Details, NoKey, Blank, <<>>, expected))

Arrives(w) == version < MaxVersion /\ Asks(w)

Proceeds(w) ==
  \/ Begin(w)
  \/ LockTimeout(w)
  \/ ApplyChange(w)
  \/ RefuseChange(w)
  \/ RefuseInvalid(w)
  \/ ApplyLifecycle(w)
  \/ RefuseLifecycle(w)
  \/ Finish(w)

Next ==
  \/ \E w \in Workers : Arrives(w) \/ Proceeds(w) \/ Crash(w)
  \/ LockExpires
  \/ \E s \in Statuses, p \in Payloads : SaveEditForm(s, p)

\* The same steps without the bound on versions.
Serves ==
  \/ \E w \in Workers : Asks(w) \/ Proceeds(w) \/ Crash(w)
  \/ LockExpires
  \/ \E s \in Statuses, p \in Payloads : SaveEditForm(s, p)

Spec == Init /\ [][Next]_storeVars

-----------------------------------------------------------------------------
(* Properties *)

Calls ==
  [phase : Phases, op : Versioned \cup Lifecycle \cup {"none"}, target : Units,
   source : Units, key : Keys \cup {NoKey}, pay : Contents, order : Seq(Findings),
   expected : Nat, plan : [Findings -> Nat], outcome : Outcomes, result : Nat]

Rows ==
  [op : Versioned \cup {"none"}, target : Units, pay : Contents,
   order : Seq(Findings), applied : Nat]

\* Every variable has its type.
TypeOK ==
  /\ status \in Statuses
  /\ completedAt \in BOOLEAN
  /\ version \in Nat
  /\ sort \in [Findings -> Nat]
  /\ content \in [Units -> Contents]
  /\ born \subseteq Findings
  /\ journal \in [Keys -> Rows]
  /\ lock \in Workers \cup {NoWorker, Orphan}
  /\ call \in [Workers -> Calls]
  /\ shown \subseteq Statuses
  /\ applied \in Seq(Keys \cup {NoKey})

\* The findings are numbered 1, 2, ... without gap or repetition, although
\* max + 1, the renumbering and the reorder are worked out before the
\* conditional UPDATE and the lock may be lost in between.
SortContiguous ==
  /\ \A f, g \in Live : sort[f] = sort[g] => f = g
  /\ \A f \in Live : sort[f] = 1 \/ \E g \in Live : sort[g] = sort[f] - 1

\* The version counts the operations applied, and no request UUID is applied
\* twice, however often, by whichever workers and with whatever expected
\* version it is delivered.
AppliedOnce ==
  /\ Len(applied) = version
  /\ \A i, j \in 1..Len(applied) :
        applied[i] = applied[j] /\ applied[i] # NoKey => i = j

\* What the journal answers to a repeated delivery is the version that its own
\* operation produced.
JournalTruthful ==
  \A k \in Keys : journal[k].applied > 0 =>
    journal[k].applied \in 1..Len(applied) /\ applied[journal[k].applied] = k

PlanIsCurrent(c) ==
  c.phase = "running" /\ c.op \in Versioned /\ c.expected = version =>
    /\ ~ Stored(c)
    /\ c.op \notin Saving => c.plan = Planned(c)
    /\ c.op = "save_finding" => c.target \in Live
    /\ c.op = "duplicate" => c.source \in Live /\ c.pay = content[c.source]

\* A transaction whose conditional UPDATE can still succeed has worked out
\* its writes from the rows as they are now, whether or not it still owns the
\* lock: this is why losing the lock is harmless.
PlansAreCurrent == \A w \in Workers : PlanIsCurrent(call[w])

\* While the assessment is completed or archived, no call changes a finding,
\* the order or the journal, not even one that was under way when it closed.
FindingsFrozenWhileClosed ==
  [][Closed => /\ sort' = sort
               /\ journal' = journal
               /\ \A f \in Findings : content'[f] = content[f]]_storeVars

\* The rule of the documentation: a completed or archived assessment is
\* read-only until it is reopened.
ClosedIsReadOnly ==
  [][Closed /\ ~ (\E w \in Workers : ApplyLifecycle(w)) =>
       UNCHANGED <<status, sort, content>>]_storeVars

\* The detailed server implements the document: every step is one operation on
\* it, or none.
OrderShown == [i \in 1..Cardinality(Live) |-> CHOOSE f \in Live : sort[f] = i]
ContentShown == [u \in Units |-> IF u \in Live \cup {Details} THEN content[u] ELSE Blank]

Document ==
  INSTANCE AssessmentDocument WITH order <- OrderShown, content <- ContentShown

ImplementsDocument == Document!Spec

\* Every call ends: applied, answered, refused, timed out, or its worker dead.
CallsEnd == \A w \in Workers : call[w].phase # "idle" ~> call[w].phase = "idle"
=============================================================================
