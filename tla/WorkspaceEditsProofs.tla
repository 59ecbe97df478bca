------------------------ MODULE WorkspaceEditsProofs ------------------------
(***************************************************************************)
(* What becomes of the user's edits, for every number of pages, findings   *)
(* and events: the server shows no other finding before it has had the     *)
(* form.  The contexts of WorkspaceDraftsProofs say what every value is;   *)
(* here are the invariants about edits that hold beside them.              *)
(***************************************************************************)
EXTENDS WorkspaceDraftsProofs

-----------------------------------------------------------------------------
(* The gate of the server *)

HeldBy(pay, held) == \E a \in held : a.pay = pay

\* A form that counts as saved is one the server has held.
Clean(w, held) == w.stat = "saved" /\ w.sel # Nothing => HeldBy(w.canon.pay, held)

\* The server has held what it holds and what it has entered in the journal,
\* and every component, in a page or on its way, tells truly that it is saved.
Gate ==
  /\ "held" \in DOMAIN history
  /\ \A e \in Entities : HeldBy(server.content[e], history.held)
  /\ \A r \in server.journal : HeldBy(r.form.pay, history.held)
  /\ \A p \in Pages : Clean(wire[p], history.held)
  /\ \A p \in Pages : flight[p].status \in {"sent", "answered"}
                        => Clean(flight[p].w, history.held)
  /\ \A p \in Pages : flight[p].status = "sent" => flight[p].kind # "structure"

\* No request is answered.
Unanswered == \A p \in Pages : flight[p].status = "sent" => flight'[p].status # "answered"

\* A page whose component shows the same as before, as far as the gate is concerned.
Whole(g) ==
  DOMAIN g = {"w", "m", "u"} /\ {"sel", "canon", "stat", "form", "pend"} \subseteq DOMAIN g.w
Same(g, h) ==
  Whole(h) /\ h.w.sel = g.w.sel /\ h.w.canon = g.w.canon /\ h.w.stat = g.w.stat

\* A page of a context has all its parts.
LEMMA ViewIsWhole ==
  ASSUME NEW c \in Contexts, NEW g, IsView(g, c)
  PROVE  Whole(g) /\ Same(g, g)
BY DEF IsView, Views, Components, Whole, Same

\* One change after another.
LEMMA SameTwice ==
  ASSUME NEW g, NEW h, NEW k, Same(g, h), Same(h, k)
  PROVE  Same(g, k)
BY DEF Same

\* The save under way is not part of it.
LEMMA SaveField ==
  ASSUME NEW g, Whole(g), NEW d
  PROVE  /\ Same(g, [g EXCEPT !.m.save.draft = d]) /\ Whole([g EXCEPT !.m.save.draft = d])
         /\ Same(g, [g EXCEPT !.m.save.phase = d]) /\ Whole([g EXCEPT !.m.save.phase = d])
BY DEF Same, Whole

\* The helpers of the script leave selection, content and state of the component.
LEMMA HelpersSame ==
  ASSUME NEW g, Whole(g), NEW e, NEW job, NEW label
  PROVE  /\ Same(g, Queued(g, e, job)) /\ Same(g, RecoveryDue(g)) /\ Same(g, Failure(g))
         /\ Same(g, SaveEnds(g, label)) /\ Same(g, SaveFails(g))
<1>1. Same(g, Queued(g, e, job)) /\ Same(g, RecoveryDue(g))
  BY DEF Queued, RecoveryDue, Same, Whole
<1>2. Same(g, Failure(g))
  BY DEF Failure, Same, Whole
<1>3. \A l : Same(g, SaveEnds(g, l))
  BY DEF SaveEnds, Same, Whole
<1> QED BY <1>1, <1>2, <1>3 DEF SaveFails

\* An attempt is noted in memory and in the pending UUID.
LEMMA AttemptedSame ==
  ASSUME NEW g, Whole(g), NEW pay, NEW id, NEW rid
  PROVE  Same(g, AttemptedNow(g, pay, id, rid))
BY DEF AttemptedNow, Same, Whole

\* A save that goes on, or not.
LEMMA SaveSame ==
  ASSUME NEW g, Whole(g), NEW d, NEW rid
  PROVE  /\ Same(g, AfterPersist(g, d)) /\ Same(g, AfterRepersist(g, d))
         /\ Same(g, AfterMark(g)) /\ Same(g, WithoutDraft(g, rid))
<1>1. Same(g, AfterPersist(g, d))
  <2>1. PICK h : h = [g EXCEPT !.m.save.draft = d]
    OBVIOUS
  <2>2. PICK k : k = [h EXCEPT !.m.save.phase = "mark"]
    OBVIOUS
  <2>3. Same(g, h) /\ Whole(h)
    BY <2>1, SaveField
  <2>5. Same(h, k) /\ Whole(k)
    BY <2>2, <2>3, SaveField
  <2>4. AfterPersist(g, d) = IF ~ online THEN SaveEnds(h, "offline")
                             ELSE Queued(k, g.m.save.e, DraftJob("mark", d))
    BY <2>1, <2>2 DEF AfterPersist
  <2> QED BY <2>3, <2>4, <2>5, HelpersSame, SameTwice
<1>2. Same(g, AfterRepersist(g, d))
  <2>1. PICK h : h = [g EXCEPT !.m.save.draft = d]
    OBVIOUS
  <2>2. PICK k : k = [h EXCEPT !.m.save.phase = "mark"]
    OBVIOUS
  <2>3. PICK n : n = [h EXCEPT !.m.save.phase = "unmark"]
    OBVIOUS
  <2>4. Same(g, h) /\ Whole(h)
    BY <2>1, SaveField
  <2>6. Same(h, k) /\ Same(h, n) /\ Whole(k) /\ Whole(n)
    BY <2>2, <2>3, <2>4, SaveField
  <2>5. AfterRepersist(g, d) = IF g.m.save.tries < Preparations
                               THEN Queued(k, g.m.save.e, DraftJob("mark", d))
                               ELSE Queued(n, g.m.save.e, UnmarkJob(d))
    BY <2>1, <2>2, <2>3 DEF AfterRepersist
  <2> QED BY <2>4, <2>5, <2>6, HelpersSame, SameTwice
<1>3. Same(g, AfterMark(g))
  <2>1. PICK s : s = g.m.save
    OBVIOUS
  <2>2. PICK latest : latest = DraftPayload(g.w.form)
    OBVIOUS
  <2>3. PICK h : h = [g EXCEPT !.m.save.phase = "ready"]
    OBVIOUS
  <2>4. PICK k : k = [g EXCEPT !.m.attempts = {a \in @ : a.rid # s.rid},
                        !.m.save.pay = latest, !.m.save.phase = "repersist",
                        !.m.save.tries = @ + 1]
    OBVIOUS
  <2>5. Same(g, h) /\ Same(g, k) /\ Whole(k)
    <3>1. Same(g, h)
      BY <2>3, SaveField
    <3> QED BY <2>4, <3>1 DEF Whole, Same
  <2>6. AfterMark(g) = IF latest = s.pay THEN h
                       ELSE Queued(k, s.e, PersistJob(latest, s.base, "save"))
    BY <2>1, <2>2, <2>3, <2>4 DEF AfterMark
  <2> QED BY <2>5, <2>6, HelpersSame, SameTwice
<1>4. Same(g, WithoutDraft(g, rid))
  <2>1. PICK h : h = AttemptedNow(g, g.m.save.pay, 0, rid)
    OBVIOUS
  <2>2. PICK k : k = [h EXCEPT !.m.save.phase = "ready"]
    OBVIOUS
  <2>3. Same(g, h) /\ Whole(h)
    BY <2>1, AttemptedSame DEF Same
  <2>4. Same(h, k)
    BY <2>2, <2>3 DEF Whole, Same
  <2>5. WithoutDraft(g, rid) = IF ~ online THEN SaveEnds(g, "storage_error") ELSE k
    BY <2>1, <2>2 DEF WithoutDraft
  <2> QED BY <2>3, <2>4, <2>5, HelpersSame, SameTwice
<1> QED BY <1>1, <1>2, <1>3, <1>4

\* What follows a job that is done.
LEMMA JobSame ==
  ASSUME NEW c \in Contexts, NEW g, IsView(g, c), NEW e \in Entities, NEW job \in Jobs(c),
         Freed(g, e, job)
  PROVE  Same(g, AfterJob(g, e, job))
<1>0. Whole(g)
  BY ViewIsWhole
<1>1. PICK d : d = job.plan.put
  OBVIOUS
<1>2. PICK h : h = Persisted(g, e, job)
  OBVIOUS
<1>3. Same(g, h) /\ Whole(h) /\ h.m.save = g.m.save
  <2>1. "save" \in DOMAIN g.m
    BY DEF IsView, Views, Memories
  <2>2. Same(g, h) /\ Whole(h)
    BY <1>0, <1>2 DEF Persisted, Same, Whole
  <2>3. h.m.save = g.m.save
    BY <1>0, <1>2, <2>1 DEF Persisted, Whole
  <2> QED BY <2>2, <2>3
<1>4. CASE job.do = "persist" /\ job.by # "save"
  BY <1>2, <1>3, <1>4 DEF AfterJob
<1>5. CASE job.do = "persist" /\ job.by = "save"
  <2>1. g.m.save.phase \in {"persist", "repersist"}
    BY <1>5 DEF Freed, SaveWork, Fitting
  <2>2. CASE g.m.save.phase = "persist"
    <3>1. AfterJob(g, e, job) = AfterPersist(h, d)
      BY <1>1, <1>2, <1>5, <2>2 DEF AfterJob
    <3> QED BY <1>3, <3>1, SaveSame, SameTwice
  <2>3. CASE g.m.save.phase = "repersist"
    <3>1. AfterJob(g, e, job) = AfterRepersist(h, d)
      BY <1>1, <1>2, <1>5, <2>3 DEF AfterJob
    <3> QED BY <1>3, <3>1, SaveSame, SameTwice
  <2> QED BY <2>1, <2>2, <2>3
<1>6. CASE job.do = "mark"
  <2>1. PICK k : k = [g EXCEPT !.m.save.draft = d]
    OBVIOUS
  <2>2. PICK n : n = AttemptedNow(k, d.pay, d.id, d.req)
    OBVIOUS
  <2>3. AfterJob(g, e, job) = AfterMark(n)
    BY <1>1, <1>6, <2>1, <2>2 DEF AfterJob
  <2>4. Same(g, k) /\ Whole(k)
    BY <1>0, <2>1 DEF Same, Whole
  <2>5. Same(k, n) /\ Whole(n)
    BY <2>2, <2>4, AttemptedSame DEF Same
  <2> QED BY <2>3, <2>4, <2>5, SaveSame, SameTwice
<1>7. CASE job.do = "unmark"
  <2>1. PICK k : k = [g EXCEPT !.w.pend = 0]
    OBVIOUS
  <2>2. AfterJob(g, e, job) = SaveEnds(k, "local")
    BY <1>7, <2>1 DEF AfterJob
  <2>3. Same(g, k) /\ Whole(k)
    BY <1>0, <2>1 DEF Same, Whole
  <2> QED BY <2>2, <2>3, HelpersSame, SameTwice
<1>8. CASE job.do = "adopt"
  <2>1. AfterJob(g, e, job) = AdoptedIn(g, e, job)
    BY <1>8 DEF AfterJob
  <2> QED BY <1>0, <2>1 DEF AdoptedIn, Same, Whole
<1>9. CASE job.do = "confirm"
  <2>1. AfterJob(g, e, job) = Treated(g, job.task, job.plan)
    BY <1>9 DEF AfterJob
  <2> QED BY <1>0, <2>1 DEF Treated, Same, Whole
<1>10. CASE job.do = "wipe"
  <2>1. PICK k : k = WipedIn(g, e)
    OBVIOUS
  <2>2. Same(g, k) /\ Whole(k)
    BY <1>0, <2>1 DEF WipedIn, Same, Whole
  <2>3. AfterJob(g, e, job) = RecoveryDue(k)
    BY <1>10, <2>1 DEF AfterJob
  <2> QED BY <2>2, <2>3, HelpersSame, SameTwice
<1> QED BY <1>4, <1>5, <1>6, <1>7, <1>8, <1>9, <1>10, JobKinds

\* What follows a job that fails.
LEMMA FailedSame ==
  ASSUME NEW g, Whole(g), NEW job, NEW rid
  PROVE  Same(g, AfterFailedJob(g, job, rid))
<1>1. PICK f : f = Failure(g)
  OBVIOUS
<1>2. Same(g, f) /\ Whole(f)
  BY <1>1, HelpersSame DEF Same
<1>3. PICK n : n = AttemptedNow(f, job.draft.pay, job.draft.id, job.draft.req)
  OBVIOUS
<1>4. Same(f, n) /\ Whole(n)
  BY <1>2, <1>3, AttemptedSame DEF Same
<1>5. PICK k : k = [g EXCEPT !.m.conf = @ \ {job.task}]
  OBVIOUS
<1>6. Same(g, k) /\ Whole(k)
  BY <1>5 DEF Same, Whole
<1>7. AfterFailedJob(g, job, rid) \in
        {WithoutDraft(f, rid), SaveFails(g), AfterMark(n), Failure(k), f}
  BY <1>1, <1>3, <1>5, Zenon DEF AfterFailedJob
<1>8. /\ Same(g, SaveFails(g)) /\ Same(k, Failure(k))
      /\ Same(n, AfterMark(n)) /\ Same(f, WithoutDraft(f, rid))
  BY <1>2, <1>4, <1>6, HelpersSame, SaveSame
<1>9. Same(g, Failure(k)) /\ Same(g, AfterMark(n)) /\ Same(g, WithoutDraft(f, rid))
  BY <1>2, <1>4, <1>6, <1>8, SameTwice
<1> QED BY <1>2, <1>7, <1>8, <1>9

\* What is left of a queue when its first job is taken off (queueDraftMutation).
LEMMA PoppedFreed ==
  ASSUME NEW c \in Contexts, NEW g, IsView(g, c), NEW e \in Entities, g.m.jobs[e] # <<>>,
         NEW h, h = Popped(g, e), NEW job, job = Head(g.m.jobs[e])
  PROVE  IsView(h, c) /\ job \in Jobs(c) /\ Freed(h, e, job)
<1>1. /\ IsView(Popped(g, e), c) /\ Head(g.m.jobs[e]) \in Jobs(c)
      /\ Popped(g, e).m.save = g.m.save
      /\ SaveWork(Head(g.m.jobs[e])) =>
            /\ Idle(Popped(g, e).m)
            /\ g.m.save # NoSave /\ g.m.save.e = e
            /\ g.m.save.phase \in Fitting(Head(g.m.jobs[e]))
  BY PoppedView
<1>2. SaveWork(Head(g.m.jobs[e])) => Idle(h.m) /\ h.m.save = g.m.save
  BY <1>1, Zenon
<1>3. SaveWork(job) => /\ Idle(h.m) /\ h.m.save # NoSave /\ h.m.save.e = e
                       /\ h.m.save.phase \in Fitting(job)
  <2>1. SaveWork(job) = SaveWork(Head(g.m.jobs[e])) /\ Fitting(job) = Fitting(Head(g.m.jobs[e]))
    BY Zenon
  <2> QED BY <1>1, <1>2, <2>1
<1> QED BY <1>1, <1>3 DEF Freed, Saving

\* What the server has held stays.
HeldStays == history'.held = history.held /\ DOMAIN history' = DOMAIN history

\* A step of one page that leaves selection, content and state of its component.
Steady(p) ==
  \E h : Same(Page(p), h) /\ Becomes(p, h) /\ UNCHANGED <<server, flight>> /\ HeldStays

\* The jobs of a queue.
LEMMA JobsSteady ==
  ASSUME NEW c \in Contexts, At(c), Gate, NEW p \in Pages, NEW e \in Entities,
         JobReads(p, e) \/ JobWrites(p, e) \/ JobFails(p, e) \/ TimerFires(p, e)
  PROVE  Steady(p)
<1>1. PICK g : g = Page(p)
  OBVIOUS
<1>2. IsView(g, c) /\ Whole(g)
  BY <1>1, PageIs, ViewIsWhole DEF At
<1>3. UNCHANGED <<server, flight>> /\ HeldStays
  BY DEF JobReads, JobWrites, JobFails, TimerFires, HeldStays
<1>4. PICK job : job = Head(g.m.jobs[e])
  OBVIOUS
<1>5. PICK h : h = Popped(g, e)
  OBVIOUS
<1>6. Same(g, h) /\ Whole(h)
  BY <1>2, <1>5 DEF Popped, Same, Whole
<1>7. CASE TimerFires(p, e)
  <2>1. PICK k : k = [g EXCEPT !.m.timer[e] = NoTimer]
    OBVIOUS
  <2>2. Same(g, k) /\ Whole(k)
    BY <1>2, <2>1 DEF Same, Whole
  <2>3. Becomes(p, Queued(k, e, PersistJob(g.m.timer[e].pay, g.m.timer[e].base, "timer")))
    BY <1>1, <1>7, <2>1 DEF TimerFires
  <2> QED BY <1>1, <1>3, <2>2, <2>3, HelpersSame, SameTwice DEF Steady
<1>8. CASE JobFails(p, e)
  <2>1. PICK k : k = AfterFailedJob(h, job, clock + 1)
    OBVIOUS
  <2>2. Same(g, k)
    BY <1>6, <2>1, FailedSame, SameTwice
  <2>3. Becomes(p, k)
    BY <1>1, <1>4, <1>5, <1>8, <2>1, Zenon DEF JobFails, Popped
  <2> QED BY <1>1, <1>3, <2>2, <2>3 DEF Steady
<1>9. CASE JobWrites(p, e)
  <2>1. PICK k : k = AfterJob(h, e, job)
    OBVIOUS
  <2>2. Becomes(p, k) /\ g.m.jobs[e] # <<>>
    BY <1>1, <1>4, <1>5, <1>9, <2>1, Zenon DEF JobWrites, Popped
  <2>3. IsView(h, c) /\ job \in Jobs(c) /\ Freed(h, e, job)
    BY <1>2, <1>4, <1>5, <2>2, PoppedFreed
  <2>4. Same(h, k)
    BY <2>1, <2>3, JobSame
  <2> QED BY <1>1, <1>3, <1>6, <2>2, <2>4, SameTwice DEF Steady
<1>10. CASE JobReads(p, e)
  <2>1. \A plan : Same(g, Planned(g, e, plan)) /\ Whole(Planned(g, e, plan))
    BY <1>2 DEF Planned, Same, Whole
  <2>2. \A plan, id : Same(g, [Planned(g, e, plan) EXCEPT !.m.active[e] = id])
    <3> TAKE plan, id
    <3>1. PICK n : n = Planned(g, e, plan)
      OBVIOUS
    <3>2. Same(g, n) /\ Whole(n)
      BY <2>1, <3>1
    <3>3. Same(n, [n EXCEPT !.m.active[e] = id])
      BY <3>2 DEF Same, Whole
    <3> QED BY <3>1, <3>2, <3>3, SameTwice
  <2>3. \E plan, id : \/ Becomes(p, Planned(g, e, plan))
                      \/ Becomes(p, [Planned(g, e, plan) EXCEPT !.m.active[e] = id])
    BY <1>1, <1>10, Zenon DEF JobReads, Planned
  <2> QED BY <1>1, <1>3, <2>1, <2>2, <2>3 DEF Steady
<1> QED BY <1>7, <1>8, <1>9, <1>10

\* The end of a confirmation changes memory and status.
LEMMA ConcludedSame ==
  ASSUME NEW g, Whole(g), NEW e, NEW task, NEW active, NEW unprotected, NEW clear
  PROVE  /\ Same(g, Concluded(g, e, task, active, unprotected, clear))
         /\ Whole(Concluded(g, e, task, active, unprotected, clear))
<1>1. PICK h : h = [g EXCEPT !.m.rev[e] = 0, !.m.newer[e] = NoPayload]
  OBVIOUS
<1>2. Same(g, h) /\ Whole(h)
  BY <1>1 DEF Same, Whole
<1>3. \A u : /\ Same(g, [g EXCEPT !.u = u]) /\ Whole([g EXCEPT !.u = u])
            /\ Same(g, [h EXCEPT !.u = u]) /\ Whole([h EXCEPT !.u = u])
  BY <1>2 DEF Same, Whole
<1>4. \E u : \/ Concluded(g, e, task, active, unprotected, clear) = [g EXCEPT !.u = u]
            \/ Concluded(g, e, task, active, unprotected, clear) = [h EXCEPT !.u = u]
  BY <1>1 DEF Concluded
<1> QED BY <1>3, <1>4

\* The steps of a confirmation.
LEMMA ConfirmSteady ==
  ASSUME NEW c \in Contexts, At(c), Gate, NEW p \in Pages, NEW task \in mem[p].conf,
         \/ ConfirmReads(p, task) \/ ConfirmMarks(p, task)
         \/ ConfirmEnds(p, task) \/ ConfirmFails(p, task)
  PROVE  Steady(p)
<1>1. PICK g : g = Page(p)
  OBVIOUS
<1>2. IsView(g, c) /\ Whole(g)
  BY <1>1, PageIs, ViewIsWhole DEF At
<1>3. UNCHANGED <<server, flight>> /\ HeldStays
  BY DEF ConfirmReads, ConfirmMarks, ConfirmEnds, ConfirmFails, HeldStays, Gate
<1>4. \A conf, as : /\ Same(g, [g EXCEPT !.m.conf = conf]) /\ Whole([g EXCEPT !.m.conf = conf])
                    /\ Same(g, [g EXCEPT !.m.conf = conf, !.m.attempts = as])
                    /\ Whole([g EXCEPT !.m.conf = conf, !.m.attempts = as])
  BY <1>2 DEF Same, Whole
<1>5. CASE ConfirmReads(p, task)
  <2>1. \E conf, job : \/ Becomes(p, [g EXCEPT !.m.conf = conf])
                       \/ Becomes(p, Queued([g EXCEPT !.m.conf = conf], task.e, job))
    BY <1>1, <1>5, Zenon DEF ConfirmReads
  <2>2. PICK conf, job : \/ Becomes(p, [g EXCEPT !.m.conf = conf])
                         \/ Becomes(p, Queued([g EXCEPT !.m.conf = conf], task.e, job))
    BY <2>1
  <2>3. PICK k : k = [g EXCEPT !.m.conf = conf]
    OBVIOUS
  <2>4. Same(g, k) /\ Same(g, Queued(k, task.e, job))
    BY <1>4, <2>3, HelpersSame, SameTwice
  <2> QED BY <1>1, <1>3, <2>2, <2>3, <2>4 DEF Steady
<1>6. CASE ConfirmMarks(p, task)
  <2>1. \E conf : Becomes(p, [g EXCEPT !.m.conf = conf])
    BY <1>1, <1>6, Zenon DEF ConfirmMarks
  <2> QED BY <1>1, <1>3, <1>4, <2>1 DEF Steady
<1>7. CASE ConfirmFails(p, task)
  <2>1. PICK conf, as : Becomes(p, Failure([g EXCEPT !.m.conf = conf, !.m.attempts = as]))
    BY <1>1, <1>7, Zenon DEF ConfirmFails
  <2>2. PICK k : k = [g EXCEPT !.m.conf = conf, !.m.attempts = as]
    OBVIOUS
  <2>3. Same(g, Failure(k)) /\ Becomes(p, Failure(k))
    BY <1>4, <2>1, <2>2, HelpersSame, SameTwice
  <2> QED BY <1>1, <1>3, <2>3 DEF Steady
<1>8. CASE ConfirmEnds(p, task)
  <2>1. PICK h : h = [g EXCEPT !.m.conf = g.m.conf \ {task},
                               !.m.attempts = {x \in g.m.attempts : x.rid # task.rid}]
    OBVIOUS
  <2>2. Same(g, h) /\ Whole(h)
    BY <1>4, <2>1
  <2>3. \E n, active, un, clear :
          \/ Becomes(p, RecoveryDue(h))
          \/ Becomes(p, RecoveryDue(Concluded([h EXCEPT !.m.evRev[ConfirmedEntity(task)] = n],
                                              ConfirmedEntity(task), task, active, un, clear)))
    BY <1>1, <1>8, <2>1, ZenonT(60) DEF ConfirmEnds
  <2>4. PICK n, active, un, clear :
          \/ Becomes(p, RecoveryDue(h))
          \/ Becomes(p, RecoveryDue(Concluded([h EXCEPT !.m.evRev[ConfirmedEntity(task)] = n],
                                              ConfirmedEntity(task), task, active, un, clear)))
    BY <2>3
  <2>5. PICK k : k = [h EXCEPT !.m.evRev[ConfirmedEntity(task)] = n]
    OBVIOUS
  <2>6. Same(h, k) /\ Whole(k)
    BY <2>2, <2>5 DEF Same, Whole
  <2>7. PICK e : e = ConfirmedEntity(task)
    OBVIOUS
  <2>8. PICK d : d = Concluded(k, e, task, active, un, clear)
    OBVIOUS
  <2>9. Same(k, d) /\ Whole(d)
    BY <2>6, <2>8, ConcludedSame
  <2>10. Becomes(p, RecoveryDue(h)) \/ Becomes(p, RecoveryDue(d))
    BY <2>4, <2>5, <2>7, <2>8
  <2>11. Same(g, RecoveryDue(h)) /\ Same(g, RecoveryDue(d))
    BY <2>2, <2>6, <2>9, HelpersSame, SameTwice
  <2> QED BY <1>1, <1>3, <2>10, <2>11 DEF Steady
<1> QED BY <1>5, <1>6, <1>7, <1>8

\* The steps of a recovery, and of a draft that is thrown away.
LEMMA RecoverySteady ==
  ASSUME NEW c \in Contexts, At(c), Gate, NEW p \in Pages,
         \/ RecoveryReads(p) \/ RecoveryEnds(p) \/ RecoveryFails(p)
         \/ Drop(p) \/ DropEnds(p) \/ DropFails(p)
  PROVE  Steady(p)
<1>1. PICK g : g = Page(p)
  OBVIOUS
<1>2. IsView(g, c) /\ Whole(g)
  BY <1>1, PageIs, ViewIsWhole DEF At
<1>3. UNCHANGED <<server, flight>> /\ HeldStays
  BY DEF RecoveryReads, RecoveryEnds, RecoveryFails, Drop, DropEnds, DropFails, HeldStays, Gate
<1>4. CASE RecoveryReads(p)
  <2>1. \A due, run, shown : /\ Same(g, [g EXCEPT !.m.due = due, !.m.run = run, !.m.shown = shown])
                             /\ Same(g, [g EXCEPT !.m.due = due, !.m.run = run])
    BY <1>2 DEF Same, Whole
  <2>2. \E due, run, shown :
          \/ Becomes(p, [g EXCEPT !.m.due = due, !.m.run = run, !.m.shown = shown])
          \/ Becomes(p, [g EXCEPT !.m.due = due, !.m.run = run])
    BY <1>1, <1>4, Zenon DEF RecoveryReads
  <2> QED BY <1>1, <1>3, <2>1, <2>2 DEF Steady
<1>5. CASE RecoveryEnds(p)
  <2>1. PICK run : run = mem[p].run
    OBVIOUS
  <2>2. PICK h : h = Evaluated(g, run)
    OBVIOUS
  <2>3. Same(g, h) /\ Whole(h)
    BY <1>2, <2>2 DEF Evaluated, Same, Whole
  <2>4. \E d : Becomes(p, [h EXCEPT !.m.shown = NoShown]) \/ Becomes(p, Displayed(h, run, d))
    BY <1>1, <1>5, <2>1, <2>2, Zenon DEF RecoveryEnds
  <2>5. \A d : Same(h, Displayed(h, run, d)) /\ Same(h, [h EXCEPT !.m.shown = NoShown])
    BY <2>3 DEF Displayed, Same, Whole
  <2>6. \A d : Same(g, Displayed(h, run, d)) /\ Same(g, [h EXCEPT !.m.shown = NoShown])
    BY <2>3, <2>5, SameTwice
  <2> QED BY <1>1, <1>3, <2>4, <2>6 DEF Steady
<1>6. CASE RecoveryFails(p) \/ DropFails(p)
  <2>1. PICK h : h = [g EXCEPT !.m.due = FALSE, !.m.run = NoRun]
    OBVIOUS
  <2>2. Same(g, h) /\ Whole(h)
    BY <1>2, <2>1 DEF Same, Whole
  <2>3. Becomes(p, Failure(h)) \/ Becomes(p, Failure(g))
    BY <1>1, <1>6, <2>1, Zenon DEF RecoveryFails, DropFails
  <2>4. Same(g, Failure(h)) /\ Same(g, Failure(g))
    BY <1>2, <2>2, HelpersSame, SameTwice
  <2> QED BY <1>1, <1>3, <2>3, <2>4 DEF Steady
<1>7. CASE Drop(p)
  <2>1. PICK shown, n, tail : Becomes(p, RecoveryDue([g EXCEPT
             !.m.shown = shown, !.m.active[g.w.sel] = n, !.m.tail = tail]))
    BY <1>1, <1>7, Zenon DEF Drop
  <2>2. PICK h : h = [g EXCEPT !.m.shown = shown, !.m.active[g.w.sel] = n, !.m.tail = tail]
    OBVIOUS
  <2>3. Same(g, h) /\ Whole(h)
    BY <1>2, <2>2 DEF Same, Whole
  <2>4. Becomes(p, RecoveryDue(h)) /\ Same(g, RecoveryDue(h))
    BY <2>1, <2>2, <2>3, HelpersSame, SameTwice
  <2> QED BY <1>1, <1>3, <2>4 DEF Steady
<1>8. CASE DropEnds(p)
  <2>1. PICK h : h = [g EXCEPT !.m.tail = NoRun]
    OBVIOUS
  <2>2. Same(g, h) /\ Whole(h)
    BY <1>2, <2>1 DEF Same, Whole
  <2>3. \E e, n, u : \/ Becomes(p, h) \/ Becomes(p, Activated(h, e, n, u))
                     \/ Becomes(p, [h EXCEPT !.u = u])
    BY <1>1, <1>8, <2>1, ZenonT(60) DEF DropEnds, Activated
  <2>4. \A e, n, u : Same(h, Activated(h, e, n, u)) /\ Same(h, [h EXCEPT !.u = u])
    BY <2>2 DEF Activated, Same, Whole
  <2>5. \A e, n, u : Same(g, Activated(h, e, n, u)) /\ Same(g, [h EXCEPT !.u = u])
    BY <2>2, <2>4, SameTwice
  <2> QED BY <1>1, <1>3, <2>2, <2>3, <2>5 DEF Steady
<1> QED BY <1>4, <1>5, <1>6, <1>7, <1>8

\* One page and its message change, and the page is as truly saved as it says.
LEMMA GateKept ==
  ASSUME NEW c \in Contexts, At(c), Gate, NEW p \in Pages, UNCHANGED server, HeldStays,
         NEW w, wire' = [wire EXCEPT ![p] = w], Clean(w, history.held),
         NEW f, flight' = [flight EXCEPT ![p] = f],
         f.status \in {"sent", "answered"} => Clean(f.w, history.held),
         f.status = "sent" => f.kind # "structure",
         flight[p].status = "sent" => f.status # "answered"
  PROVE  Gate' /\ Unanswered
<1>1. DOMAIN wire = Pages /\ DOMAIN flight = Pages
  BY DEF At, PagesAt
<1>2. history'.held = history.held /\ "held" \in DOMAIN history'
  BY DEF HeldStays, Gate
<1>3. \A q \in Pages : /\ wire'[q] = IF q = p THEN w ELSE wire[q]
                       /\ flight'[q] = IF q = p THEN f ELSE flight[q]
  BY <1>1
<1>4. \A q \in Pages : Clean(wire'[q], history'.held)
  BY <1>2, <1>3 DEF Gate
<1>5. \A q \in Pages : flight'[q].status \in {"sent", "answered"}
                         => Clean(flight'[q].w, history'.held)
  BY <1>2, <1>3 DEF Gate
<1>6. \A q \in Pages : flight'[q].status = "sent" => flight'[q].kind # "structure"
  BY <1>3 DEF Gate
<1>7. Gate'
  BY <1>2, <1>4, <1>5, <1>6 DEF Gate
<1>8. Unanswered
  BY <1>3 DEF Unanswered
<1> QED BY <1>7, <1>8

\* The component keeps what the gate asks about.
LEMMA SameClean ==
  ASSUME NEW g, NEW h, Same(g, h), NEW held, Clean(g.w, held)
  PROVE  Clean(h.w, held)
BY DEF Same, Clean

\* Such steps keep the gate.
LEMMA SteadyKeeps ==
  ASSUME NEW c \in Contexts, At(c), Gate, NEW p \in Pages, Steady(p)
  PROVE  Gate' /\ Unanswered
<1>1. PICK h : Same(Page(p), h) /\ Becomes(p, h) /\ UNCHANGED <<server, flight>> /\ HeldStays
  BY DEF Steady
<1>2. Clean(h.w, history.held)
  BY <1>1, PageIs, SameClean DEF Gate, At
<1>3. flight' = [flight EXCEPT ![p] = flight[p]] /\ wire' = [wire EXCEPT ![p] = h.w]
  BY <1>1 DEF Becomes, At
<1>4. /\ flight[p].status \in {"sent", "answered"} => Clean(flight[p].w, history.held)
      /\ flight[p].status = "sent" => flight[p].kind # "structure"
  BY DEF Gate
<1> QED BY <1>1, <1>2, <1>3, <1>4, GateKept

\* The user edits, starts a save or restores a draft.
LEMMA EditSteady ==
  ASSUME NEW c \in Contexts, At(c), Gate, NEW p \in Pages,
         \/ Type(p) \/ Attach(p) \/ Restore(p) \/ \E how \in Intercepted : SaveStarts(p, how)
  PROVE  Steady(p)
<1>1. PICK g : g = Page(p)
  OBVIOUS
<1>2. IsView(g, c) /\ Whole(g)
  BY <1>1, PageIs, ViewIsWhole DEF At
<1>3. UNCHANGED <<server, flight>> /\ HeldStays
  BY DEF Type, Attach, Restore, SaveStarts, HeldStays
<1>4. CASE Type(p)
  <2>1. PICK e, pay : Becomes(p, Newer(Edited(g, e, pay), e, pay))
    BY <1>1, <1>4, Zenon DEF Type, Edited
  <2>2. PICK h : h = Edited(g, e, pay)
    OBVIOUS
  <2>3. Same(g, h) /\ Whole(h)
    BY <1>2, <2>2 DEF Edited, Same, Whole
  <2>4. Same(h, Newer(h, e, pay))
    BY <2>3 DEF Newer, Same, Whole
  <2> QED BY <1>1, <1>3, <2>1, <2>2, <2>3, <2>4, SameTwice DEF Steady
<1>5. CASE Attach(p)
  <2>1. PICK e, n : Becomes(p, WithFile(g, e, n))
    BY <1>1, <1>5, Zenon DEF Attach, WithFile
  <2>2. Same(g, WithFile(g, e, n))
    BY <1>2 DEF WithFile, Same, Whole
  <2> QED BY <1>1, <1>3, <2>1, <2>2 DEF Steady
<1>6. CASE Restore(p)
  <2>1. \E e, pay, job, u : \/ Becomes(p, Queued([g EXCEPT !.w.form.pay = pay], e, job))
                            \/ Becomes(p, [g EXCEPT !.u = u])
    BY <1>1, <1>6, Zenon DEF Restore
  <2>2. PICK e, pay, job, u : \/ Becomes(p, Queued([g EXCEPT !.w.form.pay = pay], e, job))
                              \/ Becomes(p, [g EXCEPT !.u = u])
    BY <2>1
  <2>3. PICK h : h = [g EXCEPT !.w.form.pay = pay]
    OBVIOUS
  <2>4. Same(g, h) /\ Whole(h) /\ Same(g, [g EXCEPT !.u = u])
    BY <1>2, <2>3 DEF Same, Whole
  <2>5. Same(g, Queued(h, e, job))
    BY <2>4, HelpersSame, SameTwice
  <2> QED BY <1>1, <1>3, <2>2, <2>3, <2>4, <2>5 DEF Steady
<1>7. ASSUME NEW how \in Intercepted, SaveStarts(p, how)
      PROVE  Steady(p)
  <2>1. PICK e, save, job : Becomes(p, Queued([g EXCEPT !.m.timer[e] = NoTimer, !.m.save = save],
                                              e, job))
    BY <1>1, <1>7, Zenon DEF SaveStarts
  <2>2. PICK h : h = [g EXCEPT !.m.timer[e] = NoTimer, !.m.save = save]
    OBVIOUS
  <2>3. Same(g, h) /\ Whole(h)
    BY <1>2, <2>2 DEF Same, Whole
  <2>4. Same(g, Queued(h, e, job)) /\ Becomes(p, Queued(h, e, job))
    BY <2>1, <2>2, <2>3, HelpersSame, SameTwice
  <2> QED BY <1>1, <1>3, <2>4 DEF Steady
<1> QED BY <1>4, <1>5, <1>6, <1>7

\* A request sets off: with the component as the page holds it.
LEMMA RequestGate ==
  ASSUME NEW c \in Contexts, At(c), Gate, NEW p \in Pages,
         \/ Close(p) \/ Report(p) \/ Discard(p) \/ \E e \in Entities : Select(p, e)
         \/ SaveLeaves(p)
  PROVE  Gate' /\ Unanswered
<1>1. PICK g : g = Page(p)
  OBVIOUS
<1>2. IsView(g, c) /\ Whole(g) /\ g.w = wire[p] /\ Clean(g.w, history.held)
  BY <1>1, PageIs, ViewIsWhole DEF At, Gate
<1>3. UNCHANGED server /\ HeldStays /\ flight[p] = NoMessage
  BY DEF Close, Report, Discard, Select, SaveLeaves, Asks, HeldStays
<1>4. \E kind, arg : /\ flight' = [flight EXCEPT ![p] =
                              [status |-> "sent", kind |-> kind, arg |-> arg, w |-> g.w]]
                     /\ kind # "structure" /\ wire' = [wire EXCEPT ![p] = g.w]
  <2>1. CASE SaveLeaves(p)
    <3>1. g.m.save.how # "structure"
      <4>1. g.m.save.phase = "ready"
        BY <1>1, <2>1 DEF SaveLeaves
      <4>2. g.m.save # NoSave
        BY <4>1 DEF NoSave
      <4>3. g.m.save \in RunningSaves(c) /\ g.m.save.how \in Intercepted
        BY <1>2, <4>2, MemoryOf, SavingFields DEF Saving
      <4> QED BY <4>3 DEF Intercepted
    <3>2. PICK h : h = [g EXCEPT !.m.save.phase = "sent"]
      OBVIOUS
    <3>3. h.w = g.w
      BY <1>2, <3>2 DEF Whole
    <3>4. Becomes(p, h)
      BY <1>1, <2>1, <3>2, Zenon DEF SaveLeaves
    <3>5. wire' = [wire EXCEPT ![p] = g.w]
      BY <3>3, <3>4 DEF Becomes
    <3>6. flight' = [flight EXCEPT ![p] =
            [status |-> "sent", kind |-> g.m.save.how, arg |-> g.w.sel, w |-> g.w]]
      BY <1>1, <2>1, Zenon DEF SaveLeaves
    <3> QED BY <3>1, <3>5, <3>6
  <2>2. CASE Close(p) \/ Report(p) \/ Discard(p) \/ \E e \in Entities : Select(p, e)
    <3>1. PICK kind, arg : /\ kind \in {"select", "live", "discard"}
                           /\ Asks(p, kind, arg) /\ UNCHANGED wire
      BY <2>2 DEF Close, Report, Discard, Select
    <3>2. wire = [wire EXCEPT ![p] = wire[p]]
      BY DEF At, PagesAt
    <3>3. flight' = [flight EXCEPT ![p] =
            [status |-> "sent", kind |-> kind, arg |-> arg, w |-> g.w]]
      BY <1>2, <3>1 DEF Asks
    <3> QED BY <1>2, <3>1, <3>2, <3>3
  <2> QED BY <2>1, <2>2
<1>5. PICK kind, arg : /\ flight' = [flight EXCEPT ![p] =
                                [status |-> "sent", kind |-> kind, arg |-> arg, w |-> g.w]]
                       /\ kind # "structure" /\ wire' = [wire EXCEPT ![p] = g.w]
  BY <1>4
<1>6. PICK f : f = [status |-> "sent", kind |-> kind, arg |-> arg, w |-> g.w]
  OBVIOUS
<1>7. f.status = "sent" /\ f.kind # "structure" /\ f.w = g.w /\ flight' = [flight EXCEPT ![p] = f]
  BY <1>5, <1>6
<1> QED BY <1>2, <1>3, <1>5, <1>7, GateKept

\* A page is opened or left.
LEMMA ComeAndGo ==
  ASSUME NEW c \in Contexts, At(c), Gate, NEW p \in Pages, Open(p) \/ Leave(p)
  PROVE  Gate' /\ Unanswered
<1>1. UNCHANGED server /\ HeldStays
  BY DEF Open, Leave, HeldStays
<1>2. CASE Open(p)
  <2>1. PICK e \in Entries : Becomes(p, RecoveryDue(
           [w |-> Filled([NoPage EXCEPT !.on = "open", !.ver = server.ver, !.ro = server.shut], e),
            m |-> FreshMemory, u |-> NewStatus(Entities, "saved")]))
    BY <1>2 DEF Open
  <2>2. PICK v : v = [NoPage EXCEPT !.on = "open", !.ver = server.ver, !.ro = server.shut]
    OBVIOUS
  <2>3. PICK w : w = Filled(v, e)
    OBVIOUS
  <2>4. e \in Entities /\ e # Nothing
    BY <2>1, DraftsAssumption
  <2>5. w.canon.pay = server.content[e]
    <3>1. "canon" \in DOMAIN v
      BY <2>2 DEF NoPage
    <3> QED BY <2>3, <2>4, <3>1 DEF Filled, Form
  <2>6. Clean(w, history.held)
    BY <2>4, <2>5 DEF Clean, Gate
  <2>7. PICK g : g = [w |-> w, m |-> FreshMemory, u |-> NewStatus(Entities, "saved")]
    OBVIOUS
  <2>8. Becomes(p, RecoveryDue(g))
    BY <2>1, <2>2, <2>3, <2>7
  <2>9. RecoveryDue(g).w = w
    BY <2>7 DEF RecoveryDue
  <2>10. wire' = [wire EXCEPT ![p] = w]
    BY <2>8, <2>9 DEF Becomes
  <2>11. flight' = [flight EXCEPT ![p] = flight[p]]
    BY <1>2 DEF Open, At
  <2>12. /\ flight[p].status \in {"sent", "answered"} => Clean(flight[p].w, history.held)
         /\ flight[p].status = "sent" => flight[p].kind # "structure"
    BY DEF Gate
  <2> QED BY <1>1, <2>6, <2>10, <2>11, <2>12, GateKept
<1>3. CASE Leave(p)
  <2>1. PICK w : w = [NoPage EXCEPT !.on = "gone"]
    OBVIOUS
  <2>2. Clean(w, history.held)
    BY <2>1 DEF Clean, NoPage
  <2>3. wire' = [wire EXCEPT ![p] = w]
    BY <1>3, <2>1 DEF Leave, Becomes
  <2>4. PICK f : f = IF flight[p].status = "sent" THEN flight[p] ELSE NoMessage
    OBVIOUS
  <2>5. flight' = [flight EXCEPT ![p] = f]
    BY <1>3, <2>4 DEF Leave
  <2>6. /\ f.status \in {"sent", "answered"} => Clean(f.w, history.held)
        /\ f.status = "sent" => f.kind # "structure"
        /\ flight[p].status = "sent" => f.status # "answered"
    BY <2>4 DEF Gate, NoMessage
  <2> QED BY <1>1, <2>2, <2>3, <2>5, <2>6, GateKept
<1> QED BY <1>2, <1>3

\* No response comes.
LEMMA LostGate ==
  ASSUME NEW c \in Contexts, At(c), Gate, NEW p \in Pages, Lost(p)
  PROVE  Gate' /\ Unanswered
<1>1. PICK g : g = Page(p)
  OBVIOUS
<1>2. IsView(g, c) /\ Whole(g) /\ Same(g, g) /\ Clean(g.w, history.held)
  BY <1>1, PageIs, ViewIsWhole DEF At, Gate
<1>3. Becomes(p, SaveFails(g)) \/ Becomes(p, g)
  BY <1>1, Zenon DEF Lost
<1>4. PICK h : Same(g, h) /\ Becomes(p, h)
  BY <1>2, <1>3, HelpersSame
<1>5. Clean(h.w, history.held) /\ wire' = [wire EXCEPT ![p] = h.w]
  BY <1>2, <1>4, SameClean DEF Becomes
<1>6. UNCHANGED server /\ HeldStays /\ flight' = [flight EXCEPT ![p] = NoMessage]
  BY DEF Lost, HeldStays
<1>7. NoMessage.status \notin {"sent", "answered"}
  BY DEF NoMessage
<1> QED BY <1>5, <1>6, <1>7, GateKept

\* The script's part in a response leaves the component.
LEMMA MorphedSame ==
  ASSUME NEW g, Whole(g)
  PROVE  Same(g, Morphed(g)) /\ Whole(Morphed(g))
<1>1. PICK noted, pay, h :
        /\ noted = {e \in Entities : g.m.structural[e] # 0} /\ pay = DraftPayload(g.w.form)
        /\ h = [g EXCEPT
              !.m.structural = [e \in Entities |-> 0],
              !.m.newer = [e \in Entities |-> IF e \in noted /\ g.m.save # NoSave THEN pay ELSE @[e]],
              !.m.jobs = [e \in Entities |->
                IF e \in noted THEN Append(@[e], PersistJob(pay, g.m.structural[e], "structure"))
                ELSE @[e]]]
  OBVIOUS
<1>2. Same(g, h) /\ Whole(h)
  BY <1>1 DEF Same, Whole
<1>3. Morphed(g) = RecoveryDue(h)
  BY <1>1 DEF Morphed
<1> QED BY <1>2, <1>3, HelpersSame, SameTwice DEF Same

\* A form given up takes its notes in memory with it.
LEMMA ForgottenSame ==
  ASSUME NEW g, Whole(g), NEW e
  PROVE  Same(g, Forgotten(g, e)) /\ Whole(Forgotten(g, e))
<1>1. PICK h : h = [g EXCEPT
        !.m.timer[e] = NoTimer, !.m.rev[e] = 0, !.m.evRev[e] = 0, !.m.newer[e] = NoPayload,
        !.m.structural[e] = 0, !.m.attempts = {a \in @ : a.e # e}]
  OBVIOUS
<1>2. Same(g, h) /\ Whole(h)
  BY <1>1 DEF Same, Whole
<1>3. Forgotten(g, e) = Queued(h, e, [do |-> "wipe", plan |-> Unplanned])
  BY <1>1 DEF Forgotten
<1> QED BY <1>2, <1>3, HelpersSame, SameTwice DEF Same

\* The confirmation of a save is noted in memory, or counts at once.
LEMMA StartedSame ==
  ASSUME NEW g, Whole(g), NEW x, NEW key
  PROVE  Same(g, ConfirmStarts(g, x, key)) /\ Whole(ConfirmStarts(g, x, key))
<1>1. PICK a : a = AttemptOf(g, x.rid)
  OBVIOUS
<1>2. PICK task : task = [key |-> key, rid |-> x.rid, av |-> x.av, e |-> x.e, att |-> a,
                          phase |-> "read", match |-> 0, src |-> {}, kept |-> FALSE]
  OBVIOUS
<1>3. PICK h : h = [g EXCEPT !.m.conf = @ \cup {task}]
  OBVIOUS
<1>4. Same(g, h) /\ Whole(h) /\ Same(g, g)
  BY <1>3 DEF Same, Whole
<1>5. Same(g, ConfirmedWithoutStore(g, a)) /\ Whole(ConfirmedWithoutStore(g, a))
  <2>1. PICK k : k = [g EXCEPT !.m.attempts = @ \ {a}]
    OBVIOUS
  <2>2. Same(g, k) /\ Whole(k)
    BY <2>1 DEF Same, Whole
  <2>3. PICK n, u : \/ ConfirmedWithoutStore(g, a) = [k EXCEPT !.u = u]
                    \/ ConfirmedWithoutStore(g, a) = Counted(k, a.e, n, u)
    <3>1. \E n, u : \/ ConfirmedWithoutStore(g, a) = [k EXCEPT !.u = u]
                    \/ ConfirmedWithoutStore(g, a) = Counted(k, a.e, n, u)
      BY <2>1, Zenon DEF ConfirmedWithoutStore, Counted
    <3> QED BY <3>1
  <2>4. PICK y : y = [k EXCEPT !.u = u]
    OBVIOUS
  <2>5. PICK v : v = Counted(k, a.e, n, u)
    OBVIOUS
  <2>6. Same(k, y) /\ Same(k, v)
    BY <2>2, <2>4, <2>5 DEF Counted, Same, Whole
  <2>7. Same(g, y) /\ Whole(y) /\ Same(g, v) /\ Whole(v)
    BY <2>2, <2>6, SameTwice DEF Same
  <2> QED BY <2>3, <2>4, <2>5, <2>7
<1>6. ConfirmStarts(g, x, key) \in {h, g, ConfirmedWithoutStore(g, a)}
  BY <1>1, <1>2, <1>3, Zenon DEF ConfirmStarts
<1> QED BY <1>4, <1>5, <1>6

\* A response arrives: the component of the server, with the form of the browser.
LEMMA ArrivesGate ==
  ASSUME NEW c \in Contexts, At(c), Gate, NEW p \in Pages, Arrives(p)
  PROVE  Gate' /\ Unanswered
<1>1. PICK g : g = Page(p)
  OBVIOUS
<1>2. IsView(g, c) /\ Whole(g)
  BY <1>1, PageIs, ViewIsWhole DEF At
<1>3. PICK a : a = flight[p]
  OBVIOUS
<1>4. PICK rekeyed :
        Becomes(p, Released(g, Discarded(Notified(Received(g, a, rekeyed), a, clock + 1), a)))
  BY <1>1, <1>3, ZenonT(60) DEF Arrives, Released, Discarded, Notified, Received
<1>5. a.status = "answered" /\ a \in Flights(c)
  BY <1>3 DEF Arrives, At
<1>6. a.w \in Components(c) /\ Clean(a.w, history.held)
  BY <1>3, <1>5, ResponseParts DEF Gate
<1>7. PICK h : h = Merged(g, a, rekeyed)
  OBVIOUS
<1>8. Whole(h) /\ h.w.sel = a.w.sel /\ h.w.canon = a.w.canon /\ h.w.stat = a.w.stat
  BY <1>2, <1>6, <1>7 DEF Merged, Whole, Components
<1>9. PICK i : i = [h EXCEPT !.u = AfterMorph(@, a.w.sel, a.w.stat, online)]
  OBVIOUS
<1>10. Same(h, i) /\ Whole(i)
  BY <1>8, <1>9 DEF Same, Whole
<1>11. PICK j : j = Received(g, a, rekeyed)
  OBVIOUS
<1>12. Same(i, j) /\ Whole(j)
  <2>1. j = Morphed(i)
    BY <1>7, <1>9, <1>11, Zenon DEF Received
  <2> QED BY <1>10, <2>1, MorphedSame
<1>13. PICK k : k = Notified(j, a, clock + 1)
  OBVIOUS
<1>14. Same(j, k) /\ Whole(k)
  <2>1. Same(j, j)
    BY <1>12 DEF Same
  <2> QED BY <1>12, <1>13, <2>1, StartedSame DEF Notified
<1>15. PICK l : l = Discarded(k, a)
  OBVIOUS
<1>16. Same(k, l) /\ Whole(l)
  <2>1. Same(k, k)
    BY <1>14 DEF Same
  <2> QED BY <1>14, <1>15, <2>1, ForgottenSame DEF Discarded
<1>17. PICK r : r = Released(g, l)
  OBVIOUS
<1>18. Same(l, r) /\ Becomes(p, r)
  <2>1. Same(l, l) /\ Same(l, [l EXCEPT !.m.save = NoSave])
    BY <1>16 DEF Same, Whole
  <2>2. Same(l, r)
    BY <1>17, <2>1 DEF Released
  <2> QED BY <1>4, <1>11, <1>13, <1>15, <1>17, <2>2
<1>19. Same(h, r)
  BY <1>10, <1>12, <1>14, <1>16, <1>18, SameTwice
<1>20. Clean(r.w, history.held)
  BY <1>6, <1>8, <1>19 DEF Same, Clean
<1>21. wire' = [wire EXCEPT ![p] = r.w]
  BY <1>18 DEF Becomes
<1>22. UNCHANGED server /\ HeldStays /\ flight' = [flight EXCEPT ![p] = NoMessage]
  BY DEF Arrives, HeldStays, Gate
<1>23. NoMessage.status \notin {"sent", "answered"}
  BY DEF NoMessage
<1> QED BY <1>20, <1>21, <1>22, <1>23, GateKept

\* A page that shows the finding it did, or the server has the form it sent.
SavedFirst(p) ==
  /\ flight[p].status = "sent" /\ flight'[p].status = "answered"
  /\ flight[p].w.sel # Nothing
  /\ flight'[p].w.sel # flight[p].w.sel
  => server.shut \/ \E a \in history'.held : a.pay = flight[p].w.form.pay

\* The fields of a component that the gate is about.
Parted(w) == {"sel", "canon", "stat", "form", "pend", "ver"} \subseteq DOMAIN w

\* The server has held its contents and its journal, after the step too.
Holds ==
  /\ "held" \in DOMAIN history' /\ history.held \subseteq history'.held
  /\ \A e \in Entities : HeldBy(server'.content[e], history'.held)
  /\ \A r \in server'.journal : HeldBy(r.form.pay, history'.held)

\* What was clean stays clean when the server has held more.
LEMMA StaysClean ==
  ASSUME NEW w, NEW held, NEW more, held \subseteq more, Clean(w, held)
  PROVE  Clean(w, more)
BY DEF Clean, HeldBy

\* The component the server works on counts as saved only if the browser has
\* not changed it since.
LEMMA KnownClean ==
  ASSUME NEW w, Parted(w), NEW held, Clean(w, held)
  PROVE  /\ Clean(Known(w), held) /\ Parted(Known(w))
         /\ Known(w).sel = w.sel /\ Known(w).form = w.form /\ Known(w).canon = w.form
<1>1. PICK s : s = IF w.form # w.canon /\ w.stat # "conflict" THEN "unsaved" ELSE w.stat
  OBVIOUS
<1>2. PICK k : k = [w EXCEPT !.canon = w.form, !.ro = server.shut, !.stat = s]
  OBVIOUS
<1>3. Known(w) = k
  BY <1>1, <1>2 DEF Known, Parted
<1>4. k.sel = w.sel /\ k.form = w.form /\ k.canon = w.form /\ k.stat = s /\ Parted(k)
  BY <1>2 DEF Parted
<1>5. s = "saved" => w.stat = "saved" /\ w.form = w.canon
  BY <1>1
<1>6. Clean(k, held)
  BY <1>4, <1>5 DEF Clean
<1> QED BY <1>3, <1>4, <1>6

\* A component filled from the server.
LEMMA ReloadedClean ==
  ASSUME NEW w, Parted(w), Holds, NEW e \in Entities \cup {Nothing}
  PROVE  Clean(Reloaded(w, e), history'.held) /\ Parted(Reloaded(w, e)) /\ Reloaded(w, e).sel = e
<1>1. PICK f : f = IF e = Nothing THEN NoForm ELSE Form(server'.content[e], {})
  OBVIOUS
<1>2. PICK v : v = [w EXCEPT !.sel = e, !.form = f, !.canon = f, !.stat = "saved"]
  OBVIOUS
<1>3. Reloaded(w, e) = v
  BY <1>1, <1>2 DEF Reloaded
<1>4. v.sel = e /\ v.canon = f /\ Parted(v)
  BY <1>2 DEF Parted
<1>5. e # Nothing => f.pay = server'.content[e]
  BY <1>1 DEF Form
<1>6. Clean(v, history'.held)
  BY <1>4, <1>5 DEF Clean, Holds
<1> QED BY <1>3, <1>4, <1>6

\* What the user asked for, carried out, unless it is a structural click: only
\* a selection and the save that goes on show another finding.
LEMMA ActedClean ==
  ASSUME NEW c \in Contexts, NEW m \in Requests(c), m.kind # "structure", Holds,
         NEW w, Parted(w), Clean(w, history'.held), w.sel \in Entities \cup {Nothing}
  PROVE  /\ Clean(Acted(m, w), history'.held) /\ Parted(Acted(m, w))
         /\ m.kind \notin {"select", "next"} => Acted(m, w).sel = w.sel
<1>1. CASE m.kind = "select"
  <2>1. m.arg \in Entities \cup {Nothing}
    BY <1>1 DEF Requests
  <2> QED BY <1>1, <2>1, ReloadedClean DEF Acted
<1>2. CASE m.kind = "next"
  BY <1>2, AfterType, ReloadedClean DEF Acted
<1>3. CASE m.kind = "discard" /\ w.stat = "error" /\ ~ server.shut
  <2>1. PICK v : v = Reloaded(w, w.sel)
    OBVIOUS
  <2>2. Clean(v, history'.held) /\ Parted(v) /\ v.sel = w.sel
    BY <2>1, ReloadedClean
  <2>3. Acted(m, w) = [v EXCEPT !.pend = 0]
    BY <1>3, <2>1 DEF Acted
  <2>4. PICK z : z = [v EXCEPT !.pend = 0]
    OBVIOUS
  <2>5. z.sel = v.sel /\ z.canon = v.canon /\ z.stat = v.stat /\ Parted(z)
    BY <2>2, <2>4 DEF Parted
  <2>6. Clean(z, history'.held)
    BY <2>2, <2>5 DEF Clean
  <2> QED BY <1>3, <2>2, <2>3, <2>4, <2>5, <2>6
<1>4. CASE ~ \/ m.kind = "select"
             \/ m.kind = "next"
             \/ m.kind = "discard" /\ w.stat = "error" /\ ~ server.shut
             \/ m.kind = "structure" /\ ~ server.shut
  BY <1>4 DEF Acted
<1> QED BY <1>1, <1>2, <1>3, <1>4

\* The answer to a save that was applied, or had been before.
LEMMA SavedClean ==
  ASSUME NEW c \in Contexts, NEW m \in Requests(c), m.kind # "structure", Holds,
         NEW w, Parted(w), w.sel \in Entities \cup {Nothing}, NEW ver
  PROVE  Clean(SavedWire(m, w, ver), history'.held)
<1>1. PICK v : v = Reloaded(w, w.sel)
  OBVIOUS
<1>2. Clean(v, history'.held) /\ Parted(v) /\ v.sel = w.sel
  BY <1>1, ReloadedClean
<1>3. PICK z : z = Acted(m, v)
  OBVIOUS
<1>4. Clean(z, history'.held) /\ Parted(z)
  BY <1>2, <1>3, ActedClean
<1>5. PICK y : y = [z EXCEPT !.ver = ver, !.pend = 0]
  OBVIOUS
<1>6. y.sel = z.sel /\ y.canon = z.canon /\ y.stat = z.stat
  BY <1>4, <1>5 DEF Parted
<1>7. Clean(y, history'.held)
  BY <1>4, <1>6 DEF Clean
<1>8. SavedWire(m, w, ver) = y
  BY <1>1, <1>3, <1>5 DEF SavedWire
<1> QED BY <1>7, <1>8

\* The fields of a component of a context.
LEMMA PartsOf ==
  ASSUME NEW c \in Contexts, NEW w \in Components(c)
  PROVE  Parted(w) /\ w.sel \in Entities \cup {Nothing}
BY DEF Components, Parted

\* A clean answer keeps the gate.
LEMMA AnswerGate ==
  ASSUME NEW c \in Contexts, At(c), Gate, Holds, UNCHANGED wire, NEW p \in Pages,
         NEW m, NEW w, Clean(w, history'.held), NEW event, NEW dropped,
         Answer(p, m, w, event, dropped)
  PROVE  /\ Gate' /\ \A q \in Pages \ {p} : flight'[q] = flight[q]
         /\ flight'[p].status = "answered" => flight'[p].w = w
<1>1. PICK f : f = IF wire[p].on = "gone" THEN NoMessage
                   ELSE [status |-> "answered", kind |-> m.kind, sent |-> m.w, w |-> w,
                         event |-> event, dropped |-> dropped]
  OBVIOUS
<1>2. flight' = [flight EXCEPT ![p] = f]
  BY <1>1, Zenon DEF Answer
<1>3. f.status # "sent" /\ (f.status = "answered" => f.w = w)
  BY <1>1 DEF NoMessage
<1>4. \A q \in Pages : flight'[q] = IF q = p THEN f ELSE flight[q]
  BY <1>2 DEF At
<1>5. \A q \in Pages : Clean(wire'[q], history'.held)
  BY StaysClean DEF Gate, Holds
<1>6. ASSUME NEW q \in Pages, flight'[q].status \in {"sent", "answered"}
      PROVE  Clean(flight'[q].w, history'.held)
  <2>1. CASE q = p
    BY <1>3, <1>4, <1>6, <2>1
  <2>2. CASE q # p
    <3>1. flight'[q] = flight[q]
      BY <1>4, <2>2
    <3>2. Clean(flight[q].w, history.held)
      BY <1>6, <3>1 DEF Gate
    <3> QED BY <3>1, <3>2, StaysClean DEF Holds
  <2> QED BY <2>1, <2>2
<1>7. \A q \in Pages : flight'[q].status = "sent" => flight'[q].kind # "structure"
  BY <1>3, <1>4 DEF Gate
<1>8. Gate'
  BY <1>5, <1>6, <1>7 DEF Gate, Holds
<1> QED BY <1>3, <1>4, <1>8

\* Nothing changes on the server.
LEMMA HoldsStill ==
  ASSUME Gate, UNCHANGED server, UNCHANGED history
  PROVE  Holds
BY DEF Gate, Holds

\* A save is applied: the server holds the form that was sent, and what it
\* makes of it.
LEMMA HoldsApplied ==
  ASSUME NEW c \in Contexts, At(c), Gate, NEW p \in Pages, NEW w, NEW rid, Applied(p, w, rid)
  PROVE  Holds /\ HeldBy(w.form.pay, history'.held)
<1>1. PICK pay : pay = Numbered(w.form.pay, clock)
  OBVIOUS
<1>2. PICK v : v = server.ver + 1
  OBVIOUS
<1>3. PICK row : row = [rid |-> rid, e |-> w.sel, form |-> w.form, ver |-> v]
  OBVIOUS
<1>4. /\ server' = [server EXCEPT !.ver = @ + 1, !.content[w.sel] = pay,
                                  !.taken = @ \cup w.form.files, !.journal = @ \cup {row}]
      /\ history' = [history EXCEPT !.held = @ \cup {[tab |-> p, pay |-> w.form.pay, ver |-> v],
                                                     [tab |-> p, pay |-> pay, ver |-> v]}]
  BY <1>1, <1>2, <1>3, Zenon DEF Applied
<1>5. server \in Servers(c) /\ server.content \in [Entities -> Payloads(c)]
  BY DEF At, ServerAt, Servers
<1>6. "held" \in DOMAIN history
  BY DEF Gate
<1>7. PICK a, b : a = [tab |-> p, pay |-> w.form.pay, ver |-> v] /\ b = [tab |-> p, pay |-> pay, ver |-> v]
  OBVIOUS
<1>8. history'.held = history.held \cup {a, b} /\ "held" \in DOMAIN history'
  BY <1>4, <1>6, <1>7
<1>9. a.pay = w.form.pay /\ b.pay = pay
  BY <1>7
<1>10. HeldBy(w.form.pay, history'.held) /\ HeldBy(pay, history'.held)
  BY <1>8, <1>9 DEF HeldBy
<1>11. \A old : HeldBy(old, history.held) => HeldBy(old, history'.held)
  BY <1>8 DEF HeldBy
<1>12. /\ \A e \in Entities : server'.content[e] = pay \/ server'.content[e] = server.content[e]
       /\ server'.journal = server.journal \cup {row}
  BY <1>4, <1>5 DEF Servers
<1>13. \A e \in Entities : HeldBy(server'.content[e], history'.held)
  BY <1>10, <1>11, <1>12 DEF Gate
<1>14. \A r \in server'.journal : HeldBy(r.form.pay, history'.held)
  BY <1>3, <1>10, <1>11, <1>12 DEF Gate
<1> QED BY <1>8, <1>10, <1>13, <1>14 DEF Holds

\* The server answers a request.
LEMMA ServeGate ==
  ASSUME NEW c \in Contexts, At(c), Gate, NEW p \in Pages, Serve(p)
  PROVE  Gate' /\ \A q \in Pages : SavedFirst(q)
<1>1. PICK m : m = flight[p]
  OBVIOUS
<1>2. PICK w : w = Known(m.w)
  OBVIOUS
<1>3. PICK rid : rid = IF w.pend # 0 THEN w.pend ELSE clock + 1
  OBVIOUS
<1>4. m.status = "sent" /\ UNCHANGED wire /\ Served(p, m, w, rid)
  BY <1>1, <1>2, <1>3, ServeCases
<1>5. /\ m \in Requests(c) /\ m.kind # "structure" /\ Parted(m.w)
      /\ m.w.sel \in Entities \cup {Nothing} /\ Clean(m.w, history.held)
  BY <1>1, <1>4, RequestOf, PartsOf DEF At, Gate
<1>6. /\ Clean(w, history.held) /\ Parted(w) /\ w.sel \in Entities \cup {Nothing}
      /\ w.sel = m.w.sel /\ w.form = m.w.form /\ w.canon = m.w.form
  BY <1>2, <1>5, KnownClean
<1>7. ASSUME Holds, NEW v, Clean(v, history'.held), NEW event, NEW dropped,
             Answer(p, m, v, event, dropped),
             v.sel # m.w.sel /\ m.w.sel # Nothing
                => server.shut \/ HeldBy(m.w.form.pay, history'.held)
      PROVE  Gate' /\ \A q \in Pages : SavedFirst(q)
  <2>1. /\ Gate' /\ \A q \in Pages \ {p} : flight'[q] = flight[q]
        /\ flight'[p].status = "answered" => flight'[p].w = v
    BY <1>4, <1>7, AnswerGate
  <2>2. SavedFirst(p)
    BY <1>1, <1>7, <2>1 DEF SavedFirst, HeldBy
  <2>3. \A q \in Pages \ {p} : SavedFirst(q)
    BY <2>1 DEF SavedFirst
  <2> QED BY <2>1, <2>2, <2>3
<1>8. UNCHANGED server /\ UNCHANGED history => Holds /\ Clean(w, history'.held)
  BY <1>6, HoldsStill
<1>9. CASE /\ ~ NeedsSaving(m, w) /\ UNCHANGED server /\ UNCHANGED history
           /\ Answer(p, m, Acted(m, w), NoEvent, m.kind = "discard" /\ w.stat = "error")
  <2>1. PICK v : v = Acted(m, w)
    OBVIOUS
  <2>2. PICK dropped : dropped = (m.kind = "discard" /\ w.stat = "error")
    OBVIOUS
  <2>3. Answer(p, m, v, NoEvent, dropped)
    BY <1>9, <2>1, <2>2, Zenon
  <2>4. Clean(v, history'.held) /\ (m.kind \notin {"select", "next"} => v.sel = w.sel)
    BY <1>5, <1>6, <1>8, <1>9, <2>1, ActedClean
  <2>5. v.sel # m.w.sel /\ m.w.sel # Nothing
          => server.shut \/ HeldBy(m.w.form.pay, history'.held)
    <3>1. m.kind \in {"select", "next"} => m.kind = "select" /\ (m.w.sel # Nothing => server.shut \/ w.stat = "saved")
      BY <1>6, <1>9 DEF NeedsSaving
    <3>2. w.stat = "saved" /\ w.sel # Nothing => HeldBy(m.w.form.pay, history'.held)
      BY <1>6, <1>9 DEF Clean
    <3> QED BY <1>6, <2>4, <3>1, <3>2
  <2> QED BY <1>7, <1>8, <1>9, <2>3, <2>4, <2>5
<1>10. CASE UNCHANGED server /\ UNCHANGED history /\ Answer(p, m, w, NoEvent, FALSE)
  BY <1>6, <1>7, <1>8, <1>10
<1>11. CASE /\ ~ Declined(w) /\ Outcome(w, rid) = "applied" /\ Applied(p, w, rid)
            /\ Answer(p, m, SavedWire(m, w, server.ver + 1),
                      Confirmation(rid, w, server.ver + 1), FALSE)
  <2>1. Holds /\ HeldBy(m.w.form.pay, history'.held)
    BY <1>6, <1>11, HoldsApplied
  <2>2. PICK ver : ver = server.ver + 1
    OBVIOUS
  <2>3. PICK v : v = SavedWire(m, w, ver)
    OBVIOUS
  <2>4. PICK x : x = Confirmation(rid, w, ver)
    OBVIOUS
  <2>5. Answer(p, m, v, x, FALSE)
    BY <1>11, <2>2, <2>3, <2>4, Zenon
  <2>6. Clean(v, history'.held)
    BY <1>5, <1>6, <2>1, <2>3, SavedClean
  <2> QED BY <1>7, <2>1, <2>5, <2>6
<1>12. CASE /\ ~ Declined(w) /\ Outcome(w, rid) = "replayed" /\ UNCHANGED server /\ UNCHANGED history
            /\ Answer(p, m, SavedWire(m, w, JournalRow(rid).ver),
                      Confirmation(rid, w, JournalRow(rid).ver), FALSE)
  <2>1. PICK r \in server.journal : r.form = w.form
    BY <1>12 DEF Outcome
  <2>2. Holds /\ HeldBy(m.w.form.pay, history'.held)
    BY <1>6, <1>8, <1>12, <2>1 DEF Gate
  <2>3. PICK ver : ver = JournalRow(rid).ver
    OBVIOUS
  <2>4. PICK v : v = SavedWire(m, w, ver)
    OBVIOUS
  <2>5. PICK x : x = Confirmation(rid, w, ver)
    OBVIOUS
  <2>6. Answer(p, m, v, x, FALSE)
    BY <1>12, <2>3, <2>4, <2>5, Zenon
  <2>7. Clean(v, history'.held)
    BY <1>5, <1>6, <2>2, <2>4, SavedClean
  <2> QED BY <1>7, <2>2, <2>6, <2>7
<1>13. CASE /\ UNCHANGED server /\ UNCHANGED history
            /\ \E stat \in {"conflict", "error"} : Answer(p, m, Refused(w, stat), NoEvent, FALSE)
  <2>1. PICK stat \in {"conflict", "error"} : Answer(p, m, Refused(w, stat), NoEvent, FALSE)
    BY <1>13
  <2>2. PICK v : v = Refused(w, stat)
    OBVIOUS
  <2>3. v.sel = w.sel /\ Clean(v, history'.held)
    BY <1>6, <2>2 DEF Refused, Clean, Parted
  <2>4. Answer(p, m, v, NoEvent, FALSE)
    BY <2>1, <2>2, Zenon
  <2> QED BY <1>6, <1>7, <1>8, <1>13, <2>3, <2>4
<1> QED BY <1>4, <1>9, <1>10, <1>11, <1>12, <1>13, Zenon DEF Served

\* At the start every form is clean.
LEMMA GateStarts ==
  ASSUME Init
  PROVE  Gate
<1>1. "held" \in DOMAIN history /\ \A e \in Entities : HeldBy(server.content[e], history.held)
  <2>1. ASSUME NEW e \in Entities
        PROVE  HeldBy(server.content[e], history.held)
    <3>1. PICK a : a = [tab |-> Nothing, pay |-> InitialContent(e), ver |-> 1]
      OBVIOUS
    <3>2. a \in history.held
      BY <3>1 DEF Init, InitialHistory
    <3>3. server.content[e] = InitialContent(e)
      BY DEF Init, InitialServer
    <3> QED BY <3>1, <3>2, <3>3 DEF HeldBy
  <2> QED BY <2>1 DEF Init, InitialHistory
<1>2. \A r \in server.journal : HeldBy(r.form.pay, history.held)
  BY DEF Init, InitialServer
<1>3. \A p \in Pages : wire[p].sel = Nothing /\ flight[p].status = "none"
  BY DEF Init, NoPage, NoMessage
<1> QED BY <1>1, <1>2, <1>3 DEF Gate, Clean

\* Another user saves, or completes the assessment.
LEMMA OthersGate ==
  ASSUME NEW c \in Contexts, At(c), Gate, Finish \/ \E e \in Entities : ForeignSave(e)
  PROVE  Gate' /\ Unanswered
<1>1. UNCHANGED <<wire, flight>>
  BY DEF Finish, ForeignSave
<1>2. server \in Servers(c)
  BY DEF At, ServerAt
<1>3. CASE Finish
  <2>1. UNCHANGED history /\ server'.content = server.content /\ server'.journal = server.journal
    BY <1>2, <1>3 DEF Finish, Servers
  <2> QED BY <1>1, <2>1 DEF Gate, Unanswered
<1>4. ASSUME NEW e \in Entities, ForeignSave(e)
      PROVE  Gate' /\ Unanswered
  <2>1. PICK pay : pay = [server.content[e] EXCEPT !.n = clock + 1]
    OBVIOUS
  <2>2. PICK a : a = [tab |-> Nothing, pay |-> pay, ver |-> server.ver + 1]
    OBVIOUS
  <2>3. /\ server' = [server EXCEPT !.ver = @ + 1, !.content[e] = pay]
        /\ history' = [history EXCEPT !.held = @ \cup {a}]
    BY <1>4, <2>1, <2>2, Zenon DEF ForeignSave
  <2>4. /\ server'.journal = server.journal
        /\ \A x \in Entities : server'.content[x] = pay \/ server'.content[x] = server.content[x]
    BY <1>2, <2>3 DEF Servers
  <2>5. history'.held = history.held \cup {a} /\ "held" \in DOMAIN history'
    BY <2>3 DEF Gate
  <2>6. /\ HeldBy(pay, history'.held) /\ history.held \subseteq history'.held
        /\ \A old : HeldBy(old, history.held) => HeldBy(old, history'.held)
    BY <2>2, <2>5 DEF HeldBy
  <2>7. /\ \A x \in Entities : HeldBy(server'.content[x], history'.held)
        /\ \A r \in server'.journal : HeldBy(r.form.pay, history'.held)
    BY <2>4, <2>6 DEF Gate
  <2>8. \A w : Clean(w, history.held) => Clean(w, history'.held)
    BY <2>6 DEF Clean
  <2> QED BY <1>1, <2>5, <2>7, <2>8 DEF Gate, Unanswered
<1> QED BY <1>3, <1>4

\* Nothing that the gate is about changes.
LEMMA GateStill ==
  ASSUME Gate, UNCHANGED <<server, wire, flight, history>>
  PROVE  Gate' /\ Unanswered
BY DEF Gate, Unanswered

\* Every step keeps the gate, and shows another finding only through it.
LEMMA GateStays ==
  ASSUME \A p \in Pages : "structure" \notin Happens[p], DInv, Gate, [Next]_vars
  PROVE  Gate' /\ \A q \in Pages : SavedFirst(q)
<1>1. PICK c \in Contexts : At(c)
  BY DEF DInv
<1>2. Unanswered => \A q \in Pages : SavedFirst(q)
  BY DEF Unanswered, SavedFirst
<1>3. CASE UNCHANGED vars \/ Disconnect \/ Reconnect
  BY <1>2, <1>3, GateStill DEF vars, Disconnect, Reconnect
<1>4. CASE Finish \/ \E e \in Entities : ForeignSave(e)
  BY <1>1, <1>2, <1>4, OthersGate
<1>5. ASSUME NEW p \in Pages, Network(p)
      PROVE  Gate' /\ \A q \in Pages : SavedFirst(q)
  BY <1>1, <1>2, <1>5, ServeGate, ArrivesGate, LostGate DEF Network
<1>6. ASSUME NEW p \in Pages, Script(p) \/ Breakdown(p)
      PROVE  Gate' /\ Unanswered
  <2>1. ASSUME NEW e \in Entities,
               JobReads(p, e) \/ JobWrites(p, e) \/ JobFails(p, e) \/ TimerFires(p, e)
        PROVE  Gate' /\ Unanswered
    BY <1>1, <2>1, JobsSteady, SteadyKeeps
  <2>2. ASSUME NEW task \in mem[p].conf,
               \/ ConfirmReads(p, task) \/ ConfirmMarks(p, task)
               \/ ConfirmEnds(p, task) \/ ConfirmFails(p, task)
        PROVE  Gate' /\ Unanswered
    BY <1>1, <2>2, ConfirmSteady, SteadyKeeps
  <2>3. CASE RecoveryReads(p) \/ RecoveryEnds(p) \/ RecoveryFails(p) \/ DropEnds(p) \/ DropFails(p)
    BY <1>1, <2>3, RecoverySteady, SteadyKeeps
  <2>4. CASE SaveLeaves(p)
    BY <1>1, <2>4, RequestGate
  <2> QED BY <1>6, <2>1, <2>2, <2>3, <2>4, Zenon DEF Script, Breakdown
<1>7. ASSUME NEW p \in Pages, User(p)
      PROVE  Gate' /\ Unanswered
  <2>1. CASE Open(p) \/ Leave(p)
    BY <1>1, <2>1, ComeAndGo
  <2>2. CASE Type(p) \/ Attach(p) \/ Restore(p) \/ \E how \in Intercepted : SaveStarts(p, how)
    BY <1>1, <2>2, EditSteady, SteadyKeeps
  <2>3. CASE Close(p) \/ Report(p) \/ Discard(p) \/ \E e \in Entities : Select(p, e)
    BY <1>1, <2>3, RequestGate
  <2>4. CASE Drop(p)
    BY <1>1, <2>4, RecoverySteady, SteadyKeeps
  <2>5. \A sol : ~ Restructure(p, sol)
    BY DEF Restructure, Spend
  <2> QED BY <1>7, <2>1, <2>2, <2>3, <2>4, <2>5, Zenon DEF User
<1> QED BY <1>2, <1>3, <1>4, <1>5, <1>6, <1>7, Zenon DEF Next

\* No finding is shown in place of another before the server has had the form
\* that was sent with the request, or the assessment is closed: whatever was
\* typed while requests were under way, whatever was refused, replayed, lost
\* or restored from a draft (persistCurrentWorkspaceStateBeforeAction).  The
\* hypothesis leaves the structural clicks out: they change form and canonical
\* form at once, so the component goes on saying that it is saved.
THEOREM GateHolds ==
  ASSUME \A p \in Pages : "structure" \notin Happens[p]
  PROVE  Spec => DirtyFormIsSavedFirst
<1>1. Init => Gate
  BY GateStarts
<1>2. DInv /\ Gate /\ [Next]_vars => Gate'
  BY GateStays
<1>3. DInv /\ Gate /\ [Next]_vars =>
        [\A p \in Pages :
           /\ flight[p].status = "sent" /\ flight'[p].status = "answered"
           /\ flight[p].w.sel # Nothing
           /\ flight'[p].w.sel # flight[p].w.sel
           => server.shut \/ \E a \in history'.held : a.pay = flight[p].w.form.pay]_vars
  BY GateStays DEF SavedFirst
<1> QED BY <1>1, <1>2, <1>3, DraftsSound, PTL DEF Spec, DirtyFormIsSavedFirst
=============================================================================
