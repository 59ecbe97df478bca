-------------------------- MODULE WorkspaceDrafts --------------------------
(***************************************************************************)
(* The browser side of the workspace: the two scripts that keep drafts of  *)
(* unsaved forms in IndexedDB and tell the user about them, the Livewire   *)
(* component they work on, and the requests it sends.                      *)
(*                                                                         *)
(* A page is one load of the workspace: it gets a tab id of its own, and   *)
(* its memory dies with it while IndexedDB and requests under way live on. *)
(*                                                                         *)
(* The scripts run on one thread, so what happens between two awaits is    *)
(* one step.  Changes of a draft are queued per finding and tab; a queued  *)
(* change ("job") reads the store, decides, and writes, as two steps.  The *)
(* completion of an IndexedDB transaction and the code awaiting it are one *)
(* step.                                                                   *)
(*                                                                         *)
(* The server is reduced to what one save makes of the assessment; its     *)
(* lock, journal and lifecycle are the subject of AssessmentStore.         *)
(***************************************************************************)
EXTENDS DraftRecords, WorkspaceStatus, Sequences

CONSTANTS
  Pages,     \* page loads
  Order,     \* the findings in display order, a sequence
  Nothing,   \* no finding selected
  Entries,   \* bound: the findings a page is opened with
  Happens,   \* bound: the kinds of outside events that happen to each page, and
             \* under Nothing to the server and the connection
  Budget     \* bound: how many of them happen

Entities == {Order[i] : i \in DOMAIN Order}

Events == {"type", "structure", "attach", "save", "next", "select", "close", "discard",
           "live", "restore", "drop", "foreign", "finish", "offline", "leave", "invalid",
           "loss", "breakdown"}

ASSUME DraftsAssumption ==
  /\ Order \in Seq(Entities)
  /\ \A i, j \in DOMAIN Order : Order[i] = Order[j] => i = j
  /\ Nothing \notin Entities
  /\ Entities # {}
  /\ Entries \subseteq Entities
  /\ Happens \in [Pages \cup {Nothing} -> SUBSET Events]
  /\ Budget \in [Pages \cup {Nothing} -> Nat]

VARIABLES
  server,  \* version, contents, journal, whether closed, uploads already used up
  db,      \* the drafts in IndexedDB
  wire,    \* page -> its Livewire component
  mem,     \* page -> the memory of the drafts script
  ui,      \* page -> the status label and the entity states
  flight,  \* page -> the request under way
  online,  \* navigator.onLine
  spent,   \* how many outside events each page has seen
  clock,   \* source of identifiers, timestamps and edit numbers
  history  \* history: payloads the server held or took, drafts given up

vars == <<server, db, wire, mem, ui, flight, online, spent, clock, history>>

NoTimer == [pay |-> NoPayload, base |-> 0]
NoShown == [draft |-> NoDraft]
NoSave == [phase |-> "none"]
NoAttempt == [rid |-> 0]
NoRun == [e |-> Nothing, base |-> 0]
NoMessage == [status |-> "none"]
Unplanned == [tag |-> "unplanned"]
NoForm == Form(Payload(Nothing, 0, <<>>), {})

FreshMemory ==
  [active |-> [e \in Entities |-> 0], timer |-> [e \in Entities |-> NoTimer],
   rev |-> [e \in Entities |-> 0], evRev |-> [e \in Entities |-> 0],
   attempts |-> {}, newer |-> [e \in Entities |-> NoPayload],
   structural |-> [e \in Entities |-> 0], shown |-> NoShown, broken |-> FALSE,
   jobs |-> [e \in Entities |-> <<>>], save |-> NoSave, conf |-> {},
   due |-> FALSE, run |-> NoRun, tail |-> NoRun]

NoPage ==
  [on |-> "new", sel |-> Nothing, form |-> NoForm, canon |-> NoForm, ver |-> 0,
   stat |-> "saved", pend |-> 0, ro |-> FALSE]

-----------------------------------------------------------------------------
(* A page in one value: component, memory, status *)

Page(p) == [w |-> wire[p], m |-> mem[p], u |-> ui[p]]

Becomes(p, g) ==
  /\ wire' = [wire EXCEPT ![p] = g.w]
  /\ mem' = [mem EXCEPT ![p] = g.m]
  /\ ui' = [ui EXCEPT ![p] = g.u]

Spend(p, event) ==
  /\ event \in Happens[p]
  /\ spent[p] < Budget[p]
  /\ spent' = [spent EXCEPT ![p] = @ + 1]

Tick(n) == clock' = clock + n

IsOpen(p) == wire[p].on = "open"
Editable(p) == IsOpen(p) /\ wire[p].sel # Nothing /\ ~ wire[p].ro

\* queueDraftMutation: jobs of one finding run one after the other.
Queued(g, e, job) == [g EXCEPT !.m.jobs[e] = Append(@, job)]

PersistJob(pay, base, by) ==
  [do |-> "persist", pay |-> pay, base |-> base, by |-> by, plan |-> Unplanned]
DraftJob(do, draft) == [do |-> do, draft |-> draft, plan |-> Unplanned]

PutPlan(d) == [tag |-> "put", put |-> d]

\* The job that takes the mark of an attempt back.
UnmarkJob(d) == [do |-> "unmark", plan |-> PutPlan(Unattempted(d))]

\* queueRecovery
RecoveryDue(g) == [g EXCEPT !.m.due = TRUE]

\* showStorageFailure: the page uses IndexedDB no more.
Failure(g) ==
  LET u == WithLabel(g.u, "storage_error") IN
  [g EXCEPT !.m.broken = TRUE, !.m.shown = NoShown,
            !.u = IF g.w.sel = Nothing THEN u
                  ELSE OnFailed(u, g.w.sel, g.w.sel, online)]

\* A storage request fails, the first time for a reason outside.
MayFail(p) ==
  IF mem[p].broken THEN UNCHANGED spent ELSE Spend(p, "breakdown")

-----------------------------------------------------------------------------
(* Opening, editing and leaving a page *)

Filled(w, e) ==
  LET form == IF e = Nothing THEN NoForm ELSE Form(server.content[e], {}) IN
  [w EXCEPT !.sel = e, !.form = form, !.canon = form, !.stat = "saved"]

\* A new load: mount() with the finding of the URL, and the scripts start.
Open(p) ==
  /\ wire[p].on = "new"
  /\ \E e \in Entries :
       Becomes(p, RecoveryDue(
         [w |-> Filled([NoPage EXCEPT !.on = "open", !.ver = server.ver,
                                      !.ro = server.shut], e),
          m |-> FreshMemory, u |-> NewStatus(Entities, "saved")]))
  /\ UNCHANGED <<server, db, flight, online, spent, clock, history>>

\* The user leaves, or the browser dies: memory is lost.
Leave(p) ==
  /\ IsOpen(p)
  /\ Spend(p, "leave")
  /\ Becomes(p, [w |-> [NoPage EXCEPT !.on = "gone"], m |-> FreshMemory,
                 u |-> NewStatus(Entities, "saved")])
  /\ flight' = [flight EXCEPT ![p] = IF @.status = "sent" THEN @ ELSE NoMessage]
  /\ UNCHANGED <<server, db, online, clock, history>>

\* What an edit during a save leaves for the confirmation.
Newer(g, e, pay) == IF g.m.save = NoSave THEN g ELSE [g EXCEPT !.m.newer[e] = pay]

\* input or change in a field that drafts keep: scheduleDraftWrite, which
\* restarts the timer, and markWorkspaceDirty.
Type(p) ==
  LET g == Page(p)
      e == g.w.sel
      pay == [DraftPayload(g.w.form) EXCEPT !.n = clock + 1]
  IN
  /\ Editable(p)
  /\ Spend(p, "type")
  /\ Tick(1)
  /\ Becomes(p, Newer([g EXCEPT !.w.form.pay = pay,
                                !.m.rev[e] = @ + 1,
                                !.m.timer[e] = [pay |-> pay, base |-> g.w.ver],
                                !.u = OnInput(@, e, FALSE, online)], e, pay))
  /\ UNCHANGED <<server, db, flight, online, history>>

\* A file chosen or pasted: it waits on the form and no draft keeps it.
Attach(p) ==
  LET g == Page(p)
      e == g.w.sel
  IN
  /\ Editable(p)
  /\ Spend(p, "attach")
  /\ Tick(1)
  /\ Becomes(p, [g EXCEPT !.w.form.files = @ \cup {clock + 1},
                          !.m.evRev[e] = @ + 1,
                          !.u = OnInput(@, e, TRUE, online)])
  /\ UNCHANGED <<server, db, flight, online, history>>

\* The debounce timer fires.
TimerFires(p, e) ==
  LET g == Page(p)
      t == g.m.timer[e]
  IN
  /\ t # NoTimer
  /\ Becomes(p, Queued([g EXCEPT !.m.timer[e] = NoTimer], e,
                       PersistJob(t.pay, t.base, "timer")))
  /\ UNCHANGED <<server, db, flight, online, spent, clock, history>>

-----------------------------------------------------------------------------
(* Explicit saves: persist, mark the attempt, compare, send *)

\* The submissions the script takes over: the form, and the button that goes
\* on to the next finding.
Intercepted == {"save", "next"}

\* saveThroughLivewire, up to its first await.
SaveStarts(p, how) ==
  LET g == Page(p)
      e == g.w.sel
      pay == DraftPayload(g.w.form)
  IN
  /\ Editable(p)
  /\ g.m.save = NoSave
  /\ Spend(p, how)
  /\ Becomes(p, Queued([g EXCEPT
       !.m.timer[e] = NoTimer,
       !.m.save = [phase |-> "persist", how |-> how, e |-> e, base |-> g.w.ver, pay |-> pay,
                   draft |-> NoDraft, rid |-> 0, tries |-> 0]],
       e, PersistJob(pay, g.w.ver, "save")))
  /\ UNCHANGED <<server, db, flight, online, clock, history>>

SaveEnds(g, label) ==
  [g EXCEPT !.u = WithLabelFor(@, g.m.save.e, g.w.sel, label), !.m.save = NoSave]

\* Broken: a failed save is reported, and the next one is not let in.
SaveFailsUnreleased(g) ==
  [g EXCEPT !.u = WithLabelFor(@, g.m.save.e, g.w.sel, "storage_error")]

\* The outer catch.
SaveFails(g) ==
  SaveEnds(g, IF ~ online THEN "offline"
              ELSE IF g.m.save.draft = NoDraft THEN "storage_error" ELSE "local")

\* pendingAttempts.set and $wire.$set of the pending request UUID.
AttemptedNow(g, pay, id, rid) ==
  LET e == g.m.save.e IN
  [g EXCEPT !.m.attempts = {a \in @ : a.rid # rid} \cup
     {[rid |-> rid, e |-> e, id |-> id, pay |-> pay,
       rev |-> g.m.rev[e], evRev |-> g.m.evRev[e]]},
     !.w.pend = rid, !.m.save.rid = rid]

\* After the first persist.
AfterPersist(g, d) ==
  LET h == [g EXCEPT !.m.save.draft = d] IN
  IF ~ online THEN SaveEnds(h, "offline")
  ELSE Queued([h EXCEPT !.m.save.phase = "mark"], g.m.save.e, DraftJob("mark", d))

\* The first persist failed: the save goes on without a draft.
WithoutDraft(g, rid) ==
  IF ~ online THEN SaveEnds(g, "storage_error")
  ELSE [AttemptedNow(g, g.m.save.pay, 0, rid) EXCEPT !.m.save.phase = "ready"]

\* The form must still hold what the attempt was marked with.
AfterMark(g) ==
  LET s == g.m.save
      latest == DraftPayload(g.w.form)
  IN
  IF latest = s.pay THEN [g EXCEPT !.m.save.phase = "ready"]
  ELSE Queued([g EXCEPT !.m.attempts = {a \in @ : a.rid # s.rid},
                        !.m.save.pay = latest, !.m.save.phase = "repersist",
                        !.m.save.tries = @ + 1],
              s.e, PersistJob(latest, s.base, "save"))

Preparations == 3

\* Persisted again because the form had changed: mark again, or give up.
AfterRepersist(g, d) ==
  LET s == g.m.save
      h == [g EXCEPT !.m.save.draft = d]
  IN
  IF s.tries < Preparations
  THEN Queued([h EXCEPT !.m.save.phase = "mark"], s.e, DraftJob("mark", d))
  ELSE Queued([h EXCEPT !.m.save.phase = "unmark"], s.e, UnmarkJob(d))

\* $wire.$call: Livewire sends one request of a component at a time, with the
\* form as it is when the request leaves.
SaveLeaves(p) ==
  LET g == Page(p) IN
  /\ g.m.save.phase = "ready"
  /\ flight[p] = NoMessage
  /\ Becomes(p, [g EXCEPT !.m.save.phase = "sent"])
  /\ flight' = [flight EXCEPT ![p] =
       [status |-> "sent", kind |-> g.m.save.how, arg |-> g.w.sel, w |-> g.w]]
  /\ UNCHANGED <<server, db, online, spent, clock, history>>

-----------------------------------------------------------------------------
(* Jobs *)

\* What a confirmation does to its draft, decided when the draft is read.
ConfirmPlan(g, p, job, t) ==
  LET c == job.task
      d == FindDraft(db, c.match)
      newerRev == c.att # NoAttempt /\ g.m.rev[d.e] > c.att.rev
      latest == IF g.m.newer[d.e] # NoPayload THEN g.m.newer[d.e]
                ELSE IF newerRev /\ g.w.sel = d.e THEN DraftPayload(g.w.form)
                ELSE NoPayload
      src == IF d.src # 0 /\ c.att # NoAttempt
             THEN {[id |-> d.src, at |-> d.srcAt, pay |-> c.att.pay]} ELSE {}
  IN
  IF d = NoDraft THEN [tag |-> "none", src |-> {}]
  ELSE IF newerRev /\ latest # NoPayload /\ latest # d.pay
  THEN [tag |-> "continue", put |-> Continued(d, latest, c.av, t), src |-> src]
  ELSE IF d.att = c.rid /\ d.req # c.rid
  THEN [tag |-> "rebase", put |-> Rebased(d, c.av), src |-> src]
  ELSE IF d.req = c.rid
  THEN [tag |-> "remove", del |-> {d.id}, src |-> src]
  ELSE [tag |-> "none", src |-> src]

\* The job at the head of a queue reads what it needs and decides what to write.
JobReads(p, e) ==
  LET g == Page(p)
      job == Head(g.m.jobs[e])
      t == clock + 1
      planned(plan) == [g EXCEPT !.m.jobs[e][1].plan = plan]
      known == ActiveDraft(db, p, e, g.m.active[e])
      marked == FindDraft(db, job.draft.id)
  IN
  /\ g.m.jobs[e] # <<>>
  /\ job.plan = Unplanned
  /\ ~ g.m.broken
  /\ \/ /\ job.do = "persist"
        /\ Becomes(p, [planned(PutPlan(IF known = NoDraft
                                       THEN NewDraft(p, e, job.pay, job.base, t)
                                       ELSE Rewritten(known, job.pay, t)))
                       EXCEPT !.m.active[e] = known.id])
        /\ Tick(1)
     \/ /\ job.do = "mark"
        /\ Becomes(p, planned(PutPlan(Attempted(IF marked # NoDraft THEN marked
                                                ELSE job.draft))))
        /\ UNCHANGED clock
     \/ /\ job.do = "confirm"
        /\ LET plan == ConfirmPlan(g, p, job, t) IN
           /\ Becomes(p, planned(plan))
           /\ IF plan.tag = "continue" THEN Tick(1) ELSE UNCHANGED clock
     \/ /\ job.do = "wipe"
        /\ Becomes(p, planned([tag |-> "del", del |-> {d.id : d \in OwnDrafts(db, p, e)}]))
        /\ UNCHANGED clock
  /\ UNCHANGED <<server, db, flight, online, spent, history>>

\* The draft goes on after the confirmation.
Keeps(plan) == plan.tag \in {"continue", "rebase"}

\* The state of the tasks once a confirmation has treated its draft.
Treated(g, task, plan) ==
  [g EXCEPT !.m.conf = (@ \ {task}) \cup
     {[task EXCEPT !.phase = IF plan.src = {} THEN "final" ELSE "sources",
                   !.src = plan.src, !.kept = Keeps(plan)]},
   !.m.newer[task.e] = IF Keeps(plan) THEN NoPayload ELSE @,
   !.m.active[task.e] = IF plan.tag = "continue" THEN plan.put.id
                        ELSE IF plan.tag = "remove" /\ plan.del = {@} THEN 0 ELSE @,
   !.m.shown = IF plan.tag = "remove" /\ @.draft.id \in plan.del THEN NoShown ELSE @]

\* What follows the write of a job: an edit is kept,
Persisted(g, e, job) ==
  [g EXCEPT !.m.active[e] = job.plan.put.id,
            !.u = OnPersisted(@, e, job.plan.put.base # job.base, FALSE, g.w.sel, online)]

\* a draft of another tab is this tab's, and shown as restored,
AdoptedIn(g, e, job) ==
  [g EXCEPT
    !.m.active[e] = job.plan.put.id, !.m.rev[e] = @ + 1,
    !.m.shown = [draft |-> job.plan.put, e |-> e, restored |-> TRUE, stale |-> job.stale],
    !.u = WithLabel(OnRestored(@, e, job.stale, g.w.sel, online),
                    IF ~ online THEN "offline" ELSE IF job.stale THEN "stale" ELSE "local")]

\* or the drafts of a finding whose form was given up are gone.
WipedIn(g, e) ==
  [g EXCEPT
    !.m.active[e] = 0,
    !.m.shown = IF @.draft # NoDraft /\ @.e = e THEN NoShown ELSE @,
    !.u = OnClean(@, e, TRUE, g.w.sel, online)]

AfterJob(g, e, job) ==
  LET d == job.plan.put IN
  CASE job.do = "persist" /\ job.by # "save" -> Persisted(g, e, job)
    [] job.do = "persist" /\ job.by = "save" /\ g.m.save.phase = "persist" ->
         AfterPersist(Persisted(g, e, job), d)
    [] job.do = "persist" /\ job.by = "save" /\ g.m.save.phase = "repersist" ->
         AfterRepersist(Persisted(g, e, job), d)
    [] job.do = "mark" ->
         AfterMark(AttemptedNow([g EXCEPT !.m.save.draft = d], d.pay, d.id, d.req))
    [] job.do = "unmark" -> SaveEnds([g EXCEPT !.w.pend = 0], "local")
    [] job.do = "adopt" -> AdoptedIn(g, e, job)
    [] job.do = "confirm" -> Treated(g, job.task, job.plan)
    [] job.do = "wipe" -> RecoveryDue(WipedIn(g, e))

JobWrites(p, e) ==
  LET g == Page(p)
      job == Head(g.m.jobs[e])
      plan == job.plan
  IN
  /\ g.m.jobs[e] # <<>>
  /\ plan # Unplanned
  /\ ~ g.m.broken
  /\ db' = IF plan.tag \in {"put", "continue", "rebase"} THEN Put(db, plan.put)
           ELSE IF plan.tag \in {"del", "remove"} THEN Without(db, plan.del)
           ELSE db
  /\ Becomes(p, AfterJob([g EXCEPT !.m.jobs[e] = Tail(@)], e, job))
  /\ UNCHANGED <<server, flight, online, spent, clock, history>>

\* A storage request of the job fails.
AfterFailedJob(g, job, rid) ==
  LET s == g.m.save IN
  CASE job.do = "persist" /\ job.by = "save" /\ s.phase = "persist" ->
         WithoutDraft(Failure(g), rid)
    [] job.do = "persist" /\ job.by = "save" /\ s.phase = "repersist" -> SaveFails(g)
    [] job.do = "mark" ->
         AfterMark(AttemptedNow(Failure(g), job.draft.pay, job.draft.id, job.draft.req))
    [] job.do = "unmark" -> SaveFails(g)
    [] job.do = "confirm" -> Failure([g EXCEPT !.m.conf = @ \ {job.task}])
    [] OTHER -> Failure(g)

\* Broken: a queue does not go on after a failure.
JobFailsHalts(p, e) ==
  LET g == Page(p) IN
  /\ g.m.jobs[e] # <<>>
  /\ Head(g.m.jobs[e]).do # "halted"
  /\ MayFail(p)
  /\ Becomes(p, Failure([g EXCEPT !.m.jobs[e][1] = [do |-> "halted", plan |-> [tag |-> "halted"]]]))
  /\ UNCHANGED <<server, db, flight, online, clock, history>>

JobFails(p, e) ==
  LET g == Page(p)
      job == Head(g.m.jobs[e])
  IN
  /\ g.m.jobs[e] # <<>>
  /\ MayFail(p)
  /\ Becomes(p, AfterFailedJob([g EXCEPT !.m.jobs[e] = Tail(@)], job, clock + 1))
  /\ Tick(1)
  /\ UNCHANGED <<server, db, flight, online, history>>

-----------------------------------------------------------------------------
(* Confirmations of the server: assestme-server-save-confirmed *)

\* In a page that has given up IndexedDB only the memory is brought up to date.
ConfirmedWithoutStore(g, a) ==
  LET kept == g.m.evRev[a.e] > a.evRev
      h == [g EXCEPT !.m.attempts = @ \ {a}]
  IN
  IF g.m.rev[a.e] > a.rev
  THEN [h EXCEPT !.u = WithLabelFor(@, a.e, g.w.sel, "storage_error")]
  ELSE [h EXCEPT !.m.rev[a.e] = 0, !.m.newer[a.e] = NoPayload,
                 !.m.evRev[a.e] = IF kept THEN @ ELSE 0,
                 !.u = OnClean(@, a.e, ~ kept, g.w.sel, online)]

AttemptOf(g, rid) ==
  IF \E a \in g.m.attempts : a.rid = rid THEN CHOOSE a \in g.m.attempts : a.rid = rid
  ELSE NoAttempt

\* handleServerConfirmation, up to its first await.  The key tells two
\* confirmations of one save apart.
ConfirmStarts(g, c, key) ==
  LET a == AttemptOf(g, c.rid) IN
  IF ~ g.m.broken
  THEN [g EXCEPT !.m.conf = @ \cup
         {[key |-> key, rid |-> c.rid, av |-> c.av, e |-> c.e, att |-> a, phase |-> "read",
           match |-> 0, src |-> {}, kept |-> FALSE]}]
  ELSE IF a = NoAttempt THEN g ELSE ConfirmedWithoutStore(g, a)

\* The drafts that carry the request UUID are looked up.
ConfirmReads(p, task) ==
  LET g == Page(p)
      ms == Matching(db, p, task.e, task.rid)
      seen == [task EXCEPT !.phase = IF ms = {} THEN "final" ELSE "job",
                           !.match = IF ms = {} THEN 0 ELSE Newest(ms).id]
      h == [g EXCEPT !.m.conf = (@ \ {task}) \cup {seen}]
  IN
  /\ task.phase = "read"
  /\ ~ g.m.broken
  /\ Becomes(p, IF ms = {} THEN h
                ELSE Queued(h, task.e, [do |-> "confirm", task |-> seen, plan |-> Unplanned]))
  /\ UNCHANGED <<server, db, flight, online, spent, clock, history>>

\* The draft of another tab that was restored and has now been saved is marked.
ConfirmMarks(p, task) ==
  LET g == Page(p)
      src == CHOOSE s \in task.src : TRUE
  IN
  /\ task.phase = "sources"
  /\ ~ g.m.broken
  /\ db' = SourceMarked(db, src, task.av)
  /\ Becomes(p, [g EXCEPT !.m.conf = (@ \ {task}) \cup {[task EXCEPT !.phase = "final"]}])
  /\ UNCHANGED <<server, flight, online, spent, clock, history>>

\* The draft of the tab still holds what the user last did to the finding.
HoldsLatest(g, e, active, newerRev) ==
  /\ active # NoDraft
  /\ IF g.w.sel = e THEN active.pay = DraftPayload(g.w.form)
     ELSE ~ newerRev \/ active.pay = g.m.newer[e]

\* Broken: whatever was confirmed, the finding counts as saved.
ConcludedClean(g, e, task, active, unprotected, clear) ==
  [g EXCEPT !.m.rev[e] = 0, !.m.newer[e] = NoPayload,
            !.u = OnClean(@, e, clear, g.w.sel, online)]

\* What the user is told at the end of a confirmation.
Concluded(g, e, task, active, unprotected, clear) ==
  IF unprotected THEN [g EXCEPT !.u = OnDirty(@, e, clear, g.w.sel, online)]
  ELSE LET h == [g EXCEPT !.m.rev[e] = 0, !.m.newer[e] = NoPayload] IN
       IF active # NoDraft
       THEN [h EXCEPT !.u =
              LET u == OnPersisted(@, e, active.base # task.av, clear, g.w.sel, online) IN
              IF task.kept THEN WithLabelFor(u, e, g.w.sel, "local") ELSE u]
       ELSE [h EXCEPT !.u = OnClean(@, e, clear, g.w.sel, online)]

\* The finding a confirmation was about, as far as the page can tell.
ConfirmedEntity(task) ==
  IF task.att # NoAttempt THEN task.att.e ELSE IF task.match # 0 THEN task.e ELSE Nothing

\* The request UUID a message brings to the server, or back as confirmed.
Carried(f) ==
  CASE f.status = "sent" -> f.w.pend [] f.status = "answered" -> f.event.rid [] OTHER -> 0

\* Another attempt to save the finding may still be confirmed: the count of its
\* evidence is about to be reset under it.
Overlaps(g, f, e, task) ==
  \/ \E x \in g.m.conf \ {task} : x.att # NoAttempt /\ x.att.e = e
  \/ \E x \in g.m.attempts : x.e = e /\ x.rid # task.rid /\ x.rid \in {g.w.pend, Carried(f)}

ConfirmEnds(p, task) ==
  LET g == Page(p)
      e == ConfirmedEntity(task)
      a == task.att
      active == DraftForTab(db, p, e)
      newerRev == a # NoAttempt /\ g.m.rev[e] > a.rev
      kept == a # NoAttempt /\ g.m.evRev[e] > a.evRev
      h == [g EXCEPT !.m.conf = @ \ {task},
                     !.m.attempts = {x \in @ : x.rid # task.rid}]
      i == [h EXCEPT !.m.evRev[e] = IF kept THEN @ ELSE 0]
  IN
  /\ task.phase = "final"
  /\ ~ g.m.broken
  /\ Becomes(p, RecoveryDue(
       IF e = Nothing THEN h
       ELSE Concluded(i, e, task, active, newerRev /\ ~ HoldsLatest(g, e, active, newerRev),
                      ~ kept)))
  /\ history' = IF e # Nothing /\ ~ kept /\ (a = NoAttempt \/ Overlaps(g, flight[p], e, task))
                THEN [history EXCEPT !.stray = @ \cup {<<p, e>>}] ELSE history
  /\ UNCHANGED <<server, db, flight, online, spent, clock>>

ConfirmFails(p, task) ==
  LET g == Page(p) IN
  /\ task.phase \in {"read", "sources", "final"}
  /\ MayFail(p)
  /\ Becomes(p, Failure([g EXCEPT !.m.conf = @ \ {task},
       !.m.attempts = IF task.phase = "final" THEN {x \in @ : x.rid # task.rid} ELSE @]))
  /\ UNCHANGED <<server, db, flight, online, clock, history>>

-----------------------------------------------------------------------------
(* Recovery of the drafts other page loads have left *)

\* A foreign draft that says what the untouched form says anyway.
Redundant(g, e, d, pay) == ~ g.w.ro /\ g.m.rev[e] = 0 /\ d.pay = pay

\* evaluateRecovery: the context, the form and the drafts are read.
RecoveryReads(p) ==
  LET g == Page(p)
      e == g.w.sel
      pay == DraftPayload(g.w.form)
      foreign == {d \in DraftsOf(db, e) : d.tab # p /\ ~ Superseded(d, g.w.ver)}
      own == {d \in OwnDrafts(db, p, e) : ~ Superseded(d, g.w.ver)}
  IN
  /\ IsOpen(p)
  /\ g.m.due
  /\ IF e = Nothing
     THEN Becomes(p, [g EXCEPT !.m.due = FALSE, !.m.run = NoRun, !.m.shown = NoShown])
     ELSE /\ ~ g.m.broken
          /\ Becomes(p, [g EXCEPT
               !.m.due = FALSE,
               !.m.run = [e |-> e, base |-> g.w.ver, ro |-> g.w.ro,
                          redundant |-> {d \in foreign : Redundant(g, e, d, pay)},
                          others |-> {d \in foreign : ~ Redundant(g, e, d, pay)},
                          own |-> IF own = {} THEN NoDraft ELSE Newest(own)]])
  /\ UNCHANGED <<server, db, flight, online, spent, clock, history>>

\* Broken: only a draft from a later version counts as stale.
DisplayedLater(g, run, d) ==
  LET stale == d.base > run.base IN
  [g EXCEPT !.m.shown = [draft |-> d, e |-> run.e, restored |-> FALSE, stale |-> stale],
            !.u = WithLabel(@, IF stale THEN "stale" ELSE "local")]

\* showDraft
Displayed(g, run, d) ==
  LET stale == d.base # run.base IN
  [g EXCEPT !.m.shown = [draft |-> d, e |-> run.e, restored |-> FALSE, stale |-> stale],
            !.u = WithLabel(@, IF stale THEN "stale" ELSE "local")]

\* Redundant drafts are deleted, if nobody has changed them since,
Redundants(run) == {d \in run.redundant : UnchangedSince(db, d)}

\* the others and those that were changed are left to be offered,
Offered(run, left) ==
  run.others \cup {d \in left : \E x \in run.redundant : x.id = d.id}

\* and the newest of them, when they were read, is.
ReadAt(run, d) == (CHOOSE x \in run.redundant \cup run.others : x.id = d.id).at
FirstOf(run, offered) ==
  CHOOSE d \in offered : \A x \in offered : ReadAt(run, x) <= ReadAt(run, d)

Evaluated(g, run) ==
  [g EXCEPT !.m.run = NoRun, !.m.active[run.e] = IF @ = 0 THEN run.own.id ELSE @]

RecoveryEnds(p) ==
  LET run == mem[p].run
      left == Without(db, {d.id : d \in Redundants(run)})
      offered == Offered(run, left)
      h == Evaluated(Page(p), run)
  IN
  /\ run # NoRun
  /\ ~ mem[p].broken
  /\ db' = left
  /\ Becomes(p, IF offered = {} THEN [h EXCEPT !.m.shown = NoShown]
                ELSE Displayed(h, run, FirstOf(run, offered)))
  /\ UNCHANGED <<server, flight, online, spent, clock, history>>

RecoveryFails(p) ==
  LET g == Page(p) IN
  /\ \/ g.m.due /\ g.w.sel # Nothing
     \/ g.m.run # NoRun
  /\ MayFail(p)
  /\ Becomes(p, Failure([g EXCEPT !.m.due = FALSE, !.m.run = NoRun]))
  /\ UNCHANGED <<server, db, flight, online, clock, history>>

\* The banner's buttons apply to the finding on display.
Offers(p) ==
  LET s == mem[p].shown IN
  IsOpen(p) /\ s # NoShown /\ ~ s.restored /\ s.e = wire[p].sel

\* restoreDisplayedDraft: the draft goes on the form and, copied, to this tab.
Restore(p) ==
  LET g == Page(p)
      e == g.w.sel
      s == g.m.shown
      d == Adopted(s.draft, p, clock + 1)
  IN
  /\ Offers(p)
  /\ ~ g.w.ro
  /\ Spend(p, "restore")
  /\ Tick(1)
  /\ Becomes(p, IF Alignable(g.w.form.pay.sol, s.draft.pay.sol)
                THEN Queued([g EXCEPT !.w.form.pay = s.draft.pay], e,
                            [do |-> "adopt", stale |-> s.stale, plan |-> PutPlan(d)])
                ELSE [g EXCEPT !.u = WithLabel(@, "stale")])
  /\ UNCHANGED <<server, db, flight, online, history>>

\* discardDisplayedDraft: delete, unless changed since, and look again.
Drop(p) ==
  LET g == Page(p)
      d == g.m.shown.draft
      done == UnchangedSince(db, d)
  IN
  /\ Offers(p)
  /\ ~ g.m.broken
  /\ Spend(p, "drop")
  /\ db' = IF done THEN Without(db, {d.id}) ELSE db
  /\ history' = IF done THEN [history EXCEPT !.dropped = @ \cup {d}] ELSE history
  /\ Becomes(p, RecoveryDue([g EXCEPT
       !.m.shown = NoShown,
       !.m.active[g.w.sel] = IF done /\ @ = d.id THEN 0 ELSE @,
       !.m.tail = IF done THEN [e |-> g.w.sel, base |-> g.w.ver] ELSE @]))
  /\ UNCHANGED <<server, flight, online, clock>>

DropFails(p) ==
  /\ Offers(p)
  /\ Spend(p, "breakdown")
  /\ Becomes(p, Failure(Page(p)))
  /\ UNCHANGED <<server, db, flight, online, clock, history>>

\* After the second look: what is left of the finding's own edits.
DropEnds(p) ==
  LET g == Page(p)
      e == g.m.tail.e
      h == [g EXCEPT !.m.tail = NoRun]
      known == ActiveDraft(db, p, e, g.m.active[e])
  IN
  /\ g.m.tail # NoRun
  /\ ~ g.m.due
  /\ g.m.run = NoRun
  /\ Becomes(p,
       IF g.m.shown # NoShown \/ g.m.broken THEN h
       ELSE IF known # NoDraft
       THEN [h EXCEPT !.m.active[e] = known.id,
                      !.u = OnPersisted(@, e, known.base # g.m.tail.base, FALSE, g.w.sel, online)]
       ELSE IF \/ g.m.timer[e] # NoTimer
               \/ g.m.jobs[e] # <<>>
               \/ g.m.newer[e] # NoPayload
               \/ g.m.rev[e] > 0
       THEN [h EXCEPT !.u = OnDirty(@, e, FALSE, g.w.sel, online)]
       ELSE [h EXCEPT !.u = OnClean(@, e, FALSE, g.w.sel, online)])
  /\ UNCHANGED <<server, db, flight, online, spent, clock, history>>

-----------------------------------------------------------------------------
(* Requests of the component *)

Asks(p, kind, arg) ==
  LET w == wire[p] IN
  /\ IsOpen(p)
  /\ flight[p] = NoMessage
  /\ flight' = [flight EXCEPT ![p] = [status |-> "sent", kind |-> kind, arg |-> arg, w |-> w]]
  /\ UNCHANGED <<server, db, online, clock, history>>

\* Another finding is selected, or the inspector closed; a field with a live
\* binding reports its value; the user gives up a form whose save failed.
Select(p, e) ==
  /\ e # wire[p].sel
  /\ Asks(p, "select", e)
  /\ Spend(p, "select")
  /\ UNCHANGED <<wire, mem, ui>>

Close(p) ==
  /\ wire[p].sel # Nothing
  /\ Asks(p, "select", Nothing)
  /\ Spend(p, "close")
  /\ UNCHANGED <<wire, mem, ui>>

Report(p) ==
  /\ Editable(p)
  /\ Asks(p, "live", wire[p].sel)
  /\ Spend(p, "live")
  /\ UNCHANGED <<wire, mem, ui>>

Discard(p) ==
  /\ Editable(p)
  /\ wire[p].stat = "error"
  /\ Asks(p, "discard", wire[p].sel)
  /\ Spend(p, "discard")
  /\ UNCHANGED <<wire, mem, ui>>

\* rememberStructuralChange: the draft is written when the response is there.
StructuralNote(g, e) == [g EXCEPT !.m.structural[e] = g.w.ver]

\* Adding, deleting or moving a solution: noted by the script on the click,
\* done by the server.
Restructure(p, arg) ==
  LET g == Page(p)
      e == g.w.sel
  IN
  /\ Editable(p)
  /\ Asks(p, "structure", arg)
  /\ Spend(p, "structure")
  /\ Becomes(p, [StructuralNote(g, e) EXCEPT
                  !.m.rev[e] = @ + 1, !.u = OnDirty(@, e, FALSE, e, online)])

-----------------------------------------------------------------------------
(* The server *)

\* The response of a request that carries the form: updatedFindingData, and
\* the read-only state the page is rendered with.
Known(w) ==
  [w EXCEPT !.canon = w.form, !.ro = server.shut,
            !.stat = IF w.form # w.canon /\ @ # "conflict" THEN "unsaved" ELSE @]

Declined(w) == w.sel = Nothing \/ server.shut \/ w.stat = "conflict"

\* What becomes of a save: an upload that an earlier save has used up is gone.
Outcome(w, rid) ==
  IF w.form.files \cap server.taken # {} THEN "invalid"
  ELSE IF \E r \in server.journal : r.rid = rid
  THEN IF \E r \in server.journal : r.rid = rid /\ r.e = w.sel /\ r.form = w.form
       THEN "replayed" ELSE "mismatch"
  ELSE IF w.ver # server.ver THEN "conflict"
  ELSE "applied"

\* A solution gets its identifier when it is first saved.
Numbered(pay, t) ==
  [pay EXCEPT !.sol = [i \in DOMAIN @ |-> IF @[i] = 0 THEN t + i ELSE @[i]]]

Applied(p, w, rid) ==
  LET pay == Numbered(w.form.pay, clock) IN
  /\ server' = [server EXCEPT
       !.ver = @ + 1, !.content[w.sel] = pay, !.taken = @ \cup w.form.files,
       !.journal = @ \cup {[rid |-> rid, e |-> w.sel, form |-> w.form, ver |-> server.ver + 1]}]
  /\ history' = [history EXCEPT
       !.held = @ \cup {[tab |-> p, pay |-> w.form.pay, ver |-> server.ver + 1],
                      [tab |-> p, pay |-> pay, ver |-> server.ver + 1]}]

JournalRow(rid) == CHOOSE r \in server.journal : r.rid = rid

\* loadSelectedFinding, with the contents after this request.
Reloaded(w, e) ==
  LET form == IF e = Nothing THEN NoForm ELSE Form(server'.content[e], {}) IN
  [w EXCEPT !.sel = e, !.form = form, !.canon = form, !.stat = "saved"]

\* selectAdjacentFinding: the last finding stays.
After(e) ==
  IF \E i \in DOMAIN Order : Order[i] = e /\ i < Len(Order)
  THEN Order[(CHOOSE i \in DOMAIN Order : Order[i] = e) + 1] ELSE e

\* What the user asked for, once the form needs no saving.
Acted(m, w) ==
  CASE m.kind = "select" -> Reloaded(w, m.arg)
    [] m.kind = "next" -> Reloaded(w, After(w.sel))
    [] m.kind = "discard" /\ w.stat = "error" /\ ~ server.shut ->
         [Reloaded(w, w.sel) EXCEPT !.pend = 0]
    [] m.kind = "structure" /\ ~ server.shut ->
         LET pay == [w.form.pay EXCEPT !.n = clock + 1, !.sol = m.arg] IN
         [w EXCEPT !.form.pay = pay, !.canon.pay = pay]
    [] OTHER -> w

Answer(p, m, w, event, dropped) ==
  flight' = [flight EXCEPT ![p] =
    IF wire[p].on = "gone" THEN NoMessage
    ELSE [status |-> "answered", kind |-> m.kind, sent |-> m.w, w |-> w, event |-> event,
          dropped |-> dropped]]

\* Broken: a form that was saved before does not hold up a selection.
NeedsSavingErrors(m, w) ==
  \/ m.kind \in {"save", "next"}
  \/ m.kind = "select" /\ ~ server.shut /\ w.sel # Nothing /\ w.stat = "error"

\* persistCurrentWorkspaceStateBeforeAction
NeedsSaving(m, w) ==
  \/ m.kind \in {"save", "next"}
  \/ m.kind = "select" /\ ~ server.shut /\ w.sel # Nothing /\ w.stat # "saved"

NoEvent == [rid |-> 0]

\* The server handles a request as one step.
Serve(p) ==
  LET m == flight[p]
      w == Known(m.w)
      rid == IF w.pend # 0 THEN w.pend ELSE clock + 1
      outcome == Outcome(w, rid)
      refused(stat) == Answer(p, m, [w EXCEPT !.stat = stat], NoEvent, FALSE)
      saved(ver) == Answer(p, m,
        [Acted(m, Reloaded(w, w.sel)) EXCEPT !.ver = ver, !.pend = 0],
        [rid |-> rid, e |-> w.sel, av |-> ver], FALSE)
  IN
  /\ online
  /\ m.status = "sent"
  /\ \/ /\ ~ NeedsSaving(m, w)
        /\ UNCHANGED <<server, history, spent>>
        /\ Answer(p, m, Acted(m, w), NoEvent, m.kind = "discard" /\ w.stat = "error")
     \/ /\ NeedsSaving(m, w)
        /\ Declined(w)
        /\ UNCHANGED <<server, history, spent>>
        /\ Answer(p, m, w, NoEvent, FALSE)
     \/ /\ NeedsSaving(m, w)
        /\ ~ Declined(w)
        /\ outcome = "applied"
        /\ Applied(p, w, rid)
        /\ UNCHANGED spent
        /\ saved(server.ver + 1)
     \/ /\ NeedsSaving(m, w)
        /\ ~ Declined(w)
        /\ outcome = "replayed"
        /\ UNCHANGED <<server, history, spent>>
        /\ saved(JournalRow(rid).ver)
     \/ /\ NeedsSaving(m, w)
        /\ ~ Declined(w)
        /\ outcome \in {"conflict", "mismatch", "invalid"}
        /\ UNCHANGED <<server, history, spent>>
        /\ refused(IF outcome = "conflict" THEN "conflict" ELSE "error")
     \/ /\ NeedsSaving(m, w)
        /\ ~ Declined(w)
        /\ Spend(p, "invalid")
        /\ UNCHANGED <<server, history>>
        /\ refused("error")
  /\ Tick(1 + Len(w.form.pay.sol))
  /\ UNCHANGED <<db, wire, mem, ui, online>>

\* Another user saves a finding, or the assessment is completed.
ForeignSave(e) ==
  LET pay == [server.content[e] EXCEPT !.n = clock + 1] IN
  /\ ~ server.shut
  /\ Spend(Nothing, "foreign")
  /\ Tick(1)
  /\ server' = [server EXCEPT !.ver = @ + 1, !.content[e] = pay]
  /\ history' = [history EXCEPT !.held = @ \cup {[tab |-> Nothing, pay |-> pay, ver |-> server.ver + 1]}]
  /\ UNCHANGED <<db, wire, mem, ui, flight, online>>

Finish ==
  /\ ~ server.shut
  /\ Spend(Nothing, "finish")
  /\ server' = [server EXCEPT !.ver = @ + 1, !.shut = TRUE]
  /\ UNCHANGED <<db, wire, mem, ui, flight, online, clock, history>>

-----------------------------------------------------------------------------
(* Responses *)

\* persistStructuralChangeAfterMorph: what the form holds now is written for
\* the findings whose solutions were clicked on.
Morphed(g) ==
  LET pay == DraftPayload(g.w.form)
      noted == {e \in Entities : g.m.structural[e] # 0}
  IN
  RecoveryDue([g EXCEPT
    !.m.structural = [e \in Entities |-> 0],
    !.m.newer = [e \in Entities |-> IF e \in noted /\ g.m.save # NoSave THEN pay ELSE @[e]],
    !.m.jobs = [e \in Entities |->
      IF e \in noted THEN Append(@[e], PersistJob(pay, g.m.structural[e], "structure"))
      ELSE @[e]]])

\* handleServerDiscard, up to its first await.
Forgotten(g, e) ==
  Queued([g EXCEPT
    !.m.timer[e] = NoTimer, !.m.rev[e] = 0, !.m.evRev[e] = 0, !.m.newer[e] = NoPayload,
    !.m.structural[e] = 0, !.m.attempts = {a \in @ : a.e # e}],
    e, [do |-> "wipe", plan |-> Unplanned])

\* Livewire merges the response: a property the server has changed replaces
\* the browser's, with whatever was typed meanwhile; the form may also come
\* back changed in its internal keys only.
Merged(g, a, rekeyed) ==
  [g EXCEPT !.w = [a.w EXCEPT
     !.form = IF a.w.form # a.sent.form \/ rekeyed THEN @ ELSE g.w.form,
     !.pend = IF @ # a.sent.pend THEN @ ELSE g.w.pend]]

\* The response: merge, morph, status label, events, end of the save.
Arrives(p) ==
  LET g == Page(p)
      a == flight[p]
      e == a.w.sel
  IN
  /\ online
  /\ a.status = "answered"
  /\ flight' = [flight EXCEPT ![p] = NoMessage]
  /\ \E rekeyed \in IF a.event = NoEvent THEN {FALSE} ELSE BOOLEAN :
       LET h == Merged(g, a, rekeyed)
           i == Morphed([h EXCEPT !.u = AfterMorph(@, e, a.w.stat, online)])
           j == IF a.event = NoEvent THEN i ELSE ConfirmStarts(i, a.event, clock + 1)
           k == IF a.dropped /\ e # Nothing THEN Forgotten(j, e) ELSE j
       IN
       /\ Becomes(p, IF g.m.save.phase = "sent" THEN [k EXCEPT !.m.save = NoSave] ELSE k)
       /\ history' = [history EXCEPT
            !.givenUp = IF a.dropped THEN @ \cup {<<p, e>>} ELSE @,
            !.told = @ \cup {d \in db : d.tab = p /\ d.att = d.req /\ d.req = a.event.rid}]
  /\ IF a.event = NoEvent THEN UNCHANGED clock ELSE Tick(1)
  /\ UNCHANGED <<server, db, online, spent>>

\* No response: the request or its answer is lost, or the browser is offline.
Lost(p) ==
  LET g == Page(p) IN
  /\ flight[p] # NoMessage
  /\ IF online THEN Spend(p, "loss") ELSE UNCHANGED spent
  /\ flight' = [flight EXCEPT ![p] = NoMessage]
  /\ Becomes(p, IF g.m.save.phase = "sent" THEN SaveFails(g) ELSE g)
  /\ UNCHANGED <<server, db, online, clock, history>>

\* The browser loses or finds its connection.
Disconnect ==
  /\ online
  /\ Spend(Nothing, "offline")
  /\ online' = FALSE
  /\ ui' = [p \in Pages |-> IF IsOpen(p) THEN GoneOffline(ui[p], wire[p].sel) ELSE ui[p]]
  /\ UNCHANGED <<server, db, wire, mem, flight, clock, history>>

Reconnect ==
  /\ ~ online
  /\ online' = TRUE
  /\ ui' = [p \in Pages |-> IF IsOpen(p) THEN BackOnline(ui[p], wire[p].sel) ELSE ui[p]]
  /\ UNCHANGED <<server, db, wire, mem, flight, spent, clock, history>>

-----------------------------------------------------------------------------
(* The specification *)

InitialContent(e) == Payload(e, 0, <<1>>)

InitialServer ==
  [ver |-> 1, content |-> [e \in Entities |-> InitialContent(e)], journal |-> {},
   shut |-> FALSE, taken |-> {}]

InitialHistory ==
  [held |-> {[tab |-> Nothing, pay |-> InitialContent(e), ver |-> 1] : e \in Entities},
   dropped |-> {}, givenUp |-> {}, stray |-> {}, told |-> {}]

Init ==
  /\ server = InitialServer
  /\ db = {}
  /\ wire = [p \in Pages |-> NoPage]
  /\ mem = [p \in Pages |-> FreshMemory]
  /\ ui = [p \in Pages |-> NewStatus(Entities, "saved")]
  /\ flight = [p \in Pages |-> NoMessage]
  /\ online = TRUE
  /\ spent = [p \in Pages \cup {Nothing} |-> 0]
  /\ clock = 1
  /\ history = InitialHistory

\* The lists of solutions a click can lead to: one more, or one less.
Lists(sol) == {Append(sol, 0)} \cup {RemoveAt(sol, i) : i \in DOMAIN sol}

User(p) ==
  \/ Open(p) \/ Leave(p) \/ Type(p) \/ Attach(p)
  \/ \E how \in Intercepted : SaveStarts(p, how)
  \/ \E e \in Entities : Select(p, e)
  \/ Close(p) \/ Report(p) \/ Discard(p)
  \/ \E sol \in Lists(wire[p].form.pay.sol) : Restructure(p, sol)
  \/ Restore(p) \/ Drop(p)

Script(p) ==
  \/ \E e \in Entities : TimerFires(p, e) \/ JobReads(p, e) \/ JobWrites(p, e)
  \/ \E task \in mem[p].conf : ConfirmReads(p, task) \/ ConfirmMarks(p, task)
                               \/ ConfirmEnds(p, task)
  \/ RecoveryReads(p) \/ RecoveryEnds(p) \/ DropEnds(p) \/ SaveLeaves(p)

Breakdown(p) ==
  \/ \E e \in Entities : JobFails(p, e)
  \/ \E task \in mem[p].conf : ConfirmFails(p, task)
  \/ RecoveryFails(p) \/ DropFails(p)

Network(p) == Serve(p) \/ Arrives(p) \/ Lost(p)

Next ==
  \/ \E p \in Pages : User(p) \/ Script(p) \/ Breakdown(p) \/ Network(p)
  \/ \E e \in Entities : ForeignSave(e)
  \/ Finish \/ Disconnect \/ Reconnect

\* A running page serves its timers and promises, the server answers, and a
\* request that gets no answer fails.
Fairness ==
  \A p \in Pages : WF_vars(Script(p)) /\ WF_vars(Breakdown(p) /\ mem[p].broken)
                   /\ WF_vars(Network(p))

Spec == Init /\ [][Next]_vars /\ Fairness

-----------------------------------------------------------------------------
(* Properties *)

OfForm(p) == DraftPayload(wire[p].form)

Held(pay) == \E a \in history.held : a.pay = pay

\* The values of the variables.  A draft's identifier names one record, its
\* UUIDs have been handed out, and every finding of a page has a status.
DTypeOK ==
  /\ server.ver \in Nat /\ DOMAIN server.content = Entities
  /\ \A d \in db : /\ d.e \in Entities /\ d.tab \in Pages
                   /\ {d.id, d.req, d.at} \subseteq 1 .. clock
                   /\ {d.att, d.src, d.confirmed} \subseteq 0 .. clock
                   /\ \A x \in db : x.id = d.id => x = d
  /\ \A p \in Pages : /\ wire[p].sel \in Entities \cup {Nothing}
                      /\ ui[p].label \in Labels
                      /\ ui[p].st \in [Entities -> EntityStates]

\* The form holds an edit that the server has never held.
Unconfirmed(p) ==
  IsOpen(p) /\ wire[p].sel # Nothing /\ ~ wire[p].ro /\ ~ Held(OfForm(p))

\* Nothing is under way in the page.
Quiet(p) ==
  /\ flight[p] = NoMessage
  /\ mem[p].save = NoSave /\ mem[p].conf = {}
  /\ \A e \in Entities : /\ mem[p].timer[e] = NoTimer
                         /\ mem[p].jobs[e] = <<>>
                         /\ mem[p].structural[e] = 0

\* Once a page has come to rest, an edit on its form that the server does not
\* have is in a draft of the page, or the browser asks before the page is
\* left; unless the user gave the edit up.  This is what the drafts are for,
\* and what timers, saves, late confirmations, offline periods and storage
\* failures have to agree on.
SettledEditsAreSafe ==
  \A p \in Pages :
    Unconfirmed(p) /\ Quiet(p) =>
      \/ \E d \in OwnDrafts(db, p, wire[p].sel) : d.pay = OfForm(p)
      \/ \E d \in history.dropped : d.tab = p /\ d.pay = OfForm(p)
      \/ <<p, wire[p].sel>> \in history.givenUp
      \/ Warns(ui[p])

\* Files waiting on the form are in no draft, so the browser asks before the
\* page is left; whatever confirmations of earlier saves arrive after the
\* file was chosen.  A finding whose evidence the page has lost count of is left
\* out (history.stray), and so is one whose form was given up: a file chosen
\* while the drafts of the old form are being deleted loses its warning.
EvidenceIsGuarded ==
  \A p \in Pages :
    /\ IsOpen(p) /\ wire[p].form.files # {}
    /\ <<p, wire[p].sel>> \notin history.stray \cup history.givenUp
    => Warns(ui[p])

\* Why a draft may go.
Unwanted(d) == d \in history'.dropped \/ <<d.tab, d.e>> \in history'.givenUp

Overtaken(d) == Held(d.pay) \/ \E r \in server.journal : r.e = d.e /\ r.rid > d.pay.n

\* The attempt was recorded with what the draft holds, but the request left with
\* another form: the finding was closed and opened again while the save waited
\* for the draft store.
Missent(d) ==
  \E c \in mem[d.tab].conf : c.rid = d.req /\ c.att # NoAttempt /\ c.att.pay = d.pay

Copied(d) ==
  \/ \E x \in db' : x.id # d.id /\ x.e = d.e /\ x.pay = d.pay
  \/ \E p \in Pages : \E e \in Entities : \E i \in DOMAIN mem[p].jobs[e] :
       LET job == mem[p].jobs[e][i] IN job.do = "adopt" /\ job.plan.put.pay = d.pay

\* A draft disappears only when its user threw away what it holds, when the
\* server holds that or a save that overtook it, or when another draft holds the
\* same.  A confirmation that arrives after the draft was rewritten must leave
\* it alone.  A save that left with another form than it was recorded with is
\* taken for the recorded one, so the draft it is about is left out.
DraftsRemovedOnlyWhenSafe ==
  [][\A d \in db : d.pay.of = d.e /\ (\A x \in db' : x.id # d.id)
                   => Unwanted(d) \/ Overtaken(d) \/ Copied(d) \/ Missent(d)]_vars

\* The server shows another finding only after it has the form that was sent
\* with the request, unless the assessment is closed (docs/reference/
\* ui-persistence-import-export.md:73).
DirtyFormIsSavedFirst ==
  [][\A p \in Pages :
       /\ flight[p].status = "sent" /\ flight'[p].status = "answered"
       /\ flight[p].w.sel # Nothing
       /\ flight'[p].w.sel # flight[p].w.sel
       => server.shut \/ \E a \in history'.held : a.pay = flight[p].w.form.pay]_vars

\* Two drafts never share a request UUID, so a confirmation is about one of
\* them; a draft restored in another tab must not keep the UUID of the first.
UuidNamesOneDraft == \A d1, d2 \in db : d1.req = d2.req => d1 = d2

\* A draft marked as confirmed, and so offered to nobody any more, was overtaken:
\* the version it is marked with is that of a save of its finding under a UUID
\* handed out after its last edit; also when its tab went on writing it while
\* the copy was restored, sent and confirmed elsewhere.  The exception is a
\* draft that its own confirmation continues with newer text: it gets a UUID
\* younger than that save, and keeps the mark.
ConfirmedDraftsAreOvertaken ==
  \A d \in db : d.confirmed # 0 =>
    \E r \in server.journal :
      r.e = d.e /\ r.ver = d.confirmed /\ (r.rid > d.pay.n \/ d.req > r.rid)

\* A draft on offer that is not marked stale is younger than what others have
\* saved of the finding up to the version of the page: restoring it does not
\* silently undo their work.
StaleIsFlagged ==
  \A p \in Pages :
    Offers(p) /\ ~ mem[p].shown.stale =>
      \A a \in history.held :
        a.tab = Nothing /\ a.pay.of = wire[p].sel /\ a.ver <= wire[p].ver
          => a.pay.n <= mem[p].shown.draft.pay.n

\* A save comes to its end, so the page takes the next one: whichever storage
\* request or response is missing on the way.
SavesEnd == \A p \in Pages : mem[p].save # NoSave ~> mem[p].save = NoSave

\* What the timer holds gets through the queue of its finding.
EditsAreStored ==
  \A p \in Pages : \A e \in Entities :
    mem[p].timer[e] # NoTimer \/ mem[p].jobs[e] # <<>>
      ~> mem[p].timer[e] = NoTimer /\ mem[p].jobs[e] = <<>>

\* A draft that waits for the answer to a save does not wait for good once its
\* page has been given the confirmation, as long as the page lives and has
\* its store.
Waits(p) == \E d \in db \cap history.told : d.tab = p

ConfirmedDraftsLeave ==
  \A p \in Pages : Waits(p) ~> ~ Waits(p) \/ ~ IsOpen(p) \/ mem[p].broken
=============================================================================
