----------------------- MODULE AssessmentWorkspace ------------------------
(***************************************************************************)
(* The workspace page (WorkspaceAssessment, a Livewire component) opened   *)
(* in several browser tabs, on top of AssessmentStore.                     *)
(*                                                                         *)
(* Between requests the component lives in the browser: tab[t].  A request *)
(* carries it to a worker, which loads the assessment record afresh, runs  *)
(* the handler on its own copy, handler[w].page, and sends the copy back   *)
(* with the response.  A response that is lost leaves the tab as it was,   *)
(* while the worker's database work stands.                                *)
(*                                                                         *)
(* A handler is a short program: the pre-action gate may save the form on  *)
(* display (stage "saving"), then the requested operation is decided       *)
(* ("acting"), executed ("calling"), and answered ("reply"); an exception  *)
(* the page does not catch is answered with an error page ("failed").      *)
(*                                                                         *)
(* An edit gives the form a new stamp, which stands for the payload and    *)
(* also for the request UUID that the browser's draft keeps for exactly    *)
(* this payload.                                                           *)
(***************************************************************************)
EXTENDS AssessmentStore

CONSTANTS
  Tabs,         \* browser tabs showing the workspace
  Nothing,      \* no finding selected
  MaxStamp,     \* bound: number of edits and reorder keys
  LastVersion,  \* bound: no request is sent at this version
  MaxFaults,    \* bound: number of things that go wrong
  Offered       \* bound: the messages the tabs send in this instance

Saves == {"save_finding", "save_next", "save_details"}
Moves == {"select", "close", "view"}
Changes == {"create", "duplicate", "delete", "reorder", "complete"}
Gated == Moves \cup Changes
Messages == Saves \cup Gated \cup {"reopen", "discard"}

ASSUME WorkspaceAssumption ==
  /\ MaxStamp \in Nat /\ LastVersion \in Nat /\ MaxFaults \in Nat
  /\ Payloads = 0..MaxStamp
  /\ Keys = 1..MaxStamp
  /\ Blank = 0
  /\ NoKey = 0
  /\ Nothing \notin Findings
  /\ Tabs # {}
  /\ Offered \subseteq Messages

VARIABLES
  tab,      \* the component as each browser tab holds it
  wait,     \* the worker each tab waits for, or NoWorker
  handler,  \* the request each worker handles
  stamp,    \* number of stamps handed out
  faults,   \* number of things that have gone wrong
  kept      \* history: the edits that have been committed to the database

pageVars == <<tab, wait, handler, stamp, faults, kept>>
vars == <<storeVars, pageVars>>

Kinds == {"finding", "details"}

-----------------------------------------------------------------------------
(* The component *)

\* A form just filled from the database.  base is what it was filled with, pay
\* what it holds, key its pending request UUID.
Filled(c) == [stat |-> "saved", base |-> c, pay |-> c, key |-> NoKey, adopted |-> FALSE]

\* mount(): the assessment and, if the URL names one, the selected finding.
Mounted(sel) ==
  [ver |-> version, view |-> "findings", sel |-> sel,
   form |-> [finding |-> Filled(IF sel = Nothing THEN Blank ELSE content[sel]),
             details |-> Filled(content[Details])],
   orderKey |-> NoKey, closed |-> Closed]

\* The form the gate is about.
Active(p) ==
  IF p.view = "details" THEN {"details"}
  ELSE IF p.sel # Nothing THEN {"finding"} ELSE {}

ActiveKind(p) == CHOOSE k \in Active(p) : TRUE

UnitOf(p, k) == IF k = "details" THEN Details ELSE p.sel

\* selectedFinding() finds nothing although a finding is selected.
SelectionGone(p) == p.sel # Nothing /\ p.sel \notin Live

\* Broken: the finding is selected, the form not refilled.
WithSelected(p, f) == [p EXCEPT !.sel = f]

\* loadSelectedFinding: refill the form; the pending key is left alone.
WithLoaded(p, f) ==
  [p EXCEPT !.sel = f,
            !.form.finding = [Filled(content[f]) EXCEPT !.key = p.form.finding.key]]

\* The inspector without a finding.
WithNone(p, stat) ==
  [p EXCEPT !.sel = Nothing,
            !.form.finding = [Filled(Blank) EXCEPT !.key = p.form.finding.key,
                                                   !.stat = stat]]

\* Broken: the status the save started with is left behind.
WithStatSaving(p, k, s) == [p EXCEPT !.form[k].stat = "saving"]

WithStat(p, k, s) == [p EXCEPT !.form[k].stat = s]

\* The tab takes over a version.  adopted (history) marks the forms that were
\* filled at an older version and now pass for current, because an operation
\* of somebody else was skipped.
Reaching(p, v) ==
  LET skipped == v > p.ver + 1 IN
  [p EXCEPT !.ver = v,
            !.form.finding.adopted = @ \/ skipped,
            !.form.details.adopted = @ \/ skipped]

\* refreshExpectedVersion: whatever version is current.
Refreshed(p) == Reaching(p, version)

-----------------------------------------------------------------------------
(* Requests *)

NoPage ==
  [ver |-> 0, view |-> "findings", sel |-> Nothing,
   form |-> [finding |-> Filled(Blank), details |-> Filled(Blank)],
   orderKey |-> NoKey, closed |-> FALSE]

FreeHandler ==
  [stage |-> "free", tab |-> CHOOSE t \in Tabs : TRUE, page |-> NoPage,
   msg |-> "none", arg |-> Nothing, order |-> <<>>, draft |-> TRUE, recVer |-> 0]

\* saveFinding and saveAssessmentDetails give up before they try.
SaveDeclined(p, draft) ==
  \/ ~ draft
  \/ p.form[ActiveKind(p)].stat = "conflict"
  \/ ActiveKind(p) = "finding" /\ SelectionGone(p)

\* The actions that are not offered (visible, canReorderFindings, the guard of
\* discardFindingChanges) for the status the worker has loaded.
NotOffered(p, msg, draft) ==
  \/ msg \in Changes /\ ~ draft
  \/ msg = "reopen" /\ draft
  \/ msg = "discard" /\ (~ draft \/ p.form.finding.stat # "error")

\* Broken: a form whose save failed does not hold anything up.
GatePassesErrors(p, draft) ==
  ~ draft \/ \A k \in Active(p) : p.form[k].stat \in {"saved", "error"}

\* persistCurrentWorkspaceStateBeforeAction needs no save.
GatePasses(p, draft) ==
  ~ draft \/ \A k \in Active(p) : p.form[k].stat = "saved"

SaveRequestAt(p, expected) ==
  LET k == ActiveKind(p) IN
  Request(IF k = "details" THEN "save_assessment" ELSE "save_finding",
          UnitOf(p, k), Details, p.form[k].key, p.form[k].pay, <<>>, expected)

\* Broken: the save expects whatever is current, or the version it will make.
SaveRequestCurrent(p) == SaveRequestAt(p, version)
SaveRequestNext(p) == SaveRequestAt(p, p.ver + 1)

SaveRequest(p) == SaveRequestAt(p, p.ver)

\* An explicit save hands over the UUID of the browser's draft, if there is one.
WithDraftKey(p) ==
  LET k == ActiveKind(p) IN
  [p EXCEPT !.form[k].key = IF p.form[k].pay # p.form[k].base THEN p.form[k].pay ELSE @]

\* The browser sends a request; the worker loads the record and runs the
\* handler up to its first save call, or through the gate.
Send(t, w, msg, arg, order) ==
  LET p == IF msg \in Saves THEN WithDraftKey(tab[t]) ELSE tab[t]
      draft == ~ Closed
      saves == msg \in Saves \/ (msg \in Gated /\ ~ GatePasses(p, draft))
      stage == IF NotOffered(p, msg, draft) \/ (saves /\ SaveDeclined(p, draft)) THEN "reply"
               ELSE IF saves THEN "saving" ELSE "acting"
  IN
  /\ msg \in Offered
  /\ version < LastVersion
  /\ wait[t] = NoWorker
  /\ handler[w].stage = "free"
  /\ tab' = [tab EXCEPT ![t] = p]
  /\ wait' = [wait EXCEPT ![t] = w]
  /\ handler' = [handler EXCEPT ![w] =
       [stage |-> stage, tab |-> t, page |-> p, msg |-> msg, arg |-> arg,
        order |-> order, draft |-> draft, recVer |-> version]]
  /\ IF stage = "saving" THEN Receive(w, SaveRequest(p)) ELSE UNCHANGED storeVars
  /\ UNCHANGED <<stamp, faults, kept>>

Succeeded(w) == call[w].outcome \in {"applied", "replayed"}

\* The finding after f in display order: itself if it is the last.
NextAfter(f) ==
  LET after == {g \in Live : sort[g] > sort[f]} IN
  IF after = {} THEN f
  ELSE CHOOSE g \in after : \A h \in after : sort[g] <= sort[h]

\* What saveFinding or saveAssessmentDetails makes of the outcome.
AfterSave(w) ==
  LET h == handler[w]
      k == ActiveKind(h.page)
      seen == Reaching(h.page, call[w].result)
      reload == IF h.msg = "save_next" THEN NextAfter(seen.sel) ELSE seen.sel
      page ==
        CASE Succeeded(w) /\ k = "details" -> [seen EXCEPT !.form.details = Filled(@.pay)]
          [] Succeeded(w) /\ k = "finding" /\ ~ SelectionGone(seen) ->
               [WithLoaded(seen, reload) EXCEPT !.form.finding.key = NoKey]
          [] Succeeded(w) /\ k = "finding" /\ SelectionGone(seen) ->
               WithStat(seen, "finding", "error")
          [] call[w].outcome = "conflict" -> WithStat(h.page, k, "conflict")
          [] OTHER -> WithStat(h.page, k, "error")
      saved == page.form[k].stat = "saved"
  IN
  /\ h.stage = "saving"
  /\ Finish(w)
  /\ handler' = [handler EXCEPT
       ![w].page = page,
       ![w].stage = IF saved /\ h.msg \notin Saves THEN "acting" ELSE "reply",
       ![w].recVer = IF Succeeded(w) THEN call[w].result ELSE @]
  /\ UNCHANGED <<tab, wait, stamp, faults, kept>>

\* The operation itself, when it only changes the component.
ActLocally(w) ==
  LET h == handler[w]
      p == h.page
      target == IF h.msg = "discard" THEN p.sel ELSE h.arg
      page ==
        CASE h.msg = "select"  -> WithLoaded(p, target)
          [] h.msg = "discard" -> [WithLoaded(p, target) EXCEPT !.form.finding.key = NoKey]
          [] h.msg = "close"   -> WithNone(p, "saved")
          [] h.msg = "view"    -> [p EXCEPT !.view = IF @ = "findings" THEN "details"
                                                                     ELSE "findings"]
  IN
  /\ h.stage = "acting"
  /\ h.msg \in Moves \cup {"discard"}
  /\ handler' = IF h.msg \in {"select", "discard"} /\ target \notin Live
                THEN [handler EXCEPT ![w].stage = "failed"]
                ELSE [handler EXCEPT ![w].page = page, ![w].stage = "reply"]
  /\ UNCHANGED <<storeVars, tab, wait, stamp, faults, kept>>

\* The operation, when it is a call of a server action.  Creating works with
\* the version of the loaded record, duplicating and deleting read it again,
\* reordering uses the tab's.
ActOnServer(w) ==
  LET h == handler[w]
      start(c) == /\ Receive(w, c)
                  /\ handler' = [handler EXCEPT ![w].stage = "calling",
                                                ![w].arg = IF c.op \in Creating
                                                           THEN c.target ELSE @]
  IN
  /\ h.stage = "acting"
  /\ \/ /\ h.msg = "create"
        /\ \E f \in Findings \ born :
             start(Request("create", f, Details, NoKey, Blank, <<>>, h.recVer))
     \/ /\ h.msg = "duplicate"
        /\ h.arg \in Live
        /\ \E f \in Findings \ born :
             start(Request("duplicate", f, h.arg, NoKey, Blank, <<>>, version))
     \/ /\ h.msg = "delete"
        /\ h.arg \in Live
        /\ start(Request("delete", h.arg, Details, NoKey, Blank, <<>>, version))
     \/ /\ h.msg = "reorder"
        /\ start(Request("reorder", Details, Details, h.page.orderKey, Blank, h.order,
                         h.page.ver))
     \/ /\ h.msg \in {"complete", "reopen"}
        /\ start(Request(h.msg, Details, Details, NoKey, Blank, <<>>, 0))
     \/ /\ h.msg \in {"duplicate", "delete"}
        /\ h.arg \notin Live
        /\ handler' = [handler EXCEPT ![w].stage = "failed"]
        /\ UNCHANGED storeVars
  /\ UNCHANGED <<tab, wait, stamp, faults, kept>>

\* What the handler makes of the outcome.  Filament turns a validation
\* exception of an action into messages; reordering turns every failure into a
\* status; everything else is an error page.
AfterCall(w) ==
  LET h == handler[w]
      p == h.page
      outcome == call[w].outcome
      to(stage, page) == handler' = [handler EXCEPT ![w].stage = stage, ![w].page = page]
  IN
  /\ h.stage = "calling"
  /\ Finish(w)
  /\ CASE h.msg = "reorder" /\ Succeeded(w) ->
            to("reply", [Reaching(p, call[w].result) EXCEPT !.orderKey = NoKey])
       [] h.msg = "reorder" /\ outcome \in {"conflict", "readonly", "missing"} ->
            to("reply", p)
       [] h.msg = "reorder" /\ outcome \in {"mismatch", "timeout"} ->
            to("reply", WithStat(p, "finding", "error"))
       [] h.msg \in {"create", "duplicate"} /\ outcome = "applied" ->
            IF h.arg \in Live
            THEN to("reply", WithLoaded(Refreshed(p), h.arg))
            ELSE to("failed", p)
       [] h.msg = "delete" /\ outcome = "applied" ->
            to("reply", IF p.sel = h.arg
                        THEN WithNone(Refreshed(p), p.form.finding.stat)
                        ELSE Refreshed(p))
       [] h.msg \in Lifecycle /\ outcome = "applied" -> to("redirect", p)
       [] h.msg # "reorder" /\ outcome \in {"readonly", "invalid"} -> to("reply", p)
       [] h.msg # "reorder" /\ outcome \in {"conflict", "missing", "timeout"} ->
            to("failed", p)
  /\ UNCHANGED <<tab, wait, stamp, faults, kept>>

\* Broken: an exception is never turned into a response.
AnswersCaught == {"reply", "redirect"}

\* A page, a redirect, or an error page.
Answers == {"reply", "redirect", "failed"}

\* The response reaches the tab, unless the tab no longer waits for it.
Reply(w) ==
  LET h == handler[w] IN
  /\ h.stage \in Answers
  /\ handler' = [handler EXCEPT ![w] = FreeHandler]
  /\ IF wait[h.tab] = w
     THEN /\ wait' = [wait EXCEPT ![h.tab] = NoWorker]
          /\ tab' = CASE h.stage = "reply" ->
                           [tab EXCEPT ![h.tab] = [h.page EXCEPT !.closed = Closed]]
                      [] h.stage = "redirect" -> [tab EXCEPT ![h.tab] = Mounted(Nothing)]
                      [] h.stage = "failed" -> tab
     ELSE UNCHANGED <<tab, wait>>
  /\ UNCHANGED <<storeVars, stamp, faults, kept>>

-----------------------------------------------------------------------------
(* The steps of the store inside a handler *)

GoesWrong ==
  /\ faults < MaxFaults
  /\ faults' = faults + 1

Decides(w) ==
  /\ \/ Begin(w) /\ UNCHANGED faults
     \/ LockTimeout(w) /\ UNCHANGED faults
     \/ RefuseChange(w) /\ UNCHANGED faults
     \/ RefuseInvalid(w) /\ GoesWrong
     \/ ApplyLifecycle(w) /\ UNCHANGED faults
     \/ RefuseLifecycle(w) /\ UNCHANGED faults
  /\ UNCHANGED <<tab, wait, handler, stamp, kept>>

Commits(w) ==
  /\ ApplyChange(w)
  /\ kept' = kept \cup {call[w].pay}
  /\ UNCHANGED <<tab, wait, handler, stamp, faults>>

-----------------------------------------------------------------------------
(* The user and the network *)

\* The user types.  updatedFindingData and updatedData never leave a conflict.
Edit(t, k) ==
  /\ wait[t] = NoWorker
  /\ k \in Active(tab[t])
  /\ ~ tab[t].closed
  /\ stamp < MaxStamp
  /\ stamp' = stamp + 1
  /\ tab' = [tab EXCEPT ![t].form[k].pay = stamp + 1,
                        ![t].form[k].stat = IF @ = "conflict" THEN @ ELSE "unsaved"]
  /\ UNCHANGED <<storeVars, wait, handler, faults, kept>>

\* A pending reorder key is prepared before the first delivery and kept until
\* a reorder succeeds.
PrepareOrderKey(t) ==
  /\ wait[t] = NoWorker
  /\ "reorder" \in Offered
  /\ tab[t].orderKey = NoKey
  /\ stamp < MaxStamp
  /\ stamp' = stamp + 1
  /\ tab' = [tab EXCEPT ![t].orderKey = stamp + 1]
  /\ UNCHANGED <<storeVars, wait, handler, faults, kept>>

\* The findings a table may list, all of them in some order.
DragOrders == {o \in Orders : Len(o) = Cardinality(Live)}

Clicks(t, w) ==
  LET p == tab[t]
      listed == p.view = "findings"
      idsLeft == Cardinality(Findings \ born) >
                 Cardinality({v \in Workers : handler[v].msg \in Creating})
  IN
  \/ /\ listed /\ p.sel # Nothing /\ ~ p.closed
     /\ \E msg \in {"save_finding", "save_next", "discard"} : Send(t, w, msg, Nothing, <<>>)
  \/ /\ p.view = "details" /\ ~ p.closed
     /\ Send(t, w, "save_details", Nothing, <<>>)
  \/ Send(t, w, "view", Nothing, <<>>)
  \/ /\ listed /\ p.sel # Nothing
     /\ Send(t, w, "close", Nothing, <<>>)
  \/ /\ listed
     /\ \E f \in born : \/ f # p.sel /\ Send(t, w, "select", f, <<>>)
                        \/ ~ p.closed /\ Send(t, w, "delete", f, <<>>)
                        \/ ~ p.closed /\ idsLeft /\ Send(t, w, "duplicate", f, <<>>)
  \/ /\ listed /\ ~ p.closed /\ idsLeft
     /\ Send(t, w, "create", Nothing, <<>>)
  \/ /\ listed /\ ~ p.closed /\ p.orderKey # NoKey
     /\ \E o \in DragOrders : Send(t, w, "reorder", Nothing, o)
  \/ /\ ~ p.closed
     /\ Send(t, w, "complete", Nothing, <<>>)
  \/ /\ p.closed
     /\ Send(t, w, "reopen", Nothing, <<>>)

\* The response never comes: network failure, or the user stops waiting.
GiveUp(t) ==
  /\ wait[t] # NoWorker
  /\ GoesWrong
  /\ wait' = [wait EXCEPT ![t] = NoWorker]
  /\ UNCHANGED <<storeVars, tab, handler, stamp, kept>>

\* The page is loaded again; the URL keeps the selected finding.
Reload(t) ==
  /\ wait[t] = NoWorker
  /\ tab' = [tab EXCEPT ![t] = Mounted(IF @.sel \in Live THEN @.sel ELSE Nothing)]
  /\ UNCHANGED <<storeVars, wait, handler, stamp, faults, kept>>

\* The worker dies; the browser gets an error.
Die(w) ==
  LET h == handler[w] IN
  /\ h.stage # "free"
  /\ GoesWrong
  /\ IF call[w].phase = "idle" THEN UNCHANGED storeVars ELSE Crash(w)
  /\ handler' = [handler EXCEPT ![w] = FreeHandler]
  /\ wait' = IF wait[h.tab] = w THEN [wait EXCEPT ![h.tab] = NoWorker] ELSE wait
  /\ UNCHANGED <<tab, stamp, kept>>

\* The lock of a dead worker expires in any case.
LockRunsOut ==
  /\ LockExpires
  /\ IF lock = Orphan THEN UNCHANGED faults ELSE GoesWrong
  /\ UNCHANGED <<tab, wait, handler, stamp, kept>>

\* Somebody saves the general-data form of the admin panel.
EditFormSaved ==
  /\ \E s \in Statuses, p \in Payloads : SaveEditForm(s, p)
  /\ GoesWrong
  /\ UNCHANGED <<tab, wait, handler, stamp, kept>>

-----------------------------------------------------------------------------
WInit ==
  /\ Init
  /\ tab \in [Tabs -> {Mounted(f) : f \in Live \cup {Nothing}}]
  /\ wait = [t \in Tabs |-> NoWorker]
  /\ handler = [w \in Workers |-> FreeHandler]
  /\ stamp = 0
  /\ faults = 0
  /\ kept = {}

\* A worker gets on with its request.
Handles(w) ==
  \/ Decides(w)
  \/ Commits(w)
  \/ AfterSave(w)
  \/ ActLocally(w)
  \/ ActOnServer(w)
  \/ AfterCall(w)
  \/ Reply(w)

WNext ==
  \/ \E w \in Workers : Handles(w) \/ Die(w)
  \/ \E t \in Tabs :
       \/ \E w \in Workers : Clicks(t, w)
       \/ \E k \in Kinds : Edit(t, k)
       \/ PrepareOrderKey(t)
       \/ GiveUp(t)
       \/ Reload(t)
  \/ LockRunsOut
  \/ EditFormSaved

WSpec == WInit /\ [][WNext]_vars

\* A worker that is handling a request goes on or dies, and time passes.
WFairSpec ==
  /\ WSpec
  /\ \A w \in Workers : WF_vars(Handles(w))
  /\ WF_vars(LockRunsOut)

-----------------------------------------------------------------------------
(* Properties *)

Stages == {"free", "saving", "acting", "calling", "reply", "redirect", "failed"}
FormStats == {"saved", "unsaved", "error", "conflict"}

Forms == [stat : FormStats, base : Contents, pay : Contents, key : Keys \cup {NoKey},
          adopted : BOOLEAN]

Pages ==
  [ver : Nat, view : {"findings", "details"}, sel : Findings \cup {Nothing},
   form : [finding : Forms, details : Forms], orderKey : Keys \cup {NoKey},
   closed : BOOLEAN]

Handlers ==
  [stage : Stages, tab : Tabs, page : Pages, msg : Messages \cup {"none"},
   arg : Findings \cup {Nothing}, order : Seq(Findings), draft : BOOLEAN, recVer : Nat]

\* Every variable has its type.
WTypeOK ==
  /\ tab \in [Tabs -> Pages]
  /\ wait \in [Tabs -> Workers \cup {NoWorker}]
  /\ handler \in [Workers -> Handlers]
  /\ stamp \in 0..MaxStamp
  /\ faults \in 0..MaxFaults
  /\ kept \subseteq Contents

\* The pages use the server only in ways AssessmentStore allows, so what holds
\* of it holds here.
UsesStore == Init /\ [][Serves]_storeVars

\* A finding form that passes for current shows what the database holds: its
\* tab has the version of the assessment, and no operation was skipped to get
\* it.  This is what makes the version check a protection of the content.
CurrentFormsAreTrue ==
  \A t \in Tabs :
    LET p == tab[t] IN
    p.ver = version /\ p.sel \in Live /\ ~ p.form.finding.adopted =>
      p.form.finding.base = content[p.sel]

\* A finding save replaces only what its form had been filled with.
OverwritesOnlyTheShown ==
  [][\A w \in Workers :
       ApplyChange(w) /\ call[w].op = "save_finding" /\ ~ handler[w].page.form.finding.adopted =>
         handler[w].page.form.finding.base = content[call[w].target]]_vars

\* No response takes an edit off the screen that did not reach the database:
\* whatever the user asked for was done after the save, or not done.  The
\* exceptions are the user's own discard and an assessment closed elsewhere.
EditsAreKeptOrShown ==
  [][\A t \in Tabs :
       LET f == tab[t].form.finding
           w == wait[t]
       IN
       /\ w # NoWorker /\ wait'[t] = NoWorker /\ handler'[w].stage = "free"
       /\ f.pay # f.base
       /\ tab'[t].form.finding.pay # f.pay
       => \/ f.pay \in kept
          \/ handler[w].msg = "discard"
          \/ ~ handler[w].draft
          \/ tab'[t] = Mounted(tab'[t].sel)]_vars

\* The rule of the documentation: a stale save is refused.  A finding save
\* replaces nothing its form had not been filled with.
NoLostUpdate ==
  [][\A w \in Workers :
       ApplyChange(w) /\ call[w].op = "save_finding" =>
         handler[w].page.form.finding.base = content[call[w].target]]_vars

\* A refused action shows why: the form it could not save is marked.
RefusalsAreExplained ==
  \A w \in Workers :
    LET h == handler[w] IN
    h.stage = "reply" /\ h.msg \in Gated /\ h.draft =>
      \A k \in Active(h.page) : h.page.form[k].stat # "unsaved"

\* Every request of a tab is answered, or its worker dies, or the user gives up.
TabsAreAnswered == \A t \in Tabs : wait[t] # NoWorker ~> wait[t] = NoWorker
=============================================================================
