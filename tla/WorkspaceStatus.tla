-------------------------- MODULE WorkspaceStatus -------------------------
(***************************************************************************)
(* What the page tells its user about unsaved work: one status label, and  *)
(* for every finding a state that decides the label and whether the        *)
(* browser warns before the page is left.  The operators take the states   *)
(* and the label of one page, u, and return what an event makes of them;   *)
(* shown is the finding on display and on says whether the browser is      *)
(* online.                                                                 *)
(***************************************************************************)

Labels == {"saved", "unsaved", "error", "conflict", "offline", "local", "stale",
           "storage_error"}

Pristine ==
  [dirty |-> FALSE, durable |-> FALSE, status |-> "local", evidence |-> FALSE,
   before |-> "none"]

EntityStates ==
  [dirty : BOOLEAN, durable : BOOLEAN, status : {"local", "stale", "storage_error"},
   evidence : BOOLEAN, before : Labels \cup {"none"}]

NewStatus(entities, label) == [st |-> [e \in entities |-> Pristine], label |-> label]

CurrentStatus(s, on) ==
  IF ~ on THEN "offline"
  ELSE IF s.evidence THEN "unsaved"
  ELSE IF s.durable THEN s.status
  ELSE IF s.status = "storage_error" THEN "storage_error"
  ELSE "unsaved"

WithLabel(u, label) == [u EXCEPT !.label = label]

\* showSaveStatus with an entity: nothing when another one is on display.
WithLabelFor(u, e, shown, label) == IF e = shown THEN WithLabel(u, label) ELSE u

Told(u, e, s, shown, on) ==
  WithLabelFor([u EXCEPT !.st[e] = s], e, shown, CurrentStatus(s, on))

Cleared(s, clear) == IF clear THEN [s EXCEPT !.evidence = FALSE] ELSE s

OnInput(u, e, isEvidence, on) ==
  Told(u, e, [u.st[e] EXCEPT !.dirty = TRUE, !.durable = FALSE, !.status = "local",
                             !.evidence = @ \/ isEvidence], e, on)

OnPersisted(u, e, stale, clear, shown, on) ==
  Told(u, e, [Cleared(u.st[e], clear) EXCEPT
               !.dirty = TRUE, !.durable = TRUE,
               !.status = IF stale THEN "stale" ELSE "local"], shown, on)

OnDirty(u, e, clear, shown, on) ==
  Told(u, e, [Cleared(u.st[e], clear) EXCEPT
               !.dirty = TRUE, !.durable = FALSE, !.status = "local"], shown, on)

OnRestored(u, e, stale, shown, on) == OnPersisted(u, e, stale, FALSE, shown, on)

OnFailed(u, e, shown, on) ==
  Told(u, e, [u.st[e] EXCEPT !.dirty = TRUE, !.durable = FALSE, !.status = "storage_error"],
       shown, on)

\* Broken: a confirmed save also takes the evidence that came later for saved.
OnCleanAll(u, e, clear, shown, on) ==
  WithLabelFor([u EXCEPT !.st[e] = [Pristine EXCEPT !.before = u.st[e].before]], e, shown,
               "saved")

OnClean(u, e, clear, shown, on) ==
  LET s == u.st[e] IN
  IF ~ clear /\ s.evidence
  THEN Told(u, e, [s EXCEPT !.dirty = TRUE, !.durable = FALSE, !.status = "local"], shown, on)
  ELSE WithLabelFor([u EXCEPT !.st[e] = [Pristine EXCEPT !.before = s.before]], e, shown,
                    "saved")

\* The response has put the server's status in the label; a dirty finding
\* takes it back unless the server reports a problem.
AfterMorph(u, shown, rendered, on) ==
  WithLabel(u, IF shown \in DOMAIN u.st /\ u.st[shown].dirty
                  /\ rendered \in {"saved", "unsaved"}
               THEN CurrentStatus(u.st[shown], on)
               ELSE rendered)

GoneOffline(u, shown) ==
  IF shown \notin DOMAIN u.st THEN u
  ELSE [WithLabel(u, "offline") EXCEPT
         !.st[shown].before = IF u.label # "offline" THEN u.label ELSE @]

BackOnline(u, shown) ==
  IF shown \notin DOMAIN u.st THEN u
  ELSE LET s == u.st[shown] IN
       [WithLabel(u, IF s.dirty THEN CurrentStatus(s, TRUE)
                     ELSE IF s.before # "none" THEN s.before ELSE u.label)
        EXCEPT !.st[shown].before = "none"]

\* beforeunload: the browser asks before the page is left.
Warns(u) ==
  \E e \in DOMAIN u.st : u.st[e].dirty /\ (~ u.st[e].durable \/ u.st[e].evidence)
=============================================================================
