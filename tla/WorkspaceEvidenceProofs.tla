---------------------- MODULE WorkspaceEvidenceProofs ----------------------
(***************************************************************************)
(* Files on a form are never left behind without a question, for every     *)
(* number of pages, findings and events: the evidence of a form, its count *)
(* in the page, what a save and its confirmation take of it, and what the  *)
(* browser is told agree whichever way promises and answers cross.         *)
(***************************************************************************)
EXTENDS WorkspaceEditsProofs

-----------------------------------------------------------------------------
(* The evidence on the forms *)

\* The findings whose evidence the page has lost count of, or given up.
Excused(p, past) == {e \in Entities : <<p, e>> \in past.stray \cup past.givenUp}

\* The component a message set off with.
Sent(f) == IF f.status = "sent" THEN f.w ELSE f.sent

\* The form is of the finding on display.
Mine(w) == w.form.pay.of = w.sel

\* The browser is told of the evidence of a finding.
Shielded(s) == s.evidence /\ s.dirty

\* The findings whose drafts are being deleted.
Wiping(m) == {e \in Entities : \E i \in DOMAIN m.jobs[e] : m.jobs[e][i].do = "wipe"}

\* What was attempted has been counted; and since then there has been more, if
\* there are files on the form.
Counts(g, a) == a.e \in Entities /\ a.evRev <= g.m.evRev[a.e]
Passed(g, a) == g.w.sel = a.e /\ g.w.form.files # {} => a.evRev < g.m.evRev[a.e]

\* A queued confirmation is under way, each one is queued once and has a key of its own.
Linked(m) ==
  ~ m.broken =>
    /\ \A s, t \in m.conf : s.key = t.key => s = t
    /\ \A e \in Entities : \A i \in DOMAIN m.jobs[e] :
         m.jobs[e][i].do = "confirm" =>
           /\ m.jobs[e][i].task \in m.conf /\ m.jobs[e][i].task.phase = "job"
           /\ m.jobs[e][i].task.e = e
           /\ \A j \in DOMAIN m.jobs[e] :
                m.jobs[e][j].do = "confirm" /\ m.jobs[e][j].task = m.jobs[e][i].task => i = j

\* Files on the form are known to the browser; what is being saved has been counted;
\* what is confirmed is no more than that; and a request left with the finding
\* and the files that are still there.
Warned(g, X) ==
  g.w.form.files # {} =>
    g.w.sel \in Entities /\ (g.w.sel \notin X => Shielded(g.u.st[g.w.sel]))
Lives(g, f, X) ==
  \A x \in g.m.attempts : x.e \notin X /\ x.rid \in {g.w.pend, Carried(f)} => Counts(g, x)
Tasked(g, X) ==
  ~ g.m.broken =>
    \A t \in g.m.conf : t.att # NoAttempt /\ t.att.e \notin X
                          => Counts(g, t.att) /\ Passed(g, t.att)
Asked(g, f, X) ==
  f # NoMessage =>
    /\ Sent(f).sel = g.w.sel
    /\ Sent(f).form.files \subseteq g.w.form.files
    /\ f.status = "sent" /\ f.kind = "select" => f.arg # f.w.sel
    /\ f.kind \in {"save", "next"} =>
         /\ g.m.save.phase = "sent"
         /\ Sent(f).form.files = {} =>
              \A x \in g.m.attempts : x.rid = Carried(f) /\ x.e \notin X => Passed(g, x)

OpenEvidence(g, f, X) ==
  /\ Mine(g.w) /\ Wiping(g.m) \subseteq X /\ Linked(g.m)
  /\ Warned(g, X) /\ Lives(g, f, X) /\ Tasked(g, X) /\ Asked(g, f, X)

\* The server answers with no files but those that were sent, and with none when it
\* has saved them or shows another finding.
Replied(f) ==
  f.status = "answered" =>
    /\ f.w.on = "open" /\ Mine(f.w)
    /\ f.w.form.files \subseteq f.sent.form.files
    /\ f.w.sel # f.sent.sel => f.w.form.files = {}
    /\ f.w.pend \in {0, f.sent.pend}
    /\ f.event # NoEvent =>
         /\ f.w.form.files = {} /\ f.w.pend = 0
         /\ f.w.sel = f.sent.sel => f.kind \in {"save", "next"}
         /\ f.sent.pend # 0 => f.event.rid = f.sent.pend

PageEvidence(g, f, X) ==
  /\ f # NoMessage => Sent(f).on = "open" /\ Mine(Sent(f))
  /\ Replied(f)
  /\ g.w.on = "new" => f = NoMessage
  /\ g.w.on = "gone" => f.status # "answered"
  /\ g.w.on # "open" => g.m = FreshMemory
  /\ g.w.on = "open" => OpenEvidence(g, f, X)

Evidence ==
  /\ {"stray", "givenUp"} \subseteq DOMAIN history
  /\ \A e \in Entities : server.content[e].of = e
  /\ \A p \in Pages : PageEvidence(Page(p), flight[p], Excused(p, history))

-----------------------------------------------------------------------------
(* Steps that leave the evidence alone *)

\* A status line with a state for every finding.
Sober(u) ==
  /\ DOMAIN u = {"st", "label"} /\ DOMAIN u.st = Entities
  /\ \A e \in Entities : {"dirty", "evidence", "before"} \subseteq DOMAIN u.st[e]

\* Whoever was told of evidence still is, but for the findings of X.
Guarded(u, v, X) ==
  Sober(v) /\ \A e \in Entities \ X : Shielded(u.st[e]) => Shielded(v.st[e])

\* A page with its parts.
Framed(g) ==
  /\ DOMAIN g = {"w", "m", "u"} /\ Sober(g.u)
  /\ {"on", "sel", "form", "pend"} \subseteq DOMAIN g.w /\ g.w.sel \in Entities \cup {Nothing}
  /\ {"pay", "files"} \subseteq DOMAIN g.w.form /\ "of" \in DOMAIN g.w.form.pay
  /\ {"evRev", "jobs", "conf", "attempts", "broken", "save"} \subseteq DOMAIN g.m
  /\ g.m.evRev \in [Entities -> Nat] /\ (\E S : g.m.jobs \in [Entities -> Seq(S)])
  /\ \A x \in g.m.attempts : x.e \in Entities /\ x.rid # 0

\* The component shows the same.
SameForm(v, w) ==
  /\ w.on = v.on /\ w.sel = v.sel /\ w.form.files = v.form.files
  /\ w.form.pay.of = v.form.pay.of

\* No deletion starts, and confirmations stay linked.
SameLinks(m, n) == Wiping(n) \subseteq Wiping(m) /\ (Linked(m) => Linked(n))

\* No confirmation starts in a page that uses the store.
SameTasks(m, n) ==
  ~ n.broken => /\ ~ m.broken
                /\ \A t \in n.conf : t.att = NoAttempt \/ \E s \in m.conf : s.att = t.att

\* An attempt is one of before, or of no more than has been counted.
SameAttempts(g, h, X) ==
  \A x \in h.m.attempts :
    \/ x.e \in X
    \/ Counts(h, x)
    \/ x \in g.m.attempts /\ (x.rid = h.w.pend => x.rid = g.w.pend)

\* The evidence of h is that of g, but for the findings of X.
Kept(g, h, X) ==
  /\ Framed(h) /\ SameForm(g.w, h.w) /\ SameLinks(g.m, h.m) /\ SameTasks(g.m, h.m)
  /\ SameAttempts(g, h, X)
  /\ \A e \in Entities \ X : h.m.evRev[e] = g.m.evRev[e]
  /\ Guarded(g.u, h.u, X)

\* A save under way stays so, and nothing else is attempted meanwhile.
Onward(g, h) ==
  g.m.save.phase = "sent" => h.m.save.phase = "sent" /\ h.m.attempts \subseteq g.m.attempts

\* The save under way is left alone, and nothing else is attempted.
Calm(g, h) == h.m.save = g.m.save /\ h.m.attempts \subseteq g.m.attempts

\* A page of a context has all its parts.
LEMMA ViewIsFramed ==
  ASSUME NEW c \in Contexts, NEW g, IsView(g, c)
  PROVE  Framed(g)
<1>1. g.w \in Components(c) /\ g.m \in Memories(c) /\ g.u \in Statuses /\ DOMAIN g = {"w", "m", "u"}
  BY DEF IsView, Views
<1>2. Sober(g.u)
  BY <1>1 DEF Statuses, EntityStates, Sober
<1>3. /\ {"on", "sel", "form", "pend"} \subseteq DOMAIN g.w /\ g.w.sel \in Entities \cup {Nothing}
      /\ {"pay", "files"} \subseteq DOMAIN g.w.form /\ "of" \in DOMAIN g.w.form.pay
  BY <1>1 DEF Components, Forms, Payloads
<1>4. /\ {"evRev", "jobs", "conf", "attempts", "broken", "save"} \subseteq DOMAIN g.m
      /\ g.m.evRev \in [Entities -> Nat] /\ g.m.jobs \in [Entities -> Seq(Jobs(c))]
  BY <1>1 DEF Memories
<1>5. \A x \in g.m.attempts : x.e \in Entities /\ x.rid # 0
  <2> SUFFICES ASSUME NEW x \in g.m.attempts PROVE x.e \in Entities /\ x.rid # 0
    OBVIOUS
  <2>1. x \in AttemptFields(c)
    BY <1>1 DEF Memories, Attempts
  <2>2. x.e \in Entities /\ x.rid \in 1 .. c.now /\ c.now \in Nat
    BY <2>1 DEF AttemptFields, Contexts
  <2> QED BY <2>2
<1> QED BY <1>1, <1>2, <1>3, <1>4, <1>5 DEF Framed

\* Nothing changes.
LEMMA KeptSelf ==
  ASSUME NEW g, Framed(g), NEW X
  PROVE  Kept(g, g, X)
BY DEF Kept, SameForm, SameLinks, SameTasks, SameAttempts, Guarded, Framed

\* What has been kept has its parts.
LEMMA KeptFrames ==
  ASSUME NEW X, NEW g, NEW h, Kept(g, h, X)
  PROVE  Framed(h)
BY DEF Kept

\* One change after another.
LEMMA KeptTwice ==
  ASSUME NEW X, NEW g, NEW h, NEW k, Kept(g, h, X), Kept(h, k, X)
  PROVE  Kept(g, k, X)
<1>1. /\ Framed(k) /\ SameForm(g.w, k.w) /\ SameLinks(g.m, k.m)
  BY DEF Kept, SameForm, SameLinks
<1>2. SameTasks(g.m, k.m)
  BY DEF Kept, SameTasks
<1>3. \A e \in Entities \ X : k.m.evRev[e] = h.m.evRev[e] /\ h.m.evRev[e] = g.m.evRev[e]
  BY DEF Kept
<1>4. SameAttempts(g, k, X)
  BY <1>3 DEF Kept, SameAttempts, Counts, Framed
<1>5. Guarded(g.u, k.u, X)
  BY DEF Kept, Guarded
<1> QED BY <1>1, <1>2, <1>3, <1>4, <1>5 DEF Kept

\* A bystander: of the page only what the evidence is not about has changed.
LEMMA Bystander ==
  ASSUME NEW X, NEW g, Framed(g), NEW h, DOMAIN h = {"w", "m", "u"}, h.w = g.w,
         {"evRev", "jobs", "conf", "attempts", "broken", "save"} \subseteq DOMAIN h.m,
         h.m.evRev = g.m.evRev, h.m.jobs = g.m.jobs, h.m.conf = g.m.conf,
         h.m.attempts \subseteq g.m.attempts, g.m.broken => h.m.broken,
         Guarded(g.u, h.u, X)
  PROVE  Kept(g, h, X)
<1>1. Framed(h) /\ SameForm(g.w, h.w) /\ SameTasks(g.m, h.m) /\ SameAttempts(g, h, X)
  BY DEF Framed, Guarded, SameForm, SameTasks, SameAttempts
<1>2. SameLinks(g.m, h.m)
  BY DEF SameLinks, Wiping, Linked
<1> QED BY <1>1, <1>2 DEF Kept

\* So has nothing else, and the save under way.
LEMMA AsideKept ==
  ASSUME NEW X, NEW g, Framed(g), NEW h, DOMAIN h = {"w", "m", "u"}, h.w = g.w, h.u = g.u,
         {"evRev", "jobs", "conf", "attempts", "broken", "save"} \subseteq DOMAIN h.m,
         h.m.evRev = g.m.evRev, h.m.jobs = g.m.jobs, h.m.conf = g.m.conf,
         h.m.attempts \subseteq g.m.attempts, g.m.broken => h.m.broken, h.m.save = g.m.save
  PROVE  Kept(g, h, X) /\ Calm(g, h)
<1>1. Guarded(g.u, h.u, X)
  BY DEF Guarded, Framed
<1>2. Kept(g, h, X)
  BY <1>1, Bystander
<1> QED BY <1>2 DEF Calm

\* What the status line is told leaves the evidence, but for a finding that is clean.
LEMMA StatusGuards ==
  ASSUME NEW u, Sober(u), NEW e \in Entities, NEW X, NEW shown, NEW on
  PROVE  /\ Guarded(u, u, X)
         /\ \A label : Guarded(u, WithLabel(u, label), X)
         /\ \A label : Guarded(u, WithLabelFor(u, e, shown, label), X)
         /\ \A ev : Guarded(u, OnInput(u, e, ev, on), X)
         /\ \A stale : Guarded(u, OnPersisted(u, e, stale, FALSE, shown, on), X)
         /\ Guarded(u, OnDirty(u, e, FALSE, shown, on), X)
         /\ Guarded(u, OnFailed(u, e, shown, on), X)
         /\ \A clear : (clear => e \in X) =>
              /\ Guarded(u, OnClean(u, e, clear, shown, on), X)
              /\ Guarded(u, OnDirty(u, e, clear, shown, on), X)
              /\ \A stale : Guarded(u, OnPersisted(u, e, stale, clear, shown, on), X)
<1>1. Guarded(u, u, X)
  BY DEF Guarded
<1>2. ASSUME NEW s, {"dirty", "evidence", "before"} \subseteq DOMAIN s,
             e \in X \/ (Shielded(u.st[e]) => Shielded(s)), NEW label, NEW k
      PROVE  /\ Guarded(u, WithLabelFor([u EXCEPT !.st[e] = s], e, k, label), X)
             /\ Guarded(u, Told(u, e, s, k, on), X)
  <2>1. PICK v : v = [u EXCEPT !.st[e] = s]
    OBVIOUS
  <2>2. Guarded(u, v, X)
    BY <1>2, <2>1 DEF Guarded, Sober
  <2>3. \A l : Guarded(u, WithLabelFor(v, e, k, l), X)
    BY <2>2 DEF Guarded, Sober, WithLabelFor, WithLabel
  <2> QED BY <2>1, <2>3 DEF Told
<1>3. \A label : Guarded(u, WithLabel(u, label), X) /\ Guarded(u, WithLabelFor(u, e, shown, label), X)
  BY <1>1 DEF Guarded, Sober, WithLabel, WithLabelFor
<1>4. PICK s : s = u.st[e]
  OBVIOUS
<1>5. {"dirty", "evidence", "before"} \subseteq DOMAIN s
  BY <1>4 DEF Sober
<1>6. \A ev : Guarded(u, OnInput(u, e, ev, on), X)
  <2> TAKE ev
  <2>1. PICK n : n = [s EXCEPT !.dirty = TRUE, !.durable = FALSE, !.status = "local",
                               !.evidence = @ \/ ev]
    OBVIOUS
  <2>2. {"dirty", "evidence", "before"} \subseteq DOMAIN n /\ n.dirty = TRUE
        /\ (n.evidence = (s.evidence \/ ev))
    BY <1>5, <2>1
  <2>3. Shielded(s) => Shielded(n)
    BY <2>2, Zenon DEF Shielded
  <2>4. OnInput(u, e, ev, on) = Told(u, e, n, e, on)
    BY <1>4, <2>1 DEF OnInput
  <2> QED BY <1>2, <1>4, <2>2, <2>3, <2>4
<1>11. ASSUME NEW clear, clear => e \in X
       PROVE  \E k : /\ k = Cleared(s, clear) /\ {"dirty", "evidence", "before"} \subseteq DOMAIN k
                     /\ e \in X \/ (Shielded(s) => k.evidence)
  <2>1. CASE clear
    <3>1. PICK k : k = [s EXCEPT !.evidence = FALSE]
      OBVIOUS
    <3>2. k = Cleared(s, clear) /\ e \in X
      BY <1>11, <2>1, <3>1, Zenon DEF Cleared
    <3>3. {"dirty", "evidence", "before"} \subseteq DOMAIN k
      BY <1>5, <3>1
    <3> QED BY <3>2, <3>3
  <2>2. CASE ~ clear
    <3>1. s = Cleared(s, clear)
      BY <2>2, Zenon DEF Cleared
    <3>2. Shielded(s) => s.evidence
      BY Zenon DEF Shielded
    <3> QED BY <1>5, <3>1, <3>2
  <2> QED BY <2>1, <2>2, Zenon
<1>7. ASSUME NEW stale, NEW clear, clear => e \in X
      PROVE  Guarded(u, OnPersisted(u, e, stale, clear, shown, on), X)
  <2>0. PICK k : /\ k = Cleared(s, clear) /\ {"dirty", "evidence", "before"} \subseteq DOMAIN k
                 /\ e \in X \/ (Shielded(s) => k.evidence)
    BY <1>7, <1>11
  <2>1. PICK n : n = [k EXCEPT !.dirty = TRUE, !.durable = TRUE,
                               !.status = IF stale THEN "stale" ELSE "local"]
    OBVIOUS
  <2>2. {"dirty", "evidence", "before"} \subseteq DOMAIN n /\ n.dirty = TRUE /\ n.evidence = k.evidence
    BY <2>0, <2>1
  <2>3. e \in X \/ (Shielded(s) => Shielded(n))
    BY <2>0, <2>2, Zenon DEF Shielded
  <2>4. OnPersisted(u, e, stale, clear, shown, on) = Told(u, e, n, shown, on)
    BY <1>4, <2>0, <2>1, Zenon DEF OnPersisted
  <2> QED BY <1>2, <1>4, <2>2, <2>3, <2>4
<1>8. ASSUME NEW clear, clear => e \in X
      PROVE  Guarded(u, OnDirty(u, e, clear, shown, on), X)
  <2>0. PICK k : /\ k = Cleared(s, clear) /\ {"dirty", "evidence", "before"} \subseteq DOMAIN k
                 /\ e \in X \/ (Shielded(s) => k.evidence)
    BY <1>8, <1>11
  <2>1. PICK n : n = [k EXCEPT !.dirty = TRUE, !.durable = FALSE, !.status = "local"]
    OBVIOUS
  <2>2. {"dirty", "evidence", "before"} \subseteq DOMAIN n /\ n.dirty = TRUE /\ n.evidence = k.evidence
    BY <2>0, <2>1
  <2>3. e \in X \/ (Shielded(s) => Shielded(n))
    BY <2>0, <2>2, Zenon DEF Shielded
  <2>4. OnDirty(u, e, clear, shown, on) = Told(u, e, n, shown, on)
    BY <1>4, <2>0, <2>1, Zenon DEF OnDirty
  <2> QED BY <1>2, <1>4, <2>2, <2>3, <2>4
<1>12. \A stale : Guarded(u, OnPersisted(u, e, stale, FALSE, shown, on), X)
  BY <1>7
<1>13. Guarded(u, OnDirty(u, e, FALSE, shown, on), X)
  BY <1>8
<1>9. Guarded(u, OnFailed(u, e, shown, on), X)
  <2>1. PICK n : n = [s EXCEPT !.dirty = TRUE, !.durable = FALSE, !.status = "storage_error"]
    OBVIOUS
  <2>2. {"dirty", "evidence", "before"} \subseteq DOMAIN n /\ n.dirty = TRUE /\ n.evidence = s.evidence
    BY <1>5, <2>1
  <2>3. Shielded(s) => Shielded(n)
    BY <2>2, Zenon DEF Shielded
  <2>4. OnFailed(u, e, shown, on) = Told(u, e, n, shown, on)
    BY <1>4, <2>1 DEF OnFailed
  <2> QED BY <1>2, <1>4, <2>2, <2>3, <2>4
<1>10. ASSUME NEW clear, clear => e \in X
       PROVE  Guarded(u, OnClean(u, e, clear, shown, on), X)
  <2>1. PICK n : n = [s EXCEPT !.dirty = TRUE, !.durable = FALSE, !.status = "local"]
    OBVIOUS
  <2>2. {"dirty", "evidence", "before"} \subseteq DOMAIN n /\ n.dirty = TRUE /\ n.evidence = s.evidence
    BY <1>5, <2>1
  <2>3. PICK k : k = [Pristine EXCEPT !.before = s.before]
    OBVIOUS
  <2>4. {"dirty", "evidence", "before"} \subseteq DOMAIN k
    BY <2>3 DEF Pristine
  <2>5. CASE ~ clear /\ s.evidence
    <3>1. OnClean(u, e, clear, shown, on) = Told(u, e, n, shown, on)
      BY <1>4, <2>1, <2>5, Zenon DEF OnClean
    <3>2. Shielded(s) => Shielded(n)
      BY <2>2, Zenon DEF Shielded
    <3> QED BY <1>2, <1>4, <2>2, <3>1, <3>2
  <2>6. CASE clear \/ ~ s.evidence
    <3>1. OnClean(u, e, clear, shown, on) =
            WithLabelFor([u EXCEPT !.st[e] = k], e, shown, "saved")
      BY <1>4, <2>3, <2>6, Zenon DEF OnClean
    <3>2. e \in X \/ (Shielded(s) => Shielded(k))
      BY <1>10, <2>6, Zenon DEF Shielded
    <3> QED BY <1>2, <1>4, <2>4, <3>1, <3>2
  <2> QED BY <2>5, <2>6, Zenon
<1> QED BY <1>1, <1>3, <1>6, <1>7, <1>8, <1>9, <1>10, <1>12, <1>13

\* What is kept of the evidence is enough.
LEMMA KeptEvidence ==
  ASSUME NEW X, NEW Y, X \subseteq Y, NEW g, NEW h, NEW f, OpenEvidence(g, f, X),
         Framed(g), Kept(g, h, Y), Onward(g, h) \/ f = NoMessage
  PROVE  OpenEvidence(h, f, Y)
<1>1. Mine(h.w) /\ Wiping(h.m) \subseteq Y /\ Linked(h.m)
  BY DEF OpenEvidence, Kept, SameForm, SameLinks, Mine
<1>2. Warned(h, Y)
  BY DEF OpenEvidence, Kept, SameForm, Warned, Guarded
<1>3. \A e \in Entities \ Y : h.m.evRev[e] = g.m.evRev[e]
  BY DEF Kept
<1>4. Lives(h, f, Y)
  <2> SUFFICES ASSUME NEW x \in h.m.attempts, x.e \notin Y, x.rid \in {h.w.pend, Carried(f)}
               PROVE  Counts(h, x)
    BY DEF Lives
  <2>1. CASE Counts(h, x)
    BY <2>1
  <2>2. CASE x \in g.m.attempts /\ (x.rid = h.w.pend => x.rid = g.w.pend)
    <3>1. x.e \notin X /\ x.rid \in {g.w.pend, Carried(f)}
      BY <2>2
    <3>2. Counts(g, x) /\ x.e \in Entities
      BY <2>2, <3>1 DEF OpenEvidence, Lives, Framed
    <3> QED BY <1>3, <3>2 DEF Counts
  <2> QED BY <2>1, <2>2 DEF Kept, SameAttempts
<1>5. \A x : x.e \in Entities \ Y /\ Counts(g, x) => Counts(h, x)
  BY <1>3 DEF Counts
<1>6. \A x : x.e \in Entities \ Y /\ Passed(g, x) => Passed(h, x)
  BY <1>3 DEF Passed, Kept, SameForm
<1>7. Asked(h, f, Y)
  <2>1. f.kind \in {"save", "next"} /\ f # NoMessage =>
          /\ h.m.save.phase = "sent"
          /\ Sent(f).form.files = {} =>
              \A x \in h.m.attempts : x.rid = Carried(f) /\ x.e \notin Y => Passed(h, x)
    <3> SUFFICES ASSUME f.kind \in {"save", "next"}, f # NoMessage
                 PROVE  /\ h.m.save.phase = "sent"
                        /\ Sent(f).form.files = {} =>
                            \A x \in h.m.attempts : x.rid = Carried(f) /\ x.e \notin Y => Passed(h, x)
      OBVIOUS
    <3>1. g.m.save.phase = "sent" /\ h.m.save.phase = "sent" /\ h.m.attempts \subseteq g.m.attempts
      BY DEF OpenEvidence, Asked, Onward
    <3>2. ASSUME NEW x \in h.m.attempts, Sent(f).form.files = {}, x.rid = Carried(f), x.e \notin Y
          PROVE  Passed(h, x)
      BY <1>6, <3>1, <3>2 DEF OpenEvidence, Asked, Framed
    <3> QED BY <3>1, <3>2
  <2> QED BY <2>1 DEF OpenEvidence, Asked, Kept, SameForm
<1>8. Tasked(h, Y)
  <2> SUFFICES ASSUME ~ h.m.broken, NEW t \in h.m.conf, t.att # NoAttempt, t.att.e \notin Y
               PROVE  Counts(h, t.att) /\ Passed(h, t.att)
    BY DEF Tasked
  <2>1. ~ g.m.broken
    BY DEF Kept, SameTasks
  <2>2. PICK s \in g.m.conf : s.att = t.att
    BY DEF Kept, SameTasks
  <2>3. Counts(g, t.att) /\ Passed(g, t.att)
    BY <2>1, <2>2 DEF OpenEvidence, Tasked
  <2>4. t.att.e \in Entities \ Y
    BY <2>3 DEF Counts
  <2> QED BY <1>5, <1>6, <2>3, <2>4
<1> QED BY <1>1, <1>2, <1>4, <1>7, <1>8 DEF OpenEvidence

\* The status line changes.
LEMMA TellKept ==
  ASSUME NEW X, NEW g, Framed(g), NEW v, Guarded(g.u, v, X)
  PROVE  Kept(g, [g EXCEPT !.u = v], X) /\ [g EXCEPT !.u = v].m = g.m
<1>1. PICK h : h = [g EXCEPT !.u = v]
  OBVIOUS
<1>2. /\ DOMAIN h = {"w", "m", "u"} /\ h.w = g.w /\ h.m = g.m /\ h.u = v
      /\ {"evRev", "jobs", "conf", "attempts", "broken", "save"} \subseteq DOMAIN g.m
  BY <1>1 DEF Framed
<1>3. Kept(g, h, X)
  BY <1>2, Bystander
<1> QED BY <1>1, <1>2, <1>3

\* So does the memory, in what the evidence is not about.
LEMMA MemoryKept ==
  ASSUME NEW X, NEW g, Framed(g), NEW n,
         {"evRev", "jobs", "conf", "attempts", "broken", "save"} \subseteq DOMAIN n,
         n.evRev = g.m.evRev, n.jobs = g.m.jobs, n.conf = g.m.conf,
         n.attempts \subseteq g.m.attempts, g.m.broken => n.broken
  PROVE  Kept(g, [g EXCEPT !.m = n], X)
<1>1. PICK h : h = [g EXCEPT !.m = n]
  OBVIOUS
<1>2. DOMAIN h = {"w", "m", "u"} /\ h.w = g.w /\ h.m = n /\ h.u = g.u
  BY <1>1 DEF Framed
<1>3. Guarded(g.u, h.u, X)
  BY <1>2 DEF Guarded, Framed
<1>4. Kept(g, h, X)
  BY <1>2, <1>3, Bystander
<1> QED BY <1>1, <1>4

\* A label is shown.
LEMMA LabelGuards ==
  ASSUME NEW u, Sober(u), NEW X, NEW e, NEW shown, NEW label
  PROVE  Guarded(u, WithLabel(u, label), X) /\ Guarded(u, WithLabelFor(u, e, shown, label), X)
BY DEF Guarded, Sober, WithLabel, WithLabelFor

\* The same job, perhaps with another plan.
SameJob(x, y) == x.do = y.do /\ (x.do = "confirm" => x.task = y.task)

\* The queues hold what they held, but for a first job that is gone and for jobs that
\* neither confirm nor delete.
LEMMA LinksShift ==
  ASSUME NEW m, NEW n, NEW o \in [Entities -> {0, 1}], n.conf = m.conf, m.broken => n.broken,
         \A e \in Entities : \A i \in DOMAIN n.jobs[e] :
           /\ i \in Nat
           /\ \/ n.jobs[e][i].do \notin {"wipe", "confirm"}
              \/ i + o[e] \in DOMAIN m.jobs[e] /\ SameJob(n.jobs[e][i], m.jobs[e][i + o[e]])
  PROVE  SameLinks(m, n)
<1>1. Wiping(n) \subseteq Wiping(m)
  BY DEF Wiping, SameJob
<1>2. Linked(m) => Linked(n)
  <2> SUFFICES ASSUME Linked(m), ~ n.broken
               PROVE  Linked(n)
    BY DEF Linked
  <2>1. ~ m.broken
    OBVIOUS
  <2>2. \A s, t \in n.conf : s.key = t.key => s = t
    BY <2>1 DEF Linked
  <2>3. ASSUME NEW e \in Entities, NEW i \in DOMAIN n.jobs[e], n.jobs[e][i].do = "confirm"
        PROVE  /\ n.jobs[e][i].task \in n.conf /\ n.jobs[e][i].task.phase = "job"
               /\ n.jobs[e][i].task.e = e
               /\ \A j \in DOMAIN n.jobs[e] :
                    n.jobs[e][j].do = "confirm" /\ n.jobs[e][j].task = n.jobs[e][i].task => i = j
    <3>1. /\ i + o[e] \in DOMAIN m.jobs[e] /\ m.jobs[e][i + o[e]].do = "confirm"
          /\ m.jobs[e][i + o[e]].task = n.jobs[e][i].task
      BY <2>3 DEF SameJob
    <3>2. /\ n.jobs[e][i].task \in n.conf /\ n.jobs[e][i].task.phase = "job"
          /\ n.jobs[e][i].task.e = e
      BY <2>1, <3>1 DEF Linked
    <3>3. ASSUME NEW j \in DOMAIN n.jobs[e], n.jobs[e][j].do = "confirm",
                 n.jobs[e][j].task = n.jobs[e][i].task
          PROVE  i = j
      <4>1. /\ j + o[e] \in DOMAIN m.jobs[e] /\ m.jobs[e][j + o[e]].do = "confirm"
            /\ m.jobs[e][j + o[e]].task = m.jobs[e][i + o[e]].task
        BY <3>1, <3>3 DEF SameJob
      <4>2. i + o[e] = j + o[e]
        BY <2>1, <3>1, <4>1 DEF Linked
      <4>3. i \in Nat /\ j \in Nat /\ o[e] \in {0, 1}
        OBVIOUS
      <4> QED BY <4>2, <4>3
    <3> QED BY <3>2, <3>3
  <2> QED BY <2>2, <2>3 DEF Linked
<1> QED BY <1>1, <1>2 DEF SameLinks

\* The queues change, with their jobs in place.
LEMMA QueuesKept ==
  ASSUME NEW X, NEW g, Framed(g), NEW S, NEW q \in [Entities -> Seq(S)],
         NEW n, n = [g.m EXCEPT !.jobs = q], SameLinks(g.m, n)
  PROVE  Kept(g, [g EXCEPT !.m.jobs = q], X) /\ Calm(g, [g EXCEPT !.m.jobs = q])
<1>2. PICK h : h = [g EXCEPT !.m.jobs = q]
  OBVIOUS
<1>3. DOMAIN h = {"w", "m", "u"} /\ h.w = g.w /\ h.m = n /\ h.u = g.u
  BY <1>2 DEF Framed
<1>4. /\ {"evRev", "jobs", "conf", "attempts", "broken", "save"} \subseteq DOMAIN n /\ n.jobs = q
      /\ n.evRev = g.m.evRev /\ n.conf = g.m.conf /\ n.attempts = g.m.attempts /\ n.broken = g.m.broken
      /\ n.save = g.m.save
  BY DEF Framed
<1>5. Framed(h)
  BY <1>3, <1>4 DEF Framed
<1>6. SameForm(g.w, h.w) /\ SameTasks(g.m, h.m) /\ SameAttempts(g, h, X) /\ Guarded(g.u, h.u, X)
  BY <1>3, <1>4 DEF Framed, SameForm, SameTasks, SameAttempts, Guarded
<1>7. Kept(g, h, X) /\ Calm(g, h)
  BY <1>3, <1>4, <1>5, <1>6 DEF Kept, Calm
<1> QED BY <1>2, <1>7

\* A queue changes: its jobs are those of before, or those after the first one, or
\* neither confirm nor delete.
LEMMA QueueKept ==
  ASSUME NEW X, NEW g, Framed(g), NEW e \in Entities, NEW S, NEW s \in Seq(S), NEW k \in {0, 1},
         \A i \in DOMAIN s :
           \/ s[i].do \notin {"wipe", "confirm"}
           \/ i + k \in DOMAIN g.m.jobs[e] /\ SameJob(s[i], g.m.jobs[e][i + k])
  PROVE  Kept(g, Replaced(g, e, s), X) /\ Calm(g, Replaced(g, e, s))
<1>1. PICK T : g.m.jobs \in [Entities -> Seq(T)]
  BY DEF Framed
<1>2. PICK U : U = S \cup T
  OBVIOUS
<1>3. s \in Seq(U) /\ \A x \in Entities : g.m.jobs[x] \in Seq(U)
  BY <1>1, <1>2, SeqWider
<1>4. PICK q : q = [g.m.jobs EXCEPT ![e] = s]
  OBVIOUS
<1>5. q \in [Entities -> Seq(U)] /\ q[e] = s /\ \A x \in Entities \ {e} : q[x] = g.m.jobs[x]
  BY <1>1, <1>3, <1>4
<1>6. PICK o \in [Entities -> {0, 1}] : o = [x \in Entities |-> IF x = e THEN k ELSE 0]
  OBVIOUS
<1>7. PICK n : n = [g.m EXCEPT !.jobs = q]
  OBVIOUS
<1>8. n.conf = g.m.conf /\ n.broken = g.m.broken /\ n.jobs = q
  BY <1>7 DEF Framed
<1>9. ASSUME NEW x \in Entities, NEW i \in DOMAIN n.jobs[x]
      PROVE  /\ i \in Nat
             /\ \/ n.jobs[x][i].do \notin {"wipe", "confirm"}
                \/ i + o[x] \in DOMAIN g.m.jobs[x] /\ SameJob(n.jobs[x][i], g.m.jobs[x][i + o[x]])
  <2>1. i \in Nat
    BY <1>5, <1>8
  <2>2. CASE x = e
    BY <1>5, <1>6, <1>8, <2>1, <2>2
  <2>3. CASE x # e
    <3>1. i \in DOMAIN g.m.jobs[x] /\ n.jobs[x][i] = g.m.jobs[x][i] /\ o[x] = 0
      BY <1>5, <1>6, <1>8, <2>3
    <3>2. i + o[x] = i
      BY <2>1, <3>1
    <3> QED BY <2>1, <3>1, <3>2 DEF SameJob
  <2> QED BY <2>2, <2>3
<1>10. SameLinks(g.m, n)
  BY <1>8, <1>9, LinksShift
<1>11. Kept(g, [g EXCEPT !.m.jobs = q], X) /\ Calm(g, [g EXCEPT !.m.jobs = q])
  BY <1>5, <1>7, <1>10, QueuesKept
<1>12. Replaced(g, e, s) = [g EXCEPT !.m.jobs = q]
  BY <1>4 DEF Replaced, Framed
<1> QED BY <1>11, <1>12

\* A job is queued.
LEMMA QueuedKept ==
  ASSUME NEW X, NEW g, Framed(g), NEW e \in Entities, NEW job, job.do \notin {"wipe", "confirm"}
  PROVE  Kept(g, Queued(g, e, job), X) /\ Calm(g, Queued(g, e, job))
<1>1. PICK T : g.m.jobs \in [Entities -> Seq(T)]
  BY DEF Framed
<1>2. PICK s : s = Append(g.m.jobs[e], job)
  OBVIOUS
<1>3. PICK S : S = T \cup {job}
  OBVIOUS
<1>4. g.m.jobs[e] \in Seq(S) /\ job \in S
  BY <1>1, <1>3, SeqWider
<1>5. /\ s \in Seq(S)
      /\ \A i \in DOMAIN s : s[i] = job \/ (i \in DOMAIN g.m.jobs[e] /\ s[i] = g.m.jobs[e][i])
  BY <1>2, <1>4, SeqAppend
<1>6. ASSUME NEW i \in DOMAIN s
      PROVE  \/ s[i].do \notin {"wipe", "confirm"}
             \/ i + 0 \in DOMAIN g.m.jobs[e] /\ SameJob(s[i], g.m.jobs[e][i + 0])
  <2>1. i + 0 = i
    BY <1>5
  <2> QED BY <1>5, <2>1 DEF SameJob
<1>7. Kept(g, Replaced(g, e, s), X) /\ Calm(g, Replaced(g, e, s))
  BY <1>5, <1>6, QueueKept
<1>8. Queued(g, e, job) = Replaced(g, e, s)
  BY <1>2, Zenon DEF Queued, Replaced
<1> QED BY <1>7, <1>8

\* A job is taken from its queue.
LEMMA PoppedKept ==
  ASSUME NEW X, NEW g, Framed(g), NEW e \in Entities, g.m.jobs[e] # <<>>
  PROVE  Kept(g, Popped(g, e), X) /\ Calm(g, Popped(g, e))
<1>1. PICK T : g.m.jobs \in [Entities -> Seq(T)]
  BY DEF Framed
<1>2. PICK s : s = Tail(g.m.jobs[e])
  OBVIOUS
<1>3. s \in Seq(T) /\ \A i \in DOMAIN s : i + 1 \in DOMAIN g.m.jobs[e] /\ s[i] = g.m.jobs[e][i + 1]
  BY <1>1, <1>2, SeqTail
<1>4. \A i \in DOMAIN s : i + 1 \in DOMAIN g.m.jobs[e] /\ SameJob(s[i], g.m.jobs[e][i + 1])
  BY <1>3 DEF SameJob
<1>5. Kept(g, Replaced(g, e, s), X) /\ Calm(g, Replaced(g, e, s))
  BY <1>3, <1>4, QueueKept
<1>6. Popped(g, e) = Replaced(g, e, s)
  BY <1>2, Zenon DEF Popped, Replaced
<1> QED BY <1>5, <1>6

\* The first job of a queue has a plan.
LEMMA PlannedKept ==
  ASSUME NEW X, NEW g, Framed(g), NEW e \in Entities, g.m.jobs[e] # <<>>, NEW plan,
         NEW c, g.m.jobs[e][1] \in Jobs(c)
  PROVE  Kept(g, Planned(g, e, plan), X) /\ Calm(g, Planned(g, e, plan))
<1>1. PICK T : g.m.jobs \in [Entities -> Seq(T)]
  BY DEF Framed
<1>2. PICK job : job = [g.m.jobs[e][1] EXCEPT !.plan = plan]
  OBVIOUS
<1>3. SameJob(job, g.m.jobs[e][1])
  <2>1. /\ "do" \in DOMAIN g.m.jobs[e][1]
        /\ g.m.jobs[e][1].do = "confirm" => "task" \in DOMAIN g.m.jobs[e][1]
    BY DEF Jobs, Persists, Marks, Unmarks, Adopts, Confirms, Wipes
  <2> QED BY <1>2, <2>1 DEF SameJob
<1>4. PICK s : s = [g.m.jobs[e] EXCEPT ![1] = job]
  OBVIOUS
<1>5. PICK S : S = T \cup {job}
  OBVIOUS
<1>6. g.m.jobs[e] \in Seq(S) /\ job \in S
  BY <1>1, <1>5, SeqWider
<1>7. /\ s \in Seq(S) /\ DOMAIN s = DOMAIN g.m.jobs[e] /\ s[1] = job
      /\ \A i \in DOMAIN g.m.jobs[e] : i # 1 => s[i] = g.m.jobs[e][i]
  BY <1>4, <1>6, SeqPut
<1>8. ASSUME NEW i \in DOMAIN s
      PROVE  i + 0 \in DOMAIN g.m.jobs[e] /\ SameJob(s[i], g.m.jobs[e][i + 0])
  <2>1. i + 0 = i
    BY <1>7
  <2> QED BY <1>3, <1>7, <2>1 DEF SameJob
<1>9. Kept(g, Replaced(g, e, s), X) /\ Calm(g, Replaced(g, e, s))
  BY <1>7, <1>8, QueueKept
<1>10. Planned(g, e, plan) = Replaced(g, e, s)
  BY <1>2, <1>4, Zenon DEF Planned, Replaced
<1> QED BY <1>9, <1>10
\* The helpers of the script: the queue aside.
LEMMA HelpersKept ==
  ASSUME NEW X, NEW g, Framed(g), NEW label
  PROVE  /\ Kept(g, RecoveryDue(g), X) /\ Calm(g, RecoveryDue(g))
         /\ Kept(g, Failure(g), X) /\ Calm(g, Failure(g))
         /\ Kept(g, SaveEnds(g, label), X) /\ Kept(g, SaveFails(g), X)
<1>1. Kept(g, RecoveryDue(g), X) /\ Calm(g, RecoveryDue(g))
  <2>1. PICK h : h = RecoveryDue(g)
    OBVIOUS
  <2>2. /\ DOMAIN h = {"w", "m", "u"} /\ h.w = g.w /\ h.u = g.u
        /\ {"evRev", "jobs", "conf", "attempts", "broken", "save"} \subseteq DOMAIN h.m
        /\ h.m.evRev = g.m.evRev /\ h.m.jobs = g.m.jobs /\ h.m.conf = g.m.conf
        /\ h.m.attempts = g.m.attempts /\ h.m.broken = g.m.broken /\ h.m.save = g.m.save
    BY <2>1 DEF RecoveryDue, Framed
  <2>3. Guarded(g.u, h.u, X)
    BY <2>2 DEF Guarded, Framed
  <2>4. Kept(g, h, X)
    BY <2>2, <2>3, Bystander
  <2> QED BY <2>1, <2>2, <2>4 DEF Calm
<1>2. Kept(g, Failure(g), X) /\ Calm(g, Failure(g))
  <2>1. PICK h : h = Failure(g)
    OBVIOUS
  <2>2. PICK u : u = WithLabel(g.u, "storage_error")
    OBVIOUS
  <2>3. PICK v : v = IF g.w.sel = Nothing THEN u ELSE OnFailed(u, g.w.sel, g.w.sel, online)
    OBVIOUS
  <2>4. /\ DOMAIN h = {"w", "m", "u"} /\ h.w = g.w /\ h.u = v
        /\ {"evRev", "jobs", "conf", "attempts", "broken", "save"} \subseteq DOMAIN h.m
        /\ h.m.evRev = g.m.evRev /\ h.m.jobs = g.m.jobs /\ h.m.conf = g.m.conf
        /\ h.m.attempts = g.m.attempts /\ h.m.broken = TRUE /\ h.m.save = g.m.save
    BY <2>1, <2>2, <2>3 DEF Failure, Framed
  <2>5. Guarded(g.u, u, X) /\ Sober(u)
    BY <2>2, LabelGuards DEF Framed, Guarded
  <2>6. Guarded(u, v, X)
    <3>1. CASE g.w.sel = Nothing
      BY <2>3, <2>5, <3>1 DEF Guarded
    <3>2. CASE g.w.sel \in Entities /\ g.w.sel # Nothing
      BY <2>3, <2>5, <3>2, StatusGuards
    <3> QED BY <3>1, <3>2 DEF Framed
  <2>7. Guarded(g.u, h.u, X)
    BY <2>4, <2>5, <2>6 DEF Guarded
  <2>8. Kept(g, h, X)
    BY <2>4, <2>7, Bystander
  <2> QED BY <2>1, <2>4, <2>8 DEF Calm
<1>3. \A l : Kept(g, SaveEnds(g, l), X)
  <2> TAKE l
  <2>1. PICK h : h = SaveEnds(g, l)
    OBVIOUS
  <2>2. /\ DOMAIN h = {"w", "m", "u"} /\ h.w = g.w
        /\ h.u = WithLabelFor(g.u, g.m.save.e, g.w.sel, l)
        /\ {"evRev", "jobs", "conf", "attempts", "broken", "save"} \subseteq DOMAIN h.m
        /\ h.m.evRev = g.m.evRev /\ h.m.jobs = g.m.jobs /\ h.m.conf = g.m.conf
        /\ h.m.attempts = g.m.attempts /\ h.m.broken = g.m.broken
    BY <2>1 DEF SaveEnds, Framed
  <2>3. Guarded(g.u, h.u, X)
    BY <2>2, LabelGuards DEF Framed
  <2>4. Kept(g, h, X)
    BY <2>2, <2>3, Bystander
  <2> QED BY <2>1, <2>4
<1> QED BY <1>1, <1>2, <1>3 DEF SaveFails

\* The save moves on.
LEMMA SavePhaseKept ==
  ASSUME NEW X, NEW g, Framed(g), NEW d
  PROVE  Kept(g, [g EXCEPT !.m.save.draft = d], X) /\ Kept(g, [g EXCEPT !.m.save.phase = d], X)
<1>1. ASSUME NEW h, h = [g EXCEPT !.m.save.draft = d] \/ h = [g EXCEPT !.m.save.phase = d]
      PROVE  Kept(g, h, X)
  <2>1. /\ DOMAIN h = {"w", "m", "u"} /\ h.w = g.w /\ h.u = g.u
        /\ {"evRev", "jobs", "conf", "attempts", "broken", "save"} \subseteq DOMAIN h.m
        /\ h.m.evRev = g.m.evRev /\ h.m.jobs = g.m.jobs /\ h.m.conf = g.m.conf
        /\ h.m.attempts = g.m.attempts /\ h.m.broken = g.m.broken
    BY <1>1 DEF Framed
  <2>2. Guarded(g.u, h.u, X)
    BY <2>1 DEF Guarded, Framed
  <2> QED BY <2>1, <2>2, Bystander
<1> QED BY <1>1

\* An attempt to save is noted: it counts what evidence there is.
LEMMA AttemptedKept ==
  ASSUME NEW X, NEW g, Framed(g), g.m.save.e \in Entities, NEW pay, NEW id, NEW rid, rid # 0
  PROVE  Kept(g, AttemptedNow(g, pay, id, rid), X)
<1>1. PICK h : h = AttemptedNow(g, pay, id, rid)
  OBVIOUS
<1>2. PICK e \in Entities : e = g.m.save.e
  OBVIOUS
<1>3. PICK a : a = [rid |-> rid, e |-> e, id |-> id, pay |-> pay,
                    rev |-> g.m.rev[e], evRev |-> g.m.evRev[e]]
  OBVIOUS
<1>4. /\ DOMAIN h = {"w", "m", "u"} /\ h.w = [g.w EXCEPT !.pend = rid] /\ h.u = g.u
      /\ {"evRev", "jobs", "conf", "attempts", "broken", "save"} \subseteq DOMAIN h.m
      /\ h.m.evRev = g.m.evRev /\ h.m.jobs = g.m.jobs /\ h.m.conf = g.m.conf
      /\ h.m.attempts = {x \in g.m.attempts : x.rid # rid} \cup {a}
      /\ h.m.broken = g.m.broken
  BY <1>1, <1>2, <1>3 DEF AttemptedNow, Framed
<1>5. /\ {"on", "sel", "form", "pend"} \subseteq DOMAIN h.w /\ h.w.pend = rid
      /\ h.w.on = g.w.on /\ h.w.sel = g.w.sel /\ h.w.form = g.w.form
  BY <1>4 DEF Framed
<1>6. SameForm(g.w, h.w) /\ SameTasks(g.m, h.m)
  BY <1>4, <1>5 DEF SameForm, SameTasks
<1>7. SameLinks(g.m, h.m)
  BY <1>4 DEF SameLinks, Wiping, Linked
<1>8. Framed(h)
  BY <1>3, <1>4, <1>5 DEF Framed
<1>9. SameAttempts(g, h, X)
  <2>1. Counts(h, a)
    BY <1>3, <1>4 DEF Counts, Framed
  <2> QED BY <1>4, <1>5, <2>1 DEF SameAttempts
<1>10. Guarded(g.u, h.u, X)
  BY <1>4 DEF Guarded, Framed
<1> QED BY <1>1, <1>4, <1>6, <1>7, <1>8, <1>9, <1>10 DEF Kept
\* A save that goes on, or not.
LEMMA SaveKept ==
  ASSUME NEW X, NEW g, Framed(g), g.m.save.e \in Entities, NEW d
  PROVE  /\ Kept(g, AfterPersist(g, d), X) /\ Kept(g, AfterRepersist(g, d), X)
         /\ Kept(g, AfterMark(g), X)
         /\ \A rid : rid # 0 => Kept(g, WithoutDraft(g, rid), X)
<1>0. ASSUME NEW h, Kept(g, h, X), NEW e \in Entities, NEW job, job.do \notin {"wipe", "confirm"}
      PROVE  Kept(g, Queued(h, e, job), X)
  <2>1. Framed(h)
    BY <1>0 DEF Kept
  <2>2. Kept(h, Queued(h, e, job), X)
    BY <1>0, <2>1, QueuedKept
  <2> QED BY <1>0, <2>2, KeptTwice
<1>1. Kept(g, AfterPersist(g, d), X)
  <2>1. PICK h : h = [g EXCEPT !.m.save.draft = d]
    OBVIOUS
  <2>2. PICK k : k = [h EXCEPT !.m.save.phase = "mark"]
    OBVIOUS
  <2>3. Kept(g, h, X) /\ Framed(h)
    BY <2>1, SavePhaseKept, KeptFrames
  <2>4. Kept(g, k, X) /\ Kept(g, SaveEnds(h, "offline"), X)
    BY <2>2, <2>3, SavePhaseKept, HelpersKept, KeptTwice
  <2>5. PICK job : job = DraftJob("mark", d)
    OBVIOUS
  <2>6. job.do = "mark"
    BY <2>5 DEF DraftJob
  <2>7. Kept(g, Queued(k, g.m.save.e, job), X)
    BY <1>0, <2>4, <2>6
  <2>8. AfterPersist(g, d) = IF ~ online THEN SaveEnds(h, "offline") ELSE Queued(k, g.m.save.e, job)
    BY <2>1, <2>2, <2>5 DEF AfterPersist
  <2> QED BY <2>4, <2>7, <2>8
<1>2. Kept(g, AfterRepersist(g, d), X)
  <2>1. PICK h : h = [g EXCEPT !.m.save.draft = d]
    OBVIOUS
  <2>2. PICK k : k = [h EXCEPT !.m.save.phase = "mark"]
    OBVIOUS
  <2>3. PICK n : n = [h EXCEPT !.m.save.phase = "unmark"]
    OBVIOUS
  <2>4. Kept(g, h, X) /\ Framed(h)
    BY <2>1, SavePhaseKept, KeptFrames
  <2>5. Kept(g, k, X) /\ Kept(g, n, X)
    BY <2>2, <2>3, <2>4, SavePhaseKept, KeptTwice
  <2>6. PICK job : job = DraftJob("mark", d)
    OBVIOUS
  <2>7. PICK undo : undo = UnmarkJob(d)
    OBVIOUS
  <2>8. job.do = "mark" /\ undo.do = "unmark"
    BY <2>6, <2>7 DEF DraftJob, UnmarkJob
  <2>9. Kept(g, Queued(k, g.m.save.e, job), X) /\ Kept(g, Queued(n, g.m.save.e, undo), X)
    BY <1>0, <2>5, <2>8
  <2>10. AfterRepersist(g, d) = IF g.m.save.tries < Preparations THEN Queued(k, g.m.save.e, job)
                                ELSE Queued(n, g.m.save.e, undo)
    BY <2>1, <2>2, <2>3, <2>6, <2>7 DEF AfterRepersist
  <2> QED BY <2>9, <2>10
<1>3. Kept(g, AfterMark(g), X)
  <2>1. PICK s : s = g.m.save
    OBVIOUS
  <2>2. PICK latest : latest = DraftPayload(g.w.form)
    OBVIOUS
  <2>3. PICK h : h = [g EXCEPT !.m.save.phase = "ready"]
    OBVIOUS
  <2>4. PICK k : k = [g EXCEPT !.m.attempts = {a \in @ : a.rid # s.rid},
                        !.m.save.pay = latest, !.m.save.phase = "repersist",
                        !.m.save.tries = @ + 1]
    OBVIOUS
  <2>5. PICK job : job = PersistJob(latest, s.base, "save")
    OBVIOUS
  <2>6. AfterMark(g) = IF latest = s.pay THEN h ELSE Queued(k, s.e, job)
    BY <2>1, <2>2, <2>3, <2>4, <2>5 DEF AfterMark
  <2>7. Kept(g, h, X)
    BY <2>3, SavePhaseKept
  <2>8. Kept(g, k, X)
    <3>1. /\ DOMAIN k = {"w", "m", "u"} /\ k.w = g.w /\ k.u = g.u
          /\ {"evRev", "jobs", "conf", "attempts", "broken", "save"} \subseteq DOMAIN k.m
          /\ k.m.evRev = g.m.evRev /\ k.m.jobs = g.m.jobs /\ k.m.conf = g.m.conf
          /\ k.m.attempts \subseteq g.m.attempts /\ k.m.broken = g.m.broken
      BY <2>4 DEF Framed
    <3>2. Guarded(g.u, k.u, X)
      BY <3>1 DEF Guarded, Framed
    <3> QED BY <3>1, <3>2, Bystander
  <2>9. job.do = "persist"
    BY <2>5 DEF PersistJob
  <2>10. Kept(g, Queued(k, s.e, job), X)
    BY <1>0, <2>1, <2>8, <2>9
  <2> QED BY <2>6, <2>7, <2>10
<1>4. ASSUME NEW rid, rid # 0
      PROVE  Kept(g, WithoutDraft(g, rid), X)
  <2>1. PICK h : h = AttemptedNow(g, g.m.save.pay, 0, rid)
    OBVIOUS
  <2>2. PICK k : k = [h EXCEPT !.m.save.phase = "ready"]
    OBVIOUS
  <2>3. Kept(g, h, X) /\ Framed(h)
    BY <1>4, <2>1, AttemptedKept, KeptFrames
  <2>4. Kept(g, k, X)
    BY <2>2, <2>3, SavePhaseKept, KeptTwice
  <2>5. WithoutDraft(g, rid) = IF ~ online THEN SaveEnds(g, "storage_error") ELSE k
    BY <2>1, <2>2 DEF WithoutDraft
  <2> QED BY <2>4, <2>5, HelpersKept
<1> QED BY <1>1, <1>2, <1>3, <1>4

\* What the page remembers of a draft, and what it says of it.
LEMMA ActivatedKept ==
  ASSUME NEW X, NEW g, Framed(g), NEW e, NEW id, NEW u, Guarded(g.u, u, X)
  PROVE  Kept(g, Activated(g, e, id, u), X) /\ Calm(g, Activated(g, e, id, u))
<1>1. PICK h : h = Activated(g, e, id, u)
  OBVIOUS
<1>2. /\ DOMAIN h = {"w", "m", "u"} /\ h.w = g.w /\ h.u = u
      /\ {"evRev", "jobs", "conf", "attempts", "broken", "save"} \subseteq DOMAIN h.m
      /\ h.m.evRev = g.m.evRev /\ h.m.jobs = g.m.jobs /\ h.m.conf = g.m.conf
      /\ h.m.attempts = g.m.attempts /\ h.m.broken = g.m.broken /\ h.m.save = g.m.save
  BY <1>1 DEF Activated, Framed
<1>3. Kept(g, h, X)
  BY <1>2, Bystander
<1> QED BY <1>1, <1>2, <1>3 DEF Calm

\* An edit is kept, a draft is adopted, the drafts of a finding are gone.
LEMMA WrittenKept ==
  ASSUME NEW X, NEW g, Framed(g), NEW e \in Entities, NEW job
  PROVE  /\ Kept(g, Persisted(g, e, job), X) /\ Calm(g, Persisted(g, e, job))
         /\ Kept(g, AdoptedIn(g, e, job), X) /\ Calm(g, AdoptedIn(g, e, job))
         /\ e \in X => Kept(g, WipedIn(g, e), X) /\ Calm(g, WipedIn(g, e))
<1>1. Kept(g, Persisted(g, e, job), X) /\ Calm(g, Persisted(g, e, job))
  <2>1. PICK u : u = OnPersisted(g.u, e, job.plan.put.base # job.base, FALSE, g.w.sel, online)
    OBVIOUS
  <2>2. Guarded(g.u, u, X)
    BY <2>1, StatusGuards DEF Framed
  <2>3. Persisted(g, e, job) = Activated(g, e, job.plan.put.id, u)
    BY <2>1, Zenon DEF Persisted, Activated
  <2> QED BY <2>2, <2>3, ActivatedKept
<1>2. Kept(g, AdoptedIn(g, e, job), X) /\ Calm(g, AdoptedIn(g, e, job))
  <2>1. PICK h : h = AdoptedIn(g, e, job)
    OBVIOUS
  <2>2. PICK u : u = OnPersisted(g.u, e, job.stale, FALSE, g.w.sel, online)
    OBVIOUS
  <2>3. PICK label : label = IF ~ online THEN "offline" ELSE IF job.stale THEN "stale" ELSE "local"
    OBVIOUS
  <2>4. /\ DOMAIN h = {"w", "m", "u"} /\ h.w = g.w /\ h.u = WithLabel(u, label)
        /\ {"evRev", "jobs", "conf", "attempts", "broken", "save"} \subseteq DOMAIN h.m
        /\ h.m.evRev = g.m.evRev /\ h.m.jobs = g.m.jobs /\ h.m.conf = g.m.conf
        /\ h.m.attempts = g.m.attempts /\ h.m.broken = g.m.broken /\ h.m.save = g.m.save
    BY <2>1, <2>2, <2>3 DEF AdoptedIn, OnRestored, Framed
  <2>5. Guarded(g.u, u, X) /\ Sober(u)
    BY <2>2, StatusGuards DEF Framed, Guarded
  <2>6. Guarded(u, WithLabel(u, label), X)
    BY <2>5, LabelGuards
  <2>7. Guarded(g.u, h.u, X)
    BY <2>4, <2>5, <2>6 DEF Guarded
  <2>8. Kept(g, h, X)
    BY <2>4, <2>7, Bystander
  <2> QED BY <2>1, <2>4, <2>8 DEF Calm
<1>3. ASSUME e \in X
      PROVE  Kept(g, WipedIn(g, e), X) /\ Calm(g, WipedIn(g, e))
  <2>1. PICK h : h = WipedIn(g, e)
    OBVIOUS
  <2>2. /\ DOMAIN h = {"w", "m", "u"} /\ h.w = g.w /\ h.u = OnClean(g.u, e, TRUE, g.w.sel, online)
        /\ {"evRev", "jobs", "conf", "attempts", "broken", "save"} \subseteq DOMAIN h.m
        /\ h.m.evRev = g.m.evRev /\ h.m.jobs = g.m.jobs /\ h.m.conf = g.m.conf
        /\ h.m.attempts = g.m.attempts /\ h.m.broken = g.m.broken /\ h.m.save = g.m.save
    BY <2>1 DEF WipedIn, Framed
  <2>5. \A clear : (clear => e \in X) => Guarded(g.u, OnClean(g.u, e, clear, g.w.sel, online), X)
    BY StatusGuards DEF Framed
  <2>3. Guarded(g.u, h.u, X)
    BY <1>3, <2>2, <2>5, Zenon
  <2>4. Kept(g, h, X)
    BY <2>2, <2>3, Bystander
  <2> QED BY <2>1, <2>2, <2>4 DEF Calm
<1> QED BY <1>1, <1>2, <1>3
\* What is calm goes on.
LEMMA CalmGoesOn ==
  ASSUME NEW g, NEW h, Calm(g, h)
  PROVE  Onward(g, h) /\ \A k : Calm(h, k) => Calm(g, k)
BY DEF Calm, Onward

\* A confirmation that is under way and that no job is about.
Loose(m, t) ==
  /\ t \in m.conf
  /\ \A e \in Entities : \A i \in DOMAIN m.jobs[e] :
       m.jobs[e][i].do = "confirm" => m.jobs[e][i].task # t

\* A confirmation makes way for its next state, or for nothing.
LEMMA TaskKept ==
  ASSUME NEW X, NEW g, Framed(g), NEW t, Linked(g.m) /\ ~ g.m.broken => Loose(g.m, t),
         NEW S, \A s \in S : s.key = t.key /\ s.att = t.att /\ \A r \in S : r = s,
         ~ g.m.broken /\ S # {} => t \in g.m.conf,
         NEW h, DOMAIN h = {"w", "m", "u"}, h.w = g.w, h.u = g.u,
         {"evRev", "jobs", "conf", "attempts", "broken", "save"} \subseteq DOMAIN h.m,
         h.m.evRev = g.m.evRev, h.m.jobs = g.m.jobs, h.m.conf = (g.m.conf \ {t}) \cup S,
         h.m.attempts \subseteq g.m.attempts, h.m.broken = g.m.broken, h.m.save = g.m.save
  PROVE  Kept(g, h, X) /\ Calm(g, h)
<1>1. Framed(h) /\ SameForm(g.w, h.w) /\ SameAttempts(g, h, X) /\ Guarded(g.u, h.u, X)
  BY DEF Framed, Guarded, SameForm, SameAttempts
<1>2. SameTasks(g.m, h.m)
  BY DEF SameTasks
<1>3. ASSUME Linked(g.m), ~ h.m.broken
      PROVE  Linked(h.m)
  <2>1. Loose(g.m, t) /\ ~ g.m.broken
    BY <1>3
  <2>2. \A x, y \in h.m.conf : x.key = y.key => x = y
    BY <1>3, <2>1 DEF Linked, Loose
  <2>3. ASSUME NEW e \in Entities, NEW i \in DOMAIN h.m.jobs[e], h.m.jobs[e][i].do = "confirm"
        PROVE  /\ h.m.jobs[e][i].task \in h.m.conf /\ h.m.jobs[e][i].task.phase = "job"
               /\ h.m.jobs[e][i].task.e = e
               /\ \A j \in DOMAIN h.m.jobs[e] :
                    h.m.jobs[e][j].do = "confirm" /\ h.m.jobs[e][j].task = h.m.jobs[e][i].task
                      => i = j
    BY <1>3, <2>1, <2>3 DEF Linked, Loose
  <2> QED BY <2>2, <2>3 DEF Linked
<1>4. SameLinks(g.m, h.m)
  <2>1. Wiping(h.m) = Wiping(g.m)
    BY DEF Wiping
  <2> QED BY <1>3, <2>1 DEF SameLinks, Linked
<1> QED BY <1>1, <1>2, <1>4 DEF Kept, Calm

\* A confirmation has treated its draft.
LEMMA TreatedKept ==
  ASSUME NEW X, NEW g, Framed(g), NEW c, NEW task \in Tasks(c), Loose(g.m, task), NEW plan
  PROVE  Kept(g, Treated(g, task, plan), X) /\ Calm(g, Treated(g, task, plan))
<1>1. PICK s : s = TreatedTask(task, plan)
  OBVIOUS
<1>2. s.key = task.key /\ s.att = task.att
  BY <1>1 DEF TreatedTask, Tasks, TaskFields
<1>3. PICK h : h = Treated(g, task, plan)
  OBVIOUS
<1>4. /\ DOMAIN h = {"w", "m", "u"} /\ h.w = g.w /\ h.u = g.u
      /\ {"evRev", "jobs", "conf", "attempts", "broken", "save"} \subseteq DOMAIN h.m
      /\ h.m.evRev = g.m.evRev /\ h.m.jobs = g.m.jobs /\ h.m.conf = (g.m.conf \ {task}) \cup {s}
      /\ h.m.attempts = g.m.attempts /\ h.m.broken = g.m.broken /\ h.m.save = g.m.save
  <2>1. PICK conf : conf = (g.m.conf \ {task}) \cup {s}
    OBVIOUS
  <2>2. PICK pay : pay = IF Keeps(plan) THEN NoPayload ELSE g.m.newer[task.e]
    OBVIOUS
  <2>3. PICK id : id = IF plan.tag = "continue" THEN plan.put.id
                       ELSE IF plan.tag = "remove" /\ plan.del = {g.m.active[task.e]} THEN 0
                       ELSE g.m.active[task.e]
    OBVIOUS
  <2>4. PICK out : out = IF plan.tag = "remove" /\ g.m.shown.draft.id \in plan.del THEN NoShown
                         ELSE g.m.shown
    OBVIOUS
  <2>5. h = [g EXCEPT !.m.conf = conf, !.m.newer[task.e] = pay, !.m.active[task.e] = id,
                      !.m.shown = out]
    BY <1>1, <1>3, <2>1, <2>2, <2>3, <2>4, Zenon DEF Treated, TreatedTask
  <2> QED BY <2>1, <2>5 DEF Framed
<1>5. \A x \in {s} : x.key = task.key /\ x.att = task.att /\ \A r \in {s} : r = x
  BY <1>2
<1>6. task \in g.m.conf
  BY DEF Loose
<1>7. Kept(g, h, X) /\ Calm(g, h)
  BY <1>4, <1>5, <1>6, TaskKept
<1> QED BY <1>3, <1>7

\* The save goes on for its finding.
LEMMA AttemptedSave ==
  ASSUME NEW g, Framed(g), "e" \in DOMAIN g.m.save, NEW pay, NEW id, NEW rid
  PROVE  AttemptedNow(g, pay, id, rid).m.save.e = g.m.save.e
<1>1. PICK as : as = {a \in g.m.attempts : a.rid # rid} \cup
                     {[rid |-> rid, e |-> g.m.save.e, id |-> id, pay |-> pay,
                       rev |-> g.m.rev[g.m.save.e], evRev |-> g.m.evRev[g.m.save.e]]}
  OBVIOUS
<1>2. AttemptedNow(g, pay, id, rid)
        = [g EXCEPT !.m.attempts = as, !.w.pend = rid, !.m.save.rid = rid]
  BY <1>1, Zenon DEF AttemptedNow
<1>3. [g EXCEPT !.m.attempts = as, !.w.pend = rid, !.m.save.rid = rid].m.save.e = g.m.save.e
  BY DEF Framed
<1> QED BY <1>2, <1>3

\* What follows a job that is done.
LEMMA JobKept ==
  ASSUME NEW X, NEW c \in Contexts, NEW g, IsView(g, c), NEW e \in Entities, NEW job \in Jobs(c),
         job.plan # Unplanned, Freed(g, e, job), job.do = "confirm" => Loose(g.m, job.task),
         job.do = "wipe" => e \in X
  PROVE  Kept(g, AfterJob(g, e, job), X) /\ Onward(g, AfterJob(g, e, job))
<1>0. Framed(g)
  BY ViewIsFramed
<1>1. PICK d : d = job.plan.put
  OBVIOUS
<1>2. PICK h : h = Persisted(g, e, job)
  OBVIOUS
<1>3. Kept(g, h, X) /\ Calm(g, h) /\ Framed(h)
  BY <1>0, <1>2, WrittenKept, KeptFrames
<1>4. CASE job.do = "persist" /\ job.by # "save"
  <2>1. AfterJob(g, e, job) = h
    BY <1>2, <1>4 DEF AfterJob
  <2> QED BY <1>3, <2>1, CalmGoesOn
<1>11. SaveWork(job) => g.m.save.e = e /\ g.m.save.phase \in {"persist", "repersist", "mark", "unmark"}
  BY DEF Freed, SaveWork, Fitting
<1>12. SaveWork(job) => \A k : Onward(g, k)
  BY <1>11 DEF Onward
<1>13. h.m.save = g.m.save
  BY <1>3 DEF Calm
<1>5. CASE job.do = "persist" /\ job.by = "save"
  <2>1. g.m.save.phase \in {"persist", "repersist"} /\ SaveWork(job) /\ h.m.save.e \in Entities
    BY <1>5, <1>11, <1>13 DEF Freed, SaveWork, Fitting
  <2>2. CASE g.m.save.phase = "persist"
    <3>1. AfterJob(g, e, job) = AfterPersist(h, d)
      BY <1>1, <1>2, <1>5, <2>2 DEF AfterJob
    <3> QED BY <1>3, <1>12, <2>1, <3>1, SaveKept, KeptTwice
  <2>3. CASE g.m.save.phase = "repersist"
    <3>1. AfterJob(g, e, job) = AfterRepersist(h, d)
      BY <1>1, <1>2, <1>5, <2>3 DEF AfterJob
    <3> QED BY <1>3, <1>12, <2>1, <3>1, SaveKept, KeptTwice
  <2> QED BY <2>1, <2>2, <2>3
<1>6. CASE job.do = "mark"
  <2>1. PICK k : k = [g EXCEPT !.m.save.draft = d]
    OBVIOUS
  <2>2. PICK n : n = AttemptedNow(k, d.pay, d.id, d.req)
    OBVIOUS
  <2>3. AfterJob(g, e, job) = AfterMark(n)
    BY <1>1, <1>6, <2>1, <2>2 DEF AfterJob
  <2>4. Kept(g, k, X) /\ Framed(k)
    BY <1>0, <2>1, SavePhaseKept, KeptFrames
  <2>5. SaveWork(job) /\ g.m.save.e = e /\ "e" \in DOMAIN g.m.save
    <3>1. SaveWork(job) /\ g.m.save.e = e /\ g.m.save # NoSave
      BY <1>6 DEF Freed, SaveWork, Saving
    <3>2. g.m.save \in Saves(c)
      BY DEF IsView, Views, Memories
    <3> QED BY <3>1, <3>2 DEF Saves, RunningSaves
  <2>6. k.m.save.e = e /\ "e" \in DOMAIN k.m.save
    BY <1>0, <2>1, <2>5 DEF Framed
  <2>7. d \in Drafts(c)
    BY <1>1, <1>6, PutJobs
  <2>8. d.req # 0
    BY <2>7, LegitFields DEF Contexts
  <2>9. Kept(k, n, X) /\ Framed(n)
    BY <2>2, <2>4, <2>6, <2>8, AttemptedKept, KeptFrames
  <2>10. n.m.save.e = e
    BY <2>2, <2>4, <2>6, AttemptedSave
  <2>11. Kept(n, AfterMark(n), X)
    BY <2>9, <2>10, SaveKept
  <2> QED BY <1>12, <2>3, <2>4, <2>5, <2>9, <2>11, KeptTwice
<1>7. CASE job.do = "unmark"
  <2>1. PICK k : k = [g EXCEPT !.w.pend = 0]
    OBVIOUS
  <2>2. AfterJob(g, e, job) = SaveEnds(k, "local")
    BY <1>7, <2>1 DEF AfterJob
  <2>3. Kept(g, k, X)
    <3>1. DOMAIN k = {"w", "m", "u"} /\ k.w = [g.w EXCEPT !.pend = 0] /\ k.m = g.m /\ k.u = g.u
      BY <1>0, <2>1 DEF Framed
    <3>2. /\ k.w.on = g.w.on /\ k.w.sel = g.w.sel /\ k.w.form = g.w.form /\ k.w.pend = 0
          /\ {"on", "sel", "form", "pend"} \subseteq DOMAIN k.w
      BY <1>0, <3>1 DEF Framed
    <3>3. Framed(k) /\ SameForm(g.w, k.w) /\ SameTasks(g.m, k.m) /\ SameLinks(g.m, k.m)
          /\ Guarded(g.u, k.u, X)
      BY <1>0, <3>1, <3>2 DEF Framed, SameForm, SameTasks, SameLinks, Guarded
    <3>4. SameAttempts(g, k, X)
      BY <1>0, <3>1, <3>2 DEF SameAttempts, Framed
    <3> QED BY <3>1, <3>3, <3>4 DEF Kept
  <2>4. Kept(k, SaveEnds(k, "local"), X) /\ SaveWork(job)
    BY <1>7, <2>3, HelpersKept, KeptFrames DEF SaveWork
  <2> QED BY <1>12, <2>2, <2>3, <2>4, KeptTwice
<1>8. CASE job.do = "adopt"
  <2>1. AfterJob(g, e, job) = AdoptedIn(g, e, job)
    BY <1>8 DEF AfterJob
  <2> QED BY <1>0, <2>1, WrittenKept, CalmGoesOn
<1>9. CASE job.do = "confirm"
  <2>1. AfterJob(g, e, job) = Treated(g, job.task, job.plan)
    BY <1>9 DEF AfterJob
  <2>2. job.task \in Tasks(c)
    BY <1>9 DEF Jobs, Persists, Marks, Unmarks, Adopts, Confirms, Wipes
  <2> QED BY <1>0, <1>9, <2>1, <2>2, TreatedKept, CalmGoesOn
<1>10. CASE job.do = "wipe"
  <2>1. PICK k : k = WipedIn(g, e)
    OBVIOUS
  <2>2. Kept(g, k, X) /\ Calm(g, k) /\ Framed(k)
    BY <1>0, <1>10, <2>1, WrittenKept, KeptFrames
  <2>3. AfterJob(g, e, job) = RecoveryDue(k)
    BY <1>10, <2>1 DEF AfterJob
  <2>4. Kept(k, RecoveryDue(k), X) /\ Calm(k, RecoveryDue(k))
    BY <2>2, HelpersKept
  <2> QED BY <2>2, <2>3, <2>4, KeptTwice, CalmGoesOn
<1> QED BY <1>4, <1>5, <1>6, <1>7, <1>8, <1>9, <1>10, JobKinds
\* What follows a job that fails.
LEMMA FailedKept ==
  ASSUME NEW X, NEW c \in Contexts, NEW g, IsView(g, c), NEW e \in Entities, NEW job \in Jobs(c),
         Freed(g, e, job), NEW rid, rid # 0,
         job.do = "confirm" /\ Linked(g.m) /\ ~ g.m.broken => Loose(g.m, job.task)
  PROVE  Kept(g, AfterFailedJob(g, job, rid), X) /\ Onward(g, AfterFailedJob(g, job, rid))
<1>0. Framed(g)
  BY ViewIsFramed
<1>1. PICK f : f = Failure(g)
  OBVIOUS
<1>2. Kept(g, f, X) /\ Calm(g, f) /\ Framed(f) /\ Onward(g, f)
  BY <1>0, <1>1, HelpersKept, KeptFrames, CalmGoesOn
<1>3. f.m.save = g.m.save
  BY <1>2 DEF Calm
<1>4. SaveWork(job) => /\ g.m.save.e = e /\ \A k : Onward(g, k)
                       /\ g.m.save # NoSave /\ "e" \in DOMAIN g.m.save
  <2>1. SaveWork(job) => /\ g.m.save.e = e /\ g.m.save # NoSave
                         /\ g.m.save.phase \in {"persist", "repersist", "mark", "unmark"}
    BY DEF Freed, SaveWork, Fitting, Saving
  <2>2. g.m.save \in Saves(c)
    BY DEF IsView, Views, Memories
  <2>3. g.m.save # NoSave => "e" \in DOMAIN g.m.save
    BY <2>2 DEF Saves, RunningSaves
  <2> QED BY <2>1, <2>3 DEF Onward
<1>5. CASE job.do = "persist" /\ job.by = "save"
  <2>1. g.m.save.phase \in {"persist", "repersist"} /\ SaveWork(job)
    BY <1>5 DEF Freed, SaveWork, Fitting
  <2>2. CASE g.m.save.phase = "persist"
    <3>1. AfterFailedJob(g, job, rid) = WithoutDraft(f, rid)
      BY <1>1, <1>5, <2>2 DEF AfterFailedJob
    <3>2. f.m.save.e \in Entities
      BY <1>3, <1>4, <2>1
    <3>3. Kept(f, WithoutDraft(f, rid), X)
      BY <1>2, <3>2, SaveKept
    <3> QED BY <1>2, <1>4, <2>1, <3>1, <3>3, KeptTwice
  <2>3. CASE g.m.save.phase = "repersist"
    <3>1. AfterFailedJob(g, job, rid) = SaveFails(g)
      BY <1>5, <2>3 DEF AfterFailedJob
    <3> QED BY <1>0, <1>4, <2>1, <3>1, HelpersKept
  <2> QED BY <2>1, <2>2, <2>3
<1>6. CASE job.do = "mark"
  <2>1. PICK d \in Drafts(c) : d = job.draft
    BY <1>6, JobKinds DEF Marks
  <2>2. PICK n : n = AttemptedNow(f, d.pay, d.id, d.req)
    OBVIOUS
  <2>3. AfterFailedJob(g, job, rid) = AfterMark(n)
    BY <1>1, <1>6, <2>1, <2>2 DEF AfterFailedJob
  <2>4. d.req # 0
    BY LegitFields DEF Contexts
  <2>5. SaveWork(job) /\ f.m.save.e = e /\ "e" \in DOMAIN f.m.save
    BY <1>3, <1>4, <1>6 DEF SaveWork
  <2>8. n.m.save.e = e
    BY <1>2, <2>2, <2>5, AttemptedSave
  <2>9. Kept(f, n, X)
    BY <1>2, <2>2, <2>4, <2>5, AttemptedKept
  <2>6. Kept(f, n, X) /\ Framed(n) /\ n.m.save.e = e
    BY <2>8, <2>9, KeptFrames
  <2>7. Kept(n, AfterMark(n), X)
    BY <2>6, SaveKept
  <2> QED BY <1>2, <1>4, <2>3, <2>5, <2>6, <2>7, KeptTwice
<1>7. CASE job.do = "unmark"
  <2>1. AfterFailedJob(g, job, rid) = SaveFails(g)
    BY <1>7 DEF AfterFailedJob
  <2>2. SaveWork(job)
    BY <1>7 DEF SaveWork
  <2> QED BY <1>0, <1>4, <2>1, <2>2, HelpersKept
<1>8. CASE job.do = "confirm"
  <2>1. PICK k : k = [g EXCEPT !.m.conf = @ \ {job.task}]
    OBVIOUS
  <2>2. AfterFailedJob(g, job, rid) = Failure(k)
    BY <1>8, <2>1 DEF AfterFailedJob
  <2>3. /\ DOMAIN k = {"w", "m", "u"} /\ k.w = g.w /\ k.u = g.u
        /\ {"evRev", "jobs", "conf", "attempts", "broken", "save"} \subseteq DOMAIN k.m
        /\ k.m.evRev = g.m.evRev /\ k.m.jobs = g.m.jobs
        /\ k.m.conf = (g.m.conf \ {job.task}) \cup {}
        /\ k.m.attempts = g.m.attempts /\ k.m.broken = g.m.broken /\ k.m.save = g.m.save
    BY <1>0, <2>1 DEF Framed
  <2>4. \A s \in {} : s.key = job.task.key /\ s.att = job.task.att /\ \A r \in {} : r = s
    OBVIOUS
  <2>5. Kept(g, k, X) /\ Calm(g, k)
    BY <1>0, <1>8, <2>3, <2>4, TaskKept
  <2>6. Framed(k)
    BY <2>5, KeptFrames
  <2>7. Kept(k, Failure(k), X) /\ Calm(k, Failure(k))
    BY <2>6, HelpersKept
  <2> QED BY <2>2, <2>5, <2>7, KeptTwice, CalmGoesOn
<1>9. CASE job.do \in {"adopt", "wipe"} \/ (job.do = "persist" /\ job.by # "save")
  <2>1. AfterFailedJob(g, job, rid) = f
    BY <1>1, <1>9, Zenon DEF AfterFailedJob
  <2> QED BY <1>2, <2>1
<1> QED BY <1>5, <1>6, <1>7, <1>8, <1>9, JobKinds

\* The confirmation whose job is taken from the queue is in no other.
LEMMA PoppedLoose ==
  ASSUME NEW g, Framed(g), NEW e \in Entities, g.m.jobs[e] # <<>>, Linked(g.m), ~ g.m.broken,
         Head(g.m.jobs[e]).do = "confirm"
  PROVE  Loose(Popped(g, e).m, Head(g.m.jobs[e]).task)
<1>1. PICK T : g.m.jobs \in [Entities -> Seq(T)]
  BY DEF Framed
<1>2. PICK h : h = Popped(g, e)
  OBVIOUS
<1>3. PICK s : s = Tail(g.m.jobs[e])
  OBVIOUS
<1>4. h.m.conf = g.m.conf /\ h.m.jobs = [g.m.jobs EXCEPT ![e] = s]
  BY <1>2, <1>3 DEF Popped, Framed
<1>5. PICK t : t = g.m.jobs[e][1].task
  OBVIOUS
<1>6. /\ Head(g.m.jobs[e]) = g.m.jobs[e][1] /\ 1 \in DOMAIN g.m.jobs[e]
      /\ \A i \in DOMAIN s : i + 1 \in DOMAIN g.m.jobs[e] /\ s[i] = g.m.jobs[e][i + 1]
                             /\ i + 1 # 1 /\ i \in Nat
  BY <1>1, <1>3, SeqTail
<1>7. /\ t \in g.m.conf /\ t.e = e
      /\ \A j \in DOMAIN g.m.jobs[e] :
           g.m.jobs[e][j].do = "confirm" /\ g.m.jobs[e][j].task = t => 1 = j
  BY <1>5, <1>6 DEF Linked
<1>8. ASSUME NEW x \in Entities, NEW i \in DOMAIN h.m.jobs[x], h.m.jobs[x][i].do = "confirm"
      PROVE  h.m.jobs[x][i].task # t
  <2>1. CASE x = e
    <3>1. h.m.jobs[x] = s
      BY <1>1, <1>4, <2>1
    <3>2. /\ i + 1 \in DOMAIN g.m.jobs[e] /\ s[i] = g.m.jobs[e][i + 1] /\ i + 1 # 1
      BY <1>6, <3>1
    <3> QED BY <1>7, <1>8, <3>1, <3>2
  <2>2. CASE x # e
    <3>1. h.m.jobs[x] = g.m.jobs[x]
      BY <1>1, <1>4, <2>2
    <3>2. g.m.jobs[x][i].task.e = x
      BY <1>8, <3>1 DEF Linked
    <3> QED BY <1>7, <2>2, <3>1, <3>2
  <2> QED BY <2>1, <2>2
<1>9. Loose(h.m, t)
  BY <1>4, <1>7, <1>8 DEF Loose
<1> QED BY <1>2, <1>5, <1>6, <1>9

\* Past mishaps are not forgotten.
PastGrows ==
  /\ {"stray", "givenUp"} \subseteq DOMAIN history'
  /\ history.stray \subseteq history'.stray /\ history.givenUp \subseteq history'.givenUp

\* A step of one page that keeps its evidence.
Careful(p) ==
  \E h : /\ Kept(Page(p), h, Excused(p, history')) /\ Becomes(p, h)
         /\ Onward(Page(p), h) \/ flight[p] = NoMessage
         /\ UNCHANGED <<server, flight>> /\ PastGrows

\* The evidence of a page, in a context.
Watched(p) == OpenEvidence(Page(p), flight[p], Excused(p, history))
              /\ {"stray", "givenUp"} \subseteq DOMAIN history

\* The jobs of a queue.
LEMMA JobsCareful ==
  ASSUME NEW c \in Contexts, At(c), NEW p \in Pages, Watched(p), NEW e \in Entities,
         JobReads(p, e) \/ JobWrites(p, e) \/ JobFails(p, e) \/ TimerFires(p, e)
  PROVE  Careful(p)
<1>1. PICK g : g = Page(p)
  OBVIOUS
<1>2. IsView(g, c) /\ Framed(g)
  BY <1>1, PageIs, ViewIsFramed DEF At
<1>3. UNCHANGED <<server, flight, history>>
  BY DEF JobReads, JobWrites, JobFails, TimerFires
<1>4. PICK X : X = Excused(p, history)
  OBVIOUS
<1>5. X = Excused(p, history') /\ PastGrows /\ Wiping(g.m) \subseteq X /\ Linked(g.m)
  BY <1>1, <1>3, <1>4 DEF PastGrows, Watched, OpenEvidence
<1>6. \A h : Kept(g, h, X) /\ Onward(g, h) /\ Becomes(p, h) => Careful(p)
  BY <1>1, <1>3, <1>5 DEF Careful
<1>7. PICK job : job = Head(g.m.jobs[e])
  OBVIOUS
<1>8. PICK h : h = Popped(g, e)
  OBVIOUS
<1>9. ASSUME g.m.jobs[e] # <<>>
      PROVE  /\ IsView(h, c) /\ job \in Jobs(c) /\ Freed(h, e, job) /\ Kept(g, h, X) /\ Calm(g, h)
             /\ ~ g.m.broken /\ job.do = "confirm" => Loose(h.m, job.task)
             /\ job.do = "wipe" => e \in X
  <2>1. IsView(h, c) /\ job \in Jobs(c) /\ Freed(h, e, job) /\ Kept(g, h, X) /\ Calm(g, h)
    BY <1>2, <1>7, <1>8, <1>9, PoppedFreed, PoppedKept
  <2>2. ~ g.m.broken /\ job.do = "confirm" => Loose(h.m, job.task)
    BY <1>2, <1>5, <1>7, <1>8, <1>9, PoppedLoose
  <2>3. job.do = "wipe" => e \in X
    <3>1. PICK T : g.m.jobs \in [Entities -> Seq(T)]
      BY <1>2 DEF Framed
    <3>2. job = g.m.jobs[e][1] /\ 1 \in DOMAIN g.m.jobs[e]
      BY <1>7, <1>9, <3>1, SeqTail
    <3> QED BY <1>5, <3>2 DEF Wiping
  <2> QED BY <2>1, <2>2, <2>3
<1>10. CASE TimerFires(p, e)
  <2>1. PICK k : k = [g EXCEPT !.m.timer[e] = NoTimer]
    OBVIOUS
  <2>2. PICK j : j = PersistJob(g.m.timer[e].pay, g.m.timer[e].base, "timer")
    OBVIOUS
  <2>3. Becomes(p, Queued(k, e, j)) /\ j.do = "persist"
    BY <1>1, <1>10, <2>1, <2>2 DEF TimerFires, PersistJob
  <2>4. Kept(g, k, X) /\ Calm(g, k)
    <3>1. /\ DOMAIN k = {"w", "m", "u"} /\ k.w = g.w /\ k.u = g.u
          /\ {"evRev", "jobs", "conf", "attempts", "broken", "save"} \subseteq DOMAIN k.m
          /\ k.m.evRev = g.m.evRev /\ k.m.jobs = g.m.jobs /\ k.m.conf = g.m.conf
          /\ k.m.attempts = g.m.attempts /\ k.m.broken = g.m.broken /\ k.m.save = g.m.save
      BY <1>2, <2>1 DEF Framed
    <3>2. Guarded(g.u, k.u, X)
      BY <1>2, <3>1 DEF Guarded, Framed
    <3> QED BY <1>2, <3>1, <3>2, Bystander DEF Calm
  <2>5. Kept(k, Queued(k, e, j), X) /\ Calm(k, Queued(k, e, j))
    BY <2>3, <2>4, KeptFrames, QueuedKept
  <2> QED BY <1>6, <2>3, <2>4, <2>5, KeptTwice, CalmGoesOn
<1>11. CASE JobFails(p, e)
  <2>1. PICK k : k = AfterFailedJob(h, job, clock + 1)
    OBVIOUS
  <2>2. Becomes(p, k) /\ g.m.jobs[e] # <<>>
    BY <1>1, <1>7, <1>8, <1>11, <2>1, Zenon DEF JobFails, Popped
  <2>3. clock + 1 # 0
    BY DEF At, Contexts
  <2>4. h.m.broken = g.m.broken
    BY <1>2, <1>8 DEF Popped, Framed
  <2>5. Kept(h, k, X) /\ Onward(h, k)
    BY <1>9, <2>1, <2>2, <2>3, <2>4, FailedKept
  <2>6. Onward(g, k)
    BY <1>9, <2>2, <2>5 DEF Calm, Onward
  <2> QED BY <1>6, <1>9, <2>2, <2>5, <2>6, KeptTwice
<1>12. CASE JobWrites(p, e)
  <2>1. PICK k : k = AfterJob(h, e, job)
    OBVIOUS
  <2>2. Becomes(p, k) /\ g.m.jobs[e] # <<>> /\ job.plan # Unplanned /\ ~ g.m.broken
    BY <1>1, <1>7, <1>8, <1>12, <2>1, Zenon DEF JobWrites, Popped
  <2>3. Kept(h, k, X) /\ Onward(h, k)
    BY <1>9, <2>1, <2>2, JobKept
  <2>4. Onward(g, k)
    BY <1>9, <2>2, <2>3 DEF Calm, Onward
  <2> QED BY <1>6, <1>9, <2>2, <2>3, <2>4, KeptTwice
<1>13. CASE JobReads(p, e)
  <2>1. g.m.jobs[e] # <<>>
    BY <1>1, <1>13 DEF JobReads
  <2>2. g.m.jobs[e][1] \in Jobs(c)
    <3>1. g.m.jobs[e] \in Seq(Jobs(c))
      BY <1>2 DEF IsView, Views, Memories
    <3> QED BY <2>1, <3>1, SeqTail
  <2>3. \A plan : Kept(g, Planned(g, e, plan), X) /\ Calm(g, Planned(g, e, plan))
    BY <1>2, <2>1, <2>2, PlannedKept
  <2>4. \A plan, id : /\ Kept(g, [Planned(g, e, plan) EXCEPT !.m.active[e] = id], X)
                      /\ Calm(g, [Planned(g, e, plan) EXCEPT !.m.active[e] = id])
    <3> TAKE plan, id
    <3>1. PICK n : n = Planned(g, e, plan)
      OBVIOUS
    <3>2. Kept(g, n, X) /\ Calm(g, n) /\ Framed(n)
      BY <2>3, <3>1, KeptFrames
    <3>3. PICK k : k = [n EXCEPT !.m.active[e] = id]
      OBVIOUS
    <3>4. /\ DOMAIN k = {"w", "m", "u"} /\ k.w = n.w /\ k.u = n.u
          /\ {"evRev", "jobs", "conf", "attempts", "broken", "save"} \subseteq DOMAIN k.m
          /\ k.m.evRev = n.m.evRev /\ k.m.jobs = n.m.jobs /\ k.m.conf = n.m.conf
          /\ k.m.attempts = n.m.attempts /\ k.m.broken = n.m.broken /\ k.m.save = n.m.save
      BY <3>2, <3>3 DEF Framed
    <3>5. Guarded(n.u, k.u, X)
      BY <3>2, <3>4 DEF Guarded, Framed
    <3>6. Kept(n, k, X) /\ Calm(n, k)
      BY <3>2, <3>4, <3>5, Bystander DEF Calm
    <3> QED BY <3>1, <3>2, <3>3, <3>6, KeptTwice, CalmGoesOn
  <2>5. \E plan, id : \/ Becomes(p, Planned(g, e, plan))
                      \/ Becomes(p, [Planned(g, e, plan) EXCEPT !.m.active[e] = id])
    BY <1>1, <1>13, Zenon DEF JobReads, Planned
  <2> QED BY <1>6, <2>3, <2>4, <2>5, CalmGoesOn
<1> QED BY <1>10, <1>11, <1>12, <1>13
\* A confirmation is queued.
LEMMA ConfirmQueued ==
  ASSUME NEW X, NEW g, Framed(g), Linked(g.m), NEW e \in Entities, NEW job, job.do = "confirm",
         job.task.phase = "job", job.task.e = e, Loose(g.m, job.task)
  PROVE  Kept(g, Queued(g, e, job), X) /\ Calm(g, Queued(g, e, job))
<1>1. PICK T : g.m.jobs \in [Entities -> Seq(T)]
  BY DEF Framed
<1>2. PICK s : s = Append(g.m.jobs[e], job)
  OBVIOUS
<1>3. PICK S : S = T \cup {job}
  OBVIOUS
<1>4. (\A x \in Entities : g.m.jobs[x] \in Seq(S)) /\ job \in S
  BY <1>1, <1>3, SeqWider
<1>5. /\ s \in Seq(S)
      /\ \A i \in DOMAIN s : \/ i = Len(g.m.jobs[e]) + 1 /\ s[i] = job
                             \/ i \in DOMAIN g.m.jobs[e] /\ s[i] = g.m.jobs[e][i]
  BY <1>2, <1>4, SeqAppend
<1>6. PICK q : q = [g.m.jobs EXCEPT ![e] = s]
  OBVIOUS
<1>7. q \in [Entities -> Seq(S)] /\ q[e] = s /\ \A x \in Entities \ {e} : q[x] = g.m.jobs[x]
  BY <1>1, <1>4, <1>5, <1>6
<1>8. PICK n : n = [g.m EXCEPT !.jobs = q]
  OBVIOUS
<1>9. n.conf = g.m.conf /\ n.broken = g.m.broken /\ n.jobs = q
  BY <1>8 DEF Framed
<1>10. Wiping(n) \subseteq Wiping(g.m)
  BY <1>5, <1>7, <1>9 DEF Wiping
<1>11. ASSUME ~ n.broken
       PROVE  Linked(n)
  <2>1. \A x, y \in n.conf : x.key = y.key => x = y
    BY <1>9, <1>11 DEF Linked
  <2>2. ASSUME NEW x \in Entities, NEW i \in DOMAIN n.jobs[x], n.jobs[x][i].do = "confirm"
        PROVE  /\ n.jobs[x][i].task \in n.conf /\ n.jobs[x][i].task.phase = "job"
               /\ n.jobs[x][i].task.e = x
               /\ \A j \in DOMAIN n.jobs[x] :
                    n.jobs[x][j].do = "confirm" /\ n.jobs[x][j].task = n.jobs[x][i].task => i = j
    <3>1. CASE x # e
      BY <1>7, <1>9, <1>11, <2>2, <3>1 DEF Linked
    <3>2. CASE x = e
      <4>1. n.jobs[x] = s
        BY <1>7, <1>9, <3>2
      <4>2. /\ n.jobs[x][i].task \in n.conf /\ n.jobs[x][i].task.phase = "job"
            /\ n.jobs[x][i].task.e = x
        BY <1>5, <1>9, <1>11, <2>2, <3>2, <4>1 DEF Linked, Loose
      <4>3. ASSUME NEW j \in DOMAIN s, s[j].do = "confirm", s[j].task = s[i].task
            PROVE  i = j
        <5>1. CASE i \in DOMAIN g.m.jobs[e] /\ s[i] = g.m.jobs[e][i]
                   /\ j \in DOMAIN g.m.jobs[e] /\ s[j] = g.m.jobs[e][j]
          BY <1>9, <1>11, <2>2, <4>1, <4>3, <5>1 DEF Linked
        <5>2. CASE i \in DOMAIN g.m.jobs[e] /\ s[i] = g.m.jobs[e][i] /\ s[j] = job
          BY <2>2, <4>1, <4>3, <5>2 DEF Loose
        <5>3. CASE s[i] = job /\ j \in DOMAIN g.m.jobs[e] /\ s[j] = g.m.jobs[e][j]
          BY <2>2, <4>1, <4>3, <5>3 DEF Loose
        <5> QED BY <1>5, <2>2, <4>1, <4>3, <5>1, <5>2, <5>3
      <4> QED BY <4>1, <4>2, <4>3
    <3> QED BY <3>1, <3>2
  <2> QED BY <2>1, <2>2 DEF Linked
<1>12. SameLinks(g.m, n)
  BY <1>10, <1>11 DEF SameLinks, Linked
<1>13. Kept(g, [g EXCEPT !.m.jobs = q], X) /\ Calm(g, [g EXCEPT !.m.jobs = q])
  BY <1>7, <1>8, <1>12, QueuesKept
<1>14. Queued(g, e, job) = [g EXCEPT !.m.jobs = q]
  BY <1>2, <1>6 DEF Queued, Framed
<1> QED BY <1>13, <1>14

\* What is left when the memory of a confirmation changes.
LEMMA ConfChanged ==
  ASSUME NEW X, NEW g, Framed(g), NEW t, Linked(g.m) /\ ~ g.m.broken => Loose(g.m, t),
         NEW S, \A s \in S : s.key = t.key /\ s.att = t.att /\ \A r \in S : r = s,
         ~ g.m.broken /\ S # {} => t \in g.m.conf, NEW as, as \subseteq g.m.attempts
  PROVE  /\ Kept(g, [g EXCEPT !.m.conf = (g.m.conf \ {t}) \cup S, !.m.attempts = as], X)
         /\ Calm(g, [g EXCEPT !.m.conf = (g.m.conf \ {t}) \cup S, !.m.attempts = as])
         /\ Kept(g, [g EXCEPT !.m.conf = (g.m.conf \ {t}) \cup S], X)
         /\ Calm(g, [g EXCEPT !.m.conf = (g.m.conf \ {t}) \cup S])
<1>1. PICK conf : conf = (g.m.conf \ {t}) \cup S
  OBVIOUS
<1>2. ASSUME NEW h, \/ h = [g EXCEPT !.m.conf = conf, !.m.attempts = as]
                    \/ h = [g EXCEPT !.m.conf = conf]
      PROVE  Kept(g, h, X) /\ Calm(g, h)
  <2>1. /\ DOMAIN h = {"w", "m", "u"} /\ h.w = g.w /\ h.u = g.u
        /\ {"evRev", "jobs", "conf", "attempts", "broken", "save"} \subseteq DOMAIN h.m
        /\ h.m.evRev = g.m.evRev /\ h.m.jobs = g.m.jobs /\ h.m.conf = conf
        /\ h.m.attempts \subseteq g.m.attempts /\ h.m.broken = g.m.broken /\ h.m.save = g.m.save
    BY <1>2 DEF Framed
  <2> QED BY <1>1, <2>1, TaskKept
<1> QED BY <1>1, <1>2

\* The steps of a confirmation, up to its end.
LEMMA ConfirmCareful ==
  ASSUME NEW c \in Contexts, At(c), NEW p \in Pages, Watched(p), NEW task \in mem[p].conf,
         ConfirmReads(p, task) \/ ConfirmMarks(p, task) \/ ConfirmFails(p, task)
  PROVE  Careful(p)
<1>1. PICK g : g = Page(p)
  OBVIOUS
<1>2. IsView(g, c) /\ Framed(g) /\ task \in g.m.conf /\ task \in Tasks(c)
  <2>1. IsView(g, c) /\ Framed(g) /\ task \in g.m.conf
    BY <1>1, PageIs, ViewIsFramed DEF At, Page
  <2> QED BY <2>1 DEF IsView, Views, Memories
<1>3. UNCHANGED <<server, flight, history>>
  BY DEF ConfirmReads, ConfirmMarks, ConfirmFails
<1>4. PICK X : X = Excused(p, history)
  OBVIOUS
<1>5. X = Excused(p, history') /\ PastGrows /\ Linked(g.m)
  BY <1>1, <1>3, <1>4 DEF PastGrows, Watched, OpenEvidence
<1>6. \A h : Kept(g, h, X) /\ Calm(g, h) /\ Becomes(p, h) => Careful(p)
  BY <1>1, <1>3, <1>5, CalmGoesOn DEF Careful
<1>7. task.phase # "job" /\ ~ g.m.broken => Loose(g.m, task)
  BY <1>2, <1>5 DEF Linked, Loose
<1>8. CASE ConfirmReads(p, task)
  <2>1. PICK ms : ms = Matching(db, p, task.e, task.rid)
    OBVIOUS
  <2>2. PICK ph \in {"final", "job"}, id \in {0, Newest(ms).id} :
          /\ ph = IF ms = {} THEN "final" ELSE "job"
          /\ id = IF ms = {} THEN 0 ELSE Newest(ms).id
    OBVIOUS
  <2>3. PICK seen : seen = [task EXCEPT !.phase = ph, !.match = id]
    OBVIOUS
  <2>4. seen.key = task.key /\ seen.att = task.att /\ seen.phase = ph /\ seen.e = task.e
    BY <1>2, <2>3 DEF Tasks, TaskFields
  <2>5. PICK h : h = [g EXCEPT !.m.conf = (g.m.conf \ {task}) \cup {seen}]
    OBVIOUS
  <2>6. PICK job : job = [do |-> "confirm", task |-> seen, plan |-> Unplanned]
    OBVIOUS
  <2>7. /\ task.phase = "read" /\ ~ g.m.broken
        /\ Becomes(p, IF ms = {} THEN h ELSE Queued(h, task.e, job))
    BY <1>1, <1>8, <2>1, <2>2, <2>3, <2>5, <2>6 DEF ConfirmReads, Page
  <2>8. \A s \in {seen} : s.key = task.key /\ s.att = task.att /\ \A r \in {seen} : r = s
    BY <2>4
  <2>9. Kept(g, h, X) /\ Calm(g, h)
    BY <1>2, <1>7, <2>5, <2>7, <2>8, ConfChanged
  <2>10. CASE ms = {}
    BY <1>6, <2>7, <2>9, <2>10
  <2>11. CASE ms # {}
    <3>1. h.m.conf = (g.m.conf \ {task}) \cup {seen} /\ h.m.jobs = g.m.jobs /\ Framed(h)
      BY <1>2, <2>5, <2>9, KeptFrames DEF Framed
    <3>2. seen # task /\ seen.phase = "job"
      BY <2>2, <2>4, <2>7, <2>11
    <3>3. seen \notin g.m.conf
      BY <1>2, <1>5, <2>4, <2>7, <3>2 DEF Linked
    <3>4. Loose(h.m, seen)
      BY <1>5, <2>7, <3>1, <3>3 DEF Loose, Linked
    <3>5. Linked(h.m)
      BY <1>5, <2>9 DEF Kept, SameLinks
    <3>6. task.e \in Entities
      BY <1>2 DEF Tasks, TaskFields
    <3>7. job.do = "confirm" /\ job.task = seen
      BY <2>6
    <3>8. Kept(h, Queued(h, task.e, job), X) /\ Calm(h, Queued(h, task.e, job))
      BY <2>4, <3>1, <3>2, <3>4, <3>5, <3>6, <3>7, ConfirmQueued
    <3> QED BY <1>6, <2>7, <2>9, <2>11, <3>8, KeptTwice, CalmGoesOn
  <2> QED BY <2>10, <2>11
<1>9. CASE ConfirmMarks(p, task)
  <2>1. PICK seen : seen = [task EXCEPT !.phase = "final"]
    OBVIOUS
  <2>2. seen.key = task.key /\ seen.att = task.att
    BY <1>2, <2>1 DEF Tasks, TaskFields
  <2>3. PICK h : h = [g EXCEPT !.m.conf = (g.m.conf \ {task}) \cup {seen}]
    OBVIOUS
  <2>4. task.phase = "sources" /\ ~ g.m.broken /\ Becomes(p, h)
    BY <1>1, <1>9, <2>1, <2>3 DEF ConfirmMarks, Page
  <2>5. \A s \in {seen} : s.key = task.key /\ s.att = task.att /\ \A r \in {seen} : r = s
    BY <2>2
  <2>6. Kept(g, h, X) /\ Calm(g, h)
    BY <1>2, <1>7, <2>3, <2>4, <2>5, ConfChanged
  <2> QED BY <1>6, <2>4, <2>6
<1>10. CASE ConfirmFails(p, task)
  <2>1. PICK as : as = IF task.phase = "final" THEN {x \in g.m.attempts : x.rid # task.rid}
                       ELSE g.m.attempts
    OBVIOUS
  <2>2. PICK h : h = [g EXCEPT !.m.conf = (g.m.conf \ {task}) \cup {}, !.m.attempts = as]
    OBVIOUS
  <2>3. task.phase # "job" /\ Becomes(p, Failure(h))
    <3>1. h = [g EXCEPT !.m.conf = g.m.conf \ {task}, !.m.attempts = as]
      BY <2>2
    <3>2. task.phase # "job"
      BY <1>10 DEF ConfirmFails
    <3> QED BY <1>1, <1>10, <2>1, <3>1, <3>2, Zenon DEF ConfirmFails
  <2>4. Kept(g, h, X) /\ Calm(g, h)
    <3>1. as \subseteq g.m.attempts
      BY <2>1
    <3>2. PICK S : S = {}
      OBVIOUS
    <3>3. Kept(g, [g EXCEPT !.m.conf = (g.m.conf \ {task}) \cup S, !.m.attempts = as], X)
          /\ Calm(g, [g EXCEPT !.m.conf = (g.m.conf \ {task}) \cup S, !.m.attempts = as])
      BY <1>2, <1>7, <2>3, <3>1, <3>2, ConfChanged
    <3> QED BY <2>2, <3>2, <3>3
  <2>5. Kept(h, Failure(h), X) /\ Calm(h, Failure(h))
    BY <2>4, KeptFrames, HelpersKept
  <2> QED BY <1>6, <2>3, <2>4, <2>5, KeptTwice, CalmGoesOn
<1> QED BY <1>8, <1>9, <1>10
\* The end of a confirmation: memory and status line.
LEMMA ConcludedKept ==
  ASSUME NEW X, NEW g, Framed(g), NEW e \in Entities, NEW task, NEW active, NEW unprotected,
         NEW clear, clear => e \in X
  PROVE  /\ Kept(g, Concluded(g, e, task, active, unprotected, clear), X)
         /\ Calm(g, Concluded(g, e, task, active, unprotected, clear))
<1>1. PICK h : h = [g EXCEPT !.m.rev[e] = 0, !.m.newer[e] = NoPayload]
  OBVIOUS
<1>2. Kept(g, h, X) /\ Calm(g, h) /\ Framed(h) /\ h.u = g.u
  <2>1. /\ DOMAIN h = {"w", "m", "u"} /\ h.w = g.w /\ h.u = g.u
        /\ {"evRev", "jobs", "conf", "attempts", "broken", "save"} \subseteq DOMAIN h.m
        /\ h.m.evRev = g.m.evRev /\ h.m.jobs = g.m.jobs /\ h.m.conf = g.m.conf
        /\ h.m.attempts = g.m.attempts /\ h.m.broken = g.m.broken /\ h.m.save = g.m.save
    BY <1>1 DEF Framed
  <2> QED BY <2>1, AsideKept, KeptFrames
<1>3. PICK dirty : dirty = OnDirty(g.u, e, clear, g.w.sel, online)
  OBVIOUS
<1>4. PICK stale : stale = (active.base # task.av)
  OBVIOUS
<1>5. PICK kept : kept = OnPersisted(g.u, e, stale, clear, g.w.sel, online)
  OBVIOUS
<1>6. PICK told : told = WithLabelFor(kept, e, g.w.sel, "local")
  OBVIOUS
<1>7. PICK clean : clean = OnClean(g.u, e, clear, g.w.sel, online)
  OBVIOUS
<1>8. Guarded(g.u, dirty, X) /\ Guarded(g.u, kept, X) /\ Guarded(g.u, clean, X)
  BY <1>3, <1>5, <1>7, StatusGuards DEF Framed
<1>9. Guarded(g.u, told, X)
  <2>1. Guarded(kept, told, X)
    BY <1>6, <1>8, LabelGuards DEF Guarded
  <2> QED BY <1>8, <2>1 DEF Guarded
<1>10. \A u : Guarded(g.u, u, X) => /\ Kept(g, [h EXCEPT !.u = u], X)
                                    /\ Calm(g, [h EXCEPT !.u = u])
                                    /\ Kept(g, [g EXCEPT !.u = u], X)
                                    /\ Calm(g, [g EXCEPT !.u = u])
  <2> SUFFICES ASSUME NEW u, Guarded(g.u, u, X)
               PROVE  /\ Kept(g, [h EXCEPT !.u = u], X) /\ Calm(g, [h EXCEPT !.u = u])
                      /\ Kept(g, [g EXCEPT !.u = u], X) /\ Calm(g, [g EXCEPT !.u = u])
    OBVIOUS
  <2>1. Kept(h, [h EXCEPT !.u = u], X) /\ [h EXCEPT !.u = u].m = h.m
    BY <1>2, TellKept
  <2>2. Kept(g, [g EXCEPT !.u = u], X) /\ [g EXCEPT !.u = u].m = g.m
    BY TellKept
  <2>3. Calm(g, [h EXCEPT !.u = u]) /\ Calm(g, [g EXCEPT !.u = u])
    BY <1>2, <2>1, <2>2 DEF Calm
  <2> QED BY <1>2, <2>1, <2>2, <2>3, KeptTwice
<1>11. Concluded(g, e, task, active, unprotected, clear) \in
         {[g EXCEPT !.u = dirty], [h EXCEPT !.u = kept], [h EXCEPT !.u = told],
          [h EXCEPT !.u = clean]}
  <2>1. CASE unprotected
    BY <1>3, <2>1 DEF Concluded
  <2>2. CASE ~ unprotected /\ active = NoDraft
    <3>1. Concluded(g, e, task, active, unprotected, clear)
            = [h EXCEPT !.u = OnClean(h.u, e, clear, g.w.sel, online)]
      BY <1>1, <1>2, <2>2, Zenon DEF Concluded
    <3> QED BY <1>2, <1>7, <3>1
  <2>3. CASE ~ unprotected /\ active # NoDraft
    <3>1. Concluded(g, e, task, active, unprotected, clear)
            = [h EXCEPT !.u = IF task.kept
                              THEN WithLabelFor(OnPersisted(h.u, e, active.base # task.av, clear,
                                                            g.w.sel, online), e, g.w.sel, "local")
                              ELSE OnPersisted(h.u, e, active.base # task.av, clear,
                                               g.w.sel, online)]
      BY <1>1, <2>3, Zenon DEF Concluded
    <3>2. OnPersisted(h.u, e, active.base # task.av, clear, g.w.sel, online) = kept
      BY <1>2, <1>4, <1>5, Zenon
    <3>3. Concluded(g, e, task, active, unprotected, clear)
            = [h EXCEPT !.u = IF task.kept THEN told ELSE kept]
      BY <1>6, <3>1, <3>2, Zenon
    <3>4. (IF task.kept THEN told ELSE kept) \in {told, kept}
      OBVIOUS
    <3> QED BY <3>3, <3>4
  <2> QED BY <2>1, <2>2, <2>3, Zenon
<1> QED BY <1>8, <1>9, <1>10, <1>11

\* The steps of a recovery, and of a draft that is thrown away.
LEMMA RecoveryCareful ==
  ASSUME NEW c \in Contexts, At(c), NEW p \in Pages, Watched(p),
         \/ RecoveryReads(p) \/ RecoveryEnds(p) \/ RecoveryFails(p)
         \/ Drop(p) \/ DropEnds(p) \/ DropFails(p)
  PROVE  Careful(p)
<1>1. PICK g : g = Page(p)
  OBVIOUS
<1>2. IsView(g, c) /\ Framed(g)
  BY <1>1, PageIs, ViewIsFramed DEF At
<1>3. UNCHANGED <<server, flight>> /\ PastGrows
  BY DEF RecoveryReads, RecoveryEnds, RecoveryFails, Drop, DropEnds, DropFails, PastGrows, Watched
<1>4. PICK X : X = Excused(p, history')
  OBVIOUS
<1>5. \A h : Kept(g, h, X) /\ Calm(g, h) /\ Becomes(p, h) => Careful(p)
  BY <1>1, <1>3, <1>4, CalmGoesOn DEF Careful
<1>6. ASSUME NEW h, Framed(h), NEW k, DOMAIN k = DOMAIN h, k.w = h.w, k.u = h.u,
             DOMAIN k.m = DOMAIN h.m,
             \A f \in {"evRev", "jobs", "conf", "attempts", "broken", "save"} : k.m[f] = h.m[f]
      PROVE  Kept(h, k, X) /\ Calm(h, k)
  <2>1. {"evRev", "jobs", "conf", "attempts", "broken", "save"} \subseteq DOMAIN k.m
    BY <1>6 DEF Framed
  <2>2. /\ k.m.evRev = h.m.evRev /\ k.m.jobs = h.m.jobs /\ k.m.conf = h.m.conf
        /\ k.m.attempts = h.m.attempts /\ k.m.broken = h.m.broken /\ k.m.save = h.m.save
    BY <1>6
  <2>3. DOMAIN k = {"w", "m", "u"}
    BY <1>6 DEF Framed
  <2> QED BY <1>6, <2>1, <2>2, <2>3, AsideKept
<1>7. CASE RecoveryReads(p)
  <2>1. \A due, run, shown :
          /\ Kept(g, [g EXCEPT !.m.due = due, !.m.run = run, !.m.shown = shown], X)
          /\ Calm(g, [g EXCEPT !.m.due = due, !.m.run = run, !.m.shown = shown])
          /\ Kept(g, [g EXCEPT !.m.due = due, !.m.run = run], X)
          /\ Calm(g, [g EXCEPT !.m.due = due, !.m.run = run])
    <3> TAKE due, run, shown
    <3>1. PICK k : k = [g EXCEPT !.m.due = due, !.m.run = run, !.m.shown = shown]
      OBVIOUS
    <3>2. PICK n : n = [g EXCEPT !.m.due = due, !.m.run = run]
      OBVIOUS
    <3>3. Kept(g, k, X) /\ Calm(g, k)
      BY <1>2, <1>6, <3>1 DEF Framed
    <3>4. Kept(g, n, X) /\ Calm(g, n)
      BY <1>2, <1>6, <3>2 DEF Framed
    <3> QED BY <3>1, <3>2, <3>3, <3>4
  <2>2. \E due, run, shown :
          \/ Becomes(p, [g EXCEPT !.m.due = due, !.m.run = run, !.m.shown = shown])
          \/ Becomes(p, [g EXCEPT !.m.due = due, !.m.run = run])
    BY <1>1, <1>7, Zenon DEF RecoveryReads
  <2> QED BY <1>5, <2>1, <2>2
<1>8. CASE RecoveryEnds(p)
  <2>1. PICK run : run = mem[p].run
    OBVIOUS
  <2>2. PICK h : h = Evaluated(g, run)
    OBVIOUS
  <2>3. Kept(g, h, X) /\ Calm(g, h) /\ Framed(h)
    <3>1. Kept(g, h, X) /\ Calm(g, h)
      BY <1>2, <1>6, <2>2 DEF Evaluated, Framed
    <3> QED BY <3>1, KeptFrames
  <2>4. \E d : Becomes(p, [h EXCEPT !.m.shown = NoShown]) \/ Becomes(p, Displayed(h, run, d))
    BY <1>1, <1>8, <2>1, <2>2, Zenon DEF RecoveryEnds
  <2>5. PICK k : k = [h EXCEPT !.m.shown = NoShown]
    OBVIOUS
  <2>6. Kept(h, k, X) /\ Calm(h, k)
    BY <1>6, <2>3, <2>5 DEF Framed
  <2>7. ASSUME NEW d
        PROVE  Kept(h, Displayed(h, run, d), X) /\ Calm(h, Displayed(h, run, d))
    <3>1. PICK s : s = [draft |-> d, e |-> run.e, restored |-> FALSE, stale |-> d.base # run.base]
      OBVIOUS
    <3>2. PICK label : label = IF d.base # run.base THEN "stale" ELSE "local"
      OBVIOUS
    <3>3. PICK n : n = [h EXCEPT !.m.shown = s]
      OBVIOUS
    <3>4. Kept(h, n, X) /\ Calm(h, n) /\ Framed(n) /\ n.u = h.u
      <4>1. Kept(h, n, X) /\ Calm(h, n)
        BY <1>6, <2>3, <3>3 DEF Framed
      <4>2. n.u = h.u
        BY <2>3, <3>3 DEF Framed
      <4> QED BY <4>1, <4>2, KeptFrames
    <3>5. Guarded(n.u, WithLabel(n.u, label), X)
      BY <3>4, LabelGuards DEF Framed
    <3>6. PICK o : o = [n EXCEPT !.u = WithLabel(n.u, label)]
      OBVIOUS
    <3>7. Kept(n, o, X) /\ o.m = n.m
      BY <3>4, <3>5, <3>6, TellKept
    <3>8. Displayed(h, run, d) = o
      <4>1. Displayed(h, run, d) = [h EXCEPT !.m.shown = s, !.u = WithLabel(h.u, label)]
        BY <3>1, <3>2, Zenon DEF Displayed
      <4> QED BY <2>3, <3>3, <3>4, <3>6, <4>1 DEF Framed
    <3>9. Calm(h, o)
      BY <3>4, <3>7 DEF Calm
    <3> QED BY <3>4, <3>7, <3>8, <3>9, KeptTwice
  <2> QED BY <1>5, <2>3, <2>4, <2>5, <2>6, <2>7, KeptTwice, CalmGoesOn
<1>9. CASE RecoveryFails(p) \/ DropFails(p)
  <2>1. PICK h : h = [g EXCEPT !.m.due = FALSE, !.m.run = NoRun]
    OBVIOUS
  <2>2. Kept(g, h, X) /\ Calm(g, h)
    BY <1>2, <1>6, <2>1 DEF Framed
  <2>3. Becomes(p, Failure(h)) \/ Becomes(p, Failure(g))
    BY <1>1, <1>9, <2>1, Zenon DEF RecoveryFails, DropFails
  <2>4. Kept(h, Failure(h), X) /\ Calm(h, Failure(h)) /\ Kept(g, Failure(g), X) /\ Calm(g, Failure(g))
    BY <1>2, <2>2, KeptFrames, HelpersKept
  <2> QED BY <1>5, <2>2, <2>3, <2>4, KeptTwice, CalmGoesOn
<1>10. CASE Drop(p)
  <2>1. PICK shown, n, tail : Becomes(p, RecoveryDue([g EXCEPT
             !.m.shown = shown, !.m.active[g.w.sel] = n, !.m.tail = tail]))
    BY <1>1, <1>10, Zenon DEF Drop
  <2>2. PICK h : h = [g EXCEPT !.m.shown = shown, !.m.active[g.w.sel] = n, !.m.tail = tail]
    OBVIOUS
  <2>3. Kept(g, h, X) /\ Calm(g, h)
    BY <1>2, <1>6, <2>2 DEF Framed
  <2>4. Kept(h, RecoveryDue(h), X) /\ Calm(h, RecoveryDue(h))
    BY <2>3, KeptFrames, HelpersKept
  <2> QED BY <1>5, <2>1, <2>2, <2>3, <2>4, KeptTwice, CalmGoesOn
<1>11. CASE DropEnds(p)
  <2>1. PICK h : h = [g EXCEPT !.m.tail = NoRun]
    OBVIOUS
  <2>2. Kept(g, h, X) /\ Calm(g, h) /\ Framed(h) /\ h.u = g.u
    <3>1. Kept(g, h, X) /\ Calm(g, h) /\ h.u = g.u
      BY <1>2, <1>6, <2>1 DEF Framed
    <3> QED BY <3>1, KeptFrames
  <2>3. PICK e : e = g.m.tail.e
    OBVIOUS
  <2>4. e \in Entities
    <3>1. g.m.tail # NoRun /\ g.m.tail \in Tails
      BY <1>1, <1>2, <1>11 DEF DropEnds, IsView, Views, Memories
    <3> QED BY <2>3, <3>1 DEF Tails
  <2>5. \E n, stale :
          \/ Becomes(p, h)
          \/ Becomes(p, Activated(h, e, n, OnPersisted(h.u, e, stale, FALSE, g.w.sel, online)))
          \/ Becomes(p, [h EXCEPT !.u = OnDirty(h.u, e, FALSE, g.w.sel, online)])
          \/ Becomes(p, [h EXCEPT !.u = OnClean(h.u, e, FALSE, g.w.sel, online)])
    BY <1>1, <1>11, <2>1, <2>3, ZenonT(60) DEF DropEnds, Activated
  <2>6. /\ \A stale : Guarded(h.u, OnPersisted(h.u, e, stale, FALSE, g.w.sel, online), X)
        /\ Guarded(h.u, OnDirty(h.u, e, FALSE, g.w.sel, online), X)
        /\ Guarded(h.u, OnClean(h.u, e, FALSE, g.w.sel, online), X)
    BY <2>2, <2>4, StatusGuards DEF Framed
  <2>7. PICK n, stale, kept, dirty, clean :
          /\ kept = OnPersisted(h.u, e, stale, FALSE, g.w.sel, online)
          /\ dirty = OnDirty(h.u, e, FALSE, g.w.sel, online)
          /\ clean = OnClean(h.u, e, FALSE, g.w.sel, online)
          /\ \/ Becomes(p, h) \/ Becomes(p, Activated(h, e, n, kept))
             \/ Becomes(p, [h EXCEPT !.u = dirty]) \/ Becomes(p, [h EXCEPT !.u = clean])
    BY <2>5, Zenon
  <2>8. Guarded(h.u, kept, X) /\ Guarded(h.u, dirty, X) /\ Guarded(h.u, clean, X)
    BY <2>6, <2>7
  <2>9. /\ Kept(h, Activated(h, e, n, kept), X) /\ Calm(h, Activated(h, e, n, kept))
        /\ Kept(h, [h EXCEPT !.u = dirty], X) /\ [h EXCEPT !.u = dirty].m = h.m
        /\ Kept(h, [h EXCEPT !.u = clean], X) /\ [h EXCEPT !.u = clean].m = h.m
    BY <2>2, <2>8, ActivatedKept, TellKept
  <2>10. Calm(h, [h EXCEPT !.u = dirty]) /\ Calm(h, [h EXCEPT !.u = clean])
    BY <2>9 DEF Calm
  <2> QED BY <1>5, <2>2, <2>7, <2>9, <2>10, KeptTwice, CalmGoesOn
<1> QED BY <1>7, <1>8, <1>9, <1>10, <1>11

\* The user edits the form.
LEMMA EditedKept ==
  ASSUME NEW X, NEW g, Framed(g), NEW e \in Entities, NEW pay, "of" \in DOMAIN pay,
         pay.of = g.w.form.pay.of
  PROVE  Kept(g, Newer(Edited(g, e, pay), e, pay), X) /\ Calm(g, Newer(Edited(g, e, pay), e, pay))
<1>1. PICK h : h = Edited(g, e, pay)
  OBVIOUS
<1>2. PICK u : u = OnInput(g.u, e, FALSE, online)
  OBVIOUS
<1>3. /\ DOMAIN h = {"w", "m", "u"} /\ h.w = [g.w EXCEPT !.form.pay = pay] /\ h.u = u
      /\ {"evRev", "jobs", "conf", "attempts", "broken", "save"} \subseteq DOMAIN h.m
      /\ h.m.evRev = g.m.evRev /\ h.m.jobs = g.m.jobs /\ h.m.conf = g.m.conf
      /\ h.m.attempts = g.m.attempts /\ h.m.broken = g.m.broken /\ h.m.save = g.m.save
  BY <1>1, <1>2 DEF Edited, Framed
<1>4. /\ {"on", "sel", "form", "pend"} \subseteq DOMAIN h.w
      /\ h.w.on = g.w.on /\ h.w.sel = g.w.sel /\ h.w.pend = g.w.pend
      /\ h.w.form = [g.w.form EXCEPT !.pay = pay]
  BY <1>3 DEF Framed
<1>5. /\ {"pay", "files"} \subseteq DOMAIN h.w.form
      /\ h.w.form.files = g.w.form.files /\ h.w.form.pay = pay
  BY <1>4 DEF Framed
<1>6. Guarded(g.u, u, X)
  BY <1>2, StatusGuards DEF Framed
<1>7. Framed(h) /\ SameForm(g.w, h.w)
  BY <1>3, <1>4, <1>5, <1>6 DEF Framed, SameForm, Guarded
<1>8. SameTasks(g.m, h.m) /\ SameAttempts(g, h, X) /\ SameLinks(g.m, h.m)
  BY <1>3, <1>4 DEF SameTasks, SameAttempts, SameLinks, Wiping, Linked
<1>9. Kept(g, h, X) /\ Calm(g, h)
  BY <1>3, <1>6, <1>7, <1>8 DEF Kept, Calm
<1>10. PICK k : k = Newer(h, e, pay)
  OBVIOUS
<1>11. /\ DOMAIN k = {"w", "m", "u"} /\ k.w = h.w /\ k.u = h.u
       /\ {"evRev", "jobs", "conf", "attempts", "broken", "save"} \subseteq DOMAIN k.m
       /\ k.m.evRev = h.m.evRev /\ k.m.jobs = h.m.jobs /\ k.m.conf = h.m.conf
       /\ k.m.attempts = h.m.attempts /\ k.m.broken = h.m.broken /\ k.m.save = h.m.save
  BY <1>7, <1>10 DEF Newer, Framed
<1>12. Kept(h, k, X) /\ Calm(h, k)
  BY <1>7, <1>11, AsideKept
<1>13. Kept(g, k, X) /\ Calm(g, k)
  BY <1>9, <1>12, KeptTwice, CalmGoesOn
<1> QED BY <1>1, <1>10, <1>13

\* The user edits the form or starts a save.
LEMMA EditCareful ==
  ASSUME NEW c \in Contexts, At(c), NEW p \in Pages, Watched(p),
         Type(p) \/ \E how \in Intercepted : SaveStarts(p, how)
  PROVE  Careful(p)
<1>1. PICK g : g = Page(p)
  OBVIOUS
<1>2. IsView(g, c) /\ Framed(g) /\ g.w = wire[p]
  BY <1>1, PageIs, ViewIsFramed DEF At
<1>3. UNCHANGED <<server, flight, history>>
  BY DEF Type, SaveStarts
<1>4. PICK X : X = Excused(p, history)
  OBVIOUS
<1>5. X = Excused(p, history') /\ PastGrows
  BY <1>3, <1>4 DEF PastGrows, Watched
<1>6. \A h : Kept(g, h, X) /\ Onward(g, h) /\ Becomes(p, h) => Careful(p)
  BY <1>1, <1>3, <1>5 DEF Careful
<1>7. PICK e : e = g.w.sel
  OBVIOUS
<1>8. e \in Entities
  BY <1>2, <1>7 DEF Type, SaveStarts, Editable, Framed
<1>9. CASE Type(p)
  <2>1. PICK pay : pay = [DraftPayload(g.w.form) EXCEPT !.n = clock + 1]
    OBVIOUS
  <2>2. Becomes(p, Newer(Edited(g, e, pay), e, pay))
    BY <1>1, <1>7, <1>9, <2>1, Zenon DEF Type, Edited
  <2>3. "of" \in DOMAIN pay /\ pay.of = g.w.form.pay.of
    BY <1>2, <2>1 DEF DraftPayload, Framed
  <2>4. PICK h : h = Newer(Edited(g, e, pay), e, pay)
    OBVIOUS
  <2>5. Kept(g, h, X) /\ Calm(g, h)
    BY <1>2, <1>8, <2>3, <2>4, EditedKept
  <2> QED BY <1>6, <2>2, <2>4, <2>5, CalmGoesOn
<1>10. ASSUME NEW how \in Intercepted, SaveStarts(p, how)
       PROVE  Careful(p)
  <2>1. PICK save, job : /\ job = PersistJob(DraftPayload(g.w.form), g.w.ver, "save")
                         /\ Becomes(p, Queued([g EXCEPT !.m.timer[e] = NoTimer, !.m.save = save],
                                              e, job))
    BY <1>1, <1>7, <1>10, Zenon DEF SaveStarts
  <2>2. PICK h : h = [g EXCEPT !.m.timer[e] = NoTimer, !.m.save = save]
    OBVIOUS
  <2>3. /\ DOMAIN h = {"w", "m", "u"} /\ h.w = g.w /\ h.u = g.u
        /\ {"evRev", "jobs", "conf", "attempts", "broken", "save"} \subseteq DOMAIN h.m
        /\ h.m.evRev = g.m.evRev /\ h.m.jobs = g.m.jobs /\ h.m.conf = g.m.conf
        /\ h.m.attempts = g.m.attempts /\ h.m.broken = g.m.broken
    BY <1>2, <2>2 DEF Framed
  <2>4. Guarded(g.u, h.u, X)
    BY <1>2, <2>3 DEF Guarded, Framed
  <2>5. Kept(g, h, X) /\ Framed(h)
    <3>1. Kept(g, h, X)
      BY <1>2, <2>3, <2>4, Bystander
    <3> QED BY <3>1, KeptFrames
  <2>6. job.do = "persist"
    BY <2>1 DEF PersistJob
  <2>7. PICK k : k = Queued(h, e, job)
    OBVIOUS
  <2>8. Kept(h, k, X)
    BY <1>8, <2>5, <2>6, <2>7, QueuedKept
  <2>9. Onward(g, k)
    <3>1. g.m.save.phase = "none"
      <4>1. g.m.save = NoSave
        BY <1>1, <1>10, Zenon DEF SaveStarts
      <4> QED BY <4>1 DEF NoSave
    <3> QED BY <3>1 DEF Onward
  <2>10. Becomes(p, k)
    BY <2>1, <2>2, <2>7
  <2> QED BY <1>6, <2>5, <2>8, <2>9, <2>10, KeptTwice
<1> QED BY <1>9, <1>10

\* What the evidence is about.
LEMMA SameParts ==
  ASSUME NEW g, NEW h, h.w = g.w, h.m = g.m, h.u = g.u, NEW f, NEW X, PageEvidence(g, f, X)
  PROVE  PageEvidence(h, f, X)
<1>1. Warned(g, X) => Warned(h, X)
  BY DEF Warned
<1>2. Lives(g, f, X) => Lives(h, f, X)
  BY DEF Lives, Counts
<1>3. Tasked(g, X) => Tasked(h, X)
  BY DEF Tasked, Counts, Passed
<1>4. Asked(g, f, X) => Asked(h, f, X)
  BY DEF Asked, Passed
<1>5. OpenEvidence(g, f, X) => OpenEvidence(h, f, X)
  BY <1>1, <1>2, <1>3, <1>4 DEF OpenEvidence
<1> QED BY <1>5 DEF PageEvidence

\* More mishaps excuse more.
LEMMA MoreExcused ==
  ASSUME NEW g, Framed(g), NEW f, NEW X, NEW Y, X \subseteq Y, PageEvidence(g, f, X)
  PROVE  PageEvidence(g, f, Y)
<1>1. Kept(g, g, Y) /\ Onward(g, g)
  BY KeptSelf DEF Onward
<1>2. OpenEvidence(g, f, X) => OpenEvidence(g, f, Y)
  BY <1>1, KeptEvidence
<1> QED BY <1>2 DEF PageEvidence

\* What has been excused stays so.
LEMMA ExcusedGrows ==
  ASSUME PastGrows, NEW p \in Pages
  PROVE  Excused(p, history) \subseteq Excused(p, history')
BY DEF PastGrows, Excused

\* One page and its message change.
LEMMA OneEvidence ==
  ASSUME NEW c \in Contexts, At(c), Evidence, NEW p \in Pages, PastGrows,
         \A e \in Entities : server'.content[e].of = e,
         NEW g, Becomes(p, g), NEW f, flight' = [flight EXCEPT ![p] = f],
         PageEvidence(g, f, Excused(p, history'))
  PROVE  Evidence'
<1>1. /\ wire \in [Pages -> Components(c)] /\ mem \in [Pages -> Memories(c)]
      /\ ui \in [Pages -> Statuses] /\ flight \in [Pages -> Flights(c)]
  BY DEF At, PagesAt
<1>2. wire'[p] = g.w /\ mem'[p] = g.m /\ ui'[p] = g.u /\ flight'[p] = f
  BY <1>1 DEF Becomes
<1>3. \A q \in Pages \ {p} : /\ wire'[q] = wire[q] /\ mem'[q] = mem[q] /\ ui'[q] = ui[q]
                             /\ flight'[q] = flight[q]
  BY <1>1 DEF Becomes
<1>4. PICK h : h = [w |-> g.w, m |-> g.m, u |-> g.u]
  OBVIOUS
<1>5. PageEvidence(h, f, Excused(p, history'))
  BY <1>4, SameParts
<1>6. [w |-> wire'[p], m |-> mem'[p], u |-> ui'[p]] = h
  BY <1>2, <1>4
<1>7. ASSUME NEW q \in Pages \ {p}
      PROVE  PageEvidence([w |-> wire'[q], m |-> mem'[q], u |-> ui'[q]], flight'[q],
                          Excused(q, history'))
  <2>1. [w |-> wire'[q], m |-> mem'[q], u |-> ui'[q]] = Page(q)
    BY <1>3 DEF Page
  <2>2. Framed(Page(q))
    BY PageIs, ViewIsFramed DEF At
  <2>3. Excused(q, history) \subseteq Excused(q, history')
    BY ExcusedGrows
  <2>4. PageEvidence(Page(q), flight[q], Excused(q, history))
    BY DEF Evidence
  <2>5. PageEvidence(Page(q), flight[q], Excused(q, history'))
    BY <2>2, <2>3, <2>4, MoreExcused
  <2> QED BY <1>3, <2>1, <2>5
<1>8. \A q \in Pages : PageEvidence([w |-> wire'[q], m |-> mem'[q], u |-> ui'[q]], flight'[q],
                                    Excused(q, history'))
  BY <1>2, <1>5, <1>6, <1>7
<1>9. \A q \in Pages : PageEvidence(Page(q), flight[q], Excused(q, history))'
  BY <1>8 DEF Page
<1> QED BY <1>9 DEF Evidence, PastGrows

\* Such steps keep the evidence.
LEMMA CarefulKeeps ==
  ASSUME NEW c \in Contexts, At(c), Evidence, NEW p \in Pages, wire[p].on = "open", Careful(p)
  PROVE  Evidence'
<1>1. PICK h : /\ Kept(Page(p), h, Excused(p, history')) /\ Becomes(p, h)
               /\ Onward(Page(p), h) \/ flight[p] = NoMessage
               /\ UNCHANGED <<server, flight>> /\ PastGrows
  BY DEF Careful
<1>2. PICK g : g = Page(p)
  OBVIOUS
<1>3. g.w = wire[p] /\ Framed(g)
  BY <1>2, PageIs, ViewIsFramed DEF At
<1>4. PageEvidence(g, flight[p], Excused(p, history)) /\ OpenEvidence(g, flight[p], Excused(p, history))
  BY <1>2, <1>3 DEF Evidence, PageEvidence
<1>5. Excused(p, history) \subseteq Excused(p, history')
  BY <1>1, ExcusedGrows
<1>6. OpenEvidence(h, flight[p], Excused(p, history'))
  BY <1>1, <1>2, <1>3, <1>4, <1>5, KeptEvidence
<1>7. h.w.on = "open"
  BY <1>1, <1>2, <1>3 DEF Kept, SameForm
<1>8. PageEvidence(h, flight[p], Excused(p, history'))
  BY <1>4, <1>6, <1>7 DEF PageEvidence
<1>9. flight' = [flight EXCEPT ![p] = flight[p]]
  BY <1>1 DEF At
<1>10. \A e \in Entities : server'.content[e].of = e
  BY <1>1 DEF Evidence
<1> QED BY <1>1, <1>8, <1>9, <1>10, OneEvidence

\* The evidence of an open page.
LEMMA WatchedIs ==
  ASSUME NEW c \in Contexts, At(c), Evidence, NEW p \in Pages, wire[p].on = "open"
  PROVE  Watched(p)
<1>1. Page(p).w = wire[p]
  BY PageIs DEF At
<1> QED BY <1>1 DEF Evidence, PageEvidence, Watched

\* Only an open page does anything by itself.
LEMMA Awake ==
  ASSUME NEW c \in Contexts, At(c), Evidence, NEW p \in Pages, Script(p) \/ Breakdown(p)
  PROVE  wire[p].on = "open"
<1>1. SUFFICES ASSUME wire[p].on # "open" PROVE FALSE
  OBVIOUS
<1>2. mem[p] = FreshMemory
  BY <1>1, PageIs DEF At, Evidence, PageEvidence
<1>3. /\ \A e \in Entities : mem[p].jobs[e] = <<>> /\ mem[p].timer[e] = NoTimer
      /\ mem[p].conf = {} /\ mem[p].run = NoRun /\ mem[p].tail = NoRun
      /\ mem[p].save.phase = "none" /\ mem[p].due = FALSE
  BY <1>2 DEF FreshMemory, NoSave
<1>4. Page(p).m = mem[p]
  BY DEF Page
<1>5. \A e \in Entities : ~ TimerFires(p, e) /\ ~ JobReads(p, e) /\ ~ JobWrites(p, e) /\ ~ JobFails(p, e)
  BY <1>3, <1>4 DEF TimerFires, JobReads, JobWrites, JobFails
<1>6. ~ RecoveryReads(p) /\ ~ RecoveryFails(p) /\ ~ DropFails(p) /\ ~ RecoveryEnds(p)
  BY <1>1, <1>3, <1>4 DEF RecoveryReads, RecoveryFails, DropFails, RecoveryEnds, IsOpen, Offers
<1>7. ~ DropEnds(p) /\ ~ SaveLeaves(p)
  BY <1>3, <1>4 DEF DropEnds, SaveLeaves
<1> QED BY <1>3, <1>5, <1>6, <1>7, Zenon DEF Script, Breakdown

\* The page stays as it is.
LEMMA Stands ==
  ASSUME NEW c \in Contexts, At(c), NEW p \in Pages, UNCHANGED <<wire, mem, ui>>
  PROVE  Becomes(p, Page(p))
BY DEF At, PagesAt, Becomes, Page

\* What has been excused stays so when nothing happens to it.
LEMMA PastStays ==
  ASSUME Evidence, UNCHANGED history
  PROVE  PastGrows /\ \A p \in Pages : Excused(p, history') = Excused(p, history)
BY DEF Evidence, PastGrows, Excused

\* One page and its message change, and nothing on the server.
LEMMA PageMoves ==
  ASSUME NEW c \in Contexts, At(c), Evidence, NEW p \in Pages, UNCHANGED server, PastGrows,
         NEW g, Becomes(p, g), NEW f, flight' = [flight EXCEPT ![p] = f],
         PageEvidence(g, f, Excused(p, history'))
  PROVE  Evidence'
<1>1. \A e \in Entities : server'.content[e].of = e
  BY DEF Evidence
<1> QED BY <1>1, OneEvidence

\* There is no message any more.
LEMMA Hushed ==
  ASSUME NEW g, Framed(g), NEW f, NEW X, OpenEvidence(g, f, X)
  PROVE  OpenEvidence(g, NoMessage, X)
<1>1. Carried(NoMessage) = 0
  BY DEF Carried, NoMessage
<1>2. Lives(g, NoMessage, X)
  BY <1>1 DEF OpenEvidence, Lives, Framed
<1>3. Asked(g, NoMessage, X)
  BY DEF Asked
<1> QED BY <1>2, <1>3 DEF OpenEvidence

\* A request leaves with the component as it is.
LEMMA SetsOff ==
  ASSUME NEW g, Framed(g), NEW X, OpenEvidence(g, NoMessage, X), g.w.on = "open",
         NEW kind, NEW arg, NEW f, f = [status |-> "sent", kind |-> kind, arg |-> arg, w |-> g.w],
         kind = "select" => arg # g.w.sel,
         kind \in {"save", "next"} => g.m.save.phase = "sent"
  PROVE  PageEvidence(g, f, X)
<1>1. f.status = "sent" /\ f.kind = kind /\ f.arg = arg /\ f.w = g.w
  OBVIOUS
<1>2. Sent(f) = g.w /\ Carried(f) = g.w.pend
  BY <1>1 DEF Sent, Carried
<1>3. Lives(g, f, X)
  BY <1>2 DEF OpenEvidence, Lives
<1>4. Asked(g, f, X)
  BY <1>1, <1>2 DEF Asked, Passed
<1>5. OpenEvidence(g, f, X) /\ Mine(Sent(f))
  BY <1>2, <1>3, <1>4 DEF OpenEvidence
<1> QED BY <1>1, <1>2, <1>5 DEF PageEvidence, Replied

\* A save that was ready is sent.
LEMMA LeavingEvidence ==
  ASSUME NEW c \in Contexts, At(c), Evidence, NEW p \in Pages, SaveLeaves(p)
  PROVE  Evidence'
<1>1. PICK g : g = Page(p)
  OBVIOUS
<1>2. IsView(g, c) /\ Framed(g) /\ g.w = wire[p] /\ "on" \in DOMAIN g.w
  BY <1>1, PageIs, ViewIsFramed DEF At, Framed
<1>3. PICK X : X = Excused(p, history)
  OBVIOUS
<1>4. UNCHANGED server /\ X = Excused(p, history') /\ PastGrows /\ flight[p] = NoMessage
  BY <1>3, PastStays DEF SaveLeaves
<1>5. g.m.save.phase = "ready"
  BY <1>1 DEF SaveLeaves
<1>6. g.w.on = "open"
  BY <1>2, Awake DEF Script
<1>7. OpenEvidence(g, NoMessage, X)
  BY <1>1, <1>3, <1>4, <1>6 DEF Evidence, PageEvidence
<1>8. "phase" \in DOMAIN g.m.save
  <2>1. g.m.save # NoSave
    BY <1>5 DEF NoSave
  <2>2. g.m.save \in RunningSaves(c)
    BY <1>2, <2>1, MemoryOf, SavingFields DEF Saving
  <2> QED BY <2>2 DEF RunningSaves
<1>9. PICK h : h = [g EXCEPT !.m.save.phase = "sent"]
  OBVIOUS
<1>10. Kept(g, h, X)
  BY <1>2, <1>9, SavePhaseKept
<1>11. h.w = g.w /\ h.m.save.phase = "sent"
  BY <1>2, <1>8, <1>9 DEF Framed
<1>12. OpenEvidence(h, NoMessage, X) /\ Framed(h)
  BY <1>2, <1>7, <1>10, KeptEvidence, KeptFrames
<1>13. PICK how, arg : how = g.m.save.how /\ arg = g.w.sel
  OBVIOUS
<1>14. PICK f : f = [status |-> "sent", kind |-> how, arg |-> arg, w |-> h.w]
  OBVIOUS
<1>15. how # "select"
  <2>1. g.m.save # NoSave
    BY <1>5 DEF NoSave
  <2>2. g.m.save \in RunningSaves(c)
    BY <1>2, <2>1, MemoryOf, SavingFields DEF Saving
  <2> QED BY <1>13, <2>2 DEF RunningSaves, Intercepted
<1>16. PageEvidence(h, f, X)
  BY <1>6, <1>11, <1>12, <1>14, <1>15, SetsOff
<1>17. flight' = [flight EXCEPT ![p] = f]
  <2>1. flight' = [flight EXCEPT ![p] =
          [status |-> "sent", kind |-> g.m.save.how, arg |-> g.w.sel, w |-> g.w]]
    BY <1>1, Zenon DEF SaveLeaves
  <2> QED BY <1>11, <1>13, <1>14, <2>1
<1>18. Becomes(p, h)
  BY <1>1, <1>9, Zenon DEF SaveLeaves
<1> QED BY <1>4, <1>16, <1>17, <1>18, PageMoves

\* The user asks for something.
LEMMA AskingEvidence ==
  ASSUME NEW c \in Contexts, At(c), Evidence, NEW p \in Pages,
         Close(p) \/ Report(p) \/ Discard(p) \/ \E e \in Entities : Select(p, e)
  PROVE  Evidence'
<1>1. PICK g : g = Page(p)
  OBVIOUS
<1>2. Framed(g) /\ g.w = wire[p]
  BY <1>1, PageIs, ViewIsFramed DEF At
<1>3. PICK X : X = Excused(p, history)
  OBVIOUS
<1>4. PICK kind, arg : /\ kind \in {"select", "live", "discard"} /\ Asks(p, kind, arg)
                       /\ kind = "select" => arg # wire[p].sel
                       /\ UNCHANGED <<wire, mem, ui>>
  BY DEF Close, Report, Discard, Select
<1>5. UNCHANGED <<server, history>> /\ g.w.on = "open" /\ flight[p] = NoMessage
  BY <1>2, <1>4 DEF Asks, IsOpen
<1>6. PastGrows /\ X = Excused(p, history')
  BY <1>3, <1>5, PastStays
<1>7. OpenEvidence(g, NoMessage, X)
  BY <1>1, <1>3, <1>5 DEF Evidence, PageEvidence
<1>8. PICK f : f = [status |-> "sent", kind |-> kind, arg |-> arg, w |-> g.w]
  OBVIOUS
<1>9. PageEvidence(g, f, X)
  <2>1. kind \notin {"save", "next"}
    BY <1>4
  <2> QED BY <1>2, <1>4, <1>5, <1>7, <1>8, <2>1, SetsOff
<1>10. flight' = [flight EXCEPT ![p] = f]
  BY <1>2, <1>4, <1>8 DEF Asks
<1>11. Becomes(p, g)
  BY <1>1, <1>4, Stands
<1> QED BY <1>5, <1>6, <1>9, <1>10, <1>11, PageMoves

\* A click on the list of solutions is noted and sent.
LEMMA ClickEvidence ==
  ASSUME NEW c \in Contexts, At(c), Evidence, NEW p \in Pages, NEW sol, Restructure(p, sol)
  PROVE  Evidence'
<1>1. PICK g : g = Page(p)
  OBVIOUS
<1>2. IsView(g, c) /\ Framed(g) /\ g.w = wire[p]
  BY <1>1, PageIs, ViewIsFramed DEF At
<1>3. PICK X : X = Excused(p, history)
  OBVIOUS
<1>4. UNCHANGED <<server, history>> /\ g.w.on = "open" /\ flight[p] = NoMessage
  BY <1>2 DEF Restructure, Asks, Editable, IsOpen
<1>5. PastGrows /\ X = Excused(p, history')
  BY <1>3, <1>4, PastStays
<1>6. OpenEvidence(g, NoMessage, X)
  BY <1>1, <1>3, <1>4 DEF Evidence, PageEvidence
<1>7. PICK e : e = g.w.sel
  OBVIOUS
<1>8. e \in Entities
  BY <1>2, <1>7 DEF Restructure, Editable, Framed
<1>9. PICK v, s, r : /\ v = OnDirty(g.u, e, FALSE, e, online)
                     /\ s = [g.m.structural EXCEPT ![e] = g.w.ver]
                     /\ r = [g.m.rev EXCEPT ![e] = @ + 1]
  OBVIOUS
<1>10. PICK h : h = [StructuralNote(g, e) EXCEPT
                      !.m.rev[e] = @ + 1, !.u = OnDirty(@, e, FALSE, e, online)]
  OBVIOUS
<1>11. Becomes(p, h)
  BY <1>1, <1>7, <1>10, Zenon DEF Restructure
<1>12. /\ DOMAIN h = {"w", "m", "u"} /\ h.w = g.w /\ h.u = v
       /\ {"evRev", "jobs", "conf", "attempts", "broken", "save"} \subseteq DOMAIN h.m
       /\ h.m.evRev = g.m.evRev /\ h.m.jobs = g.m.jobs /\ h.m.conf = g.m.conf
       /\ h.m.attempts = g.m.attempts /\ h.m.broken = g.m.broken
  BY <1>2, <1>9, <1>10 DEF StructuralNote, Framed
<1>13. Guarded(g.u, v, X)
  BY <1>2, <1>8, <1>9, StatusGuards DEF Framed
<1>14. Kept(g, h, X)
  BY <1>2, <1>12, <1>13, Bystander
<1>15. OpenEvidence(h, NoMessage, X) /\ Framed(h)
  BY <1>2, <1>6, <1>14, KeptEvidence, KeptFrames
<1>16. PICK f : f = [status |-> "sent", kind |-> "structure", arg |-> sol, w |-> h.w]
  OBVIOUS
<1>17. PageEvidence(h, f, X)
  <2>1. "structure" \notin {"save", "next"} /\ "structure" # "select"
    OBVIOUS
  <2> QED BY <1>4, <1>12, <1>15, <1>16, <2>1, SetsOff
<1>18. flight' = [flight EXCEPT ![p] = f]
  BY <1>2, <1>12, <1>16 DEF Restructure, Asks
<1> QED BY <1>4, <1>5, <1>11, <1>17, <1>18, PageMoves

\* A page is opened.
LEMMA OpenedEvidence ==
  ASSUME NEW c \in Contexts, At(c), Evidence, NEW p \in Pages, Open(p)
  PROVE  Evidence'
<1>1. UNCHANGED <<server, history>> /\ PastGrows
  BY PastStays DEF Open
<1>2. Page(p).w = wire[p]
  BY PageIs DEF At
<1>3. flight[p] = NoMessage
  BY <1>2 DEF Open, Evidence, PageEvidence
<1>4. PICK e \in Entries : Becomes(p, RecoveryDue(
         [w |-> Filled([NoPage EXCEPT !.on = "open", !.ver = server.ver, !.ro = server.shut], e),
          m |-> FreshMemory, u |-> NewStatus(Entities, "saved")]))
  BY DEF Open
<1>5. PICK v : v = [NoPage EXCEPT !.on = "open", !.ver = server.ver, !.ro = server.shut]
  OBVIOUS
<1>6. PICK form : form = Form(server.content[e], {})
  OBVIOUS
<1>7. PICK w : w = [v EXCEPT !.sel = e, !.form = form, !.canon = form, !.stat = "saved"]
  OBVIOUS
<1>8. e \in Entities /\ e # Nothing
  BY <1>4, DraftsAssumption
<1>9. Filled(v, e) = w
  BY <1>6, <1>7, <1>8, Zenon DEF Filled
<1>10. w.on = "open" /\ w.sel = e /\ w.form = form
  BY <1>5, <1>7 DEF NoPage
<1>11. form.files = {} /\ form.pay.of = e
  BY <1>6, <1>8 DEF Form, Evidence
<1>12. PICK g : g = [w |-> w, m |-> FreshMemory, u |-> NewStatus(Entities, "saved")]
  OBVIOUS
<1>13. PICK h : h = RecoveryDue(g)
  OBVIOUS
<1>14. Becomes(p, h)
  BY <1>4, <1>5, <1>9, <1>12, <1>13
<1>15. /\ h.w = w /\ h.m.attempts = {} /\ h.m.conf = {}
       /\ \A x \in Entities : h.m.jobs[x] = <<>>
  BY <1>12, <1>13 DEF RecoveryDue, FreshMemory
<1>16. \A X : OpenEvidence(h, NoMessage, X)
  <2> TAKE X
  <2>1. Mine(h.w) /\ Warned(h, X) /\ Lives(h, NoMessage, X) /\ Tasked(h, X) /\ Asked(h, NoMessage, X)
    BY <1>10, <1>11, <1>15 DEF Mine, Warned, Lives, Tasked, Asked
  <2>2. Wiping(h.m) \subseteq X /\ Linked(h.m)
    BY <1>15 DEF Wiping, Linked
  <2> QED BY <2>1, <2>2 DEF OpenEvidence
<1>17. \A X : PageEvidence(h, NoMessage, X)
  BY <1>10, <1>15, <1>16 DEF PageEvidence, Replied, NoMessage
<1>18. flight' = [flight EXCEPT ![p] = NoMessage]
  BY <1>3 DEF Open, At
<1> QED BY <1>1, <1>14, <1>17, <1>18, PageMoves

\* A page is left.
LEMMA LeftEvidence ==
  ASSUME NEW c \in Contexts, At(c), Evidence, NEW p \in Pages, Leave(p)
  PROVE  Evidence'
<1>1. UNCHANGED <<server, history>> /\ PastGrows
  BY PastStays DEF Leave
<1>2. PICK g : g = [w |-> [NoPage EXCEPT !.on = "gone"], m |-> FreshMemory,
                    u |-> NewStatus(Entities, "saved")]
  OBVIOUS
<1>3. Becomes(p, g)
  BY <1>2, Zenon DEF Leave
<1>4. g.w.on = "gone" /\ g.m = FreshMemory
  BY <1>2 DEF NoPage
<1>5. PICK f : f = IF flight[p].status = "sent" THEN flight[p] ELSE NoMessage
  OBVIOUS
<1>6. flight' = [flight EXCEPT ![p] = f]
  BY <1>5 DEF Leave
<1>7. f.status # "answered" /\ (f # NoMessage => f = flight[p])
  BY <1>5 DEF NoMessage
<1>8. f # NoMessage => Sent(f).on = "open" /\ Mine(Sent(f))
  BY <1>7 DEF Evidence, PageEvidence
<1>9. \A X : PageEvidence(g, f, X)
  BY <1>4, <1>7, <1>8 DEF PageEvidence, Replied
<1> QED BY <1>1, <1>3, <1>6, <1>9, PageMoves

\* No response comes.
LEMMA LostEvidence ==
  ASSUME NEW c \in Contexts, At(c), Evidence, NEW p \in Pages, Lost(p)
  PROVE  Evidence'
<1>1. PICK g : g = Page(p)
  OBVIOUS
<1>2. Framed(g) /\ g.w = wire[p]
  BY <1>1, PageIs, ViewIsFramed DEF At
<1>3. PICK X : X = Excused(p, history)
  OBVIOUS
<1>4. UNCHANGED <<server, history>> /\ flight' = [flight EXCEPT ![p] = NoMessage]
  BY DEF Lost
<1>5. PastGrows /\ X = Excused(p, history')
  BY <1>3, <1>4, PastStays
<1>6. PageEvidence(g, flight[p], X)
  BY <1>1, <1>3 DEF Evidence
<1>7. PICK h : /\ Becomes(p, h)
               /\ h = g \/ h = SaveFails(g)
               /\ g.m.save.phase # "sent" => h = g
  BY <1>1, Zenon DEF Lost
<1>8. CASE g.w.on = "open"
  <2>1. OpenEvidence(g, NoMessage, X)
    BY <1>2, <1>6, <1>8, Hushed DEF PageEvidence
  <2>2. Kept(g, h, X)
    BY <1>2, <1>7, KeptSelf, HelpersKept
  <2>3. OpenEvidence(h, NoMessage, X) /\ h.w.on = "open"
    BY <1>2, <1>8, <2>1, <2>2, KeptEvidence DEF Kept, SameForm
  <2>4. PageEvidence(h, NoMessage, X)
    BY <2>3 DEF PageEvidence, Replied, NoMessage
  <2> QED BY <1>4, <1>5, <1>7, <2>4, PageMoves
<1>9. CASE g.w.on # "open"
  <2>1. g.m = FreshMemory
    BY <1>6, <1>9 DEF PageEvidence
  <2>2. h = g
    BY <1>7, <2>1 DEF FreshMemory, NoSave
  <2>3. PageEvidence(h, NoMessage, X)
    BY <1>9, <2>1, <2>2 DEF PageEvidence, Replied, NoMessage
  <2> QED BY <1>4, <1>5, <1>7, <2>3, PageMoves
<1> QED BY <1>8, <1>9

\* What is attempted, and what is confirmed, counts evidence.
LEMMA Countable ==
  ASSUME NEW c \in Contexts, NEW g, IsView(g, c)
  PROVE  /\ \A x \in g.m.attempts : x.evRev \in Nat /\ x.e \in Entities
         /\ \A t \in g.m.conf : t.att # NoAttempt => t.att.evRev \in Nat /\ t.att.e \in Entities
<1>1. g.m \in Memories(c)
  BY DEF IsView, Views
<1>2. g.m.attempts \subseteq Attempts(c) /\ g.m.conf \subseteq Tasks(c)
  BY <1>1 DEF Memories
<1>3. \A x \in Attempts(c) : x.evRev \in Nat /\ x.e \in Entities
  BY DEF Attempts, AttemptFields
<1>4. \A t \in Tasks(c) : t.att # NoAttempt => t.att \in Attempts(c)
  BY DEF Tasks, TaskFields
<1> QED BY <1>2, <1>3, <1>4

\* A file is put on the form.
LEMMA AttachEvidence ==
  ASSUME NEW c \in Contexts, At(c), Evidence, NEW p \in Pages, Attach(p)
  PROVE  Evidence'
<1>1. PICK g : g = Page(p)
  OBVIOUS
<1>2. IsView(g, c) /\ Framed(g) /\ g.w = wire[p]
  BY <1>1, PageIs, ViewIsFramed DEF At
<1>3. PICK X, f : X = Excused(p, history) /\ f = flight[p]
  OBVIOUS
<1>4. UNCHANGED <<server, flight, history>> /\ g.w.on = "open"
  BY <1>2 DEF Attach, Editable, IsOpen
<1>5. PastGrows /\ X = Excused(p, history')
  BY <1>3, <1>4, PastStays
<1>6. PageEvidence(g, f, X) /\ OpenEvidence(g, f, X)
  BY <1>1, <1>3, <1>4 DEF Evidence, PageEvidence
<1>7. PICK e, n : e = g.w.sel /\ n = clock + 1
  OBVIOUS
<1>8. e \in Entities
  BY <1>2, <1>7 DEF Attach, Editable, Framed
<1>9. PICK k : k = WithFile(g, e, n)
  OBVIOUS
<1>10. Becomes(p, k)
  BY <1>1, <1>7, <1>9, Zenon DEF Attach, WithFile
<1>11. PICK v : v = OnInput(g.u, e, TRUE, online)
  OBVIOUS
<1>12. PICK fs, r : fs = g.w.form.files \cup {n} /\ r = [g.m.evRev EXCEPT ![e] = @ + 1]
  OBVIOUS
<1>13. PICK y : y = [g.w EXCEPT !.form.files = fs]
  OBVIOUS
<1>14. PICK m : m = [g.m EXCEPT !.evRev = r]
  OBVIOUS
<1>15. k.w = y /\ k.m = m /\ k.u = v
  <2>1. k = [g EXCEPT !.w.form.files = fs, !.m.evRev[e] = @ + 1, !.u = v]
    BY <1>9, <1>11, <1>12, Zenon DEF WithFile
  <2> QED BY <1>2, <1>12, <1>13, <1>14, <2>1 DEF Framed
<1>16. y.on = g.w.on /\ y.sel = e /\ y.pend = g.w.pend /\ y.form.files = fs
       /\ y.form.pay = g.w.form.pay
  BY <1>2, <1>7, <1>13 DEF Framed
<1>17. /\ m.jobs = g.m.jobs /\ m.conf = g.m.conf /\ m.attempts = g.m.attempts
       /\ m.broken = g.m.broken /\ m.save = g.m.save /\ m.evRev = r
  BY <1>2, <1>14 DEF Framed
<1>18. Shielded(v.st[e])
  <2>1. PICK s : s = g.u.st[e]
    OBVIOUS
  <2>2. {"dirty", "evidence", "before"} \subseteq DOMAIN s /\ DOMAIN g.u = {"st", "label"}
        /\ DOMAIN g.u.st = Entities
    BY <1>2, <1>8, <2>1 DEF Framed, Sober
  <2>3. PICK z : z = [s EXCEPT !.dirty = TRUE, !.durable = FALSE, !.status = "local",
                               !.evidence = @ \/ TRUE]
    OBVIOUS
  <2>4. z.dirty = TRUE /\ z.evidence = (s.evidence \/ TRUE)
    BY <2>2, <2>3
  <2>5. Shielded(z)
    BY <2>4, Zenon DEF Shielded
  <2>6. v = Told(g.u, e, z, e, online)
    BY <1>11, <2>1, <2>3 DEF OnInput
  <2>7. v.st[e] = z
    BY <1>8, <2>2, <2>6 DEF Told, WithLabelFor, WithLabel
  <2> QED BY <2>5, <2>7
<1>19. \A d \in Entities : g.m.evRev[d] <= r[d]
  BY <1>2, <1>12 DEF Framed
<1>20. \A x : x.evRev \in Nat /\ Counts(g, x) => Counts(k, x) /\ Passed(k, x)
  <2> TAKE x
  <2> HAVE x.evRev \in Nat /\ Counts(g, x)
  <2>1. x.e \in Entities /\ x.evRev <= g.m.evRev[x.e] /\ g.m.evRev[x.e] \in Nat /\ r[x.e] \in Nat
    BY <1>2, <1>12 DEF Counts, Framed
  <2>2. Counts(k, x)
    BY <1>15, <1>17, <1>19, <2>1 DEF Counts
  <2>3. x.e = e => r[x.e] = g.m.evRev[x.e] + 1
    BY <1>2, <1>8, <1>12 DEF Framed
  <2>4. Passed(k, x)
    BY <1>15, <1>16, <1>17, <2>1, <2>3 DEF Passed
  <2> QED BY <2>2, <2>4
<1>21. Mine(k.w) /\ Wiping(k.m) \subseteq X /\ Linked(k.m)
  BY <1>6, <1>7, <1>15, <1>16, <1>17 DEF OpenEvidence, Mine, Wiping, Linked
<1>22. Warned(k, X)
  BY <1>8, <1>15, <1>16, <1>18 DEF Warned
<1>23. Lives(k, f, X)
  BY <1>2, <1>6, <1>15, <1>16, <1>17, <1>20, Countable DEF OpenEvidence, Lives
<1>24. Tasked(k, X)
  BY <1>2, <1>6, <1>15, <1>17, <1>20, Countable DEF OpenEvidence, Tasked
<1>25. Asked(k, f, X)
  <2>1. \A x \in g.m.attempts : x.rid = Carried(f) /\ x.e \notin X => Passed(k, x)
    BY <1>2, <1>6, <1>20, Countable DEF OpenEvidence, Lives
  <2> QED BY <1>6, <1>7, <1>12, <1>15, <1>16, <1>17, <2>1 DEF OpenEvidence, Asked
<1>26. PageEvidence(k, f, X)
  BY <1>4, <1>6, <1>15, <1>16, <1>21, <1>22, <1>23, <1>24, <1>25 DEF OpenEvidence, PageEvidence
<1>27. flight' = [flight EXCEPT ![p] = f]
  BY <1>3, <1>4 DEF At
<1> QED BY <1>4, <1>5, <1>10, <1>26, <1>27, PageMoves

\* A finding excused is so no more: nothing about it is under way.
LEMMA Readmit ==
  ASSUME NEW k, NEW f, NEW X, NEW e, OpenEvidence(k, f, X \cup {e}), Wiping(k.m) \subseteq X,
         k.w.sel = e => k.w.form.files = {},
         \A x \in k.m.attempts : x.rid \in {k.w.pend, Carried(f)} => x.e # e,
         ~ k.m.broken => \A t \in k.m.conf : t.att # NoAttempt => t.att.e # e
  PROVE  OpenEvidence(k, f, X)
<1>1. Mine(k.w) /\ Linked(k.m)
  BY DEF OpenEvidence
<1>2. Warned(k, X)
  BY DEF OpenEvidence, Warned
<1>3. Lives(k, f, X)
  BY DEF OpenEvidence, Lives
<1>4. Tasked(k, X)
  BY DEF OpenEvidence, Tasked
<1>5. Asked(k, f, X)
  BY DEF OpenEvidence, Asked
<1> QED BY <1>1, <1>2, <1>3, <1>4, <1>5 DEF OpenEvidence

\* The count of a finding starts again.
LEMMA CountReset ==
  ASSUME NEW X, NEW g, Framed(g), NEW e \in Entities, NEW n \in Nat, n = g.m.evRev[e] \/ e \in X
  PROVE  /\ Kept(g, [g EXCEPT !.m.evRev[e] = n], X) /\ Calm(g, [g EXCEPT !.m.evRev[e] = n])
         /\ [g EXCEPT !.m.evRev[e] = n].w = g.w
<1>1. PICK r : r = [g.m.evRev EXCEPT ![e] = n]
  OBVIOUS
<1>2. PICK h : h = [g EXCEPT !.m.evRev[e] = n]
  OBVIOUS
<1>3. /\ DOMAIN h = {"w", "m", "u"} /\ h.w = g.w /\ h.u = g.u
      /\ {"evRev", "jobs", "conf", "attempts", "broken", "save"} \subseteq DOMAIN h.m
      /\ h.m.evRev = r /\ h.m.jobs = g.m.jobs /\ h.m.conf = g.m.conf
      /\ h.m.attempts = g.m.attempts /\ h.m.broken = g.m.broken /\ h.m.save = g.m.save
  BY <1>1, <1>2 DEF Framed
<1>4. r \in [Entities -> Nat] /\ \A d \in Entities \ X : r[d] = g.m.evRev[d]
  BY <1>1 DEF Framed
<1>5. Framed(h) /\ SameForm(g.w, h.w)
  BY <1>3, <1>4 DEF Framed, SameForm
<1>6. SameLinks(g.m, h.m) /\ SameTasks(g.m, h.m)
  BY <1>3 DEF SameLinks, SameTasks, Wiping, Linked
<1>7. SameAttempts(g, h, X) /\ Guarded(g.u, h.u, X)
  BY <1>3 DEF SameAttempts, Guarded, Framed
<1>8. Kept(g, h, X) /\ Calm(g, h)
  BY <1>3, <1>4, <1>5, <1>6, <1>7 DEF Kept, Calm
<1> QED BY <1>2, <1>3, <1>8

\* The end of a confirmation leaves the component.
LEMMA ConcludedWire ==
  ASSUME NEW g, Framed(g), NEW e, NEW task, NEW active, NEW unprotected, NEW clear
  PROVE  /\ Concluded(g, e, task, active, unprotected, clear).w = g.w
         /\ RecoveryDue(g).w = g.w
<1>1. PICK h : h = [g EXCEPT !.m.rev[e] = 0, !.m.newer[e] = NoPayload]
  OBVIOUS
<1>2. h.w = g.w /\ "w" \in DOMAIN h
  BY <1>1 DEF Framed
<1>3. \A u : [g EXCEPT !.u = u].w = g.w /\ [h EXCEPT !.u = u].w = g.w
  BY <1>2 DEF Framed
<1>4. \E u : \/ Concluded(g, e, task, active, unprotected, clear) = [g EXCEPT !.u = u]
            \/ Concluded(g, e, task, active, unprotected, clear) = [h EXCEPT !.u = u]
  BY <1>1 DEF Concluded
<1>5. RecoveryDue(g).w = g.w
  BY DEF RecoveryDue, Framed
<1> QED BY <1>3, <1>4, <1>5

\* More evidence came after the attempt (evidenceRevisions in handleServerConfirmation).
HasMore(g, e, a) == a # NoAttempt /\ g.m.evRev[e] > a.evRev

\* A confirmation ends.
LEMMA EndingEvidence ==
  ASSUME NEW c \in Contexts, At(c), Evidence, NEW p \in Pages, NEW task \in mem[p].conf,
         ConfirmEnds(p, task)
  PROVE  Evidence'
<1>1. PICK g : g = Page(p)
  OBVIOUS
<1>2. IsView(g, c) /\ Framed(g) /\ g.w = wire[p] /\ g.m = mem[p] /\ task \in g.m.conf
  BY <1>1, PageIs, ViewIsFramed DEF At
<1>3. PICK X, f : X = Excused(p, history) /\ f = flight[p]
  OBVIOUS
<1>4. PICK e, a : e = ConfirmedEntity(task) /\ a = task.att
  OBVIOUS
<1>5. UNCHANGED <<server, flight>> /\ task.phase = "final" /\ ~ g.m.broken
  BY <1>1 DEF ConfirmEnds
<1>6. g.w.on = "open"
  BY <1>2, Awake, Zenon DEF Script
<1>7. PageEvidence(g, f, X) /\ OpenEvidence(g, f, X)
  BY <1>1, <1>3, <1>6 DEF Evidence, PageEvidence
<1>8. Loose(g.m, task)
  BY <1>2, <1>5, <1>7 DEF OpenEvidence, Linked, Loose
<1>9. PICK as : as = {x \in g.m.attempts : x.rid # task.rid}
  OBVIOUS
<1>10. PICK h : h = [g EXCEPT !.m.conf = g.m.conf \ {task}, !.m.attempts = as]
  OBVIOUS
<1>11. \A Y : Kept(g, h, Y) /\ Calm(g, h)
  <2> TAKE Y
  <2>1. PICK S : S = {}
    OBVIOUS
  <2>2. h = [g EXCEPT !.m.conf = (g.m.conf \ {task}) \cup S, !.m.attempts = as]
    BY <1>10, <2>1
  <2>3. as \subseteq g.m.attempts
    BY <1>9
  <2>4. \A s \in S : s.key = task.key /\ s.att = task.att /\ \A r \in S : r = s
    BY <2>1
  <2> QED BY <1>2, <1>8, <2>1, <2>2, <2>3, <2>4, ConfChanged
<1>12. h.w = g.w /\ h.m.conf = g.m.conf \ {task} /\ h.m.attempts = as /\ h.m.evRev = g.m.evRev
       /\ Framed(h)
  BY <1>2, <1>10, <1>11, KeptFrames DEF Framed
<1>13. {"stray", "givenUp"} \subseteq DOMAIN history
  BY DEF Evidence
<1>14. flight' = [flight EXCEPT ![p] = f]
  BY <1>3, <1>5 DEF At
<1>15. \A k, Y : /\ X \subseteq Y /\ Kept(g, k, Y) /\ Calm(g, k)
                 => OpenEvidence(k, f, Y) /\ k.w.on = "open"
  BY <1>2, <1>6, <1>7, KeptEvidence, CalmGoesOn DEF Kept, SameForm
<1>16. \A k, Y : OpenEvidence(k, f, Y) /\ k.w.on = "open" => PageEvidence(k, f, Y)
  BY <1>7 DEF PageEvidence
<1>17. CASE e = Nothing
  <2>1. Becomes(p, RecoveryDue(h))
    BY <1>1, <1>4, <1>9, <1>10, <1>17, Zenon DEF ConfirmEnds
  <2>2. history' = history
    BY <1>4, <1>17 DEF ConfirmEnds
  <2>3. PastGrows /\ Excused(p, history') = X
    BY <1>3, <2>2, PastStays
  <2>4. PICK k : k = RecoveryDue(h)
    OBVIOUS
  <2>5. Kept(h, k, X) /\ Calm(h, k)
    BY <1>12, <2>4, HelpersKept
  <2>6. Kept(g, k, X) /\ Calm(g, k)
    BY <1>11, <2>5, KeptTwice, CalmGoesOn
  <2>7. PageEvidence(k, f, X)
    BY <1>15, <1>16, <2>6
  <2> QED BY <1>5, <1>14, <2>1, <2>3, <2>4, <2>7, PageMoves
<1>18. CASE e # Nothing
  <2>1. task.att \in Attempts(c) \cup {NoAttempt} /\ task.e \in Entities
    BY <1>2, ConfTask
  <2>2. e \in Entities
    BY <1>4, <1>18, <2>1 DEF ConfirmedEntity, Attempts, AttemptFields
  <2>3. PICK n \in Nat : n = IF HasMore(g, e, a) THEN g.m.evRev[e] ELSE 0
    BY <1>2, <2>2 DEF Framed
  <2>4. PICK clear : clear = (~ HasMore(g, e, a))
    OBVIOUS
  <2>5. PICK active, un :
          Becomes(p, RecoveryDue(Concluded([h EXCEPT !.m.evRev[e] = n], e, task, active, un, clear)))
    <3>1. \E active, un : Becomes(p, RecoveryDue(Concluded(
             [h EXCEPT !.m.evRev[e] = IF HasMore(g, e, a) THEN @ ELSE 0], e, task, active, un,
             ~ HasMore(g, e, a))))
      BY <1>1, <1>4, <1>9, <1>10, <1>18, ZenonT(90) DEF ConfirmEnds, HasMore
    <3>2. PICK active, un : Becomes(p, RecoveryDue(Concluded(
             [h EXCEPT !.m.evRev[e] = IF HasMore(g, e, a) THEN @ ELSE 0], e, task, active, un,
             ~ HasMore(g, e, a))))
      BY <3>1
    <3>3. [h EXCEPT !.m.evRev[e] = IF HasMore(g, e, a) THEN @ ELSE 0] = [h EXCEPT !.m.evRev[e] = n]
      BY <1>12, <2>3
    <3>4. Becomes(p, RecoveryDue(Concluded([h EXCEPT !.m.evRev[e] = n], e, task, active, un,
                                           ~ HasMore(g, e, a))))
      BY <3>2, <3>3, Zenon
    <3>5. Becomes(p, RecoveryDue(Concluded([h EXCEPT !.m.evRev[e] = n], e, task, active, un, clear)))
      BY <2>4, <3>4, Zenon
    <3> QED BY <3>5
  <2>6. PICK i : i = [h EXCEPT !.m.evRev[e] = n]
    OBVIOUS
  <2>7. PICK j : j = Concluded(i, e, task, active, un, clear)
    OBVIOUS
  <2>8. PICK k : k = RecoveryDue(j)
    OBVIOUS
  <2>9. Becomes(p, k)
    BY <2>5, <2>6, <2>7, <2>8
  <2>10. \A Y : e \in Y \/ HasMore(g, e, a) => Kept(h, k, Y) /\ Calm(h, k) /\ k.w = h.w
    <3> SUFFICES ASSUME NEW Y, e \in Y \/ HasMore(g, e, a)
                 PROVE  Kept(h, k, Y) /\ Calm(h, k) /\ k.w = h.w
      OBVIOUS
    <3>1. n = h.m.evRev[e] \/ e \in Y
      BY <1>12, <2>3
    <3>2. clear => e \in Y
      BY <2>4, Zenon
    <3>3. Kept(h, i, Y) /\ Calm(h, i) /\ i.w = h.w
      BY <1>12, <2>2, <2>6, <3>1, CountReset
    <3>4. Framed(i)
      BY <3>3, KeptFrames
    <3>5. Kept(i, j, Y) /\ Calm(i, j) /\ j.w = i.w
      BY <2>2, <2>7, <3>2, <3>4, ConcludedKept, ConcludedWire
    <3>6. Framed(j)
      BY <3>5, KeptFrames
    <3>7. Kept(j, k, Y) /\ Calm(j, k) /\ k.w = j.w
      BY <2>8, <3>6, HelpersKept, ConcludedWire
    <3>8. Kept(h, j, Y) /\ Calm(h, j)
      BY <3>3, <3>5, KeptTwice, CalmGoesOn
    <3> QED BY <3>3, <3>5, <3>7, <3>8, KeptTwice, CalmGoesOn
  <2>11. \A Y : e \in Y \/ HasMore(g, e, a) => Kept(g, k, Y) /\ Calm(g, k) /\ k.w = g.w
    BY <1>11, <1>12, <2>10, KeptTwice, CalmGoesOn
  <2>12. CASE HasMore(g, e, a) \/ e \in X
    <3>1. history' = history \/ history' = [history EXCEPT !.stray = @ \cup {<<p, e>>}]
      BY <1>4, Zenon DEF ConfirmEnds
    <3>2. PastGrows /\ Excused(p, history') = X
      <4>1. CASE history' = history
        BY <1>3, <4>1, PastStays
      <4>2. CASE history' # history
        <5>1. history' = [history EXCEPT !.stray = @ \cup {<<p, e>>}]
          BY <3>1, <4>2
        <5>2. ~ HasMore(g, e, a)
          BY <1>1, <1>4, <4>2, Zenon DEF ConfirmEnds, HasMore
        <5>3. /\ history'.stray = history.stray \cup {<<p, e>>} /\ history'.givenUp = history.givenUp
              /\ {"stray", "givenUp"} \subseteq DOMAIN history'
          BY <1>13, <5>1
        <5>4. <<p, e>> \in history.stray \cup history.givenUp
          BY <1>3, <2>12, <5>2 DEF Excused
        <5> QED BY <1>3, <5>3, <5>4 DEF PastGrows, Excused
      <4> QED BY <4>1, <4>2
    <3>3. PageEvidence(k, f, X)
      BY <1>15, <1>16, <2>11, <2>12
    <3> QED BY <1>5, <1>14, <2>9, <3>2, <3>3, PageMoves
  <2>13. CASE ~ HasMore(g, e, a) /\ e \notin X /\ (a = NoAttempt \/ Overlaps(g, f, e, task))
    <3>1. history' = [history EXCEPT !.stray = @ \cup {<<p, e>>}]
      BY <1>1, <1>3, <1>4, <1>18, <2>13, Zenon DEF ConfirmEnds, HasMore
    <3>2. /\ history'.stray = history.stray \cup {<<p, e>>} /\ history'.givenUp = history.givenUp
          /\ {"stray", "givenUp"} \subseteq DOMAIN history'
      BY <1>13, <3>1
    <3>3. PastGrows /\ Excused(p, history') = X \cup {e}
      BY <1>3, <2>2, <3>2 DEF PastGrows, Excused
    <3>4. PICK Y : Y = X \cup {e}
      OBVIOUS
    <3>5. Kept(g, k, Y) /\ Calm(g, k) /\ X \subseteq Y
      BY <2>11, <3>4
    <3>6. PageEvidence(k, f, Y)
      BY <1>15, <1>16, <3>5
    <3>7. PageEvidence(k, f, Excused(p, history'))
      <4>1. Y = Excused(p, history')
        BY <3>3, <3>4
      <4> QED BY <3>6, <4>1
    <3> QED BY <1>5, <1>14, <2>9, <3>3, <3>7, PageMoves
  <2>14. CASE ~ HasMore(g, e, a) /\ e \notin X /\ a # NoAttempt /\ ~ Overlaps(g, f, e, task)
    <3>1. history' = history
      BY <1>1, <1>3, <1>4, <2>14, Zenon DEF ConfirmEnds
    <3>2. PastGrows /\ Excused(p, history') = X
      BY <1>3, <3>1, PastStays
    <3>3. PICK Y : Y = X \cup {e}
      OBVIOUS
    <3>4. Kept(g, k, Y) /\ Calm(g, k) /\ X \subseteq Y /\ k.w = g.w
      BY <2>11, <3>3
    <3>5. OpenEvidence(k, f, X \cup {e}) /\ k.w.on = "open"
      BY <1>15, <3>3, <3>4
    <3>6. Wiping(k.m) \subseteq X
      BY <1>7, <3>4 DEF Kept, SameLinks, OpenEvidence
    <3>7. k.w.sel = e => k.w.form.files = {}
      <4>1. a.e = e
        BY <1>4, <2>14 DEF ConfirmedEntity
      <4>2. Counts(g, a) /\ Passed(g, a)
        BY <1>2, <1>4, <1>5, <1>7, <2>14, <4>1 DEF OpenEvidence, Tasked
      <4>3. a.evRev \in Nat /\ g.m.evRev[e] \in Nat
        BY <1>2, <1>4, <2>2, <2>14, Countable DEF Framed
      <4>4. a.evRev = g.m.evRev[e]
        BY <2>14, <4>1, <4>2, <4>3 DEF HasMore, Counts
      <4> QED BY <3>4, <4>1, <4>2, <4>3, <4>4 DEF Passed
    <3>8. \A x \in k.m.attempts : x.rid \in {k.w.pend, Carried(f)} => x.e # e
      <4>1. k.m.attempts \subseteq as
        BY <1>12, <2>10, <3>3 DEF Calm
      <4> QED BY <1>9, <2>14, <3>4, <4>1 DEF Overlaps
    <3>9. ~ k.m.broken => \A t \in k.m.conf : t.att # NoAttempt => t.att.e # e
      <4>1. SameTasks(h.m, k.m)
        BY <2>10, <3>3 DEF Kept
      <4> QED BY <1>12, <2>14, <4>1 DEF SameTasks, Overlaps
    <3>10. PageEvidence(k, f, X)
      BY <1>16, <3>5, <3>6, <3>7, <3>8, <3>9, Readmit
    <3> QED BY <1>5, <1>14, <2>9, <3>2, <3>10, PageMoves
  <2> QED BY <2>12, <2>13, <2>14
<1> QED BY <1>17, <1>18

\* A component with its parts.
Complete(w) ==
  /\ {"on", "sel", "form", "canon", "ver", "stat", "pend", "ro"} \subseteq DOMAIN w
  /\ {"pay", "files"} \subseteq DOMAIN w.form

\* A component that goes on from another: with no more files, and with none when
\* it shows another finding.
Follows(w, z) ==
  /\ Complete(z) /\ Mine(z) /\ z.on = w.on /\ z.pend \in {0, w.pend}
  /\ z.form.files \subseteq w.form.files
  /\ z.sel # w.sel => z.form.files = {}

\* The server holds every finding under its name.
Sorted == \A e \in Entities : server'.content[e].of = e

\* A component of a context has all its parts.
LEMMA ComponentComplete ==
  ASSUME NEW c \in Contexts, NEW w \in Components(c)
  PROVE  Complete(w) /\ w.sel \in Entities \cup {Nothing} /\ "of" \in DOMAIN w.form.pay
<1>1. w.form \in Forms(c) /\ w.canon \in Forms(c) /\ w.sel \in Entities \cup {Nothing}
  BY DEF Components
<1>2. w.form.pay \in Payloads(c)
  BY <1>1 DEF Forms
<1> QED BY <1>1, <1>2 DEF Complete, Components, Forms, Payloads

\* The component the server works on has the form that was sent.
LEMMA KnownParts ==
  ASSUME NEW w, Complete(w)
  PROVE  /\ Complete(Known(w)) /\ Known(w).on = w.on /\ Known(w).sel = w.sel
         /\ Known(w).form = w.form /\ Known(w).pend = w.pend
<1>1. PICK s : s = IF w.form # w.canon /\ w.stat # "conflict" THEN "unsaved" ELSE w.stat
  OBVIOUS
<1>2. PICK k : k = [w EXCEPT !.canon = w.form, !.ro = server.shut, !.stat = s]
  OBVIOUS
<1>3. Known(w) = k
  BY <1>1, <1>2 DEF Known, Complete
<1> QED BY <1>2, <1>3 DEF Complete

\* A component filled from the server shows no files.
LEMMA ReloadedParts ==
  ASSUME NEW w, Complete(w), Sorted, NEW e \in Entities \cup {Nothing}
  PROVE  /\ Follows(w, Reloaded(w, e)) /\ Reloaded(w, e).sel = e
         /\ Reloaded(w, e).form.files = {} /\ Reloaded(w, e).pend = w.pend
<1>1. PICK f : f = IF e = Nothing THEN NoForm ELSE Form(server'.content[e], {})
  OBVIOUS
<1>2. PICK v : v = [w EXCEPT !.sel = e, !.form = f, !.canon = f, !.stat = "saved"]
  OBVIOUS
<1>3. Reloaded(w, e) = v
  BY <1>1, <1>2 DEF Reloaded
<1>4. f.files = {} /\ f.pay.of = e /\ {"pay", "files"} \subseteq DOMAIN f
  <2>1. CASE e = Nothing
    BY <1>1, <2>1 DEF NoForm, Form, Payload
  <2>2. CASE e # Nothing
    BY <1>1, <2>2 DEF Form, Sorted
  <2> QED BY <2>1, <2>2
<1>5. v.sel = e /\ v.form = f /\ v.pend = w.pend /\ v.on = w.on /\ Complete(v)
  BY <1>2, <1>4 DEF Complete
<1>6. Mine(v) /\ Follows(w, v)
  BY <1>4, <1>5 DEF Mine, Follows
<1> QED BY <1>3, <1>4, <1>5, <1>6

\* What the user asked for, carried out.
LEMMA ActedParts ==
  ASSUME NEW m, m.kind = "select" => m.arg \in Entities \cup {Nothing}, Sorted,
         NEW w, Complete(w), Mine(w), w.sel \in Entities \cup {Nothing},
         m.kind = "structure" => "of" \in DOMAIN w.form.pay
  PROVE  Follows(w, Acted(m, w)) /\ (m.kind = "select" => Acted(m, w).sel = m.arg)
<1>1. CASE m.kind = "select"
  BY <1>1, ReloadedParts DEF Acted
<1>2. CASE m.kind = "next"
  BY <1>2, AfterType, ReloadedParts DEF Acted
<1>3. CASE m.kind = "discard" /\ w.stat = "error" /\ ~ server.shut
  <2>1. PICK v : v = Reloaded(w, w.sel)
    OBVIOUS
  <2>2. Follows(w, v)
    BY <2>1, ReloadedParts
  <2>3. PICK z : z = [v EXCEPT !.pend = 0]
    OBVIOUS
  <2>4. Acted(m, w) = z
    BY <1>3, <2>1, <2>3 DEF Acted
  <2>5. z.sel = v.sel /\ z.form = v.form /\ z.on = v.on /\ z.pend = 0 /\ Complete(z)
    BY <2>2, <2>3 DEF Follows, Complete
  <2>6. Follows(w, z)
    BY <2>2, <2>5 DEF Follows, Mine
  <2> QED BY <1>3, <2>4, <2>6
<1>4. CASE m.kind = "structure" /\ ~ server.shut
  <2>1. PICK pay : pay = [w.form.pay EXCEPT !.n = clock + 1, !.sol = m.arg]
    OBVIOUS
  <2>2. pay.of = w.form.pay.of
    BY <1>4, <2>1
  <2>3. PICK z : z = [w EXCEPT !.form.pay = pay, !.canon.pay = pay]
    OBVIOUS
  <2>4. Acted(m, w) = z
    BY <1>4, <2>1, <2>3 DEF Acted
  <2>5. PICK f : f = [w.form EXCEPT !.pay = pay]
    OBVIOUS
  <2>6. z.sel = w.sel /\ z.form = f /\ z.on = w.on /\ z.pend = w.pend
        /\ DOMAIN z = DOMAIN w
    BY <2>3, <2>5 DEF Complete
  <2>7. f.files = w.form.files /\ f.pay = pay /\ DOMAIN f = DOMAIN w.form
    BY <2>5 DEF Complete
  <2>8. Complete(z) /\ Mine(z)
    BY <2>2, <2>6, <2>7 DEF Complete, Mine
  <2>9. Follows(w, z)
    BY <2>6, <2>7, <2>8 DEF Follows
  <2> QED BY <1>4, <2>4, <2>9
<1>5. CASE ~ \/ m.kind = "select"
             \/ m.kind = "next"
             \/ m.kind = "discard" /\ w.stat = "error" /\ ~ server.shut
             \/ m.kind = "structure" /\ ~ server.shut
  <2>1. Acted(m, w) = w
    BY <1>5 DEF Acted
  <2> QED BY <1>5, <2>1 DEF Follows
<1> QED BY <1>1, <1>2, <1>3, <1>4, <1>5

\* The answer to a save that went through carries no files.
LEMMA SavedParts ==
  ASSUME NEW m, m.kind = "select" => m.arg \in Entities \cup {Nothing}, m.kind # "structure",
         Sorted, NEW w, Complete(w), w.sel \in Entities \cup {Nothing}, NEW ver
  PROVE  /\ Follows(w, SavedWire(m, w, ver)) /\ SavedWire(m, w, ver).form.files = {}
         /\ SavedWire(m, w, ver).pend = 0
         /\ m.kind = "select" => SavedWire(m, w, ver).sel = m.arg
<1>1. PICK v : v = Reloaded(w, w.sel)
  OBVIOUS
<1>2. Follows(w, v) /\ v.sel = w.sel /\ v.form.files = {}
  BY <1>1, ReloadedParts
<1>3. PICK y : y = Acted(m, v)
  OBVIOUS
<1>4. Follows(v, y) /\ (m.kind = "select" => y.sel = m.arg)
  BY <1>2, <1>3, ActedParts DEF Follows
<1>5. PICK z : z = [y EXCEPT !.ver = ver, !.pend = 0]
  OBVIOUS
<1>6. SavedWire(m, w, ver) = z
  BY <1>1, <1>3, <1>5 DEF SavedWire
<1>7. z.sel = y.sel /\ z.form = y.form /\ z.on = y.on /\ z.pend = 0 /\ Complete(z)
  BY <1>4, <1>5 DEF Follows, Complete
<1>8. y.form.files = {} /\ y.on = w.on
  BY <1>2, <1>4 DEF Follows
<1>9. Follows(w, z)
  BY <1>4, <1>7, <1>8 DEF Follows, Mine
<1> QED BY <1>4, <1>6, <1>7, <1>8, <1>9

\* The request is answered: what is attempted under its UUID is what was.
LEMMA Answered ==
  ASSUME NEW c \in Contexts, NEW g, IsView(g, c), NEW m, m.status = "sent", NEW X,
         OpenEvidence(g, m, X), NEW f, f.status = "answered", f.kind = m.kind, f.sent = m.w,
         f.event.rid \in {0, m.w.pend} \/ f.event.rid \notin 1 .. c.now
  PROVE  OpenEvidence(g, f, X)
<1>1. Sent(m) = m.w /\ Sent(f) = m.w /\ Carried(m) = m.w.pend /\ Carried(f) = f.event.rid
  BY DEF Sent, Carried
<1>2. m # NoMessage /\ f # NoMessage
  BY DEF NoMessage
<1>3. \A x \in g.m.attempts : x.rid \in 1 .. c.now
  <2>1. g.m.attempts \subseteq Attempts(c)
    BY DEF IsView, Views, Memories
  <2> QED BY <2>1 DEF Attempts, AttemptFields
<1>4. c.now \in Nat
  BY DEF Contexts
<1>5. \A x \in g.m.attempts : x.rid = Carried(f) => x.rid = Carried(m)
  BY <1>1, <1>3, <1>4
<1>6. Lives(g, f, X)
  BY <1>5 DEF OpenEvidence, Lives
<1>7. Asked(g, f, X)
  BY <1>1, <1>2, <1>5 DEF OpenEvidence, Asked
<1> QED BY <1>6, <1>7 DEF OpenEvidence

\* The server answers a request.
LEMMA AnswerEvidence ==
  ASSUME NEW c \in Contexts, At(c), Evidence, NEW p \in Pages, NEW m, m = flight[p],
         m.status = "sent", UNCHANGED <<wire, mem, ui>>, PastGrows, Sorted,
         Excused(p, history') = Excused(p, history),
         NEW v, Follows(m.w, v), NEW event, NEW dropped, Answer(p, m, v, event, dropped),
         event.rid \in {0, m.w.pend} \/ event.rid \notin 1 .. c.now,
         event # NoEvent =>
           /\ v.form.files = {} /\ v.pend = 0
           /\ m.kind \in {"save", "next"} \/ (m.kind = "select" /\ v.sel = m.arg)
           /\ m.w.pend # 0 => event.rid = m.w.pend
  PROVE  Evidence'
<1>1. PICK g : g = Page(p)
  OBVIOUS
<1>2. IsView(g, c) /\ Framed(g) /\ g.w = wire[p] /\ g.w.on \in {"new", "open", "gone"}
  BY <1>1, PageIs, ViewIsFramed DEF At, Components
<1>3. PICK X : X = Excused(p, history)
  OBVIOUS
<1>4. PageEvidence(g, m, X) /\ m # NoMessage
  <2>1. m # NoMessage
    BY DEF NoMessage
  <2> QED BY <1>1, <1>3, <2>1 DEF Evidence
<1>5. Becomes(p, g) /\ X = Excused(p, history')
  BY <1>1, <1>3, Stands
<1>6. PICK f : f = IF wire[p].on = "gone" THEN NoMessage
                   ELSE [status |-> "answered", kind |-> m.kind, sent |-> m.w, w |-> v,
                         event |-> event, dropped |-> dropped]
  OBVIOUS
<1>7. flight' = [flight EXCEPT ![p] = f]
  BY <1>6, Zenon DEF Answer
<1>8. CASE wire[p].on = "gone"
  <2>1. f = NoMessage /\ g.m = FreshMemory /\ g.w.on = "gone"
    BY <1>2, <1>4, <1>6, <1>8 DEF PageEvidence
  <2>2. PageEvidence(g, f, X)
    BY <2>1 DEF PageEvidence, Replied, NoMessage
  <2> QED BY <1>5, <1>7, <2>2, OneEvidence DEF Sorted
<1>9. CASE wire[p].on # "gone"
  <2>1. g.w.on = "open"
    BY <1>2, <1>4, <1>9 DEF PageEvidence
  <2>2. /\ f.status = "answered" /\ f.kind = m.kind /\ f.sent = m.w /\ f.w = v /\ f.event = event
    BY <1>6, <1>9
  <2>3. OpenEvidence(g, m, X)
    BY <1>4, <2>1 DEF PageEvidence
  <2>4. OpenEvidence(g, f, X)
    BY <1>2, <2>2, <2>3, Answered
  <2>5. Sent(m) = m.w /\ Sent(f) = m.w
    BY <2>2 DEF Sent
  <2>6. Mine(m.w) /\ m.w.on = "open"
    BY <1>4, <2>5 DEF PageEvidence
  <2>7. m.kind = "select" => m.arg # m.w.sel
    BY <1>4, <2>3 DEF OpenEvidence, Asked
  <2>8. Replied(f)
    BY <2>2, <2>6, <2>7 DEF Replied, Follows
  <2>9. PageEvidence(g, f, X)
    BY <2>1, <2>4, <2>5, <2>6, <2>8 DEF PageEvidence
  <2> QED BY <1>5, <1>7, <2>9, OneEvidence DEF Sorted
<1> QED BY <1>8, <1>9

\* A save is applied to the finding it is about.
LEMMA SortedApplied ==
  ASSUME NEW c \in Contexts, At(c), Evidence, NEW p \in Pages, NEW w, NEW rid, Applied(p, w, rid),
         w.form.pay.of = w.sel, "of" \in DOMAIN w.form.pay
  PROVE  Sorted /\ PastGrows /\ Excused(p, history') = Excused(p, history)
<1>1. PICK pay : pay = Numbered(w.form.pay, clock)
  OBVIOUS
<1>2. PICK v : v = server.ver + 1
  OBVIOUS
<1>3. PICK row : row = [rid |-> rid, e |-> w.sel, form |-> w.form, ver |-> v]
  OBVIOUS
<1>4. PICK a, b : a = [tab |-> p, pay |-> w.form.pay, ver |-> v] /\ b = [tab |-> p, pay |-> pay, ver |-> v]
  OBVIOUS
<1>5. /\ server' = [server EXCEPT !.ver = @ + 1, !.content[w.sel] = pay,
                                  !.taken = @ \cup w.form.files, !.journal = @ \cup {row}]
      /\ history' = [history EXCEPT !.held = @ \cup {a, b}]
  BY <1>1, <1>2, <1>3, <1>4, Zenon DEF Applied
<1>6. pay.of = w.sel
  <2>1. PICK s : s = [i \in DOMAIN w.form.pay.sol |->
                       IF w.form.pay.sol[i] = 0 THEN clock + i ELSE w.form.pay.sol[i]]
    OBVIOUS
  <2>2. pay = [w.form.pay EXCEPT !.sol = s]
    BY <1>1, <2>1 DEF Numbered
  <2> QED BY <2>2
<1>7. server \in Servers(c) /\ server.content \in [Entities -> Payloads(c)]
  BY DEF At, ServerAt, Servers
<1>8. \A e \in Entities : server'.content[e] = IF e = w.sel THEN pay ELSE server.content[e]
  BY <1>5, <1>7 DEF Servers
<1>9. Sorted
  BY <1>6, <1>8 DEF Sorted, Evidence
<1>10. /\ {"stray", "givenUp"} \subseteq DOMAIN history'
       /\ history'.stray = history.stray /\ history'.givenUp = history.givenUp
  BY <1>5 DEF Evidence
<1> QED BY <1>9, <1>10 DEF PastGrows, Excused

\* The server serves a request.
LEMMA ServedEvidence ==
  ASSUME NEW c \in Contexts, At(c), Evidence, NEW p \in Pages, Serve(p)
  PROVE  Evidence'
<1>1. PICK m : m = flight[p]
  OBVIOUS
<1>2. PICK w : w = Known(m.w)
  OBVIOUS
<1>3. PICK rid : rid = IF w.pend # 0 THEN w.pend ELSE clock + 1
  OBVIOUS
<1>4. m.status = "sent" /\ UNCHANGED <<wire, mem, ui>> /\ Served(p, m, w, rid)
  BY <1>1, <1>2, <1>3, ServeCases
<1>5. m \in Requests(c) /\ m.w \in Components(c)
  BY <1>1, <1>4, RequestOf DEF At
<1>6. /\ m.w.sel \in Entities \cup {Nothing} /\ Complete(m.w) /\ "of" \in DOMAIN m.w.form.pay
      /\ m.w.pend \in 0 .. c.now /\ c.now = clock /\ clock \in Nat
  BY <1>5, ComponentComplete DEF Components, At, Contexts
<1>7. /\ Complete(w) /\ w.on = m.w.on /\ w.sel = m.w.sel /\ w.form = m.w.form /\ w.pend = m.w.pend
  BY <1>2, <1>6, KnownParts
<1>8. Mine(m.w)
  <2>1. m # NoMessage /\ Sent(m) = m.w
    BY <1>4 DEF NoMessage, Sent
  <2> QED BY <1>1, <2>1 DEF Evidence, PageEvidence
<1>9. Mine(w) /\ Follows(m.w, w) /\ \A z : Follows(w, z) => Follows(m.w, z)
  BY <1>7, <1>8 DEF Mine, Follows
<1>10. m.kind = "select" => m.arg \in Entities \cup {Nothing}
  BY <1>5 DEF Requests
<1>11. UNCHANGED server /\ UNCHANGED history
         => Sorted /\ PastGrows /\ Excused(p, history') = Excused(p, history)
  BY PastStays DEF Sorted, Evidence
<1>12. NoEvent.rid = 0
  BY DEF NoEvent
<1>13. ASSUME UNCHANGED server /\ UNCHANGED history, NEW v, Follows(w, v), NEW dropped,
              Answer(p, m, v, NoEvent, dropped)
       PROVE  Evidence'
  BY <1>1, <1>4, <1>9, <1>11, <1>12, <1>13, AnswerEvidence
<1>14. ASSUME Sorted, PastGrows, Excused(p, history') = Excused(p, history), NEW ver,
              NeedsSaving(m, w), Answer(p, m, SavedWire(m, w, ver), Confirmation(rid, w, ver), FALSE)
       PROVE  Evidence'
  <2>1. m.kind \in {"save", "next", "select"}
    BY <1>14 DEF NeedsSaving
  <2>2. PICK v : v = SavedWire(m, w, ver)
    OBVIOUS
  <2>3. PICK x : x = Confirmation(rid, w, ver)
    OBVIOUS
  <2>4. /\ Follows(w, v) /\ v.form.files = {} /\ v.pend = 0
        /\ m.kind = "select" => v.sel = m.arg
    <3>1. m.kind # "structure"
      BY <2>1
    <3> QED BY <1>6, <1>7, <1>10, <1>14, <2>2, <3>1, SavedParts
  <2>5. x.rid = rid
    BY <2>3 DEF Confirmation
  <2>6. /\ x.rid \in {0, m.w.pend} \/ x.rid \notin 1 .. c.now
        /\ m.w.pend # 0 => x.rid = m.w.pend
    BY <1>3, <1>6, <1>7, <2>5
  <2>7. Answer(p, m, v, x, FALSE)
    BY <1>14, <2>2, <2>3, Zenon
  <2>8. Follows(m.w, v)
    BY <1>9, <2>4
  <2> QED BY <1>1, <1>4, <1>14, <2>1, <2>4, <2>6, <2>7, <2>8, AnswerEvidence
<1>15. CASE /\ ~ NeedsSaving(m, w) /\ UNCHANGED server /\ UNCHANGED history
            /\ Answer(p, m, Acted(m, w), NoEvent, m.kind = "discard" /\ w.stat = "error")
  <2>1. PICK v : v = Acted(m, w)
    OBVIOUS
  <2>2. PICK dropped : dropped = (m.kind = "discard" /\ w.stat = "error")
    OBVIOUS
  <2>3. Answer(p, m, v, NoEvent, dropped)
    BY <1>15, <2>1, <2>2, Zenon
  <2>4. Follows(w, v)
    BY <1>6, <1>7, <1>9, <1>10, <1>11, <1>15, <2>1, ActedParts
  <2> QED BY <1>13, <1>15, <2>3, <2>4
<1>16. CASE UNCHANGED server /\ UNCHANGED history /\ Answer(p, m, w, NoEvent, FALSE)
  <2>1. Follows(w, w)
    BY <1>7, <1>9 DEF Follows
  <2> QED BY <1>13, <1>16, <2>1
<1>17. CASE /\ NeedsSaving(m, w) /\ ~ Declined(w)
            /\ Outcome(w, rid) = "applied" /\ Applied(p, w, rid)
            /\ Answer(p, m, SavedWire(m, w, server.ver + 1),
                      Confirmation(rid, w, server.ver + 1), FALSE)
  <2>1. Sorted /\ PastGrows /\ Excused(p, history') = Excused(p, history)
    BY <1>6, <1>7, <1>9, <1>17, SortedApplied DEF Mine
  <2> QED BY <1>14, <1>17, <2>1
<1>18. CASE /\ NeedsSaving(m, w) /\ ~ Declined(w) /\ Outcome(w, rid) = "replayed"
            /\ UNCHANGED server /\ UNCHANGED history
            /\ Answer(p, m, SavedWire(m, w, JournalRow(rid).ver),
                      Confirmation(rid, w, JournalRow(rid).ver), FALSE)
  BY <1>11, <1>14, <1>18
<1>19. CASE /\ UNCHANGED server /\ UNCHANGED history
            /\ \E stat \in {"conflict", "error"} : Answer(p, m, Refused(w, stat), NoEvent, FALSE)
  <2>1. PICK stat \in {"conflict", "error"} : Answer(p, m, Refused(w, stat), NoEvent, FALSE)
    BY <1>19
  <2>2. PICK v : v = Refused(w, stat)
    OBVIOUS
  <2>3. Follows(w, v)
    BY <1>7, <1>9, <2>2 DEF Refused, Follows, Complete, Mine
  <2>4. Answer(p, m, v, NoEvent, FALSE)
    BY <2>1, <2>2, Zenon
  <2> QED BY <1>13, <1>19, <2>3, <2>4
<1> QED BY <1>4, <1>15, <1>16, <1>17, <1>18, <1>19, Zenon DEF Served

-----------------------------------------------------------------------------
(* A response and the evidence *)

\* The response is merged: the form has no more files than it had, and none when
\* another finding is shown; what has been saved has been counted, and there is
\* more if files are left.
LEMMA LandedEvidence ==
  ASSUME NEW c \in Contexts, NEW g, IsView(g, c), NEW X, NEW a, a \in Responses(c),
         OpenEvidence(g, a, X), Mine(Sent(a)), Replied(a), NEW rekeyed
  PROVE  LET h == Merged(g, a, rekeyed) IN
         /\ Framed(h) /\ h.m = g.m /\ h.u = g.u /\ h.w.on = "open"
         /\ h.w.sel = a.w.sel
         /\ OpenEvidence(h, NoMessage, X)
         /\ a.event # NoEvent =>
              \A x \in g.m.attempts : x.rid = a.event.rid =>
                 h.w.pend = 0 /\ (x.e \notin X => Counts(h, x) /\ Passed(h, x))
<1>1. PICK f : f = IF a.w.form # a.sent.form \/ rekeyed THEN a.w.form ELSE g.w.form
  OBVIOUS
<1>2. PICK n : n = IF a.w.pend # a.sent.pend THEN a.w.pend ELSE g.w.pend
  OBVIOUS
<1>3. PICK w : w = [a.w EXCEPT !.form = f, !.pend = n]
  OBVIOUS
<1>4. PICK h : h = [g EXCEPT !.w = w]
  OBVIOUS
<1>5. Merged(g, a, rekeyed) = h
  BY <1>1, <1>2, <1>3, <1>4 DEF Merged
<1>6. Framed(h)
  <2>1. IsView(h, c)
    BY <1>5, MergedView
  <2> QED BY <2>1, ViewIsFramed
<1>7. /\ a.status = "answered" /\ a.w \in Components(c) /\ a.sent \in Components(c)
      /\ a.event \in Confirmations(c)
      /\ a.event # NoEvent /\ a.sent.pend = 0 => Unnamed(a.event.rid, c)
  BY DEF Responses, ResponseFields
<1>8. h.w = w /\ h.m = g.m /\ h.u = g.u
  BY <1>4, ViewIsFramed DEF Framed
<1>9. w.on = a.w.on /\ w.sel = a.w.sel /\ w.form = f /\ w.pend = n
  BY <1>3, <1>7 DEF Components
<1>10. a # NoMessage /\ Sent(a) = a.sent /\ Carried(a) = a.event.rid
  BY <1>7 DEF NoMessage, Sent, Carried
<1>11. /\ a.w.on = "open" /\ a.w.form.pay.of = a.w.sel
       /\ a.w.form.files \subseteq a.sent.form.files
       /\ a.w.sel # a.sent.sel => a.w.form.files = {}
       /\ a.w.pend \in {0, a.sent.pend}
  BY <1>7 DEF Replied, Mine
<1>12. /\ a.sent.form.pay.of = a.sent.sel /\ a.sent.sel = g.w.sel
       /\ a.sent.form.files \subseteq g.w.form.files /\ g.w.form.pay.of = g.w.sel
  BY <1>10 DEF OpenEvidence, Asked, Mine
<1>14. /\ f.pay.of = w.sel /\ f.files \subseteq g.w.form.files
       /\ w.sel # g.w.sel => f.files = {}
  <2>1. CASE f # a.w.form
    <3>1. a.w.form = a.sent.form /\ f = g.w.form
      BY <1>1, <2>1
    <3> QED BY <1>9, <1>11, <1>12, <3>1
  <2>2. CASE f = a.w.form
    BY <1>9, <1>11, <1>12, <2>2
  <2> QED BY <2>1, <2>2
<1>15. n \in {0, g.w.pend}
  BY <1>2, <1>11
<1>16. Mine(h.w) /\ Wiping(h.m) \subseteq X /\ Linked(h.m)
  BY <1>8, <1>9, <1>14 DEF OpenEvidence, Mine
<1>17. Warned(h, X)
  BY <1>8, <1>9, <1>14 DEF OpenEvidence, Warned
<1>18. \A x : Counts(g, x) => Counts(h, x)
  BY <1>8 DEF Counts
<1>19. \A x : Passed(g, x) => Passed(h, x)
  <2> TAKE x
  <2> HAVE Passed(g, x)
  <2>1. h.w.sel = x.e /\ h.w.form.files # {} => g.w.sel = x.e /\ g.w.form.files # {}
    BY <1>8, <1>9, <1>14
  <2> QED BY <1>8, <2>1 DEF Passed
<1>20. Lives(h, NoMessage, X)
  <2>1. \A x \in h.m.attempts : x.rid # 0
    BY <1>6 DEF Framed
  <2>2. Carried(NoMessage) = 0
    BY DEF Carried, NoMessage
  <2> QED BY <1>8, <1>9, <1>15, <1>18, <2>1, <2>2 DEF OpenEvidence, Lives
<1>21. Tasked(h, X)
  BY <1>8, <1>18, <1>19 DEF OpenEvidence, Tasked
<1>22. OpenEvidence(h, NoMessage, X)
  BY <1>16, <1>17, <1>20, <1>21 DEF OpenEvidence, Asked
<1>23. ASSUME a.event # NoEvent, NEW x \in g.m.attempts, x.rid = a.event.rid
       PROVE  h.w.pend = 0 /\ (x.e \notin X => Counts(h, x) /\ Passed(h, x))
  <2>1. x \in Attempts(c)
    BY MemoryOf DEF Memories
  <2>2. <<x.rid, x.id>> \in c.names
    BY <2>1 DEF Attempts
  <2>3. a.sent.pend # 0
    BY <1>7, <1>23, <2>2 DEF Unnamed
  <2>4. a.w.pend = 0 /\ a.w.form.files = {} /\ (a.w.sel = a.sent.sel => a.kind \in {"save", "next"})
    BY <1>7, <1>23 DEF Replied
  <2>5. h.w.pend = 0
    BY <1>2, <1>8, <1>9, <2>3, <2>4
  <2>6. x.e \notin X => Counts(h, x)
    BY <1>10, <1>18, <1>23 DEF OpenEvidence, Lives
  <2>7. ASSUME x.e \notin X, h.w.form.files # {}
        PROVE  Passed(h, x)
    <3>1. f # a.w.form
      BY <1>8, <1>9, <2>4, <2>7
    <3>2. a.w.form = a.sent.form
      BY <1>1, <3>1
    <3>3. a.w.sel = a.sent.sel /\ a.sent.form.files = {}
      BY <1>11, <1>12, <2>4, <3>2
    <3>4. Passed(g, x)
      BY <1>10, <1>23, <2>4, <2>7, <3>3 DEF OpenEvidence, Asked
    <3> QED BY <1>19, <3>4
  <2>8. h.w.form.files = {} => Passed(h, x)
    BY DEF Passed
  <2> QED BY <2>5, <2>6, <2>7, <2>8
<1> QED BY <1>5, <1>6, <1>8, <1>9, <1>11, <1>22, <1>23

\* What was clicked on is queued for writing.
LEMMA MorphedKept ==
  ASSUME NEW X, NEW g, Framed(g)
  PROVE  Kept(g, Morphed(g), X) /\ Calm(g, Morphed(g)) /\ Morphed(g).w = g.w
<1>1. PICK T : g.m.jobs \in [Entities -> Seq(T)]
  BY DEF Framed
<1>2. PICK pay, noted : pay = DraftPayload(g.w.form) /\ noted = {e \in Entities : g.m.structural[e] # 0}
  OBVIOUS
<1>3. PICK job : job = [e \in Entities |-> PersistJob(pay, g.m.structural[e], "structure")]
  OBVIOUS
<1>4. PICK S : S = T \cup {job[e] : e \in Entities}
  OBVIOUS
<1>5. PICK s : s = [e \in Entities |-> 0]
  OBVIOUS
<1>6. PICK n : n = [e \in Entities |-> IF e \in noted /\ g.m.save # NoSave THEN pay ELSE g.m.newer[e]]
  OBVIOUS
<1>7. PICK q : q = [e \in Entities |-> IF e \in noted THEN Append(g.m.jobs[e], job[e]) ELSE g.m.jobs[e]]
  OBVIOUS
<1>8. \A e \in Entities : job[e].do = "persist" /\ job[e] \in S /\ g.m.jobs[e] \in Seq(S)
  BY <1>1, <1>3, <1>4, SeqWider DEF PersistJob
<1>9. ASSUME NEW e \in Entities
      PROVE  /\ q[e] \in Seq(S)
             /\ \A i \in DOMAIN q[e] :
                  /\ i \in Nat
                  /\ q[e][i] = job[e] \/ (i \in DOMAIN g.m.jobs[e] /\ q[e][i] = g.m.jobs[e][i])
  <2>1. PICK t \in Seq(S), j \in S : t = g.m.jobs[e] /\ j = job[e]
    BY <1>8
  <2>2. /\ Append(t, j) \in Seq(S)
        /\ \A i \in DOMAIN Append(t, j) :
             i \in Nat /\ (Append(t, j)[i] = j \/ (i \in DOMAIN t /\ Append(t, j)[i] = t[i]))
    BY SeqAppend
  <2>3. \A i \in DOMAIN t : i \in Nat
    OBVIOUS
  <2>4. q[e] = Append(t, j) \/ q[e] = t
    BY <1>7, <2>1
  <2> QED BY <2>1, <2>2, <2>3, <2>4
<1>10. q \in [Entities -> Seq(S)]
  BY <1>7, <1>9
<1>11. PICK h : h = [g EXCEPT !.m.structural = s, !.m.newer = n]
  OBVIOUS
<1>12. /\ DOMAIN h = {"w", "m", "u"} /\ h.w = g.w /\ h.u = g.u
       /\ {"evRev", "jobs", "conf", "attempts", "broken", "save"} \subseteq DOMAIN h.m
       /\ h.m.evRev = g.m.evRev /\ h.m.jobs = g.m.jobs /\ h.m.conf = g.m.conf
       /\ h.m.attempts = g.m.attempts /\ h.m.broken = g.m.broken /\ h.m.save = g.m.save
  BY <1>11 DEF Framed
<1>13. Kept(g, h, X) /\ Calm(g, h) /\ Framed(h)
  <2>1. Kept(g, h, X) /\ Calm(g, h)
    BY <1>12, AsideKept
  <2> QED BY <2>1, KeptFrames
<1>14. PICK m : m = [h.m EXCEPT !.jobs = q]
  OBVIOUS
<1>15. m.conf = h.m.conf /\ m.broken = h.m.broken /\ m.jobs = q
  BY <1>12, <1>14
<1>16. PICK o \in [Entities -> {0, 1}] : o = [e \in Entities |-> 0]
  OBVIOUS
<1>17. ASSUME NEW e \in Entities, NEW i \in DOMAIN m.jobs[e]
       PROVE  /\ i \in Nat
              /\ \/ m.jobs[e][i].do \notin {"wipe", "confirm"}
                 \/ i + o[e] \in DOMAIN h.m.jobs[e] /\ SameJob(m.jobs[e][i], h.m.jobs[e][i + o[e]])
  <2>1. i \in Nat /\ i + o[e] = i
    BY <1>9, <1>15, <1>16, <1>17
  <2>2. CASE q[e][i] = job[e]
    BY <1>8, <1>15, <2>1, <2>2
  <2>3. CASE i \in DOMAIN g.m.jobs[e] /\ q[e][i] = g.m.jobs[e][i]
    BY <1>12, <1>15, <2>1, <2>3 DEF SameJob
  <2> QED BY <1>9, <1>15, <1>17, <2>2, <2>3
<1>18. SameLinks(h.m, m)
  BY <1>15, <1>16, <1>17, LinksShift
<1>19. PICK k : k = [h EXCEPT !.m.jobs = q]
  OBVIOUS
<1>20. Kept(h, k, X) /\ Calm(h, k)
  BY <1>10, <1>13, <1>14, <1>18, <1>19, QueuesKept
<1>21. k.w = g.w /\ Framed(k)
  <2>1. Framed(k)
    BY <1>20, KeptFrames
  <2> QED BY <1>12, <1>19, <2>1
<1>22. PICK l : l = RecoveryDue(k)
  OBVIOUS
<1>23. Kept(k, l, X) /\ Calm(k, l) /\ l.w = g.w
  BY <1>21, <1>22, HelpersKept, ConcludedWire
<1>24. Kept(g, k, X) /\ Calm(g, k)
  BY <1>13, <1>20, KeptTwice, CalmGoesOn
<1>25. Kept(g, l, X) /\ Calm(g, l)
  BY <1>23, <1>24, KeptTwice, CalmGoesOn
<1>26. Morphed(g) = l
  <2>1. q = [e \in Entities |->
           IF e \in noted THEN Append(g.m.jobs[e], PersistJob(pay, g.m.structural[e], "structure"))
           ELSE g.m.jobs[e]]
    BY <1>3, <1>7
  <2>2. Morphed(g) = RecoveryDue([g EXCEPT !.m.structural = s, !.m.newer = n, !.m.jobs = q])
    BY <1>2, <1>5, <1>6, <2>1, Zenon DEF Morphed
  <2>3. [g EXCEPT !.m.structural = s, !.m.newer = n, !.m.jobs = q] = k
    BY <1>11, <1>12, <1>19 DEF Framed
  <2> QED BY <1>22, <2>2, <2>3
<1> QED BY <1>23, <1>25, <1>26

\* In a page that has given up the store a confirmation counts at once.
LEMMA CountedEvidence ==
  ASSUME NEW g, Framed(g), NEW X, OpenEvidence(g, NoMessage, X), g.m.broken, g.w.pend = 0,
         NEW a \in g.m.attempts, a.evRev \in Nat, a.e \notin X => Counts(g, a) /\ Passed(g, a)
  PROVE  /\ OpenEvidence(ConfirmedWithoutStore(g, a), NoMessage, X)
         /\ Framed(ConfirmedWithoutStore(g, a)) /\ ConfirmedWithoutStore(g, a).w = g.w
<1>1. PICK e \in Entities : e = a.e
  BY DEF Framed
<1>2. PICK kept : kept = (g.m.evRev[e] > a.evRev)
  OBVIOUS
<1>3. PICK h : h = [g EXCEPT !.m.attempts = @ \ {a}]
  OBVIOUS
<1>4. /\ DOMAIN h = {"w", "m", "u"} /\ h.w = g.w /\ h.u = g.u
      /\ {"evRev", "jobs", "conf", "attempts", "broken", "save"} \subseteq DOMAIN h.m
      /\ h.m.evRev = g.m.evRev /\ h.m.jobs = g.m.jobs /\ h.m.conf = g.m.conf
      /\ h.m.attempts = g.m.attempts \ {a} /\ h.m.broken = g.m.broken /\ h.m.save = g.m.save
  BY <1>3 DEF Framed
<1>5. \A Y : Kept(g, h, Y) /\ Calm(g, h)
  BY <1>4, AsideKept
<1>6. Framed(h)
  BY <1>5, KeptFrames
<1>7. \A k, Y : X \subseteq Y /\ Kept(g, k, Y) => OpenEvidence(k, NoMessage, Y)
  BY KeptEvidence
<1>8. CASE g.m.rev[a.e] > a.rev
  <2>1. PICK v : v = WithLabelFor(g.u, e, g.w.sel, "storage_error")
    OBVIOUS
  <2>2. PICK k : k = [h EXCEPT !.u = v]
    OBVIOUS
  <2>3. ConfirmedWithoutStore(g, a) = k
    <3>1. ConfirmedWithoutStore(g, a)
            = [h EXCEPT !.u = WithLabelFor(@, a.e, g.w.sel, "storage_error")]
      BY <1>3, <1>8, Zenon DEF ConfirmedWithoutStore
    <3> QED BY <1>1, <1>4, <2>1, <2>2, <3>1
  <2>4. Guarded(h.u, v, X)
    BY <1>4, <2>1, LabelGuards DEF Framed
  <2>5. Kept(h, k, X)
    BY <1>6, <2>2, <2>4, TellKept
  <2>6. Kept(g, k, X) /\ Framed(k)
    BY <1>5, <2>5, KeptTwice, KeptFrames
  <2>7. k.w = g.w
    BY <1>4, <2>2
  <2> QED BY <1>7, <2>3, <2>6, <2>7
<1>9. CASE ~ g.m.rev[a.e] > a.rev
  <2>1. PICK clear : clear = ~ kept
    OBVIOUS
  <2>2. PICK n \in Nat : n = IF g.m.evRev[e] > a.evRev THEN g.m.evRev[e] ELSE 0
    BY DEF Framed
  <2>3. PICK v : v = OnClean(g.u, e, clear, g.w.sel, online)
    OBVIOUS
  <2>4. PICK k : k = [h EXCEPT !.m.rev[e] = 0, !.m.newer[e] = NoPayload, !.m.evRev[e] = n, !.u = v]
    OBVIOUS
  <2>5. ConfirmedWithoutStore(g, a) = k
    <3>1. ConfirmedWithoutStore(g, a)
            = [h EXCEPT !.m.rev[e] = 0, !.m.newer[e] = NoPayload,
                 !.m.evRev[e] = IF g.m.evRev[e] > a.evRev THEN @ ELSE 0,
                 !.u = OnClean(@, e, ~ (g.m.evRev[e] > a.evRev), g.w.sel, online)]
      BY <1>1, <1>3, <1>9, Zenon DEF ConfirmedWithoutStore
    <3>2. clear = ~ (g.m.evRev[e] > a.evRev)
      BY <1>2, <2>1, ZenonT(30)
    <3>3. ConfirmedWithoutStore(g, a)
            = [h EXCEPT !.m.rev[e] = 0, !.m.newer[e] = NoPayload,
                 !.m.evRev[e] = IF g.m.evRev[e] > a.evRev THEN @ ELSE 0,
                 !.u = OnClean(@, e, clear, g.w.sel, online)]
      BY <3>1, <3>2, Zenon
    <3> QED BY <1>4, <2>2, <2>3, <2>4, <3>3 DEF Framed
  <2>6. PICK r : r = [g.m.evRev EXCEPT ![e] = n]
    OBVIOUS
  <2>7. /\ DOMAIN k = {"w", "m", "u"} /\ k.w = g.w /\ k.u = v
        /\ {"evRev", "jobs", "conf", "attempts", "broken", "save"} \subseteq DOMAIN k.m
        /\ k.m.evRev = r /\ k.m.jobs = g.m.jobs /\ k.m.conf = g.m.conf
        /\ k.m.attempts = g.m.attempts \ {a} /\ k.m.broken = g.m.broken /\ k.m.save = g.m.save
    BY <1>4, <2>4, <2>6
  <2>8. r \in [Entities -> Nat] /\ \A d \in Entities \ {e} : r[d] = g.m.evRev[d]
    BY <2>6 DEF Framed
  <2>9. \A Y : e \in Y \/ g.m.evRev[e] > a.evRev => Kept(g, k, Y)
    <3> SUFFICES ASSUME NEW Y, e \in Y \/ g.m.evRev[e] > a.evRev
                 PROVE  Kept(g, k, Y)
      OBVIOUS
    <3>1. clear => e \in Y
      BY <1>2, <2>1, Zenon
    <3>2. Guarded(g.u, v, Y)
      BY <2>3, <3>1, StatusGuards DEF Framed
    <3>3. Framed(k) /\ SameForm(g.w, k.w)
      BY <2>7, <2>8, <3>2 DEF Framed, SameForm, Guarded
    <3>4. SameLinks(g.m, k.m) /\ SameTasks(g.m, k.m)
      BY <2>7 DEF SameLinks, SameTasks, Wiping, Linked
    <3>5. SameAttempts(g, k, Y)
      BY <2>7 DEF SameAttempts
    <3>6. \A d \in Entities \ Y : k.m.evRev[d] = g.m.evRev[d]
      BY <2>2, <2>6, <2>7, <2>8
    <3> QED BY <2>7, <3>2, <3>3, <3>4, <3>5, <3>6 DEF Kept
  <2>10. CASE g.m.evRev[e] > a.evRev \/ e \in X
    <3>1. Kept(g, k, X)
      BY <2>9, <2>10
    <3> QED BY <1>7, <2>5, <2>7, <3>1, KeptFrames
  <2>11. CASE ~ (g.m.evRev[e] > a.evRev) /\ e \notin X
    <3>1. PICK Y : Y = X \cup {e}
      OBVIOUS
    <3>2. Kept(g, k, Y) /\ X \subseteq Y
      BY <2>9, <3>1
    <3>3. OpenEvidence(k, NoMessage, X \cup {e})
      BY <1>7, <3>1, <3>2
    <3>4. Wiping(k.m) \subseteq X
      BY <2>7 DEF OpenEvidence, Wiping
    <3>5. k.w.sel = e => k.w.form.files = {}
      <4>1. a.evRev <= g.m.evRev[e] /\ (g.w.sel = e /\ g.w.form.files # {} => a.evRev < g.m.evRev[e])
        BY <1>1, <2>11 DEF Counts, Passed
      <4>2. g.m.evRev[e] \in Nat
        BY DEF Framed
      <4> QED BY <2>7, <2>11, <4>1, <4>2
    <3>6. \A x \in k.m.attempts : x.rid \notin {k.w.pend, Carried(NoMessage)}
      <4>1. Carried(NoMessage) = 0
        BY DEF Carried, NoMessage
      <4> QED BY <2>7, <4>1 DEF Framed
    <3>7. OpenEvidence(k, NoMessage, X)
      BY <2>7, <3>3, <3>4, <3>5, <3>6, Readmit
    <3> QED BY <2>5, <2>7, <3>2, <3>7, KeptFrames
  <2> QED BY <2>10, <2>11
<1> QED BY <1>8, <1>9

\* A confirmation starts.
LEMMA StartedEvidence ==
  ASSUME NEW g, Framed(g), NEW X, OpenEvidence(g, NoMessage, X), NEW x, x.rid # 0,
         NEW key, \A t \in g.m.conf : t.key # key,
         \A y \in g.m.attempts :
           /\ y.evRev \in Nat
           /\ y.rid = x.rid => g.w.pend = 0 /\ (y.e \notin X => Counts(g, y) /\ Passed(g, y))
  PROVE  /\ OpenEvidence(ConfirmStarts(g, x, key), NoMessage, X)
         /\ Framed(ConfirmStarts(g, x, key)) /\ ConfirmStarts(g, x, key).w = g.w
<1>1. PICK a : a = AttemptOf(g, x.rid)
  OBVIOUS
<1>2. a # NoAttempt => a \in g.m.attempts /\ a.rid = x.rid
  BY <1>1 DEF AttemptOf
<1>3. CASE ~ g.m.broken
  <2>1. PICK task : task = [key |-> key, rid |-> x.rid, av |-> x.av, e |-> x.e, att |-> a,
                            phase |-> "read", match |-> 0, src |-> {}, kept |-> FALSE]
    OBVIOUS
  <2>2. PICK h : h = [g EXCEPT !.m.conf = g.m.conf \cup {task}]
    OBVIOUS
  <2>3. ConfirmStarts(g, x, key) = h
    BY <1>1, <1>3, <2>1, <2>2 DEF ConfirmStarts
  <2>4. /\ DOMAIN h = {"w", "m", "u"} /\ h.w = g.w /\ h.u = g.u
        /\ {"evRev", "jobs", "conf", "attempts", "broken", "save"} \subseteq DOMAIN h.m
        /\ h.m.evRev = g.m.evRev /\ h.m.jobs = g.m.jobs /\ h.m.conf = g.m.conf \cup {task}
        /\ h.m.attempts = g.m.attempts /\ h.m.broken = g.m.broken /\ h.m.save = g.m.save
    BY <2>2 DEF Framed
  <2>5. task.key = key /\ task.att = a
    BY <2>1
  <2>6. Framed(h)
    BY <2>4 DEF Framed
  <2>7. Mine(h.w) /\ Wiping(h.m) \subseteq X /\ Warned(h, X)
    BY <2>4 DEF OpenEvidence, Wiping, Warned
  <2>8. Linked(h.m)
    <3>1. Linked(g.m)
      BY DEF OpenEvidence
    <3>2. \A s, t \in h.m.conf : s.key = t.key => s = t
      BY <1>3, <2>4, <2>5, <3>1 DEF Linked
    <3> QED BY <1>3, <2>4, <3>1, <3>2 DEF Linked
  <2>9. Lives(h, NoMessage, X)
    BY <2>4 DEF OpenEvidence, Lives, Counts
  <2>10. Tasked(h, X)
    <3>1. \A y : (Counts(g, y) => Counts(h, y)) /\ (Passed(g, y) => Passed(h, y))
      BY <2>4 DEF Counts, Passed
    <3>2. a # NoAttempt /\ a.e \notin X => Counts(h, a) /\ Passed(h, a)
      BY <1>2, <3>1
    <3> QED BY <1>3, <2>4, <2>5, <3>1, <3>2 DEF OpenEvidence, Tasked
  <2>11. OpenEvidence(h, NoMessage, X)
    BY <2>7, <2>8, <2>9, <2>10 DEF OpenEvidence, Asked
  <2> QED BY <2>3, <2>4, <2>6, <2>11
<1>4. CASE g.m.broken /\ a = NoAttempt
  <2>1. ConfirmStarts(g, x, key) = g
    BY <1>1, <1>4, Zenon DEF ConfirmStarts
  <2> QED BY <2>1
<1>5. CASE g.m.broken /\ a # NoAttempt
  <2>1. ConfirmStarts(g, x, key) = ConfirmedWithoutStore(g, a)
    BY <1>1, <1>5, Zenon DEF ConfirmStarts
  <2>2. /\ OpenEvidence(ConfirmedWithoutStore(g, a), NoMessage, X)
        /\ Framed(ConfirmedWithoutStore(g, a)) /\ ConfirmedWithoutStore(g, a).w = g.w
    BY <1>2, <1>5, CountedEvidence
  <2> QED BY <2>1, <2>2
<1> QED BY <1>3, <1>4, <1>5

\* A form is given up.
LEMMA ForgottenEvidence ==
  ASSUME NEW g, Framed(g), NEW X, OpenEvidence(g, NoMessage, X), NEW e \in Entities
  PROVE  /\ OpenEvidence(Forgotten(g, e), NoMessage, X \cup {e})
         /\ Framed(Forgotten(g, e)) /\ Forgotten(g, e).w = g.w
<1>1. PICK T : g.m.jobs \in [Entities -> Seq(T)]
  BY DEF Framed
<1>2. PICK job : job = [do |-> "wipe", plan |-> Unplanned]
  OBVIOUS
<1>3. PICK S : S = T \cup {job}
  OBVIOUS
<1>4. (\A x \in Entities : g.m.jobs[x] \in Seq(S)) /\ job \in S /\ job.do = "wipe"
  BY <1>1, <1>2, <1>3, SeqWider
<1>5. PICK s : s = Append(g.m.jobs[e], job)
  OBVIOUS
<1>6. /\ s \in Seq(S)
      /\ \A i \in DOMAIN s : s[i] = job \/ (i \in DOMAIN g.m.jobs[e] /\ s[i] = g.m.jobs[e][i])
  BY <1>4, <1>5, SeqAppend
<1>7. PICK as, r, q : /\ as = {x \in g.m.attempts : x.e # e}
                      /\ r = [g.m.evRev EXCEPT ![e] = 0]
                      /\ q = [g.m.jobs EXCEPT ![e] = s]
  OBVIOUS
<1>8. /\ r \in [Entities -> Nat] /\ \A d \in Entities \ {e} : r[d] = g.m.evRev[d]
      /\ q \in [Entities -> Seq(S)] /\ q[e] = s /\ \A d \in Entities \ {e} : q[d] = g.m.jobs[d]
  BY <1>1, <1>4, <1>6, <1>7 DEF Framed
<1>9. PICK h : h = [g EXCEPT
         !.m.timer[e] = NoTimer, !.m.rev[e] = 0, !.m.evRev[e] = 0, !.m.newer[e] = NoPayload,
         !.m.structural[e] = 0, !.m.attempts = as]
  OBVIOUS
<1>10. /\ DOMAIN h = {"w", "m", "u"} /\ h.w = g.w /\ h.u = g.u
       /\ {"evRev", "jobs", "conf", "attempts", "broken", "save"} \subseteq DOMAIN h.m
       /\ h.m.evRev = r /\ h.m.jobs = g.m.jobs /\ h.m.conf = g.m.conf
       /\ h.m.attempts = as /\ h.m.broken = g.m.broken /\ h.m.save = g.m.save
  <2>1. PICK i : i = [g EXCEPT !.m.timer[e] = NoTimer, !.m.rev[e] = 0]
    OBVIOUS
  <2>2. /\ DOMAIN i = {"w", "m", "u"} /\ i.w = g.w /\ i.u = g.u
       /\ {"evRev", "jobs", "conf", "attempts", "broken", "save"} \subseteq DOMAIN i.m
       /\ i.m.evRev = g.m.evRev /\ i.m.jobs = g.m.jobs /\ i.m.conf = g.m.conf
       /\ i.m.attempts = g.m.attempts /\ i.m.broken = g.m.broken /\ i.m.save = g.m.save
    BY <2>1 DEF Framed
  <2>3. PICK j : j = [i EXCEPT !.m.evRev[e] = 0, !.m.newer[e] = NoPayload]
    OBVIOUS
  <2>4. /\ DOMAIN j = {"w", "m", "u"} /\ j.w = g.w /\ j.u = g.u
       /\ {"evRev", "jobs", "conf", "attempts", "broken", "save"} \subseteq DOMAIN j.m
       /\ j.m.evRev = r /\ j.m.jobs = g.m.jobs /\ j.m.conf = g.m.conf
       /\ j.m.attempts = g.m.attempts /\ j.m.broken = g.m.broken /\ j.m.save = g.m.save
    BY <1>7, <2>2, <2>3
  <2>5. PICK l : l = [j EXCEPT !.m.structural[e] = 0, !.m.attempts = as]
    OBVIOUS
  <2>6. /\ DOMAIN l = {"w", "m", "u"} /\ l.w = g.w /\ l.u = g.u
       /\ {"evRev", "jobs", "conf", "attempts", "broken", "save"} \subseteq DOMAIN l.m
       /\ l.m.evRev = r /\ l.m.jobs = g.m.jobs /\ l.m.conf = g.m.conf
       /\ l.m.attempts = as /\ l.m.broken = g.m.broken /\ l.m.save = g.m.save
    BY <2>4, <2>5
  <2>7. h = l
    BY <1>9, <2>1, <2>3, <2>5 DEF Framed
  <2> QED BY <2>6, <2>7
<1>11. PICK k : k = [h EXCEPT !.m.jobs[e] = Append(@, job)]
  OBVIOUS
<1>12. /\ DOMAIN k = {"w", "m", "u"} /\ k.w = g.w /\ k.u = g.u
       /\ {"evRev", "jobs", "conf", "attempts", "broken", "save"} \subseteq DOMAIN k.m
       /\ k.m.evRev = r /\ k.m.jobs = q /\ k.m.conf = g.m.conf
       /\ k.m.attempts = as /\ k.m.broken = g.m.broken /\ k.m.save = g.m.save
  BY <1>5, <1>7, <1>10, <1>11
<1>13. Forgotten(g, e) = k
  BY <1>2, <1>7, <1>9, <1>11, Zenon DEF Forgotten, Queued
<1>14. Framed(k)
  BY <1>7, <1>8, <1>12 DEF Framed
<1>15. PICK Y : Y = X \cup {e}
  OBVIOUS
<1>16. Mine(k.w) /\ Warned(k, Y)
  BY <1>12, <1>15 DEF OpenEvidence, Warned
<1>17. Wiping(k.m) \subseteq Y
  <2>1. \A d \in Entities \ {e} : k.m.jobs[d] = g.m.jobs[d]
    BY <1>8, <1>12
  <2>2. Wiping(k.m) \ {e} \subseteq Wiping(g.m)
    BY <2>1 DEF Wiping
  <2>3. Wiping(g.m) \subseteq X
    BY DEF OpenEvidence
  <2> QED BY <1>15, <2>2, <2>3
<1>18. Linked(k.m)
  <2> SUFFICES ASSUME ~ k.m.broken PROVE Linked(k.m)
    BY DEF Linked
  <2>1. Linked(g.m) /\ ~ g.m.broken
    BY <1>12 DEF OpenEvidence
  <2>2. \A x \in Entities : \A i \in DOMAIN q[x] :
          q[x][i].do = "confirm" => i \in DOMAIN g.m.jobs[x] /\ q[x][i] = g.m.jobs[x][i]
    BY <1>4, <1>6, <1>8
  <2>3. ASSUME NEW x \in Entities, NEW i \in DOMAIN q[x], q[x][i].do = "confirm"
        PROVE  /\ q[x][i].task \in g.m.conf /\ q[x][i].task.phase = "job"
               /\ q[x][i].task.e = x
               /\ \A j \in DOMAIN q[x] :
                    q[x][j].do = "confirm" /\ q[x][j].task = q[x][i].task => i = j
    BY <2>1, <2>2, <2>3 DEF Linked
  <2> QED BY <1>12, <2>1, <2>3 DEF Linked
<1>19. \A x : x.e \notin Y /\ Counts(g, x) => Counts(k, x)
  BY <1>8, <1>12, <1>15 DEF Counts
<1>20. \A x : x.e \in Entities \ Y /\ Passed(g, x) => Passed(k, x)
  BY <1>8, <1>12, <1>15 DEF Passed
<1>21. Lives(k, NoMessage, Y)
  BY <1>7, <1>12, <1>15, <1>19 DEF OpenEvidence, Lives
<1>22. Tasked(k, Y)
  <2>1. \A x : Counts(g, x) => x.e \in Entities
    BY DEF Counts
  <2> QED BY <1>12, <1>15, <1>19, <1>20, <2>1 DEF OpenEvidence, Tasked
<1>23. OpenEvidence(k, NoMessage, Y)
  BY <1>16, <1>17, <1>18, <1>21, <1>22 DEF OpenEvidence, Asked
<1> QED BY <1>12, <1>13, <1>14, <1>15, <1>23

\* The response is on the page: what the evidence is about is as after the merge.
LEMMA ReceivedEvidence ==
  ASSUME NEW c \in Contexts, NEW g, IsView(g, c), NEW X, NEW a, a \in Responses(c),
         OpenEvidence(g, a, X), Mine(Sent(a)), Replied(a), NEW rekeyed,
         NEW j, j = Received(g, a, rekeyed)
  PROVE  /\ IsView(j, c) /\ Framed(j) /\ OpenEvidence(j, NoMessage, X) /\ j.w.on = "open"
         /\ a.event # NoEvent =>
              \A x \in j.m.attempts : x.rid = a.event.rid =>
                 j.w.pend = 0 /\ (x.e \notin X => Counts(j, x) /\ Passed(j, x))
<1>1. PICK h : h = Merged(g, a, rekeyed)
  OBVIOUS
<1>2. /\ Framed(h) /\ h.m = g.m /\ h.u = g.u /\ h.w.on = "open"
      /\ h.w.sel = a.w.sel
      /\ OpenEvidence(h, NoMessage, X)
      /\ a.event # NoEvent =>
           \A x \in g.m.attempts : x.rid = a.event.rid =>
              h.w.pend = 0 /\ (x.e \notin X => Counts(h, x) /\ Passed(h, x))
  BY <1>1, LandedEvidence
<1>3. PICK v : v = AfterMorph(h.u, a.w.sel, a.w.stat, online)
  OBVIOUS
<1>4. PICK i : i = [h EXCEPT !.u = v]
  OBVIOUS
<1>5. j = Morphed(i)
  <2>1. j = Morphed([h EXCEPT !.u = AfterMorph(@, a.w.sel, a.w.stat, online)])
    BY <1>1, Zenon DEF Received
  <2>2. [h EXCEPT !.u = AfterMorph(@, a.w.sel, a.w.stat, online)] = i
    BY <1>2, <1>3, <1>4 DEF Framed
  <2> QED BY <2>1, <2>2
<1>6. Guarded(h.u, v, X)
  <2>1. PICK label : v = WithLabel(h.u, label) \/ v = h.u
    BY <1>3 DEF AfterMorph
  <2>2. Sober(h.u)
    BY <1>2 DEF Framed
  <2>3. Guarded(h.u, WithLabel(h.u, label), X) /\ Guarded(h.u, h.u, X)
    BY <2>2, LabelGuards DEF Guarded
  <2> QED BY <2>1, <2>3
<1>7. Kept(h, i, X) /\ i.m = h.m
  BY <1>2, <1>4, <1>6, TellKept
<1>8. Framed(i) /\ i.w = h.w
  <2>1. Framed(i)
    BY <1>7, KeptFrames
  <2> QED BY <1>2, <1>4, <2>1
<1>9. Kept(i, j, X) /\ Calm(i, j) /\ j.w = i.w
  BY <1>5, <1>8, MorphedKept
<1>10. Kept(h, j, X)
  BY <1>7, <1>9, KeptTwice
<1>11. OpenEvidence(j, NoMessage, X) /\ Framed(j)
  BY <1>2, <1>10, KeptEvidence, KeptFrames
<1>12. /\ j.w = h.w /\ j.m.attempts \subseteq g.m.attempts
       /\ \A e \in Entities \ X : j.m.evRev[e] = h.m.evRev[e]
  BY <1>2, <1>7, <1>8, <1>9, <1>10 DEF Calm, Kept
<1>13. \A x : x.e \notin X /\ Counts(h, x) /\ Passed(h, x) => Counts(j, x) /\ Passed(j, x)
  BY <1>12 DEF Counts, Passed
<1>14. a.event # NoEvent =>
         \A x \in j.m.attempts : x.rid = a.event.rid =>
            j.w.pend = 0 /\ (x.e \notin X => Counts(j, x) /\ Passed(j, x))
  BY <1>2, <1>12, <1>13
<1>15. IsView(j, c)
  <2>1. a.w.sel \in Entities \cup {Nothing} /\ a.w.stat \in Labels
    BY ResponseParts DEF Flights, Responses, ResponseFields
  <2> QED BY <2>1, ReceivedView
<1> QED BY <1>2, <1>11, <1>12, <1>14, <1>15

\* A response arrives.
LEMMA ArrivesEvidence ==
  ASSUME NEW c \in Contexts, At(c), Evidence, NEW p \in Pages, Arrives(p)
  PROVE  Evidence'
<1>1. PICK g : g = Page(p)
  OBVIOUS
<1>2. IsView(g, c) /\ Framed(g) /\ g.w = wire[p] /\ g.w.on \in {"new", "open", "gone"}
  BY <1>1, PageIs, ViewIsFramed DEF At, Components
<1>3. PICK a : a = flight[p]
  OBVIOUS
<1>4. PICK X : X = Excused(p, history)
  OBVIOUS
<1>5. PageEvidence(g, a, X)
  BY <1>1, <1>3, <1>4 DEF Evidence
<1>6. a.status = "answered" /\ a # NoMessage /\ a \in Responses(c) /\ a.event \in Confirmations(c)
  <2>1. a.status = "answered" /\ a \in Flights(c)
    BY <1>3 DEF Arrives, At
  <2> QED BY <2>1, ResponseParts DEF NoMessage
<1>7. OpenEvidence(g, a, X) /\ Mine(Sent(a)) /\ Replied(a)
  BY <1>2, <1>5, <1>6 DEF PageEvidence
<1>8. PICK rekeyed :
        Becomes(p, Released(g, Discarded(Notified(Received(g, a, rekeyed), a, clock + 1), a)))
  BY <1>1, <1>3, ZenonT(60) DEF Arrives, Released, Discarded, Notified, Received
<1>9. PICK j : j = Received(g, a, rekeyed)
  OBVIOUS
<1>10. /\ IsView(j, c) /\ Framed(j) /\ OpenEvidence(j, NoMessage, X) /\ j.w.on = "open"
       /\ a.event # NoEvent =>
            \A x \in j.m.attempts : x.rid = a.event.rid =>
               j.w.pend = 0 /\ (x.e \notin X => Counts(j, x) /\ Passed(j, x))
  BY <1>2, <1>6, <1>7, <1>9, ReceivedEvidence
<1>11. PICK k : k = Notified(j, a, clock + 1)
  OBVIOUS
<1>12. Framed(k) /\ OpenEvidence(k, NoMessage, X) /\ k.w.on = "open"
  <2>1. CASE a.event = NoEvent
    BY <1>10, <1>11, <2>1 DEF Notified
  <2>2. CASE a.event # NoEvent
    <3>1. PICK x : x = a.event
      OBVIOUS
    <3>2. x.rid # 0
      <4>1. x.rid \in 1 .. c.now /\ c.now \in Nat
        BY <1>6, <2>2, <3>1 DEF Confirmations, Contexts
      <4> QED BY <4>1
    <3>3. PICK key : key = clock + 1
      OBVIOUS
    <3>4. \A t \in j.m.conf : t.key # key
      <4>1. j.m.conf \subseteq Tasks(c) /\ c.now = clock /\ c.now \in Nat
        BY <1>10, MemoryOf DEF Memories, At, Contexts
      <4>2. \A t \in Tasks(c) : t.key \in 1 .. c.now
        BY DEF Tasks, TaskFields
      <4> QED BY <3>3, <4>1, <4>2
    <3>5. \A y \in j.m.attempts :
            /\ y.evRev \in Nat
            /\ y.rid = x.rid => j.w.pend = 0 /\ (y.e \notin X => Counts(j, y) /\ Passed(j, y))
      BY <1>10, <2>2, <3>1, Countable
    <3>6. k = ConfirmStarts(j, x, key)
      BY <1>11, <2>2, <3>1, <3>3 DEF Notified
    <3>7. /\ OpenEvidence(ConfirmStarts(j, x, key), NoMessage, X)
          /\ Framed(ConfirmStarts(j, x, key)) /\ ConfirmStarts(j, x, key).w = j.w
      BY <1>10, <3>2, <3>4, <3>5, StartedEvidence
    <3> QED BY <1>10, <3>6, <3>7
  <2> QED BY <2>1, <2>2
<1>13. PICK l : l = Discarded(k, a)
  OBVIOUS
<1>14. PICK Y : Y = Excused(p, history')
  OBVIOUS
<1>15. /\ {"stray", "givenUp"} \subseteq DOMAIN history'
       /\ history'.stray = history.stray
       /\ history'.givenUp = history.givenUp
            \/ (a.dropped /\ history'.givenUp = history.givenUp \cup {<<p, a.w.sel>>})
       /\ a.dropped => history'.givenUp = history.givenUp \cup {<<p, a.w.sel>>}
  <2>1. PICK u : u = IF a.dropped THEN history.givenUp \cup {<<p, a.w.sel>>} ELSE history.givenUp
    OBVIOUS
  <2>2. PICK told : history' = [history EXCEPT
            !.givenUp = IF a.dropped THEN @ \cup {<<p, a.w.sel>>} ELSE @, !.told = told]
    BY <1>3, Zenon DEF Arrives
  <2>3. history' = [history EXCEPT !.givenUp = u, !.told = told]
    BY <2>1, <2>2, Zenon
  <2>4. /\ {"stray", "givenUp"} \subseteq DOMAIN history'
        /\ history'.stray = history.stray /\ history'.givenUp = u
    BY <2>3 DEF Evidence
  <2>5. /\ u = history.givenUp \/ (a.dropped /\ u = history.givenUp \cup {<<p, a.w.sel>>})
        /\ a.dropped => u = history.givenUp \cup {<<p, a.w.sel>>}
    BY <2>1, Zenon
  <2> QED BY <2>4, <2>5, Zenon
<1>16. PastGrows
  BY <1>15 DEF PastGrows
<1>17. Framed(l) /\ OpenEvidence(l, NoMessage, Y) /\ l.w.on = "open"
  <2>1. CASE a.dropped /\ a.w.sel # Nothing
    <3>1. PICK e \in Entities : e = a.w.sel
      BY <1>6, <2>1, ResponseParts DEF Flights
    <3>2. history'.givenUp = history.givenUp \cup {<<p, e>>}
      BY <1>15, <2>1, <3>1
    <3>3. Y = X \cup {e}
      BY <1>4, <1>14, <1>15, <3>2 DEF Excused
    <3>4. l = Forgotten(k, e)
      BY <1>13, <2>1, <3>1 DEF Discarded
    <3>5. /\ OpenEvidence(Forgotten(k, e), NoMessage, X \cup {e})
          /\ Framed(Forgotten(k, e)) /\ Forgotten(k, e).w = k.w
      BY <1>12, ForgottenEvidence
    <3> QED BY <1>12, <3>3, <3>4, <3>5
  <2>2. CASE ~ (a.dropped /\ a.w.sel # Nothing)
    <3>1. l = k
      BY <1>13, <2>2, Zenon DEF Discarded
    <3>2. history'.givenUp = history.givenUp
            \/ (history'.givenUp = history.givenUp \cup {<<p, Nothing>>} /\ Nothing \notin Entities)
      BY <1>15, <2>2, DraftsAssumption, Zenon
    <3>3. Y = X
      BY <1>4, <1>14, <1>15, <3>2 DEF Excused
    <3> QED BY <1>12, <3>1, <3>3
  <2> QED BY <2>1, <2>2
<1>18. PICK r : r = Released(g, l)
  OBVIOUS
<1>19. OpenEvidence(r, NoMessage, Y) /\ r.w.on = "open"
  <2>1. PICK n : n = [l EXCEPT !.m.save = NoSave]
    OBVIOUS
  <2>2. Kept(l, l, Y)
    BY <1>17, KeptSelf
  <2>3. Kept(l, n, Y)
    <3>1. /\ DOMAIN n = {"w", "m", "u"} /\ n.w = l.w /\ n.u = l.u
          /\ {"evRev", "jobs", "conf", "attempts", "broken", "save"} \subseteq DOMAIN n.m
          /\ n.m.evRev = l.m.evRev /\ n.m.jobs = l.m.jobs /\ n.m.conf = l.m.conf
          /\ n.m.attempts = l.m.attempts /\ n.m.broken = l.m.broken
      BY <1>17, <2>1 DEF Framed
    <3>2. Guarded(l.u, n.u, Y)
      BY <1>17, <3>1 DEF Framed, Guarded
    <3> QED BY <1>17, <3>1, <3>2, Bystander
  <2>4. r = l \/ r = n
    BY <1>18, <2>1 DEF Released
  <2>5. Kept(l, r, Y)
    BY <2>2, <2>3, <2>4
  <2> QED BY <1>17, <2>5, KeptEvidence DEF Kept, SameForm
<1>20. PageEvidence(r, NoMessage, Y)
  BY <1>19 DEF PageEvidence, Replied, NoMessage
<1>21. Becomes(p, r)
  BY <1>8, <1>9, <1>11, <1>13, <1>18
<1>22. flight' = [flight EXCEPT ![p] = NoMessage] /\ UNCHANGED server
  BY DEF Arrives
<1> QED BY <1>14, <1>16, <1>20, <1>21, <1>22, PageMoves

-----------------------------------------------------------------------------
(* Files on the form are guarded *)

\* Nothing happens to the pages but to their status lines.
LEMMA OutsideEvidence ==
  ASSUME NEW c \in Contexts, At(c), Evidence, UNCHANGED <<wire, mem, flight>>, Sorted,
         {"stray", "givenUp"} \subseteq DOMAIN history', history'.stray = history.stray,
         history'.givenUp = history.givenUp,
         \A p \in Pages : Guarded(ui[p], ui'[p], {})
  PROVE  Evidence'
<1>1. ASSUME NEW p \in Pages
      PROVE  PageEvidence([w |-> wire'[p], m |-> mem'[p], u |-> ui'[p]], flight'[p],
                          Excused(p, history'))
  <2>1. PICK g : g = Page(p)
    OBVIOUS
  <2>2. Framed(g) /\ g.w = wire[p] /\ g.m = mem[p] /\ g.u = ui[p]
    BY <2>1, PageIs, ViewIsFramed DEF At
  <2>3. PICK X, f : X = Excused(p, history) /\ f = flight[p]
    OBVIOUS
  <2>4. X = Excused(p, history') /\ f = flight'[p]
    BY <2>3 DEF Excused
  <2>5. PICK h : h = [w |-> wire'[p], m |-> mem'[p], u |-> ui'[p]]
    OBVIOUS
  <2>6. h.w = g.w /\ h.m = g.m /\ h.u = ui'[p] /\ DOMAIN h = {"w", "m", "u"}
    BY <2>2, <2>5
  <2>7. Guarded(g.u, h.u, X)
    BY <2>2, <2>6 DEF Guarded
  <2>8. {"evRev", "jobs", "conf", "attempts", "broken", "save"} \subseteq DOMAIN h.m
    BY <2>2, <2>6 DEF Framed
  <2>9. Kept(g, h, X) /\ Onward(g, h)
    <3>1. Kept(g, h, X)
      BY <2>2, <2>6, <2>7, <2>8, Bystander
    <3> QED BY <2>6, <3>1 DEF Onward
  <2>10. PageEvidence(g, f, X)
    BY <2>1, <2>3 DEF Evidence
  <2>11. g.w.on = "open" => OpenEvidence(h, f, X)
    BY <2>2, <2>9, <2>10, KeptEvidence DEF PageEvidence
  <2>12. PageEvidence(h, f, X)
    BY <2>6, <2>10, <2>11 DEF PageEvidence
  <2> QED BY <2>4, <2>5, <2>12
<1>2. \A p \in Pages : PageEvidence(Page(p), flight[p], Excused(p, history))'
  BY <1>1 DEF Page
<1> QED BY <1>2 DEF Evidence, Sorted

\* Another user, and the connection.
LEMMA OthersEvidence ==
  ASSUME NEW c \in Contexts, At(c), Evidence,
         Finish \/ Disconnect \/ Reconnect \/ UNCHANGED vars \/ \E e \in Entities : ForeignSave(e)
  PROVE  Evidence'
<1>1. UNCHANGED <<wire, mem, flight>>
  BY DEF Finish, Disconnect, Reconnect, ForeignSave, vars
<1>2. server \in Servers(c) /\ ui \in [Pages -> Statuses]
  BY DEF At, ServerAt, PagesAt
<1>3. \A p \in Pages : Sober(ui[p])
  BY <1>2 DEF Statuses, EntityStates, Sober
<1>4. \A p \in Pages : Guarded(ui[p], ui[p], {})
  BY <1>3 DEF Guarded
<1>5. UNCHANGED history =>
        /\ {"stray", "givenUp"} \subseteq DOMAIN history' /\ history'.stray = history.stray
        /\ history'.givenUp = history.givenUp
  BY DEF Evidence
<1>6. CASE Finish
  <2>1. UNCHANGED <<ui, history>> /\ server'.content = server.content
    BY <1>2, <1>6 DEF Finish, Servers
  <2> QED BY <1>1, <1>4, <1>5, <2>1, OutsideEvidence DEF Sorted, Evidence
<1>7. CASE UNCHANGED vars
  <2>1. UNCHANGED <<ui, history, server>>
    BY <1>7 DEF vars
  <2> QED BY <1>1, <1>4, <1>5, <2>1, OutsideEvidence DEF Sorted, Evidence
<1>8. ASSUME NEW e \in Entities, ForeignSave(e)
      PROVE  Evidence'
  <2>1. PICK pay : pay = [server.content[e] EXCEPT !.n = clock + 1]
    OBVIOUS
  <2>2. PICK a : a = [tab |-> Nothing, pay |-> pay, ver |-> server.ver + 1]
    OBVIOUS
  <2>3. /\ server' = [server EXCEPT !.ver = @ + 1, !.content[e] = pay]
        /\ history' = [history EXCEPT !.held = @ \cup {a}] /\ UNCHANGED ui
    BY <1>8, <2>1, <2>2, Zenon DEF ForeignSave
  <2>4. pay.of = server.content[e].of
    BY <2>1
  <2>5. Sorted
    BY <1>2, <2>3, <2>4 DEF Servers, Sorted, Evidence
  <2>6. /\ {"stray", "givenUp"} \subseteq DOMAIN history' /\ history'.stray = history.stray
        /\ history'.givenUp = history.givenUp
    BY <2>3 DEF Evidence
  <2> QED BY <1>1, <1>4, <2>3, <2>5, <2>6, OutsideEvidence
<1>9. CASE Disconnect \/ Reconnect
  <2>1. UNCHANGED <<server, history>>
    BY <1>9 DEF Disconnect, Reconnect
  <2>2. ASSUME NEW u, Sober(u), NEW e \in Entities \cup {Nothing}
        PROVE  Guarded(u, GoneOffline(u, e), {}) /\ Guarded(u, BackOnline(u, e), {})
    <3>1. CASE e \notin Entities
      BY <2>2, <3>1 DEF Guarded, GoneOffline, BackOnline, Sober
    <3>2. CASE e \in Entities
      <4>1. PICK b : b = IF u.label # "offline" THEN u.label ELSE u.st[e].before
        OBVIOUS
      <4>2. PICK label : label = IF u.st[e].dirty THEN CurrentStatus(u.st[e], TRUE)
                                 ELSE IF u.st[e].before # "none" THEN u.st[e].before ELSE u.label
        OBVIOUS
      <4>3. GoneOffline(u, e) = [WithLabel(u, "offline") EXCEPT !.st[e].before = b]
        BY <2>2, <3>2, <4>1 DEF GoneOffline, WithLabel, Sober
      <4>4. BackOnline(u, e) = [WithLabel(u, label) EXCEPT !.st[e].before = "none"]
        BY <2>2, <3>2, <4>2 DEF BackOnline, Sober
      <4>5. ASSUME NEW l, NEW x
            PROVE  Guarded(u, [WithLabel(u, l) EXCEPT !.st[e].before = x], {})
        BY <2>2, <3>2 DEF Guarded, Sober, WithLabel, Shielded
      <4> QED BY <4>3, <4>4, <4>5
    <3> QED BY <3>1, <3>2
  <2>3. ASSUME NEW p \in Pages
        PROVE  Guarded(ui[p], ui'[p], {})
    <3>1. wire[p].sel \in Entities \cup {Nothing}
      BY PageIs DEF At, Components
    <3>2. /\ ui'[p] = ui[p] \/ ui'[p] = GoneOffline(ui[p], wire[p].sel)
             \/ ui'[p] = BackOnline(ui[p], wire[p].sel)
      BY <1>9 DEF Disconnect, Reconnect
    <3> QED BY <1>3, <1>4, <2>2, <3>1, <3>2
  <2> QED BY <1>1, <1>5, <2>1, <2>3, OutsideEvidence DEF Sorted, Evidence
<1> QED BY <1>6, <1>7, <1>8, <1>9

\* At first no page is open.
LEMMA EvidenceStarts ==
  ASSUME Init
  PROVE  Evidence
<1>1. \A e \in Entities : server.content[e].of = e
  BY DEF Init, InitialServer, InitialContent, Payload
<1>2. {"stray", "givenUp"} \subseteq DOMAIN history
  BY DEF Init, InitialHistory
<1>3. ASSUME NEW p \in Pages, NEW X
      PROVE  PageEvidence(Page(p), flight[p], X)
  <2>1. flight[p] = NoMessage /\ Page(p).m = FreshMemory /\ Page(p).w.on = "new"
    BY DEF Init, Page, NoPage
  <2> QED BY <2>1 DEF PageEvidence, Replied, NoMessage
<1> QED BY <1>1, <1>2, <1>3 DEF Evidence

\* Every step keeps the evidence.
LEMMA EvidenceStays ==
  ASSUME \A p \in Pages : "restore" \notin Happens[p], DInv, Evidence, [Next]_vars
  PROVE  Evidence'
<1>1. PICK c \in Contexts : At(c)
  BY DEF DInv
<1>2. CASE UNCHANGED vars \/ Finish \/ Disconnect \/ Reconnect \/ \E e \in Entities : ForeignSave(e)
  BY <1>1, <1>2, OthersEvidence
<1>3. ASSUME NEW p \in Pages, Network(p)
      PROVE  Evidence'
  BY <1>1, <1>3, ServedEvidence, ArrivesEvidence, LostEvidence DEF Network
<1>4. ASSUME NEW p \in Pages, wire[p].on = "open", Careful(p)
      PROVE  Evidence'
  BY <1>1, <1>4, CarefulKeeps
<1>5. \A p \in Pages : wire[p].on = "open" => Watched(p)
  BY <1>1, WatchedIs
<1>6. ASSUME NEW p \in Pages, Script(p) \/ Breakdown(p)
      PROVE  Evidence'
  <2>1. wire[p].on = "open" /\ Watched(p)
    BY <1>1, <1>5, <1>6, Awake
  <2>2. ASSUME NEW e \in Entities,
               JobReads(p, e) \/ JobWrites(p, e) \/ JobFails(p, e) \/ TimerFires(p, e)
        PROVE  Evidence'
    BY <1>1, <1>4, <2>1, <2>2, JobsCareful
  <2>3. ASSUME NEW task \in mem[p].conf,
               ConfirmReads(p, task) \/ ConfirmMarks(p, task) \/ ConfirmFails(p, task)
        PROVE  Evidence'
    BY <1>1, <1>4, <2>1, <2>3, ConfirmCareful
  <2>4. ASSUME NEW task \in mem[p].conf, ConfirmEnds(p, task)
        PROVE  Evidence'
    BY <1>1, <2>4, EndingEvidence
  <2>5. CASE RecoveryReads(p) \/ RecoveryEnds(p) \/ RecoveryFails(p) \/ DropEnds(p) \/ DropFails(p)
    BY <1>1, <1>4, <2>1, <2>5, RecoveryCareful
  <2>6. CASE SaveLeaves(p)
    BY <1>1, <2>6, LeavingEvidence
  <2> QED BY <1>6, <2>2, <2>3, <2>4, <2>5, <2>6, Zenon DEF Script, Breakdown
<1>7. ASSUME NEW p \in Pages, User(p)
      PROVE  Evidence'
  <2>1. CASE Open(p) \/ Leave(p) \/ Attach(p)
    BY <1>1, <2>1, OpenedEvidence, LeftEvidence, AttachEvidence
  <2>2. CASE Close(p) \/ Report(p) \/ Discard(p) \/ \E e \in Entities : Select(p, e)
    BY <1>1, <2>2, AskingEvidence
  <2>3. ASSUME NEW sol, Restructure(p, sol)
        PROVE  Evidence'
    BY <1>1, <2>3, ClickEvidence
  <2>4. CASE Type(p) \/ \E how \in Intercepted : SaveStarts(p, how)
    <3>1. wire[p].on = "open"
      BY <2>4 DEF Type, SaveStarts, Editable, IsOpen
    <3> QED BY <1>1, <1>4, <1>5, <2>4, <3>1, EditCareful
  <2>5. CASE Drop(p)
    <3>1. wire[p].on = "open"
      BY <2>5 DEF Drop, Offers, IsOpen
    <3> QED BY <1>1, <1>4, <1>5, <2>5, <3>1, RecoveryCareful
  <2>6. ~ Restore(p)
    BY DEF Restore, Spend
  <2> QED BY <1>7, <2>1, <2>2, <2>3, <2>4, <2>5, <2>6, Zenon DEF User
<1> QED BY <1>2, <1>3, <1>6, <1>7, Zenon DEF Next

\* Files waiting on the form are in no draft, so the browser asks before the page is
\* left: a save under way, its late, lost or repeated confirmation, a selection, a
\* storage failure or a save of another user leave the warning alone as long as files
\* are on the form (onWorkspaceEvidenceInput, finishServerConfirmation).  The
\* hypothesis leaves restorations out: a restored draft may hold the form of
\* another finding.
THEOREM EvidenceHolds ==
  ASSUME \A p \in Pages : "restore" \notin Happens[p]
  PROVE  Spec => []EvidenceIsGuarded
<1>1. Init => Evidence
  BY EvidenceStarts
<1>2. DInv /\ Evidence /\ [Next]_vars => Evidence'
  BY EvidenceStays
<1>3. DInv /\ Evidence => EvidenceIsGuarded
  <2> SUFFICES ASSUME DInv, Evidence, NEW p \in Pages, IsOpen(p), wire[p].form.files # {},
                      <<p, wire[p].sel>> \notin history.stray \cup history.givenUp
               PROVE  Warns(ui[p])
    BY DEF EvidenceIsGuarded
  <2>1. PICK c \in Contexts : At(c)
    BY DEF DInv
  <2>2. PICK g : g = Page(p)
    OBVIOUS
  <2>3. Framed(g) /\ g.w = wire[p] /\ g.u = ui[p]
    BY <2>1, <2>2, PageIs, ViewIsFramed DEF At
  <2>4. Warned(g, Excused(p, history))
    BY <2>2, <2>3 DEF Evidence, PageEvidence, OpenEvidence, IsOpen
  <2>5. PICK e \in Entities : e = g.w.sel /\ Shielded(g.u.st[e])
    BY <2>3, <2>4 DEF Warned, Excused
  <2>6. e \in DOMAIN ui[p].st /\ ui[p].st[e].evidence /\ ui[p].st[e].dirty
    BY <2>3, <2>5, Zenon DEF Shielded, Framed, Sober
  <2> QED BY <2>6, Zenon DEF Warns
<1> QED BY <1>1, <1>2, <1>3, DraftsSound, PTL DEF Spec
=============================================================================
