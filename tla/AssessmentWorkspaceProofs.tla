--------------------- MODULE AssessmentWorkspaceProofs ---------------------
(***************************************************************************)
(* Theorems of AssessmentWorkspace, for every number of tabs, workers,     *)
(* findings and edits and every bound.                                     *)
(***************************************************************************)
EXTENDS AssessmentWorkspace, AssessmentStoreProofs

-----------------------------------------------------------------------------
(* The inductive invariant *)

\* The journal shows that the operation which made version n changed no finding.
Neutral(n) ==
  \E k \in Keys : journal[k].applied = n /\ journal[k].op \in {"save_assessment", "reorder"}

\* What the finding form of p was filled with is what the database holds, if
\* nothing but such operations came after version v.
HoldsFrom(p, v) ==
  /\ p.sel \in Live
  /\ ~ p.form.finding.adopted
  /\ \A n \in (v + 1)..version : Neutral(n)
  => p.form.finding.base = content[p.sel]

\* A page is of the past, shows what its version held, and says "saved" only of
\* a form that holds what it was filled with.
Sound(p) ==
  /\ p.ver <= version
  /\ HoldsFrom(p, p.ver)
  /\ p.form.finding.stat = "saved" \/ p.sel = Nothing =>
       p.form.finding.pay = p.form.finding.base

\* The messages that take the finding form off the screen.
Leaving == {"select", "close", "create", "duplicate", "delete"}

\* A worker that has a call under way is saving or calling, and the gate has
\* been passed by what it is about to do.
Staged(h, c) ==
  /\ (h.stage \in {"saving", "calling"}) = (c.phase # "idle")
  /\ h.stage = "acting" =>
       /\ h.msg \in Gated \cup {"reopen", "discard"}
       /\ h.page.ver <= h.recVer
  /\ h.recVer <= version
  /\ h.stage \in {"saving", "acting"} /\ h.msg = "reorder" =>
       h.order \in Orders /\ h.page.orderKey \in Keys
  /\ h.stage = "saving" /\ h.msg \in Leaving => h.page.view = "findings"
  /\ h.stage \in {"acting", "calling"} /\ h.msg \in Leaving /\ h.draft =>
       h.page.form.finding.pay = h.page.form.finding.base

Going(c) == c.phase \in {"waiting", "running"}
Ended(c) == c.phase = "done"
Good(c) == c.outcome \in {"applied", "replayed"}

\* The call of a worker that saves the form on display.
SaveFits(h, c) ==
  h.stage = "saving" =>
    /\ h.msg \in Saves \cup Gated
    /\ h.page.view = "details" \/ h.page.sel # Nothing
    /\ Going(c) => c.expected = h.page.ver
    /\ Going(c) /\ h.page.view = "details" => c.op = "save_assessment"
    /\ Going(c) /\ h.page.view = "findings" =>
         c.op = "save_finding" /\ c.target = h.page.sel /\ c.pay = h.page.form.finding.pay
    /\ Ended(c) /\ Good(c) => c.result \in 1..version
    /\ Ended(c) /\ Good(c) /\ h.page.view = "findings" => h.page.form.finding.pay \in kept
    /\ Ended(c) /\ c.outcome = "replayed" /\ h.page.view = "details" => Neutral(c.result)
    /\ Ended(c) /\ c.outcome = "applied" /\ h.page.view = "details" =>
         HoldsFrom(h.page, c.result)

\* What the server can answer to each message.
Answerable(msg) ==
  IF msg = "reorder"
  THEN {"applied", "replayed", "mismatch", "readonly", "missing", "conflict", "timeout"}
  ELSE IF msg \in Lifecycle THEN {"applied", "invalid", "timeout"}
  ELSE {"applied", "readonly", "missing", "conflict", "timeout"}

\* The call of a worker that executes the operation asked for.
CallFits(h, c) ==
  h.stage = "calling" =>
    /\ h.msg \in Changes \cup {"reopen"}
    /\ Going(c) => c.op = h.msg
    /\ Going(c) /\ h.msg # "reorder" => c.key = NoKey
    /\ Going(c) /\ h.msg = "reorder" => c.expected = h.page.ver
    /\ Going(c) /\ h.msg = "delete" => c.expected >= h.page.ver
    /\ Ended(c) => c.outcome \in Answerable(h.msg)
    /\ Ended(c) /\ Good(c) => c.result \in 1..version
    /\ Ended(c) /\ c.outcome = "replayed" => Neutral(c.result)
    /\ Ended(c) /\ c.outcome = "applied" /\ h.msg \in {"reorder", "delete"} =>
         /\ c.result > h.page.ver
         /\ c.result = h.page.ver + 1 => HoldsFrom(h.page, c.result)

\* What the journal can answer to a repeated save has been committed.
JournalIsKept == \A k \in Keys : journal[k].applied > 0 => journal[k].pay \in kept

\* The page a tab waits for still holds the tab's edit, or the edit was safe or
\* given up before it left the page.
Awaits(t) ==
  wait[t] # NoWorker =>
    LET h == handler[wait[t]]
        f == tab[t].form.finding
        g == h.page.form.finding
    IN
    /\ h.tab = t
    /\ h.stage # "free"
    /\ \/ g.pay = f.pay /\ g.base = f.base
       \/ f.pay = f.base
       \/ f.pay \in kept
       \/ h.msg = "discard"
       \/ ~ h.draft

WInv ==
  /\ OrderInv
  /\ WTypeOK
  /\ \A t \in Tabs : Sound(tab[t])
  /\ \A w \in Workers : Sound(handler[w].page)
  /\ \A w \in Workers : Staged(handler[w], call[w])
  /\ \A w \in Workers : SaveFits(handler[w], call[w])
  /\ \A w \in Workers : CallFits(handler[w], call[w])
  /\ JournalIsKept
  /\ \A t \in Tabs : Awaits(t)

-----------------------------------------------------------------------------
(* What the helpers make of a page *)

BothForms == [finding : Forms, details : Forms]

\* One form of the two is replaced.
LEMMA FormFields ==
  ASSUME NEW G \in BothForms, NEW F \in Forms
  PROVE  /\ [G EXCEPT !.finding = F] \in BothForms
         /\ [G EXCEPT !.finding = F].finding = F
         /\ [G EXCEPT !.finding = F].details = G.details
         /\ [G EXCEPT !.details = F] \in BothForms
         /\ [G EXCEPT !.details = F].details = F
         /\ [G EXCEPT !.details = F].finding = G.finding
BY DEF BothForms

LEMMA OneForm ==
  ASSUME NEW G \in BothForms, NEW F \in Forms, NEW k \in Kinds
  PROVE  /\ [G EXCEPT ![k] = F] \in BothForms
         /\ [G EXCEPT ![k] = F][k] = F
         /\ k = "details" => [G EXCEPT ![k] = F].finding = G.finding
         /\ k = "finding" => [G EXCEPT ![k] = F].finding = F
BY DEF BothForms, Kinds

\* The forms of a page are replaced, the rest of it stays.
LEMMA PageForms ==
  ASSUME NEW p \in Pages, NEW G \in BothForms,
         NEW q, q = [p EXCEPT !.form = G]
  PROVE
         /\ q \in Pages /\ q.ver = p.ver /\ q.view = p.view /\ q.sel = p.sel
         /\ q.orderKey = p.orderKey /\ q.form = G
BY DEF Pages, BothForms

\* The status of one form is replaced.
LEMMA StatFacts ==
  ASSUME NEW p \in Pages, NEW k \in Kinds, NEW s \in FormStats
  PROVE  LET q == WithStat(p, k, s) IN
         /\ q \in Pages
         /\ q.ver = p.ver /\ q.view = p.view /\ q.sel = p.sel /\ q.orderKey = p.orderKey
         /\ q.form[k].stat = s
         /\ q.form.finding.base = p.form.finding.base
         /\ q.form.finding.pay = p.form.finding.pay
         /\ q.form.finding.adopted = p.form.finding.adopted
         /\ k = "details" => q.form.finding = p.form.finding
<1>. DEFINE F == [p.form[k] EXCEPT !.stat = s]
            G == [p.form EXCEPT ![k] = F]
<1>1. p.form \in BothForms /\ p.form[k] \in Forms /\ p.form.finding \in Forms
  BY DEF Pages, Kinds, BothForms
<1>2. F \in Forms /\ F.stat = s /\ F.base = p.form[k].base /\ F.pay = p.form[k].pay
      /\ F.adopted = p.form[k].adopted
  BY <1>1 DEF Forms
<1>4. WithStat(p, k, s) = [p EXCEPT !.form = G]
  BY DEF WithStat
<1>. HIDE DEF F
<1>3. G \in BothForms /\ G[k] = F /\ (k = "details" => G.finding = p.form.finding)
      /\ (k = "finding" => G.finding = F)
  BY <1>1, <1>2, OneForm
<1>. HIDE DEF G
<1>5. PICK q : q = WithStat(p, k, s)
  OBVIOUS
<1>6. q = [p EXCEPT !.form = G]
  BY <1>4, <1>5
<1>7. /\ q \in Pages /\ q.ver = p.ver /\ q.view = p.view /\ q.sel = p.sel
      /\ q.orderKey = p.orderKey /\ q.form = G
  BY <1>3, <1>6, PageForms
<1>. QED BY <1>2, <1>3, <1>5, <1>7 DEF Kinds

\* A page that takes over a version keeps its form and knows what it skipped.
LEMMA ReachingFacts ==
  ASSUME NEW p \in Pages, NEW v \in Nat
  PROVE  LET q == Reaching(p, v) IN
         /\ q \in Pages
         /\ q.ver = v /\ q.view = p.view /\ q.sel = p.sel /\ q.orderKey = p.orderKey
         /\ q.form.finding.stat = p.form.finding.stat
         /\ q.form.finding.base = p.form.finding.base
         /\ q.form.finding.pay = p.form.finding.pay
         /\ q.form.finding.adopted <=> p.form.finding.adopted \/ v > p.ver + 1
<1>. DEFINE b == v > p.ver + 1
            F == [p.form.finding EXCEPT !.adopted = @ \/ b]
            D == [p.form.details EXCEPT !.adopted = @ \/ b]
            H == [p.form EXCEPT !.finding = F]
            G == [H EXCEPT !.details = D]
<1>1. p.form \in BothForms /\ p.form.details \in Forms /\ p.form.finding \in Forms
  BY DEF Pages, BothForms
<1>2. b \in BOOLEAN
  OBVIOUS
<1>. HIDE DEF b
<1>3. /\ F \in Forms /\ F.stat = p.form.finding.stat
      /\ F.base = p.form.finding.base /\ F.pay = p.form.finding.pay
      /\ (F.adopted <=> p.form.finding.adopted \/ b)
  BY <1>1, <1>2 DEF Forms
<1>4. D \in Forms
  BY <1>1, <1>2 DEF Forms
<1>5. Reaching(p, v) = [p EXCEPT !.ver = v, !.form = G]
  BY <1>1 DEF Reaching, BothForms, Pages, b
<1>. HIDE DEF F, D
<1>6. H \in BothForms /\ H.finding = F
  BY <1>1, <1>3, FormFields
<1>. HIDE DEF H
<1>7. G \in BothForms /\ G.finding = F
  BY <1>4, <1>6, FormFields
<1>. HIDE DEF G
<1>8. PICK q : q = Reaching(p, v)
  OBVIOUS
<1>9. q = [p EXCEPT !.ver = v, !.form = G]
  BY <1>5, <1>8
<1>10. /\ q \in Pages /\ q.ver = v /\ q.view = p.view /\ q.sel = p.sel
       /\ q.orderKey = p.orderKey /\ q.form = G
  BY <1>7, <1>9 DEF Pages, BothForms
<1>. QED BY <1>3, <1>7, <1>8, <1>10 DEF b

\* The payloads are the stamps, and the keys too.
LEMMA Stamps ==
  /\ Contents = 0..MaxStamp /\ Keys \cup {NoKey} = 0..MaxStamp
  /\ Payloads = Contents /\ Blank \in Contents /\ NoKey \in Keys \cup {NoKey}
BY WorkspaceAssumption DEF Contents

\* A form just filled is a form.
LEMMA FilledFacts ==
  ASSUME NEW c \in Contents
  PROVE  /\ Filled(c) \in Forms
         /\ Filled(c).base = c /\ Filled(c).pay = c /\ Filled(c).stat = "saved"
BY Stamps DEF Filled, Forms, FormStats

\* A page just mounted shows what the database holds.
LEMMA MountedFacts ==
  ASSUME TypeOK, NEW f \in Live \cup {Nothing}
  PROVE  /\ Mounted(f) \in Pages
         /\ Mounted(f).ver = version /\ Mounted(f).sel = f
         /\ Mounted(f).form.finding.pay = Mounted(f).form.finding.base
         /\ f \in Live => Mounted(f).form.finding.base = content[f]
<1>1. /\ f \in Findings \cup {Nothing} /\ Nothing \notin Live
      /\ content[Details] \in Contents
      /\ (IF f = Nothing THEN Blank ELSE content[f]) \in Contents
      /\ version \in Nat /\ Closed \in BOOLEAN
  BY WorkspaceAssumption, Stamps DEF TypeOK, Live, Units, Closed
<1>. DEFINE F == Filled(IF f = Nothing THEN Blank ELSE content[f])
            D == Filled(content[Details])
<1>2. /\ F \in Forms /\ D \in Forms /\ F.pay = F.base
      /\ f \in Live => F.base = content[f]
  BY <1>1, FilledFacts
<1>3. Mounted(f) = [ver |-> version, view |-> "findings", sel |-> f,
                    form |-> [finding |-> F, details |-> D], orderKey |-> NoKey,
                    closed |-> Closed]
  BY DEF Mounted
<1>. HIDE DEF F, D
<1>. QED BY <1>1, <1>2, <1>3 DEF Pages

LEMMA NoPageFacts ==
  /\ NoPage \in Pages /\ NoPage.ver = 0 /\ NoPage.sel = Nothing
  /\ NoPage.form.finding.pay = NoPage.form.finding.base
<1>. DEFINE F == Filled(Blank)
<1>1. F \in Forms /\ F.pay = F.base
  BY Stamps, FilledFacts
<1>2. NoPage = [ver |-> 0, view |-> "findings", sel |-> Nothing,
                form |-> [finding |-> F, details |-> F], orderKey |-> NoKey, closed |-> FALSE]
  BY DEF NoPage
<1>. HIDE DEF F
<1>. QED BY <1>1, <1>2 DEF Pages

\* loadSelectedFinding: the form shows the finding, whatever it showed before.
LEMMA LoadedFacts ==
  ASSUME TypeOK, NEW p \in Pages, NEW f \in Findings
  PROVE  LET q == WithLoaded(p, f) IN
         /\ q \in Pages
         /\ q.ver = p.ver /\ q.view = p.view /\ q.sel = f /\ q.orderKey = p.orderKey
         /\ q.form.finding.base = content[f] /\ q.form.finding.pay = content[f]
         /\ q.form.finding.stat = "saved"
<1>1. content[f] \in Contents /\ p.form.finding.key \in Keys \cup {NoKey} /\ p.form \in BothForms
  BY DEF TypeOK, Units, Pages, Forms, BothForms
<1>. DEFINE E == Filled(content[f])
            F == [E EXCEPT !.key = p.form.finding.key]
            G == [p.form EXCEPT !.finding = F]
<1>3. WithLoaded(p, f) = [p EXCEPT !.sel = f, !.form = G]
  BY DEF WithLoaded
<1>0. E \in Forms /\ E.base = content[f] /\ E.pay = content[f] /\ E.stat = "saved"
  BY <1>1, FilledFacts
<1>. HIDE DEF E
<1>2. F \in Forms /\ F.base = content[f] /\ F.pay = content[f] /\ F.stat = "saved"
  BY <1>0, <1>1 DEF Forms
<1>. HIDE DEF F
<1>4. G \in BothForms /\ G.finding = F
  BY <1>1, <1>2, FormFields
<1>. HIDE DEF G
<1>5. PICK q : q = WithLoaded(p, f)
  OBVIOUS
<1>6. q = [p EXCEPT !.sel = f, !.form = G]
  BY <1>3, <1>5
<1>7. /\ q \in Pages /\ q.ver = p.ver /\ q.view = p.view /\ q.sel = f
      /\ q.orderKey = p.orderKey /\ q.form = G
  BY <1>4, <1>6 DEF Pages, BothForms
<1>. QED BY <1>2, <1>4, <1>5, <1>7

\* The inspector is emptied.
LEMMA NoneFacts ==
  ASSUME NEW p \in Pages, NEW s \in FormStats
  PROVE  LET q == WithNone(p, s) IN
         /\ q \in Pages
         /\ q.ver = p.ver /\ q.view = p.view /\ q.sel = Nothing /\ q.orderKey = p.orderKey
         /\ q.form.finding.base = q.form.finding.pay
<1>1. Blank \in Contents /\ p.form.finding.key \in Keys \cup {NoKey} /\ p.form \in BothForms
  BY Stamps DEF Pages, Forms, BothForms
<1>. DEFINE E == Filled(Blank)
            F == [E EXCEPT !.key = p.form.finding.key, !.stat = s]
            G == [p.form EXCEPT !.finding = F]
<1>3. WithNone(p, s) = [p EXCEPT !.sel = Nothing, !.form = G]
  BY DEF WithNone
<1>0. E \in Forms /\ E.base = E.pay
  BY <1>1, FilledFacts
<1>. HIDE DEF E
<1>2. F \in Forms /\ F.base = F.pay
  BY <1>0, <1>1 DEF Forms
<1>. HIDE DEF F
<1>4. G \in BothForms /\ G.finding = F
  BY <1>1, <1>2, FormFields
<1>. HIDE DEF G
<1>5. PICK q : q = WithNone(p, s)
  OBVIOUS
<1>6. q = [p EXCEPT !.sel = Nothing, !.form = G]
  BY <1>3, <1>5
<1>7. /\ q \in Pages /\ q.ver = p.ver /\ q.view = p.view /\ q.sel = Nothing
      /\ q.orderKey = p.orderKey /\ q.form = G
  BY <1>4, <1>6 DEF Pages, BothForms
<1>. QED BY <1>2, <1>4, <1>5, <1>7

\* A pending key of either form is replaced.
LEMMA KeyFacts ==
  ASSUME NEW p \in Pages, NEW k \in Kinds, NEW key \in Keys \cup {NoKey}
  PROVE  LET q == [p EXCEPT !.form[k].key = key] IN
         /\ q \in Pages
         /\ q.ver = p.ver /\ q.view = p.view /\ q.sel = p.sel /\ q.orderKey = p.orderKey
         /\ q.form.finding.stat = p.form.finding.stat
         /\ q.form.finding.base = p.form.finding.base
         /\ q.form.finding.pay = p.form.finding.pay
         /\ q.form.finding.adopted = p.form.finding.adopted
<1>. DEFINE F == [p.form[k] EXCEPT !.key = key]
            G == [p.form EXCEPT ![k] = F]
<1>1. p.form \in BothForms /\ p.form[k] \in Forms /\ p.form.finding \in Forms
  BY DEF Pages, Kinds, BothForms
<1>2. F \in Forms /\ F.stat = p.form[k].stat /\ F.base = p.form[k].base /\ F.pay = p.form[k].pay
      /\ F.adopted = p.form[k].adopted
  BY <1>1 DEF Forms
<1>3. [p EXCEPT !.form[k].key = key] = [p EXCEPT !.form = G]
  OBVIOUS
<1>. HIDE DEF F
<1>4. G \in BothForms /\ (k = "details" => G.finding = p.form.finding)
      /\ (k = "finding" => G.finding = F)
  BY <1>1, <1>2, OneForm
<1>. HIDE DEF G
<1>5. PICK q : q = [p EXCEPT !.form[k].key = key]
  OBVIOUS
<1>6. q = [p EXCEPT !.form = G]
  BY <1>3, <1>5
<1>7. /\ q \in Pages /\ q.ver = p.ver /\ q.view = p.view /\ q.sel = p.sel
      /\ q.orderKey = p.orderKey /\ q.form = G
  BY <1>4, <1>6, PageForms
<1>. QED BY <1>2, <1>4, <1>5, <1>7 DEF Kinds

\* The general-data form is replaced.
LEMMA DetailsFacts ==
  ASSUME NEW p \in Pages, NEW F \in Forms
  PROVE  LET q == [p EXCEPT !.form.details = F] IN
         /\ q \in Pages
         /\ q.ver = p.ver /\ q.view = p.view /\ q.sel = p.sel /\ q.orderKey = p.orderKey
         /\ q.form.finding = p.form.finding
         /\ q.form.details = F
<1>. DEFINE G == [p.form EXCEPT !.details = F]
<1>1. G \in BothForms /\ G.details = F /\ G.finding = p.form.finding
  BY FormFields DEF Pages, BothForms
<1>2. [p EXCEPT !.form.details = F] = [p EXCEPT !.form = G]
  OBVIOUS
<1>. HIDE DEF G
<1>5. PICK q : q = [p EXCEPT !.form.details = F]
  OBVIOUS
<1>6. q = [p EXCEPT !.form = G]
  BY <1>2, <1>5
<1>7. /\ q \in Pages /\ q.ver = p.ver /\ q.view = p.view /\ q.sel = p.sel
      /\ q.orderKey = p.orderKey /\ q.form = G
  BY <1>1, <1>6, PageForms
<1>. QED BY <1>1, <1>5, <1>7

\* The user types content c into one form, which then shows the status s.
Typed(p, k, c, s) == [p EXCEPT !.form[k].pay = c, !.form[k].stat = s]

\* What the form was filled with stays.
LEMMA TypedFacts ==
  ASSUME NEW p \in Pages, NEW k \in Kinds, NEW c \in Contents, NEW s \in FormStats, s # "saved"
  PROVE  /\ Typed(p, k, c, s) \in Pages
         /\ Typed(p, k, c, s).ver = p.ver
         /\ Typed(p, k, c, s).view = p.view
         /\ Typed(p, k, c, s).sel = p.sel
         /\ Typed(p, k, c, s).orderKey = p.orderKey
         /\ Typed(p, k, c, s).form.finding.base = p.form.finding.base
         /\ Typed(p, k, c, s).form.finding.adopted = p.form.finding.adopted
         /\ k = "details" => Typed(p, k, c, s).form.finding = p.form.finding
         /\ k = "finding" => Typed(p, k, c, s).form.finding.stat = s
<1>. DEFINE F == [p.form[k] EXCEPT !.pay = c, !.stat = s]
            G == [p.form EXCEPT ![k] = F]
<1>1. p.form \in BothForms /\ p.form[k] \in Forms /\ p.form.finding \in Forms
  BY DEF Pages, Kinds, BothForms
<1>2. F \in Forms /\ F.stat = s /\ F.base = p.form[k].base /\ F.adopted = p.form[k].adopted
  BY <1>1 DEF Forms
<1>3. Typed(p, k, c, s) = [p EXCEPT !.form = G]
  BY <1>1 DEF Pages, BothForms, Kinds, Forms, Typed
<1>. HIDE DEF F
<1>4. G \in BothForms /\ (k = "details" => G.finding = p.form.finding)
      /\ (k = "finding" => G.finding = F)
  BY <1>1, <1>2, OneForm
<1>. HIDE DEF G
<1>5. PICK q : q = Typed(p, k, c, s)
  OBVIOUS
<1>6. q = [p EXCEPT !.form = G]
  BY <1>3, <1>5
<1>7. /\ q \in Pages /\ q.ver = p.ver /\ q.view = p.view /\ q.sel = p.sel
      /\ q.orderKey = p.orderKey /\ q.form = G
  BY <1>4, <1>6, PageForms
<1>. QED BY <1>2, <1>4, <1>5, <1>7 DEF Kinds

\* The view, the status shown or the order key is replaced.
LEMMA PlainFacts ==
  ASSUME NEW p \in Pages, NEW v \in {"findings", "details"}, NEW b \in BOOLEAN,
         NEW key \in Keys \cup {NoKey}
  PROVE  /\ [p EXCEPT !.view = v] \in Pages
         /\ [p EXCEPT !.view = v].ver = p.ver
         /\ [p EXCEPT !.view = v].sel = p.sel
         /\ [p EXCEPT !.view = v].form = p.form
         /\ [p EXCEPT !.closed = b] \in Pages
         /\ [p EXCEPT !.closed = b].ver = p.ver
         /\ [p EXCEPT !.closed = b].sel = p.sel
         /\ [p EXCEPT !.closed = b].form = p.form
         /\ [p EXCEPT !.orderKey = key] \in Pages
         /\ [p EXCEPT !.orderKey = key].ver = p.ver
         /\ [p EXCEPT !.orderKey = key].sel = p.sel
         /\ [p EXCEPT !.orderKey = key].form = p.form
BY DEF Pages

-----------------------------------------------------------------------------
(* What a step of the server does to the journal and to what a page shows *)

\* No row of the journal is of the future.
LEMMA RowsArePast ==
  ASSUME OrderInv, NEW k \in Keys
  PROVE  journal[k].applied \in Nat /\ journal[k].applied <= version
<1>1. journal[k].applied \in Nat /\ version = Len(applied) /\ version \in Nat
  BY DEF OrderInv, IInv, TypeOK, Rows, VersionCounts
<1>2. journal[k].applied > 0 => journal[k].applied \in 1..Len(applied)
  BY DEF OrderInv, IInv, JournalTruthful
<1>. QED BY <1>1, <1>2

\* The journal stays, or gets a row under a key it did not know.
LEMMA JournalMoves ==
  ASSUME OrderInv, [Serves]_storeVars
  PROVE  \/ journal' = journal
         \/ \E w \in Workers :
              LET c == call[w] IN
              /\ ApplyChange(w)
              /\ c.key \in Keys
              /\ journal[c.key].applied = 0
              /\ journal' = [journal EXCEPT ![c.key] =
                   [op |-> c.op, target |-> c.target, pay |-> c.pay,
                    order |-> c.order, applied |-> version + 1]]
<1>1. CASE Quiet
  BY <1>1 DEF Quiet
<1>2. ASSUME NEW w \in Workers, ApplyLifecycle(w) PROVE journal' = journal
  BY <1>2 DEF ApplyLifecycle
<1>3. ASSUME NEW w \in Workers, ApplyChange(w), call[w].key # NoKey
      PROVE  /\ call[w].key \in Keys
             /\ journal[call[w].key].applied = 0
             /\ journal' = [journal EXCEPT ![call[w].key] =
                   [op |-> call[w].op, target |-> call[w].target, pay |-> call[w].pay,
                    order |-> call[w].order, applied |-> version + 1]]
  <2>1. call[w].key \in Keys
    BY <1>3 DEF OrderInv, IInv, TypeOK, Calls
  <2>2. ~ Stored(call[w]) /\ call[w].expected = version
    BY <1>3 DEF OrderInv, IInv, PlansAreCurrent, PlanIsCurrent, ApplyChange, Matches
  <2>3. journal[call[w].key].applied \in Nat
    BY <2>1, RowsArePast
  <2>4. journal[call[w].key].applied = 0
    BY <1>3, <2>2, <2>3 DEF Stored
  <2>. QED BY <1>3, <2>1, <2>2, <2>4 DEF ApplyChange
<1>4. ASSUME NEW w \in Workers, ApplyChange(w), call[w].key = NoKey PROVE journal' = journal
  BY <1>4 DEF ApplyChange
<1>. QED BY <1>1, <1>2, <1>3, <1>4, StepKinds DEF OrderInv, IInv

\* A new row is of the version just made.
LEMMA RowsArrive ==
  ASSUME OrderInv, [Serves]_storeVars, NEW k \in Keys, journal'[k] # journal[k]
  PROVE  \E w \in Workers :
           /\ ApplyChange(w) /\ journal'[k].op = call[w].op /\ journal'[k].pay = call[w].pay
           /\ journal'[k].applied = version + 1
           /\ journal[k].applied = 0
<1>1. PICK w \in Workers :
        /\ ApplyChange(w)
        /\ call[w].key \in Keys
        /\ journal[call[w].key].applied = 0
        /\ journal' = [journal EXCEPT ![call[w].key] =
             [op |-> call[w].op, target |-> call[w].target, pay |-> call[w].pay,
              order |-> call[w].order, applied |-> version + 1]]
  BY JournalMoves
<1>2. journal \in [Keys -> Rows]
  BY DEF OrderInv, IInv, TypeOK
<1>3. k = call[w].key
  BY <1>1, <1>2
<1>4. journal'[k] = [op |-> call[w].op, target |-> call[w].target, pay |-> call[w].pay,
                     order |-> call[w].order, applied |-> version + 1]
  BY <1>1, <1>2, <1>3
<1>. QED BY <1>1, <1>3, <1>4

\* A row that answers replays is never replaced.
LEMMA RowsStay ==
  ASSUME OrderInv, [Serves]_storeVars, NEW k \in Keys, journal[k].applied > 0
  PROVE  journal'[k] = journal[k]
BY RowsArrive

\* What is known to have changed no finding stays known, and was before.
LEMMA NeutralStays ==
  ASSUME OrderInv, [Serves]_storeVars, NEW n \in 1..version
  PROVE  Neutral(n)' <=> Neutral(n)
<1>1. version \in Nat
  BY DEF OrderInv, IInv, TypeOK
<1>2. ASSUME NEW k \in Keys, journal[k].applied = n PROVE journal'[k] = journal[k]
  BY <1>1, <1>2, RowsStay
<1>3. ASSUME NEW k \in Keys, journal'[k].applied = n PROVE journal'[k] = journal[k]
  BY <1>1, <1>3, RowsArrive
<1>. QED BY <1>2, <1>3 DEF Neutral

\* Only such an operation makes such a version.
LEMMA NeutralMade ==
  ASSUME OrderInv, [Serves]_storeVars, NEW n, n = version + 1, Neutral(n)'
  PROVE  \E w \in Workers : ApplyChange(w) /\ call[w].op \in {"save_assessment", "reorder"}
<1>1. PICK k \in Keys : /\ journal'[k].applied = n
                        /\ journal'[k].op \in {"save_assessment", "reorder"}
  BY DEF Neutral
<1>2. journal[k].applied <= version /\ version \in Nat /\ journal[k].applied \in Nat
  BY RowsArePast DEF OrderInv, IInv, TypeOK
<1>3. journal'[k] # journal[k]
  BY <1>1, <1>2
<1>. QED BY <1>1, <1>3, RowsArrive

\* What a form was filled with stays what the database holds, until an
\* operation that may change a finding makes the next version.
LEMMA HoldsStays ==
  ASSUME OrderInv, [Serves]_storeVars, NEW p, NEW v \in Nat, v <= version, HoldsFrom(p, v)
  PROVE  HoldsFrom(p, v)'
<1>0. /\ version \in Nat /\ version' \in Nat
      /\ version' = version \/ version' = version + 1
      /\ TypeOK
  BY VersionRises DEF OrderInv, IInv, TypeOK
<1>. SUFFICES ASSUME p.sel \in Live', ~ p.form.finding.adopted,
                     \A n \in (v + 1)..version' : Neutral(n)'
              PROVE  p.form.finding.base = content'[p.sel]
  BY DEF HoldsFrom
<1>1. \A n \in (v + 1)..version : Neutral(n)
  BY <1>0, NeutralStays
<1>2. CASE Quiet
  BY <1>1, <1>2 DEF Quiet, HoldsFrom, Live
<1>3. CASE ~ Quiet
  <2>1. version' = version + 1
    BY <1>0, <1>3, StepKinds DEF ApplyChange, Matches, ApplyLifecycle
  <2>2. PICK n : n = version + 1
    OBVIOUS
  <2>3. n \in (v + 1)..version'
    BY <1>0, <2>1, <2>2
  <2>4. PICK w \in Workers : ApplyChange(w) /\ call[w].op \in {"save_assessment", "reorder"}
    BY <2>2, <2>3, NeutralMade
  <2>5. Live' = Live
    <3>1. \A x \in Workers : ApplyChange(x) => x = w
      BY <1>0, <2>4, DoneIsNothing DEF ApplyChange, TypeOK
    <3>2. Placed(sort') = Live' /\ Placed(sort) = Live
      BY DEF Placed, Live
    <3>. QED BY <2>4, <3>1, <3>2, SortMoves DEF Creating
  <2>6. \A f \in Findings : content'[f] = content[f]
    <3>1. call[w].op = "save_assessment" => call[w].target = Details
      BY DEF OrderInv, Shaped
    <3>. QED BY <1>0, <2>4, <3>1, StoreAssumption DEF ApplyChange, Saving, Creating, TypeOK
  <2>. QED BY <1>1, <2>5, <2>6 DEF HoldsFrom, Live
<1>. QED BY <1>2, <1>3

-----------------------------------------------------------------------------
(* The page uses the store as the store allows *)

\* What a user can send from page p.
Clicked(p, msg, arg, order) ==
  /\ msg \in Messages
  /\ arg \in Findings \cup {Nothing}
  /\ order \in Seq(Findings)
  /\ msg \in Saves => p.view = "details" \/ p.sel # Nothing
  /\ msg \in Leaving => p.view = "findings"
  /\ msg = "reorder" => order \in Orders /\ p.orderKey \in Keys

LEMMA ClickShape ==
  ASSUME TypeOK, WTypeOK, NEW t \in Tabs, NEW w \in Workers, Clicks(t, w)
  PROVE  \E msg, arg, order : Send(t, w, msg, arg, order) /\ Clicked(tab[t], msg, arg, order)
<1>. DEFINE p == tab[t]
            Goal == \E msg, arg, order : Send(t, w, msg, arg, order) /\ Clicked(p, msg, arg, order)
<1>0. /\ p \in Pages /\ <<>> \in Seq(Findings) /\ born \subseteq Findings
      /\ p.orderKey \in Keys \cup {NoKey}
  BY DEF WTypeOK, Pages, TypeOK
<1>1. ASSUME NEW msg \in {"save_finding", "save_next", "discard"}, p.view = "findings",
             p.sel # Nothing, Send(t, w, msg, Nothing, <<>>)
      PROVE  Goal
  <2>1. Clicked(p, msg, Nothing, <<>>)
    BY <1>0, <1>1 DEF Clicked, Messages, Saves, Gated, Leaving
  <2>. QED BY <1>1, <2>1
<1>2. ASSUME p.view = "details", Send(t, w, "save_details", Nothing, <<>>) PROVE Goal
  <2>1. Clicked(p, "save_details", Nothing, <<>>)
    BY <1>0, <1>2 DEF Clicked, Messages, Saves, Gated, Leaving
  <2>. QED BY <1>2, <2>1
<1>3. ASSUME NEW msg \in {"view", "complete", "reopen"}, Send(t, w, msg, Nothing, <<>>)
      PROVE  Goal
  <2>1. Clicked(p, msg, Nothing, <<>>)
    BY <1>0, <1>3 DEF Clicked, Messages, Saves, Gated, Moves, Changes, Leaving
  <2>. QED BY <1>3, <2>1
<1>4. ASSUME NEW msg \in {"close", "create"}, p.view = "findings", Send(t, w, msg, Nothing, <<>>)
      PROVE  Goal
  <2>1. Clicked(p, msg, Nothing, <<>>)
    BY <1>0, <1>4 DEF Clicked, Messages, Saves, Gated, Moves, Changes, Leaving
  <2>. QED BY <1>4, <2>1
<1>5. ASSUME NEW f \in born, NEW msg \in {"select", "delete", "duplicate"}, p.view = "findings",
             Send(t, w, msg, f, <<>>)
      PROVE  Goal
  <2>1. Clicked(p, msg, f, <<>>)
    BY <1>0, <1>5 DEF Clicked, Messages, Saves, Gated, Moves, Changes, Leaving
  <2>. QED BY <1>5, <2>1
<1>6. ASSUME NEW o \in DragOrders, p.view = "findings", p.orderKey # NoKey,
             Send(t, w, "reorder", Nothing, o)
      PROVE  Goal
  <2>1. o \in Orders /\ o \in Seq(Findings)
    <3>1. Cardinality(born) \in Nat
      BY <1>0, SomeFinite
    <3>2. \A n \in Nat : [1..n -> born] \subseteq Seq(Findings)
      BY <1>0
    <3>. QED BY <3>1, <3>2 DEF DragOrders, Orders
  <2>2. Clicked(p, "reorder", Nothing, o)
    BY <1>0, <1>6, <2>1 DEF Clicked, Messages, Saves, Gated, Moves, Changes, Leaving
  <2>. QED BY <1>6, <2>2
<1>. SUFFICES Goal
  OBVIOUS
<1>7. p.view \in {"findings", "details"}
  BY <1>0 DEF Pages
<1>8. \/ \E msg \in {"save_finding", "save_next", "discard"} :
           p.view = "findings" /\ p.sel # Nothing /\ Send(t, w, msg, Nothing, <<>>)
      \/ p.view = "details" /\ Send(t, w, "save_details", Nothing, <<>>)
      \/ \E msg \in {"view", "complete", "reopen"} : Send(t, w, msg, Nothing, <<>>)
      \/ \E msg \in {"close", "create"} :
           p.view = "findings" /\ Send(t, w, msg, Nothing, <<>>)
      \/ \E f \in born, msg \in {"select", "delete", "duplicate"} :
           p.view = "findings" /\ Send(t, w, msg, f, <<>>)
      \/ \E o \in DragOrders :
           p.view = "findings" /\ p.orderKey # NoKey /\ Send(t, w, "reorder", Nothing, o)
  BY DEF Clicks
<1>. HIDE DEF Goal
<1>. QED BY <1>1, <1>2, <1>3, <1>4, <1>5, <1>6, <1>8

\* The form on display.
LEMMA ActiveFacts ==
  ASSUME NEW p \in Pages
  PROVE  /\ p.view = "details" => Active(p) = {"details"} /\ ActiveKind(p) = "details"
         /\ p.view = "findings" /\ p.sel # Nothing =>
              Active(p) = {"finding"} /\ ActiveKind(p) = "finding"
         /\ p.view = "findings" /\ p.sel = Nothing => Active(p) = {}
         /\ Active(p) # {} <=> p.view = "details" \/ p.sel # Nothing
         /\ Active(p) \subseteq Kinds
<1>1. p.view \in {"findings", "details"}
  BY DEF Pages
<1>2. \A k \in {"details", "finding"} : (CHOOSE x \in {k} : TRUE) = k
  OBVIOUS
<1>. QED BY <1>1, <1>2 DEF Active, ActiveKind, Kinds

\* q shows and holds what p does.
Like(q, p) ==
  /\ q.ver = p.ver /\ q.view = p.view /\ q.sel = p.sel /\ q.orderKey = p.orderKey
  /\ q.form.finding.stat = p.form.finding.stat
  /\ q.form.finding.base = p.form.finding.base
  /\ q.form.finding.pay = p.form.finding.pay
  /\ q.form.finding.adopted = p.form.finding.adopted

\* The page a request carries, and where the worker starts with it.
SendsAs(t, w, msg, arg, order, p, stage) ==
  /\ p \in Pages /\ stage \in {"reply", "saving", "acting"}
  /\ Like(p, tab[t])
  /\ tab' = [tab EXCEPT ![t] = p]
  /\ wait[t] = NoWorker /\ wait' = [wait EXCEPT ![t] = w]
  /\ handler[w].stage = "free"
  /\ handler' = [handler EXCEPT ![w] =
       [stage |-> stage, tab |-> t, page |-> p, msg |-> msg, arg |-> arg,
        order |-> order, draft |-> ~ Closed, recVer |-> version]]
  /\ stage = "saving" =>
       /\ Receive(w, SaveRequest(p))
       /\ msg \in Saves \cup Gated
       /\ p.view = "details" \/ (p.sel # Nothing /\ p.sel \in Live)
  /\ stage # "saving" => UNCHANGED storeVars
  /\ stage = "acting" =>
       /\ msg \in Gated \cup {"reopen", "discard"}
       /\ msg \in Gated /\ ~ Closed => \A k \in Active(p) : p.form[k].stat = "saved"
  /\ UNCHANGED <<stamp, faults, kept>>

LEMMA SendShape ==
  ASSUME TypeOK, WTypeOK, NEW t \in Tabs, NEW w \in Workers, NEW msg, NEW arg, NEW order,
         Clicked(tab[t], msg, arg, order), Send(t, w, msg, arg, order)
  PROVE  \E p, stage : SendsAs(t, w, msg, arg, order, p, stage)
<1>. DEFINE p == IF msg \in Saves THEN WithDraftKey(tab[t]) ELSE tab[t]
            draft == ~ Closed
            saves == msg \in Saves \/ (msg \in Gated /\ ~ GatePasses(p, draft))
            stage == IF NotOffered(p, msg, draft) \/ (saves /\ SaveDeclined(p, draft)) THEN "reply"
                     ELSE IF saves THEN "saving" ELSE "acting"
<1>1. tab[t] \in Pages
  BY DEF WTypeOK
<1>2. p \in Pages /\ Like(p, tab[t])
  <2>1. CASE msg \notin Saves
    BY <1>1, <2>1 DEF Like
  <2>2. CASE msg \in Saves
    <3>. DEFINE k == ActiveKind(tab[t])
                key == IF tab[t].form[k].pay # tab[t].form[k].base THEN tab[t].form[k].pay
                       ELSE tab[t].form[k].key
    <3>1. k \in Kinds
      BY <1>1, <2>2, ActiveFacts DEF Clicked, Pages, Kinds
    <3>2. key \in Keys \cup {NoKey}
      BY <1>1, <3>1, Stamps DEF Pages, Forms, Kinds
    <3>3. WithDraftKey(tab[t]) = [tab[t] EXCEPT !.form[k].key = key]
      BY DEF WithDraftKey
    <3>. HIDE DEF k, key
    <3>4. PICK q : q = tab[t]
      OBVIOUS
    <3>5. [q EXCEPT !.form[k].key = key] \in Pages /\ Like([q EXCEPT !.form[k].key = key], q)
      BY <1>1, <3>1, <3>2, <3>4, KeyFacts DEF Like
    <3>. QED BY <2>2, <3>3, <3>4, <3>5
  <2>. QED BY <2>1, <2>2
<1>3. /\ tab' = [tab EXCEPT ![t] = p]
      /\ wait[t] = NoWorker /\ wait' = [wait EXCEPT ![t] = w]
      /\ handler[w].stage = "free"
      /\ handler' = [handler EXCEPT ![w] =
           [stage |-> stage, tab |-> t, page |-> p, msg |-> msg, arg |-> arg,
            order |-> order, draft |-> draft, recVer |-> version]]
      /\ IF stage = "saving" THEN Receive(w, SaveRequest(p)) ELSE UNCHANGED storeVars
      /\ UNCHANGED <<stamp, faults, kept>>
  BY DEF Send
<1>4. stage \in {"reply", "saving", "acting"}
  OBVIOUS
<1>5. msg \in Saves => p.view = "details" \/ p.sel # Nothing
  BY <1>2 DEF Clicked, Like
<1>. HIDE DEF p
<1>6. saves => p.view = "details" \/ p.sel # Nothing
  BY <1>2, <1>5, ActiveFacts DEF GatePasses
<1>7. stage = "saving" => saves /\ ~ SaveDeclined(p, draft)
  OBVIOUS
<1>8. saves /\ ~ SaveDeclined(p, draft) /\ p.view # "details" => p.sel # Nothing /\ p.sel \in Live
  <2>1. p.view \in {"findings", "details"}
    BY <1>2 DEF Pages
  <2>. QED BY <1>2, <1>6, <2>1, ActiveFacts DEF SaveDeclined, SelectionGone
<1>9. stage = "saving" => msg \in Saves \cup Gated
  BY <1>7
<1>10. stage = "acting" => /\ msg \in Gated \cup {"reopen", "discard"}
                           /\ msg \in Gated /\ draft => \A k \in Active(p) : p.form[k].stat = "saved"
  BY DEF Clicked, Messages, GatePasses
<1>. HIDE DEF stage, saves
<1>. QED BY <1>2, <1>3, <1>4, <1>6, <1>7, <1>8, <1>9, <1>10 DEF SendsAs

\* The save a page sends.
LEMMA SaveRequestShape ==
  ASSUME NEW p \in Pages
  PROVE  /\ p.view = "details" =>
              SaveRequest(p) = Request("save_assessment", Details, Details, p.form.details.key,
                                       p.form.details.pay, <<>>, p.ver)
         /\ p.view = "findings" /\ p.sel # Nothing =>
              SaveRequest(p) = Request("save_finding", p.sel, Details, p.form.finding.key,
                                       p.form.finding.pay, <<>>, p.ver)
BY ActiveFacts DEF SaveRequest, SaveRequestAt, UnitOf

LEMMA SaveAsks ==
  ASSUME OrderInv, NEW w \in Workers, NEW p \in Pages, p.ver <= version,
         p.view = "details" \/ (p.sel # Nothing /\ p.sel \in Live), Receive(w, SaveRequest(p))
  PROVE  Asks(w)
<1>1. /\ p.ver \in 0..version /\ Live \subseteq born
      /\ p.view \in {"findings", "details"}
  BY DEF OrderInv, IInv, TypeOK, Pages
<1>2. /\ p.form.details.key \in Keys \cup {NoKey} /\ p.form.finding.key \in Keys \cup {NoKey}
      /\ p.form.details.pay \in Payloads /\ p.form.finding.pay \in Payloads
  BY Stamps DEF Pages, Forms
<1>3. CASE p.view = "details"
  BY <1>1, <1>2, <1>3, SaveRequestShape DEF Asks
<1>4. CASE p.view = "findings"
  BY <1>1, <1>2, <1>4, SaveRequestShape DEF Asks
<1>. QED BY <1>1, <1>3, <1>4

\* An operation starts, as the store allows, or its finding is gone.
LEMMA ActShape ==
  ASSUME WInv, NEW w \in Workers, ActOnServer(w)
  PROVE  LET h == handler[w] IN
         /\ h.stage = "acting"
         /\ h.msg \in Changes \cup {"reopen"}
         /\ UNCHANGED <<tab, wait, stamp, faults, kept>>
         /\ \/ handler' = [handler EXCEPT ![w].stage = "failed"] /\ UNCHANGED storeVars
            \/ \E c : \E arg \in Findings \cup {Nothing} :
                 /\ Receive(w, c)
                 /\ Asks(w)
                 /\ handler' = [handler EXCEPT ![w].stage = "calling", ![w].arg = arg]
                 /\ c.phase = "waiting" /\ c.op = h.msg /\ c.key \in Keys \cup {NoKey}
                 /\ h.msg = "reorder" => c.expected = h.page.ver
                 /\ h.msg # "reorder" => c.key = NoKey
                 /\ h.msg = "delete" => c.expected >= h.page.ver
<1>. PICK h \in Handlers : h = handler[w]
  BY DEF WInv, WTypeOK
<1>0. /\ version \in Nat /\ h.arg \in Findings \cup {Nothing} /\ h.page \in Pages
      /\ h.page.ver \in Nat /\ h.page.ver <= version /\ h.recVer \in 0..version
      /\ h.page.ver \in 0..version
      /\ Live \subseteq born /\ Live \subseteq Findings
  BY DEF WInv, OrderInv, IInv, TypeOK, WTypeOK, Handlers, Pages, Sound, Staged, Live
<1>. DEFINE start(c) == /\ Receive(w, c)
                       /\ handler' = [handler EXCEPT ![w].stage = "calling",
                                                     ![w].arg = IF c.op \in Creating
                                                                THEN c.target ELSE @]
            Goal(c, arg) == /\ Receive(w, c)
                            /\ Asks(w)
                            /\ handler' = [handler EXCEPT ![w].stage = "calling", ![w].arg = arg]
                            /\ c.phase = "waiting" /\ c.op = h.msg /\ c.key \in Keys \cup {NoKey}
                            /\ h.msg = "reorder" => c.expected = h.page.ver
                            /\ h.msg # "reorder" => c.key = NoKey
                            /\ h.msg = "delete" => c.expected >= h.page.ver
            Started == \E c : \E arg \in Findings \cup {Nothing} : Goal(c, arg)
            Failed == handler' = [handler EXCEPT ![w].stage = "failed"] /\ UNCHANGED storeVars
<1>1. /\ h.stage = "acting" /\ h.msg \in Changes \cup {"reopen"}
      /\ UNCHANGED <<tab, wait, stamp, faults, kept>>
  BY DEF ActOnServer, Changes
<1>3. \/ /\ h.msg = "create"
         /\ \E f \in Findings \ born :
              start(Request("create", f, Details, NoKey, Blank, <<>>, h.recVer))
      \/ /\ h.msg = "duplicate"
         /\ h.arg \in Live
         /\ \E f \in Findings \ born :
              start(Request("duplicate", f, h.arg, NoKey, Blank, <<>>, version))
      \/ /\ h.msg = "delete"
         /\ h.arg \in Live
         /\ start(Request("delete", h.arg, Details, NoKey, Blank, <<>>, version))
      \/ /\ h.msg = "reorder"
         /\ start(Request("reorder", Details, Details, h.page.orderKey, Blank, h.order,
                          h.page.ver))
      \/ /\ h.msg \in {"complete", "reopen"}
         /\ start(Request(h.msg, Details, Details, NoKey, Blank, <<>>, 0))
      \/ Failed
  BY DEF ActOnServer
<1>10. \A c : start(c) => Receive(w, c)
  OBVIOUS
<1>. HIDE DEF Goal, start, Failed
<1>. SUFFICES Started \/ Failed
  BY <1>1 DEF Started, Goal, Failed
<1>. HIDE DEF Started
<1>2. ASSUME NEW op, NEW target, NEW source, NEW key, NEW pay, NEW order, NEW expected,
             start(Request(op, target, source, key, pay, order, expected)),
             Asks(w), op = h.msg, key \in Keys \cup {NoKey},
             op \in Creating => target \in Findings,
             op = "reorder" => expected = h.page.ver,
             op # "reorder" => key = NoKey,
             op = "delete" => expected >= h.page.ver
      PROVE  Started
  <2>. DEFINE c == Request(op, target, source, key, pay, order, expected)
              arg == IF op \in Creating THEN target ELSE h.arg
  <2>1. /\ c.op = op /\ c.target = target /\ c.key = key /\ c.expected = expected
        /\ c.phase = "waiting"
    BY DEF Request, IdleCall
  <2>2. start(c)
    BY <1>2
  <2>. HIDE DEF c
  <2>3. handler' = [handler EXCEPT ![w].stage = "calling", ![w].arg = arg] /\ Receive(w, c)
    BY <2>1, <2>2 DEF start
  <2>4. arg \in Findings \cup {Nothing}
    BY <1>0, <1>2
  <2>. HIDE DEF arg
  <2>5. Goal(c, arg)
    BY <1>2, <2>1, <2>3 DEF Goal
  <2>. QED BY <2>4, <2>5 DEF Started
<1>4. CASE /\ h.msg = "create"
           /\ \E f \in Findings \ born :
                start(Request("create", f, Details, NoKey, Blank, <<>>, h.recVer))
  <2>1. PICK f \in Findings \ born :
          start(Request("create", f, Details, NoKey, Blank, <<>>, h.recVer))
    BY <1>4
  <2>2. Asks(w)
    BY <1>0, <1>10, <2>1 DEF Asks
  <2>. QED BY <1>2, <1>4, <2>1, <2>2
<1>5. CASE /\ h.msg = "duplicate"
           /\ h.arg \in Live
           /\ \E f \in Findings \ born :
                start(Request("duplicate", f, h.arg, NoKey, Blank, <<>>, version))
  <2>1. PICK f \in Findings \ born :
          start(Request("duplicate", f, h.arg, NoKey, Blank, <<>>, version))
    BY <1>5
  <2>2. Asks(w)
    BY <1>0, <1>5, <1>10, <2>1 DEF Asks
  <2>. QED BY <1>2, <1>5, <2>1, <2>2
<1>6. CASE /\ h.msg = "delete"
           /\ h.arg \in Live
           /\ start(Request("delete", h.arg, Details, NoKey, Blank, <<>>, version))
  <2>1. Asks(w)
    BY <1>0, <1>6, <1>10 DEF Asks
  <2>2. "delete" \notin Creating
    BY DEF Creating
  <2>. QED BY <1>0, <1>2, <1>6, <2>1, <2>2
<1>7. CASE /\ h.msg = "reorder"
           /\ start(Request("reorder", Details, Details, h.page.orderKey, Blank, h.order,
                            h.page.ver))
  <2>1. h.order \in Orders /\ h.page.orderKey \in Keys
    BY <1>1, <1>7 DEF WInv, Staged
  <2>2. Asks(w)
    BY <1>0, <1>7, <1>10, <2>1 DEF Asks
  <2>3. "reorder" \notin Creating
    BY DEF Creating
  <2>. QED BY <1>0, <1>2, <1>7, <2>1, <2>2, <2>3
<1>8. CASE /\ h.msg \in {"complete", "reopen"}
           /\ start(Request(h.msg, Details, Details, NoKey, Blank, <<>>, 0))
  <2>1. Asks(w)
    BY <1>0, <1>8, <1>10 DEF Asks, Lifecycle
  <2>2. h.msg \notin Creating /\ h.msg # "delete" /\ h.msg # "reorder"
    BY <1>8 DEF Creating
  <2>. QED BY <1>0, <1>2, <1>8, <2>1, <2>2
<1>. QED BY <1>3, <1>4, <1>5, <1>6, <1>7, <1>8

\* Every step of the pages is a step the store allows.
LEMMA Serving ==
  ASSUME WInv, [WNext]_vars
  PROVE  [Serves]_storeVars
<1>1. ASSUME NEW w \in Workers, Decides(w) PROVE Serves
  BY <1>1 DEF Decides, Serves, Proceeds
<1>2. ASSUME NEW w \in Workers, Commits(w) PROVE Serves
  BY <1>2 DEF Commits, Serves, Proceeds
<1>3. ASSUME NEW w \in Workers, AfterSave(w) \/ AfterCall(w) PROVE Serves
  BY <1>3 DEF AfterSave, AfterCall, Serves, Proceeds
<1>4. ASSUME NEW w \in Workers, ActLocally(w) \/ Reply(w) PROVE UNCHANGED storeVars
  BY <1>4 DEF ActLocally, Reply
<1>5. ASSUME NEW w \in Workers, ActOnServer(w) PROVE Serves \/ UNCHANGED storeVars
  BY <1>5, ActShape DEF Serves
<1>6. ASSUME NEW w \in Workers, Die(w) PROVE Serves \/ UNCHANGED storeVars
  BY <1>6 DEF Die, Serves
<1>7. ASSUME NEW t \in Tabs, NEW w \in Workers, Clicks(t, w) PROVE Serves \/ UNCHANGED storeVars
  <2>1. TypeOK /\ WTypeOK /\ OrderInv /\ Sound(tab[t]) /\ tab[t] \in Pages
    BY DEF WInv, OrderInv, IInv, WTypeOK
  <2>2. PICK msg, arg, order : Send(t, w, msg, arg, order) /\ Clicked(tab[t], msg, arg, order)
    BY <1>7, <2>1, ClickShape
  <2>3. PICK p, stage : SendsAs(t, w, msg, arg, order, p, stage)
    BY <2>1, <2>2, SendShape
  <2>4. p.ver <= version
    BY <2>1, <2>3 DEF Like, Sound, SendsAs
  <2>. QED BY <2>1, <2>3, <2>4, SaveAsks DEF Serves, SendsAs
<1>8. ASSUME NEW t \in Tabs, PrepareOrderKey(t) \/ GiveUp(t) \/ Reload(t) PROVE UNCHANGED storeVars
  BY <1>8 DEF PrepareOrderKey, GiveUp, Reload
<1>9. ASSUME NEW t \in Tabs, NEW k \in Kinds, Edit(t, k) PROVE UNCHANGED storeVars
  BY <1>9 DEF Edit
<1>10. ASSUME LockRunsOut \/ EditFormSaved PROVE Serves
  BY <1>10 DEF LockRunsOut, EditFormSaved, Serves
<1>11. ASSUME UNCHANGED vars PROVE UNCHANGED storeVars
  BY <1>11 DEF vars
<1>. QED
  BY <1>1, <1>2, <1>3, <1>4, <1>5, <1>6, <1>7, <1>8, <1>9, <1>10, <1>11 DEF WNext, Handles

-----------------------------------------------------------------------------
(* What nobody's step takes away *)

\* Orders that could be sent can be sent.
LEMMA OrdersGrow ==
  ASSUME TypeOK, [Serves]_storeVars
  PROVE  Orders \subseteq Orders'
<1>1. born \subseteq born' /\ born' \in SUBSET Findings /\ IsFiniteSet(born')
  BY BornGrows, NextType, SomeFinite DEF TypeOK
<1>2. Cardinality(born) \in Nat /\ Cardinality(born') \in Nat /\ Cardinality(born) <= Cardinality(born')
  BY <1>1, FS_Subset, FS_CardinalityType
<1>3. ASSUME NEW n \in 1..Cardinality(born), NEW o \in [1..n -> born]
      PROVE  n \in 1..Cardinality(born') /\ o \in [1..n -> born']
  BY <1>1, <1>2
<1>. QED BY <1>3 DEF Orders

\* The edits committed stay committed.
LEMMA KeptGrows ==
  ASSUME [WNext]_vars
  PROVE  kept \subseteq kept'
<1>1. ASSUME NEW w \in Workers, Handles(w) PROVE kept \subseteq kept'
  BY <1>1 DEF Handles, Decides, Commits, AfterSave, ActLocally, ActOnServer, AfterCall, Reply
<1>2. ASSUME NEW t \in Tabs, NEW w \in Workers, Clicks(t, w) PROVE kept' = kept
  <2>1. PICK msg, arg, order : Send(t, w, msg, arg, order)
    BY <1>2 DEF Clicks
  <2>. QED BY <2>1 DEF Send
<1>. QED
  BY <1>1, <1>2 DEF WNext, Die, Edit, PrepareOrderKey, GiveUp, Reload, LockRunsOut,
                    EditFormSaved, vars, pageVars

\* A sound page stays sound while nobody touches it.
LEMMA SoundStays ==
  ASSUME OrderInv, [Serves]_storeVars, NEW p \in Pages, Sound(p)
  PROVE  Sound(p)'
<1>1. p.ver \in Nat /\ version \in Nat /\ version' \in Nat /\ version <= version'
  BY VersionRises DEF OrderInv, IInv, TypeOK, Pages
<1>2. HoldsFrom(p, p.ver)'
  BY <1>1, HoldsStays DEF Sound
<1>. QED BY <1>1, <1>2 DEF Sound

\* So does what is known of a worker.
LEMMA StagedStays ==
  ASSUME WInv, [WNext]_vars, NEW h \in Handlers, NEW c \in Calls, Staged(h, c)
  PROVE  Staged(h, c)'
<1>1. Orders \subseteq Orders' /\ h.recVer \in Nat /\ version <= version' /\ version \in Nat /\ version' \in Nat
  BY Serving, OrdersGrow, VersionRises DEF WInv, OrderInv, IInv, TypeOK, Handlers
<1>. QED BY <1>1 DEF Staged

LEMMA SaveFitsStays ==
  ASSUME WInv, [WNext]_vars, NEW h \in Handlers, NEW c \in Calls, SaveFits(h, c)
  PROVE  SaveFits(h, c)'
<1>1. /\ kept \subseteq kept' /\ c.result \in Nat /\ h.page \in Pages
      /\ version <= version' /\ version \in Nat /\ version' \in Nat
  BY Serving, KeptGrows, VersionRises DEF WInv, OrderInv, IInv, TypeOK, Calls, Handlers
<1>2. c.result \in 1..version /\ HoldsFrom(h.page, c.result) => HoldsFrom(h.page, c.result)'
  BY <1>1, Serving, HoldsStays DEF WInv
<1>3. c.result \in 1..version /\ Neutral(c.result) => Neutral(c.result)'
  BY <1>1, Serving, NeutralStays DEF WInv
<1>4. c.result \in 1..version => c.result \in 1..version'
  BY <1>1
<1>. QED BY <1>1, <1>2, <1>3, <1>4 DEF SaveFits, Good

LEMMA CallFitsStays ==
  ASSUME WInv, [WNext]_vars, NEW h \in Handlers, NEW c \in Calls, CallFits(h, c)
  PROVE  CallFits(h, c)'
<1>1. /\ c.result \in Nat /\ h.page \in Pages
      /\ version <= version' /\ version \in Nat /\ version' \in Nat
  BY Serving, VersionRises DEF WInv, OrderInv, IInv, TypeOK, Calls, Handlers
<1>2. c.result \in 1..version /\ HoldsFrom(h.page, c.result) => HoldsFrom(h.page, c.result)'
  BY <1>1, Serving, HoldsStays DEF WInv
<1>3. c.result \in 1..version /\ Neutral(c.result) => Neutral(c.result)'
  BY <1>1, Serving, NeutralStays DEF WInv
<1>4. c.result \in 1..version => c.result \in 1..version'
  BY <1>1
<1>. QED BY <1>1, <1>2, <1>3, <1>4 DEF CallFits, Good

-----------------------------------------------------------------------------
(* How a worker's own call moves *)

\* d is c, with its plan made or not.
SameCall(c, d) ==
  /\ Going(d)
  /\ d.op = c.op /\ d.target = c.target /\ d.key = c.key /\ d.expected = c.expected
  /\ c.op # "duplicate" => d.pay = c.pay

\* d is what is left of c when the journal answered it.
Answered(c, d) ==
  /\ Ended(d) /\ d.outcome = "replayed"
  /\ c.key \in Keys /\ journal[c.key].applied > 0 /\ d.result = journal[c.key].applied
  /\ journal[c.key].op = c.op /\ journal[c.key].pay = c.pay

\* d is what is left of c when it came to nothing.
Refused(c, d) ==
  /\ Ended(d)
  /\ \/ d.outcome = "timeout"
     \/ d.outcome \in {"missing", "readonly", "conflict"} /\ c.op \notin Lifecycle
     \/ d.outcome = "invalid" /\ c.op \in Saving \cup Lifecycle
     \/ d.outcome = "mismatch" /\ c.key \in Keys

LEMMA DoneFields ==
  \A outcome, result : /\ Ended(Done(outcome, result))
                       /\ Done(outcome, result).outcome = outcome
                       /\ Done(outcome, result).result = result
BY DEF Done, IdleCall, Ended

LEMMA ReplayMoves ==
  ASSUME NEW c, c.key \in Keys \cup {NoKey}, Stored(c), c.op \in Lifecycle => c.key = NoKey
  PROVE  Answered(c, Replayed(c)) \/ Refused(c, Replayed(c))
<1>1. c.key \in Keys /\ c.op \notin Lifecycle
  BY DEF Stored
<1>2. CASE ~ SameRequest(c)
  BY <1>1, <1>2, DoneFields DEF Replayed, Refused
<1>3. CASE SameRequest(c) /\ Gone(c)
  BY <1>1, <1>3, DoneFields DEF Replayed, Refused
<1>4. CASE SameRequest(c) /\ ~ Gone(c)
  BY <1>1, <1>4, DoneFields DEF Replayed, Answered, SameRequest, Stored
<1>. QED BY <1>2, <1>3, <1>4

LEMMA ReceiptMoves ==
  ASSUME NEW c, c.key \in Keys \cup {NoKey}, c.op \in Lifecycle => c.key = NoKey
  PROVE  \/ BeforeLock(c) = c
         \/ Answered(c, BeforeLock(c))
         \/ Refused(c, BeforeLock(c))
<1>1. CASE Stored(c)
  BY <1>1, ReplayMoves, DoneFields DEF BeforeLock, Refused, Lifecycle
<1>2. CASE ~ Stored(c)
  BY <1>2, DoneFields DEF BeforeLock, Refused, Gone, Lifecycle
<1>. QED BY <1>1, <1>2

LEMMA TransactionMoves ==
  ASSUME NEW c \in Calls, c.op \in Lifecycle => c.key = NoKey, c.op # "none"
  PROVE  LET d == InTransaction(c) IN SameCall(c, d) \/ Answered(c, d) \/ Refused(c, d)
<1>1. CASE Stored(c)
  BY <1>1, ReplayMoves DEF InTransaction, Calls
<1>2. CASE ~ Stored(c) /\ c.op \in Lifecycle \cup {"save_assessment"}
  <2>1. InTransaction(c) = [c EXCEPT !.phase = "running"]
    BY <1>2 DEF InTransaction
  <2>. QED BY <2>1 DEF SameCall, Going, Calls
<1>3. CASE ~ Stored(c) /\ c.op \notin Lifecycle \cup {"save_assessment"}
  <2>. DEFINE pay == IF c.op = "duplicate" THEN content[c.source] ELSE c.pay
              d == [c EXCEPT !.phase = "running", !.plan = Planned(c), !.pay = pay]
  <2>1. SameCall(c, d)
    BY DEF SameCall, Going, Calls
  <2>2. \/ InTransaction(c) = d
        \/ InTransaction(c) = Done("missing", 0)
        \/ InTransaction(c) = Done("readonly", 0)
    BY <1>3 DEF InTransaction
  <2>. HIDE DEF d
  <2>. QED BY <1>3, <2>1, <2>2, DoneFields DEF Refused
<1>. QED BY <1>1, <1>2, <1>3

\* What a decision makes of a call under way.
LEMMA DecisionMoves ==
  ASSUME TypeOK, NEW w \in Workers, NEW c \in Calls, c = call[w],
         c.op # "none", c.op \in Lifecycle => c.key = NoKey, Decides(w) \/ Commits(w)
  PROVE  /\ Going(c)
         /\ \/ SameCall(c, call'[w])
            \/ Answered(c, call'[w])
            \/ Refused(c, call'[w])
            \/ /\ Ended(call'[w]) /\ call'[w].outcome = "applied"
               /\ call'[w].result = version' /\ version' = version + 1
               /\ \/ Commits(w) /\ ApplyChange(w) /\ c.expected = version
                  \/ ApplyLifecycle(w) /\ c.op \in Lifecycle
<1>0. call \in [Workers -> Calls]
  BY DEF TypeOK
<1>1. ASSUME Begin(w)
      PROVE  Going(c) /\ (SameCall(c, call'[w]) \/ Answered(c, call'[w]) \/ Refused(c, call'[w]))
  <2>1. call'[w] = InTransaction(c) /\ Going(c)
    BY <1>0, <1>1 DEF Begin, Going
  <2>. QED BY <2>1, TransactionMoves
<1>2. ASSUME LockTimeout(w) PROVE Going(c) /\ Refused(c, call'[w])
  BY <1>0, <1>2, DoneFields DEF LockTimeout, Going, Refused
<1>3. ASSUME RefuseChange(w) PROVE Going(c) /\ Refused(c, call'[w])
  BY <1>0, <1>3, DoneFields
     DEF RefuseChange, Going, Refused, Versioned, Saving, Creating, Lifecycle
<1>4. ASSUME RefuseInvalid(w) PROVE Going(c) /\ Refused(c, call'[w])
  BY <1>0, <1>4, DoneFields DEF RefuseInvalid, Going, Refused, Saving
<1>5. ASSUME RefuseLifecycle(w) PROVE Going(c) /\ Refused(c, call'[w])
  BY <1>0, <1>5, DoneFields DEF RefuseLifecycle, Going, Refused
<1>6. ASSUME ApplyLifecycle(w)
      PROVE  /\ Going(c) /\ Ended(call'[w]) /\ call'[w].outcome = "applied"
             /\ call'[w].result = version' /\ version' = version + 1
             /\ c.op \in Lifecycle
  BY <1>0, <1>6, DoneFields DEF ApplyLifecycle, Going
<1>7. ASSUME ApplyChange(w)
      PROVE  /\ Going(c) /\ Ended(call'[w]) /\ call'[w].outcome = "applied"
             /\ call'[w].result = version' /\ version' = version + 1 /\ c.expected = version
  BY <1>0, <1>7, DoneFields DEF ApplyChange, Matches, Going
<1>8. Commits(w) => ApplyChange(w)
  BY DEF Commits
<1>9. Decides(w) => \/ Begin(w) \/ LockTimeout(w) \/ RefuseChange(w) \/ RefuseInvalid(w)
                    \/ ApplyLifecycle(w) \/ RefuseLifecycle(w)
  BY DEF Decides
<1>. QED BY <1>1, <1>2, <1>3, <1>4, <1>5, <1>6, <1>7, <1>8, <1>9

\* An operation that changes no finding, or deletes one, leaves what the page of
\* the current version was filled with in the database.
LEMMA Survives ==
  ASSUME OrderInv, [Serves]_storeVars, NEW w \in Workers, ApplyChange(w),
         call[w].op \in {"save_assessment", "reorder", "delete"},
         NEW p, p.ver = version, HoldsFrom(p, p.ver), NEW n, n = version + 1
  PROVE  HoldsFrom(p, n)'
<1>1. version \in Nat /\ TypeOK
  BY DEF OrderInv, IInv, TypeOK
<1>2. p.sel \in Live /\ ~ p.form.finding.adopted => p.form.finding.base = content[p.sel]
  BY <1>1 DEF HoldsFrom
<1>3. Live' \subseteq Live
  <2>1. \A x \in Workers : ApplyChange(x) => x = w
    BY <1>1, DoneIsNothing DEF ApplyChange, TypeOK
  <2>2. Placed(sort') = Live' /\ Placed(sort) = Live
    BY DEF Placed, Live
  <2>. QED BY <2>1, <2>2, SortMoves DEF Creating
<1>4. \A f \in Findings : content'[f] = content[f]
  <2>1. call[w].op = "save_assessment" => call[w].target = Details
    BY DEF OrderInv, Shaped
  <2>. QED BY <1>1, <2>1, StoreAssumption DEF ApplyChange, Saving, Creating, TypeOK
<1>5. Live' \subseteq Findings
  BY DEF Live
<1>. QED BY <1>2, <1>3, <1>4, <1>5 DEF HoldsFrom

\* A decision leaves the worker where it is, with what its call came to.
LEMMA DecisionFits ==
  ASSUME WInv, [WNext]_vars, NEW w \in Workers, NEW h \in Handlers, h = handler[w],
         NEW d \in Calls, d = call'[w], Decides(w) \/ Commits(w)
  PROVE  (Staged(h, d) /\ SaveFits(h, d) /\ CallFits(h, d))'
<1>. PICK c \in Calls : c = call[w]
  BY DEF WInv, OrderInv, IInv, TypeOK
<1>0. /\ OrderInv /\ TypeOK /\ version \in Nat /\ h.page \in Pages /\ h.page.ver \in Nat
      /\ h.page.view \in {"findings", "details"}
      /\ Sound(h.page) /\ Staged(h, c) /\ SaveFits(h, c) /\ CallFits(h, c)
      /\ [Serves]_storeVars /\ kept \subseteq kept'
      /\ version' \in Nat /\ version <= version'
  BY Serving, KeptGrows, VersionRises DEF WInv, OrderInv, IInv, TypeOK, Handlers, Pages
<1>1. h.stage \in {"saving", "calling"} /\ Going(c)
  <2>1. Going(c)
    BY DEF Decides, Commits, Begin, LockTimeout, RefuseChange, RefuseInvalid, ApplyLifecycle,
           RefuseLifecycle, ApplyChange, Going
  <2>. QED BY <1>0, <2>1 DEF Going, Staged
<1>2. h.stage = "saving" => c.op \in Saving
  BY <1>0, <1>1 DEF SaveFits, Saving
<1>3. h.stage = "calling" => /\ c.op = h.msg /\ c.op \in Changes \cup {"reopen"}
                             /\ c.op # "reorder" => c.key = NoKey
  BY <1>0, <1>1 DEF CallFits
<1>4. c.op # "none" /\ (c.op \in Lifecycle => c.key = NoKey)
  BY <1>1, <1>2, <1>3 DEF Saving, Changes, Lifecycle
<1>5. \/ SameCall(c, d)
      \/ Answered(c, d)
      \/ Refused(c, d)
      \/ /\ Ended(d) /\ d.outcome = "applied"
         /\ d.result = version' /\ version' = version + 1
         /\ \/ Commits(w) /\ ApplyChange(w) /\ c.expected = version
            \/ ApplyLifecycle(w) /\ c.op \in Lifecycle
  BY <1>0, <1>4, DecisionMoves
<1>6. Staged(h, d)'
  <2>1. d.phase # "idle" /\ c.phase # "idle"
    BY <1>1, <1>5 DEF Going, Ended, SameCall, Answered, Refused
  <2>2. Staged(h, d)
    BY <1>0, <2>1 DEF Staged
  <2>. QED BY <2>2, StagedStays
<1>7. CASE SameCall(c, d)
  <2>1. SaveFits(h, d)
    BY <1>0, <1>1, <1>7 DEF SameCall, SaveFits, Going, Ended
  <2>2. CallFits(h, d)
    BY <1>0, <1>1, <1>7 DEF SameCall, CallFits, Going, Ended
  <2>. QED BY <1>6, <2>1, <2>2, SaveFitsStays, CallFitsStays
<1>8. CASE Answered(c, d)
  <2>1. d.result \in 1..version /\ journal[c.key].pay \in kept
    BY <1>0, <1>8, RowsArePast DEF Answered, WInv, JournalIsKept
  <2>2. c.op \in {"save_assessment", "reorder"} => Neutral(d.result)
    BY <1>8 DEF Answered, Neutral
  <2>3. ~ Going(d) /\ d.outcome = "replayed" /\ Ended(d)
    BY <1>8 DEF Answered, Ended, Going
  <2>4. SaveFits(h, d)
    BY <1>0, <1>1, <1>8, <2>1, <2>2, <2>3 DEF SaveFits, Answered
  <2>5. CallFits(h, d)
    <3>1. h.stage = "calling" => h.msg = "reorder"
      BY <1>3, <1>8, StoreAssumption DEF Answered
    <3>. QED BY <1>0, <1>1, <1>3, <2>1, <2>2, <2>3, <3>1 DEF CallFits, Answerable
  <2>. QED BY <1>6, <2>4, <2>5, SaveFitsStays, CallFitsStays
<1>9. CASE Refused(c, d)
  <2>1. ~ Going(d) /\ Ended(d) /\ ~ Good(d) /\ d.outcome # "replayed" /\ d.outcome # "applied"
    BY <1>9 DEF Refused, Going, Ended, Good
  <2>2. SaveFits(h, d)
    BY <1>0, <2>1 DEF SaveFits
  <2>3. h.stage = "calling" => d.outcome \in Answerable(h.msg)
    BY <1>3, <1>9, StoreAssumption DEF Refused, Answerable, Saving, Lifecycle, Changes
  <2>4. CallFits(h, d)
    BY <1>0, <2>1, <2>3 DEF CallFits
  <2>. QED BY <1>6, <2>2, <2>4, SaveFitsStays, CallFitsStays
<1>10. CASE /\ Ended(d) /\ d.outcome = "applied"
            /\ d.result = version' /\ version' = version + 1
            /\ \/ Commits(w) /\ ApplyChange(w) /\ c.expected = version
               \/ ApplyLifecycle(w) /\ c.op \in Lifecycle
  <2>. PICK n : n = version + 1
    OBVIOUS
  <2>1. ~ Going(d) /\ Ended(d) /\ d.result = n /\ n \in 1..version' /\ n > h.page.ver
    BY <1>0, <1>10 DEF Going, Ended, Sound
  <2>2. c.op \in {"save_assessment", "reorder", "delete"} /\ h.page.ver = version => HoldsFrom(h.page, n)'
    <3>1. c.op \notin Lifecycle => ApplyChange(w)
      BY <1>10
    <3>. QED BY <1>0, <3>1, Survives DEF Lifecycle, Sound
  <2>3. SaveFits(h, d)'
    <3>. SUFFICES ASSUME h.stage = "saving" PROVE SaveFits(h, d)'
      BY DEF SaveFits
    <3>1. /\ h.msg \in Saves \cup Gated
          /\ h.page.view = "details" \/ h.page.sel # Nothing
          /\ c.expected = h.page.ver
          /\ h.page.view = "details" => c.op = "save_assessment"
          /\ h.page.view = "findings" => c.op = "save_finding" /\ c.pay = h.page.form.finding.pay
      BY <1>0, <1>1 DEF SaveFits
    <3>2. Commits(w) /\ c.expected = version
      BY <1>2, <1>10 DEF Lifecycle, Saving
    <3>3. c.pay \in kept'
      BY <3>2 DEF Commits
    <3>. QED BY <1>10, <2>1, <2>2, <3>1, <3>2, <3>3 DEF SaveFits
  <2>4. CallFits(h, d)'
    <3>. SUFFICES ASSUME h.stage = "calling" PROVE CallFits(h, d)'
      BY DEF CallFits
    <3>1. h.msg \in {"reorder", "delete"} =>
            /\ c.expected = version
            /\ h.msg = "reorder" => h.page.ver = version
      BY <1>0, <1>1, <1>3, <1>10 DEF Lifecycle, CallFits
    <3>2. h.msg \in {"reorder", "delete"} /\ n = h.page.ver + 1 => HoldsFrom(h.page, n)'
      BY <1>0, <1>3, <2>2
    <3>. QED BY <1>3, <1>10, <2>1, <3>2 DEF CallFits, Answerable
  <2>. QED BY <1>6, <2>3, <2>4
<1>. QED BY <1>5, <1>7, <1>8, <1>9, <1>10

-----------------------------------------------------------------------------
(* How a worker goes on *)

\* What WInv says of one worker.
Fine(h, c) == Sound(h.page) /\ Staged(h, c) /\ SaveFits(h, c) /\ CallFits(h, c)

LEMMA FineStays ==
  ASSUME WInv, [WNext]_vars, NEW h \in Handlers, NEW c \in Calls, Fine(h, c)
  PROVE  Fine(h, c)'
<1>1. Sound(h.page)'
  BY Serving, SoundStays DEF Fine, WInv, Handlers
<1>. QED BY <1>1, StagedStays, SaveFitsStays, CallFitsStays DEF Fine

\* What the screen of the tab stands to lose if page q replaces the handler's page.
Follows(h, q) ==
  \/ /\ q.form.finding.pay = h.page.form.finding.pay
     /\ q.form.finding.base = h.page.form.finding.base
  \/ h.page.form.finding.pay = h.page.form.finding.base
  \/ h.page.form.finding.pay \in kept
  \/ h.msg = "discard"
  \/ ~ h.draft

\* The finding after a finding is a finding: the numbers leave no gap.
LEMMA NextIsFinding ==
  ASSUME OrderInv, NEW f \in Findings
  PROVE  NextAfter(f) \in Findings
<1>. DEFINE after == {g \in Live : sort[g] > sort[f]}
<1>1. /\ sort \in [Findings -> Nat] /\ Numbered(sort) /\ Live = Placed(sort)
      /\ Cardinality(Live) \in Nat
  BY SomeFinite, FS_Subset, FS_CardinalityType, StoreAssumption
     DEF OrderInv, IInv, TypeOK, Placed, Live
<1>2. CASE after = {}
  BY <1>2 DEF NextAfter
<1>3. CASE after # {}
  <2>1. PICK g \in Live : sort[g] > sort[f]
    BY <1>3
  <2>2. sort[g] <= Cardinality(Live) /\ sort[f] \in Nat /\ sort[g] \in Nat
    BY <1>1, <2>1 DEF Numbered, Live
  <2>3. sort[f] + 1 \in 1..Cardinality(Live)
    BY <1>1, <2>1, <2>2
  <2>4. PICK m \in Live : sort[m] = sort[f] + 1
    BY <1>1, <2>3, NumbersTaken
  <2>5. m \in after /\ \A x \in after : sort[m] <= sort[x]
    BY <1>1, <2>2, <2>4 DEF Live
  <2>6. (CHOOSE x \in after : \A y \in after : sort[x] <= sort[y]) \in after
    BY <2>5
  <2>. QED BY <1>3, <2>6 DEF NextAfter, Live
<1>. QED BY <1>2, <1>3

\* A page that takes over the version of its own operation, which changed no
\* finding, or deleted one, or was repeated, shows what that version held.
LEMMA ReachingHolds ==
  ASSUME OrderInv, NEW p \in Pages, Sound(p), NEW n \in 1..version,
         Neutral(n) \/ (n > p.ver + 1) \/ HoldsFrom(p, n),
         NEW q, q.sel = p.sel, q.form.finding.base = p.form.finding.base,
         q.form.finding.adopted <=> p.form.finding.adopted \/ n > p.ver + 1
  PROVE  HoldsFrom(q, n)
<1>1. version \in Nat /\ p.ver \in Nat
  BY DEF OrderInv, IInv, TypeOK, Pages
<1>. SUFFICES ASSUME p.sel \in Live, ~ p.form.finding.adopted, n <= p.ver + 1,
                     \A m \in (n + 1)..version : Neutral(m)
              PROVE  p.form.finding.base = content[p.sel]
  BY <1>1 DEF HoldsFrom
<1>2. CASE Neutral(n)
  <2>1. \A m \in (p.ver + 1)..version : m = n \/ m \in (n + 1)..version
    BY <1>1
  <2>. QED BY <1>2, <2>1 DEF Sound, HoldsFrom
<1>3. CASE HoldsFrom(p, n)
  BY <1>3 DEF HoldsFrom
<1>. QED BY <1>1, <1>2, <1>3

\* A save of worker w, with request h, makes page q, stage s and record version r.
SavedTo(w, h, q, s, r) ==
  /\ q \in Pages /\ s \in {"acting", "reply"} /\ r \in 0..version
  /\ handler' = [handler EXCEPT ![w].page = q, ![w].stage = s, ![w].recVer = r]
  /\ Finish(w) /\ UNCHANGED <<tab, wait, stamp, faults, kept>>
  /\ Sound(q) /\ Follows(h, q)
  /\ h.stage = "saving" /\ h.msg \in Saves \cup Gated
  /\ q.orderKey = h.page.orderKey
  /\ s = "acting" =>
       /\ h.msg \notin Saves /\ q.ver <= r
       /\ h.page.view = "findings" => q.form.finding.pay = q.form.finding.base

\* What a save makes of the page: the version it reached, or a mark.
LEMMA SavedPage ==
  ASSUME WInv, NEW w \in Workers, NEW h \in Handlers, h = handler[w], AfterSave(w)
  PROVE  \E q, s, r : SavedTo(w, h, q, s, r)
<1>. PICK c \in Calls : c = call[w]
  BY DEF WInv, OrderInv, IInv, TypeOK
<1>. DEFINE p == h.page
            k == ActiveKind(p)
            n == c.result
            seen == Reaching(p, n)
            reload == IF h.msg = "save_next" THEN NextAfter(seen.sel) ELSE seen.sel
            loaded == [WithLoaded(seen, reload) EXCEPT !.form.finding.key = NoKey]
            details == [seen EXCEPT !.form.details = Filled(@.pay)]
            page ==
              CASE Succeeded(w) /\ k = "details" -> details
                [] Succeeded(w) /\ k = "finding" /\ ~ SelectionGone(seen) -> loaded
                [] Succeeded(w) /\ k = "finding" /\ SelectionGone(seen) ->
                     WithStat(seen, "finding", "error")
                [] c.outcome = "conflict" -> WithStat(p, k, "conflict")
                [] OTHER -> WithStat(p, k, "error")
            stage == IF page.form[k].stat = "saved" /\ h.msg \notin Saves THEN "acting" ELSE "reply"
            rec == IF Succeeded(w) THEN n ELSE h.recVer
            Goal(q, s, r) ==
              /\ q \in Pages /\ s \in {"acting", "reply"} /\ r \in 0..version
              /\ Sound(q) /\ Follows(h, q)
              /\ q.orderKey = h.page.orderKey
              /\ s = "acting" =>
                   /\ h.msg \notin Saves /\ q.ver <= r
                   /\ h.page.view = "findings" => q.form.finding.pay = q.form.finding.base
<1>0. /\ OrderInv /\ TypeOK /\ version \in Nat /\ p \in Pages /\ p.ver \in Nat
      /\ p.view \in {"findings", "details"} /\ n \in Nat /\ h.recVer \in Nat
      /\ h.recVer <= version
      /\ Sound(p) /\ Staged(h, c) /\ SaveFits(h, c)
  BY DEF WInv, OrderInv, IInv, TypeOK, Handlers, Pages, Calls, Staged
<1>1. h.stage = "saving" /\ c.phase = "done" /\ Finish(w) /\ UNCHANGED <<tab, wait, stamp, faults, kept>>
  BY DEF AfterSave, Finish
<1>2. /\ handler' = [handler EXCEPT ![w].page = page, ![w].stage = stage, ![w].recVer = rec]
  BY DEF AfterSave
<1>3. /\ h.msg \in Saves \cup Gated
      /\ p.view = "details" \/ p.sel # Nothing
      /\ Good(c) => n \in 1..version
      /\ Good(c) /\ p.view = "findings" => p.form.finding.pay \in kept
      /\ c.outcome = "replayed" /\ p.view = "details" => Neutral(n)
      /\ c.outcome = "applied" /\ p.view = "details" => HoldsFrom(p, n)
  BY <1>0, <1>1 DEF SaveFits, Ended, Good
<1>4. /\ k \in Kinds
      /\ p.view = "details" <=> k = "details"
      /\ p.view = "findings" <=> k = "finding"
      /\ k = "finding" => p.sel # Nothing
  BY <1>0, <1>3, ActiveFacts DEF Kinds
<1>5. Succeeded(w) <=> Good(c)
  BY DEF Succeeded, Good
<1>6. /\ seen \in Pages
      /\ seen.ver = n /\ seen.sel = p.sel /\ seen.orderKey = p.orderKey
      /\ seen.form.finding.stat = p.form.finding.stat
      /\ seen.form.finding.base = p.form.finding.base
      /\ seen.form.finding.pay = p.form.finding.pay
      /\ seen.form.finding.adopted <=> p.form.finding.adopted \/ n > p.ver + 1
  BY <1>0, ReachingFacts
<1>. HIDE DEF seen, k, page, details, loaded, reload
<1>. SUFFICES Goal(page, stage, rec)
  BY <1>1, <1>2, <1>3 DEF SavedTo
<1>7. CASE Good(c) /\ k = "details"
  <2>1. page = details /\ rec = n
    BY <1>5, <1>7 DEF page, Good
  <2>2. seen.form.details.pay \in Contents
    BY <1>6 DEF Pages, Forms
  <2>3. PICK F \in Forms : F = Filled(seen.form.details.pay)
    BY <2>2, FilledFacts
  <2>4. details = [seen EXCEPT !.form.details = F]
    BY <2>3 DEF details
  <2>10. PICK x : x = [seen EXCEPT !.form.details = F]
    OBVIOUS
  <2>5. /\ details \in Pages /\ details.ver = n /\ details.sel = p.sel
        /\ details.orderKey = p.orderKey /\ details.form.finding = seen.form.finding
    BY <1>6, <2>4, <2>10, DetailsFacts
  <2>6. HoldsFrom(details, n)
    <3>1. Neutral(n) \/ HoldsFrom(p, n)
      BY <1>3, <1>4, <1>7 DEF Good
    <3>. QED BY <1>0, <1>3, <1>6, <1>7, <2>5, <3>1, ReachingHolds
  <2>7. Sound(details)
    BY <1>0, <1>3, <1>6, <1>7, <2>5, <2>6 DEF Sound
  <2>8. Follows(h, details)
    BY <1>6, <2>5 DEF Follows
  <2>. QED BY <1>0, <1>3, <1>4, <1>7, <2>1, <2>5, <2>7, <2>8
<1>8. CASE Good(c) /\ k = "finding" /\ ~ SelectionGone(seen)
  <2>1. page = loaded /\ rec = n
    BY <1>5, <1>8 DEF page, Good
  <2>2. p.sel \in Live /\ Live \subseteq Findings
    BY <1>4, <1>6, <1>8 DEF SelectionGone, Live
  <2>3. PICK f \in Findings : f = reload
    BY <1>0, <1>6, <2>2, NextIsFinding DEF reload
  <2>4. PICK q : q = WithLoaded(seen, f)
    OBVIOUS
  <2>5. /\ q \in Pages /\ q.ver = n /\ q.sel = f /\ q.orderKey = p.orderKey
        /\ q.form.finding.base = content[f] /\ q.form.finding.pay = content[f]
    BY <1>0, <1>6, <2>4, LoadedFacts
  <2>6. loaded = [q EXCEPT !.form["finding"].key = NoKey]
    BY <2>3, <2>4 DEF loaded
  <2>7. PICK x : x = [q EXCEPT !.form["finding"].key = NoKey]
    OBVIOUS
  <2>8. /\ x \in Pages /\ x.ver = n /\ x.sel = f /\ x.orderKey = p.orderKey
        /\ x.form.finding.base = content[f] /\ x.form.finding.pay = content[f]
    BY <2>5, <2>7, KeyFacts DEF Kinds
  <2>9. page = x
    BY <2>1, <2>6, <2>7
  <2>10. Sound(x)
    BY <1>0, <1>3, <1>8, <2>8 DEF Sound, HoldsFrom
  <2>11. Follows(h, x)
    BY <1>3, <1>4, <1>8 DEF Follows
  <2>. QED BY <1>0, <1>3, <1>8, <2>1, <2>8, <2>9, <2>10, <2>11
<1>9. CASE Good(c) /\ k = "finding" /\ SelectionGone(seen)
  <2>1. page = WithStat(seen, "finding", "error") /\ rec = n
    BY <1>5, <1>9 DEF page, Good
  <2>2. PICK q : q = WithStat(seen, "finding", "error")
    OBVIOUS
  <2>3. /\ q \in Pages /\ q.ver = n /\ q.sel = p.sel /\ q.orderKey = p.orderKey
        /\ q.form.finding.stat = "error"
        /\ q.form.finding.base = p.form.finding.base
        /\ q.form.finding.pay = p.form.finding.pay
    BY <1>6, <2>2, StatFacts DEF Kinds, FormStats
  <2>4. Sound(q)
    BY <1>3, <1>4, <1>6, <1>9, <2>3 DEF Sound, HoldsFrom, SelectionGone
  <2>5. Follows(h, q)
    BY <2>3 DEF Follows
  <2>6. stage = "reply"
    BY <1>9, <2>1, <2>2, <2>3
  <2>. QED BY <1>3, <1>9, <2>1, <2>2, <2>3, <2>4, <2>5, <2>6
<1>10. ASSUME ~ Good(c), NEW mark \in {"error", "conflict"}, page = WithStat(p, k, mark)
       PROVE  Goal(page, stage, rec)
  <2>1. rec = h.recVer
    BY <1>5, <1>10
  <2>2. PICK q : q = WithStat(p, k, mark)
    OBVIOUS
  <2>3. /\ q \in Pages /\ q.ver = p.ver /\ q.sel = p.sel /\ q.orderKey = p.orderKey
        /\ q.form[k].stat = mark
        /\ q.form.finding.base = p.form.finding.base
        /\ q.form.finding.pay = p.form.finding.pay
        /\ q.form.finding.adopted = p.form.finding.adopted
        /\ k = "details" => q.form.finding = p.form.finding
    <3>1. mark \in FormStats
      BY <1>10 DEF FormStats
    <3>. QED BY <1>0, <1>4, <2>2, <3>1, StatFacts
  <2>4. Sound(q)
    BY <1>0, <1>4, <1>10, <2>3 DEF Sound, HoldsFrom, Kinds
  <2>5. Follows(h, q)
    BY <2>3 DEF Follows
  <2>6. stage = "reply"
    BY <1>10, <2>2, <2>3
  <2>. QED BY <1>0, <1>10, <2>1, <2>2, <2>3, <2>4, <2>5, <2>6
<1>11. ~ Good(c) => page = WithStat(p, k, "conflict") \/ page = WithStat(p, k, "error")
  BY <1>5 DEF page
<1>. HIDE DEF Goal
<1>. QED BY <1>4, <1>7, <1>8, <1>9, <1>10, <1>11 DEF Kinds

\* What an operation on the component alone makes of the page.
LEMMA LocalPage ==
  ASSUME WInv, NEW w \in Workers, NEW h \in Handlers, h = handler[w], ActLocally(w)
  PROVE  \E q \in Pages, s \in {"reply", "failed"} :
           /\ handler' = [handler EXCEPT ![w].page = q, ![w].stage = s]
           /\ UNCHANGED <<storeVars, tab, wait, stamp, faults, kept>>
           /\ Sound(q) /\ Follows(h, q) /\ h.stage = "acting"
<1>. DEFINE p == h.page
            target == IF h.msg = "discard" THEN p.sel ELSE h.arg
            page ==
              CASE h.msg = "select"  -> WithLoaded(p, target)
                [] h.msg = "discard" -> [WithLoaded(p, target) EXCEPT !.form.finding.key = NoKey]
                [] h.msg = "close"   -> WithNone(p, "saved")
                [] h.msg = "view"    -> [p EXCEPT !.view = IF @ = "findings" THEN "details"
                                                                         ELSE "findings"]
            Goal(q) == q \in Pages /\ Sound(q) /\ Follows(h, q)
<1>0. /\ OrderInv /\ TypeOK /\ version \in Nat /\ p \in Pages /\ p.ver \in Nat
      /\ Sound(p) /\ Staged(h, call[w]) /\ Live \subseteq Findings /\ Nothing \notin Live
  BY WorkspaceAssumption DEF WInv, OrderInv, IInv, TypeOK, Handlers, Pages, Live
<1>1. /\ h.stage = "acting" /\ h.msg \in Moves \cup {"discard"}
      /\ UNCHANGED <<storeVars, tab, wait, stamp, faults, kept>>
      /\ handler' = IF h.msg \in {"select", "discard"} /\ target \notin Live
                    THEN [handler EXCEPT ![w].stage = "failed"]
                    ELSE [handler EXCEPT ![w].page = page, ![w].stage = "reply"]
  BY DEF ActLocally
<1>2. Goal(p)
  BY <1>0 DEF Follows
<1>3. CASE h.msg \in {"select", "discard"} /\ target \notin Live
  <2>1. handler' = [handler EXCEPT ![w].page = p, ![w].stage = "failed"]
    BY <1>1, <1>3 DEF WInv, WTypeOK, Handlers
  <2>. QED BY <1>1, <1>2, <2>1
<1>4. CASE ~ (h.msg \in {"select", "discard"} /\ target \notin Live)
  <2>1. handler' = [handler EXCEPT ![w].page = page, ![w].stage = "reply"]
    BY <1>1, <1>4
  <2>. HIDE DEF page
  <2>. SUFFICES Goal(page)
    BY <1>1, <2>1
  <2>2. h.msg \in Leaving /\ h.draft => p.form.finding.pay = p.form.finding.base
    BY <1>0, <1>1 DEF Staged
  <2>3. CASE h.msg \in {"select", "discard"}
    <3>1. PICK f \in Findings : f = target /\ f \in Live
      BY <1>0, <1>4, <2>3
    <3>2. PICK q : q = WithLoaded(p, f)
      OBVIOUS
    <3>3. /\ q \in Pages /\ q.ver = p.ver /\ q.sel = f
          /\ q.form.finding.base = content[f] /\ q.form.finding.pay = content[f]
      BY <1>0, <3>2, LoadedFacts
    <3>4. PICK x : x = [q EXCEPT !.form["finding"].key = NoKey]
      OBVIOUS
    <3>5. /\ x \in Pages /\ x.ver = p.ver /\ x.sel = f
          /\ x.form.finding.base = content[f] /\ x.form.finding.pay = content[f]
      BY <3>3, <3>4, KeyFacts DEF Kinds
    <3>6. page = q \/ page = x
      BY <2>3, <3>1, <3>2, <3>4 DEF page
    <3>7. Follows(h, q) /\ Follows(h, x)
      BY <2>2, <2>3 DEF Follows, Leaving
    <3>. QED BY <1>0, <3>3, <3>5, <3>6, <3>7 DEF Sound, HoldsFrom
  <2>4. CASE h.msg = "close"
    <3>1. PICK q : q = WithNone(p, "saved")
      OBVIOUS
    <3>2. q \in Pages /\ q.ver = p.ver /\ q.sel = Nothing /\ q.form.finding.base = q.form.finding.pay
      BY <1>0, <3>1, NoneFacts DEF FormStats
    <3>3. page = q
      BY <2>4, <3>1 DEF page
    <3>4. Follows(h, q)
      BY <2>2, <2>4 DEF Follows, Leaving
    <3>. QED BY <1>0, <3>2, <3>3, <3>4 DEF Sound, HoldsFrom
  <2>5. CASE h.msg = "view"
    <3>1. PICK v \in {"findings", "details"} : page = [p EXCEPT !.view = v]
      BY <2>5 DEF page
    <3>2. page \in Pages /\ page.ver = p.ver /\ page.sel = p.sel /\ page.form = p.form
      BY <1>0, <3>1 DEF Pages
    <3>. QED BY <1>0, <3>2 DEF Sound, HoldsFrom, Follows
  <2>. QED BY <1>1, <2>3, <2>4, <2>5 DEF Moves
<1>. QED BY <1>3, <1>4

\* What the answer of a server action makes of the page.
LEMMA CalledPage ==
  ASSUME WInv, NEW w \in Workers, NEW h \in Handlers, h = handler[w], AfterCall(w)
  PROVE  \E q \in Pages, s \in {"reply", "failed", "redirect"} :
           /\ handler' = [handler EXCEPT ![w].stage = s, ![w].page = q]
           /\ Finish(w) /\ UNCHANGED <<tab, wait, stamp, faults, kept>>
           /\ Sound(q) /\ Follows(h, q)
           /\ h.stage = "calling"
<1>. PICK c \in Calls : c = call[w]
  BY DEF WInv, OrderInv, IInv, TypeOK
<1>. DEFINE p == h.page
            n == c.result
            Made(s, q) == handler' = [handler EXCEPT ![w].stage = s, ![w].page = q]
            Goal == \E q \in Pages, s \in {"reply", "failed", "redirect"} :
                       Made(s, q) /\ Sound(q) /\ Follows(h, q)
<1>0. /\ OrderInv /\ TypeOK /\ version \in Nat /\ p \in Pages /\ p.ver \in Nat /\ n \in Nat
      /\ p.form.finding.stat \in FormStats
      /\ Sound(p) /\ Staged(h, c) /\ CallFits(h, c) /\ Live \subseteq Findings /\ Nothing \notin Live
  BY WorkspaceAssumption
     DEF WInv, OrderInv, IInv, TypeOK, Handlers, Pages, Forms, Calls, Live
<1>1. h.stage = "calling" /\ c.phase = "done" /\ Finish(w) /\ UNCHANGED <<tab, wait, stamp, faults, kept>>
  BY DEF AfterCall, Finish
<1>2. /\ h.msg \in Changes \cup {"reopen"}
      /\ c.outcome \in Answerable(h.msg)
      /\ Good(c) => n \in 1..version
      /\ c.outcome = "replayed" => Neutral(n)
      /\ c.outcome = "applied" /\ h.msg \in {"reorder", "delete"} =>
           n > p.ver /\ (n = p.ver + 1 => HoldsFrom(p, n))
      /\ h.msg \in Leaving /\ h.draft => p.form.finding.pay = p.form.finding.base
  BY <1>0, <1>1 DEF CallFits, Ended, Staged
<1>3. Succeeded(w) <=> Good(c)
  BY DEF Succeeded, Good
<1>4. Sound(p) /\ Follows(h, p)
  BY <1>0 DEF Follows
<1>. HIDE DEF Goal, Made
<1>5. \A q \in Pages, s \in {"reply", "failed", "redirect"} :
        Made(s, q) /\ Sound(q) /\ Follows(h, q) => Goal
  BY DEF Goal
<1>. SUFFICES Goal
  BY <1>1 DEF Goal, Made
<1>6. CASE h.msg = "reorder" /\ Good(c)
  <2>1. PICK q : q = Reaching(p, n)
    OBVIOUS
  <2>2. /\ q \in Pages /\ q.ver = n /\ q.sel = p.sel
        /\ q.form.finding.stat = p.form.finding.stat
        /\ q.form.finding.base = p.form.finding.base
        /\ q.form.finding.pay = p.form.finding.pay
        /\ q.form.finding.adopted <=> p.form.finding.adopted \/ n > p.ver + 1
    BY <1>0, <2>1, ReachingFacts
  <2>3. PICK x : x = [q EXCEPT !.orderKey = NoKey]
    OBVIOUS
  <2>4. x \in Pages /\ x.ver = q.ver /\ x.sel = q.sel /\ x.form = q.form
    BY <2>2, <2>3, Stamps DEF Pages
  <2>5. Made("reply", x)
    BY <1>3, <1>6, <2>1, <2>3 DEF AfterCall, Made, Good, Lifecycle
  <2>6. Neutral(n) \/ n > p.ver + 1 \/ HoldsFrom(p, n)
    BY <1>0, <1>2, <1>6 DEF Good
  <2>7. HoldsFrom(x, n)
    BY <1>0, <1>2, <1>6, <2>2, <2>4, <2>6, ReachingHolds
  <2>8. Sound(x) /\ Follows(h, x)
    BY <1>0, <1>2, <1>6, <2>2, <2>4, <2>7 DEF Sound, Follows
  <2>. QED BY <1>5, <2>4, <2>5, <2>8
<1>7. CASE h.msg = "reorder" /\ c.outcome \in {"conflict", "readonly", "missing"}
  <2>1. Made("reply", p)
    BY <1>3, <1>7 DEF AfterCall, Made, Good
  <2>. QED BY <1>0, <1>4, <1>5, <2>1
<1>8. CASE h.msg = "reorder" /\ c.outcome \in {"mismatch", "timeout"}
  <2>1. PICK q : q = WithStat(p, "finding", "error")
    OBVIOUS
  <2>2. /\ q \in Pages /\ q.ver = p.ver /\ q.sel = p.sel
        /\ q.form.finding.stat = "error"
        /\ q.form.finding.base = p.form.finding.base
        /\ q.form.finding.pay = p.form.finding.pay
        /\ q.form.finding.adopted = p.form.finding.adopted
    BY <1>0, <2>1, StatFacts DEF Kinds, FormStats
  <2>3. Made("reply", q)
    BY <1>3, <1>8, <2>1 DEF AfterCall, Made, Good
  <2>4. Sound(q) /\ Follows(h, q)
    BY <1>0, <2>2 DEF Sound, HoldsFrom, Follows
  <2>. QED BY <1>5, <2>2, <2>3, <2>4
<1>9. PICK r : r = Refreshed(p)
  OBVIOUS
<1>10. /\ r \in Pages /\ r.ver = version /\ r.sel = p.sel
       /\ r.form.finding.stat = p.form.finding.stat
       /\ r.form.finding.base = p.form.finding.base
       /\ r.form.finding.pay = p.form.finding.pay
       /\ r.form.finding.adopted <=> p.form.finding.adopted \/ version > p.ver + 1
  BY <1>0, <1>9, ReachingFacts DEF Refreshed
<1>11. CASE h.msg \in {"create", "duplicate"} /\ c.outcome = "applied" /\ h.arg \in Live
  <2>1. PICK q : q = WithLoaded(r, h.arg)
    OBVIOUS
  <2>2. /\ q \in Pages /\ q.ver = version /\ q.sel = h.arg
        /\ q.form.finding.base = content[h.arg] /\ q.form.finding.pay = content[h.arg]
    BY <1>0, <1>10, <1>11, <2>1, LoadedFacts
  <2>3. Made("reply", q)
    BY <1>9, <1>11, <2>1 DEF AfterCall, Made, Lifecycle
  <2>4. Sound(q) /\ Follows(h, q)
    BY <1>0, <1>2, <1>11, <2>2 DEF Sound, HoldsFrom, Follows, Leaving
  <2>. QED BY <1>5, <2>2, <2>3, <2>4
<1>12. CASE h.msg \in {"create", "duplicate"} /\ c.outcome = "applied" /\ h.arg \notin Live
  <2>1. Made("failed", p)
    BY <1>12 DEF AfterCall, Made, Lifecycle
  <2>. QED BY <1>0, <1>4, <1>5, <2>1
<1>13. CASE h.msg = "delete" /\ c.outcome = "applied" /\ p.sel = h.arg
  <2>1. PICK q : q = WithNone(r, p.form.finding.stat)
    OBVIOUS
  <2>2. q \in Pages /\ q.ver = version /\ q.sel = Nothing /\ q.form.finding.base = q.form.finding.pay
    BY <1>0, <1>10, <2>1, NoneFacts
  <2>3. Made("reply", q)
    BY <1>9, <1>13, <2>1 DEF AfterCall, Made, Lifecycle
  <2>4. Sound(q) /\ Follows(h, q)
    BY <1>0, <1>2, <1>13, <2>2 DEF Sound, HoldsFrom, Follows, Leaving
  <2>. QED BY <1>5, <2>2, <2>3, <2>4
<1>14. CASE h.msg = "delete" /\ c.outcome = "applied" /\ p.sel # h.arg
  <2>1. Made("reply", r)
    BY <1>9, <1>14 DEF AfterCall, Made, Lifecycle
  <2>2. HoldsFrom(r, version)
    <3>1. r.sel \in Live /\ ~ r.form.finding.adopted => n = version /\ n = p.ver + 1
      BY <1>0, <1>2, <1>10, <1>14 DEF Good
    <3>2. n = version /\ HoldsFrom(p, n) /\ p.sel \in Live /\ ~ p.form.finding.adopted =>
            p.form.finding.base = content[p.sel]
      BY <1>0 DEF HoldsFrom
    <3>. QED BY <1>2, <1>10, <1>14, <3>1, <3>2 DEF HoldsFrom
  <2>3. Sound(r) /\ Follows(h, r)
    BY <1>0, <1>10, <2>2 DEF Sound, Follows
  <2>. QED BY <1>5, <1>10, <2>1, <2>3
<1>15. CASE h.msg \in Lifecycle /\ c.outcome = "applied"
  <2>1. Made("redirect", p)
    BY <1>15 DEF AfterCall, Made, Lifecycle
  <2>. QED BY <1>0, <1>4, <1>5, <2>1
<1>16. CASE h.msg # "reorder" /\ c.outcome \in {"readonly", "invalid"}
  <2>1. Made("reply", p)
    BY <1>16 DEF AfterCall, Made
  <2>. QED BY <1>0, <1>4, <1>5, <2>1
<1>17. CASE h.msg # "reorder" /\ c.outcome \in {"conflict", "missing", "timeout"}
  <2>1. Made("failed", p)
    BY <1>17 DEF AfterCall, Made
  <2>. QED BY <1>0, <1>4, <1>5, <2>1
<1>18. \/ h.msg = "reorder" /\ (Good(c) \/ c.outcome \in {"mismatch", "readonly", "missing", "conflict", "timeout"})
       \/ h.msg \in Lifecycle /\ c.outcome \in {"applied", "invalid", "timeout"}
       \/ /\ h.msg \in {"create", "duplicate", "delete"}
          /\ c.outcome \in {"applied", "readonly", "missing", "conflict", "timeout"}
  BY <1>2 DEF Answerable, Changes, Lifecycle, Good
<1>19. h.msg \in Lifecycle => h.msg # "reorder"
  BY DEF Lifecycle
<1>. HIDE DEF p
<1>20. CASE h.msg = "reorder"
  BY <1>6, <1>7, <1>8, <1>18, <1>19, <1>20
<1>21. CASE h.msg \in Lifecycle
  BY <1>15, <1>16, <1>17, <1>18, <1>19, <1>21
<1>22. CASE h.msg \in {"create", "duplicate", "delete"}
  BY <1>11, <1>12, <1>13, <1>14, <1>16, <1>17, <1>18, <1>19, <1>22
<1>. QED BY <1>18, <1>20, <1>21, <1>22

-----------------------------------------------------------------------------
(* Every step preserves the invariant *)

\* Only a committed change enters the journal.
LEMMA OnlyCommits ==
  ASSUME WInv, [WNext]_vars, journal' # journal
  PROVE  \E w \in Workers : Commits(w)
<1>1. ASSUME NEW w \in Workers, Decides(w) \/ AfterSave(w) \/ ActLocally(w) \/ AfterCall(w) \/ Reply(w)
      PROVE  journal' = journal
  BY <1>1 DEF Decides, AfterSave, ActLocally, AfterCall, Reply, Begin, LockTimeout, RefuseChange,
              RefuseInvalid, ApplyLifecycle, RefuseLifecycle, Finish, rows, storeVars
<1>2. ASSUME NEW w \in Workers, ActOnServer(w) PROVE journal' = journal
  BY <1>2, ActShape DEF Receive, rows, storeVars
<1>3. ASSUME NEW w \in Workers, Die(w) PROVE journal' = journal
  BY <1>3 DEF Die, Crash, rows, storeVars
<1>4. ASSUME NEW t \in Tabs, NEW w \in Workers, Clicks(t, w) PROVE journal' = journal
  <2>1. PICK msg, arg, order : Send(t, w, msg, arg, order)
    BY <1>4 DEF Clicks
  <2>. QED BY <2>1 DEF Send, Receive, rows, storeVars
<1>5. ASSUME NEW t \in Tabs, PrepareOrderKey(t) \/ GiveUp(t) \/ Reload(t) PROVE journal' = journal
  BY <1>5 DEF PrepareOrderKey, GiveUp, Reload, storeVars
<1>6. ASSUME NEW t \in Tabs, NEW k \in Kinds, Edit(t, k) PROVE journal' = journal
  BY <1>6 DEF Edit, storeVars
<1>7. ASSUME LockRunsOut \/ EditFormSaved PROVE journal' = journal
  BY <1>7 DEF LockRunsOut, EditFormSaved, LockExpires, SaveEditForm, rows
<1>. QED BY <1>1, <1>2, <1>3, <1>4, <1>5, <1>6, <1>7 DEF WNext, Handles, vars, storeVars

LEMMA JournalKept ==
  ASSUME WInv, [WNext]_vars
  PROVE  JournalIsKept'
<1>. SUFFICES ASSUME NEW k \in Keys, journal'[k].applied > 0 PROVE journal'[k].pay \in kept'
  BY DEF JournalIsKept
<1>1. CASE journal'[k] = journal[k]
  BY <1>1, KeptGrows DEF WInv, JournalIsKept
<1>2. CASE journal'[k] # journal[k]
  <2>1. PICK w \in Workers : ApplyChange(w) /\ journal'[k].pay = call[w].pay
    BY <1>2, Serving, RowsArrive DEF WInv
  <2>2. PICK v \in Workers : Commits(v)
    BY <1>2, OnlyCommits
  <2>3. v = w
    BY <2>1, <2>2, DoneIsNothing DEF Commits, ApplyChange, WInv, OrderInv, IInv, TypeOK
  <2>. QED BY <2>1, <2>2, <2>3 DEF Commits
<1>. QED BY <1>1, <1>2

\* The counters stay in their bounds, and what is kept is content.
LEMMA CountsKept ==
  ASSUME WInv, [WNext]_vars
  PROVE  (stamp \in 0..MaxStamp /\ faults \in 0..MaxFaults /\ kept \subseteq Contents)'
<1>0. /\ stamp \in 0..MaxStamp /\ faults \in 0..MaxFaults /\ kept \subseteq Contents
      /\ MaxStamp \in Nat /\ MaxFaults \in Nat
      /\ \A w \in Workers : call[w].pay \in Contents
  BY WorkspaceAssumption DEF WInv, WTypeOK, OrderInv, IInv, TypeOK, Calls
<1>1. ASSUME NEW w \in Workers, Handles(w) \/ Die(w)
      PROVE  /\ stamp' = stamp /\ (faults' = faults \/ GoesWrong)
             /\ kept' = kept \/ kept' = kept \cup {call[w].pay}
  BY <1>1 DEF Handles, Die, Decides, Commits, AfterSave, ActLocally, ActOnServer, AfterCall, Reply
<1>2. ASSUME NEW t \in Tabs, NEW w \in Workers, Clicks(t, w)
      PROVE  UNCHANGED <<stamp, faults, kept>>
  <2>1. PICK msg, arg, order : Send(t, w, msg, arg, order)
    BY <1>2 DEF Clicks
  <2>. QED BY <2>1 DEF Send
<1>3. ASSUME NEW t \in Tabs, NEW k \in Kinds, Edit(t, k) \/ PrepareOrderKey(t)
      PROVE  stamp < MaxStamp /\ stamp' = stamp + 1 /\ UNCHANGED <<faults, kept>>
  BY <1>3 DEF Edit, PrepareOrderKey
<1>4. ASSUME NEW t \in Tabs, GiveUp(t) \/ Reload(t)
      PROVE  (faults' = faults \/ GoesWrong) /\ UNCHANGED <<stamp, kept>>
  BY <1>4 DEF GiveUp, Reload
<1>5. ASSUME LockRunsOut \/ EditFormSaved
      PROVE  (faults' = faults \/ GoesWrong) /\ UNCHANGED <<stamp, kept>>
  BY <1>5 DEF LockRunsOut, EditFormSaved
<1>6. GoesWrong => faults' \in 0..MaxFaults
  BY <1>0 DEF GoesWrong
<1>7. "finding" \in Kinds
  BY DEF Kinds
<1>8. CASE UNCHANGED vars
  BY <1>0, <1>8 DEF vars, pageVars
<1>9. CASE \E w \in Workers : Handles(w) \/ Die(w)
  BY <1>0, <1>1, <1>6, <1>9
<1>10. CASE \E t \in Tabs, w \in Workers : Clicks(t, w)
  BY <1>0, <1>2, <1>10
<1>11. CASE \E t \in Tabs, k \in Kinds : Edit(t, k) \/ PrepareOrderKey(t)
  BY <1>0, <1>3, <1>11
<1>12. CASE LockRunsOut \/ EditFormSaved \/ \E t \in Tabs : GiveUp(t) \/ Reload(t)
  BY <1>0, <1>4, <1>5, <1>6, <1>12
<1>. QED BY <1>7, <1>8, <1>9, <1>10, <1>11, <1>12 DEF WNext

\* A worker moves, the others stay.
LEMMA OneWorkerMoves ==
  ASSUME WInv, [WNext]_vars, NEW w \in Workers, NEW h \in Handlers, NEW c \in Calls,
         handler' = [handler EXCEPT ![w] = h], call' = [call EXCEPT ![w] = c], Fine(h, c)'
  PROVE  /\ handler' \in [Workers -> Handlers]
         /\ \A v \in Workers : Fine(handler[v], call[v])'
<1>1. handler \in [Workers -> Handlers] /\ call \in [Workers -> Calls]
  BY DEF WInv, WTypeOK, OrderInv, IInv, TypeOK
<1>2. handler' \in [Workers -> Handlers]
  BY <1>1
<1>3. ASSUME NEW v \in Workers PROVE Fine(handler[v], call[v])'
  <2>. PICK g \in Handlers, d \in Calls : g = handler'[v] /\ d = call'[v]
    BY <1>1, <1>2
  <2>1. CASE v = w
    <3>1. g = h /\ d = c
      BY <1>1, <2>1
    <3>2. Fine(g, d)'
      BY <3>1
    <3>. QED BY <3>2 DEF Fine, Staged, SaveFits, CallFits
  <2>2. CASE v # w
    <3>1. g = handler[v] /\ d = call[v]
      BY <1>1, <2>2
    <3>2. Fine(g, d)
      BY <3>1 DEF WInv, Fine
    <3>3. Fine(g, d)'
      BY <3>2, FineStays
    <3>. QED BY <3>3 DEF Fine, Staged, SaveFits, CallFits
  <2>. QED BY <2>1, <2>2
<1>. QED BY <1>2, <1>3

LEMMA Assembled ==
  ASSUME WInv, [WNext]_vars,
         tab' \in [Tabs -> Pages], \A t \in Tabs : Sound(tab[t])',
         wait' \in [Tabs -> Workers \cup {NoWorker}], \A t \in Tabs : Awaits(t)',
         handler' \in [Workers -> Handlers], \A w \in Workers : Fine(handler[w], call[w])'
  PROVE  WInv'
<1>1. OrderInv'
  BY Serving, OrderKept DEF WInv
<1>2. WTypeOK'
  BY CountsKept DEF WTypeOK
<1>. QED BY <1>1, <1>2, JournalKept DEF WInv, Fine

\* The tabs nobody touches stay sound.
LEMMA TabsStay ==
  ASSUME WInv, [WNext]_vars, NEW t \in Tabs, tab'[t] = tab[t]
  PROVE  Sound(tab[t])'
<1>1. PICK p \in Pages : p = tab[t]
  BY DEF WInv, WTypeOK
<1>2. Sound(p)'
  BY <1>1, Serving, SoundStays DEF WInv
<1>. QED BY <1>1, <1>2 DEF Sound, HoldsFrom

\* A tab waits on, while its worker goes on.
LEMMA AwaitsStays ==
  ASSUME WInv, [WNext]_vars, NEW t \in Tabs, tab'[t] = tab[t], wait'[t] = wait[t],
         wait[t] # NoWorker =>
           LET h == handler[wait[t]]
               g == handler'[wait[t]]
           IN
           /\ g.tab = h.tab /\ g.msg = h.msg /\ g.draft = h.draft /\ g.stage # "free"
           /\ Follows(h, g.page)
  PROVE  Awaits(t)'
<1>1. Awaits(t) /\ kept \subseteq kept'
  BY KeptGrows DEF WInv
<1>. QED BY <1>1 DEF Awaits, Follows

\* A worker goes on with its request.
LEMMA WorkerGoesOn ==
  ASSUME WInv, [WNext]_vars, NEW w \in Workers, NEW h \in Handlers, NEW c \in Calls,
         handler' = [handler EXCEPT ![w] = h], call' = [call EXCEPT ![w] = c],
         tab' = tab, wait' = wait, Fine(h, c)',
         h.tab = handler[w].tab, h.msg = handler[w].msg, h.draft = handler[w].draft,
         h.stage # "free", Follows(handler[w], h.page)
  PROVE  WInv'
<1>1. /\ tab' \in [Tabs -> Pages] /\ wait' \in [Tabs -> Workers \cup {NoWorker}]
      /\ handler \in [Workers -> Handlers]
  BY DEF WInv, WTypeOK
<1>2. ASSUME NEW t \in Tabs PROVE Awaits(t)'
  <2>1. ASSUME NEW v \in Workers, v = wait[t], v # w PROVE handler'[v] = handler[v]
    BY <1>1, <2>1
  <2>2. wait[t] # NoWorker => wait[t] \in Workers /\ handler[wait[t]].stage # "free"
    BY <1>1 DEF WInv, Awaits
  <2>3. handler'[w] = h
    BY <1>1
  <2>. QED BY <2>1, <2>2, <2>3, AwaitsStays DEF Follows
<1>. QED BY <1>1, <1>2, OneWorkerMoves, TabsStay, Assembled

\* A worker that is not at a server action has its type and its place.
LEMMA NoCallFits ==
  ASSUME NEW h, NEW c, h.stage \notin {"saving", "calling"}
  PROVE  SaveFits(h, c) /\ CallFits(h, c)
BY DEF SaveFits, CallFits

LEMMA IdleIsIdle == IdleCall \in Calls /\ IdleCall.phase = "idle"
BY IdleCallType DEF IdleCall

LEMMA DecisionKeeps ==
  ASSUME WInv, WNext, NEW w \in Workers, Decides(w) \/ Commits(w)
  PROVE  WInv'
<1>. PICK h \in Handlers : h = handler[w]
  BY DEF WInv, WTypeOK
<1>1. TypeOK' /\ call \in [Workers -> Calls] /\ handler \in [Workers -> Handlers]
  BY Serving, NextType DEF WInv, WTypeOK, OrderInv, IInv, TypeOK
<1>2. PICK d \in Calls : d = call'[w]
  BY <1>1 DEF TypeOK
<1>3. call' = [call EXCEPT ![w] = d]
  BY <1>1, <1>2 DEF Decides, Commits, Begin, LockTimeout, RefuseChange, RefuseInvalid,
       ApplyLifecycle, RefuseLifecycle, ApplyChange
<1>4. /\ tab' = tab /\ wait' = wait /\ handler' = handler /\ handler' = [handler EXCEPT ![w] = h]
  BY <1>1 DEF Decides, Commits
<1>5. (Staged(h, d) /\ SaveFits(h, d) /\ CallFits(h, d))' /\ Sound(h.page)'
  BY <1>2, DecisionFits, Serving, SoundStays DEF WInv, Handlers
<1>6. h.stage # "free"
  BY DEF WInv, Staged, Decides, Commits, Begin, LockTimeout, RefuseChange, RefuseInvalid,
         ApplyLifecycle, RefuseLifecycle, ApplyChange
<1>. QED BY <1>3, <1>4, <1>5, <1>6, WorkerGoesOn DEF Fine, Follows

LEMMA SaveKeeps ==
  ASSUME WInv, WNext, NEW w \in Workers, AfterSave(w)
  PROVE  WInv'
<1>. PICK h \in Handlers : h = handler[w]
  BY DEF WInv, WTypeOK
<1>0. /\ Staged(h, call[w]) /\ handler \in [Workers -> Handlers] /\ h.arg \in Findings \cup {Nothing}
      /\ h.page \in Pages /\ version \in Nat
      /\ h.page.view \in {"findings", "details"}
  BY DEF WInv, WTypeOK, Handlers, Pages, OrderInv, IInv, TypeOK
<1>1. PICK q, s, r : SavedTo(w, h, q, s, r)
  BY SavedPage
<1>9. /\ q \in Pages /\ s \in {"acting", "reply"} /\ r \in Nat /\ r <= version
      /\ Follows(h, q)
  BY <1>0, <1>1 DEF SavedTo
<1>2. PICK g : g = [h EXCEPT !.page = q, !.stage = s, !.recVer = r, !.arg = h.arg]
  OBVIOUS
<1>3. /\ g \in Handlers /\ g.page = q /\ g.stage = s /\ g.recVer = r
      /\ g.tab = h.tab /\ g.msg = h.msg /\ g.order = h.order /\ g.draft = h.draft
  <2>1. s \in Stages
    BY <1>9 DEF Stages
  <2>. QED BY <1>0, <1>2, <1>9, <2>1 DEF Handlers
<1>4. handler' = [handler EXCEPT ![w] = g]
  BY <1>0, <1>1, <1>2 DEF Handlers, SavedTo
<1>5. call' = [call EXCEPT ![w] = IdleCall]
  BY <1>1 DEF Finish, SavedTo
<1>6. Staged(g, IdleCall)
  BY <1>0, <1>1, <1>3, IdleIsIdle DEF Staged, Leaving, SavedTo
<1>7. Fine(g, IdleCall)
  BY <1>1, <1>3, <1>6, NoCallFits DEF Fine, SavedTo
<1>8. Fine(g, IdleCall)'
  BY <1>3, <1>7, IdleIsIdle, FineStays
<1>. QED BY <1>1, <1>3, <1>4, <1>5, <1>8, <1>9, IdleIsIdle, WorkerGoesOn DEF SavedTo

LEMMA LocalKeeps ==
  ASSUME WInv, WNext, NEW w \in Workers, ActLocally(w)
  PROVE  WInv'
<1>. PICK h \in Handlers, c \in Calls : h = handler[w] /\ c = call[w]
  BY DEF WInv, WTypeOK, OrderInv, IInv, TypeOK
<1>0. /\ Staged(h, c) /\ handler \in [Workers -> Handlers] /\ h.arg \in Findings \cup {Nothing}
      /\ h.recVer \in Nat /\ call \in [Workers -> Calls]
  BY DEF WInv, WTypeOK, Handlers, OrderInv, IInv, TypeOK
<1>1. PICK q \in Pages, s \in {"reply", "failed"} :
        /\ handler' = [handler EXCEPT ![w].page = q, ![w].stage = s]
        /\ UNCHANGED <<storeVars, tab, wait, stamp, faults, kept>>
        /\ Sound(q) /\ Follows(h, q) /\ h.stage = "acting"
  BY LocalPage
<1>2. PICK g : g = [h EXCEPT !.page = q, !.stage = s, !.recVer = h.recVer, !.arg = h.arg]
  OBVIOUS
<1>3. /\ g \in Handlers /\ g.page = q /\ g.stage = s /\ g.recVer = h.recVer
      /\ g.tab = h.tab /\ g.msg = h.msg /\ g.order = h.order /\ g.draft = h.draft
  <2>1. s \in Stages
    BY DEF Stages
  <2>. QED BY <1>0, <1>2, <2>1 DEF Handlers
<1>4. handler' = [handler EXCEPT ![w] = g]
  BY <1>0, <1>1, <1>2 DEF Handlers
<1>5. call' = [call EXCEPT ![w] = c]
  BY <1>0, <1>1 DEF storeVars
<1>6. Staged(g, c)
  BY <1>0, <1>1, <1>3 DEF Staged
<1>7. Fine(g, c)
  BY <1>1, <1>3, <1>6, NoCallFits DEF Fine
<1>8. Fine(g, c)'
  BY <1>3, <1>7, FineStays
<1>. QED BY <1>1, <1>3, <1>4, <1>5, <1>8, WorkerGoesOn

LEMMA AnswerKeeps ==
  ASSUME WInv, WNext, NEW w \in Workers, AfterCall(w)
  PROVE  WInv'
<1>. PICK h \in Handlers : h = handler[w]
  BY DEF WInv, WTypeOK
<1>0. /\ Staged(h, call[w]) /\ handler \in [Workers -> Handlers] /\ h.arg \in Findings \cup {Nothing}
      /\ h.recVer \in Nat
  BY DEF WInv, WTypeOK, Handlers
<1>1. PICK q \in Pages, s \in {"reply", "failed", "redirect"} :
        /\ handler' = [handler EXCEPT ![w].stage = s, ![w].page = q]
        /\ Finish(w) /\ UNCHANGED <<tab, wait, stamp, faults, kept>>
        /\ Sound(q) /\ Follows(h, q)
        /\ h.stage = "calling"
  BY CalledPage
<1>2. PICK g : g = [h EXCEPT !.page = q, !.stage = s, !.recVer = h.recVer, !.arg = h.arg]
  OBVIOUS
<1>3. /\ g \in Handlers /\ g.page = q /\ g.stage = s /\ g.recVer = h.recVer
      /\ g.tab = h.tab /\ g.msg = h.msg /\ g.order = h.order /\ g.draft = h.draft
  <2>1. s \in Stages
    BY DEF Stages
  <2>. QED BY <1>0, <1>2, <2>1 DEF Handlers
<1>4. handler' = [handler EXCEPT ![w] = g]
  BY <1>0, <1>1, <1>2 DEF Handlers
<1>5. call' = [call EXCEPT ![w] = IdleCall]
  BY <1>1 DEF Finish
<1>6. Staged(g, IdleCall)
  BY <1>0, <1>1, <1>3, IdleIsIdle DEF Staged
<1>7. Fine(g, IdleCall)
  BY <1>1, <1>3, <1>6, NoCallFits DEF Fine
<1>8. Fine(g, IdleCall)'
  BY <1>3, <1>7, IdleIsIdle, FineStays
<1>. QED BY <1>1, <1>3, <1>4, <1>5, <1>8, IdleIsIdle, WorkerGoesOn

\* A request just received waits, or has been answered or refused at once.
LEMMA ReceivedFits ==
  ASSUME WInv, NEW c, c.phase = "waiting", c.key \in Keys \cup {NoKey},
         c.op \in Lifecycle => c.key = NoKey,
         NEW h, NEW d, d = BeforeLock(c),
         h.stage = "saving" =>
           /\ h.msg \in Saves \cup Gated
           /\ h.page.view = "details" \/ h.page.sel # Nothing
           /\ c.expected = h.page.ver
           /\ h.page.view = "details" => c.op = "save_assessment"
           /\ h.page.view = "findings" =>
                c.op = "save_finding" /\ c.target = h.page.sel /\ c.pay = h.page.form.finding.pay,
         h.stage = "calling" =>
           /\ h.msg \in Changes \cup {"reopen"}
           /\ c.op = h.msg
           /\ h.msg # "reorder" => c.key = NoKey
           /\ h.msg = "reorder" => c.expected = h.page.ver
           /\ h.msg = "delete" => c.expected >= h.page.ver
  PROVE  d.phase # "idle" /\ SaveFits(h, d) /\ CallFits(h, d)
<1>0. OrderInv /\ JournalIsKept /\ version \in Nat
  BY DEF WInv, OrderInv, IInv, TypeOK
<1>1. d = c \/ Answered(c, d) \/ Refused(c, d)
  BY ReceiptMoves
<1>2. CASE d = c
  <2>1. Going(d) /\ ~ Ended(d)
    BY <1>2 DEF Going, Ended
  <2>. QED BY <1>2, <2>1 DEF SaveFits, CallFits
<1>3. CASE Answered(c, d)
  <2>1. d.result \in 1..version /\ journal[c.key].pay \in kept
    BY <1>0, <1>3, RowsArePast DEF Answered, JournalIsKept
  <2>2. c.op \in {"save_assessment", "reorder"} => Neutral(d.result)
    BY <1>3 DEF Answered, Neutral
  <2>3. ~ Going(d) /\ d.outcome = "replayed" /\ Ended(d)
    BY <1>3 DEF Answered, Ended, Going
  <2>4. SaveFits(h, d)
    BY <1>3, <2>1, <2>2, <2>3 DEF SaveFits, Answered
  <2>5. h.stage = "calling" => h.msg = "reorder"
    BY <1>3, StoreAssumption DEF Answered
  <2>6. CallFits(h, d)
    BY <2>1, <2>2, <2>3, <2>5 DEF CallFits, Answerable
  <2>. QED BY <2>3, <2>4, <2>6 DEF Ended
<1>4. CASE Refused(c, d)
  <2>1. ~ Going(d) /\ Ended(d) /\ ~ Good(d) /\ d.outcome # "replayed" /\ d.outcome # "applied"
    BY <1>4 DEF Refused, Going, Ended, Good
  <2>2. SaveFits(h, d)
    BY <2>1 DEF SaveFits
  <2>3. h.stage = "calling" => d.outcome \in Answerable(h.msg)
    BY <1>4, StoreAssumption DEF Refused, Answerable, Saving, Lifecycle, Changes
  <2>4. CallFits(h, d)
    BY <2>1, <2>3 DEF CallFits
  <2>. QED BY <2>1, <2>2, <2>4 DEF Ended
<1>. QED BY <1>1, <1>2, <1>3, <1>4

LEMMA ServerKeeps ==
  ASSUME WInv, WNext, NEW w \in Workers, ActOnServer(w)
  PROVE  WInv'
<1>. PICK h \in Handlers, c \in Calls : h = handler[w] /\ c = call[w]
  BY DEF WInv, WTypeOK, OrderInv, IInv, TypeOK
<1>0. /\ Staged(h, c) /\ handler \in [Workers -> Handlers] /\ call \in [Workers -> Calls]
      /\ Sound(h.page) /\ TypeOK'
  BY Serving, NextType DEF WInv, WTypeOK, OrderInv, IInv, TypeOK
<1>1. /\ h.stage = "acting"
      /\ h.msg \in Changes \cup {"reopen"}
      /\ UNCHANGED <<tab, wait, stamp, faults, kept>>
  BY ActShape
<1>2. CASE handler' = [handler EXCEPT ![w].stage = "failed"] /\ UNCHANGED storeVars
  <2>1. PICK g : g = [h EXCEPT !.stage = "failed"]
    OBVIOUS
  <2>2. /\ g \in Handlers /\ g.page = h.page /\ g.stage = "failed" /\ g.recVer = h.recVer
        /\ g.tab = h.tab /\ g.msg = h.msg /\ g.order = h.order /\ g.draft = h.draft
    BY <2>1 DEF Handlers, Stages
  <2>3. handler' = [handler EXCEPT ![w] = g] /\ call' = [call EXCEPT ![w] = c]
    BY <1>0, <1>2, <2>1 DEF storeVars
  <2>4. Fine(g, c)
    BY <1>0, <1>1, <2>2, NoCallFits DEF Fine, Staged
  <2>5. Fine(g, c)'
    BY <2>2, <2>4, FineStays
  <2>. QED BY <1>1, <2>2, <2>3, <2>5, WorkerGoesOn DEF Follows
<1>3. CASE \E r : \E arg \in Findings \cup {Nothing} :
             /\ Receive(w, r)
             /\ handler' = [handler EXCEPT ![w].stage = "calling", ![w].arg = arg]
             /\ r.phase = "waiting" /\ r.op = h.msg /\ r.key \in Keys \cup {NoKey}
             /\ h.msg = "reorder" => r.expected = h.page.ver
             /\ h.msg # "reorder" => r.key = NoKey
             /\ h.msg = "delete" => r.expected >= h.page.ver
  <2>0. PICK r : \E arg \in Findings \cup {Nothing} :
             /\ Receive(w, r)
             /\ handler' = [handler EXCEPT ![w].stage = "calling", ![w].arg = arg]
             /\ r.phase = "waiting" /\ r.op = h.msg /\ r.key \in Keys \cup {NoKey}
             /\ h.msg = "reorder" => r.expected = h.page.ver
             /\ h.msg # "reorder" => r.key = NoKey
             /\ h.msg = "delete" => r.expected >= h.page.ver
    BY <1>3
  <2>1. PICK arg \in Findings \cup {Nothing} :
             handler' = [handler EXCEPT ![w].stage = "calling", ![w].arg = arg]
    BY <2>0
  <2>2. PICK g : g = [h EXCEPT !.stage = "calling", !.arg = arg]
    OBVIOUS
  <2>3. /\ g \in Handlers /\ g.page = h.page /\ g.stage = "calling" /\ g.recVer = h.recVer
        /\ g.tab = h.tab /\ g.msg = h.msg /\ g.order = h.order /\ g.draft = h.draft
    BY <2>2 DEF Handlers, Stages
  <2>4. handler' = [handler EXCEPT ![w] = g]
    BY <1>0, <2>1, <2>2
  <2>5. PICK d : d = BeforeLock(r)
    OBVIOUS
  <2>6. call' = [call EXCEPT ![w] = d] /\ d \in Calls
    <3>1. call' = [call EXCEPT ![w] = d]
      BY <2>0, <2>5 DEF Receive
    <3>. QED BY <1>0, <3>1 DEF TypeOK
  <2>7. d.phase # "idle" /\ SaveFits(g, d) /\ CallFits(g, d)
    <3>1. r.op \in Lifecycle => r.key = NoKey
      BY <2>0 DEF Lifecycle
    <3>. QED BY <1>1, <2>0, <2>3, <2>5, <3>1, ReceivedFits
  <2>8. Fine(g, d)
    BY <1>0, <1>1, <2>3, <2>7 DEF Fine, Staged
  <2>9. Fine(g, d)'
    BY <2>3, <2>6, <2>8, FineStays
  <2>. QED BY <1>1, <2>3, <2>4, <2>6, <2>9, WorkerGoesOn DEF Follows
<1>. QED BY <1>2, <1>3, ActShape

\* A worker without a request.
LEMMA FreeFacts ==
  ASSUME OrderInv
  PROVE  /\ FreeHandler \in Handlers /\ FreeHandler.stage = "free"
         /\ \A c \in Calls : c.phase = "idle" => Fine(FreeHandler, c)
<1>1. (CHOOSE t \in Tabs : TRUE) \in Tabs
  BY WorkspaceAssumption
<1>2. /\ NoPage \in Pages /\ NoPage.ver = 0 /\ NoPage.sel = Nothing
      /\ NoPage.form.finding.pay = NoPage.form.finding.base
  BY NoPageFacts
<1>3. /\ FreeHandler \in Handlers /\ FreeHandler.stage = "free"
      /\ FreeHandler.page = NoPage /\ FreeHandler.recVer = 0
  BY <1>1, <1>2 DEF FreeHandler, Handlers, Stages
<1>4. Sound(NoPage)
  <2>1. version \in Nat /\ Nothing \notin Live
    BY WorkspaceAssumption DEF OrderInv, IInv, TypeOK, Live
  <2>. QED BY <1>2, <2>1 DEF Sound, HoldsFrom
<1>5. version >= 0
  BY DEF OrderInv, IInv, TypeOK
<1>6. ASSUME NEW c \in Calls, c.phase = "idle" PROVE Fine(FreeHandler, c)
  <2>. PICK h : h = FreeHandler
    OBVIOUS
  <2>1. h.stage = "free" /\ h.page = NoPage /\ h.recVer = 0
    BY <1>3
  <2>2. Staged(h, c)
    BY <1>5, <1>6, <2>1 DEF Staged
  <2>. QED BY <1>4, <2>1, <2>2, NoCallFits DEF Fine
<1>. QED BY <1>3, <1>6

\* A worker is done with its request; the tab that waits for it waits no more.
LEMMA WorkerLeaves ==
  ASSUME WInv, [WNext]_vars, NEW w \in Workers, NEW c \in Calls, c.phase = "idle",
         handler[w].stage # "free",
         handler' = [handler EXCEPT ![w] = FreeHandler], call' = [call EXCEPT ![w] = c],
         NEW p \in Pages, Sound(p)',
         IF wait[handler[w].tab] = w
         THEN wait' = [wait EXCEPT ![handler[w].tab] = NoWorker]
         ELSE wait' = wait,
         tab' = tab \/ (wait[handler[w].tab] = w /\ tab' = [tab EXCEPT ![handler[w].tab] = p])
  PROVE  WInv'
<1>. PICK u \in Tabs : u = handler[w].tab
  BY DEF WInv, WTypeOK, Handlers
<1>0. /\ tab \in [Tabs -> Pages] /\ wait \in [Tabs -> Workers \cup {NoWorker}]
      /\ handler \in [Workers -> Handlers] /\ NoWorker \notin Workers
  BY StoreAssumption DEF WInv, WTypeOK
<1>1. tab' \in [Tabs -> Pages] /\ wait' \in [Tabs -> Workers \cup {NoWorker}]
  BY <1>0
<1>2. ASSUME NEW t \in Tabs PROVE Sound(tab[t])'
  <2>1. CASE tab'[t] = tab[t]
    BY <2>1, TabsStay
  <2>2. CASE tab'[t] # tab[t]
    <3>1. tab'[t] = p
      BY <1>0, <2>2
    <3>. QED BY <3>1 DEF Sound, HoldsFrom
  <2>. QED BY <2>1, <2>2
<1>3. ASSUME NEW t \in Tabs PROVE Awaits(t)'
  <2>1. CASE wait[t] = w
    <3>1. t = u
      BY <1>0, <2>1 DEF WInv, Awaits
    <3>2. wait'[t] = NoWorker
      BY <1>0, <2>1, <3>1
    <3>. QED BY <3>2 DEF Awaits
  <2>2. CASE wait[t] # w
    <3>1. wait'[t] = wait[t] /\ tab'[t] = tab[t]
      BY <1>0, <2>2
    <3>2. wait[t] # NoWorker => /\ wait[t] \in Workers /\ handler'[wait[t]] = handler[wait[t]]
                                /\ handler[wait[t]].stage # "free"
      BY <1>0, <2>2 DEF WInv, Awaits
    <3>. QED BY <3>1, <3>2, AwaitsStays DEF Follows
  <2>. QED BY <2>1, <2>2
<1>4. Fine(FreeHandler, c)'
  <2>. PICK h \in Handlers : h = FreeHandler
    BY FreeFacts DEF WInv
  <2>1. Fine(h, c)'
    BY FreeFacts, FineStays DEF WInv
  <2>. QED BY <2>1
<1>5. FreeHandler \in Handlers
  BY FreeFacts DEF WInv
<1>. QED BY <1>1, <1>2, <1>3, <1>4, <1>5, OneWorkerMoves, Assembled

\* A page just mounted is sound.
LEMMA MountedIsSound ==
  ASSUME OrderInv, NEW f \in Live \cup {Nothing}
  PROVE  Mounted(f) \in Pages /\ Sound(Mounted(f))
<1>1. TypeOK /\ version \in Nat /\ Nothing \notin Live
  BY WorkspaceAssumption DEF OrderInv, IInv, TypeOK, Live
<1>2. PICK p : p = Mounted(f)
  OBVIOUS
<1>3. /\ p \in Pages /\ p.ver = version /\ p.sel = f
      /\ p.form.finding.pay = p.form.finding.base
      /\ f \in Live => p.form.finding.base = content[f]
  BY <1>1, <1>2, MountedFacts
<1>4. Sound(p)
  BY <1>1, <1>3 DEF Sound, HoldsFrom
<1>. QED BY <1>2, <1>3, <1>4

LEMMA ReplyKeeps ==
  ASSUME WInv, WNext, NEW w \in Workers, Reply(w)
  PROVE  WInv'
<1>. PICK h \in Handlers, c \in Calls : h = handler[w] /\ c = call[w]
  BY DEF WInv, WTypeOK, OrderInv, IInv, TypeOK
<1>0. /\ Staged(h, c) /\ Sound(h.page) /\ call \in [Workers -> Calls] /\ h.page \in Pages
      /\ tab \in [Tabs -> Pages] /\ h.tab \in Tabs /\ Closed \in BOOLEAN
  BY DEF WInv, WTypeOK, OrderInv, IInv, TypeOK, Handlers, Closed
<1>1. /\ h.stage \in Answers
      /\ handler' = [handler EXCEPT ![w] = FreeHandler]
      /\ UNCHANGED storeVars
  BY DEF Reply
<1>2. call' = [call EXCEPT ![w] = c] /\ c.phase = "idle" /\ h.stage # "free"
  BY <1>0, <1>1 DEF storeVars, Staged, Answers
<1>3. /\ IF wait[h.tab] = w THEN wait' = [wait EXCEPT ![h.tab] = NoWorker] ELSE wait' = wait
      /\ \/ tab' = tab
         \/ wait[h.tab] = w /\ tab' = [tab EXCEPT ![h.tab] = [h.page EXCEPT !.closed = Closed]]
         \/ wait[h.tab] = w /\ tab' = [tab EXCEPT ![h.tab] = Mounted(Nothing)]
  BY <1>1 DEF Reply, Answers
<1>4. PICK p \in Pages : Sound(p) /\ (tab' = tab \/ (wait[h.tab] = w /\ tab' = [tab EXCEPT ![h.tab] = p]))
  <2>1. CASE tab' = tab
    BY <1>0, <2>1
  <2>2. CASE wait[h.tab] = w /\ tab' = [tab EXCEPT ![h.tab] = [h.page EXCEPT !.closed = Closed]]
    <3>1. PICK q : q = [h.page EXCEPT !.closed = Closed]
      OBVIOUS
    <3>2. q \in Pages /\ q.ver = h.page.ver /\ q.sel = h.page.sel /\ q.form = h.page.form
      BY <1>0, <3>1 DEF Pages
    <3>3. Sound(q)
      BY <1>0, <3>2 DEF Sound, HoldsFrom
    <3>. QED BY <2>2, <3>1, <3>2, <3>3
  <2>3. CASE wait[h.tab] = w /\ tab' = [tab EXCEPT ![h.tab] = Mounted(Nothing)]
    BY <2>3, MountedIsSound DEF WInv
  <2>. QED BY <1>3, <2>1, <2>2, <2>3
<1>5. Sound(p)'
  BY <1>4, Serving, SoundStays DEF WInv
<1>. QED BY <1>1, <1>2, <1>3, <1>4, <1>5, WorkerLeaves

LEMMA DieKeeps ==
  ASSUME WInv, WNext, NEW w \in Workers, Die(w)
  PROVE  WInv'
<1>. PICK h \in Handlers, c \in Calls : h = handler[w] /\ c = call[w]
  BY DEF WInv, WTypeOK, OrderInv, IInv, TypeOK
<1>0. /\ call \in [Workers -> Calls] /\ h.page \in Pages /\ Sound(h.page)
  BY DEF WInv, WTypeOK, OrderInv, IInv, TypeOK, Handlers
<1>1. PICK d \in Calls : d.phase = "idle" /\ call' = [call EXCEPT ![w] = d]
  <2>1. CASE c.phase = "idle"
    BY <1>0, <2>1 DEF Die, storeVars
  <2>2. CASE c.phase # "idle"
    BY <1>0, <2>2, IdleIsIdle DEF Die, Crash
  <2>. QED BY <2>1, <2>2
<1>2. Sound(h.page)'
  BY <1>0, Serving, SoundStays DEF WInv
<1>3. /\ h.stage # "free" /\ handler' = [handler EXCEPT ![w] = FreeHandler] /\ tab' = tab
      /\ IF wait[h.tab] = w THEN wait' = [wait EXCEPT ![h.tab] = NoWorker] ELSE wait' = wait
  BY DEF Die
<1>. QED BY <1>0, <1>1, <1>2, <1>3, WorkerLeaves

LEMMA SendKeeps ==
  ASSUME WInv, WNext, NEW t \in Tabs, NEW w \in Workers, Clicks(t, w)
  PROVE  WInv'
<1>0. /\ TypeOK /\ WTypeOK /\ OrderInv /\ tab \in [Tabs -> Pages]
      /\ wait \in [Tabs -> Workers \cup {NoWorker}]
      /\ handler \in [Workers -> Handlers] /\ call \in [Workers -> Calls]
      /\ version \in Nat /\ Closed \in BOOLEAN /\ TypeOK' /\ NoWorker \notin Workers
  BY Serving, NextType, StoreAssumption DEF WInv, OrderInv, IInv, TypeOK, WTypeOK, Closed
<1>1. PICK msg, arg, order : Send(t, w, msg, arg, order) /\ Clicked(tab[t], msg, arg, order)
  BY <1>0, ClickShape
<1>2. PICK p, stage : SendsAs(t, w, msg, arg, order, p, stage)
  BY <1>0, <1>1, SendShape
<1>3. PICK g : g = [stage |-> stage, tab |-> t, page |-> p, msg |-> msg, arg |-> arg,
                    order |-> order, draft |-> ~ Closed, recVer |-> version]
  OBVIOUS
<1>4. /\ g.stage = stage /\ g.tab = t /\ g.page = p /\ g.msg = msg /\ g.order = order
      /\ (g.draft <=> ~ Closed) /\ g.recVer = version /\ g \in Handlers
      /\ handler' = [handler EXCEPT ![w] = g]
  BY <1>0, <1>1, <1>2, <1>3 DEF Handlers, Stages, Clicked, SendsAs
<1>5. /\ Sound(tab[t]) /\ p \in Pages /\ p.view \in {"findings", "details"} /\ p.ver \in Nat
      /\ Staged(handler[w], call[w])
      /\ p.form.details.key \in Keys \cup {NoKey} /\ p.form.finding.key \in Keys \cup {NoKey}
  BY <1>2 DEF WInv, Pages, Forms, SendsAs
<1>6. Sound(p)
  BY <1>2, <1>5 DEF Like, Sound, HoldsFrom, SendsAs
<1>7. /\ msg = "reorder" => order \in Orders /\ p.orderKey \in Keys
      /\ msg \in Leaving => p.view = "findings"
  BY <1>1, <1>2 DEF Clicked, Like, SendsAs
<1>8. stage = "acting" /\ msg \in Leaving /\ ~ Closed => p.form.finding.pay = p.form.finding.base
  <2>1. SUFFICES ASSUME stage = "acting", msg \in Leaving, ~ Closed
                 PROVE  p.form.finding.pay = p.form.finding.base
    OBVIOUS
  <2>2. msg \in Gated /\ p.view = "findings"
    BY <1>7, <2>1 DEF Leaving, Gated, Moves, Changes
  <2>3. p.sel # Nothing => p.form.finding.stat = "saved"
    BY <1>2, <2>1, <2>2, ActiveFacts DEF SendsAs
  <2>. QED BY <1>6, <2>3 DEF Sound
<1>9. PICK d \in Calls : call' = [call EXCEPT ![w] = d] /\ Fine(g, d)
  <2>1. CASE stage # "saving"
    <3>1. PICK c \in Calls : c = call[w]
      BY <1>0
    <3>2. call' = [call EXCEPT ![w] = c] /\ c.phase = "idle"
      BY <1>0, <1>2, <1>5, <2>1, <3>1 DEF storeVars, Staged, SendsAs
    <3>3. Staged(g, c)
      BY <1>0, <1>2, <1>4, <1>6, <1>7, <1>8, <2>1, <3>2 DEF Staged, Sound, SendsAs
    <3>4. g.stage \notin {"saving", "calling"}
      BY <1>2, <1>4, <2>1 DEF SendsAs
    <3>. QED BY <1>4, <1>6, <3>2, <3>3, <3>4, NoCallFits DEF Fine
  <2>2. CASE stage = "saving"
    <3>0. /\ Receive(w, SaveRequest(p))
          /\ msg \in Saves \cup Gated
          /\ p.view = "details" \/ p.sel # Nothing
      BY <1>2, <2>2 DEF SendsAs
    <3>1. PICK c : c = SaveRequest(p)
      OBVIOUS
    <3>2. PICK d : d = BeforeLock(c)
      OBVIOUS
    <3>3. call' = [call EXCEPT ![w] = d] /\ d \in Calls
      <4>1. call' = [call EXCEPT ![w] = d]
        BY <3>0, <3>1, <3>2 DEF Receive
      <4>. QED BY <1>0, <4>1 DEF TypeOK
    <3>4. /\ c.phase = "waiting" /\ c.key \in Keys \cup {NoKey} /\ c.op \notin Lifecycle
          /\ c.expected = p.ver
          /\ p.view = "details" => c.op = "save_assessment"
          /\ p.view = "findings" =>
               c.op = "save_finding" /\ c.target = p.sel /\ c.pay = p.form.finding.pay
      <4>1. \A op, target, source, key, pay, order1, expected :
              LET r == Request(op, target, source, key, pay, order1, expected) IN
              /\ r.phase = "waiting" /\ r.op = op /\ r.target = target /\ r.key = key
              /\ r.pay = pay /\ r.expected = expected
        BY DEF Request, IdleCall
      <4>2. CASE p.view = "details"
        BY <1>5, <3>1, <4>1, <4>2, SaveRequestShape DEF Lifecycle
      <4>3. CASE p.view = "findings"
        BY <1>5, <3>0, <3>1, <4>1, <4>3, SaveRequestShape DEF Lifecycle
      <4>. QED BY <1>5, <4>2, <4>3
    <3>5. d.phase # "idle" /\ SaveFits(g, d) /\ CallFits(g, d)
      BY <1>4, <2>2, <3>0, <3>2, <3>4, ReceivedFits
    <3>6. Staged(g, d)
      BY <1>0, <1>2, <1>4, <1>7, <2>2, <3>5 DEF Staged, SendsAs
    <3>. QED BY <1>4, <1>6, <3>3, <3>5, <3>6 DEF Fine
  <2>. QED BY <2>1, <2>2
<1>10. Fine(g, d)' /\ Sound(p)'
  BY <1>4, <1>5, <1>6, <1>9, FineStays, Serving, SoundStays DEF WInv
<1>11. tab' \in [Tabs -> Pages] /\ wait' \in [Tabs -> Workers \cup {NoWorker}]
  BY <1>0, <1>2 DEF SendsAs
<1>12. ASSUME NEW u \in Tabs PROVE Sound(tab[u])' /\ Awaits(u)'
  <2>1. CASE u = t
    <3>1. tab'[u] = p /\ wait'[u] = w /\ handler'[w] = g
      BY <1>0, <1>2, <1>4, <2>1 DEF SendsAs
    <3>2. Sound(tab[u])'
      BY <1>10, <3>1 DEF Sound, HoldsFrom
    <3>3. Awaits(u)'
      BY <1>2, <1>4, <2>1, <3>1 DEF Awaits, SendsAs
    <3>. QED BY <3>2, <3>3
  <2>2. CASE u # t
    <3>1. tab'[u] = tab[u] /\ wait'[u] = wait[u]
      BY <1>0, <1>2, <2>2 DEF SendsAs
    <3>2. wait[u] # NoWorker => /\ wait[u] \in Workers /\ handler[wait[u]].stage # "free"
      BY <1>0 DEF WInv, Awaits
    <3>3. wait[u] # NoWorker => handler'[wait[u]] = handler[wait[u]]
      BY <1>0, <1>2, <3>2 DEF SendsAs
    <3>. QED BY <3>1, <3>2, <3>3, TabsStay, AwaitsStays DEF Follows
  <2>. QED BY <2>1, <2>2
<1>. QED BY <1>4, <1>9, <1>10, <1>11, <1>12, OneWorkerMoves, Assembled

\* The user changes a page that waits for nothing.
LEMMA PageKeeps ==
  ASSUME WInv, WNext, NEW t \in Tabs, wait[t] = NoWorker, NEW p \in Pages, Sound(p),
         tab' = [tab EXCEPT ![t] = p], UNCHANGED <<storeVars, wait, handler>>
  PROVE  WInv'
<1>0. /\ tab \in [Tabs -> Pages] /\ wait \in [Tabs -> Workers \cup {NoWorker}]
      /\ handler \in [Workers -> Handlers] /\ call \in [Workers -> Calls]
      /\ call' = call
  BY DEF WInv, OrderInv, IInv, TypeOK, WTypeOK, storeVars
<1>1. tab' \in [Tabs -> Pages] /\ wait' = wait /\ handler' = handler
  BY <1>0
<1>2. Sound(p)'
  BY Serving, SoundStays DEF WInv
<1>3. ASSUME NEW u \in Tabs PROVE Sound(tab[u])' /\ Awaits(u)'
  <2>1. CASE u = t
    <3>1. tab'[u] = p /\ wait'[u] = NoWorker
      BY <1>0, <1>1, <2>1
    <3>2. Sound(tab[u])'
      BY <1>2, <3>1 DEF Sound, HoldsFrom
    <3>. QED BY <3>1, <3>2 DEF Awaits
  <2>2. CASE u # t
    <3>1. tab'[u] = tab[u] /\ wait'[u] = wait[u]
      BY <1>0, <1>1, <2>2
    <3>2. wait[u] # NoWorker => handler[wait[u]].stage # "free"
      BY DEF WInv, Awaits
    <3>. QED BY <1>1, <3>1, <3>2, TabsStay, AwaitsStays DEF Follows
  <2>. QED BY <2>1, <2>2
<1>4. ASSUME NEW v \in Workers PROVE Fine(handler[v], call[v])'
  <2>. PICK h \in Handlers, c \in Calls : h = handler[v] /\ c = call[v]
    BY <1>0
  <2>1. Fine(h, c)'
    BY FineStays DEF WInv, Fine
  <2>. QED BY <1>0, <1>1, <2>1
<1>. QED BY <1>0, <1>1, <1>3, <1>4, Assembled

LEMMA EditKeeps ==
  ASSUME WInv, WNext, NEW t \in Tabs, NEW k \in Kinds, Edit(t, k)
  PROVE  WInv'
<1>. PICK p \in Pages : p = tab[t]
  BY DEF WInv, WTypeOK
<1>0. /\ Sound(p) /\ stamp \in Nat /\ MaxStamp \in Nat /\ tab \in [Tabs -> Pages]
  BY WorkspaceAssumption DEF WInv, WTypeOK
<1>1. /\ wait[t] = NoWorker /\ k \in Active(p) /\ stamp < MaxStamp
      /\ UNCHANGED <<storeVars, wait, handler>>
      /\ tab' = [tab EXCEPT ![t].form[k].pay = stamp + 1,
                            ![t].form[k].stat = IF @ = "conflict" THEN @ ELSE "unsaved"]
  BY DEF Edit
<1>2. PICK s \in {"conflict", "unsaved"} :
        s = IF p.form[k].stat = "conflict" THEN p.form[k].stat ELSE "unsaved"
  OBVIOUS
<1>3. PICK c \in Contents : c = stamp + 1
  BY <1>0, <1>1, Stamps
<1>4. PICK q : q = Typed(p, k, c, s)
  OBVIOUS
<1>5. /\ q \in Pages /\ q.ver = p.ver /\ q.sel = p.sel
      /\ q.form.finding.base = p.form.finding.base
      /\ q.form.finding.adopted = p.form.finding.adopted
      /\ k = "details" => q.form.finding = p.form.finding
      /\ k = "finding" => q.form.finding.stat = s
  <2>1. s \in FormStats /\ s # "saved"
    BY DEF FormStats
  <2>. QED BY <1>4, <2>1, TypedFacts
<1>6. tab' = [tab EXCEPT ![t] = q]
  BY <1>0, <1>1, <1>2, <1>3, <1>4 DEF Pages, BothForms, Forms, Kinds, Typed
<1>7. k = "finding" => p.sel # Nothing
  BY <1>1, ActiveFacts DEF Active
<1>8. Sound(q)
  BY <1>0, <1>2, <1>5, <1>7 DEF Sound, HoldsFrom, Kinds
<1>. QED BY <1>1, <1>5, <1>6, <1>8, PageKeeps

LEMMA PrepareKeeps ==
  ASSUME WInv, WNext, NEW t \in Tabs, PrepareOrderKey(t)
  PROVE  WInv'
<1>. PICK p \in Pages : p = tab[t]
  BY DEF WInv, WTypeOK
<1>0. /\ Sound(p) /\ stamp \in Nat /\ MaxStamp \in Nat /\ tab \in [Tabs -> Pages]
  BY WorkspaceAssumption DEF WInv, WTypeOK
<1>1. /\ wait[t] = NoWorker /\ stamp < MaxStamp
      /\ UNCHANGED <<storeVars, wait, handler>>
      /\ tab' = [tab EXCEPT ![t].orderKey = stamp + 1]
  BY DEF PrepareOrderKey
<1>2. PICK k \in Keys \cup {NoKey} : k = stamp + 1
  BY <1>0, <1>1, Stamps
<1>3. PICK q : q = [p EXCEPT !.orderKey = k]
  OBVIOUS
<1>4. q \in Pages /\ q.ver = p.ver /\ q.sel = p.sel /\ q.form = p.form
  BY <1>3 DEF Pages
<1>5. tab' = [tab EXCEPT ![t] = q]
  BY <1>0, <1>1, <1>2, <1>3
<1>6. Sound(q)
  BY <1>0, <1>4 DEF Sound, HoldsFrom
<1>. QED BY <1>1, <1>4, <1>5, <1>6, PageKeeps

LEMMA ReloadKeeps ==
  ASSUME WInv, WNext, NEW t \in Tabs, Reload(t)
  PROVE  WInv'
<1>1. /\ wait[t] = NoWorker /\ UNCHANGED <<storeVars, wait, handler>>
      /\ tab' = [tab EXCEPT ![t] = Mounted(IF @.sel \in Live THEN @.sel ELSE Nothing)]
  BY DEF Reload
<1>2. PICK f \in Live \cup {Nothing} : f = IF tab[t].sel \in Live THEN tab[t].sel ELSE Nothing
  OBVIOUS
<1>3. tab' = [tab EXCEPT ![t] = Mounted(f)]
  BY <1>1, <1>2 DEF WInv, WTypeOK
<1>4. Mounted(f) \in Pages /\ Sound(Mounted(f))
  BY MountedIsSound DEF WInv
<1>. QED BY <1>1, <1>3, <1>4, PageKeeps

\* Nothing but the server, the clock or the patience of a user moves.
LEMMA StillKeeps ==
  ASSUME WInv, [WNext]_vars, UNCHANGED <<tab, handler, call>>,
         wait' = wait \/ \E t \in Tabs : wait' = [wait EXCEPT ![t] = NoWorker]
  PROVE  WInv'
<1>0. /\ tab \in [Tabs -> Pages] /\ wait \in [Tabs -> Workers \cup {NoWorker}]
      /\ handler \in [Workers -> Handlers] /\ call \in [Workers -> Calls]
  BY DEF WInv, OrderInv, IInv, TypeOK, WTypeOK
<1>1. /\ wait' \in [Tabs -> Workers \cup {NoWorker}]
      /\ \A u \in Tabs : wait'[u] = wait[u] \/ wait'[u] = NoWorker
  BY <1>0
<1>2. ASSUME NEW u \in Tabs PROVE Sound(tab[u])' /\ Awaits(u)'
  <2>1. CASE wait'[u] = NoWorker
    BY <2>1, TabsStay DEF Awaits
  <2>2. CASE wait'[u] = wait[u]
    <3>1. wait[u] # NoWorker => handler[wait[u]].stage # "free"
      BY DEF WInv, Awaits
    <3>. QED BY <2>2, <3>1, TabsStay, AwaitsStays DEF Follows
  <2>. QED BY <1>1, <2>1, <2>2
<1>3. ASSUME NEW v \in Workers PROVE Fine(handler[v], call[v])'
  <2>. PICK h \in Handlers, c \in Calls : h = handler[v] /\ c = call[v]
    BY <1>0
  <2>1. Fine(h, c)'
    BY FineStays DEF WInv, Fine
  <2>. QED BY <2>1
<1>. QED BY <1>0, <1>1, <1>2, <1>3, Assembled

LEMMA WInvKept == WInv /\ [WNext]_vars => WInv'
<1>. SUFFICES ASSUME WInv, [WNext]_vars PROVE WInv'
  OBVIOUS
<1>1. CASE UNCHANGED vars
  BY <1>1, StillKeeps DEF vars, pageVars, storeVars
<1>2. ASSUME WNext, NEW w \in Workers, Handles(w) PROVE WInv'
  BY <1>2, DecisionKeeps, SaveKeeps, LocalKeeps, ServerKeeps, AnswerKeeps, ReplyKeeps DEF Handles
<1>3. ASSUME NEW t \in Tabs, GiveUp(t) PROVE WInv'
  BY <1>3, StillKeeps DEF GiveUp, storeVars
<1>4. ASSUME LockRunsOut \/ EditFormSaved PROVE WInv'
  BY <1>4, StillKeeps DEF LockRunsOut, EditFormSaved, LockExpires, SaveEditForm
<1>. QED
  BY <1>1, <1>2, <1>3, <1>4, DieKeeps, SendKeeps, EditKeeps, PrepareKeeps, ReloadKeeps DEF WNext

LEMMA WInvInit == WInit => WInv
<1>. SUFFICES ASSUME WInit PROVE WInv
  OBVIOUS
<1>1. OrderInv /\ call = [w \in Workers |-> IdleCall] /\ journal = [k \in Keys |-> NoRow]
  BY InitOrder DEF WInit, Init
<1>2. \A f \in Live \cup {Nothing} : Mounted(f) \in Pages /\ Sound(Mounted(f))
  BY <1>1, MountedIsSound
<1>3. tab \in [Tabs -> Pages] /\ \A t \in Tabs : Sound(tab[t])
  <2>1. tab \in [Tabs -> {Mounted(f) : f \in Live \cup {Nothing}}]
    BY DEF WInit
  <2>2. \A t \in Tabs : \E f \in Live \cup {Nothing} : tab[t] = Mounted(f)
    BY <2>1
  <2>. QED BY <1>2, <2>1, <2>2
<1>4. handler = [w \in Workers |-> FreeHandler] /\ FreeHandler \in Handlers
  BY <1>1, FreeFacts DEF WInit
<1>5. \A w \in Workers : Fine(handler[w], call[w])
  BY <1>1, <1>4, FreeFacts, IdleIsIdle
<1>6. wait = [t \in Tabs |-> NoWorker] /\ stamp = 0 /\ faults = 0 /\ kept = {}
  BY DEF WInit
<1>7. WTypeOK
  BY <1>3, <1>4, <1>6, WorkspaceAssumption DEF WTypeOK
<1>8. JournalIsKept
  BY <1>1 DEF JournalIsKept, NoRow
<1>9. \A t \in Tabs : Awaits(t)
  BY <1>6 DEF Awaits
<1>. QED BY <1>1, <1>3, <1>5, <1>7, <1>8, <1>9 DEF WInv, Fine

LEMMA WInvAlways == WSpec => []WInv
BY WInvInit, WInvKept, PTL DEF WSpec

-----------------------------------------------------------------------------
(* Theorems *)

\* Whatever the users do and whatever goes wrong, every variable has its type.
THEOREM WTypeCorrect == WSpec => []WTypeOK
<1>1. WInv => WTypeOK
  BY DEF WInv
<1>. QED BY WInvAlways, <1>1, PTL

\* The pages send the server nothing that AssessmentStore does not let arrive:
\* a request expects a version that has existed, and a reorder lists findings
\* that have.
THEOREM PagesUseStore == WSpec => UsesStore
<1>1. WInit => Init
  BY DEF WInit
<1>2. WInv /\ [WNext]_vars => [Serves]_storeVars
  BY Serving
<1>. QED BY WInvAlways, <1>1, <1>2, PTL DEF WSpec, UsesStore

\* With any number of pages and workers, no request UUID is applied twice and
\* the version counts the operations applied.
THEOREM PagesApplyOnce == WSpec => []AppliedOnce
<1>1. WInv => AppliedOnce
  BY DEF WInv, OrderInv, IInv, VersionCounts, KeysAreRecorded, AppliedOnce
<1>. QED BY WInvAlways, <1>1, PTL

\* A finding form at the current version shows what the database holds, unless
\* its tab skipped an operation of somebody else to get there.
THEOREM FormsTrue == WSpec => []CurrentFormsAreTrue
<1>1. ASSUME WInv, NEW t \in Tabs, tab[t].ver = version, tab[t].sel \in Live,
             ~ tab[t].form.finding.adopted
      PROVE  tab[t].form.finding.base = content[tab[t].sel]
  <2>1. \A n \in (version + 1)..version : Neutral(n)
    BY <1>1 DEF WInv, OrderInv, IInv, TypeOK
  <2>. QED BY <1>1, <2>1 DEF WInv, Sound, HoldsFrom
<1>2. WInv => CurrentFormsAreTrue
  BY <1>1 DEF CurrentFormsAreTrue
<1>. QED BY WInvAlways, <1>2, PTL

\* A finding save that commits replaces the content its form was filled with,
\* whatever was saved, deleted or reordered by others meanwhile, unless its tab
\* had skipped an operation of somebody else.
THEOREM ShownOverwritten == WSpec => OverwritesOnlyTheShown
<1>1. ASSUME WInv, NEW w \in Workers, ApplyChange(w), call[w].op = "save_finding",
             ~ handler[w].page.form.finding.adopted
      PROVE  handler[w].page.form.finding.base = content[call[w].target]
  <2>. PICK h \in Handlers, c \in Calls : h = handler[w] /\ c = call[w]
    BY <1>1 DEF WInv, WTypeOK, OrderInv, IInv, TypeOK
  <2>1. /\ Staged(h, c) /\ SaveFits(h, c) /\ CallFits(h, c) /\ Sound(h.page)
        /\ PlanIsCurrent(c) /\ version \in Nat /\ h.page.view \in {"findings", "details"}
    BY <1>1 DEF WInv, OrderInv, IInv, TypeOK, PlansAreCurrent, Handlers, Pages
  <2>2. c.phase = "running" /\ c.op = "save_finding" /\ c.expected = version
    BY <1>1 DEF ApplyChange, Matches
  <2>3. h.stage = "saving"
    BY <2>1, <2>2 DEF Staged, CallFits, Going, Changes
  <2>4. c.target = h.page.sel /\ h.page.ver = version
    BY <2>1, <2>2, <2>3 DEF SaveFits, Going
  <2>5. c.target \in Live
    BY <2>1, <2>2 DEF PlanIsCurrent, Versioned, Saving
  <2>6. \A n \in (version + 1)..version : Neutral(n)
    BY <2>1
  <2>. QED BY <1>1, <2>1, <2>4, <2>5, <2>6 DEF Sound, HoldsFrom
<1>2. WInv /\ [WNext]_vars =>
        [\A w \in Workers :
           ApplyChange(w) /\ call[w].op = "save_finding"
             /\ ~ handler[w].page.form.finding.adopted =>
             handler[w].page.form.finding.base = content[call[w].target]]_vars
  BY <1>1
<1>. QED BY WInvAlways, <1>2, PTL DEF WSpec, OverwritesOnlyTheShown

\* No response and no death of a worker takes an edit off the screen that did
\* not reach the database, whatever the user asked for, unless the user gave it
\* up or the assessment was closed elsewhere.
THEOREM EditsKept == WSpec => EditsAreKeptOrShown
<1>. DEFINE Lost(t) ==
       /\ wait[t] # NoWorker /\ wait'[t] = NoWorker /\ handler'[wait[t]].stage = "free"
       /\ tab[t].form.finding.pay # tab[t].form.finding.base
       /\ tab'[t].form.finding.pay # tab[t].form.finding.pay
            Excused(t) ==
       \/ tab[t].form.finding.pay \in kept
       \/ handler[wait[t]].msg = "discard"
       \/ ~ handler[wait[t]].draft
       \/ tab'[t] = Mounted(tab'[t].sel)
<1>1. ASSUME WInv, [WNext]_vars, NEW t \in Tabs, Lost(t)
      PROVE  Excused(t)
  <2>. PICK w \in Workers : w = wait[t]
    BY <1>1 DEF WInv, WTypeOK
  <2>0. /\ tab \in [Tabs -> Pages] /\ wait \in [Tabs -> Workers \cup {NoWorker}]
        /\ handler \in [Workers -> Handlers] /\ NoWorker \notin Workers /\ TypeOK /\ WTypeOK
    BY <1>1, StoreAssumption DEF WInv, WTypeOK, OrderInv, IInv
  <2>1. wait' # wait /\ tab' # tab /\ handler'[w].stage = "free"
    BY <1>1
  <2>2. /\ handler[w].tab = t /\ handler[w].stage # "free"
        /\ \/ handler[w].page.form.finding.pay = tab[t].form.finding.pay
           \/ Excused(t)
    BY <1>1 DEF WInv, Awaits
  <2>3. PICK v \in Workers : Reply(v)
    <3>1. ASSUME NEW v \in Workers, Handles(v) PROVE Reply(v)
      BY <2>1, <3>1 DEF Handles, Decides, Commits, AfterSave, ActLocally, ActOnServer, AfterCall
    <3>2. ASSUME NEW v \in Workers PROVE ~ Die(v)
      BY <2>1 DEF Die
    <3>3. ASSUME NEW u \in Tabs, NEW v \in Workers PROVE ~ Clicks(u, v)
      <4>. SUFFICES ASSUME Clicks(u, v) PROVE FALSE
        OBVIOUS
      <4>1. PICK msg, arg, order : Send(u, v, msg, arg, order)
        BY <2>0, <3>3, ClickShape
      <4>2. wait' = [wait EXCEPT ![u] = v]
        BY <4>1 DEF Send
      <4>. QED BY <1>1, <2>0, <3>3, <4>2
    <3>4. ASSUME NEW u \in Tabs
          PROVE  ~ (GiveUp(u) \/ PrepareOrderKey(u) \/ Reload(u) \/ \E k \in Kinds : Edit(u, k))
      BY <2>1, <2>2 DEF GiveUp, PrepareOrderKey, Reload, Edit
    <3>5. ~ (LockRunsOut \/ EditFormSaved)
      BY <2>1 DEF LockRunsOut, EditFormSaved
    <3>6. WNext
      BY <1>1, <2>1 DEF vars, pageVars
    <3>. QED BY <3>1, <3>2, <3>3, <3>4, <3>5, <3>6 DEF WNext
  <2>4. v = w
    <3>1. v # w => handler'[w] = handler[w]
      BY <2>0, <2>3 DEF Reply
    <3>. QED BY <2>1, <2>2, <3>1
  <2>5. CASE tab' = [tab EXCEPT ![t] = [handler[w].page EXCEPT !.closed = Closed]]
    <3>1. tab'[t].form = handler[w].page.form
      BY <2>0, <2>5 DEF Handlers, Pages
    <3>. QED BY <1>1, <2>2, <3>1
  <2>6. CASE tab' = [tab EXCEPT ![t] = Mounted(Nothing)]
    <3>1. tab'[t] = Mounted(Nothing) /\ Mounted(Nothing).sel = Nothing
      BY <2>0, <2>6, MountedFacts
    <3>. QED BY <3>1
  <2>. QED BY <2>1, <2>2, <2>3, <2>4, <2>5, <2>6 DEF Reply, Answers
<1>2. WInv /\ [WNext]_vars =>
        [\A t \in Tabs :
           LET f == tab[t].form.finding
               w == wait[t]
           IN
           /\ w # NoWorker /\ wait'[t] = NoWorker /\ handler'[w].stage = "free"
           /\ f.pay # f.base
           /\ tab'[t].form.finding.pay # f.pay
           => \/ f.pay \in kept
              \/ handler[w].msg = "discard"
              \/ ~ handler[w].draft
              \/ tab'[t] = Mounted(tab'[t].sel)]_vars
  BY <1>1
<1>. QED BY WInvAlways, <1>2, PTL DEF WSpec, EditsAreKeptOrShown
=============================================================================
