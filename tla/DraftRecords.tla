--------------------------- MODULE DraftRecords ---------------------------
(***************************************************************************)
(* The records of the browser's draft store and what the script makes of   *)
(* them.  Everything here is a function of its arguments; WorkspaceDrafts  *)
(* says when the records are read and written.                             *)
(*                                                                         *)
(* A payload is the part of a form that a draft keeps.  It is abstracted   *)
(* to the finding whose form it was taken from, the number of the edit     *)
(* that made it, and the number of the last edit that changed the list of  *)
(* solutions.  Evidence is part of the form and of no payload.             *)
(*                                                                         *)
(* Identifiers, request UUIDs and timestamps are numbers from one clock;   *)
(* 0 stands for null.                                                      *)
(***************************************************************************)
EXTENDS Naturals, Sequences, FiniteSets

NoDraft == [id |-> 0]
NoPayload == [of |-> "nobody"]

Payload(e, n, s) == [of |-> e, n |-> n, sol |-> s]

\* Solutions are identifiers, 0 for one that was never saved.
RemoveAt(s, i) == SubSeq(s, 1, i - 1) \o SubSeq(s, i + 1, Len(s))

Form(pay, files) == [pay |-> pay, files |-> files]

\* pickFields: a draft keeps the fields of the form and leaves the files out.
DraftPayload(form) == form.pay

-----------------------------------------------------------------------------
(* Records of one tab *)

NewDraft(tab, e, pay, base, t) ==
  [id |-> t, e |-> e, tab |-> tab, base |-> base, req |-> t, att |-> 0, pay |-> pay,
   at |-> t, src |-> 0, srcAt |-> 0, confirmed |-> 0]

\* Broken: the UUID of an attempt goes on to name another content.
RewrittenSameId(d, pay, t) == [d EXCEPT !.pay = pay, !.at = t, !.confirmed = 0]

\* Another content gets another request UUID once the present one was attempted.
Rewritten(d, pay, t) ==
  IF d.pay = pay THEN [d EXCEPT !.at = t]
  ELSE [d EXCEPT !.pay = pay, !.at = t, !.confirmed = 0,
                 !.req = IF d.att # 0 /\ d.req = d.att THEN t ELSE @]

Attempted(d) == [d EXCEPT !.att = d.req]

Unattempted(d) == [d EXCEPT !.att = 0]

\* What is left after a save was confirmed: the newer content of the form, or
\* the content that has already replaced the one that was saved.
Continued(d, pay, ver, t) ==
  [d EXCEPT !.base = ver, !.req = t, !.att = 0, !.pay = pay, !.at = t]
Rebased(d, ver) == [d EXCEPT !.base = ver, !.att = 0]

\* Broken: the copy keeps the request UUID of the draft it was made from.
AdoptedSameUuid(d, tab, t) ==
  IF d.tab = tab THEN d
  ELSE [d EXCEPT !.id = t, !.tab = tab, !.att = 0, !.src = d.id, !.srcAt = d.at, !.at = t]

\* Restoring a draft of another tab copies it under new identifiers.
Adopted(d, tab, t) ==
  IF d.tab = tab THEN d
  ELSE [d EXCEPT !.id = t, !.tab = tab, !.req = t, !.att = 0,
                 !.src = d.id, !.srcAt = d.at, !.at = t]

-----------------------------------------------------------------------------
(* Putting a draft on a form *)

Occurrences(s, id) == Cardinality({i \in DOMAIN s : s[i] = id})

\* alignSolutionPayload finds a partner for every solution of the draft: the
\* same identifiers, and as many solutions without one.
Alignable(live, sol) ==
  /\ Len(live) = Len(sol)
  /\ \A i \in DOMAIN sol : Occurrences(live, sol[i]) = Occurrences(sol, sol[i])

-----------------------------------------------------------------------------
(* The store *)

FindDraft(db, id) ==
  IF \E d \in db : d.id = id THEN CHOOSE d \in db : d.id = id ELSE NoDraft

Newest(ds) == CHOOSE d \in ds : \A x \in ds : x.at <= d.at

DraftsOf(db, e) == {d \in db : d.e = e}

OwnDrafts(db, tab, e) == {d \in db : d.e = e /\ d.tab = tab}

DraftForTab(db, tab, e) ==
  IF OwnDrafts(db, tab, e) = {} THEN NoDraft ELSE Newest(OwnDrafts(db, tab, e))

\* activeDraftFor: the draft the tab remembers, or the newest it finds.
ActiveDraft(db, tab, e, known) ==
  IF \E d \in db : d.id = known /\ d.tab = tab THEN FindDraft(db, known)
  ELSE DraftForTab(db, tab, e)

Without(db, ids) == {d \in db : d.id \notin ids}

\* Broken: the new version of a draft is written beside the old one.
PutBeside(db, d) == db \cup {d}

Put(db, d) == Without(db, {d.id}) \cup {d}

\* Broken: any draft with the identifier will do.
UnchangedId(db, d) == \E s \in db : s.id = d.id

\* The condition under which a draft that was read a while ago is deleted.
UnchangedSince(db, d) ==
  \E s \in db : s.id = d.id /\ s.e = d.e /\ s.tab = d.tab /\ s.at = d.at /\ s.pay = d.pay

\* Broken: only drafts that have gone on under another UUID are found.
MatchingMoved(db, tab, e, rid) ==
  {d \in db : d.req # rid /\ d.att = rid /\ d.e = e /\ d.tab = tab}

\* The drafts a confirmation is about.
Matching(db, tab, e, rid) ==
  {d \in db : (d.req = rid \/ d.att = rid) /\ d.e = e /\ d.tab = tab}

\* Broken: the draft is marked whatever has become of it.
SourceMarkedAnyway(db, src, ver) ==
  {IF s.id = src.id THEN [s EXCEPT !.confirmed = ver] ELSE s : s \in db}

\* updateDraftIf: mark the draft that was restored, if it is still the one.
SourceMarked(db, src, ver) ==
  {IF s.id = src.id /\ s.at = src.at /\ s.pay = src.pay THEN [s EXCEPT !.confirmed = ver] ELSE s
   : s \in db}

\* The draft was restored elsewhere and that content has been confirmed.
Superseded(d, ver) == d.confirmed # 0 /\ d.confirmed <= ver
=============================================================================
