----------------------- MODULE WorkspaceDraftsProofs ------------------------
(***************************************************************************)
(* The draft store keeps its order whatever the pages, the server, the     *)
(* network and the storage do: a request UUID names one draft, and a draft *)
(* marked as confirmed has been overtaken by an applied save; for any      *)
(* number of pages, findings and events.                                   *)
(*                                                                         *)
(* UUIDs, draft records and applied saves are referred to from everywhere: *)
(* jobs that have read and not yet written, confirmations under way,       *)
(* drafts on offer, responses on their way.  The invariant is that there   *)
(* is one record of all that was ever handed out, a context, which all of  *)
(* these fit.  A step extends it and changes one page, one message or the  *)
(* server; what is not changed fits the larger context as it did before.   *)
(***************************************************************************)
EXTENDS WorkspaceDrafts, SequenceTheorems, WellFoundedInduction, TLAPS

(* Sequences and numbers *)

\* A sequence of members of a set is one of members of any larger set.
LEMMA SeqWider ==
  ASSUME NEW S, NEW T, S \subseteq T, NEW s \in Seq(S)
  PROVE  s \in Seq(T)
OBVIOUS

\* Appending keeps what was there, in its place.
LEMMA SeqAppend ==
  ASSUME NEW S, NEW s \in Seq(S), NEW x \in S
  PROVE  /\ Append(s, x) \in Seq(S)
         /\ DOMAIN Append(s, x) = 1 .. Len(s) + 1
         /\ \A i \in DOMAIN s : i \in DOMAIN Append(s, x) /\ Append(s, x)[i] = s[i]
         /\ Append(s, x)[Len(s) + 1] = x
         /\ \A i \in DOMAIN Append(s, x) : i = Len(s) + 1 \/ i \in DOMAIN s
OBVIOUS

\* The head and the tail of a sequence that is not empty.
LEMMA SeqTail ==
  ASSUME NEW S, NEW s \in Seq(S), s # <<>>
  PROVE  /\ Head(s) = s[1] /\ 1 \in DOMAIN s /\ s[1] \in S
         /\ Tail(s) \in Seq(S)
         /\ \A i \in DOMAIN Tail(s) : i + 1 \in DOMAIN s /\ Tail(s)[i] = s[i + 1] /\ i + 1 # 1 /\ i \in Nat
OBVIOUS

\* A sequence with its first member exchanged.
LEMMA SeqPut ==
  ASSUME NEW S, NEW s \in Seq(S), s # <<>>, NEW x \in S
  PROVE  /\ [s EXCEPT ![1] = x] \in Seq(S)
         /\ DOMAIN [s EXCEPT ![1] = x] = DOMAIN s
         /\ [s EXCEPT ![1] = x][1] = x
         /\ \A i \in DOMAIN s : i # 1 => [s EXCEPT ![1] = x][i] = s[i]
OBVIOUS

\* The solutions with their identifiers are a list of numbers.
LEMMA SeqMap ==
  ASSUME NEW s \in Seq(Nat), NEW t \in Nat
  PROVE  [i \in DOMAIN s |-> IF s[i] = 0 THEN t + i ELSE s[i]] \in Seq(Nat)
OBVIOUS

\* A list with one member less.
LEMMA SeqRemove ==
  ASSUME NEW S, NEW s \in Seq(S), NEW i \in DOMAIN s
  PROVE  RemoveAt(s, i) \in Seq(S)
BY DEF RemoveAt

-----------------------------------------------------------------------------
(* The values of the variables in a context *)

\* What is fixed about a draft when it is made.
Births == [id : Nat, e : Entities, src : Nat, at : Nat]

\* What has been handed out: the clock, the pairs of a request UUID and the draft
\* it names, the drafts made, and the saves applied.  A UUID names one draft, an
\* identifier was given once, and a copy is of the finding of its source.
Contexts ==
  {c \in [now : Nat, names : SUBSET (Nat \X Nat), born : SUBSET Births,
          rows : SUBSET [rid : Nat, e : Entities, ver : Nat]] :
     /\ \A r, i : <<r, i>> \in c.names => r <= c.now
     /\ \A r, i, j : <<r, i>> \in c.names /\ <<r, j>> \in c.names => i = j
     /\ \A b \in c.born :
          /\ b.id <= c.now
          /\ \A x \in c.born : x.id = b.id => x = b
          /\ b.src # 0 => \E x \in c.born : x.id = b.src /\ x.e = b.e
     /\ \A r \in c.rows : r.rid <= c.now}

\* More has been handed out in d than in c; what is new is younger.
Younger(c, d) == \A r, i : <<r, i>> \in d.names => <<r, i>> \in c.names \/ r > c.now
Grows(c, d) ==
  /\ c.now <= d.now /\ c.names \subseteq d.names /\ c.born \subseteq d.born /\ c.rows \subseteq d.rows
  /\ Younger(c, d)

\* A UUID that names no draft, and no save without one.
Unnamed(rid, c) == \A i : <<rid, i>> \notin c.names

Birth(d) == [id |-> d.id, e |-> d.e, src |-> d.src, at |-> d.srcAt]

\* A save of the finding has gone through under a UUID handed out after the last
\* edit of the draft, or before its present UUID.
OvertakenAt(d, c) ==
  \E r \in c.rows : r.e = d.e /\ r.ver = d.confirmed /\ (r.rid > d.pay.n \/ d.req > r.rid)

\* The records of the drafts.
Payloads(c) == [of : Entities \cup {Nothing}, n : 0 .. c.now, sol : Seq(Nat)]
Forms(c) == [pay : Payloads(c), files : SUBSET Nat]
DraftFields(c) ==
  [id : 1 .. c.now, e : Entities, tab : Pages, base : Nat, req : 1 .. c.now, att : 0 .. c.now,
   pay : Payloads(c), at : 1 .. c.now, src : 0 .. c.now, srcAt : 0 .. c.now,
   confirmed : 0 .. c.now]
\* A draft's UUID is its own, it was written after its last edit, its UUIDs are
\* younger than the state of the source it was copied from, and its mark is true.
Legit(d, c) ==
  /\ <<d.req, d.id>> \in c.names
  /\ Birth(d) \in c.born
  /\ d.pay.n < d.at
  /\ d.src # 0 => d.srcAt < d.req /\ (d.att # 0 => d.srcAt < d.att)
  /\ d.confirmed # 0 => OvertakenAt(d, c)
Drafts(c) == {d \in DraftFields(c) : Legit(d, c)}
\* The UUID of an attempt names its draft, or under 0 the attempt itself.
AttemptFields(c) ==
  [rid : 1 .. c.now, e : Entities, id : 0 .. c.now, pay : Payloads(c), rev : Nat, evRev : Nat]
Attempts(c) == {a \in AttemptFields(c) : <<a.rid, a.id>> \in c.names}
Sources(c) == [id : 1 .. c.now, at : 0 .. c.now, pay : Payloads(c)]

\* The source of a draft saved under rid.
SourcesOf(rid, e, c) ==
  {s \in Sources(c) : s.at < rid /\ \E b \in c.born : b.id = s.id /\ b.e = e}
Applies(rid, e, ver, c) == \E r \in c.rows : r.rid = rid /\ r.e = e /\ r.ver = ver

\* The confirmations under way.
TaskFields(c) ==
  [key : 1 .. c.now, rid : 1 .. c.now, av : 1 .. c.now, e : Entities,
   att : Attempts(c) \cup {NoAttempt}, phase : {"read", "job", "sources", "final"},
   match : 0 .. c.now, src : SUBSET Sources(c), kept : BOOLEAN]
\* A confirmation is about a save that was applied, the draft it has found was
\* made before, and so was every source it is to mark.
Traced(t, c) ==
  /\ Applies(t.rid, t.e, t.av, c)
  /\ t.match # 0 => \E b \in c.born : b.id = t.match /\ b.e = t.e /\ (b.src # 0 => b.at < t.rid)
  /\ t.src \subseteq SourcesOf(t.rid, t.e, c)
  /\ t.phase = "sources" => t.src # {}
Tasks(c) == {t \in TaskFields(c) : Traced(t, c)}

\* The jobs of the queues and what they will write.
Puts(c) == [tag : {"put"}, put : Drafts(c)]
Treatments(c) ==
  [tag : {"none"}, src : SUBSET Sources(c)]
    \cup [tag : {"continue", "rebase"}, put : Drafts(c), src : SUBSET Sources(c)]
    \cup [tag : {"remove"}, del : SUBSET Nat, src : SUBSET Sources(c)]
Deletions == [tag : {"del"}, del : SUBSET Nat]

Persists(c) ==
  [do : {"persist"}, pay : Payloads(c), base : Nat, by : {"timer", "save", "structure"},
   plan : Puts(c) \cup {Unplanned}]
Marks(c) == [do : {"mark"}, draft : Drafts(c), plan : Puts(c) \cup {Unplanned}]
Unmarks(c) == [do : {"unmark"}, plan : Puts(c)]
Adopts(c) == [do : {"adopt"}, stale : BOOLEAN, plan : Puts(c)]
Confirms(c) ==
  {j \in [do : {"confirm"}, task : Tasks(c), plan : Treatments(c) \cup {Unplanned}] :
     j.plan # Unplanned => j.plan.src \subseteq SourcesOf(j.task.rid, j.task.e, c)}
Wipes == [do : {"wipe"}, plan : Deletions \cup {Unplanned}]
Jobs(c) == Persists(c) \cup Marks(c) \cup Unmarks(c) \cup Adopts(c) \cup Confirms(c) \cup Wipes

\* The memory of a page.
Timers(c) == [pay : Payloads(c), base : Nat] \cup {NoTimer}
Newers(c) == Payloads(c) \cup {NoPayload}
Shows(c) == [draft : Drafts(c), e : Entities, restored : BOOLEAN, stale : BOOLEAN] \cup {NoShown}
Runs(c) ==
  [e : Entities, base : Nat, ro : BOOLEAN, redundant : SUBSET Drafts(c),
   others : SUBSET Drafts(c), own : Drafts(c) \cup {NoDraft}] \cup {NoRun}
Tails == [e : Entities, base : Nat] \cup {NoRun}
RunningSaves(c) ==
  [phase : {"persist", "mark", "repersist", "unmark", "ready", "sent"}, how : Intercepted,
   e : Entities, base : Nat, pay : Payloads(c), draft : Drafts(c) \cup {NoDraft},
   rid : 0 .. c.now, tries : Nat]
Saves(c) == RunningSaves(c) \cup {NoSave}

Memories(c) ==
  [active : [Entities -> 0 .. c.now], timer : [Entities -> Timers(c)],
   rev : [Entities -> Nat], evRev : [Entities -> Nat],
   attempts : SUBSET Attempts(c), newer : [Entities -> Newers(c)],
   structural : [Entities -> Nat], shown : Shows(c), broken : BOOLEAN,
   jobs : [Entities -> Seq(Jobs(c))], save : Saves(c), conf : SUBSET Tasks(c),
   due : BOOLEAN, run : Runs(c), tail : Tails]

\* The component, the status line, and the page as a whole.
Components(c) ==
  [on : {"new", "open", "gone"}, sel : Entities \cup {Nothing}, form : Forms(c),
   canon : Forms(c), ver : Nat, stat : {"saved", "unsaved", "error", "conflict"},
   pend : 0 .. c.now, ro : BOOLEAN]

Statuses == [st : [Entities -> EntityStates], label : Labels]

Views(c) == [w : Components(c), m : Memories(c), u : Statuses]

\* The messages and the server.
Confirmations(c) ==
  {x \in [rid : 1 .. c.now, e : Entities, av : 1 .. c.now] : Applies(x.rid, x.e, x.av, c)}
    \cup {NoEvent}

Requests(c) ==
  [status : {"sent"}, kind : {"save", "next", "select", "live", "discard"},
   arg : Entities \cup {Nothing}, w : Components(c)]
    \cup [status : {"sent"}, kind : {"structure"}, arg : Seq(Nat), w : Components(c)]

\* The UUID the server gives a save that came without one is no draft's.
ResponseFields(c) ==
  [status : {"answered"}, kind : {"save", "next", "select", "live", "discard", "structure"},
   sent : Components(c), w : Components(c), event : Confirmations(c), dropped : BOOLEAN]
Responses(c) ==
  {a \in ResponseFields(c) : a.event # NoEvent /\ a.sent.pend = 0 => Unnamed(a.event.rid, c)}

Flights(c) == Requests(c) \cup Responses(c) \cup {NoMessage}

Rows(c) == [rid : 1 .. c.now, e : Entities, form : Forms(c), ver : 1 .. c.now]

Servers(c) ==
  [ver : Nat \ {0}, content : [Entities -> Payloads(c)], journal : SUBSET Rows(c),
   shut : BOOLEAN, taken : SUBSET Nat]

-----------------------------------------------------------------------------
(* More identifiers, more values *)

\* A payload or a form of a context is one of any later context.
LEMMA PayloadsGrow ==
  ASSUME NEW c \in Contexts, NEW d \in Contexts, Grows(c, d)
  PROVE  Payloads(c) \subseteq Payloads(d) /\ Forms(c) \subseteq Forms(d)
<1>1. 0 .. c.now \subseteq 0 .. d.now /\ 1 .. c.now \subseteq 1 .. d.now
  BY DEF Grows, Contexts
<1> QED BY <1>1 DEF Payloads, Forms

\* What has been handed out stays handed out.
LEMMA RangesGrow ==
  ASSUME NEW c \in Contexts, NEW d \in Contexts, Grows(c, d)
  PROVE  /\ 0 .. c.now \subseteq 0 .. d.now /\ 1 .. c.now \subseteq 1 .. d.now
         /\ c.names \subseteq d.names /\ c.born \subseteq d.born /\ c.rows \subseteq d.rows
BY DEF Grows, Contexts

\* A draft, an attempt or a source stays what it is as more is handed out.
LEMMA DraftsGrow ==
  ASSUME NEW c \in Contexts, NEW d \in Contexts, Grows(c, d)
  PROVE  /\ Drafts(c) \subseteq Drafts(d) /\ Attempts(c) \subseteq Attempts(d)
         /\ Sources(c) \subseteq Sources(d)
<1>1. Attempts(c) \subseteq Attempts(d) /\ Sources(c) \subseteq Sources(d)
  <2>1. AttemptFields(c) \subseteq AttemptFields(d) /\ Sources(c) \subseteq Sources(d)
    BY PayloadsGrow, RangesGrow DEF AttemptFields, Sources
  <2> QED BY <2>1, RangesGrow DEF Attempts
<1>2. DraftFields(c) \subseteq DraftFields(d)
  BY PayloadsGrow, RangesGrow DEF DraftFields
<1>3. \A x : Legit(x, c) => Legit(x, d)
  BY RangesGrow DEF Legit, OvertakenAt
<1> QED BY <1>1, <1>2, <1>3 DEF Drafts

\* So does a confirmation under way,
LEMMA TasksGrow ==
  ASSUME NEW c \in Contexts, NEW d \in Contexts, Grows(c, d)
  PROVE  /\ Tasks(c) \subseteq Tasks(d)
         /\ \A rid, e : SourcesOf(rid, e, c) \subseteq SourcesOf(rid, e, d)
<1>1. TaskFields(c) \subseteq TaskFields(d)
  BY DraftsGrow, RangesGrow DEF TaskFields
<1>2. \A rid, e : SourcesOf(rid, e, c) \subseteq SourcesOf(rid, e, d)
  BY DraftsGrow, RangesGrow DEF SourcesOf
<1>3. \A x : Traced(x, c) => Traced(x, d)
  BY <1>2, RangesGrow DEF Traced, Applies
<1> QED BY <1>1, <1>2, <1>3 DEF Tasks

\* a job of a queue,
LEMMA JobsGrow ==
  ASSUME NEW c \in Contexts, NEW d \in Contexts, Grows(c, d)
  PROVE  Jobs(c) \subseteq Jobs(d)
<1>1. Puts(c) \subseteq Puts(d) /\ Treatments(c) \subseteq Treatments(d)
  BY DraftsGrow DEF Puts, Treatments
<1>2. Persists(c) \subseteq Persists(d)
  BY <1>1, PayloadsGrow DEF Persists
<1>3. Marks(c) \subseteq Marks(d)
  BY <1>1, DraftsGrow DEF Marks
<1>4. Unmarks(c) \subseteq Unmarks(d) /\ Adopts(c) \subseteq Adopts(d)
  BY <1>1 DEF Unmarks, Adopts
<1>5. Confirms(c) \subseteq Confirms(d)
  BY <1>1, TasksGrow DEF Confirms
<1> QED BY <1>2, <1>3, <1>4, <1>5 DEF Jobs

\* the memory of a page,
LEMMA MemoriesGrow ==
  ASSUME NEW c \in Contexts, NEW d \in Contexts, Grows(c, d)
  PROVE  Memories(c) \subseteq Memories(d)
<1>1. Timers(c) \subseteq Timers(d) /\ Newers(c) \subseteq Newers(d)
  BY PayloadsGrow DEF Timers, Newers
<1>2. Shows(c) \subseteq Shows(d) /\ Runs(c) \subseteq Runs(d)
  BY DraftsGrow DEF Shows, Runs
<1>3. Saves(c) \subseteq Saves(d)
  BY DraftsGrow, PayloadsGrow, RangesGrow DEF Saves, RunningSaves
<1>4. [Entities -> Seq(Jobs(c))] \subseteq [Entities -> Seq(Jobs(d))]
  BY JobsGrow, SeqWider
<1>5. SUBSET Attempts(c) \subseteq SUBSET Attempts(d) /\ SUBSET Tasks(c) \subseteq SUBSET Tasks(d)
  BY DraftsGrow, TasksGrow
<1>6. [Entities -> 0 .. c.now] \subseteq [Entities -> 0 .. d.now]
  BY RangesGrow
<1> QED BY <1>1, <1>2, <1>3, <1>4, <1>5, <1>6 DEF Memories

\* a component,
LEMMA ComponentsGrow ==
  ASSUME NEW c \in Contexts, NEW d \in Contexts, Grows(c, d)
  PROVE  Components(c) \subseteq Components(d)
BY PayloadsGrow, RangesGrow DEF Components

\* a page as a whole,
LEMMA ViewsGrow ==
  ASSUME NEW c \in Contexts, NEW d \in Contexts, Grows(c, d)
  PROVE  Views(c) \subseteq Views(d)
BY ComponentsGrow, MemoriesGrow DEF Views

\* a message on its way,
LEMMA FlightsGrow ==
  ASSUME NEW c \in Contexts, NEW d \in Contexts, Grows(c, d)
  PROVE  Flights(c) \subseteq Flights(d) /\ Confirmations(c) \subseteq Confirmations(d)
<1>1. Confirmations(c) \subseteq Confirmations(d)
  BY RangesGrow DEF Confirmations, Applies
<1>2. Requests(c) \subseteq Requests(d)
  BY ComponentsGrow DEF Requests
<1>3. Responses(c) \subseteq Responses(d)
  <2>1. ResponseFields(c) \subseteq ResponseFields(d)
    BY <1>1, ComponentsGrow DEF ResponseFields
  <2>2. ASSUME NEW a \in ResponseFields(c), a.event # NoEvent, Unnamed(a.event.rid, c)
        PROVE  Unnamed(a.event.rid, d)
    <3>1. a.event.rid \in 1 .. c.now
      BY <2>2 DEF ResponseFields, Confirmations
    <3>2. a.event.rid <= c.now /\ a.event.rid \in Nat /\ c.now \in Nat
      BY <3>1 DEF Contexts
    <3>3. ~ (a.event.rid > c.now)
      BY <3>2
    <3> QED BY <2>2, <3>3 DEF Unnamed, Grows, Younger
  <2> QED BY <2>1, <2>2 DEF Responses
<1> QED BY <1>1, <1>2, <1>3 DEF Flights

\* and the server.
LEMMA ServersGrow ==
  ASSUME NEW c \in Contexts, NEW d \in Contexts, Grows(c, d)
  PROVE  Servers(c) \subseteq Servers(d)
<1>1. Rows(c) \subseteq Rows(d)
  BY PayloadsGrow, RangesGrow DEF Rows
<1> QED BY <1>1, PayloadsGrow DEF Servers

-----------------------------------------------------------------------------
(* The status *)

\* The labels and statuses the page can be given.
LEMMA StatusLabels ==
  /\ \A on : \A s \in EntityStates : CurrentStatus(s, on) \in Labels
  /\ Pristine \in EntityStates
  /\ {"saved", "unsaved", "error", "conflict", "offline", "local", "stale", "storage_error"}
       \subseteq Labels
BY DEF CurrentStatus, EntityStates, Labels, Pristine

\* A label can be set.
LEMMA WithLabelType ==
  ASSUME NEW u \in Statuses, NEW label \in Labels
  PROVE  /\ WithLabel(u, label) \in Statuses
         /\ \A e, shown : WithLabelFor(u, e, shown, label) \in Statuses
BY DEF Statuses, WithLabel, WithLabelFor

\* The status of a finding can be set.
LEMMA ToldType ==
  ASSUME NEW u \in Statuses, NEW e \in Entities, NEW s \in EntityStates
  PROVE  \A shown, on : Told(u, e, s, shown, on) \in Statuses
<1>1. [u EXCEPT !.st[e] = s] \in Statuses
  BY DEF Statuses
<1> QED BY <1>1, StatusLabels, WithLabelType DEF Told

\* The reactions of the status line to what happens in the page keep its values.
LEMMA StatusTypes ==
  ASSUME NEW u \in Statuses, NEW e \in Entities
  PROVE  /\ \A on : \A ev \in BOOLEAN : OnInput(u, e, ev, on) \in Statuses
         /\ \A stale, clear, shown, on : OnPersisted(u, e, stale, clear, shown, on) \in Statuses
         /\ \A clear, shown, on : OnDirty(u, e, clear, shown, on) \in Statuses
         /\ \A stale, shown, on : OnRestored(u, e, stale, shown, on) \in Statuses
         /\ \A shown, on : OnFailed(u, e, shown, on) \in Statuses
         /\ \A clear, shown, on : OnClean(u, e, clear, shown, on) \in Statuses
<1>0. u.st[e] \in EntityStates
  BY DEF Statuses
<1>1. \A clear : Cleared(u.st[e], clear) \in EntityStates
  BY <1>0 DEF Cleared, EntityStates
<1>2. \A on : \A ev \in BOOLEAN : OnInput(u, e, ev, on) \in Statuses
  <2> TAKE on
  <2> TAKE ev \in BOOLEAN
  <2>1. [u.st[e] EXCEPT !.dirty = TRUE, !.durable = FALSE, !.status = "local",
                        !.evidence = @ \/ ev] \in EntityStates
    BY <1>0 DEF EntityStates
  <2> QED BY <2>1, ToldType DEF OnInput
<1>3. \A stale, clear, shown, on : OnPersisted(u, e, stale, clear, shown, on) \in Statuses
  <2> TAKE stale, clear, shown, on
  <2>1. [Cleared(u.st[e], clear) EXCEPT
               !.dirty = TRUE, !.durable = TRUE,
               !.status = IF stale THEN "stale" ELSE "local"] \in EntityStates
    BY <1>1 DEF EntityStates
  <2> QED BY <2>1, ToldType DEF OnPersisted
<1>4. \A clear, shown, on : OnDirty(u, e, clear, shown, on) \in Statuses
  <2> TAKE clear, shown, on
  <2>1. [Cleared(u.st[e], clear) EXCEPT
               !.dirty = TRUE, !.durable = FALSE, !.status = "local"] \in EntityStates
    BY <1>1 DEF EntityStates
  <2> QED BY <2>1, ToldType DEF OnDirty
<1>5. \A stale, shown, on : OnRestored(u, e, stale, shown, on) \in Statuses
  BY <1>3 DEF OnRestored
<1>6. \A shown, on : OnFailed(u, e, shown, on) \in Statuses
  <2> TAKE shown, on
  <2>1. [u.st[e] EXCEPT !.dirty = TRUE, !.durable = FALSE, !.status = "storage_error"]
          \in EntityStates
    BY <1>0 DEF EntityStates
  <2> QED BY <2>1, ToldType DEF OnFailed
<1>7. \A clear, shown, on : OnClean(u, e, clear, shown, on) \in Statuses
  <2> TAKE clear, shown, on
  <2>1. [u.st[e] EXCEPT !.dirty = TRUE, !.durable = FALSE, !.status = "local"] \in EntityStates
    BY <1>0 DEF EntityStates
  <2>2. [Pristine EXCEPT !.before = u.st[e].before] \in EntityStates
    BY <1>0 DEF EntityStates, Pristine
  <2>3. [u EXCEPT !.st[e] = [Pristine EXCEPT !.before = u.st[e].before]] \in Statuses
    BY <2>2 DEF Statuses
  <2> QED BY <2>1, <2>3, ToldType, WithLabelType, StatusLabels DEF OnClean
<1> QED BY <1>2, <1>3, <1>4, <1>5, <1>6, <1>7

\* So do those to a response and to the connection.
LEMMA ConnectionTypes ==
  ASSUME NEW u \in Statuses
  PROVE  /\ \A shown, on : \A rendered \in Labels : AfterMorph(u, shown, rendered, on) \in Statuses
         /\ \A shown : GoneOffline(u, shown) \in Statuses
         /\ \A shown : BackOnline(u, shown) \in Statuses
<1>1. \A shown, on : \A rendered \in Labels : AfterMorph(u, shown, rendered, on) \in Statuses
  <2> TAKE shown, on
  <2> TAKE rendered \in Labels
  <2>1. shown \in DOMAIN u.st => CurrentStatus(u.st[shown], on) \in Labels
    BY StatusLabels DEF Statuses
  <2> QED BY <2>1, WithLabelType DEF AfterMorph
<1>2. \A shown : GoneOffline(u, shown) \in Statuses
  <2> TAKE shown
  <2>1. CASE shown \notin DOMAIN u.st
    BY <2>1 DEF GoneOffline
  <2>2. CASE shown \in DOMAIN u.st
    <3>1. PICK v \in Statuses : v = WithLabel(u, "offline")
      BY WithLabelType, StatusLabels
    <3>2. shown \in Entities /\ v.st[shown] \in EntityStates /\ u.label \in Labels
      BY <2>2 DEF Statuses
    <3>3. [v EXCEPT !.st[shown].before = IF u.label # "offline" THEN u.label ELSE @] \in Statuses
      BY <3>2 DEF Statuses, EntityStates
    <3> QED BY <2>2, <3>1, <3>3 DEF GoneOffline
  <2> QED BY <2>1, <2>2
<1>3. \A shown : BackOnline(u, shown) \in Statuses
  <2> TAKE shown
  <2>1. CASE shown \notin DOMAIN u.st
    BY <2>1 DEF BackOnline
  <2>2. CASE shown \in DOMAIN u.st
    <3> DEFINE s == u.st[shown]
               l == IF s.dirty THEN CurrentStatus(s, TRUE)
                    ELSE IF s.before # "none" THEN s.before ELSE u.label
    <3>1. shown \in Entities /\ s \in EntityStates /\ u.label \in Labels
      BY <2>2 DEF Statuses
    <3>2. l \in Labels
      BY <3>1, StatusLabels DEF EntityStates
    <3>3. PICK v \in Statuses : v = WithLabel(u, l)
      <4> HIDE DEF l
      <4> QED BY <3>2, WithLabelType
    <3>4. [v EXCEPT !.st[shown].before = "none"] \in Statuses
      BY <3>1 DEF Statuses, EntityStates
    <3> QED BY <2>2, <3>3, <3>4 DEF BackOnline
  <2> QED BY <2>1, <2>2
<1> QED BY <1>1, <1>2, <1>3

-----------------------------------------------------------------------------
(* The jobs of a save *)

SaveWork(job) == job.do \in {"mark", "unmark"} \/ (job.do = "persist" /\ job.by = "save")
Fitting(job) == IF job.do = "persist" THEN {"persist", "repersist"} ELSE {job.do}

Idle(m) == \A e \in Entities : \A i \in DOMAIN m.jobs[e] : ~ SaveWork(m.jobs[e][i])

\* At most one job belongs to the save under way, and it is the one that the
\* phase of the save waits for.
OneSave(m) ==
  \A e \in Entities : \A i \in DOMAIN m.jobs[e] :
    SaveWork(m.jobs[e][i]) =>
      /\ m.save # NoSave /\ m.save.e = e /\ m.save.phase \in Fitting(m.jobs[e][i])
      /\ \A j \in DOMAIN m.jobs[e] : SaveWork(m.jobs[e][j]) => j = i

IsView(g, c) == g \in Views(c) /\ OneSave(g.m)

\* Whether the queues fit the save depends on the queues and the save alone.
LEMMA SameWork ==
  ASSUME NEW m, NEW n, n.jobs = m.jobs, n.save = m.save
  PROVE  (OneSave(m) => OneSave(n)) /\ (Idle(m) => Idle(n))
BY DEF OneSave, Idle

\* A page that keeps its queues and its save stays sound.
LEMMA Still ==
  ASSUME NEW c \in Contexts, NEW g, IsView(g, c), NEW h \in Views(c),
         h.m.jobs = g.m.jobs, h.m.save = g.m.save
  PROVE  IsView(h, c) /\ (Idle(g.m) => Idle(h.m))
BY SameWork DEF IsView

\* A page with another status line.
LEMMA NewStatusView ==
  ASSUME NEW c \in Contexts, NEW g, IsView(g, c), NEW u \in Statuses
  PROVE  IsView([g EXCEPT !.u = u], c)
<1>1. /\ [g EXCEPT !.u = u] \in Views(c) /\ [g EXCEPT !.u = u].m = g.m
  BY DEF IsView, Views
<1> QED BY <1>1 DEF IsView

\* A page whose drafts are to be looked through.
LEMMA DueView ==
  ASSUME NEW c \in Contexts, NEW g, IsView(g, c)
  PROVE  /\ IsView(RecoveryDue(g), c)
         /\ RecoveryDue(g).m.save = g.m.save /\ (Idle(g.m) => Idle(RecoveryDue(g).m))
<1>1. /\ RecoveryDue(g) \in Views(c) /\ RecoveryDue(g).m.jobs = g.m.jobs
      /\ RecoveryDue(g).m.save = g.m.save
  BY DEF IsView, Views, Memories, RecoveryDue
<1> QED BY <1>1, Still

\* A page that has lost its store.
LEMMA FailureView ==
  ASSUME NEW c \in Contexts, NEW g, IsView(g, c)
  PROVE  /\ IsView(Failure(g), c) /\ Failure(g).m.jobs = g.m.jobs
         /\ Failure(g).w = g.w /\ Failure(g).m.save = g.m.save
         /\ Failure(g).m.rev = g.m.rev /\ Failure(g).m.evRev = g.m.evRev
<1> DEFINE u == WithLabel(g.u, "storage_error")
           v == IF g.w.sel = Nothing THEN u ELSE OnFailed(u, g.w.sel, g.w.sel, online)
<1>1. u \in Statuses
  BY WithLabelType, StatusLabels DEF IsView, Views
<1>2. v \in Statuses
  <2> HIDE DEF u
  <2>1. g.w.sel # Nothing => g.w.sel \in Entities
    BY DEF IsView, Views, Components
  <2> QED BY <1>1, <2>1, StatusTypes
<1>3. Failure(g) = [g EXCEPT !.m.broken = TRUE, !.m.shown = NoShown, !.u = v]
  BY DEF Failure
<1> HIDE DEF u, v
<1>4. NoShown \in Shows(c)
  BY DEF Shows
<1>5. /\ Failure(g) \in Views(c) /\ Failure(g).m.jobs = g.m.jobs
      /\ Failure(g).w = g.w /\ Failure(g).m.save = g.m.save
      /\ Failure(g).m.rev = g.m.rev /\ Failure(g).m.evRev = g.m.evRev
  <2>1. PICK m : m = [g.m EXCEPT !.broken = TRUE, !.shown = NoShown]
    OBVIOUS
  <2>2. Failure(g) = [g EXCEPT !.m = m, !.u = v]
    BY <1>3, <2>1 DEF IsView, Views
  <2>3. /\ m \in Memories(c) /\ m.jobs = g.m.jobs /\ m.save = g.m.save /\ m.rev = g.m.rev /\ m.evRev = g.m.evRev
    BY <1>4, <2>1 DEF IsView, Views, Memories
  <2> QED BY <1>2, <2>2, <2>3 DEF IsView, Views
<1> QED BY <1>5, Still

\* A job that belongs to no save may be queued at any time (queueDraftMutation).
LEMMA QueuedView ==
  ASSUME NEW c \in Contexts, NEW g, IsView(g, c), NEW e \in Entities, NEW job \in Jobs(c),
         ~ SaveWork(job)
  PROVE  IsView(Queued(g, e, job), c) /\ Queued(g, e, job).m.save = g.m.save
<1>1. g.m.jobs \in [Entities -> Seq(Jobs(c))]
  BY DEF IsView, Views, Memories
<1>2. PICK q : q = Append(g.m.jobs[e], job)
  OBVIOUS
<1>3. /\ q \in Seq(Jobs(c))
      /\ \A i \in DOMAIN g.m.jobs[e] : i \in DOMAIN q /\ q[i] = g.m.jobs[e][i]
      /\ \A i \in DOMAIN q :
           (q[i] = job) \/ (i \in DOMAIN g.m.jobs[e] /\ q[i] = g.m.jobs[e][i])
  BY <1>1, <1>2, SeqAppend
<1>4. Queued(g, e, job) = [g EXCEPT !.m.jobs[e] = q]
  BY <1>2 DEF Queued
<1>5. [g EXCEPT !.m.jobs[e] = q] \in Views(c)
  BY <1>1, <1>3 DEF IsView, Views, Memories
<1>6. /\ [g EXCEPT !.m.jobs[e] = q].m.jobs = [g.m.jobs EXCEPT ![e] = q]
      /\ [g EXCEPT !.m.jobs[e] = q].m.save = g.m.save
  BY DEF IsView, Views, Memories
<1>7. PICK h : h = [g EXCEPT !.m.jobs[e] = q]
  OBVIOUS
<1>8. OneSave(h.m)
  <2>0. h.m.jobs = [g.m.jobs EXCEPT ![e] = q]
    BY <1>6, <1>7
  <2>1. \A f \in Entities : \A i \in DOMAIN h.m.jobs[f] :
          SaveWork(h.m.jobs[f][i])
            => i \in DOMAIN g.m.jobs[f] /\ h.m.jobs[f][i] = g.m.jobs[f][i]
    <3> TAKE f \in Entities
    <3>1. CASE f = e
      BY <1>1, <1>3, <2>0, <3>1
    <3>2. CASE f # e
      BY <1>1, <2>0, <3>2
    <3> QED BY <3>1, <3>2
  <2>2. h.m.save = g.m.save
    BY <1>6, <1>7
  <2>3. OneSave(g.m)
    BY DEF IsView
  <2> QED BY <2>1, <2>2, <2>3 DEF OneSave
<1> QED BY <1>2, <1>4, <1>5, <1>6, <1>7, <1>8 DEF IsView

\* The next job of a save, queued when the one before it is gone.
LEMMA QueuedSaveView ==
  ASSUME NEW c \in Contexts, NEW g \in Views(c), NEW e \in Entities, NEW job \in Jobs(c),
         Idle(g.m), g.m.save # NoSave, g.m.save.e = e, g.m.save.phase \in Fitting(job)
  PROVE  IsView(Queued(g, e, job), c)
<1>1. g.m.jobs \in [Entities -> Seq(Jobs(c))]
  BY DEF Views, Memories
<1>2. PICK q : q = Append(g.m.jobs[e], job)
  OBVIOUS
<1>3. /\ q \in Seq(Jobs(c))
      /\ \A i \in DOMAIN g.m.jobs[e] : i \in DOMAIN q /\ q[i] = g.m.jobs[e][i]
      /\ \A i \in DOMAIN q :
           (i = Len(g.m.jobs[e]) + 1) \/ (i \in DOMAIN g.m.jobs[e] /\ q[i] = g.m.jobs[e][i])
      /\ q[Len(g.m.jobs[e]) + 1] = job
  BY <1>1, <1>2, SeqAppend
<1>4. Queued(g, e, job) = [g EXCEPT !.m.jobs[e] = q]
  BY <1>2 DEF Queued
<1>5. [g EXCEPT !.m.jobs[e] = q] \in Views(c)
  BY <1>1, <1>3 DEF Views, Memories
<1>6. /\ [g EXCEPT !.m.jobs[e] = q].m.jobs = [g.m.jobs EXCEPT ![e] = q]
      /\ [g EXCEPT !.m.jobs[e] = q].m.save = g.m.save
  BY DEF Views, Memories
<1>7. PICK h : h = [g EXCEPT !.m.jobs[e] = q]
  OBVIOUS
<1>8. OneSave(h.m)
  <2>1. \A f \in Entities : \A i \in DOMAIN h.m.jobs[f] :
          SaveWork(h.m.jobs[f][i])
            => f = e /\ i = Len(g.m.jobs[e]) + 1 /\ h.m.jobs[f][i] = job
    BY <1>1, <1>3, <1>6, <1>7 DEF Idle
  <2>2. h.m.save = g.m.save
    BY <1>6, <1>7
  <2> QED BY <2>1, <2>2 DEF OneSave
<1> QED BY <1>4, <1>5, <1>7, <1>8 DEF IsView

\* A job leaves its queue.
Popped(g, e) == [g EXCEPT !.m.jobs[e] = Tail(@)]

\* The first job of a queue is taken; if it is the one of the save, no other is.
LEMMA PoppedView ==
  ASSUME NEW c \in Contexts, NEW g, IsView(g, c), NEW e \in Entities, g.m.jobs[e] # <<>>
  PROVE  /\ IsView(Popped(g, e), c)
         /\ Popped(g, e).w = g.w /\ Popped(g, e).u = g.u
         /\ Popped(g, e).m.save = g.m.save
         /\ Head(g.m.jobs[e]) \in Jobs(c)
         /\ SaveWork(Head(g.m.jobs[e])) =>
              /\ Idle(Popped(g, e).m)
              /\ g.m.save # NoSave /\ g.m.save.e = e
              /\ g.m.save.phase \in Fitting(Head(g.m.jobs[e]))
<1>1. g.m.jobs \in [Entities -> Seq(Jobs(c))]
  BY DEF IsView, Views, Memories
<1>2. PICK q : q = Tail(g.m.jobs[e])
  OBVIOUS
<1>3. /\ q \in Seq(Jobs(c))
      /\ Head(g.m.jobs[e]) = g.m.jobs[e][1] /\ 1 \in DOMAIN g.m.jobs[e] /\ g.m.jobs[e][1] \in Jobs(c)
      /\ \A i \in DOMAIN q : i + 1 \in DOMAIN g.m.jobs[e] /\ q[i] = g.m.jobs[e][i + 1] /\ i + 1 # 1 /\ i \in Nat
  BY <1>1, <1>2, SeqTail
<1>4. Popped(g, e) = [g EXCEPT !.m.jobs[e] = q]
  BY <1>2 DEF Popped
<1>5. [g EXCEPT !.m.jobs[e] = q] \in Views(c)
  BY <1>1, <1>3 DEF IsView, Views, Memories
<1>6. PICK h : h = [g EXCEPT !.m.jobs[e] = q]
  OBVIOUS
<1>7. /\ h.w = g.w /\ h.u = g.u /\ h.m = [g.m EXCEPT !.jobs[e] = q]
      /\ h.m.jobs = [g.m.jobs EXCEPT ![e] = q]
      /\ h.m.save = g.m.save
      /\ h.m.run = g.m.run
      /\ h.m.conf = g.m.conf
      /\ h.m.shown = g.m.shown
  BY <1>6 DEF IsView, Views, Memories
<1>8. OneSave(h.m)
  <2> SUFFICES ASSUME NEW f \in Entities, NEW i \in DOMAIN h.m.jobs[f], SaveWork(h.m.jobs[f][i])
               PROVE  /\ h.m.save # NoSave /\ h.m.save.e = f
                      /\ h.m.save.phase \in Fitting(h.m.jobs[f][i])
                      /\ \A j \in DOMAIN h.m.jobs[f] : SaveWork(h.m.jobs[f][j]) => j = i
    BY DEF OneSave
  <2>1. CASE f # e
    BY <1>1, <1>7, <2>1 DEF IsView, OneSave
  <2>2. CASE f = e
    <3>1. h.m.jobs[f] = q
      BY <1>1, <1>7, <2>2
    <3>2. i + 1 \in DOMAIN g.m.jobs[e] /\ SaveWork(g.m.jobs[e][i + 1])
      BY <1>3, <3>1
    <3>3. \A j \in DOMAIN q : SaveWork(q[j]) => j + 1 = i + 1
      BY <1>3, <3>2 DEF IsView, OneSave
    <3>4. \A j \in DOMAIN q : SaveWork(q[j]) => j = i
      BY <1>3, <3>1, <3>3
    <3> QED BY <1>3, <1>7, <2>2, <3>1, <3>2, <3>4 DEF IsView, OneSave
  <2> QED BY <2>1, <2>2
<1>9. ASSUME SaveWork(Head(g.m.jobs[e]))
      PROVE  /\ Idle(h.m)
             /\ g.m.save # NoSave /\ g.m.save.e = e
             /\ g.m.save.phase \in Fitting(Head(g.m.jobs[e]))
  <2>1. /\ g.m.save # NoSave /\ g.m.save.e = e /\ g.m.save.phase \in Fitting(Head(g.m.jobs[e]))
        /\ \A j \in DOMAIN g.m.jobs[e] : SaveWork(g.m.jobs[e][j]) => j = 1
    BY <1>3, <1>9 DEF IsView, OneSave
  <2>2. \A i \in DOMAIN q : ~ SaveWork(q[i])
    BY <1>3, <2>1
  <2>3. \A f \in Entities : f # e => \A i \in DOMAIN g.m.jobs[f] : ~ SaveWork(g.m.jobs[f][i])
    BY <2>1 DEF IsView, OneSave
  <2> QED BY <1>1, <1>7, <2>1, <2>2, <2>3 DEF Idle
<1> QED BY <1>2, <1>3, <1>4, <1>5, <1>6, <1>7, <1>8, <1>9 DEF IsView

-----------------------------------------------------------------------------
(* The steps of a save *)

Saving(m) == m.save # NoSave

\* The fields of a save under way.
LEMMA SavingFields ==
  ASSUME NEW c \in Contexts, NEW g \in Views(c), Saving(g.m)
  PROVE  /\ g.m.save.phase \in {"persist", "mark", "repersist", "unmark", "ready", "sent"}
         /\ g.m.save.how \in Intercepted /\ g.m.save.e \in Entities /\ g.m.save.base \in Nat
         /\ g.m.save.pay \in Payloads(c) /\ g.m.save.draft \in Drafts(c) \cup {NoDraft}
         /\ g.m.save.rid \in 0 .. c.now /\ g.m.save.tries \in Nat
         /\ g.m.save \in RunningSaves(c)
BY DEF Views, Memories, Saving, Saves, RunningSaves

\* A save whose request is ready or sent has no job left.
LEMMA UnderWay ==
  ASSUME NEW c \in Contexts, NEW g, IsView(g, c), g.m.save.phase \in {"ready", "sent"}
  PROVE  Idle(g.m)
BY DEF IsView, OneSave, Idle, Fitting, SaveWork

\* A page without a job of a save is sound.
LEMMA IdleView ==
  ASSUME NEW c \in Contexts, NEW g \in Views(c), Idle(g.m)
  PROVE  IsView(g, c)
BY DEF IsView, OneSave, Idle

\* A save comes to its end.
LEMMA SaveEndsView ==
  ASSUME NEW c \in Contexts, NEW g \in Views(c), Idle(g.m), NEW label \in Labels
  PROVE  /\ IsView(SaveEnds(g, label), c)
         /\ Idle(SaveEnds(g, label).m) /\ SaveEnds(g, label).w = g.w
<1>1. PICK u \in Statuses : u = WithLabelFor(g.u, g.m.save.e, g.w.sel, label)
  BY WithLabelType DEF Views
<1>2. PICK m : m = [g.m EXCEPT !.save = NoSave]
  OBVIOUS
<1>3. m \in Memories(c) /\ m.jobs = g.m.jobs
  BY <1>2 DEF Views, Memories, Saves
<1>4. SaveEnds(g, label) = [g EXCEPT !.m = m, !.u = u]
  BY <1>1, <1>2 DEF Views, SaveEnds
<1>5. PICK h : h = [g EXCEPT !.m = m, !.u = u]
  OBVIOUS
<1>6. h \in Views(c) /\ h.m = m /\ h.w = g.w
  BY <1>1, <1>3, <1>5 DEF Views
<1>7. Idle(h.m)
  BY <1>3, <1>6 DEF Idle
<1> QED BY <1>3, <1>4, <1>5, <1>6, <1>7, IdleView

\* A save fails.
LEMMA SaveFailsView ==
  ASSUME NEW c \in Contexts, NEW g \in Views(c), Idle(g.m)
  PROVE  IsView(SaveFails(g), c)
BY SaveEndsView, StatusLabels DEF SaveFails

\* An attempt is entered: the component and the save have its UUID.
LEMMA AttemptedNowView ==
  ASSUME NEW c \in Contexts, NEW g \in Views(c), Saving(g.m), NEW pay \in Payloads(c),
         NEW id \in 0 .. c.now, NEW rid \in 1 .. c.now, <<rid, id>> \in c.names
  PROVE  /\ AttemptedNow(g, pay, id, rid) \in Views(c)
         /\ (Idle(g.m) => Idle(AttemptedNow(g, pay, id, rid).m))
         /\ AttemptedNow(g, pay, id, rid).m.save = [g.m.save EXCEPT !.rid = rid]
         /\ Saving(AttemptedNow(g, pay, id, rid).m)
         /\ AttemptedNow(g, pay, id, rid).w = [g.w EXCEPT !.pend = rid]
         /\ AttemptedNow(g, pay, id, rid).u = g.u
<1>1. PICK s : s = [g.m.save EXCEPT !.rid = rid]
  OBVIOUS
<1>2. s \in Saves(c) /\ s # NoSave
  BY <1>1, SavingFields DEF Saves, RunningSaves, NoSave
<1>3. PICK a : a = [rid |-> rid, e |-> g.m.save.e, id |-> id, pay |-> pay,
                    rev |-> g.m.rev[g.m.save.e], evRev |-> g.m.evRev[g.m.save.e]]
  OBVIOUS
<1>4. a \in Attempts(c)
  <2>1. g.m.rev[g.m.save.e] \in Nat /\ g.m.evRev[g.m.save.e] \in Nat
    BY SavingFields DEF Views, Memories
  <2> QED BY <1>3, <2>1, SavingFields DEF Attempts, AttemptFields
<1>5. PICK as : as = {x \in g.m.attempts : x.rid # rid} \cup {a}
  OBVIOUS
<1>6. as \in SUBSET Attempts(c)
  BY <1>4, <1>5 DEF Views, Memories
<1>7. PICK m : m = [g.m EXCEPT !.attempts = as, !.save = s]
  OBVIOUS
<1>8. m \in Memories(c) /\ m.jobs = g.m.jobs /\ m.save = s
  BY <1>2, <1>6, <1>7 DEF Views, Memories
<1>9. PICK w : w = [g.w EXCEPT !.pend = rid]
  OBVIOUS
<1>10. w \in Components(c)
  BY <1>9 DEF Views, Components
<1>11. AttemptedNow(g, pay, id, rid) = [g EXCEPT !.m = m, !.w = w]
  BY <1>1, <1>3, <1>5, <1>7, <1>9 DEF AttemptedNow, Views, Memories
<1>12. PICK h : h = [g EXCEPT !.m = m, !.w = w]
  OBVIOUS
<1>13. h \in Views(c) /\ h.m = m /\ h.w = w /\ h.u = g.u
  BY <1>8, <1>10, <1>12 DEF Views
<1>14. Idle(g.m) => Idle(h.m)
  BY <1>8, <1>13 DEF Idle
<1> QED BY <1>1, <1>2, <1>8, <1>9, <1>11, <1>12, <1>13, <1>14 DEF Saving

\* The save of a view, moved on.

\* A save under way stays one as its draft, phase or UUID change.
LEMMA RunningSave ==
  ASSUME NEW c \in Contexts, NEW s \in RunningSaves(c)
  PROVE  /\ s \in Saves(c) /\ s # NoSave
         /\ \A d \in Drafts(c) : [s EXCEPT !.draft = d] \in RunningSaves(c)
         /\ \A f \in {"mark", "ready", "repersist", "unmark", "sent"} :
              [s EXCEPT !.phase = f] \in RunningSaves(c)
         /\ \A rid \in 0 .. c.now : [s EXCEPT !.rid = rid] \in RunningSaves(c)
BY DEF RunningSaves, Saves, NoSave

\* A view with another save.
WithSave(g, s) == [g EXCEPT !.m.save = s]

\* Two updates of the save in a view, as one of the save.
LEMMA Updates ==
  ASSUME NEW g
  PROVE  /\ \A d : [g EXCEPT !.m.save.draft = d] = WithSave(g, [g.m.save EXCEPT !.draft = d])
         /\ \A f : [g EXCEPT !.m.save.phase = f] = WithSave(g, [g.m.save EXCEPT !.phase = f])
BY DEF WithSave

\* The save may be replaced while no job of one is queued.
LEMMA SaveMoved ==
  ASSUME NEW c \in Contexts, NEW g \in Views(c), NEW s \in Saves(c)
  PROVE  /\ WithSave(g, s) \in Views(c)
         /\ (Idle(g.m) => Idle(WithSave(g, s).m)) /\ WithSave(g, s).m.save = s
         /\ WithSave(g, s).w = g.w /\ WithSave(g, s).u = g.u
         /\ WithSave(g, s).m.attempts = g.m.attempts
<1> PICK h : h = WithSave(g, s)
  OBVIOUS
<1>1. PICK m : m = [g.m EXCEPT !.save = s]
  OBVIOUS
<1>2. m \in Memories(c) /\ m.jobs = g.m.jobs /\ m.save = s /\ m.attempts = g.m.attempts
  BY <1>1 DEF Views, Memories
<1>3. h = [g EXCEPT !.m = m]
  BY <1>1 DEF Views, WithSave
<1>4. h \in Views(c) /\ h.m = m /\ h.w = g.w /\ h.u = g.u
  BY <1>2, <1>3 DEF Views
<1>5. Idle(g.m) => Idle(h.m)
  BY <1>2, <1>4 DEF Idle
<1> QED BY <1>2, <1>4, <1>5

\* What the equalities between updated views rest on.
LEMMA Fields ==
  ASSUME NEW c \in Contexts, NEW g \in Views(c)
  PROVE  /\ g \in [w : Components(c), m : Memories(c), u : Statuses]
         /\ DOMAIN g.m = {"active", "timer", "rev", "evRev", "attempts", "newer", "structural",
                          "shown", "broken", "jobs", "save", "conf", "due", "run", "tail"}
         /\ DOMAIN g.w = {"on", "sel", "form", "canon", "ver", "stat", "pend", "ro"}
         /\ DOMAIN g.m.active = Entities /\ DOMAIN g.m.timer = Entities
         /\ DOMAIN g.m.rev = Entities /\ DOMAIN g.m.evRev = Entities
         /\ DOMAIN g.m.newer = Entities /\ DOMAIN g.m.structural = Entities
         /\ DOMAIN g.m.jobs = Entities
BY DEF Views, Memories, Components

\* A view made of its parts.
View(w, m, u) == [w |-> w, m |-> m, u |-> u]

\* The parts of a view, put together,
LEMMA ViewIs ==
  ASSUME NEW w, NEW m, NEW u
  PROVE  /\ View(w, m, u).w = w /\ View(w, m, u).m = m /\ View(w, m, u).u = u
         /\ \A c : w \in Components(c) /\ m \in Memories(c) /\ u \in Statuses
                    => View(w, m, u) \in Views(c)
BY DEF View, Views

\* A view with another memory and another status, or another component.
Shown(g, m, u) == [g EXCEPT !.m = m, !.u = u]
Loaded(g, w, m) == [g EXCEPT !.w = w, !.m = m]

\* and taken apart.
LEMMA Parts ==
  ASSUME NEW c \in Contexts, NEW g \in Views(c)
  PROVE  /\ g = View(g.w, g.m, g.u)
         /\ \A x : [g EXCEPT !.m = x] = View(g.w, x, g.u)
         /\ \A x : [g EXCEPT !.u = x] = View(g.w, g.m, x)
         /\ \A x, y : Shown(g, x, y) = View(g.w, x, y)
         /\ \A x, y : Loaded(g, x, y) = View(x, y, g.u)
<1>1. PICK T, M, U : g \in [w : T, m : M, u : U]
  BY DEF Views
<1>2. g = View(g.w, g.m, g.u)
  BY <1>1 DEF View
<1>3. \A x : [g EXCEPT !.m = x] = View(g.w, x, g.u)
  BY <1>1 DEF View
<1>4. \A x : [g EXCEPT !.u = x] = View(g.w, g.m, x)
  BY <1>1 DEF View
<1>5. \A x, y : Shown(g, x, y) = View(g.w, x, y)
  <2> TAKE x, y
  <2>1. PICK h : h = [g EXCEPT !.m = x, !.u = y]
    OBVIOUS
  <2>2. DOMAIN h = {"w", "m", "u"} /\ h = [i \in {"w", "m", "u"} |-> h[i]]
    BY <1>1, <2>1
  <2>3. h.w = View(g.w, x, y).w /\ h.m = View(g.w, x, y).m /\ h.u = View(g.w, x, y).u
    BY <1>1, <2>1 DEF View
  <2> QED BY <2>1, <2>2, <2>3 DEF View, Shown, Loaded
<1>6. \A x, y : Loaded(g, x, y) = View(x, y, g.u)
  <2> TAKE x, y
  <2>1. PICK h : h = [g EXCEPT !.w = x, !.m = y]
    OBVIOUS
  <2>2. DOMAIN h = {"w", "m", "u"} /\ h = [i \in {"w", "m", "u"} |-> h[i]]
    BY <1>1, <2>1
  <2>3. h.w = View(x, y, g.u).w /\ h.m = View(x, y, g.u).m /\ h.u = View(x, y, g.u).u
    BY <1>1, <2>1 DEF View
  <2> QED BY <2>1, <2>2, <2>3 DEF View, Shown, Loaded
<1> QED BY <1>2, <1>3, <1>4, <1>5, <1>6

\* A view put together from other parts, with the same queues and save.
LEMMA ViewStill ==
  ASSUME NEW c \in Contexts, NEW g, IsView(g, c), NEW w \in Components(c), NEW m \in Memories(c),
         NEW u \in Statuses, m.jobs = g.m.jobs, m.save = g.m.save
  PROVE  IsView(View(w, m, u), c) /\ (Idle(g.m) => Idle(m))
<1>1. View(w, m, u) \in Views(c) /\ View(w, m, u).m = m
  BY ViewIs
<1> QED BY <1>1, Still, SameWork DEF IsView

\* The fields of a draft.
LEMMA LegitFields ==
  ASSUME NEW c \in Contexts, NEW d \in Drafts(c)
  PROVE  /\ d \in DraftFields(c) /\ Legit(d, c)
         /\ d.id \in 1 .. c.now /\ d.e \in Entities /\ d.tab \in Pages /\ d.base \in Nat
         /\ d.req \in 1 .. c.now /\ d.att \in 0 .. c.now /\ d.pay \in Payloads(c)
         /\ d.pay.n \in 0 .. c.now
         /\ d.at \in 1 .. c.now /\ d.src \in 0 .. c.now /\ d.srcAt \in 0 .. c.now
         /\ d.confirmed \in 0 .. c.now
         /\ c.now \in Nat
BY DEF Drafts, DraftFields, Payloads, Contexts

\* A record with the fields and the past of a draft is a draft.
LEMMA DraftBy ==
  ASSUME NEW c \in Contexts, NEW d \in DraftFields(c), Legit(d, c)
  PROVE  d \in Drafts(c)
BY DEF Drafts

\* Marking an attempt, taking it back and rebasing keep a draft a draft.
LEMMA AttemptDrafts ==
  ASSUME NEW c \in Contexts, NEW d \in Drafts(c)
  PROVE  /\ Attempted(d) \in Drafts(c) /\ Unattempted(d) \in Drafts(c)
         /\ \A ver \in Nat : Rebased(d, ver) \in Drafts(c)
<1>0. /\ d \in DraftFields(c) /\ Legit(d, c) /\ 0 \in 0 .. c.now /\ d.req \in 0 .. c.now
      /\ d.req # 0
  BY LegitFields
<1>1. Attempted(d) \in DraftFields(c) /\ Legit(Attempted(d), c)
  BY <1>0 DEF Attempted, DraftFields, Legit, Birth, OvertakenAt
<1>2. Unattempted(d) \in DraftFields(c) /\ Legit(Unattempted(d), c)
  BY <1>0 DEF Unattempted, DraftFields, Legit, Birth, OvertakenAt
<1>3. ASSUME NEW ver \in Nat
      PROVE  Rebased(d, ver) \in DraftFields(c) /\ Legit(Rebased(d, ver), c)
  BY <1>0 DEF Rebased, DraftFields, Legit, Birth, OvertakenAt
<1> QED BY <1>1, <1>2, <1>3, DraftBy

\* The clock goes on.
Later(c, t) == [c EXCEPT !.now = t]

\* Time passes.
LEMMA LaterContext ==
  ASSUME NEW c \in Contexts, NEW t \in Nat, c.now <= t
  PROVE  Later(c, t) \in Contexts /\ Grows(c, Later(c, t)) /\ Later(c, t).now = t
<1>1. PICK l : l = Later(c, t)
  OBVIOUS
<1>2. /\ l \in [now : Nat, names : SUBSET (Nat \X Nat), born : SUBSET Births,
                rows : SUBSET [rid : Nat, e : Entities, ver : Nat]]
      /\ l.now = t /\ l.names = c.names /\ l.born = c.born /\ l.rows = c.rows
  BY <1>1 DEF Later, Contexts
<1>3. Grows(c, l)
  BY <1>2 DEF Grows, Younger
<1>4. c.now \in Nat /\ \A r \in c.rows : r.rid \in Nat
  BY DEF Contexts
<1>5. /\ \A r, i : <<r, i>> \in c.names => r <= t
      /\ \A b \in c.born : b.id <= t
      /\ \A r \in c.rows : r.rid <= t
  <2>1. ASSUME NEW r, NEW i, <<r, i>> \in c.names  PROVE r <= t
    BY <1>4, <2>1 DEF Contexts
  <2>2. ASSUME NEW b \in c.born  PROVE b.id <= t
    BY <1>4 DEF Contexts, Births
  <2>3. ASSUME NEW r \in c.rows  PROVE r.rid <= t
    BY <1>4 DEF Contexts
  <2> QED BY <2>1, <2>2, <2>3
<1>6. l \in Contexts
  BY <1>2, <1>5 DEF Contexts
<1> QED BY <1>1, <1>2, <1>3, <1>6

\* A request UUID is handed out for a draft.
Named(c, t, i) == [c EXCEPT !.now = t, !.names = @ \cup {<<t, i>>}]

\* A request UUID is handed out to a draft (crypto.randomUUID).
LEMMA NamedContext ==
  ASSUME NEW c \in Contexts, NEW t \in Nat, c.now < t, NEW i \in Nat
  PROVE  /\ Named(c, t, i) \in Contexts /\ Grows(c, Named(c, t, i)) /\ Named(c, t, i).now = t
         /\ <<t, i>> \in Named(c, t, i).names
<1>1. PICK l : l = Named(c, t, i)
  OBVIOUS
<1>2. /\ l \in [now : Nat, names : SUBSET (Nat \X Nat), born : SUBSET Births,
                rows : SUBSET [rid : Nat, e : Entities, ver : Nat]]
      /\ l.now = t /\ l.names = c.names \cup {<<t, i>>} /\ l.born = c.born /\ l.rows = c.rows
  <2>1. PICK n : n = c.names \cup {<<t, i>>}
    OBVIOUS
  <2>2. n \in SUBSET (Nat \X Nat)
    BY <2>1 DEF Contexts
  <2>3. l = [c EXCEPT !.now = t, !.names = n]
    BY <1>1, <2>1 DEF Named
  <2> QED BY <2>1, <2>2, <2>3 DEF Contexts
<1>3. Grows(c, l) /\ <<t, i>> \in l.names
  <2>1. c.now \in Nat /\ t > c.now
    BY DEF Contexts
  <2>2. \A r, j : <<r, j>> \in l.names => <<r, j>> \in c.names \/ r = t
    BY <1>2
  <2>3. Younger(c, l)
    BY <2>1, <2>2 DEF Younger
  <2> QED BY <1>2, <2>1, <2>3 DEF Grows
<1>4. c.now \in Nat
  BY DEF Contexts
<1>5. /\ \A b \in c.born : b.id <= t
      /\ \A r \in c.rows : r.rid <= t
  <2>2. ASSUME NEW b \in c.born  PROVE b.id <= t
    BY <1>4 DEF Contexts, Births
  <2>3. ASSUME NEW r \in c.rows  PROVE r.rid <= t
    BY <1>4 DEF Contexts
  <2> QED BY <2>2, <2>3
<1>6. ASSUME NEW r, NEW j, <<r, j>> \in c.names
      PROVE  r \in Nat /\ r < t
  BY <1>4, <1>6 DEF Contexts
<1>7. ASSUME NEW r, NEW j, <<r, j>> \in l.names
      PROVE  <<r, j>> \in c.names \/ (r = t /\ j = i)
  BY <1>2, <1>7
<1>8. \A r, j : <<r, j>> \in l.names => r <= l.now
  BY <1>2, <1>6, <1>7
<1>9. ASSUME NEW r, NEW j, NEW m, <<r, j>> \in l.names, <<r, m>> \in l.names
      PROVE  j = m
  <2>1. <<r, j>> \in c.names \/ (r = t /\ j = i)
    BY <1>7, <1>9
  <2>2. <<r, m>> \in c.names \/ (r = t /\ m = i)
    BY <1>7, <1>9
  <2>3. <<r, j>> \in c.names => r # t
    BY <1>6
  <2>4. <<r, m>> \in c.names => r # t
    BY <1>6
  <2>5. CASE r = t
    BY <2>1, <2>2, <2>3, <2>4, <2>5
  <2>6. CASE r # t
    BY <2>1, <2>2, <2>6 DEF Contexts
  <2> QED BY <2>5, <2>6
<1>10. l \in Contexts
  BY <1>2, <1>5, <1>8, <1>9 DEF Contexts
<1> QED BY <1>1, <1>2, <1>3, <1>10

\* A draft is made.
Made(c, b) == [Named(c, b.id, b.id) EXCEPT !.born = @ \cup {b}]

\* A draft is made, with its identifier and its request UUID.
LEMMA MadeContext ==
  ASSUME NEW c \in Contexts, NEW b \in Births, c.now < b.id,
         b.src # 0 => \E x \in c.born : x.id = b.src /\ x.e = b.e
  PROVE  /\ Made(c, b) \in Contexts /\ Grows(c, Made(c, b)) /\ Made(c, b).now = b.id
         /\ <<b.id, b.id>> \in Made(c, b).names /\ b \in Made(c, b).born
<1>0. b.id \in Nat /\ c.now \in Nat
  BY DEF Births, Contexts
<1>1. PICK m : m = Named(c, b.id, b.id)
  OBVIOUS
<1>2. m \in Contexts /\ Grows(c, m) /\ m.now = b.id /\ <<b.id, b.id>> \in m.names
  BY <1>0, <1>1, NamedContext
<1>3. m.born = c.born
  BY <1>1 DEF Named, Contexts
<1>4. PICK l : l = [m EXCEPT !.born = @ \cup {b}]
  OBVIOUS
<1>5. /\ l \in [now : Nat, names : SUBSET (Nat \X Nat), born : SUBSET Births,
                rows : SUBSET [rid : Nat, e : Entities, ver : Nat]]
      /\ l.now = m.now /\ l.names = m.names /\ l.born = c.born \cup {b} /\ l.rows = m.rows
  BY <1>2, <1>3, <1>4 DEF Contexts
<1>6. /\ \A r, i : <<r, i>> \in l.names => r <= l.now
      /\ \A r, i, j : <<r, i>> \in l.names /\ <<r, j>> \in l.names => i = j
      /\ \A r \in l.rows : r.rid <= l.now
  BY <1>2, <1>5 DEF Contexts
<1>7. ASSUME NEW x \in l.born
      PROVE  /\ x.id <= l.now
             /\ \A y \in l.born : y.id = x.id => y = x
             /\ x.src # 0 => \E y \in l.born : y.id = x.src /\ y.e = x.e
  <2>1. \A y \in c.born : y.id \in Nat /\ y.id <= c.now /\ y.id # b.id
    BY <1>0 DEF Contexts, Births
  <2>2. CASE x = b
    BY <1>0, <1>2, <1>5, <2>1, <2>2
  <2>3. CASE x \in c.born
    <3>1. /\ \A y \in c.born : y.id = x.id => y = x
          /\ x.src # 0 => \E y \in c.born : y.id = x.src /\ y.e = x.e
      BY <2>3 DEF Contexts
    <3> QED BY <1>0, <1>2, <1>5, <2>1, <2>3, <3>1
  <2> QED BY <1>5, <2>2, <2>3
<1>8. l \in Contexts
  BY <1>5, <1>6, <1>7 DEF Contexts
<1>9. Grows(c, l) /\ l.now = b.id /\ <<b.id, b.id>> \in l.names /\ b \in l.born
  BY <1>2, <1>5 DEF Grows, Younger
<1> QED BY <1>1, <1>4, <1>8, <1>9 DEF Made

\* The fields of a draft, and of it later on.
LEMMA DraftLater ==
  ASSUME NEW c \in Contexts, NEW l \in Contexts, Grows(c, l), NEW d \in Drafts(c)
  PROVE  /\ d \in Drafts(l) /\ d \in DraftFields(l) /\ Legit(d, l)
         /\ d.id \in 1 .. l.now /\ d.req \in 1 .. l.now /\ d.at \in 1 .. l.now
         /\ d.id \in 1 .. c.now /\ d.req \in 1 .. c.now /\ d.at \in 1 .. c.now
         /\ c.now \in Nat /\ l.now \in Nat
BY DraftsGrow, LegitFields

\* A draft that is made is a draft,
LEMMA NewDraftType ==
  ASSUME NEW c \in Contexts, NEW l \in Contexts, Grows(c, l), NEW pay \in Payloads(c),
         NEW p \in Pages, NEW e \in Entities, NEW base \in Nat, NEW t \in 1 .. l.now, c.now < t,
         <<t, t>> \in l.names, [id |-> t, e |-> e, src |-> 0, at |-> 0] \in l.born
  PROVE  NewDraft(p, e, pay, base, t) \in Drafts(l)
<1>0. pay \in Payloads(l) /\ 0 \in 0 .. l.now /\ c.now \in Nat /\ pay.n \in 0 .. c.now
  BY PayloadsGrow DEF Contexts, Payloads
<1>1. PICK d : d = NewDraft(p, e, pay, base, t)
  OBVIOUS
<1>2. /\ d \in DraftFields(l) /\ d.req = t /\ d.id = t /\ d.e = e /\ d.src = 0 /\ d.srcAt = 0
      /\ d.pay = pay /\ d.at = t /\ d.confirmed = 0
  BY <1>0, <1>1 DEF NewDraft, DraftFields
<1>3. pay.n < t
  BY <1>0
<1>4. Legit(d, l)
  BY <1>2, <1>3 DEF Legit, Birth
<1> QED BY <1>1, <1>2, <1>4, DraftBy

\* and one that is written again with a new UUID,
LEMMA RewrittenType ==
  ASSUME NEW c \in Contexts, NEW l \in Contexts, Grows(c, l), NEW d \in Drafts(c),
         NEW pay \in Payloads(c), NEW t \in 1 .. l.now, c.now < t, <<t, d.id>> \in l.names
  PROVE  Rewritten(d, pay, t) \in Drafts(l)
<1>0. /\ d \in DraftFields(l) /\ Legit(d, l) /\ c.now \in Nat /\ l.now \in Nat /\ t \in Nat
      /\ d.pay.n \in 0 .. c.now /\ pay.n \in 0 .. c.now /\ pay \in Payloads(l)
      /\ d.srcAt \in 0 .. c.now /\ 0 \in 0 .. l.now
  <2>1. pay.n \in 0 .. c.now
    BY DEF Payloads
  <2>2. pay \in Payloads(l)
    BY PayloadsGrow
  <2>3. c.now \in Nat /\ l.now \in Nat
    BY DEF Contexts
  <2>4. 0 \in 0 .. l.now /\ t \in Nat
    BY <2>3
  <2>5. d \in DraftFields(l) /\ Legit(d, l)
    BY DraftLater
  <2>6. d.pay.n \in 0 .. c.now /\ d.srcAt \in 0 .. c.now
    BY LegitFields
  <2> QED BY <2>1, <2>2, <2>3, <2>4, <2>5, <2>6
<1>1. CASE d.pay = pay
  <2>1. PICK x : x = [d EXCEPT !.at = t]
    OBVIOUS
  <2>2. /\ x \in DraftFields(l) /\ x.at = t /\ x.pay = d.pay /\ x.id = d.id /\ x.e = d.e
        /\ x.src = d.src /\ x.srcAt = d.srcAt /\ x.req = d.req /\ x.att = d.att
        /\ x.confirmed = d.confirmed
    BY <1>0, <2>1 DEF DraftFields
  <2>3. d.pay.n < t
    BY <1>0
  <2>4. Legit(x, l)
    BY <1>0, <2>2, <2>3 DEF Legit, Birth, OvertakenAt
  <2> QED BY <1>1, <2>1, <2>2, <2>4, DraftBy DEF Rewritten
<1>2. CASE d.pay # pay
  <2>1. PICK r : r = IF d.att # 0 /\ d.req = d.att THEN t ELSE d.req
    OBVIOUS
  <2>2. PICK x : x = [d EXCEPT !.pay = pay, !.at = t, !.confirmed = 0, !.req = r]
    OBVIOUS
  <2>3. x = Rewritten(d, pay, t)
    BY <1>2, <2>1, <2>2 DEF Rewritten
  <2>4. r \in 1 .. l.now /\ <<r, d.id>> \in l.names /\ (d.src # 0 => d.srcAt < r)
    BY <1>0, <2>1 DEF DraftFields, Legit
  <2>5. /\ x \in DraftFields(l) /\ x.at = t /\ x.pay = pay /\ x.id = d.id /\ x.e = d.e
        /\ x.src = d.src /\ x.srcAt = d.srcAt /\ x.req = r /\ x.att = d.att
        /\ x.confirmed = 0
    BY <1>0, <2>2, <2>4 DEF DraftFields
  <2>6. pay.n < t
    BY <1>0
  <2>7. Legit(x, l)
    BY <1>0, <2>4, <2>5, <2>6 DEF Legit, Birth
  <2> QED BY <2>3, <2>5, <2>7, DraftBy
<1> QED BY <1>1, <1>2

\* one that goes on after its confirmation, its mark still true,
LEMMA ContinuedType ==
  ASSUME NEW c \in Contexts, NEW l \in Contexts, Grows(c, l), NEW d \in Drafts(c),
         NEW pay \in Payloads(c), NEW ver \in Nat, NEW t \in 1 .. l.now, c.now < t,
         <<t, d.id>> \in l.names
  PROVE  Continued(d, pay, ver, t) \in Drafts(l)
<1>0. /\ d \in DraftFields(l) /\ Legit(d, l) /\ Legit(d, c) /\ c.now \in Nat /\ t \in Nat
      /\ pay.n \in 0 .. c.now /\ pay \in Payloads(l)
      /\ d.srcAt \in 0 .. c.now /\ 0 \in 0 .. l.now /\ c.rows \subseteq l.rows
  <2>1. pay.n \in 0 .. c.now
    BY DEF Payloads
  <2>2. pay \in Payloads(l)
    BY PayloadsGrow
  <2>3. c.now \in Nat /\ l.now \in Nat
    BY DEF Contexts
  <2>4. 0 \in 0 .. l.now /\ t \in Nat
    BY <2>3
  <2>5. d \in DraftFields(l) /\ Legit(d, l)
    BY DraftLater
  <2>6. Legit(d, c) /\ d.srcAt \in 0 .. c.now
    BY LegitFields
  <2> QED BY <2>1, <2>2, <2>3, <2>4, <2>5, <2>6, RangesGrow
<1>1. PICK x : x = Continued(d, pay, ver, t)
  OBVIOUS
<1>2. /\ x \in DraftFields(l) /\ x.at = t /\ x.pay = pay /\ x.id = d.id /\ x.e = d.e
      /\ x.src = d.src /\ x.srcAt = d.srcAt /\ x.req = t /\ x.att = 0
      /\ x.confirmed = d.confirmed
  BY <1>0, <1>1 DEF DraftFields, Continued
<1>3. pay.n < t /\ d.srcAt < t
  BY <1>0
<1>4. d.confirmed # 0 => OvertakenAt(x, l)
  <2> SUFFICES ASSUME d.confirmed # 0  PROVE OvertakenAt(x, l)
    OBVIOUS
  <2>1. PICK r \in c.rows : r.e = d.e /\ r.ver = d.confirmed
    BY <1>0 DEF Legit, OvertakenAt
  <2>2. r.rid \in Nat /\ r.rid <= c.now
    BY <2>1 DEF Contexts
  <2>3. t > r.rid
    BY <1>0, <2>2
  <2> QED BY <1>0, <1>2, <2>1, <2>3 DEF OvertakenAt
<1>5. Legit(x, l)
  BY <1>0, <1>2, <1>3, <1>4 DEF Legit, Birth
<1> QED BY <1>1, <1>2, <1>5, DraftBy

\* and the copy another tab makes of it.
LEMMA AdoptedType ==
  ASSUME NEW c \in Contexts, NEW l \in Contexts, Grows(c, l), NEW d \in Drafts(c), NEW p \in Pages,
         NEW t \in 1 .. l.now, c.now < t, <<t, t>> \in l.names,
         [id |-> t, e |-> d.e, src |-> d.id, at |-> d.at] \in l.born
  PROVE  Adopted(d, p, t) \in Drafts(l)
<1>0. /\ d \in Drafts(l) /\ d \in DraftFields(l) /\ Legit(d, l) /\ Legit(d, c) /\ c.now \in Nat
      /\ t \in Nat /\ d.pay.n \in 0 .. c.now /\ d.at \in 1 .. c.now /\ d.id \in 1 .. c.now
      /\ d.id \in 0 .. l.now /\ d.at \in 0 .. l.now /\ 0 \in 0 .. l.now
  BY DraftLater, LegitFields
<1>1. CASE d.tab = p
  BY <1>0, <1>1 DEF Adopted
<1>2. CASE d.tab # p
  <2>1. PICK x : x = [d EXCEPT !.id = t, !.tab = p, !.req = t, !.att = 0,
                 !.src = d.id, !.srcAt = d.at, !.at = t]
    OBVIOUS
  <2>2. /\ x \in DraftFields(l) /\ x.at = t /\ x.pay = d.pay /\ x.id = t /\ x.e = d.e
        /\ x.src = d.id /\ x.srcAt = d.at /\ x.req = t /\ x.att = 0
        /\ x.confirmed = d.confirmed
    BY <1>0, <2>1 DEF DraftFields
  <2>3. d.pay.n < t /\ d.at < t
    BY <1>0
  <2>4. d.confirmed # 0 => OvertakenAt(x, l)
    <3> SUFFICES ASSUME d.confirmed # 0  PROVE OvertakenAt(x, l)
      OBVIOUS
    <3>1. PICK r \in c.rows : r.e = d.e /\ r.ver = d.confirmed
      BY <1>0 DEF Legit, OvertakenAt
    <3>2. r.rid \in Nat /\ r.rid <= c.now /\ r \in l.rows
      BY <3>1, RangesGrow DEF Contexts
    <3>3. t > r.rid
      BY <1>0, <3>2
    <3> QED BY <2>2, <3>1, <3>2, <3>3 DEF OvertakenAt
  <2>5. Legit(x, l)
    BY <2>2, <2>3, <2>4 DEF Legit, Birth
  <2>6. x = Adopted(d, p, t)
    BY <1>2, <2>1 DEF Adopted
  <2> QED BY <2>2, <2>5, <2>6, DraftBy
<1> QED BY <1>1, <1>2

\* A confirmation of the save of a copy marks the draft it was made from.
LEMMA MarkedType ==
  ASSUME NEW c \in Contexts, NEW ds \in SUBSET Drafts(c), NEW rid \in Nat, NEW e \in Entities,
         NEW ver \in 1 .. c.now, Applies(rid, e, ver, c), NEW src \in SourcesOf(rid, e, c)
  PROVE  SourceMarked(ds, src, ver) \in SUBSET Drafts(c)
<1> SUFFICES ASSUME NEW s \in ds, s.id = src.id, s.at = src.at
             PROVE  [s EXCEPT !.confirmed = ver] \in Drafts(c)
  BY DEF SourceMarked
<1>0. s \in DraftFields(c) /\ Legit(s, c) /\ ver \in 0 .. c.now /\ s.pay.n \in Nat /\ s.at \in Nat
      /\ s.pay.n < s.at
  BY LegitFields DEF Legit
<1>1. PICK x : x = [s EXCEPT !.confirmed = ver]
  OBVIOUS
<1>2. /\ x \in DraftFields(c) /\ x.at = s.at /\ x.pay = s.pay /\ x.id = s.id /\ x.e = s.e
      /\ x.src = s.src /\ x.srcAt = s.srcAt /\ x.req = s.req /\ x.att = s.att
      /\ x.confirmed = ver
  BY <1>0, <1>1 DEF DraftFields
<1>3. s.e = e
  <2>1. PICK b \in c.born : b.id = src.id /\ b.e = e
    BY DEF SourcesOf
  <2>2. Birth(s) \in c.born /\ Birth(s).id = src.id /\ Birth(s).e = s.e
    BY <1>0 DEF Legit, Birth
  <2> QED BY <2>1, <2>2 DEF Contexts
<1>4. s.pay.n < rid
  BY <1>0 DEF SourcesOf
<1>5. OvertakenAt(x, c)
  <2>1. PICK r \in c.rows : r.rid = rid /\ r.e = e /\ r.ver = ver
    BY DEF Applies
  <2>2. r.rid > x.pay.n
    BY <1>0, <1>2, <1>4, <2>1
  <2> QED BY <1>2, <1>3, <2>1, <2>2 DEF OvertakenAt
<1>6. Legit(x, c)
  BY <1>0, <1>2, <1>5 DEF Legit, Birth
<1> QED BY <1>1, <1>2, <1>6, DraftBy

\* The job that takes a mark back.
LEMMA UnmarkJobType ==
  ASSUME NEW c \in Contexts, NEW d \in Drafts(c)
  PROVE  UnmarkJob(d) \in Jobs(c) /\ SaveWork(UnmarkJob(d)) /\ Fitting(UnmarkJob(d)) = {"unmark"}
<1>1. Unattempted(d) \in Drafts(c)
  BY AttemptDrafts
<1>2. PutPlan(Unattempted(d)) \in Puts(c)
  BY <1>1 DEF PutPlan, Puts
<1> QED BY <1>2 DEF Jobs, Unmarks, SaveWork, Fitting, UnmarkJob

\* After the draft of a save is kept, its attempt is to be marked, or the save ends.
LEMMA AfterPersistView ==
  ASSUME NEW c \in Contexts, NEW g \in Views(c), Idle(g.m), Saving(g.m), NEW d \in Drafts(c)
  PROVE  IsView(AfterPersist(g, d), c)
<1>1. PICK s : s = [g.m.save EXCEPT !.draft = d]
  OBVIOUS
<1>0. g.m.save \in RunningSaves(c) /\ g.m.save.e \in Entities
  BY SavingFields
<1>2. s \in RunningSaves(c) /\ s.e = g.m.save.e
  BY <1>0, <1>1, RunningSave DEF RunningSaves
<1>3. PICK h : h = WithSave(g, s)
  OBVIOUS
<1>4. h \in Views(c) /\ Idle(h.m) /\ h.m.save = s
  <2>1. s \in Saves(c)
    BY <1>2, RunningSave
  <2> QED BY <1>3, <2>1, SaveMoved
<1>5. [g EXCEPT !.m.save.draft = d] = h
  BY <1>1, <1>3, Updates
<1>6. CASE ~ online
  <2>1. AfterPersist(g, d) = SaveEnds(h, "offline")
    BY <1>5, <1>6 DEF AfterPersist
  <2>2. IsView(SaveEnds(h, "offline"), c)
    BY <1>4, SaveEndsView, StatusLabels
  <2> QED BY <2>1, <2>2
<1>7. CASE online
  <2>1. PICK t : t = [s EXCEPT !.phase = "mark"]
    OBVIOUS
  <2>2. t \in RunningSaves(c) /\ t.e = g.m.save.e /\ t.phase = "mark"
    BY <1>2, <2>1, RunningSave DEF RunningSaves
  <2>3. PICK k : k = WithSave(h, t)
    OBVIOUS
  <2>4. k \in Views(c) /\ Idle(k.m) /\ k.m.save = t
    <3>1. t \in Saves(c)
      BY <2>2, RunningSave
    <3> QED BY <1>4, <2>3, <3>1, SaveMoved
  <2>5. [h EXCEPT !.m.save.phase = "mark"] = k
    BY <1>4, <2>1, <2>3, Updates
  <2>6. AfterPersist(g, d) = Queued(k, g.m.save.e, DraftJob("mark", d))
    <3>1. AfterPersist(g, d) = Queued([h EXCEPT !.m.save.phase = "mark"], g.m.save.e, DraftJob("mark", d))
      BY <1>5, <1>7 DEF AfterPersist
    <3> QED BY <2>5, <3>1
  <2>7. t # NoSave
    BY <2>2, RunningSave
  <2>8. IsView(AfterPersist(g, d), c)
    <3>1. PICK job : job = DraftJob("mark", d)
      OBVIOUS
    <3>2. job \in Jobs(c) /\ Fitting(job) = {"mark"}
      <4>1. NoPayload = NoPayload /\ DraftJob("mark", d) \in Jobs(c) /\ Fitting(DraftJob("mark", d)) = {"mark"}
        BY DEF DraftJob, Jobs, Marks, Fitting
      <4> QED BY <3>1, <4>1
    <3> QED BY <1>0, <2>2, <2>4, <2>6, <2>7, <3>1, <3>2, QueuedSaveView
  <2> QED BY <2>8
<1> QED BY <1>6, <1>7

\* A save without its draft is ready for its request, or ends.
LEMMA WithoutDraftView ==
  ASSUME NEW c \in Contexts, NEW g \in Views(c), Idle(g.m), Saving(g.m), NEW rid \in 1 .. c.now,
         <<rid, 0>> \in c.names
  PROVE  IsView(WithoutDraft(g, rid), c)
<1>1. CASE ~ online
  BY <1>1, SaveEndsView, StatusLabels DEF WithoutDraft
<1>2. CASE online
  <2>1. g.m.save.pay \in Payloads(c)
    BY SavingFields
  <2>2. PICK h : h = AttemptedNow(g, g.m.save.pay, 0, rid)
    OBVIOUS
  <2>3. h \in Views(c) /\ Idle(h.m) /\ Saving(h.m)
    <3>1. 0 \in 0 .. c.now
      BY DEF Contexts
    <3> QED BY <2>1, <2>2, <3>1, AttemptedNowView
  <2>4. PICK s : s = [h.m.save EXCEPT !.phase = "ready"]
    OBVIOUS
  <2>5. s \in Saves(c)
    <3>1. h.m.save \in RunningSaves(c)
      BY <2>3, SavingFields
    <3>2. s \in RunningSaves(c)
      BY <2>4, <3>1, RunningSave
    <3> QED BY <3>2, RunningSave
  <2>6. PICK k : k = WithSave(h, s)
    OBVIOUS
  <2>7. k \in Views(c) /\ Idle(k.m)
    BY <2>3, <2>5, <2>6, SaveMoved
  <2>8. WithoutDraft(g, rid) = k
    BY <1>2, <2>2, <2>4, <2>6, Updates DEF WithoutDraft
  <2> QED BY <2>7, <2>8, IdleView
<1> QED BY <1>1, <1>2

\* The attempt given up and the save sent back, in the view and in its memory.
Retried(g, as, pay) ==
  [g EXCEPT !.m.attempts = as, !.m.save.pay = pay, !.m.save.phase = "repersist",
            !.m.save.tries = @ + 1]
RetriedSave(s, pay) == [s EXCEPT !.pay = pay, !.phase = "repersist", !.tries = @ + 1]
RetriedMem(m, as, pay) == [m EXCEPT !.attempts = as, !.save = RetriedSave(@, pay)]

\* The save that is sent back, as a view put together.
LEMMA MarkedAgain ==
  ASSUME NEW c \in Contexts, NEW g \in Views(c), NEW as, NEW pay
  PROVE  Retried(g, as, pay) = View(g.w, RetriedMem(g.m, as, pay), g.u)
<1>1. PICK T, M, U : g \in [w : T, m : M, u : U]
  BY DEF Views
<1>2. "attempts" \in DOMAIN g.m /\ "save" \in DOMAIN g.m
  BY Fields
<1>3. Retried(g, as, pay) = [g EXCEPT !.m = RetriedMem(g.m, as, pay)]
  BY <1>1, <1>2 DEF Retried, RetriedSave, RetriedMem
<1> QED BY <1>3, Parts

\* After the mark, the save is ready, or is sent back for what was typed meanwhile.
LEMMA AfterMarkView ==
  ASSUME NEW c \in Contexts, NEW g \in Views(c), Idle(g.m), Saving(g.m)
  PROVE  IsView(AfterMark(g), c)
<1>0. DraftPayload(g.w.form) \in Payloads(c)
  BY DEF Views, Components, Forms, DraftPayload
<1>1. CASE DraftPayload(g.w.form) = g.m.save.pay
  <2>1. PICK s : s = [g.m.save EXCEPT !.phase = "ready"]
    OBVIOUS
  <2>2. s \in Saves(c)
    <3>1. g.m.save \in RunningSaves(c)
      BY SavingFields
    <3>2. s \in RunningSaves(c)
      BY <2>1, <3>1, RunningSave
    <3> QED BY <3>2, RunningSave
  <2>3. PICK k : k = WithSave(g, s)
    OBVIOUS
  <2>4. k \in Views(c) /\ Idle(k.m)
    BY <2>2, <2>3, SaveMoved
  <2>5. AfterMark(g) = k
    BY <1>1, <2>1, <2>3, Updates DEF AfterMark
  <2> QED BY <2>4, <2>5, IdleView
<1>2. CASE DraftPayload(g.w.form) # g.m.save.pay
  <2>1. PICK s : s = RetriedSave(g.m.save, DraftPayload(g.w.form))
    OBVIOUS
  <2>0. g.m.save \in RunningSaves(c) /\ g.m.save.base \in Nat
    BY SavingFields
  <2>2. s \in RunningSaves(c) /\ s.e = g.m.save.e /\ s.phase = "repersist"
    <3>1. g.m.save.tries + 1 \in Nat
      BY <2>0 DEF RunningSaves
    <3>2. PICK n \in Nat : n = g.m.save.tries + 1
      BY <3>1
    <3>3. PICK r \in RunningSaves(c) : r = g.m.save
      BY <2>0
    <3>4. s = [r EXCEPT !.pay = DraftPayload(g.w.form), !.phase = "repersist", !.tries = n]
      BY <2>1, <3>2, <3>3 DEF RetriedSave
    <3> QED BY <1>0, <3>3, <3>4 DEF RunningSaves
  <2>3. PICK as : as = {a \in g.m.attempts : a.rid # g.m.save.rid}
    OBVIOUS
  <2>4. PICK m : m = RetriedMem(g.m, as, DraftPayload(g.w.form))
    OBVIOUS
  <2>5. m \in Memories(c) /\ m.jobs = g.m.jobs /\ m.save = s
    <3>1. s \in Saves(c)
      BY <2>2, RunningSave
    <3>2. m = [g.m EXCEPT !.attempts = as, !.save = s]
      BY <2>1, <2>4 DEF RetriedMem
    <3> QED BY <2>3, <3>1, <3>2 DEF Views, Memories
  <2>6. PICK k : k = View(g.w, m, g.u)
    OBVIOUS
  <2>7. k \in Views(c) /\ k.m = m
    BY <2>5, <2>6, ViewIs DEF Views
  <2>8. Idle(k.m)
    BY <2>5, <2>7 DEF Idle
  <2>9. AfterMark(g) = Queued(k, g.m.save.e, PersistJob(DraftPayload(g.w.form), g.m.save.base, "save"))
    <3>1. k = Retried(g, as, DraftPayload(g.w.form))
      BY <2>1, <2>4, <2>6, MarkedAgain
    <3>2. AfterMark(g) = Queued(Retried(g, {a \in g.m.attempts : a.rid # g.m.save.rid}, DraftPayload(g.w.form)),
                          g.m.save.e, PersistJob(DraftPayload(g.w.form), g.m.save.base, "save"))
      BY <1>2 DEF AfterMark, Retried
    <3> QED BY <2>3, <3>1, <3>2
  <2>11. PICK job : job = PersistJob(DraftPayload(g.w.form), g.m.save.base, "save")
    OBVIOUS
  <2>12. job \in Jobs(c) /\ Fitting(job) = {"persist", "repersist"}
    <3>1. \A x \in Payloads(c) : \A b \in Nat : PersistJob(x, b, "save") \in Jobs(c)
            /\ Fitting(PersistJob(x, b, "save")) = {"persist", "repersist"}
      BY DEF PersistJob, Jobs, Persists, Fitting
    <3> QED BY <1>0, <2>0, <2>11, <3>1
  <2>14. s # NoSave
    BY <2>2, RunningSave
  <2>15. k.m.save = s
    BY <2>5, <2>7
  <2>16. k.m.save # NoSave /\ k.m.save.e = g.m.save.e /\ k.m.save.phase \in Fitting(job)
    BY <2>2, <2>12, <2>14, <2>15
  <2>17. g.m.save.e \in Entities
    BY SavingFields
  <2> QED BY <2>7, <2>8, <2>9, <2>11, <2>12, <2>16, <2>17, QueuedSaveView
<1> QED BY <1>1, <1>2

\* After the draft of a save was kept again, its mark is set, or taken back.
LEMMA AfterRepersistView ==
  ASSUME NEW c \in Contexts, NEW g \in Views(c), Idle(g.m), Saving(g.m), NEW d \in Drafts(c)
  PROVE  IsView(AfterRepersist(g, d), c)
<1> DEFINE mark == g.m.save.tries < Preparations
           phase == IF mark THEN "mark" ELSE "unmark"
           job == IF mark THEN DraftJob("mark", d) ELSE UnmarkJob(d)
<1>0. g.m.save \in RunningSaves(c) /\ g.m.save.e \in Entities
  BY SavingFields
<1>1. PICK r : r = [g.m.save EXCEPT !.draft = d]
  OBVIOUS
<1>2. PICK s : s = [r EXCEPT !.phase = phase]
  OBVIOUS
<1>3. r \in RunningSaves(c) /\ r.e = g.m.save.e
  BY <1>0, <1>1, RunningSave DEF RunningSaves
<1>4. s \in RunningSaves(c) /\ s.e = g.m.save.e /\ s.phase = phase
  BY <1>2, <1>3, RunningSave DEF RunningSaves
<1>5. r \in Saves(c) /\ s \in Saves(c) /\ s # NoSave
  BY <1>3, <1>4, RunningSave
<1>6. PICK h : h = WithSave(g, r)
  OBVIOUS
<1>7. h \in Views(c) /\ Idle(h.m) /\ h.m.save = r
  BY <1>5, <1>6, SaveMoved
<1>8. PICK k : k = WithSave(h, s)
  OBVIOUS
<1>9. k \in Views(c) /\ Idle(k.m) /\ k.m.save = s
  BY <1>5, <1>7, <1>8, SaveMoved
<1>11. AfterRepersist(g, d) = Queued(k, g.m.save.e, job)
  <2>1. [g EXCEPT !.m.save.draft = d] = h
    BY <1>1, <1>6, Updates
  <2>2. CASE mark
    <3>1. k = [h EXCEPT !.m.save.phase = "mark"]
      BY <1>2, <1>7, <1>8, <2>2, Updates
    <3>2. AfterRepersist(g, d) = Queued([h EXCEPT !.m.save.phase = "mark"], g.m.save.e, DraftJob("mark", d))
      BY <2>1, <2>2 DEF AfterRepersist
    <3> QED BY <2>2, <3>1, <3>2
  <2>3. CASE ~ mark
    <3>1. k = [h EXCEPT !.m.save.phase = "unmark"]
      BY <1>2, <1>7, <1>8, <2>3, Updates
    <3>2. AfterRepersist(g, d) = Queued([h EXCEPT !.m.save.phase = "unmark"], g.m.save.e, UnmarkJob(d))
      BY <2>1, <2>3 DEF AfterRepersist, UnmarkJob
    <3> QED BY <2>3, <3>1, <3>2
  <2> QED BY <2>2, <2>3
<1>12. job \in Jobs(c) /\ phase \in Fitting(job)
  <2>1. DraftJob("mark", d) \in Jobs(c) /\ Fitting(DraftJob("mark", d)) = {"mark"}
    BY DEF DraftJob, Jobs, Marks, Fitting
  <2> QED BY <2>1, UnmarkJobType
<1>13. IsView(AfterRepersist(g, d), c)
  <2> HIDE DEF job, phase
  <2> QED BY <1>0, <1>4, <1>5, <1>9, <1>11, <1>12, QueuedSaveView
<1> QED BY <1>13

-----------------------------------------------------------------------------
(* What follows the jobs, the confirmations and the responses *)

\* The parts of a sound page.
LEMMA MemoryOf ==
  ASSUME NEW c \in Contexts, NEW g, IsView(g, c)
  PROVE  g \in Views(c) /\ g.w \in Components(c) /\ g.m \in Memories(c) /\ g.u \in Statuses
BY DEF IsView, Views

\* The draft in use is an entry of the memory.
LEMMA ActiveMemory ==
  ASSUME NEW c \in Contexts, NEW m \in Memories(c), NEW e \in Entities, NEW id \in 0 .. c.now
  PROVE  /\ [m EXCEPT !.active[e] = id] \in Memories(c)
         /\ [m EXCEPT !.active[e] = id].jobs = m.jobs /\ [m EXCEPT !.active[e] = id].save = m.save
BY DEF Memories

Activated(g, e, id, u) == [g EXCEPT !.m.active[e] = id, !.u = u]

\* A page with another draft in use.
LEMMA ActivatedView ==
  ASSUME NEW c \in Contexts, NEW g, IsView(g, c), NEW e \in Entities, NEW id \in 0 .. c.now,
         NEW u \in Statuses
  PROVE  /\ IsView(Activated(g, e, id, u), c) /\ (Idle(g.m) => Idle(Activated(g, e, id, u).m))
         /\ Activated(g, e, id, u).m.save = g.m.save
<1>1. PICK T, M, U : g \in [w : T, m : M, u : U]
  BY DEF IsView, Views
<1>2. "active" \in DOMAIN g.m
  BY Fields DEF IsView
<1>3. PICK m : m = [g.m EXCEPT !.active[e] = id]
  OBVIOUS
<1>4. [g EXCEPT !.m.active[e] = id, !.u = u] = Shown(g, m, u)
  BY <1>1, <1>2, <1>3 DEF Shown
<1>5. Activated(g, e, id, u) = View(g.w, m, u)
  <2>1. Activated(g, e, id, u) = [g EXCEPT !.m.active[e] = id, !.u = u]
    BY DEF Activated
  <2>2. Shown(g, m, u) = View(g.w, m, u)
    BY MemoryOf, Parts
  <2> QED BY <1>4, <2>1, <2>2
<1>6. m \in Memories(c) /\ m.jobs = g.m.jobs /\ m.save = g.m.save
  BY <1>3, ActiveMemory, MemoryOf
<1> QED BY <1>5, <1>6, ViewStill, ViewIs, MemoryOf

\* A job is of one of six kinds.
LEMMA JobKinds ==
  ASSUME NEW c \in Contexts, NEW job \in Jobs(c)
  PROVE  /\ job.do \in {"persist", "mark", "unmark", "adopt", "confirm", "wipe"}
         /\ job.do = "persist" => job \in Persists(c)
         /\ job.do = "mark" => job \in Marks(c)
         /\ job.do = "unmark" => job \in Unmarks(c)
         /\ job.do = "adopt" => job \in Adopts(c)
         /\ job.do = "confirm" => job \in Confirms(c)
         /\ job.do = "wipe" => job \in Wipes
BY DEF Jobs, Persists, Marks, Unmarks, Adopts, Confirms, Wipes

\* What a planned write will put is a draft.
LEMMA PutJobs ==
  ASSUME NEW c \in Contexts, NEW job \in Jobs(c), job.plan # Unplanned,
         job.do \in {"persist", "mark", "unmark", "adopt"}
  PROVE  job.plan \in Puts(c) /\ job.plan.tag = "put" /\ job.plan.put \in Drafts(c)
         /\ job.plan.put.id \in 0 .. c.now
<1>1. job.plan \in Puts(c)
  BY JobKinds DEF Persists, Marks, Unmarks, Adopts
<1>2. job.plan.tag = "put" /\ job.plan.put \in Drafts(c)
  BY <1>1 DEF Puts
<1>3. job.plan.put.id \in 0 .. c.now
  BY <1>2, LegitFields
<1> QED BY <1>1, <1>2, <1>3

\* Where the next job of a save may go.
Freed(g, e, job) ==
  SaveWork(job) => /\ Idle(g.m) /\ Saving(g.m) /\ g.m.save.e = e
                   /\ g.m.save.phase \in Fitting(job)

\* An edit is kept (persistCurrentDraftUnlocked).
LEMMA PersistedView ==
  ASSUME NEW c \in Contexts, NEW g, IsView(g, c), NEW e \in Entities, NEW job \in Jobs(c),
         job.plan # Unplanned, job.do = "persist"
  PROVE  /\ IsView(Persisted(g, e, job), c) /\ (Idle(g.m) => Idle(Persisted(g, e, job).m))
         /\ Persisted(g, e, job).m.save = g.m.save
<1>1. PICK u : u = OnPersisted(g.u, e, job.plan.put.base # job.base, FALSE, g.w.sel, online)
  OBVIOUS
<1>2. u \in Statuses
  BY <1>1, MemoryOf, StatusTypes
<1>3. job.plan.put.id \in 0 .. c.now
  BY PutJobs
<1>4. Persisted(g, e, job) = Activated(g, e, job.plan.put.id, u)
  BY <1>1 DEF Persisted, Activated
<1> QED BY <1>2, <1>3, <1>4, ActivatedView

\* A draft of another tab is taken over (restoreDisplayedDraft).
LEMMA AdoptedView ==
  ASSUME NEW c \in Contexts, NEW g, IsView(g, c), NEW e \in Entities, NEW job \in Jobs(c),
         job.plan # Unplanned, job.do = "adopt"
  PROVE  IsView(AdoptedIn(g, e, job), c)
<1>1. PICK u : u = WithLabel(OnRestored(g.u, e, job.stale, g.w.sel, online),
                    IF ~ online THEN "offline" ELSE IF job.stale THEN "stale" ELSE "local")
  OBVIOUS
<1>2. u \in Statuses
  <2>1. OnRestored(g.u, e, job.stale, g.w.sel, online) \in Statuses
    BY MemoryOf, StatusTypes
  <2> QED BY <1>1, <2>1, WithLabelType, StatusLabels
<1>3. PICK s : s = [draft |-> job.plan.put, e |-> e, restored |-> TRUE, stale |-> job.stale]
  OBVIOUS
<1>4. s \in Shows(c)
  <2>1. job.stale \in BOOLEAN
    BY JobKinds DEF Adopts
  <2> QED BY <1>3, <2>1, PutJobs DEF Shows
<1>5. PICK id \in 0 .. c.now : id = job.plan.put.id
  BY PutJobs
<1>6. PICK m : m = [g.m EXCEPT !.active[e] = id, !.rev[e] = @ + 1, !.shown = s]
  OBVIOUS
<1>7. m \in Memories(c) /\ m.jobs = g.m.jobs /\ m.save = g.m.save
  <2>1. g.m.rev[e] + 1 \in Nat
    BY MemoryOf DEF Memories
  <2>2. PICK n \in Nat : n = g.m.rev[e] + 1
    BY <2>1
  <2>3. m = [g.m EXCEPT !.active[e] = id, !.rev[e] = n, !.shown = s]
    BY <1>6, <2>2
  <2>4. PICK mm \in Memories(c) : mm = g.m
    BY MemoryOf
  <2> QED BY <1>4, <2>3, <2>4 DEF Memories
<1>8. AdoptedIn(g, e, job) = View(g.w, m, u)
  <2>1. PICK T, M, U : g \in [w : T, m : M, u : U]
    BY DEF IsView, Views
  <2>2. "active" \in DOMAIN g.m /\ "rev" \in DOMAIN g.m /\ "shown" \in DOMAIN g.m
    BY Fields, MemoryOf
  <2>3. [g EXCEPT !.m.active[e] = id, !.m.rev[e] = @ + 1, !.m.shown = s, !.u = u]
          = Shown(g, m, u)
    BY <1>6, <2>1, <2>2 DEF Shown
  <2>4. AdoptedIn(g, e, job)
          = [g EXCEPT !.m.active[e] = id, !.m.rev[e] = @ + 1, !.m.shown = s, !.u = u]
    BY <1>1, <1>3, <1>5 DEF AdoptedIn
  <2>5. Shown(g, m, u) = View(g.w, m, u)
    BY MemoryOf, Parts
  <2> QED BY <2>3, <2>4, <2>5
<1> QED BY <1>2, <1>7, <1>8, ViewStill, MemoryOf

\* The drafts of a finding whose form was given up are gone.
LEMMA WipedView ==
  ASSUME NEW c \in Contexts, NEW g, IsView(g, c), NEW e \in Entities
  PROVE  IsView(RecoveryDue(WipedIn(g, e)), c)
<1>1. PICK u : u = OnClean(g.u, e, TRUE, g.w.sel, online)
  OBVIOUS
<1>2. u \in Statuses
  BY <1>1, MemoryOf, StatusTypes
<1>3. PICK s : s = IF g.m.shown.draft # NoDraft /\ g.m.shown.e = e THEN NoShown ELSE g.m.shown
  OBVIOUS
<1>4. s \in Shows(c)
  BY <1>3, MemoryOf DEF Memories, Shows
<1>6. PICK m : m = [g.m EXCEPT !.active[e] = 0, !.shown = s]
  OBVIOUS
<1>7. m \in Memories(c) /\ m.jobs = g.m.jobs /\ m.save = g.m.save
  <2>1. 0 \in 0 .. c.now
    BY DEF Contexts
  <2>2. PICK mm \in Memories(c) : mm = g.m
    BY MemoryOf
  <2> QED BY <1>4, <1>6, <2>1, <2>2 DEF Memories
<1>8. WipedIn(g, e) = View(g.w, m, u)
  <2>1. PICK T, M, U : g \in [w : T, m : M, u : U]
    BY DEF IsView, Views
  <2>2. "active" \in DOMAIN g.m /\ "shown" \in DOMAIN g.m
    BY Fields, MemoryOf
  <2>3. [g EXCEPT !.m.active[e] = 0, !.m.shown = s, !.u = u] = Shown(g, m, u)
    BY <1>6, <2>1, <2>2 DEF Shown
  <2>4. WipedIn(g, e) = [g EXCEPT !.m.active[e] = 0, !.m.shown = s, !.u = u]
    <3>1. [g EXCEPT !.m.active[e] = 0].m.shown = g.m.shown
      BY <2>1, <2>2
    <3> QED BY <1>1, <1>3, <3>1 DEF WipedIn
  <2>5. Shown(g, m, u) = View(g.w, m, u)
    BY MemoryOf, Parts
  <2> QED BY <2>3, <2>4, <2>5
<1>9. IsView(WipedIn(g, e), c)
  BY <1>2, <1>7, <1>8, ViewStill, MemoryOf
<1> QED BY <1>9, DueView

\* The attempt of a save is marked in the store,
LEMMA MarkedSaveView ==
  ASSUME NEW c \in Contexts, NEW g \in Views(c), Idle(g.m), Saving(g.m), NEW d \in Drafts(c),
         NEW x \in Drafts(c)
  PROVE  IsView(AfterMark(AttemptedNow([g EXCEPT !.m.save.draft = x], d.pay, d.id, d.req)), c)
<1>1. PICK s : s = [g.m.save EXCEPT !.draft = x]
  OBVIOUS
<1>2. s \in RunningSaves(c)
  BY <1>1, SavingFields, RunningSave
<1>3. s \in Saves(c) /\ s # NoSave
  BY <1>2, RunningSave
<1>4. PICK h : h = WithSave(g, s)
  OBVIOUS
<1>5. h \in Views(c) /\ Idle(h.m) /\ h.m.save = s
  BY <1>3, <1>4, SaveMoved
<1>6. [g EXCEPT !.m.save.draft = x] = h
  BY <1>1, <1>4, Updates
<1>7. Saving(h.m)
  BY <1>3, <1>5 DEF Saving
<1>8. /\ d.pay \in Payloads(c) /\ d.id \in 0 .. c.now /\ d.req \in 1 .. c.now
      /\ <<d.req, d.id>> \in c.names
  BY LegitFields DEF Legit
<1>9. PICK k : k = AttemptedNow(h, d.pay, d.id, d.req)
  OBVIOUS
<1>10. k \in Views(c) /\ Idle(k.m) /\ Saving(k.m)
  BY <1>5, <1>7, <1>8, <1>9, AttemptedNowView
<1> QED BY <1>6, <1>9, <1>10, AfterMarkView

\* or only in the page, when the store has failed,
LEMMA FailedMarkView ==
  ASSUME NEW c \in Contexts, NEW g, IsView(g, c), Idle(g.m), Saving(g.m), NEW d \in Drafts(c)
  PROVE  IsView(AfterMark(AttemptedNow(Failure(g), d.pay, d.id, d.req)), c)
<1>1. PICK h : h = Failure(g)
  OBVIOUS
<1>2. h \in Views(c) /\ h.m.jobs = g.m.jobs /\ h.m.save = g.m.save
  BY <1>1, FailureView DEF IsView
<1>3. Idle(h.m) /\ Saving(h.m)
  BY <1>2, SameWork DEF Saving
<1>4. /\ d.pay \in Payloads(c) /\ d.id \in 0 .. c.now /\ d.req \in 1 .. c.now
      /\ <<d.req, d.id>> \in c.names
  BY LegitFields DEF Legit
<1>5. PICK k : k = AttemptedNow(h, d.pay, d.id, d.req)
  OBVIOUS
<1>6. k \in Views(c) /\ Idle(k.m) /\ Saving(k.m)
  BY <1>2, <1>3, <1>4, <1>5, AttemptedNowView
<1> QED BY <1>1, <1>5, <1>6, AfterMarkView

\* or its mark is gone, and the save with it.
LEMMA UnmarkedView ==
  ASSUME NEW c \in Contexts, NEW g \in Views(c), Idle(g.m)
  PROVE  IsView(SaveEnds([g EXCEPT !.w.pend = 0], "local"), c)
<1>1. PICK w : w = [g.w EXCEPT !.pend = 0]
  OBVIOUS
<1>2. w \in Components(c)
  <2>1. 0 \in 0 .. c.now
    BY DEF Contexts
  <2>2. PICK v \in Components(c) : v = g.w
    BY DEF Views
  <2> QED BY <1>1, <2>1, <2>2 DEF Components
<1>3. PICK h : h = [g EXCEPT !.w.pend = 0]
  OBVIOUS
<1>4. h \in Views(c) /\ h.m = g.m
  <2>1. h = [g EXCEPT !.w = w]
    BY <1>1, <1>3
  <2> QED BY <1>2, <2>1 DEF Views
<1>5. Idle(h.m)
  BY <1>4
<1> QED BY <1>3, <1>4, <1>5, SaveEndsView, StatusLabels

\* The parts of Treated.
TreatedTask(task, plan) ==
  [task EXCEPT !.phase = IF plan.src = {} THEN "final" ELSE "sources", !.src = plan.src,
               !.kept = Keeps(plan)]
TreatedMem(m, task, plan) ==
  [m EXCEPT
   !.conf = (@ \ {task}) \cup {TreatedTask(task, plan)},
   !.newer[task.e] = IF Keeps(plan) THEN NoPayload ELSE @,
   !.active[task.e] = IF plan.tag = "continue" THEN plan.put.id
                      ELSE IF plan.tag = "remove" /\ plan.del = {@} THEN 0 ELSE @,
   !.shown = IF plan.tag = "remove" /\ @.draft.id \in plan.del THEN NoShown ELSE @]

\* A confirmation that has treated the draft, as a view put together.
LEMMA TreatedIs ==
  ASSUME NEW c \in Contexts, NEW g \in Views(c), NEW task, NEW plan
  PROVE  Treated(g, task, plan) = View(g.w, TreatedMem(g.m, task, plan), g.u)
<1>1. PICK T, M, U : g \in [w : T, m : M, u : U]
  BY DEF Views
<1>2. /\ "conf" \in DOMAIN g.m /\ "newer" \in DOMAIN g.m /\ "active" \in DOMAIN g.m
      /\ "shown" \in DOMAIN g.m
  BY Fields
<1>3. Treated(g, task, plan) = [g EXCEPT !.m = TreatedMem(g.m, task, plan)]
  <2>1. PICK conf : conf = (g.m.conf \ {task}) \cup {TreatedTask(task, plan)}
    OBVIOUS
  <2>2. PICK pay : pay = IF Keeps(plan) THEN NoPayload ELSE g.m.newer[task.e]
    OBVIOUS
  <2>3. PICK id : id = IF plan.tag = "continue" THEN plan.put.id
                       ELSE IF plan.tag = "remove" /\ plan.del = {g.m.active[task.e]} THEN 0
                       ELSE g.m.active[task.e]
    OBVIOUS
  <2>4. PICK s : s = IF plan.tag = "remove" /\ g.m.shown.draft.id \in plan.del THEN NoShown
                     ELSE g.m.shown
    OBVIOUS
  <2>5. Treated(g, task, plan)
          = [g EXCEPT !.m.conf = conf, !.m.newer[task.e] = pay, !.m.active[task.e] = id,
                      !.m.shown = s]
    BY <2>1, <2>2, <2>3, <2>4, Zenon DEF Treated, TreatedTask
  <2>6. TreatedMem(g.m, task, plan)
          = [g.m EXCEPT !.conf = conf, !.newer[task.e] = pay, !.active[task.e] = id, !.shown = s]
    BY <2>1, <2>2, <2>3, <2>4, Zenon DEF TreatedMem
  <2>7. [g EXCEPT !.m.conf = conf, !.m.newer[task.e] = pay, !.m.active[task.e] = id,
                  !.m.shown = s]
          = [g EXCEPT !.m = [g.m EXCEPT !.conf = conf, !.newer[task.e] = pay,
                                        !.active[task.e] = id, !.shown = s]]
    BY <1>1, <1>2
  <2> QED BY <2>5, <2>6, <2>7, Zenon
<1> QED BY <1>3, Parts

\* The confirmation goes on to the sources, or to its end.
LEMMA TreatedTaskType ==
  ASSUME NEW c \in Contexts, NEW task \in Tasks(c), NEW plan \in Treatments(c),
         plan.src \subseteq SourcesOf(task.rid, task.e, c)
  PROVE  TreatedTask(task, plan) \in Tasks(c)
<1>1. PICK t : t = TreatedTask(task, plan)
  OBVIOUS
<1>2. task \in TaskFields(c) /\ Traced(task, c)
  BY DEF Tasks
<1>3. plan.src \in SUBSET Sources(c)
  BY DEF SourcesOf
<1>4. PICK f \in {"final", "sources"} : f = IF plan.src = {} THEN "final" ELSE "sources"
  OBVIOUS
<1>7. Keeps(plan) \in BOOLEAN
  <2>1. CASE plan.tag \in {"continue", "rebase"}
    <3>1. Keeps(plan) = TRUE
      BY <2>1 DEF Keeps
    <3> QED BY <3>1
  <2>2. CASE ~ (plan.tag \in {"continue", "rebase"})
    <3>1. Keeps(plan) = FALSE
      BY <2>2 DEF Keeps
    <3> QED BY <3>1
  <2> QED BY <2>1, <2>2
<1>9. PICK k : k = Keeps(plan)
  OBVIOUS
<1>10. k \in BOOLEAN
  BY <1>7, <1>9, Zenon
<1>8. t = [task EXCEPT !.phase = f, !.src = plan.src, !.kept = k]
  BY <1>1, <1>4, <1>9, Zenon DEF TreatedTask
<1>5. /\ t \in TaskFields(c) /\ t.src = plan.src /\ t.rid = task.rid /\ t.e = task.e
      /\ t.av = task.av /\ t.match = task.match /\ t.phase = f
  BY <1>2, <1>3, <1>10, <1>8 DEF TaskFields
<1>6. Traced(t, c)
  BY <1>2, <1>4, <1>5 DEF Traced
<1> QED BY <1>1, <1>5, <1>6 DEF Tasks

\* A page after the job of a confirmation.
LEMMA TreatedView ==
  ASSUME NEW c \in Contexts, NEW g, IsView(g, c), NEW task \in Tasks(c), NEW plan \in Treatments(c),
         plan.src \subseteq SourcesOf(task.rid, task.e, c)
  PROVE  IsView(Treated(g, task, plan), c)
<1>1. PICK m : m = TreatedMem(g.m, task, plan)
  OBVIOUS
<1>2. PICK conf : conf = (g.m.conf \ {task}) \cup {TreatedTask(task, plan)}
  OBVIOUS
<1>3. conf \in SUBSET Tasks(c)
  BY <1>2, TreatedTaskType, MemoryOf DEF Memories
<1>4. PICK pay : pay = IF Keeps(plan) THEN NoPayload ELSE g.m.newer[task.e]
  OBVIOUS
<1>0. task.e \in Entities
  BY DEF Tasks, TaskFields
<1>5. pay \in Newers(c)
  BY <1>0, <1>4, MemoryOf DEF Memories, Newers
<1>6. PICK id : id = IF plan.tag = "continue" THEN plan.put.id
                     ELSE IF plan.tag = "remove" /\ plan.del = {g.m.active[task.e]} THEN 0
                     ELSE g.m.active[task.e]
  OBVIOUS
<1>7. id \in 0 .. c.now
  <2>1. plan.tag = "continue" => plan.put \in Drafts(c)
    BY DEF Treatments
  <2>2. plan.tag = "continue" => plan.put.id \in 0 .. c.now
    BY <2>1, LegitFields
  <2>3. 0 \in 0 .. c.now
    BY DEF Contexts
  <2>4. g.m.active[task.e] \in 0 .. c.now
    BY <1>0, MemoryOf DEF Memories
  <2> QED BY <1>6, <2>2, <2>3, <2>4
<1>8. PICK s : s = IF plan.tag = "remove" /\ g.m.shown.draft.id \in plan.del THEN NoShown ELSE g.m.shown
  OBVIOUS
<1>9. s \in Shows(c)
  BY <1>8, MemoryOf DEF Memories, Shows
<1>10. m = [g.m EXCEPT !.conf = conf, !.newer[task.e] = pay, !.active[task.e] = id, !.shown = s]
  <2>1. PICK T \in {TRUE} : g.m \in Memories(c)
    BY MemoryOf
  <2> QED BY <1>1, <1>2, <1>4, <1>6, <1>8 DEF TreatedMem
<1>11. m \in Memories(c) /\ m.jobs = g.m.jobs /\ m.save = g.m.save
  <2>1. PICK mm \in Memories(c) : mm = g.m
    BY MemoryOf
  <2>2. m = [mm EXCEPT !.conf = conf, !.newer[task.e] = pay, !.active[task.e] = id, !.shown = s]
    BY <1>10, <2>1
  <2> QED BY <1>0, <1>3, <1>5, <1>7, <1>9, <2>1, <2>2 DEF Memories
<1>12. Treated(g, task, plan) = View(g.w, m, g.u)
  BY <1>1, MemoryOf, TreatedIs
<1> QED BY <1>11, <1>12, ViewStill, MemoryOf

\* What follows the write of a job leaves the page sound.
LEMMA AfterJobView ==
  ASSUME NEW c \in Contexts, NEW g, IsView(g, c), NEW e \in Entities, NEW job \in Jobs(c),
         job.plan # Unplanned, Freed(g, e, job)
  PROVE  IsView(AfterJob(g, e, job), c)
<1>1. CASE job.do = "persist" /\ job.by # "save"
  <2>1. AfterJob(g, e, job) = Persisted(g, e, job)
    BY <1>1 DEF AfterJob
  <2> QED BY <1>1, <2>1, PersistedView
<1>2. CASE job.do = "persist" /\ job.by = "save"
  <2>1. PICK h : h = Persisted(g, e, job)
    OBVIOUS
  <2>2. Idle(g.m) /\ Saving(g.m) /\ g.m.save.phase \in {"persist", "repersist"}
    BY <1>2 DEF Freed, SaveWork, Fitting
  <2>3. h \in Views(c) /\ Idle(h.m) /\ h.m.save = g.m.save
    BY <1>2, <2>1, <2>2, PersistedView DEF IsView
  <2>4. Saving(h.m)
    BY <2>2, <2>3 DEF Saving
  <2>5. job.plan.put \in Drafts(c)
    BY <1>2, PutJobs
  <2>6. CASE g.m.save.phase = "persist"
    <3>1. AfterJob(g, e, job) = AfterPersist(h, job.plan.put)
      BY <1>2, <2>1, <2>6 DEF AfterJob
    <3> QED BY <2>3, <2>4, <2>5, <3>1, AfterPersistView
  <2>7. CASE g.m.save.phase = "repersist"
    <3>1. AfterJob(g, e, job) = AfterRepersist(h, job.plan.put)
      BY <1>2, <2>1, <2>7 DEF AfterJob
    <3> QED BY <2>3, <2>4, <2>5, <3>1, AfterRepersistView
  <2> QED BY <2>2, <2>6, <2>7
<1>3. CASE job.do = "mark"
  <2>1. PICK d \in Drafts(c) : d = job.plan.put
    BY <1>3, PutJobs
  <2>2. AfterJob(g, e, job) = AfterMark(AttemptedNow([g EXCEPT !.m.save.draft = d], d.pay, d.id, d.req))
    BY <1>3, <2>1 DEF AfterJob
  <2>3. g \in Views(c) /\ Idle(g.m) /\ Saving(g.m)
    BY <1>3, MemoryOf DEF Freed, SaveWork
  <2> QED BY <2>2, <2>3, MarkedSaveView
<1>4. CASE job.do = "unmark"
  <2>1. AfterJob(g, e, job) = SaveEnds([g EXCEPT !.w.pend = 0], "local")
    BY <1>4 DEF AfterJob
  <2>2. g \in Views(c) /\ Idle(g.m)
    BY <1>4, MemoryOf DEF Freed, SaveWork
  <2> QED BY <2>1, <2>2, UnmarkedView
<1>5. CASE job.do = "adopt"
  <2>1. AfterJob(g, e, job) = AdoptedIn(g, e, job)
    BY <1>5 DEF AfterJob
  <2> QED BY <1>5, <2>1, AdoptedView
<1>6. CASE job.do = "confirm"
  <2>1. AfterJob(g, e, job) = Treated(g, job.task, job.plan)
    BY <1>6 DEF AfterJob
  <2>2. job \in Confirms(c)
    BY <1>6, JobKinds
  <2>3. /\ job.task \in Tasks(c) /\ job.plan \in Treatments(c)
        /\ job.plan.src \subseteq SourcesOf(job.task.rid, job.task.e, c)
    BY <2>2 DEF Confirms
  <2> QED BY <2>1, <2>3, TreatedView
<1>7. CASE job.do = "wipe"
  <2>1. AfterJob(g, e, job) = RecoveryDue(WipedIn(g, e))
    BY <1>7 DEF AfterJob
  <2> QED BY <2>1, WipedView
<1> QED BY <1>1, <1>2, <1>3, <1>4, <1>5, <1>6, <1>7, JobKinds

\* A confirmation comes or goes, and attempts with it.
LEMMA ConfView ==
  ASSUME NEW c \in Contexts, NEW g, IsView(g, c), NEW conf \in SUBSET Tasks(c),
         NEW as \in SUBSET Attempts(c)
  PROVE  /\ IsView([g EXCEPT !.m.conf = conf], c)
         /\ IsView([g EXCEPT !.m.conf = conf, !.m.attempts = as], c)
         /\ IsView([g EXCEPT !.m.attempts = as], c)
<1>1. PICK T, M, U : g \in [w : T, m : M, u : U]
  BY DEF IsView, Views
<1>2. "conf" \in DOMAIN g.m /\ "attempts" \in DOMAIN g.m
  BY Fields, MemoryOf
<1>3. PICK mm \in Memories(c) : mm = g.m
  BY MemoryOf
<1>4. IsView([g EXCEPT !.m.conf = conf], c)
  <2>1. PICK m : m = [g.m EXCEPT !.conf = conf]
    OBVIOUS
  <2>2. m \in Memories(c) /\ m.jobs = g.m.jobs /\ m.save = g.m.save
    BY <1>3, <2>1 DEF Memories
  <2>3. [g EXCEPT !.m.conf = conf] = [g EXCEPT !.m = m]
    BY <1>1, <1>2, <2>1
  <2>4. [g EXCEPT !.m = m] = View(g.w, m, g.u)
    BY MemoryOf, Parts
  <2> QED BY <2>2, <2>3, <2>4, ViewStill, MemoryOf
<1>5. IsView([g EXCEPT !.m.conf = conf, !.m.attempts = as], c)
  <2>1. PICK m : m = [g.m EXCEPT !.conf = conf, !.attempts = as]
    OBVIOUS
  <2>2. m \in Memories(c) /\ m.jobs = g.m.jobs /\ m.save = g.m.save
    BY <1>3, <2>1 DEF Memories
  <2>3. [g EXCEPT !.m.conf = conf, !.m.attempts = as] = [g EXCEPT !.m = m]
    BY <1>1, <1>2, <2>1
  <2>4. [g EXCEPT !.m = m] = View(g.w, m, g.u)
    BY MemoryOf, Parts
  <2> QED BY <2>2, <2>3, <2>4, ViewStill, MemoryOf
<1>6. IsView([g EXCEPT !.m.attempts = as], c)
  <2>1. PICK m : m = [g.m EXCEPT !.attempts = as]
    OBVIOUS
  <2>2. m \in Memories(c) /\ m.jobs = g.m.jobs /\ m.save = g.m.save
    BY <1>3, <2>1 DEF Memories
  <2>3. [g EXCEPT !.m.attempts = as] = [g EXCEPT !.m = m]
    BY <1>1, <1>2, <2>1
  <2>4. [g EXCEPT !.m = m] = View(g.w, m, g.u)
    BY MemoryOf, Parts
  <2> QED BY <2>2, <2>3, <2>4, ViewStill, MemoryOf
<1> QED BY <1>4, <1>5, <1>6

\* What follows the failure of a job does.
LEMMA AfterFailedJobView ==
  ASSUME NEW c \in Contexts, NEW g, IsView(g, c), NEW e \in Entities, NEW job \in Jobs(c),
         Freed(g, e, job), NEW rid \in 1 .. c.now, <<rid, 0>> \in c.names
  PROVE  IsView(AfterFailedJob(g, job, rid), c)
<1>0. IsView(Failure(g), c)
  BY FailureView
<1>1. CASE job.do = "persist" /\ job.by = "save"
  <2>1. g \in Views(c) /\ Idle(g.m) /\ Saving(g.m) /\ g.m.save.phase \in {"persist", "repersist"}
    BY <1>1, MemoryOf DEF Freed, SaveWork, Fitting
  <2>2. CASE g.m.save.phase = "persist"
    <3>1. PICK h : h = Failure(g)
      OBVIOUS
    <3>2. h \in Views(c) /\ h.m.jobs = g.m.jobs /\ h.m.save = g.m.save
      BY <3>1, FailureView DEF IsView
    <3>3. Idle(h.m) /\ Saving(h.m)
      BY <2>1, <3>2, SameWork DEF Saving
    <3>4. AfterFailedJob(g, job, rid) = WithoutDraft(h, rid)
      BY <1>1, <2>2, <3>1 DEF AfterFailedJob
    <3> QED BY <3>2, <3>3, <3>4, WithoutDraftView
  <2>3. CASE g.m.save.phase = "repersist"
    <3>1. AfterFailedJob(g, job, rid) = SaveFails(g)
      BY <1>1, <2>3 DEF AfterFailedJob
    <3> QED BY <2>1, <3>1, SaveFailsView
  <2> QED BY <2>1, <2>2, <2>3
<1>2. CASE job.do = "mark"
  <2>1. PICK d \in Drafts(c) : d = job.draft
    BY <1>2, JobKinds DEF Marks
  <2>2. AfterFailedJob(g, job, rid) = AfterMark(AttemptedNow(Failure(g), d.pay, d.id, d.req))
    BY <1>2, <2>1 DEF AfterFailedJob
  <2>3. g \in Views(c) /\ Idle(g.m) /\ Saving(g.m)
    BY <1>2, MemoryOf DEF Freed, SaveWork
  <2> QED BY <2>2, <2>3, FailedMarkView
<1>3. CASE job.do = "unmark"
  <2>1. AfterFailedJob(g, job, rid) = SaveFails(g)
    BY <1>3 DEF AfterFailedJob
  <2>2. g \in Views(c) /\ Idle(g.m)
    BY <1>3, MemoryOf DEF Freed, SaveWork
  <2> QED BY <2>1, <2>2, SaveFailsView
<1>4. CASE job.do = "confirm"
  <2>1. PICK conf : conf = g.m.conf \ {job.task}
    OBVIOUS
  <2>2. AfterFailedJob(g, job, rid) = Failure([g EXCEPT !.m.conf = conf])
    BY <1>4, <2>1 DEF AfterFailedJob
  <2>3. conf \in SUBSET Tasks(c)
    BY <2>1, MemoryOf DEF Memories
  <2>4. g.m.attempts \in SUBSET Attempts(c)
    BY MemoryOf DEF Memories
  <2>5. PICK h : h = [g EXCEPT !.m.conf = conf]
    OBVIOUS
  <2>6. IsView(h, c)
    BY <2>3, <2>4, <2>5, ConfView
  <2> QED BY <2>2, <2>5, <2>6, FailureView
<1>5. CASE job.do \in {"adopt", "wipe"} \/ (job.do = "persist" /\ job.by # "save")
  <2>1. AfterFailedJob(g, job, rid) = Failure(g)
    BY <1>5 DEF AfterFailedJob
  <2> QED BY <1>0, <2>1
<1> QED BY <1>1, <1>2, <1>3, <1>4, <1>5, JobKinds

\* A page with another memory that has the same queues and save.
LEMMA MemView ==
  ASSUME NEW c \in Contexts, NEW g, IsView(g, c), NEW m \in Memories(c), m.jobs = g.m.jobs,
         m.save = g.m.save, NEW u \in Statuses
  PROVE  /\ IsView([g EXCEPT !.m = m], c) /\ IsView(Shown(g, m, u), c)
         /\ Shown(g, m, u).m = m
<1>1. [g EXCEPT !.m = m] = View(g.w, m, g.u) /\ Shown(g, m, u) = View(g.w, m, u)
  BY MemoryOf, Parts
<1>2. Shown(g, m, u).m = m
  BY <1>1, ViewIs
<1> QED BY <1>1, <1>2, ViewStill, MemoryOf

\* A page with another status line has the same memory.
LEMMA NewU ==
  ASSUME NEW c \in Contexts, NEW g, IsView(g, c), NEW u \in Statuses
  PROVE  IsView([g EXCEPT !.u = u], c) /\ [g EXCEPT !.u = u].m = g.m
<1>1. PICK T, M, U : g \in [w : T, m : M, u : U]
  BY DEF IsView, Views
<1>2. [g EXCEPT !.u = u].m = g.m
  BY <1>1
<1> QED BY <1>2, NewStatusView

\* A finding counts as saved.
Counted(g, e, n, u) ==
  [g EXCEPT !.m.rev[e] = 0, !.m.newer[e] = NoPayload, !.m.evRev[e] = n, !.u = u]

\* The counts of edits of a page.
LEMMA CountsView ==
  ASSUME NEW c \in Contexts, NEW g, IsView(g, c), NEW e \in Entities, NEW n \in Nat,
         NEW u \in Statuses
  PROVE  /\ IsView(Counted(g, e, n, u), c) /\ Counted(g, e, n, u).m.save = g.m.save
         /\ IsView([g EXCEPT !.m.rev[e] = 0, !.m.newer[e] = NoPayload], c)
         /\ IsView([g EXCEPT !.m.evRev[e] = n], c)
<1>1. PICK T, M, U : g \in [w : T, m : M, u : U]
  BY DEF IsView, Views
<1>2. "rev" \in DOMAIN g.m /\ "newer" \in DOMAIN g.m /\ "evRev" \in DOMAIN g.m
  BY Fields, MemoryOf
<1>3. PICK mm \in Memories(c) : mm = g.m
  BY MemoryOf
<1>0. NoPayload \in Newers(c)
  BY DEF Newers
<1>4. IsView(Counted(g, e, n, u), c) /\ Counted(g, e, n, u).m.save = g.m.save
  <2>1. PICK m : m = [g.m EXCEPT !.rev[e] = 0, !.newer[e] = NoPayload, !.evRev[e] = n]
    OBVIOUS
  <2>2. m \in Memories(c) /\ m.jobs = g.m.jobs /\ m.save = g.m.save
    BY <1>0, <1>3, <2>1 DEF Memories
  <2>3. Counted(g, e, n, u) = Shown(g, m, u)
    BY <1>1, <1>2, <2>1 DEF Shown, Counted
  <2>4. IsView(Shown(g, m, u), c) /\ Shown(g, m, u).m = m
    BY <2>2, MemView
  <2> QED BY <2>2, <2>3, <2>4
<1>5. IsView([g EXCEPT !.m.rev[e] = 0, !.m.newer[e] = NoPayload], c)
  <2>1. PICK m : m = [g.m EXCEPT !.rev[e] = 0, !.newer[e] = NoPayload]
    OBVIOUS
  <2>2. m \in Memories(c) /\ m.jobs = g.m.jobs /\ m.save = g.m.save
    BY <1>0, <1>3, <2>1 DEF Memories
  <2>3. [g EXCEPT !.m.rev[e] = 0, !.m.newer[e] = NoPayload] = [g EXCEPT !.m = m]
    BY <1>1, <1>2, <2>1
  <2>4. IsView([g EXCEPT !.m = m], c)
    BY <2>2, MemView
  <2> QED BY <2>3, <2>4
<1>6. IsView([g EXCEPT !.m.evRev[e] = n], c)
  <2>1. PICK m : m = [g.m EXCEPT !.evRev[e] = n]
    OBVIOUS
  <2>2. m \in Memories(c) /\ m.jobs = g.m.jobs /\ m.save = g.m.save
    BY <1>3, <2>1 DEF Memories
  <2>3. [g EXCEPT !.m.evRev[e] = n] = [g EXCEPT !.m = m]
    BY <1>1, <1>2, <2>1
  <2>4. IsView([g EXCEPT !.m = m], c)
    BY <2>2, MemView
  <2> QED BY <2>3, <2>4
<1> QED BY <1>4, <1>5, <1>6

\* A confirmation without the store only forgets the attempt.
LEMMA WithoutStoreView ==
  ASSUME NEW c \in Contexts, NEW g, IsView(g, c), NEW a \in g.m.attempts
  PROVE  /\ IsView(ConfirmedWithoutStore(g, a), c)
         /\ ConfirmedWithoutStore(g, a).m.save = g.m.save
<1>1. PICK as : as = g.m.attempts \ {a}
  OBVIOUS
<1>2. as \in SUBSET Attempts(c) /\ a \in Attempts(c) /\ g.m.conf \in SUBSET Tasks(c)
  BY <1>1, MemoryOf DEF Memories
<1>3. a.e \in Entities
  BY <1>2 DEF Attempts, AttemptFields
<1>4. PICK h : h = [g EXCEPT !.m.attempts = as]
  OBVIOUS
<1>5. IsView(h, c) /\ h.m.save = g.m.save
  <2>1. PICK T, M, U : g \in [w : T, m : M, u : U]
    BY DEF IsView, Views
  <2>2. DOMAIN g.m = {"active", "timer", "rev", "evRev", "attempts", "newer", "structural",
                      "shown", "broken", "jobs", "save", "conf", "due", "run", "tail"}
    BY Fields, MemoryOf
  <2>3. h.m.save = g.m.save
    BY <1>4, <2>1, <2>2
  <2>4. IsView([g EXCEPT !.m.attempts = as], c)
    BY <1>2, ConfView
  <2> QED BY <1>4, <2>3, <2>4
<1>6. PICK kept \in BOOLEAN : kept <=> g.m.evRev[a.e] > a.evRev
  OBVIOUS
<1>7. CASE g.m.rev[a.e] > a.rev
  <2>1. ConfirmedWithoutStore(g, a)
          = [h EXCEPT !.u = WithLabelFor(h.u, a.e, g.w.sel, "storage_error")]
    BY <1>1, <1>4, <1>7 DEF ConfirmedWithoutStore
  <2>2. PICK u \in Statuses : u = WithLabelFor(h.u, a.e, g.w.sel, "storage_error")
    BY <1>5, MemoryOf, WithLabelType, StatusLabels
  <2>3. IsView([h EXCEPT !.u = u], c) /\ [h EXCEPT !.u = u].m = h.m
    BY <1>5, NewU
  <2>4. ConfirmedWithoutStore(g, a) = [h EXCEPT !.u = u]
    BY <2>1, <2>2, Zenon
  <2> QED BY <1>5, <2>3, <2>4
<1>8. CASE ~ (g.m.rev[a.e] > a.rev)
  <2>1. PICK n : n = IF g.m.evRev[a.e] > a.evRev THEN h.m.evRev[a.e] ELSE 0
    OBVIOUS
  <2>2. n \in Nat
    BY <1>3, <1>5, <2>1, MemoryOf DEF Memories
  <2>3. PICK u : u = OnClean(h.u, a.e, ~ (g.m.evRev[a.e] > a.evRev), g.w.sel, online)
    OBVIOUS
  <2>4. u \in Statuses
    BY <1>3, <1>5, <2>3, MemoryOf, StatusTypes
  <2>5. ConfirmedWithoutStore(g, a) = Counted(h, a.e, n, u)
    BY <1>1, <1>4, <1>8, <2>1, <2>3 DEF ConfirmedWithoutStore, Counted
  <2>6. IsView(Counted(h, a.e, n, u), c) /\ Counted(h, a.e, n, u).m.save = h.m.save
    BY <1>3, <1>5, <2>2, <2>4, CountsView
  <2> QED BY <1>5, <2>5, <2>6
<1> QED BY <1>7, <1>8

\* The attempt of a confirmation is one of the page, or none.
LEMMA AttemptOfType ==
  ASSUME NEW c \in Contexts, NEW g, IsView(g, c), NEW rid
  PROVE  /\ AttemptOf(g, rid) \in g.m.attempts \cup {NoAttempt}
         /\ AttemptOf(g, rid) \in Attempts(c) \cup {NoAttempt}
<1>1. AttemptOf(g, rid) \in g.m.attempts \cup {NoAttempt}
  BY DEF AttemptOf
<1>2. g.m.attempts \subseteq Attempts(c)
  BY MemoryOf DEF Memories
<1> QED BY <1>1, <1>2

\* A confirmation starts (handleServerConfirmation).
LEMMA ConfirmStartsView ==
  ASSUME NEW c \in Contexts, NEW g, IsView(g, c), NEW event \in Confirmations(c),
         event # NoEvent, NEW key \in 1 .. c.now
  PROVE  /\ IsView(ConfirmStarts(g, event, key), c)
         /\ ConfirmStarts(g, event, key).m.save = g.m.save
<1>1. PICK a : a = AttemptOf(g, event.rid)
  OBVIOUS
<1>2. a \in g.m.attempts \cup {NoAttempt} /\ a \in Attempts(c) \cup {NoAttempt}
  BY <1>1, AttemptOfType
<1>3. CASE ~ g.m.broken
  <2>1. PICK t : t = [key |-> key, rid |-> event.rid, av |-> event.av, e |-> event.e, att |-> a,
                      phase |-> "read", match |-> 0, src |-> {}, kept |-> FALSE]
    OBVIOUS
  <2>2. /\ event.rid \in 1 .. c.now /\ event.e \in Entities /\ event.av \in 1 .. c.now
        /\ Applies(event.rid, event.e, event.av, c)
    BY DEF Confirmations
  <2>3. t \in TaskFields(c)
    <3>1. 0 \in 0 .. c.now
      BY DEF Contexts
    <3> QED BY <1>2, <2>1, <2>2, <3>1 DEF TaskFields
  <2>4. Traced(t, c)
    BY <2>1, <2>2 DEF Traced
  <2>5. PICK conf : conf = g.m.conf \cup {t}
    OBVIOUS
  <2>6. conf \in SUBSET Tasks(c) /\ g.m.attempts \in SUBSET Attempts(c)
    BY <2>3, <2>4, <2>5, MemoryOf DEF Memories, Tasks
  <2>7. ConfirmStarts(g, event, key) = [g EXCEPT !.m.conf = conf]
    BY <1>1, <1>3, <2>1, <2>5 DEF ConfirmStarts
  <2>8. IsView([g EXCEPT !.m.conf = conf], c)
    BY <2>6, ConfView
  <2>9. PICK T, M, U : g \in [w : T, m : M, u : U]
    BY DEF IsView, Views
  <2>10. DOMAIN g.m = {"active", "timer", "rev", "evRev", "attempts", "newer", "structural",
                       "shown", "broken", "jobs", "save", "conf", "due", "run", "tail"}
    BY Fields, MemoryOf
  <2>11. [g EXCEPT !.m.conf = conf].m.save = g.m.save
    BY <2>9, <2>10
  <2> QED BY <2>7, <2>8, <2>11
<1>4. CASE g.m.broken /\ a = NoAttempt
  BY <1>1, <1>4 DEF ConfirmStarts
<1>5. CASE g.m.broken /\ a # NoAttempt
  <2>1. a \in g.m.attempts
    BY <1>2, <1>5
  <2>2. ConfirmStarts(g, event, key) = ConfirmedWithoutStore(g, a)
    BY <1>1, <1>5 DEF ConfirmStarts
  <2> QED BY <2>1, <2>2, WithoutStoreView
<1> QED BY <1>3, <1>4, <1>5

\* A confirmation ends.
LEMMA ConcludedView ==
  ASSUME NEW c \in Contexts, NEW g, IsView(g, c), NEW e \in Entities, NEW task, NEW active,
         NEW unprotected \in BOOLEAN, NEW clear \in BOOLEAN
  PROVE  IsView(Concluded(g, e, task, active, unprotected, clear), c)
<1>1. CASE unprotected
  <2>1. OnDirty(g.u, e, clear, g.w.sel, online) \in Statuses
    BY MemoryOf, StatusTypes
  <2>2. Concluded(g, e, task, active, unprotected, clear)
          = [g EXCEPT !.u = OnDirty(g.u, e, clear, g.w.sel, online)]
    BY <1>1 DEF Concluded
  <2> QED BY <2>1, <2>2, NewU
<1>2. CASE ~ unprotected
  <2>1. PICK h : h = [g EXCEPT !.m.rev[e] = 0, !.m.newer[e] = NoPayload]
    OBVIOUS
  <2>2. IsView(h, c)
    <3>1. 0 \in Nat
      OBVIOUS
    <3> QED BY <2>1, <3>1, CountsView, MemoryOf
  <2>3. CASE active # NoDraft
    <3>1. PICK u : u = OnPersisted(h.u, e, active.base # task.av, clear, g.w.sel, online)
      OBVIOUS
    <3>2. u \in Statuses
      BY <2>2, <3>1, MemoryOf, StatusTypes
    <3>3. PICK v : v = IF task.kept THEN WithLabelFor(u, e, g.w.sel, "local") ELSE u
      OBVIOUS
    <3>4. v \in Statuses
      BY <3>2, <3>3, WithLabelType, StatusLabels
    <3>5. Concluded(g, e, task, active, unprotected, clear) = [h EXCEPT !.u = v]
      BY <1>2, <2>1, <2>3, <3>1, <3>3 DEF Concluded
    <3> QED BY <2>2, <3>4, <3>5, NewU
  <2>4. CASE active = NoDraft
    <3>1. OnClean(h.u, e, clear, g.w.sel, online) \in Statuses
      BY <2>2, MemoryOf, StatusTypes
    <3>2. Concluded(g, e, task, active, unprotected, clear)
            = [h EXCEPT !.u = OnClean(h.u, e, clear, g.w.sel, online)]
      BY <1>2, <2>1, <2>4 DEF Concluded
    <3> QED BY <2>2, <3>1, <3>2, NewU
  <2> QED BY <2>3, <2>4
<1> QED BY <1>1, <1>2

\* A page with another component.
LEMMA ComponentView ==
  ASSUME NEW c \in Contexts, NEW g, IsView(g, c), NEW w \in Components(c)
  PROVE  IsView([g EXCEPT !.w = w], c)
<1>1. PICK h : h = [g EXCEPT !.w = w]
  OBVIOUS
<1>2. h \in Views(c) /\ h.m = g.m
  BY <1>1, MemoryOf DEF Views
<1> QED BY <1>1, <1>2, Still

Remade(g, w, m, u) == [g EXCEPT !.w = w, !.m = m, !.u = u]

\* A page with all its parts replaced.
LEMMA AllParts ==
  ASSUME NEW c \in Contexts, NEW g \in Views(c), NEW w, NEW m, NEW u
  PROVE  Remade(g, w, m, u) = View(w, m, u)
<1>1. PICK T, M, U : g \in [w : T, m : M, u : U]
  BY DEF Views
<1>2. PICK h : h = Remade(g, w, m, u)
  OBVIOUS
<1>3. DOMAIN h = {"w", "m", "u"} /\ h = [i \in {"w", "m", "u"} |-> h[i]]
  BY <1>1, <1>2 DEF Remade
<1>4. h.w = View(w, m, u).w /\ h.m = View(w, m, u).m /\ h.u = View(w, m, u).u
  BY <1>1, <1>2 DEF View, Remade
<1> QED BY <1>2, <1>3, <1>4 DEF View

\* The draft of the form.
LEMMA FormPay ==
  ASSUME NEW c \in Contexts, NEW g, IsView(g, c)
  PROVE  /\ DraftPayload(g.w.form) \in Payloads(c) /\ g.w.form.files \in SUBSET Nat
         /\ g.w.form \in Forms(c) /\ g.w.ver \in Nat /\ g.w.sel \in Entities \cup {Nothing}
<1>1. g.w \in Components(c)
  BY MemoryOf
<1>2. g.w.form \in Forms(c) /\ g.w.ver \in Nat /\ g.w.sel \in Entities \cup {Nothing}
  BY <1>1 DEF Components
<1> QED BY <1>2 DEF Forms, DraftPayload

\* Jobs that do not belong to a save may join any queue.
LEMMA JoinedView ==
  ASSUME NEW c \in Contexts, NEW g, IsView(g, c), NEW m \in Memories(c), m.save = g.m.save,
         \A e \in Entities : \A i \in DOMAIN m.jobs[e] :
           SaveWork(m.jobs[e][i]) => i \in DOMAIN g.m.jobs[e] /\ m.jobs[e][i] = g.m.jobs[e][i]
  PROVE  OneSave(m) /\ IsView([g EXCEPT !.m = m], c)
<1>1. OneSave(m)
  BY DEF OneSave, IsView
<1>2. [g EXCEPT !.m = m] = View(g.w, m, g.u)
  BY MemoryOf, Parts
<1>3. View(g.w, m, g.u) \in Views(c) /\ View(g.w, m, g.u).m = m
  BY MemoryOf, ViewIs
<1> QED BY <1>1, <1>2, <1>3 DEF IsView

MorphedMem(m, pay, noted) ==
  [m EXCEPT
    !.structural = [e \in Entities |-> 0],
    !.newer = [e \in Entities |-> IF e \in noted /\ m.save # NoSave THEN pay ELSE m.newer[e]],
    !.jobs = [e \in Entities |->
      IF e \in noted THEN Append(m.jobs[e], PersistJob(pay, m.structural[e], "structure"))
      ELSE m.jobs[e]]]

\* The memory after the notes of a structural click.
LEMMA MorphedMemType ==
  ASSUME NEW c \in Contexts, NEW m \in Memories(c), NEW pay \in Payloads(c), NEW noted
  PROVE  /\ MorphedMem(m, pay, noted) \in Memories(c)
         /\ MorphedMem(m, pay, noted).save = m.save
         /\ \A e \in Entities : \A i \in DOMAIN MorphedMem(m, pay, noted).jobs[e] :
              SaveWork(MorphedMem(m, pay, noted).jobs[e][i])
                => i \in DOMAIN m.jobs[e] /\ MorphedMem(m, pay, noted).jobs[e][i] = m.jobs[e][i]
<1>1. PICK s : s = [e \in Entities |-> 0]
  OBVIOUS
<1>2. PICK n : n = [e \in Entities |-> IF e \in noted /\ m.save # NoSave THEN pay ELSE m.newer[e]]
  OBVIOUS
<1>3. PICK j : j = [e \in Entities |->
      IF e \in noted THEN Append(m.jobs[e], PersistJob(pay, m.structural[e], "structure"))
      ELSE m.jobs[e]]
  OBVIOUS
<1>4. s \in [Entities -> Nat]
  BY <1>1
<1>5. n \in [Entities -> Newers(c)]
  BY <1>2 DEF Memories, Newers
<1>6. ASSUME NEW e \in Entities
      PROVE  /\ j[e] \in Seq(Jobs(c))
             /\ \A i \in DOMAIN j[e] :
                  SaveWork(j[e][i]) => i \in DOMAIN m.jobs[e] /\ j[e][i] = m.jobs[e][i]
  <2>1. m.jobs[e] \in Seq(Jobs(c)) /\ m.structural[e] \in Nat
    BY DEF Memories
  <2>2. PICK job : job = PersistJob(pay, m.structural[e], "structure")
    OBVIOUS
  <2>3. job \in Jobs(c) /\ ~ SaveWork(job)
    BY <2>1, <2>2 DEF PersistJob, Jobs, Persists, SaveWork
  <2>4. CASE e \in noted
    <3>1. j[e] = Append(m.jobs[e], job)
      BY <1>3, <2>2, <2>4
    <3>2. PICK q \in Seq(Jobs(c)) : q = m.jobs[e]
      BY <2>1
    <3> QED BY <2>3, <3>1, <3>2, SeqAppend
  <2>5. CASE e \notin noted
    BY <1>3, <2>1, <2>5
  <2> QED BY <2>4, <2>5
<1>7. j \in [Entities -> Seq(Jobs(c))]
  BY <1>3, <1>6
<1>8. PICK k : k = MorphedMem(m, pay, noted)
  OBVIOUS
<1>9. k = [m EXCEPT !.structural = s, !.newer = n, !.jobs = j]
  BY <1>1, <1>2, <1>3, <1>8, Zenon DEF MorphedMem
<1>10. k \in Memories(c) /\ k.save = m.save /\ k.jobs = j
  BY <1>4, <1>5, <1>7, <1>9 DEF Memories
<1> QED BY <1>6, <1>8, <1>10

\* A page whose form was rendered again.
LEMMA MorphedView ==
  ASSUME NEW c \in Contexts, NEW g, IsView(g, c)
  PROVE  IsView(Morphed(g), c) /\ Morphed(g).m.save = g.m.save
<1> DEFINE pay == DraftPayload(g.w.form)
           noted == {e \in Entities : g.m.structural[e] # 0}
<1>1. PICK m : m = MorphedMem(g.m, pay, noted)
  OBVIOUS
<1>2. /\ m \in Memories(c) /\ m.save = g.m.save
      /\ \A e \in Entities : \A i \in DOMAIN m.jobs[e] :
           SaveWork(m.jobs[e][i]) => i \in DOMAIN g.m.jobs[e] /\ m.jobs[e][i] = g.m.jobs[e][i]
  <2>1. pay \in Payloads(c)
    BY FormPay
  <2> HIDE DEF pay, noted
  <2> QED BY <1>1, <2>1, MemoryOf, MorphedMemType
<1>3. PICK h : h = [g EXCEPT !.m = m]
  OBVIOUS
<1>4. IsView(h, c) /\ h.m.save = g.m.save
  <2>1. IsView(h, c)
    BY <1>2, <1>3, JoinedView
  <2>2. h.m = m
    BY <1>3, MemoryOf DEF Views
  <2> QED BY <1>2, <2>1, <2>2
<1>5. Morphed(g) = RecoveryDue(h)
  <2>1. PICK s : s = [e \in Entities |-> 0]
    OBVIOUS
  <2>2. PICK n : n = [e \in Entities |-> IF e \in noted /\ g.m.save # NoSave THEN pay ELSE g.m.newer[e]]
    OBVIOUS
  <2>3. PICK j : j = [e \in Entities |->
          IF e \in noted THEN Append(g.m.jobs[e], PersistJob(pay, g.m.structural[e], "structure"))
          ELSE g.m.jobs[e]]
    OBVIOUS
  <2>4. m = [g.m EXCEPT !.structural = s, !.newer = n, !.jobs = j]
    BY <1>1, <2>1, <2>2, <2>3, Zenon DEF MorphedMem
  <2>5. Morphed(g) = RecoveryDue([g EXCEPT !.m.structural = s, !.m.newer = n, !.m.jobs = j])
    BY <2>1, <2>2, <2>3, Zenon DEF Morphed
  <2>6. [g EXCEPT !.m.structural = s, !.m.newer = n, !.m.jobs = j]
          = [g EXCEPT !.m = [g.m EXCEPT !.structural = s, !.newer = n, !.jobs = j]]
    <3>1. PICK T, M, U : g \in [w : T, m : M, u : U]
      BY DEF IsView, Views
    <3>2. "structural" \in DOMAIN g.m /\ "newer" \in DOMAIN g.m /\ "jobs" \in DOMAIN g.m
      BY Fields, MemoryOf
    <3> HIDE DEF pay, noted
    <3> QED BY <3>1, <3>2
  <2> QED BY <1>3, <2>4, <2>5, <2>6, Zenon
<1> QED BY <1>4, <1>5, DueView

\* A page whose component has taken over a response.
LEMMA MergedView ==
  ASSUME NEW c \in Contexts, NEW g, IsView(g, c), NEW a \in Responses(c), NEW rekeyed
  PROVE  IsView(Merged(g, a, rekeyed), c)
<1>1. PICK f : f = IF a.w.form # a.sent.form \/ rekeyed THEN a.w.form ELSE g.w.form
  OBVIOUS
<1>2. PICK n : n = IF a.w.pend # a.sent.pend THEN a.w.pend ELSE g.w.pend
  OBVIOUS
<1>3. PICK w : w = [a.w EXCEPT !.form = f, !.pend = n]
  OBVIOUS
<1>4. f \in Forms(c) /\ n \in 0 .. c.now
  BY <1>1, <1>2, MemoryOf DEF Responses, ResponseFields, Components
<1>5. w \in Components(c)
  <2>1. PICK v \in Components(c) : v = a.w
    BY DEF Responses, ResponseFields
  <2> QED BY <1>3, <1>4, <2>1 DEF Components
<1>6. Merged(g, a, rekeyed) = [g EXCEPT !.w = w]
  BY <1>1, <1>2, <1>3 DEF Merged
<1>7. IsView([g EXCEPT !.w = w], c)
  BY <1>5, ComponentView
<1> QED BY <1>6, <1>7

\* A page that has given its form up.
LEMMA ForgottenView ==
  ASSUME NEW c \in Contexts, NEW g, IsView(g, c), NEW e \in Entities
  PROVE  IsView(Forgotten(g, e), c) /\ Forgotten(g, e).m.save = g.m.save
<1>1. PICK as : as = {a \in g.m.attempts : a.e # e}
  OBVIOUS
<1>2. PICK m : m = [g.m EXCEPT !.timer[e] = NoTimer, !.rev[e] = 0, !.evRev[e] = 0,
                               !.newer[e] = NoPayload, !.structural[e] = 0, !.attempts = as]
  OBVIOUS
<1>3. m \in Memories(c) /\ m.jobs = g.m.jobs /\ m.save = g.m.save
  <2>1. PICK mm \in Memories(c) : mm = g.m
    BY MemoryOf
  <2>2. NoTimer \in Timers(c) /\ NoPayload \in Newers(c)
    BY DEF Timers, Newers
  <2>3. as \in SUBSET Attempts(c)
    BY <1>1, <2>1 DEF Memories
  <2> QED BY <1>2, <2>1, <2>2, <2>3 DEF Memories
<1>4. PICK h : h = [g EXCEPT !.m = m]
  OBVIOUS
<1>5. IsView(h, c) /\ h.m = m
  <2>1. g.u \in Statuses
    BY MemoryOf
  <2>2. PICK T, M, U : g \in [w : T, m : M, u : U]
    BY DEF IsView, Views
  <2>3. h.m = m
    BY <1>4, <2>2
  <2> QED BY <1>3, <1>4, <2>1, <2>3, MemView
<1>6. PICK job : job = [do |-> "wipe", plan |-> Unplanned]
  OBVIOUS
<1>7. job \in Jobs(c) /\ ~ SaveWork(job)
  BY <1>6 DEF Jobs, Wipes, SaveWork
<1>8. Forgotten(g, e) = Queued(h, e, job)
  <2>1. PICK T, M, U : g \in [w : T, m : M, u : U]
    BY DEF IsView, Views
  <2>2. /\ "timer" \in DOMAIN g.m /\ "rev" \in DOMAIN g.m /\ "evRev" \in DOMAIN g.m
        /\ "newer" \in DOMAIN g.m /\ "structural" \in DOMAIN g.m /\ "attempts" \in DOMAIN g.m
    BY Fields, MemoryOf
  <2>3. [g EXCEPT !.m.timer[e] = NoTimer, !.m.rev[e] = 0, !.m.evRev[e] = 0,
                  !.m.newer[e] = NoPayload, !.m.structural[e] = 0, !.m.attempts = as] = h
    BY <1>2, <1>4, <2>1, <2>2
  <2>4. Forgotten(g, e)
          = Queued([g EXCEPT !.m.timer[e] = NoTimer, !.m.rev[e] = 0, !.m.evRev[e] = 0,
                             !.m.newer[e] = NoPayload, !.m.structural[e] = 0, !.m.attempts = as],
                   e, job)
    BY <1>1, <1>6, Zenon DEF Forgotten
  <2> QED BY <2>3, <2>4, Zenon
<1> QED BY <1>3, <1>5, <1>7, <1>8, QueuedView

\* A page that offers a draft.
LEMMA DisplayedView ==
  ASSUME NEW c \in Contexts, NEW g, IsView(g, c), NEW run, run.e \in Entities, NEW d \in Drafts(c)
  PROVE  IsView(Displayed(g, run, d), c)
<1>1. PICK stale \in BOOLEAN : stale = (d.base # run.base)
  OBVIOUS
<1>2. PICK s : s = [draft |-> d, e |-> run.e, restored |-> FALSE, stale |-> stale]
  OBVIOUS
<1>3. PICK u : u = WithLabel(g.u, IF stale THEN "stale" ELSE "local")
  OBVIOUS
<1>4. PICK m : m = [g.m EXCEPT !.shown = s]
  OBVIOUS
<1>5. m \in Memories(c) /\ m.jobs = g.m.jobs /\ m.save = g.m.save
  <2>1. PICK mm \in Memories(c) : mm = g.m
    BY MemoryOf
  <2>2. s \in Shows(c)
    BY <1>2 DEF Shows
  <2> QED BY <1>4, <2>1, <2>2 DEF Memories
<1>6. u \in Statuses
  BY <1>3, MemoryOf, WithLabelType, StatusLabels
<1>7. Displayed(g, run, d) = Shown(g, m, u)
  <2>1. PICK T, M, U : g \in [w : T, m : M, u : U]
    BY DEF IsView, Views
  <2>2. "shown" \in DOMAIN g.m
    BY Fields, MemoryOf
  <2>3. [g EXCEPT !.m.shown = s, !.u = u] = Shown(g, m, u)
    BY <1>4, <2>1, <2>2 DEF Shown
  <2>4. Displayed(g, run, d) = [g EXCEPT !.m.shown = s, !.u = u]
    BY <1>1, <1>2, <1>3 DEF Displayed
  <2> QED BY <2>3, <2>4
<1>8. IsView(Shown(g, m, u), c)
  BY <1>5, <1>6, MemView
<1> QED BY <1>7, <1>8

\* A page that saves nothing has no job of a save.
LEMMA Unsaved ==
  ASSUME NEW c \in Contexts, NEW g, IsView(g, c), g.m.save = NoSave
  PROVE  Idle(g.m)
BY DEF IsView, OneSave, Idle

\* An edit of the form.
Edited(g, e, pay) ==
  [g EXCEPT !.w.form.pay = pay, !.m.rev[e] = @ + 1,
            !.m.timer[e] = [pay |-> pay, base |-> g.w.ver], !.u = OnInput(@, e, FALSE, online)]

\* A page whose form was edited.
LEMMA EditedView ==
  ASSUME NEW c \in Contexts, NEW g, IsView(g, c), NEW e \in Entities, NEW pay \in Payloads(c)
  PROVE  IsView(Edited(g, e, pay), c)
<1>1. PICK w : w = [g.w EXCEPT !.form.pay = pay]
  OBVIOUS
<1>2. w \in Components(c)
  <2>1. PICK f : f = [g.w.form EXCEPT !.pay = pay]
    OBVIOUS
  <2>2. f \in Forms(c)
    <3>1. PICK k \in Forms(c) : k = g.w.form
      BY FormPay
    <3> QED BY <2>1, <3>1 DEF Forms
  <2>3. PICK v \in Components(c) : v = g.w
    BY MemoryOf
  <2>4. w = [v EXCEPT !.form = f]
    BY <1>1, <2>1, <2>3 DEF Components
  <2> QED BY <2>2, <2>3, <2>4 DEF Components
<1>3. PICK t : t = [pay |-> pay, base |-> g.w.ver]
  OBVIOUS
<1>4. t \in Timers(c)
  BY <1>3, FormPay DEF Timers
<1>5. PICK m : m = [g.m EXCEPT !.rev[e] = @ + 1, !.timer[e] = t]
  OBVIOUS
<1>6. m \in Memories(c) /\ m.jobs = g.m.jobs /\ m.save = g.m.save
  <2>1. PICK mm \in Memories(c) : mm = g.m
    BY MemoryOf
  <2>2. PICK n \in Nat : n = mm.rev[e] + 1
    BY <2>1 DEF Memories
  <2>3. m = [mm EXCEPT !.rev[e] = n, !.timer[e] = t]
    BY <1>5, <2>1, <2>2
  <2> QED BY <1>4, <2>1, <2>3 DEF Memories
<1>7. PICK u : u = OnInput(g.u, e, FALSE, online)
  OBVIOUS
<1>8. u \in Statuses
  BY <1>7, MemoryOf, StatusTypes
<1>9. Edited(g, e, pay) = View(w, m, u)
  <2>1. PICK T, M, U : g \in [w : T, m : M, u : U]
    BY DEF IsView, Views
  <2>2. "rev" \in DOMAIN g.m /\ "timer" \in DOMAIN g.m /\ "form" \in DOMAIN g.w
    BY Fields, MemoryOf
  <2>6. PICK h : h = [g EXCEPT !.w = w]
    OBVIOUS
  <2>7. [g EXCEPT !.w.form.pay = pay] = h /\ h.m = g.m /\ h \in [w : {w}, m : M, u : U]
    BY <1>1, <2>1, <2>6
  <2>8. [h EXCEPT !.m.rev[e] = g.m.rev[e] + 1, !.m.timer[e] = t, !.u = u]
          = [h EXCEPT !.m = m, !.u = u]
    BY <1>5, <2>2, <2>7
  <2>3. [g EXCEPT !.w.form.pay = pay, !.m.rev[e] = @ + 1, !.m.timer[e] = t, !.u = u]
          = Remade(g, w, m, u)
    BY <2>6, <2>7, <2>8 DEF Remade
  <2>4. Edited(g, e, pay)
          = [g EXCEPT !.w.form.pay = pay, !.m.rev[e] = @ + 1, !.m.timer[e] = t, !.u = u]
    BY <1>3, <1>7, Zenon DEF Edited
  <2>5. Remade(g, w, m, u) = View(w, m, u)
    BY MemoryOf, AllParts
  <2> QED BY <2>3, <2>4, <2>5
<1> QED BY <1>2, <1>6, <1>8, <1>9, ViewStill

\* A page that remembers what was typed during a save.
LEMMA NewerView ==
  ASSUME NEW c \in Contexts, NEW g, IsView(g, c), NEW e \in Entities, NEW pay \in Payloads(c)
  PROVE  IsView(Newer(g, e, pay), c)
<1>1. PICK m : m = [g.m EXCEPT !.newer[e] = pay]
  OBVIOUS
<1>2. m \in Memories(c) /\ m.jobs = g.m.jobs /\ m.save = g.m.save
  <2>1. PICK mm \in Memories(c) : mm = g.m
    BY MemoryOf
  <2>2. pay \in Newers(c)
    BY DEF Newers
  <2> QED BY <1>1, <2>1, <2>2 DEF Memories
<1>3. [g EXCEPT !.m.newer[e] = pay] = [g EXCEPT !.m = m]
  <2>1. PICK T, M, U : g \in [w : T, m : M, u : U]
    BY DEF IsView, Views
  <2>2. "newer" \in DOMAIN g.m
    BY Fields, MemoryOf
  <2> QED BY <1>1, <2>1, <2>2
<1>4. IsView([g EXCEPT !.m = m], c)
  <2>1. g.u \in Statuses
    BY MemoryOf
  <2> QED BY <1>2, <2>1, MemView
<1> QED BY <1>3, <1>4 DEF Newer

\* A file on the form.
WithFile(g, e, n) ==
  [g EXCEPT !.w.form.files = @ \cup {n}, !.m.evRev[e] = @ + 1, !.u = OnInput(@, e, TRUE, online)]

\* A page with one more file on its form.
LEMMA WithFileView ==
  ASSUME NEW c \in Contexts, NEW g, IsView(g, c), NEW e \in Entities, NEW n \in Nat
  PROVE  IsView(WithFile(g, e, n), c)
<1>0. PICK fs : fs = g.w.form.files \cup {n}
  OBVIOUS
<1>1. PICK w : w = [g.w EXCEPT !.form.files = fs]
  OBVIOUS
<1>2. w \in Components(c)
  <2>0. fs \in SUBSET Nat
    BY <1>0, FormPay
  <2>1. PICK f : f = [g.w.form EXCEPT !.files = fs]
    OBVIOUS
  <2>2. f \in Forms(c)
    <3>1. PICK k \in Forms(c) : k = g.w.form
      BY FormPay
    <3> QED BY <2>0, <2>1, <3>1 DEF Forms
  <2>3. PICK v \in Components(c) : v = g.w
    BY MemoryOf
  <2>4. w = [v EXCEPT !.form = f]
    BY <1>1, <2>1, <2>3 DEF Components
  <2> QED BY <2>2, <2>3, <2>4 DEF Components
<1>3. PICK k \in Nat : k = g.m.evRev[e] + 1
  BY MemoryOf DEF Memories
<1>5. PICK m : m = [g.m EXCEPT !.evRev[e] = k]
  OBVIOUS
<1>6. m \in Memories(c) /\ m.jobs = g.m.jobs /\ m.save = g.m.save
  <2>1. PICK mm \in Memories(c) : mm = g.m
    BY MemoryOf
  <2> QED BY <1>5, <2>1 DEF Memories
<1>7. PICK u : u = OnInput(g.u, e, TRUE, online)
  OBVIOUS
<1>8. u \in Statuses
  BY <1>7, MemoryOf, StatusTypes
<1>9. WithFile(g, e, n) = View(w, m, u)
  <2>1. PICK T, M, U : g \in [w : T, m : M, u : U]
    BY DEF IsView, Views
  <2>2. "evRev" \in DOMAIN g.m /\ "form" \in DOMAIN g.w
    BY Fields, MemoryOf
  <2>6. PICK h : h = [g EXCEPT !.w = w]
    OBVIOUS
  <2>7. [g EXCEPT !.w.form.files = fs] = h /\ h.m = g.m /\ h \in [w : {w}, m : M, u : U]
    BY <1>1, <2>1, <2>6
  <2>8. [h EXCEPT !.m.evRev[e] = k, !.u = u] = [h EXCEPT !.m = m, !.u = u]
    BY <1>5, <2>2, <2>7
  <2>3. [g EXCEPT !.w.form.files = fs, !.m.evRev[e] = k, !.u = u]
          = Remade(g, w, m, u)
    BY <2>6, <2>7, <2>8 DEF Remade
  <2>4. WithFile(g, e, n) = [g EXCEPT !.w.form.files = fs, !.m.evRev[e] = k, !.u = u]
    BY <1>0, <1>3, <1>7, Zenon DEF WithFile
  <2>5. Remade(g, w, m, u) = View(w, m, u)
    BY MemoryOf, AllParts
  <2> QED BY <2>3, <2>4, <2>5
<1> QED BY <1>2, <1>6, <1>8, <1>9, ViewStill

\* The timer of a finding is stopped.
LEMMA UntimedView ==
  ASSUME NEW c \in Contexts, NEW g, IsView(g, c), NEW e \in Entities
  PROVE  /\ IsView([g EXCEPT !.m.timer[e] = NoTimer], c)
         /\ [g EXCEPT !.m.timer[e] = NoTimer].m.save = g.m.save
<1>1. PICK m : m = [g.m EXCEPT !.timer[e] = NoTimer]
  OBVIOUS
<1>2. m \in Memories(c) /\ m.jobs = g.m.jobs /\ m.save = g.m.save
  <2>1. PICK mm \in Memories(c) : mm = g.m
    BY MemoryOf
  <2>2. NoTimer \in Timers(c)
    BY DEF Timers
  <2> QED BY <1>1, <2>1, <2>2 DEF Memories
<1>3. [g EXCEPT !.m.timer[e] = NoTimer] = [g EXCEPT !.m = m]
  <2>1. PICK T, M, U : g \in [w : T, m : M, u : U]
    BY DEF IsView, Views
  <2>2. "timer" \in DOMAIN g.m
    BY Fields, MemoryOf
  <2> QED BY <1>1, <2>1, <2>2
<1>4. IsView([g EXCEPT !.m = m], c)
  <2>1. g.u \in Statuses
    BY MemoryOf
  <2> QED BY <1>2, <2>1, MemView
<1>5. [g EXCEPT !.m = m].m = m
  <2>1. PICK T, M, U : g \in [w : T, m : M, u : U]
    BY DEF IsView, Views
  <2> QED BY <2>1
<1> QED BY <1>2, <1>3, <1>4, <1>5

\* A save begins.
SaveOf(how, e, base, pay) ==
  [phase |-> "persist", how |-> how, e |-> e, base |-> base, pay |-> pay,
   draft |-> NoDraft, rid |-> 0, tries |-> 0]

\* A save begins: its timer is off, and its draft is to be kept.
LEMMA SaveBegunView ==
  ASSUME NEW c \in Contexts, NEW g, IsView(g, c), g.m.save = NoSave, NEW how \in Intercepted,
         NEW e \in Entities
  PROVE  IsView(Queued([g EXCEPT !.m.timer[e] = NoTimer,
                          !.m.save = SaveOf(how, e, g.w.ver, DraftPayload(g.w.form))],
                       e, PersistJob(DraftPayload(g.w.form), g.w.ver, "save")), c)
<1>1. PICK s : s = SaveOf(how, e, g.w.ver, DraftPayload(g.w.form))
  OBVIOUS
<1>2. s \in Saves(c) /\ s # NoSave /\ s.e = e /\ s.phase = "persist"
  <2>1. s \in RunningSaves(c) /\ s.e = e /\ s.phase = "persist"
    <3>1. 0 \in 0 .. c.now
      BY DEF Contexts
    <3> QED BY <1>1, <3>1, FormPay DEF SaveOf, RunningSaves
  <2> QED BY <2>1, RunningSave
<1>3. PICK k : k = [g EXCEPT !.m.timer[e] = NoTimer]
  OBVIOUS
<1>4. IsView(k, c) /\ k.m.save = NoSave
  BY <1>3, UntimedView
<1>5. PICK h : h = WithSave(k, s)
  OBVIOUS
<1>6. h \in Views(c) /\ Idle(h.m) /\ h.m.save = s
  BY <1>2, <1>4, <1>5, Unsaved, MemoryOf, SaveMoved
<1>7. [g EXCEPT !.m.timer[e] = NoTimer, !.m.save = s] = h
  BY <1>3, <1>5 DEF WithSave
<1>8. PICK job : job = PersistJob(DraftPayload(g.w.form), g.w.ver, "save")
  OBVIOUS
<1>9. job \in Jobs(c) /\ Fitting(job) = {"persist", "repersist"}
  BY <1>8, FormPay DEF PersistJob, Jobs, Persists, Fitting
<1>10. IsView(Queued(h, e, job), c)
  BY <1>2, <1>6, <1>9, QueuedSaveView
<1> QED BY <1>1, <1>7, <1>8, <1>10

\* A timer fires: what it held is to be kept.
LEMMA TimerView ==
  ASSUME NEW c \in Contexts, NEW g, IsView(g, c), NEW e \in Entities, g.m.timer[e] # NoTimer
  PROVE  IsView(Queued([g EXCEPT !.m.timer[e] = NoTimer], e,
                       PersistJob(g.m.timer[e].pay, g.m.timer[e].base, "timer")), c)
<1>1. g.m.timer[e] \in [pay : Payloads(c), base : Nat]
  BY MemoryOf DEF Memories, Timers
<1>2. PICK job : job = PersistJob(g.m.timer[e].pay, g.m.timer[e].base, "timer")
  OBVIOUS
<1>3. job \in Jobs(c) /\ ~ SaveWork(job)
  BY <1>1, <1>2 DEF PersistJob, Jobs, Persists, SaveWork
<1>4. PICK h : h = [g EXCEPT !.m.timer[e] = NoTimer]
  OBVIOUS
<1>5. IsView(h, c)
  BY <1>4, UntimedView
<1>6. IsView(Queued(h, e, job), c)
  BY <1>3, <1>5, QueuedView
<1> QED BY <1>2, <1>4, <1>6

\* A job with its plan.
LEMMA PlannedJob ==
  ASSUME NEW c \in Contexts, NEW job \in Jobs(c), NEW plan,
         \/ job.do \in {"persist", "mark"} /\ plan \in Puts(c)
         \/ job.do = "confirm" /\ plan \in Treatments(c)
            /\ plan.src \subseteq SourcesOf(job.task.rid, job.task.e, c)
         \/ job.do = "wipe" /\ plan \in Deletions
  PROVE  /\ [job EXCEPT !.plan = plan] \in Jobs(c)
         /\ SaveWork([job EXCEPT !.plan = plan]) <=> SaveWork(job)
         /\ Fitting([job EXCEPT !.plan = plan]) = Fitting(job)
<1>1. CASE job.do = "persist"
  <2>1. PICK j \in Persists(c) : j = job
    BY <1>1, JobKinds
  <2>2. /\ [j EXCEPT !.plan = plan] \in Persists(c)
        /\ [j EXCEPT !.plan = plan].do = j.do /\ [j EXCEPT !.plan = plan].by = j.by
    BY <1>1, <2>1 DEF Persists
  <2> QED BY <2>1, <2>2 DEF Jobs, SaveWork, Fitting
<1>2. CASE job.do = "mark"
  <2>1. PICK j \in Marks(c) : j = job
    BY <1>2, JobKinds
  <2>2. /\ [j EXCEPT !.plan = plan] \in Marks(c)
        /\ [j EXCEPT !.plan = plan].do = j.do /\ j.do = "mark"
    BY <1>2, <2>1 DEF Marks
  <2> QED BY <2>1, <2>2 DEF Jobs, SaveWork, Fitting
<1>3. CASE job.do = "confirm"
  <2>1. PICK j \in Confirms(c) : j = job
    BY <1>3, JobKinds
  <2>2. /\ [j EXCEPT !.plan = plan] \in Confirms(c)
        /\ [j EXCEPT !.plan = plan].do = j.do /\ j.do = "confirm"
    <3>1. j.do = "confirm" /\ j \in [do : {"confirm"}, task : Tasks(c), plan : Treatments(c) \cup {Unplanned}]
      BY DEF Confirms
    <3>2. plan \in Treatments(c) /\ plan.src \subseteq SourcesOf(j.task.rid, j.task.e, c)
      BY <1>3, <2>1
    <3>3. PICK k : k = [j EXCEPT !.plan = plan]
      OBVIOUS
    <3>4. /\ k \in [do : {"confirm"}, task : Tasks(c), plan : Treatments(c) \cup {Unplanned}]
          /\ k.task = j.task /\ k.plan = plan /\ k.do = j.do
      BY <3>1, <3>2, <3>3
    <3> QED BY <3>1, <3>2, <3>3, <3>4 DEF Confirms
  <2> QED BY <2>1, <2>2 DEF Jobs, SaveWork, Fitting
<1>4. CASE job.do = "wipe"
  <2>1. PICK j \in Wipes : j = job
    BY <1>4, JobKinds
  <2>2. /\ [j EXCEPT !.plan = plan] \in Wipes
        /\ [j EXCEPT !.plan = plan].do = j.do /\ j.do = "wipe"
    BY <1>4, <2>1 DEF Wipes
  <2> QED BY <2>1, <2>2 DEF Jobs, SaveWork, Fitting
<1> QED BY <1>1, <1>2, <1>3, <1>4

Planned(g, e, plan) == [g EXCEPT !.m.jobs[e][1].plan = plan]
Replaced(g, e, q) == [g EXCEPT !.m.jobs[e] = q]

\* A job exchanged for one of its kind.
LEMMA ReplacedView ==
  ASSUME NEW c \in Contexts, NEW g, IsView(g, c), NEW e \in Entities, g.m.jobs[e] # <<>>,
         NEW job \in Jobs(c), SaveWork(job) <=> SaveWork(Head(g.m.jobs[e])),
         Fitting(job) = Fitting(Head(g.m.jobs[e]))
  PROVE  IsView(Replaced(g, e, [g.m.jobs[e] EXCEPT ![1] = job]), c)
<1>1. PICK q \in Seq(Jobs(c)) : q = g.m.jobs[e]
  BY MemoryOf DEF Memories
<1>2. PICK r : r = [q EXCEPT ![1] = job]
  OBVIOUS
<1>3. /\ r \in Seq(Jobs(c)) /\ DOMAIN r = DOMAIN q /\ r[1] = job
      /\ \A i \in DOMAIN q : i # 1 => r[i] = q[i]
      /\ Head(q) = q[1]
  BY <1>1, <1>2, SeqPut, SeqTail
<1>4. \A i \in DOMAIN r : (SaveWork(r[i]) <=> SaveWork(q[i])) /\ Fitting(r[i]) = Fitting(q[i])
  <2> TAKE i \in DOMAIN r
  <2>1. CASE i = 1
    BY <1>1, <1>3, <2>1
  <2>2. CASE i # 1
    BY <1>3, <2>2
  <2> QED BY <2>1, <2>2
<1>5. PICK m : m = [g.m EXCEPT !.jobs[e] = r]
  OBVIOUS
<1>6. m \in Memories(c) /\ m.save = g.m.save /\ m.jobs = [g.m.jobs EXCEPT ![e] = r]
  <2>1. PICK mm \in Memories(c) : mm = g.m
    BY MemoryOf
  <2> QED BY <1>3, <1>5, <2>1 DEF Memories
<1>7. OneSave(m)
  <2> SUFFICES ASSUME NEW f \in Entities, NEW i \in DOMAIN m.jobs[f], SaveWork(m.jobs[f][i])
               PROVE  /\ m.save # NoSave /\ m.save.e = f /\ m.save.phase \in Fitting(m.jobs[f][i])
                      /\ \A j \in DOMAIN m.jobs[f] : SaveWork(m.jobs[f][j]) => j = i
    BY DEF OneSave
  <2>0. g.m.jobs \in [Entities -> Seq(Jobs(c))]
    BY MemoryOf DEF Memories
  <2>1. CASE f = e
    <3>1. m.jobs[f] = r
      BY <1>6, <2>0, <2>1
    <3>2. i \in DOMAIN q /\ SaveWork(q[i]) /\ Fitting(r[i]) = Fitting(q[i])
      BY <1>3, <1>4, <3>1
    <3>3. /\ m.save # NoSave /\ m.save.e = e /\ m.save.phase \in Fitting(q[i])
          /\ \A j \in DOMAIN q : SaveWork(q[j]) => j = i
      BY <1>1, <1>6, <3>2 DEF IsView, OneSave
    <3> QED BY <1>3, <1>4, <2>1, <3>1, <3>2, <3>3
  <2>2. CASE f # e
    <3>1. m.jobs[f] = g.m.jobs[f]
      BY <1>6, <2>0, <2>2
    <3> QED BY <1>6, <3>1 DEF IsView, OneSave
  <2> QED BY <2>1, <2>2
<1>8. Replaced(g, e, r) = [g EXCEPT !.m = m]
  <2>1. PICK T, M, U : g \in [w : T, m : M, u : U]
    BY DEF IsView, Views
  <2>2. "jobs" \in DOMAIN g.m
    BY Fields, MemoryOf
  <2> QED BY <1>5, <2>1, <2>2 DEF Replaced
<1>9. [g EXCEPT !.m = m] = View(g.w, m, g.u)
  BY MemoryOf, Parts
<1>10. View(g.w, m, g.u) \in Views(c) /\ View(g.w, m, g.u).m = m
  BY <1>6, MemoryOf, ViewIs
<1> QED BY <1>1, <1>2, <1>7, <1>8, <1>9, <1>10 DEF IsView

\* A job that has read the store.
LEMMA PlannedView ==
  ASSUME NEW c \in Contexts, NEW g, IsView(g, c), NEW e \in Entities, g.m.jobs[e] # <<>>,
         NEW plan, [Head(g.m.jobs[e]) EXCEPT !.plan = plan] \in Jobs(c),
         SaveWork([Head(g.m.jobs[e]) EXCEPT !.plan = plan]) <=> SaveWork(Head(g.m.jobs[e])),
         Fitting([Head(g.m.jobs[e]) EXCEPT !.plan = plan]) = Fitting(Head(g.m.jobs[e]))
  PROVE  IsView(Planned(g, e, plan), c)
<1>1. PICK job : job = [Head(g.m.jobs[e]) EXCEPT !.plan = plan]
  OBVIOUS
<1>2. PICK r : r = [g.m.jobs[e] EXCEPT ![1] = job]
  OBVIOUS
<1>3. IsView(Replaced(g, e, r), c)
  BY <1>1, <1>2, ReplacedView
<1>4. g.m.jobs[e] \in Seq(Jobs(c))
  BY MemoryOf DEF Memories
<1>5. Head(g.m.jobs[e]) = g.m.jobs[e][1]
  BY <1>4, SeqTail
<1>6. Planned(g, e, plan) = Replaced(g, e, r)
  <2>1. PICK T, M, U : g \in [w : T, m : M, u : U]
    BY DEF IsView, Views
  <2>2. r = [g.m.jobs[e] EXCEPT ![1] = [g.m.jobs[e][1] EXCEPT !.plan = plan]]
    BY <1>1, <1>2, <1>5
  <2>3. [g EXCEPT !.m.jobs[e][1].plan = plan] = [g EXCEPT !.m.jobs[e] = r]
    BY <2>1, <2>2
  <2> QED BY <2>3 DEF Planned, Replaced
<1> QED BY <1>3, <1>6

\* A confirmation becomes a job.
LEMMA ConfirmJob ==
  ASSUME NEW c \in Contexts, NEW task \in Tasks(c)
  PROVE  /\ [do |-> "confirm", task |-> task, plan |-> Unplanned] \in Jobs(c)
         /\ ~ SaveWork([do |-> "confirm", task |-> task, plan |-> Unplanned])
BY DEF Jobs, Confirms, SaveWork

\* A confirmation that has moved on.
LEMMA ConfSwapped ==
  ASSUME NEW c \in Contexts, NEW g, IsView(g, c), NEW task, NEW t \in Tasks(c)
  PROVE  IsView([g EXCEPT !.m.conf = (g.m.conf \ {task}) \cup {t}], c)
<1>1. PICK conf : conf = (g.m.conf \ {task}) \cup {t}
  OBVIOUS
<1>2. conf \in SUBSET Tasks(c) /\ g.m.attempts \in SUBSET Attempts(c)
  BY <1>1, MemoryOf DEF Memories
<1>3. IsView([g EXCEPT !.m.conf = conf], c)
  BY <1>2, ConfView
<1> QED BY <1>1, <1>3

\* A confirmation on its last step.
LEMMA FinalTask ==
  ASSUME NEW c \in Contexts, NEW task \in Tasks(c)
  PROVE  [task EXCEPT !.phase = "final"] \in Tasks(c)
<1>1. PICK t : t = [task EXCEPT !.phase = "final"]
  OBVIOUS
<1>2. /\ t \in TaskFields(c) /\ t.src = task.src /\ t.rid = task.rid /\ t.e = task.e
      /\ t.av = task.av /\ t.match = task.match /\ t.phase = "final"
  BY <1>1 DEF Tasks, TaskFields
<1> QED BY <1>1, <1>2 DEF Tasks, Traced

\* The draft a confirmation is about has been found.
LEMMA SeenTask ==
  ASSUME NEW c \in Contexts, NEW task \in Tasks(c), NEW f \in {"final", "job"},
         NEW n \in 0 .. c.now,
         n # 0 => \E b \in c.born : b.id = n /\ b.e = task.e /\ (b.src # 0 => b.at < task.rid)
  PROVE  [task EXCEPT !.phase = f, !.match = n] \in Tasks(c)
<1>1. PICK t : t = [task EXCEPT !.phase = f, !.match = n]
  OBVIOUS
<1>2. /\ t \in TaskFields(c) /\ t.src = task.src /\ t.rid = task.rid /\ t.e = task.e
      /\ t.av = task.av /\ t.match = n /\ t.phase = f
  BY <1>1 DEF Tasks, TaskFields
<1> QED BY <1>1, <1>2 DEF Tasks, Traced

\* What the recovery has read.
LEMMA RunView ==
  ASSUME NEW c \in Contexts, NEW g, IsView(g, c), NEW run \in Runs(c), NEW s \in Shows(c)
  PROVE  /\ IsView([g EXCEPT !.m.due = FALSE, !.m.run = run, !.m.shown = s], c)
         /\ IsView([g EXCEPT !.m.due = FALSE, !.m.run = run], c)
<1>1. PICK T, M, U : g \in [w : T, m : M, u : U]
  BY DEF IsView, Views
<1>2. "due" \in DOMAIN g.m /\ "run" \in DOMAIN g.m /\ "shown" \in DOMAIN g.m
  BY Fields, MemoryOf
<1>3. PICK mm \in Memories(c) : mm = g.m
  BY MemoryOf
<1>0. g.u \in Statuses
  BY MemoryOf
<1>4. IsView([g EXCEPT !.m.due = FALSE, !.m.run = run, !.m.shown = s], c)
  <2>1. PICK m : m = [g.m EXCEPT !.due = FALSE, !.run = run, !.shown = s]
    OBVIOUS
  <2>2. m \in Memories(c) /\ m.jobs = g.m.jobs /\ m.save = g.m.save
    BY <1>3, <2>1 DEF Memories
  <2>3. [g EXCEPT !.m.due = FALSE, !.m.run = run, !.m.shown = s] = [g EXCEPT !.m = m]
    BY <1>1, <1>2, <2>1
  <2>4. IsView([g EXCEPT !.m = m], c)
    BY <1>0, <2>2, MemView
  <2> QED BY <2>3, <2>4
<1>5. IsView([g EXCEPT !.m.due = FALSE, !.m.run = run], c)
  <2>1. PICK m : m = [g.m EXCEPT !.due = FALSE, !.run = run]
    OBVIOUS
  <2>2. m \in Memories(c) /\ m.jobs = g.m.jobs /\ m.save = g.m.save
    BY <1>3, <2>1 DEF Memories
  <2>3. [g EXCEPT !.m.due = FALSE, !.m.run = run] = [g EXCEPT !.m = m]
    BY <1>1, <1>2, <2>1
  <2>4. IsView([g EXCEPT !.m = m], c)
    BY <1>0, <2>2, MemView
  <2> QED BY <2>3, <2>4
<1> QED BY <1>4, <1>5

\* The recovery is over.
LEMMA RunOverView ==
  ASSUME NEW c \in Contexts, NEW g, IsView(g, c), NEW e \in Entities, NEW id \in 0 .. c.now
  PROVE  IsView([g EXCEPT !.m.run = NoRun, !.m.active[e] = id], c)
<1>1. PICK T, M, U : g \in [w : T, m : M, u : U]
  BY DEF IsView, Views
<1>2. "active" \in DOMAIN g.m /\ "run" \in DOMAIN g.m
  BY Fields, MemoryOf
<1>3. PICK mm \in Memories(c) : mm = g.m
  BY MemoryOf
<1>4. g.u \in Statuses /\ NoRun \in Runs(c)
  BY MemoryOf DEF Runs
<1>5. PICK m : m = [g.m EXCEPT !.run = NoRun, !.active[e] = id]
  OBVIOUS
<1>6. m \in Memories(c) /\ m.jobs = g.m.jobs /\ m.save = g.m.save
  BY <1>3, <1>4, <1>5 DEF Memories
<1>7. [g EXCEPT !.m.run = NoRun, !.m.active[e] = id] = [g EXCEPT !.m = m]
  BY <1>1, <1>2, <1>5
<1>8. IsView([g EXCEPT !.m = m], c)
  BY <1>4, <1>6, MemView
<1> QED BY <1>7, <1>8

\* A page whose offer is taken away.
LEMMA HiddenView ==
  ASSUME NEW c \in Contexts, NEW g, IsView(g, c)
  PROVE  IsView([g EXCEPT !.m.shown = NoShown], c)
<1>1. PICK T, M, U : g \in [w : T, m : M, u : U]
  BY DEF IsView, Views
<1>2. "shown" \in DOMAIN g.m
  BY Fields, MemoryOf
<1>3. PICK mm \in Memories(c) : mm = g.m
  BY MemoryOf
<1>4. g.u \in Statuses /\ NoShown \in Shows(c)
  BY MemoryOf DEF Shows
<1>5. PICK m : m = [g.m EXCEPT !.shown = NoShown]
  OBVIOUS
<1>6. m \in Memories(c) /\ m.jobs = g.m.jobs /\ m.save = g.m.save
  BY <1>3, <1>4, <1>5 DEF Memories
<1>7. [g EXCEPT !.m.shown = NoShown] = [g EXCEPT !.m = m]
  BY <1>1, <1>2, <1>5
<1>8. IsView([g EXCEPT !.m = m], c)
  BY <1>4, <1>6, MemView
<1> QED BY <1>7, <1>8

\* A draft on offer is thrown away.
LEMMA DroppedView ==
  ASSUME NEW c \in Contexts, NEW g, IsView(g, c), NEW e \in Entities, NEW id \in 0 .. c.now,
         NEW t \in Tails
  PROVE  IsView([g EXCEPT !.m.shown = NoShown, !.m.active[e] = id, !.m.tail = t], c)
<1>1. PICK T, M, U : g \in [w : T, m : M, u : U]
  BY DEF IsView, Views
<1>2. "shown" \in DOMAIN g.m /\ "active" \in DOMAIN g.m /\ "tail" \in DOMAIN g.m
  BY Fields, MemoryOf
<1>3. PICK mm \in Memories(c) : mm = g.m
  BY MemoryOf
<1>4. g.u \in Statuses /\ NoShown \in Shows(c)
  BY MemoryOf DEF Shows
<1>5. PICK m : m = [g.m EXCEPT !.shown = NoShown, !.active[e] = id, !.tail = t]
  OBVIOUS
<1>6. m \in Memories(c) /\ m.jobs = g.m.jobs /\ m.save = g.m.save
  BY <1>3, <1>4, <1>5 DEF Memories
<1>7. [g EXCEPT !.m.shown = NoShown, !.m.active[e] = id, !.m.tail = t] = [g EXCEPT !.m = m]
  BY <1>1, <1>2, <1>5
<1>8. IsView([g EXCEPT !.m = m], c)
  BY <1>4, <1>6, MemView
<1> QED BY <1>7, <1>8

\* A page whose discarded drafts are gone.
LEMMA TailOverView ==
  ASSUME NEW c \in Contexts, NEW g, IsView(g, c)
  PROVE  IsView([g EXCEPT !.m.tail = NoRun], c)
<1>1. PICK T, M, U : g \in [w : T, m : M, u : U]
  BY DEF IsView, Views
<1>2. "tail" \in DOMAIN g.m
  BY Fields, MemoryOf
<1>3. PICK mm \in Memories(c) : mm = g.m
  BY MemoryOf
<1>4. g.u \in Statuses /\ NoRun \in Tails
  BY MemoryOf DEF Tails
<1>5. PICK m : m = [g.m EXCEPT !.tail = NoRun]
  OBVIOUS
<1>6. m \in Memories(c) /\ m.jobs = g.m.jobs /\ m.save = g.m.save
  BY <1>3, <1>4, <1>5 DEF Memories
<1>7. [g EXCEPT !.m.tail = NoRun] = [g EXCEPT !.m = m]
  BY <1>1, <1>2, <1>5
<1>8. IsView([g EXCEPT !.m = m], c)
  BY <1>4, <1>6, MemView
<1> QED BY <1>7, <1>8

\* A draft goes on the form.
LEMMA RestoredView ==
  ASSUME NEW c \in Contexts, NEW g, IsView(g, c), NEW e \in Entities, NEW pay \in Payloads(c),
         NEW d \in Drafts(c), NEW stale \in BOOLEAN
  PROVE  IsView(Queued([g EXCEPT !.w.form.pay = pay], e,
                       [do |-> "adopt", stale |-> stale, plan |-> PutPlan(d)]), c)
<1>1. PICK w : w = [g.w EXCEPT !.form.pay = pay]
  OBVIOUS
<1>2. w \in Components(c)
  <2>1. PICK f : f = [g.w.form EXCEPT !.pay = pay]
    OBVIOUS
  <2>2. f \in Forms(c)
    <3>1. PICK k \in Forms(c) : k = g.w.form
      BY FormPay
    <3> QED BY <2>1, <3>1 DEF Forms
  <2>3. PICK v \in Components(c) : v = g.w
    BY MemoryOf
  <2>4. w = [v EXCEPT !.form = f]
    BY <1>1, <2>1, <2>3 DEF Components
  <2> QED BY <2>2, <2>3, <2>4 DEF Components
<1>3. PICK h : h = [g EXCEPT !.w = w]
  OBVIOUS
<1>4. IsView(h, c)
  BY <1>2, <1>3, ComponentView
<1>5. [g EXCEPT !.w.form.pay = pay] = h
  <2>1. PICK T, M, U : g \in [w : T, m : M, u : U]
    BY DEF IsView, Views
  <2> QED BY <1>1, <1>3, <2>1
<1>6. PICK job : job = [do |-> "adopt", stale |-> stale, plan |-> PutPlan(d)]
  OBVIOUS
<1>7. job \in Jobs(c) /\ ~ SaveWork(job)
  BY <1>6 DEF Jobs, Adopts, Puts, PutPlan, SaveWork
<1>8. IsView(Queued(h, e, job), c)
  BY <1>4, <1>7, QueuedView
<1> QED BY <1>5, <1>6, <1>8

\* A click on the solutions.
LEMMA RestructuredView ==
  ASSUME NEW c \in Contexts, NEW g, IsView(g, c), NEW e \in Entities
  PROVE  IsView([StructuralNote(g, e) EXCEPT !.m.rev[e] = @ + 1,
                                             !.u = OnDirty(@, e, FALSE, e, online)], c)
<1>1. PICK T, M, U : g \in [w : T, m : M, u : U]
  BY DEF IsView, Views
<1>2. "structural" \in DOMAIN g.m /\ "rev" \in DOMAIN g.m
  BY Fields, MemoryOf
<1>3. PICK mm \in Memories(c) : mm = g.m
  BY MemoryOf
<1>4. PICK k : k = [g.m EXCEPT !.structural[e] = g.w.ver]
  OBVIOUS
<1>5. k \in Memories(c) /\ k.jobs = g.m.jobs /\ k.save = g.m.save
  <2>1. g.w.ver \in Nat
    BY FormPay
  <2> QED BY <1>3, <1>4, <2>1 DEF Memories
<1>6. PICK h : h = StructuralNote(g, e)
  OBVIOUS
<1>7. h = [g EXCEPT !.m = k] /\ h.m = k /\ h.u = g.u /\ h.w = g.w
  BY <1>1, <1>2, <1>4, <1>6 DEF StructuralNote
<1>8. IsView(h, c)
  <2>1. g.u \in Statuses
    BY MemoryOf
  <2>2. IsView([g EXCEPT !.m = k], c)
    BY <1>5, <2>1, MemView
  <2> QED BY <1>7, <2>2
<1>9. PICK n \in Nat : n = k.rev[e] + 1
  BY <1>5 DEF Memories
<1>10. PICK m : m = [k EXCEPT !.rev[e] = n]
  OBVIOUS
<1>11. m \in Memories(c) /\ m.jobs = h.m.jobs /\ m.save = h.m.save
  <2>1. PICK kk \in Memories(c) : kk = k
    BY <1>5
  <2> QED BY <1>7, <1>10, <2>1 DEF Memories
<1>12. PICK u : u = OnDirty(g.u, e, FALSE, e, online)
  OBVIOUS
<1>13. u \in Statuses
  BY <1>12, MemoryOf, StatusTypes
<1>14. [h EXCEPT !.m.rev[e] = @ + 1, !.u = OnDirty(@, e, FALSE, e, online)] = Shown(h, m, u)
  <2>1. PICK T2, M2, U2 : h \in [w : T2, m : M2, u : U2]
    BY <1>8 DEF IsView, Views
  <2>2. "rev" \in DOMAIN h.m
    BY <1>8, Fields, MemoryOf
  <2>3. [h EXCEPT !.m.rev[e] = n, !.u = u] = Shown(h, m, u)
    BY <1>7, <1>10, <2>1, <2>2 DEF Shown
  <2>4. [h EXCEPT !.m.rev[e] = @ + 1, !.u = OnDirty(@, e, FALSE, e, online)]
          = [h EXCEPT !.m.rev[e] = n, !.u = u]
    BY <1>7, <1>9, <1>12, Zenon
  <2> QED BY <2>3, <2>4
<1>15. IsView(Shown(h, m, u), c)
  BY <1>8, <1>11, <1>13, MemView
<1> QED BY <1>6, <1>14, <1>15

Below == OpToRel(<, Nat)

\* The order of the numbers, as a relation.
LEMMA BelowDef == Below = {ss \in Nat \X Nat : ss[1] < ss[2]}
BY DEF Below, OpToRel

\* A set of numbers has a least one,
LEMMA HasLeast ==
  ASSUME NEW S \in SUBSET Nat, S # {}
  PROVE  \E m \in S : \A x \in S : m <= x
<1>1. IsWellFoundedOn(Below, Nat)
  BY NatLessThanWellFounded DEF Below
<1>2. \E x \in S : \A y \in S : ~ (<<y, x>> \in Below)
  BY <1>1, WFMin
<1>3. \A x, y \in Nat : y < x => <<y, x>> \in Below
  <2>1. \A x, y \in Nat : <<y, x>>[1] = y /\ <<y, x>>[2] = x /\ <<y, x>> \in Nat \X Nat
    OBVIOUS
  <2> QED BY <2>1, BelowDef
<1>4. PICK m \in S : \A y \in S : ~ (<<y, m>> \in Below)
  BY <1>2
<1>5. \A y \in S : ~ (y < m)
  BY <1>3, <1>4
<1> QED BY <1>4, <1>5

\* and a bounded one a greatest.
LEMMA HasGreatest ==
  ASSUME NEW c \in Nat, NEW S \in SUBSET (0 .. c), S # {}
  PROVE  \E m \in S : \A x \in S : x <= m
<1> DEFINE T == {c - x : x \in S}
<1>1. T \in SUBSET Nat
  <2>1. \A x \in S : c - x \in Nat
    OBVIOUS
  <2> QED BY <2>1
<1>2. T # {}
  OBVIOUS
<1>3. PICK m \in T : \A x \in T : m <= x
  <2> HIDE DEF T
  <2> QED BY <1>1, <1>2, HasLeast
<1>4. PICK s \in S : m = c - s
  OBVIOUS
<1>5. \A x \in S : c - x \in T
  OBVIOUS
<1> QED BY <1>3, <1>4, <1>5

-----------------------------------------------------------------------------
(* The store *)

\* The drafts stored are drafts, and no two have one identifier.
Store(ds, c) == ds \subseteq Drafts(c) /\ \A x, y \in ds : x.id = y.id => x = y

\* The absence of a draft is no draft.
LEMMA NoDraftIsNone ==
  ASSUME NEW c \in Contexts
  PROVE  NoDraft \notin Drafts(c) /\ NoDraft.id = 0 /\ 0 \in 0 .. c.now
<1>1. \A d \in Drafts(c) : d.id \in 1 .. c.now
  BY LegitFields
<1>2. NoDraft.id = 0
  BY DEF NoDraft
<1> QED BY <1>1, <1>2 DEF Contexts

\* A sound store stays sound as more is handed out.
LEMMA StoreGrows ==
  ASSUME NEW c \in Contexts, NEW l \in Contexts, Grows(c, l), NEW ds, Store(ds, c)
  PROVE  Store(ds, l)
BY DraftsGrow DEF Store

\* What is found under an identifier.
LEMMA FindDraftType ==
  ASSUME NEW c \in Contexts, NEW ds, Store(ds, c), NEW id
  PROVE  /\ FindDraft(ds, id) \in ds \cup {NoDraft}
         /\ FindDraft(ds, id) # NoDraft => FindDraft(ds, id) \in Drafts(c) /\ FindDraft(ds, id).id = id
BY DEF FindDraft, Store

\* The newest of some drafts is one of them.
LEMMA NewestType ==
  ASSUME NEW c \in Contexts, NEW ds, ds \subseteq Drafts(c), ds # {}
  PROVE  Newest(ds) \in ds
<1>1. PICK ats : ats = {d.at : d \in ds}
  OBVIOUS
<1>2. c.now \in Nat /\ ats \in SUBSET (0 .. c.now) /\ ats # {}
  BY <1>1, LegitFields DEF Contexts
<1>3. PICK n \in ats : \A x \in ats : x <= n
  BY <1>2, HasGreatest
<1>4. PICK d \in ds : d.at = n
  BY <1>1, <1>3
<1>5. \E x \in ds : \A y \in ds : y.at <= x.at
  BY <1>1, <1>3, <1>4
<1> QED BY <1>5 DEF Newest

\* The draft of a tab for a finding, or none.
LEMMA DraftForTabType ==
  ASSUME NEW c \in Contexts, NEW ds, Store(ds, c), NEW p, NEW e
  PROVE  /\ DraftForTab(ds, p, e) \in ds \cup {NoDraft}
         /\ DraftForTab(ds, p, e) # NoDraft => DraftForTab(ds, p, e).e = e
<1>1. PICK own : own = OwnDrafts(ds, p, e)
  OBVIOUS
<1>2. own \subseteq Drafts(c) /\ own \subseteq ds /\ \A d \in own : d.e = e
  BY <1>1 DEF OwnDrafts, Store
<1>3. own # {} => Newest(own) \in own
  BY <1>2, NewestType
<1> QED BY <1>1, <1>2, <1>3 DEF DraftForTab

\* The draft that a job works on, or none.
LEMMA ActiveDraftType ==
  ASSUME NEW c \in Contexts, NEW ds, Store(ds, c), NEW p, NEW e, NEW known
  PROVE  /\ ActiveDraft(ds, p, e, known) \in ds \cup {NoDraft}
         /\ ActiveDraft(ds, p, e, known).id \in 0 .. c.now
         /\ ActiveDraft(ds, p, e, known) # NoDraft => ActiveDraft(ds, p, e, known) \in Drafts(c)
<1>1. ActiveDraft(ds, p, e, known) \in ds \cup {NoDraft}
  BY FindDraftType, DraftForTabType DEF ActiveDraft
<1>2. \A d \in ds : d \in Drafts(c) /\ d.id \in 0 .. c.now
  BY LegitFields DEF Store
<1> QED BY <1>1, <1>2, NoDraftIsNone

\* A draft put into the store, or taken from it, leaves it sound.
LEMMA StoreWrites ==
  ASSUME NEW c \in Contexts, NEW ds, Store(ds, c)
  PROVE  /\ \A d \in Drafts(c) : Store(Put(ds, d), c)
         /\ \A ids : Store(Without(ds, ids), c) /\ Without(ds, ids) \subseteq ds
BY DEF Store, Put, Without

\* The mark on the source of a confirmed draft is true.
LEMMA MarkedStore ==
  ASSUME NEW c \in Contexts, NEW ds, Store(ds, c), NEW rid \in Nat, NEW e \in Entities,
         NEW ver \in 1 .. c.now, Applies(rid, e, ver, c), NEW src \in SourcesOf(rid, e, c)
  PROVE  Store(SourceMarked(ds, src, ver), c)
<1>1. SourceMarked(ds, src, ver) \subseteq Drafts(c)
  BY MarkedType DEF Store
<1>2. ASSUME NEW x \in SourceMarked(ds, src, ver)
      PROVE  \E s \in ds : /\ x.id = s.id
                           /\ x = IF s.id = src.id /\ s.at = src.at /\ s.pay = src.pay
                                  THEN [s EXCEPT !.confirmed = ver] ELSE s
  <2>1. PICK s \in ds : x = IF s.id = src.id /\ s.at = src.at /\ s.pay = src.pay
                            THEN [s EXCEPT !.confirmed = ver] ELSE s
    BY DEF SourceMarked
  <2>2. s \in DraftFields(c)
    BY LegitFields DEF Store
  <2>3. [s EXCEPT !.confirmed = ver].id = s.id
    BY <2>2 DEF DraftFields
  <2> QED BY <2>1, <2>3
<1>3. ASSUME NEW x \in SourceMarked(ds, src, ver), NEW y \in SourceMarked(ds, src, ver), x.id = y.id
      PROVE  x = y
  <2>1. PICK s \in ds : /\ x.id = s.id
                        /\ x = IF s.id = src.id /\ s.at = src.at /\ s.pay = src.pay
                               THEN [s EXCEPT !.confirmed = ver] ELSE s
    BY <1>2
  <2>2. PICK t \in ds : /\ y.id = t.id
                        /\ y = IF t.id = src.id /\ t.at = src.at /\ t.pay = src.pay
                               THEN [t EXCEPT !.confirmed = ver] ELSE t
    BY <1>2
  <2>3. s = t
    BY <1>3, <2>1, <2>2 DEF Store
  <2> QED BY <2>1, <2>2, <2>3
<1> QED BY <1>1, <1>3 DEF Store

-----------------------------------------------------------------------------
(* The invariant *)

\* The saves applied, without what was saved.
RowsOf(s) == {[rid |-> r.rid, e |-> r.e, ver |-> r.ver] : r \in s.journal}

\* The pages fit, and the queues of each fit its save.
PagesAt(c) ==
  /\ wire \in [Pages -> Components(c)]
  /\ mem \in [Pages -> Memories(c)]
  /\ ui \in [Pages -> Statuses]
  /\ \A p \in Pages : OneSave(mem[p])

\* The saves of the context are those of the journal, a UUID was applied once,
\* and every version took an identifier.
ServerAt(c) ==
  /\ server \in Servers(c)
  /\ c.rows = RowsOf(server)
  /\ \A r, s \in server.journal : r.rid = s.rid => r = s
  /\ server.shut \/ server.ver <= c.now

At(c) ==
  /\ c.now = clock
  /\ ServerAt(c)
  /\ Store(db, c)
  /\ PagesAt(c)
  /\ flight \in [Pages -> Flights(c)]

\* The invariant.
DInv == \E c \in Contexts : At(c)

\* Every page is sound.
LEMMA PageIs ==
  ASSUME NEW c \in Contexts, PagesAt(c), NEW p \in Pages
  PROVE  /\ IsView(Page(p), c)
         /\ Page(p).w = wire[p] /\ Page(p).m = mem[p] /\ Page(p).u = ui[p]
         /\ wire[p] \in Components(c) /\ mem[p] \in Memories(c) /\ ui[p] \in Statuses
BY DEF PagesAt, Page, IsView, Views

\* A sound page stays sound as more is handed out.
LEMMA LaterView ==
  ASSUME NEW c \in Contexts, NEW l \in Contexts, Grows(c, l), NEW g, IsView(g, c)
  PROVE  IsView(g, l)
BY ViewsGrow DEF IsView

\* So do all pages.
LEMMA PagesGrow ==
  ASSUME NEW c \in Contexts, NEW l \in Contexts, Grows(c, l), PagesAt(c),
         UNCHANGED <<wire, mem, ui>>
  PROVE  PagesAt(l)'
BY ComponentsGrow, MemoriesGrow DEF PagesAt

\* A step of one page leaves all pages sound.
LEMMA PageChanges ==
  ASSUME NEW c \in Contexts, NEW l \in Contexts, Grows(c, l), PagesAt(c), NEW p \in Pages, NEW g,
         IsView(g, l), Becomes(p, g)
  PROVE  PagesAt(l)'
<1>1. wire \in [Pages -> Components(l)] /\ mem \in [Pages -> Memories(l)] /\ ui \in [Pages -> Statuses]
  BY ComponentsGrow, MemoriesGrow DEF PagesAt
<1>2. g.w \in Components(l) /\ g.m \in Memories(l) /\ g.u \in Statuses /\ OneSave(g.m)
  BY MemoryOf DEF IsView
<1>3. wire' \in [Pages -> Components(l)] /\ mem' \in [Pages -> Memories(l)] /\ ui' \in [Pages -> Statuses]
  BY <1>1, <1>2 DEF Becomes
<1>4. \A q \in Pages : OneSave(mem'[q])
  <2> TAKE q \in Pages
  <2>1. mem'[q] = IF q = p THEN g.m ELSE mem[q]
    BY <1>1 DEF Becomes
  <2> QED BY <1>2, <2>1 DEF PagesAt
<1> QED BY <1>3, <1>4 DEF PagesAt

\* The server stays sound when nothing is applied.
LEMMA ServerStays ==
  ASSUME NEW c \in Contexts, NEW l \in Contexts, Grows(c, l), ServerAt(c), l.rows = c.rows,
         UNCHANGED server
  PROVE  ServerAt(l)'
<1>1. server \in Servers(l)
  BY ServersGrow DEF ServerAt
<1>2. c.now \in Nat /\ l.now \in Nat /\ c.now <= l.now /\ server.ver \in Nat
  BY <1>1 DEF Contexts, Grows, Servers
<1>3. server.shut \/ server.ver <= l.now
  BY <1>2 DEF ServerAt
<1> QED BY <1>1, <1>3 DEF ServerAt, RowsOf

\* A step of one page.
LEMMA PageStep ==
  ASSUME NEW c \in Contexts, At(c), NEW l \in Contexts, Grows(c, l), l.now = clock',
         l.rows = c.rows, UNCHANGED server, Store(db', l),
         NEW p \in Pages, NEW g, IsView(g, l), Becomes(p, g), flight' \in [Pages -> Flights(l)]
  PROVE  DInv'
<1>1. ServerAt(l)'
  BY ServerStays DEF At
<1>2. PagesAt(l)'
  BY PageChanges DEF At
<1>3. At(l)'
  BY <1>1, <1>2 DEF At
<1> QED BY <1>3 DEF DInv

\* A step that hands nothing out.
LEMMA SameGrows ==
  ASSUME NEW c \in Contexts
  PROVE  Grows(c, c)
BY DEF Grows, Younger, Contexts

\* A step of one page that hands nothing out.
LEMMA CalmStep ==
  ASSUME NEW c \in Contexts, At(c), UNCHANGED <<server, clock>>, Store(db', c),
         NEW p \in Pages, NEW g, IsView(g, c), Becomes(p, g), flight' \in [Pages -> Flights(c)]
  PROVE  DInv'
<1>1. c.now = clock'
  BY DEF At
<1> QED BY <1>1, PageStep, SameGrows

\* The messages stay what they are, and one may be exchanged.
LEMMA FlightsStay ==
  ASSUME NEW c \in Contexts, NEW l \in Contexts, Grows(c, l), At(c)
  PROVE  /\ flight \in [Pages -> Flights(l)]
         /\ UNCHANGED flight => flight' \in [Pages -> Flights(l)]
         /\ \A p \in Pages : \A f \in Flights(l) :
              flight' = [flight EXCEPT ![p] = f] => flight' \in [Pages -> Flights(l)]
<1>1. flight \in [Pages -> Flights(l)]
  BY FlightsGrow DEF At
<1> QED BY <1>1

-----------------------------------------------------------------------------
(* The steps of the pages *)

\* The clock moves on.
LEMMA Ticked ==
  ASSUME NEW c \in Contexts, At(c), NEW n \in Nat
  PROVE  /\ clock \in Nat /\ c.now = clock
         /\ Later(c, clock + n) \in Contexts /\ Grows(c, Later(c, clock + n))
         /\ Later(c, clock + n).now = clock + n /\ Later(c, clock + n).rows = c.rows
<1>1. clock \in Nat /\ c.now = clock
  BY DEF At, Contexts
<1>2. clock + n \in Nat /\ c.now <= clock + n
  BY <1>1
<1>3. Later(c, clock + n).rows = c.rows
  BY DEF Later, Contexts
<1> QED BY <1>1, <1>2, <1>3, LaterContext

\* The memory of a new page.
LEMMA FreshMemoryType ==
  ASSUME NEW c \in Contexts
  PROVE  FreshMemory \in Memories(c) /\ OneSave(FreshMemory)
<1>1. 0 \in 0 .. c.now /\ NoTimer \in Timers(c) /\ NoPayload \in Newers(c) /\ NoShown \in Shows(c)
      /\ NoRun \in Runs(c) /\ NoRun \in Tails /\ NoSave \in Saves(c)
  BY DEF Contexts, Timers, Newers, Shows, Runs, Tails, Saves
<1>2. <<>> \in Seq(Jobs(c))
  OBVIOUS
<1>3. FreshMemory \in Memories(c)
  BY <1>1, <1>2 DEF FreshMemory, Memories
<1>4. \A e \in Entities : FreshMemory.jobs[e] = <<>>
  BY DEF FreshMemory
<1>5. OneSave(FreshMemory)
  BY <1>4 DEF OneSave
<1> QED BY <1>3, <1>5

\* The status line of a new page.
LEMMA NewStatusType == NewStatus(Entities, "saved") \in Statuses
BY StatusLabels DEF NewStatus, Statuses

\* The component before the page is opened.
LEMMA NoPageType ==
  ASSUME NEW c \in Contexts
  PROVE  NoPage \in Components(c) /\ NoForm \in Forms(c)
<1>1. 0 \in 0 .. c.now /\ <<>> \in Seq(Nat)
  BY DEF Contexts
<1>2. NoForm \in Forms(c)
  BY <1>1 DEF NoForm, Form, Payload, Forms, Payloads
<1> QED BY <1>1, <1>2 DEF NoPage, Components

\* A new page.
LEMMA FreshView ==
  ASSUME NEW c \in Contexts, NEW w \in Components(c)
  PROVE  IsView([w |-> w, m |-> FreshMemory, u |-> NewStatus(Entities, "saved")], c)
<1>1. [w |-> w, m |-> FreshMemory, u |-> NewStatus(Entities, "saved")] \in Views(c)
  BY FreshMemoryType, NewStatusType DEF Views
<1> QED BY <1>1, FreshMemoryType DEF IsView

\* A component with a finding of the server.
LEMMA FilledType ==
  ASSUME NEW c \in Contexts, ServerAt(c), NEW w \in Components(c), NEW e \in Entities \cup {Nothing}
  PROVE  Filled(w, e) \in Components(c)
<1>1. PICK f : f = IF e = Nothing THEN NoForm ELSE Form(server.content[e], {})
  OBVIOUS
<1>2. f \in Forms(c)
  BY <1>1, NoPageType DEF ServerAt, Servers, Form, Forms
<1>3. Filled(w, e) = [w EXCEPT !.sel = e, !.form = f, !.canon = f, !.stat = "saved"]
  BY <1>1 DEF Filled
<1> QED BY <1>2, <1>3 DEF Components

\* A page opens.
LEMMA OpenStep ==
  ASSUME NEW c \in Contexts, At(c), NEW p \in Pages, Open(p)
  PROVE  DInv'
<1>1. PICK e \in Entries : Becomes(p, RecoveryDue(
         [w |-> Filled([NoPage EXCEPT !.on = "open", !.ver = server.ver, !.ro = server.shut], e),
          m |-> FreshMemory, u |-> NewStatus(Entities, "saved")]))
  BY DEF Open
<1>2. PICK w : w = [NoPage EXCEPT !.on = "open", !.ver = server.ver, !.ro = server.shut]
  OBVIOUS
<1>3. w \in Components(c)
  <2>1. server.ver \in Nat /\ server.shut \in BOOLEAN
    BY DEF At, ServerAt, Servers
  <2>2. PICK v \in Components(c) : v = NoPage
    BY NoPageType
  <2> QED BY <1>2, <2>1, <2>2 DEF Components
<1>4. Filled(w, e) \in Components(c)
  BY <1>3, FilledType, DraftsAssumption DEF At
<1>5. PICK g : g = [w |-> Filled(w, e), m |-> FreshMemory, u |-> NewStatus(Entities, "saved")]
  OBVIOUS
<1>6. IsView(g, c)
  BY <1>4, <1>5, FreshView
<1>7. PICK h : h = RecoveryDue(g)
  OBVIOUS
<1>8. IsView(h, c) /\ Becomes(p, h)
  BY <1>1, <1>2, <1>5, <1>6, <1>7, DueView
<1>9. UNCHANGED <<server, clock>> /\ Store(db', c) /\ flight' \in [Pages -> Flights(c)]
  BY SameGrows, FlightsStay DEF At, Open
<1> QED BY <1>8, <1>9, CalmStep

\* A page is left.
LEMMA LeaveStep ==
  ASSUME NEW c \in Contexts, At(c), NEW p \in Pages, Leave(p)
  PROVE  DInv'
<1>1. PICK w : w = [NoPage EXCEPT !.on = "gone"]
  OBVIOUS
<1>2. w \in Components(c)
  BY <1>1, NoPageType DEF Components
<1>3. PICK g : g = [w |-> w, m |-> FreshMemory, u |-> NewStatus(Entities, "saved")]
  OBVIOUS
<1>4. IsView(g, c) /\ Becomes(p, g)
  BY <1>1, <1>2, <1>3, FreshView DEF Leave
<1>5. UNCHANGED <<server, clock>> /\ Store(db', c)
  BY DEF At, Leave
<1>6. flight' \in [Pages -> Flights(c)]
  <2>1. PICK f : f = IF flight[p].status = "sent" THEN flight[p] ELSE NoMessage
    OBVIOUS
  <2>2. f \in Flights(c)
    BY <2>1 DEF At, Flights
  <2>3. flight' = [flight EXCEPT ![p] = f]
    BY <2>1 DEF Leave
  <2> QED BY <2>2, <2>3, FlightsStay, SameGrows
<1> QED BY <1>4, <1>5, <1>6, CalmStep

\* The user types.
LEMMA TypeStep ==
  ASSUME NEW c \in Contexts, At(c), NEW p \in Pages, Type(p)
  PROVE  DInv'
<1>1. PICK l : l = Later(c, clock + 1)
  OBVIOUS
<1>2. /\ l \in Contexts /\ Grows(c, l) /\ l.now = clock + 1 /\ l.rows = c.rows
      /\ clock \in Nat
  BY <1>1, Ticked
<1>3. PICK g : g = Page(p)
  OBVIOUS
<1>4. IsView(g, l) /\ g.w = wire[p]
  BY <1>2, <1>3, PageIs, LaterView DEF At
<1>5. PICK pay : pay = [DraftPayload(g.w.form) EXCEPT !.n = clock + 1]
  OBVIOUS
<1>6. pay \in Payloads(l)
  <2>1. PICK q \in Payloads(l) : q = DraftPayload(g.w.form)
    BY <1>2, <1>4, FormPay
  <2>2. clock + 1 \in 0 .. l.now
    BY <1>2
  <2> QED BY <1>5, <2>1, <2>2 DEF Payloads
<1>7. PICK e \in Entities : e = g.w.sel
  BY <1>2, <1>4, FormPay DEF Type, Editable
<1>8. PICK h : h = Edited(g, e, pay)
  OBVIOUS
<1>9. IsView(h, l)
  BY <1>2, <1>4, <1>6, <1>8, EditedView
<1>10. IsView(Newer(h, e, pay), l)
  BY <1>2, <1>6, <1>9, NewerView
<1>11. Becomes(p, Newer(h, e, pay)) /\ clock' = clock + 1 /\ UNCHANGED <<server, db, flight>>
  BY <1>3, <1>5, <1>7, <1>8, Zenon DEF Type, Edited, Tick
<1>12. Store(db', l) /\ flight' \in [Pages -> Flights(l)]
  BY <1>2, <1>11, StoreGrows, FlightsStay DEF At
<1>13. l.now = clock' /\ UNCHANGED server
  BY <1>2, <1>11
<1>14. PICK k : k = Newer(h, e, pay)
  OBVIOUS
<1> QED BY <1>2, <1>10, <1>11, <1>12, <1>13, <1>14, PageStep

\* The user chooses a file.
LEMMA AttachStep ==
  ASSUME NEW c \in Contexts, At(c), NEW p \in Pages, Attach(p)
  PROVE  DInv'
<1>1. PICK l : l = Later(c, clock + 1)
  OBVIOUS
<1>2. /\ l \in Contexts /\ Grows(c, l) /\ l.now = clock + 1 /\ l.rows = c.rows
      /\ clock \in Nat
  BY <1>1, Ticked
<1>3. PICK g : g = Page(p)
  OBVIOUS
<1>4. IsView(g, l) /\ g.w = wire[p]
  BY <1>2, <1>3, PageIs, LaterView DEF At
<1>7. PICK e \in Entities : e = g.w.sel
  BY <1>2, <1>4, FormPay DEF Attach, Editable
<1>8. PICK h : h = WithFile(g, e, clock + 1)
  OBVIOUS
<1>9. IsView(h, l)
  <2>1. clock + 1 \in Nat
    BY <1>2
  <2> QED BY <1>2, <1>4, <1>8, <2>1, WithFileView
<1>11. Becomes(p, h) /\ clock' = clock + 1 /\ UNCHANGED <<server, db, flight>>
  BY <1>3, <1>7, <1>8, Zenon DEF Attach, WithFile, Tick
<1>12. Store(db', l) /\ flight' \in [Pages -> Flights(l)]
  BY <1>2, <1>11, StoreGrows, FlightsStay DEF At
<1>13. l.now = clock' /\ UNCHANGED server
  BY <1>2, <1>11
<1> QED BY <1>2, <1>9, <1>11, <1>12, <1>13, PageStep

\* A debounce timer fires.
LEMMA TimerStep ==
  ASSUME NEW c \in Contexts, At(c), NEW p \in Pages, NEW e \in Entities, TimerFires(p, e)
  PROVE  DInv'
<1>1. PICK g : g = Page(p)
  OBVIOUS
<1>2. IsView(g, c) /\ g.m.timer[e] # NoTimer
  BY <1>1, PageIs DEF At, TimerFires
<1>3. PICK h : h = Queued([g EXCEPT !.m.timer[e] = NoTimer], e,
                          PersistJob(g.m.timer[e].pay, g.m.timer[e].base, "timer"))
  OBVIOUS
<1>4. IsView(h, c)
  BY <1>2, <1>3, TimerView
<1>5. Becomes(p, h) /\ UNCHANGED <<server, db, flight, clock>>
  BY <1>1, <1>3, Zenon DEF TimerFires
<1>6. Store(db', c) /\ flight' \in [Pages -> Flights(c)]
  BY <1>5, SameGrows, FlightsStay DEF At
<1> QED BY <1>4, <1>5, <1>6, CalmStep

\* A save starts.
LEMMA SaveStartsStep ==
  ASSUME NEW c \in Contexts, At(c), NEW p \in Pages, NEW how \in Intercepted, SaveStarts(p, how)
  PROVE  DInv'
<1>1. PICK g : g = Page(p)
  OBVIOUS
<1>2. IsView(g, c) /\ g.w = wire[p] /\ g.m.save = NoSave
  BY <1>1, PageIs DEF At, SaveStarts
<1>7. PICK e \in Entities : e = g.w.sel
  BY <1>2, FormPay DEF SaveStarts, Editable
<1>3. PICK h : h = Queued([g EXCEPT !.m.timer[e] = NoTimer,
                          !.m.save = SaveOf(how, e, g.w.ver, DraftPayload(g.w.form))],
                       e, PersistJob(DraftPayload(g.w.form), g.w.ver, "save"))
  OBVIOUS
<1>4. IsView(h, c)
  BY <1>2, <1>3, SaveBegunView
<1>5. Becomes(p, h) /\ UNCHANGED <<server, db, flight, clock>>
  BY <1>1, <1>3, <1>7, Zenon DEF SaveStarts, SaveOf
<1>6. Store(db', c) /\ flight' \in [Pages -> Flights(c)]
  BY <1>5, SameGrows, FlightsStay DEF At
<1> QED BY <1>4, <1>5, <1>6, CalmStep

\* The request of a save leaves.
LEMMA SaveLeavesStep ==
  ASSUME NEW c \in Contexts, At(c), NEW p \in Pages, SaveLeaves(p)
  PROVE  DInv'
<1>1. PICK g : g = Page(p)
  OBVIOUS
<1>2. IsView(g, c) /\ g.m.save.phase = "ready"
  BY <1>1, PageIs DEF At, SaveLeaves
<1>3. Idle(g.m) /\ Saving(g.m)
  <2>1. g.m.save # NoSave
    BY <1>2 DEF NoSave
  <2> QED BY <1>2, <2>1, UnderWay DEF Saving
<1>4. PICK s : s = [g.m.save EXCEPT !.phase = "sent"]
  OBVIOUS
<1>5. s \in Saves(c) /\ g.m.save \in RunningSaves(c) /\ g.m.save.how \in Intercepted
  <2>1. g.m.save \in RunningSaves(c) /\ g.m.save.how \in Intercepted
    BY <1>2, <1>3, MemoryOf, SavingFields
  <2>2. s \in RunningSaves(c)
    BY <1>4, <2>1, RunningSave
  <2> QED BY <2>1, <2>2, RunningSave
<1>6. PICK h : h = WithSave(g, s)
  OBVIOUS
<1>7. IsView(h, c)
  BY <1>2, <1>3, <1>5, <1>6, MemoryOf, SaveMoved, IdleView
<1>8. Becomes(p, h) /\ UNCHANGED <<server, db, clock>>
  <2>1. [g EXCEPT !.m.save.phase = "sent"] = h
    BY <1>4, <1>6, Updates
  <2> QED BY <1>1, <2>1, Zenon DEF SaveLeaves
<1>9. PICK f : f = [status |-> "sent", kind |-> g.m.save.how, arg |-> g.w.sel, w |-> g.w]
  OBVIOUS
<1>10. f \in Flights(c)
  BY <1>2, <1>5, <1>9, FormPay, MemoryOf DEF Flights, Requests, Intercepted
<1>11. flight' = [flight EXCEPT ![p] = f]
  BY <1>1, <1>9, Zenon DEF SaveLeaves
<1>12. Store(db', c) /\ flight' \in [Pages -> Flights(c)]
  BY <1>8, <1>10, <1>11, SameGrows, FlightsStay DEF At
<1> QED BY <1>7, <1>8, <1>12, CalmStep

\* Handing out identifiers applies nothing.
LEMMA RowsSame ==
  ASSUME NEW c \in Contexts, NEW t, NEW i, NEW b
  PROVE  Named(c, t, i).rows = c.rows /\ Made(c, b).rows = c.rows
BY DEF Named, Made, Contexts

\* A page whose draft in use is another.
LEMMA ActiveOnlyView ==
  ASSUME NEW c \in Contexts, NEW g, IsView(g, c), NEW e \in Entities, NEW id \in 0 .. c.now
  PROVE  IsView([g EXCEPT !.m.active[e] = id], c)
<1>1. PICK T, M, U : g \in [w : T, m : M, u : U]
  BY DEF IsView, Views
<1>2. "active" \in DOMAIN g.m
  BY Fields, MemoryOf
<1>3. PICK m : m = [g.m EXCEPT !.active[e] = id]
  OBVIOUS
<1>4. m \in Memories(c) /\ m.jobs = g.m.jobs /\ m.save = g.m.save
  BY <1>3, ActiveMemory, MemoryOf
<1>5. [g EXCEPT !.m.active[e] = id] = [g EXCEPT !.m = m]
  BY <1>1, <1>2, <1>3
<1>6. IsView([g EXCEPT !.m = m], c)
  <2>1. g.u \in Statuses
    BY MemoryOf
  <2> QED BY <1>4, <2>1, MemView
<1> QED BY <1>5, <1>6

\* The first job of a queue.
LEMMA HeadJob ==
  ASSUME NEW c \in Contexts, NEW g, IsView(g, c), NEW e \in Entities, g.m.jobs[e] # <<>>
  PROVE  Head(g.m.jobs[e]) \in Jobs(c)
BY PoppedView

\* A job is given its plan.
LEMMA PlansView ==
  ASSUME NEW c \in Contexts, NEW g, IsView(g, c), NEW e \in Entities, g.m.jobs[e] # <<>>,
         NEW job, job = Head(g.m.jobs[e]), NEW plan,
         \/ job.do \in {"persist", "mark"} /\ plan \in Puts(c)
         \/ job.do = "confirm" /\ plan \in Treatments(c)
            /\ plan.src \subseteq SourcesOf(job.task.rid, job.task.e, c)
         \/ job.do = "wipe" /\ plan \in Deletions
  PROVE  IsView(Planned(g, e, plan), c)
<1>1. job \in Jobs(c)
  BY HeadJob
<1>2. /\ [job EXCEPT !.plan = plan] \in Jobs(c)
      /\ SaveWork([job EXCEPT !.plan = plan]) <=> SaveWork(job)
      /\ Fitting([job EXCEPT !.plan = plan]) = Fitting(job)
  BY <1>1, PlannedJob
<1> QED BY <1>2, PlannedView

\* What persisting an edit will put is a draft, with the UUID handed out for it.
LEMMA PersistPlan ==
  ASSUME NEW c \in Contexts, NEW p \in Pages, NEW e \in Entities, NEW job \in Persists(c),
         NEW known \in Drafts(c) \cup {NoDraft}, NEW t \in Nat, t = c.now + 1
  PROVE  \E l \in Contexts :
           /\ Grows(c, l) /\ l.now = t /\ l.rows = c.rows
           /\ PutPlan(IF known = NoDraft THEN NewDraft(p, e, job.pay, job.base, t)
                      ELSE Rewritten(known, job.pay, t)) \in Puts(l)
<1>0. c.now \in Nat /\ c.now < t /\ job.pay \in Payloads(c) /\ job.base \in Nat
  BY DEF Contexts, Persists
<1>1. CASE known = NoDraft
  <2>1. PICK b : b = [id |-> t, e |-> e, src |-> 0, at |-> 0]
    OBVIOUS
  <2>2. b \in Births /\ b.id = t /\ b.src = 0
    BY <2>1 DEF Births
  <2>3. PICK l : l = Made(c, b)
    OBVIOUS
  <2>4. l \in Contexts /\ Grows(c, l) /\ l.now = t /\ <<t, t>> \in l.names /\ b \in l.born
    BY <1>0, <2>2, <2>3, MadeContext
  <2>5. t \in 1 .. l.now
    BY <1>0, <2>4
  <2>6. NewDraft(p, e, job.pay, job.base, t) \in Drafts(l)
    BY <1>0, <2>1, <2>4, <2>5, NewDraftType
  <2>7. l.rows = c.rows
    BY <2>3, RowsSame
  <2> QED BY <1>1, <2>4, <2>6, <2>7 DEF PutPlan, Puts
<1>2. CASE known # NoDraft
  <2>1. known \in Drafts(c) /\ known.id \in Nat
    BY <1>2, LegitFields
  <2>3. PICK l : l = Named(c, t, known.id)
    OBVIOUS
  <2>4. l \in Contexts /\ Grows(c, l) /\ l.now = t /\ <<t, known.id>> \in l.names
    BY <1>0, <2>1, <2>3, NamedContext
  <2>5. t \in 1 .. l.now
    BY <1>0, <2>4
  <2>6. Rewritten(known, job.pay, t) \in Drafts(l)
    BY <1>0, <2>1, <2>4, <2>5, RewrittenType
  <2>7. l.rows = c.rows
    BY <2>3, RowsSame
  <2> QED BY <1>2, <2>4, <2>6, <2>7 DEF PutPlan, Puts
<1> QED BY <1>1, <1>2

\* The sources of a confirmed draft were copied before its UUID.
LEMMA ConfirmedSource ==
  ASSUME NEW c \in Contexts, NEW d \in Drafts(c), NEW task \in Tasks(c), d.id = task.match,
         d.src # 0, NEW pay \in Payloads(c)
  PROVE  [id |-> d.src, at |-> d.srcAt, pay |-> pay] \in SourcesOf(task.rid, task.e, c)
<1>1. Birth(d) \in c.born /\ d.id \in 1 .. c.now /\ d.src \in 0 .. c.now /\ d.srcAt \in 0 .. c.now
      /\ c.now \in Nat
  BY LegitFields DEF Legit
<1>2. PICK b \in c.born : b.id = task.match /\ b.e = task.e /\ (b.src # 0 => b.at < task.rid)
  BY <1>1 DEF Tasks, Traced
<1>3. b = Birth(d)
  BY <1>1, <1>2 DEF Contexts, Birth
<1>4. b.src = d.src /\ b.at = d.srcAt /\ d.src \in 1 .. c.now
  BY <1>1, <1>3 DEF Birth
<1>5. d.srcAt < task.rid
  BY <1>2, <1>4
<1>6. \E x \in c.born : x.id = d.src /\ x.e = task.e
  BY <1>2, <1>4 DEF Contexts
<1> QED BY <1>1, <1>4, <1>5, <1>6 DEF SourcesOf, Sources

\* The plan of a confirmation is one of five.
LEMMA ConfirmPlanType ==
  ASSUME NEW c \in Contexts, Store(db, c), NEW g, IsView(g, c), NEW p, NEW job \in Confirms(c),
         NEW t, t = c.now + 1
  PROVE  \E l \in Contexts :
           /\ Grows(c, l) /\ l.rows = c.rows
           /\ l.now = IF ConfirmPlan(g, p, job, t).tag = "continue" THEN t ELSE c.now
           /\ ConfirmPlan(g, p, job, t) \in Treatments(l)
           /\ ConfirmPlan(g, p, job, t).src \subseteq SourcesOf(job.task.rid, job.task.e, l)
<1>1. PICK d : d = FindDraft(db, job.task.match)
  OBVIOUS
<1>2. PICK src : src = IF d.src # 0 /\ job.task.att # NoAttempt
               THEN {[id |-> d.src, at |-> d.srcAt, pay |-> job.task.att.pay]} ELSE {}
  OBVIOUS
<1>3. PICK task : task = job.task
  OBVIOUS
<1>4. /\ task \in Tasks(c) /\ task.av \in Nat /\ task.av \in 1 .. c.now
      /\ task.att # NoAttempt => task.att.pay \in Payloads(c)
  <2>1. task \in Tasks(c) /\ task \in TaskFields(c)
    BY <1>3 DEF Confirms, Tasks
  <2>2. task.av \in 1 .. c.now /\ task.att \in Attempts(c) \cup {NoAttempt}
    BY <2>1 DEF TaskFields
  <2> QED BY <2>1, <2>2 DEF Attempts, AttemptFields, Contexts
<1>5. d # NoDraft => d \in Drafts(c) /\ d.id = task.match
  BY <1>1, <1>3, FindDraftType
<1>6. d # NoDraft => src \subseteq SourcesOf(task.rid, task.e, c)
  BY <1>2, <1>3, <1>4, <1>5, ConfirmedSource
<1>7. SourcesOf(task.rid, task.e, c) \subseteq Sources(c)
  BY DEF SourcesOf
<1>8. c \in Contexts /\ Grows(c, c) /\ c.now \in Nat /\ c.now < t /\ t \in Nat
  BY SameGrows DEF Contexts
<1>9. PICK plan : plan = ConfirmPlan(g, p, job, t)
  OBVIOUS
<1>10. CASE plan = [tag |-> "none", src |-> {}]
  <2>1. plan.tag # "continue" /\ plan \in Treatments(c) /\ plan.src \subseteq SourcesOf(task.rid, task.e, c)
    BY <1>10 DEF Treatments
  <2> QED BY <1>3, <1>8, <1>9, <2>1
<1>11. CASE /\ d # NoDraft
            /\ \E latest \in {g.m.newer[d.e], DraftPayload(g.w.form)} :
                 /\ latest # NoPayload
                 /\ plan = [tag |-> "continue", put |-> Continued(d, latest, task.av, t), src |-> src]
  <2>1. PICK latest \in {g.m.newer[d.e], DraftPayload(g.w.form)} :
                 /\ latest # NoPayload
                 /\ plan = [tag |-> "continue", put |-> Continued(d, latest, task.av, t), src |-> src]
    BY <1>11
  <2>2. d \in Drafts(c) /\ d.e \in Entities /\ d.id \in Nat
    BY <1>5, <1>11, LegitFields
  <2>3. latest \in Payloads(c)
    <3>1. g.m \in Memories(c) /\ DraftPayload(g.w.form) \in Payloads(c)
      BY MemoryOf, FormPay
    <3>2. g.m.newer[d.e] \in Newers(c)
      BY <2>2, <3>1 DEF Memories
    <3> QED BY <2>1, <3>1, <3>2 DEF Newers
  <2>4. PICK l : l = Named(c, t, d.id)
    OBVIOUS
  <2>5. l \in Contexts /\ Grows(c, l) /\ l.now = t /\ <<t, d.id>> \in l.names
    BY <1>8, <2>2, <2>4, NamedContext
  <2>6. t \in 1 .. l.now
    BY <1>8, <2>5
  <2>7. Continued(d, latest, task.av, t) \in Drafts(l)
    BY <1>4, <1>8, <2>2, <2>3, <2>5, <2>6, ContinuedType
  <2>8. l.rows = c.rows
    BY <2>4, RowsSame
  <2>9. src \subseteq SourcesOf(task.rid, task.e, l) /\ src \subseteq Sources(l)
    <3>1. SourcesOf(task.rid, task.e, c) \subseteq SourcesOf(task.rid, task.e, l)
      BY <2>5, TasksGrow
    <3> QED BY <1>6, <1>11, <3>1 DEF SourcesOf
  <2>10. plan.tag = "continue" /\ plan \in Treatments(l) /\ plan.src = src
    <3>1. PICK q \in Drafts(l) : q = Continued(d, latest, task.av, t)
      BY <2>7
    <3> QED BY <2>1, <2>9, <3>1 DEF Treatments
  <2> QED BY <1>3, <1>9, <2>5, <2>8, <2>9, <2>10
<1>12. CASE d # NoDraft /\ plan = [tag |-> "rebase", put |-> Rebased(d, task.av), src |-> src]
  <2>1. PICK q \in Drafts(c) : q = Rebased(d, task.av)
    BY <1>4, <1>5, <1>12, AttemptDrafts
  <2>2. plan.tag # "continue" /\ plan \in Treatments(c) /\ plan.src \subseteq SourcesOf(task.rid, task.e, c)
    BY <1>6, <1>7, <1>12, <2>1 DEF Treatments
  <2> QED BY <1>3, <1>8, <1>9, <2>2
<1>13. CASE d # NoDraft /\ plan = [tag |-> "remove", del |-> {d.id}, src |-> src]
  <2>1. d.id \in Nat
    BY <1>5, <1>13, LegitFields
  <2>2. plan.tag # "continue" /\ plan \in Treatments(c) /\ plan.src \subseteq SourcesOf(task.rid, task.e, c)
    BY <1>6, <1>7, <1>13, <2>1 DEF Treatments
  <2> QED BY <1>3, <1>8, <1>9, <2>2
<1>14. CASE d # NoDraft /\ plan = [tag |-> "none", src |-> src]
  <2>2. plan.tag # "continue" /\ plan \in Treatments(c) /\ plan.src \subseteq SourcesOf(task.rid, task.e, c)
    BY <1>6, <1>7, <1>14 DEF Treatments
  <2> QED BY <1>3, <1>8, <1>9, <2>2
<1>15. \/ plan = [tag |-> "none", src |-> {}]
       \/ /\ d # NoDraft
          /\ \E latest \in {g.m.newer[d.e], DraftPayload(g.w.form)} :
               /\ latest # NoPayload
               /\ plan = [tag |-> "continue", put |-> Continued(d, latest, task.av, t), src |-> src]
       \/ d # NoDraft /\ plan = [tag |-> "rebase", put |-> Rebased(d, task.av), src |-> src]
       \/ d # NoDraft /\ plan = [tag |-> "remove", del |-> {d.id}, src |-> src]
       \/ d # NoDraft /\ plan = [tag |-> "none", src |-> src]
  BY <1>1, <1>2, <1>3, <1>9 DEF ConfirmPlan
<1> QED BY <1>10, <1>11, <1>12, <1>13, <1>14, <1>15

\* A step that leaves the store and the messages alone.
LEMMA StoreStays ==
  ASSUME NEW c \in Contexts, NEW l \in Contexts, Grows(c, l), At(c), UNCHANGED <<db, flight>>
  PROVE  Store(db', l) /\ flight' \in [Pages -> Flights(l)]
<1>1. Store(db', l)
  BY StoreGrows DEF At
<1> QED BY <1>1, FlightsStay

\* A step of one page that leaves the store and the requests alone.
LEMMA MemoryStep ==
  ASSUME NEW c \in Contexts, At(c), NEW l \in Contexts, Grows(c, l), l.now = clock',
         l.rows = c.rows, UNCHANGED <<server, db, flight>>,
         NEW p \in Pages, NEW g, IsView(g, l), Becomes(p, g)
  PROVE  DInv'
<1>1. Store(db', l) /\ flight' \in [Pages -> Flights(l)]
  BY StoreStays
<1> QED BY <1>1, PageStep

\* A job reads the store.
LEMMA JobReadsStep ==
  ASSUME NEW c \in Contexts, At(c), NEW p \in Pages, NEW e \in Entities, JobReads(p, e)
  PROVE  DInv'
<1>1. PICK g : g = Page(p)
  OBVIOUS
<1>2. PICK job : job = Head(g.m.jobs[e])
  OBVIOUS
<1>3. IsView(g, c) /\ g.m.jobs[e] # <<>>
  BY <1>1, PageIs DEF At, JobReads
<1>4. job \in Jobs(c) /\ c.now = clock /\ clock \in Nat /\ Store(db, c)
  BY <1>2, <1>3, HeadJob DEF At, Contexts
<1>5. UNCHANGED <<server, db, flight>>
  BY DEF JobReads
<1>6. PICK known : known = ActiveDraft(db, p, e, g.m.active[e])
  OBVIOUS
<1>7. PICK marked : marked = FindDraft(db, job.draft.id)
  OBVIOUS
<1>8. \/ /\ job.do = "persist"
         /\ Becomes(p, [Planned(g, e, PutPlan(IF known = NoDraft
                                       THEN NewDraft(p, e, job.pay, job.base, clock + 1)
                                       ELSE Rewritten(known, job.pay, clock + 1)))
                       EXCEPT !.m.active[e] = known.id])
         /\ clock' = clock + 1
      \/ /\ job.do = "mark"
         /\ Becomes(p, Planned(g, e, PutPlan(Attempted(IF marked # NoDraft THEN marked
                                                       ELSE job.draft))))
         /\ UNCHANGED clock
      \/ /\ job.do = "confirm"
         /\ Becomes(p, Planned(g, e, ConfirmPlan(g, p, job, clock + 1)))
         /\ IF ConfirmPlan(g, p, job, clock + 1).tag = "continue" THEN clock' = clock + 1
            ELSE UNCHANGED clock
      \/ /\ job.do = "wipe"
         /\ Becomes(p, Planned(g, e, [tag |-> "del", del |-> {d.id : d \in OwnDrafts(db, p, e)}]))
         /\ UNCHANGED clock
  BY <1>1, <1>2, <1>6, <1>7, Zenon DEF JobReads, Planned, Tick
<1>9. CASE /\ job.do = "persist"
           /\ Becomes(p, [Planned(g, e, PutPlan(IF known = NoDraft
                                       THEN NewDraft(p, e, job.pay, job.base, clock + 1)
                                       ELSE Rewritten(known, job.pay, clock + 1)))
                       EXCEPT !.m.active[e] = known.id])
           /\ clock' = clock + 1
  <2>1. known \in Drafts(c) \cup {NoDraft} /\ known.id \in 0 .. c.now
    BY <1>4, <1>6, ActiveDraftType
  <2>2. job \in Persists(c)
    BY <1>4, <1>9, JobKinds
  <2>3. PICK t \in Nat : t = clock + 1
    BY <1>4
  <2>4. PICK plan : plan = PutPlan(IF known = NoDraft THEN NewDraft(p, e, job.pay, job.base, t)
                                   ELSE Rewritten(known, job.pay, t))
    OBVIOUS
  <2>5. PICK l \in Contexts : Grows(c, l) /\ l.now = t /\ l.rows = c.rows /\ plan \in Puts(l)
    BY <1>4, <2>1, <2>2, <2>3, <2>4, PersistPlan
  <2>6. IsView(g, l) /\ known.id \in 0 .. l.now
    <3>1. known.id \in 0 .. l.now
      BY <2>1, <2>5, RangesGrow
    <3> QED BY <1>3, <2>5, <3>1, LaterView
  <2>7. IsView(Planned(g, e, plan), l)
    BY <1>2, <1>3, <1>9, <2>5, <2>6, PlansView
  <2>8. PICK h : h = Planned(g, e, plan)
    OBVIOUS
  <2>9. IsView([h EXCEPT !.m.active[e] = known.id], l)
    BY <2>5, <2>6, <2>7, <2>8, ActiveOnlyView
  <2>10. Becomes(p, [h EXCEPT !.m.active[e] = known.id]) /\ clock' = t
    BY <1>9, <2>3, <2>4, <2>8, Zenon
  <2>11. PICK k : k = [h EXCEPT !.m.active[e] = known.id]
    OBVIOUS
  <2>12. IsView(k, l) /\ Becomes(p, k) /\ l.now = clock'
    BY <2>5, <2>9, <2>10, <2>11
  <2> QED BY <1>5, <2>5, <2>12, MemoryStep
<1>10. CASE /\ job.do = "mark"
            /\ Becomes(p, Planned(g, e, PutPlan(Attempted(IF marked # NoDraft THEN marked
                                                          ELSE job.draft))))
            /\ UNCHANGED clock
  <2>1. PICK d : d = IF marked # NoDraft THEN marked ELSE job.draft
    OBVIOUS
  <2>2. d \in Drafts(c)
    <3>1. job \in Marks(c)
      BY <1>4, <1>10, JobKinds
    <3>2. job.draft \in Drafts(c)
      BY <3>1 DEF Marks
    <3> QED BY <1>4, <1>7, <2>1, <3>2, FindDraftType
  <2>3. PICK plan : plan = PutPlan(Attempted(d))
    OBVIOUS
  <2>4. plan \in Puts(c)
    BY <2>2, <2>3, AttemptDrafts DEF PutPlan, Puts
  <2>5. PICK h : h = Planned(g, e, plan)
    OBVIOUS
  <2>6. IsView(h, c)
    BY <1>2, <1>3, <1>10, <2>4, <2>5, PlansView
  <2>7. Becomes(p, h) /\ c.now = clock'
    BY <1>4, <1>10, <2>1, <2>3, <2>5
  <2> QED BY <1>5, <2>6, <2>7, SameGrows, MemoryStep
<1>11. CASE /\ job.do = "confirm"
            /\ Becomes(p, Planned(g, e, ConfirmPlan(g, p, job, clock + 1)))
            /\ IF ConfirmPlan(g, p, job, clock + 1).tag = "continue" THEN clock' = clock + 1
               ELSE UNCHANGED clock
  <2>1. PICK t : t = clock + 1
    OBVIOUS
  <2>2. PICK plan : plan = ConfirmPlan(g, p, job, t)
    OBVIOUS
  <2>3. job \in Confirms(c)
    BY <1>4, <1>11, JobKinds
  <2>4. PICK l \in Contexts :
          /\ Grows(c, l) /\ l.rows = c.rows /\ l.now = IF plan.tag = "continue" THEN t ELSE c.now
          /\ plan \in Treatments(l) /\ plan.src \subseteq SourcesOf(job.task.rid, job.task.e, l)
    BY <1>3, <1>4, <2>1, <2>2, <2>3, ConfirmPlanType
  <2>5. PICK h : h = Planned(g, e, plan)
    OBVIOUS
  <2>6. IsView(h, l)
    BY <1>2, <1>3, <1>11, <2>4, <2>5, LaterView, PlansView
  <2>7. Becomes(p, h) /\ l.now = clock'
    BY <1>4, <1>11, <2>1, <2>2, <2>4, <2>5
  <2> QED BY <1>5, <2>4, <2>6, <2>7, MemoryStep
<1>12. CASE /\ job.do = "wipe"
            /\ Becomes(p, Planned(g, e, [tag |-> "del", del |-> {d.id : d \in OwnDrafts(db, p, e)}]))
            /\ UNCHANGED clock
  <2>1. PICK ids : ids = {d.id : d \in OwnDrafts(db, p, e)}
    OBVIOUS
  <2>2. ids \in SUBSET Nat
    <3>1. \A d \in OwnDrafts(db, p, e) : d.id \in Nat
      <4>1. OwnDrafts(db, p, e) \subseteq Drafts(c)
        BY <1>4 DEF OwnDrafts, Store
      <4>2. \A d \in Drafts(c) : d.id \in Nat
        BY LegitFields
      <4> QED BY <4>1, <4>2
    <3> QED BY <2>1, <3>1
  <2>3. PICK plan : plan = [tag |-> "del", del |-> ids]
    OBVIOUS
  <2>4. plan \in Deletions
    BY <2>2, <2>3 DEF Deletions
  <2>5. PICK h : h = Planned(g, e, plan)
    OBVIOUS
  <2>6. IsView(h, c)
    BY <1>2, <1>3, <1>12, <2>4, <2>5, PlansView
  <2>7. Becomes(p, h) /\ c.now = clock'
    BY <1>4, <1>12, <2>1, <2>3, <2>5
  <2> QED BY <1>5, <2>6, <2>7, SameGrows, MemoryStep
<1> QED BY <1>8, <1>9, <1>10, <1>11, <1>12

\* What a job will put is a draft.
LEMMA PlanPuts ==
  ASSUME NEW c \in Contexts, NEW job \in Jobs(c), job.plan # Unplanned,
         job.plan.tag \in {"put", "continue", "rebase"}
  PROVE  job.plan.put \in Drafts(c)
<1>1. CASE job.do \in {"persist", "mark", "unmark", "adopt"}
  BY <1>1, PutJobs
<1>2. CASE job.do = "confirm"
  <2>1. job.plan \in Treatments(c)
    BY <1>2, JobKinds DEF Confirms
  <2> QED BY <2>1 DEF Treatments
<1>3. CASE job.do = "wipe"
  <2>1. job.plan \in Deletions
    BY <1>3, JobKinds DEF Wipes
  <2> QED BY <2>1 DEF Deletions
<1> QED BY <1>1, <1>2, <1>3, JobKinds

\* A job writes to the store.
LEMMA JobWritesStep ==
  ASSUME NEW c \in Contexts, At(c), NEW p \in Pages, NEW e \in Entities, JobWrites(p, e)
  PROVE  DInv'
<1>1. PICK g : g = Page(p)
  OBVIOUS
<1>2. PICK job : job = Head(g.m.jobs[e])
  OBVIOUS
<1>3. IsView(g, c) /\ g.m.jobs[e] # <<>>
  BY <1>1, PageIs DEF At, JobWrites
<1>4. PICK h : h = Popped(g, e)
  OBVIOUS
<1>5. IsView(h, c) /\ job \in Jobs(c) /\ Freed(h, e, job)
  <2>1. /\ IsView(Popped(g, e), c) /\ Head(g.m.jobs[e]) \in Jobs(c)
        /\ Popped(g, e).m.save = g.m.save
        /\ SaveWork(Head(g.m.jobs[e])) =>
              /\ Idle(Popped(g, e).m)
              /\ g.m.save # NoSave /\ g.m.save.e = e
              /\ g.m.save.phase \in Fitting(Head(g.m.jobs[e]))
    BY <1>3, PoppedView
  <2>3. SaveWork(Head(g.m.jobs[e])) => Idle(h.m) /\ h.m.save = g.m.save
    BY <1>4, <2>1, Zenon
  <2>2. SaveWork(job) => /\ Idle(h.m) /\ h.m.save # NoSave /\ h.m.save.e = e
                         /\ h.m.save.phase \in Fitting(job)
    <3>1. SaveWork(job) = SaveWork(Head(g.m.jobs[e])) /\ Fitting(job) = Fitting(Head(g.m.jobs[e]))
      BY <1>2, Zenon
    <3> QED BY <2>1, <2>3, <3>1
  <2> QED BY <1>2, <1>4, <2>1, <2>2 DEF Freed, Saving
<1>6. job.plan # Unplanned
  BY <1>1, <1>2 DEF JobWrites
<1>7. PICK k : k = AfterJob(h, e, job)
  OBVIOUS
<1>8. IsView(k, c)
  BY <1>5, <1>6, <1>7, AfterJobView
<1>9. Becomes(p, k) /\ UNCHANGED <<server, flight, clock>>
  BY <1>1, <1>2, <1>4, <1>7, Zenon DEF JobWrites, Popped
<1>10. db' = IF job.plan.tag \in {"put", "continue", "rebase"} THEN Put(db, job.plan.put)
             ELSE IF job.plan.tag \in {"del", "remove"} THEN Without(db, job.plan.del)
             ELSE db
  BY <1>1, <1>2, Zenon DEF JobWrites
<1>11. Store(db', c)
  <2>1. Store(db, c)
    BY DEF At
  <2>2. CASE job.plan.tag \in {"put", "continue", "rebase"}
    BY <1>5, <1>6, <1>10, <2>1, <2>2, PlanPuts, StoreWrites
  <2>3. CASE ~ (job.plan.tag \in {"put", "continue", "rebase"})
    BY <1>10, <2>1, <2>3, StoreWrites
  <2> QED BY <2>2, <2>3
<1>12. flight' \in [Pages -> Flights(c)]
  BY <1>9, SameGrows, FlightsStay
<1> QED BY <1>8, <1>9, <1>11, <1>12, CalmStep

\* A job fails.
LEMMA JobFailsStep ==
  ASSUME NEW c \in Contexts, At(c), NEW p \in Pages, NEW e \in Entities, JobFails(p, e)
  PROVE  DInv'
<1>0. PICK l : l = Named(c, clock + 1, 0)
  OBVIOUS
<1>1. /\ l \in Contexts /\ Grows(c, l) /\ l.now = clock + 1 /\ l.rows = c.rows
      /\ clock \in Nat /\ <<clock + 1, 0>> \in l.names
  <2>1. clock \in Nat /\ c.now = clock
    BY DEF At, Contexts
  <2>2. clock + 1 \in Nat /\ c.now < clock + 1
    BY <2>1
  <2>3. l.rows = c.rows
    BY <1>0 DEF Named, Contexts
  <2> QED BY <1>0, <2>1, <2>2, <2>3, NamedContext
<1>2. PICK g : g = Page(p)
  OBVIOUS
<1>3. PICK job : job = Head(g.m.jobs[e])
  OBVIOUS
<1>4. IsView(g, l) /\ g.m.jobs[e] # <<>>
  BY <1>1, <1>2, PageIs, LaterView DEF At, JobFails
<1>5. PICK h : h = Popped(g, e)
  OBVIOUS
<1>6. IsView(h, l) /\ job \in Jobs(l) /\ Freed(h, e, job)
  <2>1. /\ IsView(Popped(g, e), l) /\ Head(g.m.jobs[e]) \in Jobs(l)
        /\ Popped(g, e).m.save = g.m.save
        /\ SaveWork(Head(g.m.jobs[e])) =>
              /\ Idle(Popped(g, e).m)
              /\ g.m.save # NoSave /\ g.m.save.e = e
              /\ g.m.save.phase \in Fitting(Head(g.m.jobs[e]))
    BY <1>1, <1>4, PoppedView
  <2>3. SaveWork(Head(g.m.jobs[e])) => Idle(h.m) /\ h.m.save = g.m.save
    BY <1>5, <2>1, Zenon
  <2>2. SaveWork(job) => /\ Idle(h.m) /\ h.m.save # NoSave /\ h.m.save.e = e
                         /\ h.m.save.phase \in Fitting(job)
    <3>1. SaveWork(job) = SaveWork(Head(g.m.jobs[e])) /\ Fitting(job) = Fitting(Head(g.m.jobs[e]))
      BY <1>3, Zenon
    <3> QED BY <2>1, <2>3, <3>1
  <2> QED BY <1>3, <1>5, <2>1, <2>2 DEF Freed, Saving
<1>7. PICK rid \in 1 .. l.now : rid = clock + 1
  BY <1>1
<1>8. PICK k : k = AfterFailedJob(h, job, rid)
  OBVIOUS
<1>9. IsView(k, l)
  BY <1>1, <1>6, <1>7, <1>8, AfterFailedJobView
<1>10. Becomes(p, k) /\ clock' = clock + 1 /\ UNCHANGED <<server, db, flight>>
  BY <1>2, <1>3, <1>5, <1>7, <1>8, Zenon DEF JobFails, Popped, Tick
<1>11. l.now = clock' /\ UNCHANGED <<server, db, flight>>
  BY <1>1, <1>10
<1> QED BY <1>1, <1>9, <1>10, <1>11, MemoryStep

\* The fields of a confirmation under way.
LEMMA ConfTask ==
  ASSUME NEW c \in Contexts, NEW g, IsView(g, c), NEW task \in g.m.conf
  PROVE  /\ task \in Tasks(c) /\ task.e \in Entities /\ task.rid \in 1 .. c.now
         /\ task.av \in 1 .. c.now /\ task.att \in Attempts(c) \cup {NoAttempt}
         /\ task.rid \in Nat /\ task.av \in Nat /\ Traced(task, c)
<1>1. g.m \in Memories(c)
  BY MemoryOf
<1>2. task \in Tasks(c)
  BY <1>1 DEF Memories
<1>3. task \in TaskFields(c) /\ Traced(task, c)
  BY <1>2 DEF Tasks
<1>4. /\ task.e \in Entities /\ task.rid \in 1 .. c.now
      /\ task.av \in 1 .. c.now /\ task.att \in Attempts(c) \cup {NoAttempt}
  BY <1>3 DEF TaskFields
<1> QED BY <1>2, <1>3, <1>4

\* The draft that a confirmation finds was copied, if it is a copy, before the UUID
\* that is confirmed.
LEMMA MatchingBirth ==
  ASSUME NEW c \in Contexts, Store(db, c), NEW p, NEW e, NEW rid \in 1 .. c.now,
         Matching(db, p, e, rid) # {}
  PROVE  /\ Newest(Matching(db, p, e, rid)).id \in 0 .. c.now
         /\ \E b \in c.born : /\ b.id = Newest(Matching(db, p, e, rid)).id /\ b.e = e
                              /\ (b.src # 0 => b.at < rid)
<1>1. PICK d : d = Newest(Matching(db, p, e, rid))
  OBVIOUS
<1>2. Matching(db, p, e, rid) \subseteq Drafts(c)
  BY DEF Matching, Store
<1>3. d \in Matching(db, p, e, rid)
  BY <1>1, <1>2, NewestType
<1>4. d \in Drafts(c) /\ d.e = e /\ (d.req = rid \/ d.att = rid)
  BY <1>2, <1>3 DEF Matching
<1>5. /\ Birth(d) \in c.born /\ d.id \in 1 .. c.now /\ c.now \in Nat
      /\ d.src # 0 => d.srcAt < d.req /\ (d.att # 0 => d.srcAt < d.att)
  BY <1>4, LegitFields DEF Legit
<1>6. rid # 0
  BY <1>5
<1>7. d.src # 0 => d.srcAt < rid
  BY <1>4, <1>5, <1>6
<1>8. Birth(d).id = d.id /\ Birth(d).e = e /\ (Birth(d).src # 0 => Birth(d).at < rid)
  BY <1>4, <1>7 DEF Birth
<1>9. d.id \in 0 .. c.now
  BY <1>5
<1> QED BY <1>1, <1>5, <1>8, <1>9

\* A confirmation looks for its draft.
LEMMA ConfirmReadsStep ==
  ASSUME NEW c \in Contexts, At(c), NEW p \in Pages, NEW task \in mem[p].conf,
         ConfirmReads(p, task)
  PROVE  DInv'
<1>1. PICK g : g = Page(p)
  OBVIOUS
<1>2. IsView(g, c) /\ task \in g.m.conf /\ Store(db, c) /\ c.now = clock
  BY <1>1, PageIs DEF At
<1>3. task \in Tasks(c) /\ task.e \in Entities /\ task.rid \in 1 .. c.now
  BY <1>2, ConfTask
<1>4. PICK ms : ms = Matching(db, p, task.e, task.rid)
  OBVIOUS
<1>5. PICK f \in {"final", "job"} : f = IF ms = {} THEN "final" ELSE "job"
  OBVIOUS
<1>6. PICK n : n = IF ms = {} THEN 0 ELSE Newest(ms).id
  OBVIOUS
<1>7. /\ n \in 0 .. c.now
      /\ n # 0 => \E b \in c.born : b.id = n /\ b.e = task.e /\ (b.src # 0 => b.at < task.rid)
  <2>1. CASE ms = {}
    BY <1>6, <2>1, NoDraftIsNone
  <2>2. CASE ms # {}
    BY <1>2, <1>3, <1>4, <1>6, <2>2, MatchingBirth
  <2> QED BY <2>1, <2>2
<1>8. PICK seen : seen = [task EXCEPT !.phase = f, !.match = n]
  OBVIOUS
<1>9. seen \in Tasks(c)
  BY <1>3, <1>7, <1>8, SeenTask
<1>10. PICK h : h = [g EXCEPT !.m.conf = (g.m.conf \ {task}) \cup {seen}]
  OBVIOUS
<1>11. IsView(h, c)
  BY <1>2, <1>9, <1>10, ConfSwapped
<1>12. PICK job : job = [do |-> "confirm", task |-> seen, plan |-> Unplanned]
  OBVIOUS
<1>13. job \in Jobs(c) /\ ~ SaveWork(job)
  BY <1>9, <1>12, ConfirmJob
<1>14. PICK k : k = IF ms = {} THEN h ELSE Queued(h, task.e, job)
  OBVIOUS
<1>15. IsView(k, c)
  <2>1. IsView(Queued(h, task.e, job), c)
    BY <1>3, <1>11, <1>13, QueuedView
  <2> QED BY <1>11, <1>14, <2>1
<1>16. Becomes(p, k) /\ UNCHANGED <<server, db, flight, clock>>
  BY <1>1, <1>4, <1>5, <1>6, <1>8, <1>10, <1>12, <1>14, Zenon DEF ConfirmReads
<1>17. c.now = clock' /\ UNCHANGED <<server, db, flight>>
  BY <1>2, <1>16
<1> QED BY <1>15, <1>16, <1>17, SameGrows, MemoryStep

\* A confirmation marks the source of its draft.
LEMMA ConfirmMarksStep ==
  ASSUME NEW c \in Contexts, At(c), NEW p \in Pages, NEW task \in mem[p].conf,
         ConfirmMarks(p, task)
  PROVE  DInv'
<1>1. PICK g : g = Page(p)
  OBVIOUS
<1>2. IsView(g, c) /\ task \in g.m.conf /\ Store(db, c)
  BY <1>1, PageIs DEF At
<1>3. /\ task \in Tasks(c) /\ task.e \in Entities /\ task.rid \in Nat /\ task.av \in 1 .. c.now
      /\ Traced(task, c)
  BY <1>2, ConfTask
<1>4. PICK src : src = CHOOSE s \in task.src : TRUE
  OBVIOUS
<1>5. src \in SourcesOf(task.rid, task.e, c) /\ Applies(task.rid, task.e, task.av, c)
  <2>1. task.src # {} /\ task.src \subseteq SourcesOf(task.rid, task.e, c)
    BY <1>3 DEF ConfirmMarks, Traced
  <2>2. src \in task.src
    BY <1>4, <2>1
  <2> QED BY <1>3, <2>1, <2>2 DEF Traced
<1>6. PICK t : t = [task EXCEPT !.phase = "final"]
  OBVIOUS
<1>7. PICK h : h = [g EXCEPT !.m.conf = (g.m.conf \ {task}) \cup {t}]
  OBVIOUS
<1>8. IsView(h, c)
  BY <1>2, <1>3, <1>6, <1>7, FinalTask, ConfSwapped
<1>9. /\ Becomes(p, h) /\ UNCHANGED <<server, flight, clock>>
      /\ db' = SourceMarked(db, src, task.av)
  BY <1>1, <1>4, <1>6, <1>7, Zenon DEF ConfirmMarks
<1>10. Store(db', c)
  BY <1>2, <1>3, <1>5, <1>9, MarkedStore
<1>11. flight' \in [Pages -> Flights(c)]
  BY <1>9, SameGrows, FlightsStay
<1> QED BY <1>8, <1>9, <1>10, <1>11, CalmStep

\* A page whose evidence count and last confirmation are settled.
LEMMA Concluding ==
  ASSUME NEW c \in Contexts, NEW g, IsView(g, c), NEW e \in Entities, NEW n \in Nat, NEW task,
         NEW active, NEW unprotected \in BOOLEAN, NEW clear \in BOOLEAN
  PROVE  IsView(Concluded([g EXCEPT !.m.evRev[e] = n], e, task, active, unprotected, clear), c)
<1>1. g.u \in Statuses
  BY MemoryOf
<1>2. PICK h : h = [g EXCEPT !.m.evRev[e] = n]
  OBVIOUS
<1>3. IsView(h, c)
  BY <1>1, <1>2, CountsView
<1> QED BY <1>2, <1>3, ConcludedView

\* A confirmation ends.
LEMMA ConfirmEndsStep ==
  ASSUME NEW c \in Contexts, At(c), NEW p \in Pages, NEW task \in mem[p].conf,
         ConfirmEnds(p, task)
  PROVE  DInv'
<1>1. PICK g : g = Page(p)
  OBVIOUS
<1>2. IsView(g, c) /\ task \in g.m.conf /\ Store(db, c) /\ c.now = clock
  BY <1>1, PageIs DEF At
<1>3. task \in Tasks(c) /\ task.e \in Entities /\ task.att \in Attempts(c) \cup {NoAttempt}
  BY <1>2, ConfTask
<1>4. PICK e : e = ConfirmedEntity(task)
  OBVIOUS
<1>5. e \in Entities \cup {Nothing}
  BY <1>3, <1>4 DEF ConfirmedEntity, Attempts, AttemptFields
<1>6. PICK a : a = task.att
  OBVIOUS
<1>7. PICK active : active = DraftForTab(db, p, e)
  OBVIOUS
<1>9. PICK h : h = [g EXCEPT !.m.conf = g.m.conf \ {task},
                             !.m.attempts = {x \in g.m.attempts : x.rid # task.rid}]
  OBVIOUS
<1>10. IsView(h, c)
  <2>1. g.m \in Memories(c)
    BY <1>2, MemoryOf
  <2>2. /\ g.m.conf \ {task} \in SUBSET Tasks(c)
        /\ {x \in g.m.attempts : x.rid # task.rid} \in SUBSET Attempts(c)
    BY <2>1 DEF Memories
  <2>3. PICK conf \in SUBSET Tasks(c) : conf = g.m.conf \ {task}
    BY <2>2
  <2>4. PICK as \in SUBSET Attempts(c) : as = {x \in g.m.attempts : x.rid # task.rid}
    BY <2>2
  <2>5. IsView([g EXCEPT !.m.conf = conf, !.m.attempts = as], c)
    BY <1>2, ConfView
  <2> QED BY <1>9, <2>3, <2>4, <2>5
<1>11. PICK k : k = IF e = Nothing THEN h
                    ELSE Concluded([h EXCEPT !.m.evRev[e] =
                           IF a # NoAttempt /\ g.m.evRev[e] > a.evRev THEN h.m.evRev[e] ELSE 0],
                           e, task, active,
                           (a # NoAttempt /\ g.m.rev[e] > a.rev)
                             /\ ~ HoldsLatest(g, e, active, a # NoAttempt /\ g.m.rev[e] > a.rev),
                           ~ (a # NoAttempt /\ g.m.evRev[e] > a.evRev))
  OBVIOUS
<1>12. IsView(k, c)
  <2>1. CASE e = Nothing
    BY <1>10, <1>11, <2>1
  <2>2. CASE e # Nothing
    <3>1. e \in Entities
      BY <1>5, <2>2
    <3>2. PICK n : n = IF a # NoAttempt /\ g.m.evRev[e] > a.evRev THEN h.m.evRev[e] ELSE 0
      OBVIOUS
    <3>3. n \in Nat
      <4>1. h.m \in Memories(c)
        BY <1>10, MemoryOf
      <4>2. h.m.evRev[e] \in Nat
        BY <3>1, <4>1 DEF Memories
      <4> QED BY <3>2, <4>2
    <3>4. PICK un : un = ((a # NoAttempt /\ g.m.rev[e] > a.rev)
                          /\ ~ HoldsLatest(g, e, active, a # NoAttempt /\ g.m.rev[e] > a.rev))
      OBVIOUS
    <3>5. PICK clear : clear = ~ (a # NoAttempt /\ g.m.evRev[e] > a.evRev)
      OBVIOUS
    <3>6. un \in BOOLEAN /\ clear \in BOOLEAN
      BY <3>4, <3>5, Zenon
    <3>7. IsView(Concluded([h EXCEPT !.m.evRev[e] = n], e, task, active, un, clear), c)
      BY <1>10, <3>1, <3>3, <3>6, Concluding
    <3> QED BY <1>11, <2>2, <3>2, <3>4, <3>5, <3>7, Zenon
  <2> QED BY <2>1, <2>2
<1>13. PICK r : r = RecoveryDue(k)
  OBVIOUS
<1>14. IsView(r, c)
  BY <1>12, <1>13, DueView
<1>15. Becomes(p, r) /\ UNCHANGED <<server, db, flight, clock>>
  BY <1>1, <1>4, <1>6, <1>7, <1>9, <1>11, <1>13, ZenonT(60) DEF ConfirmEnds
<1>16. c.now = clock' /\ UNCHANGED <<server, db, flight>>
  BY <1>2, <1>15
<1> QED BY <1>14, <1>15, <1>16, SameGrows, MemoryStep

\* A confirmation fails.
LEMMA ConfirmFailsStep ==
  ASSUME NEW c \in Contexts, At(c), NEW p \in Pages, NEW task \in mem[p].conf,
         ConfirmFails(p, task)
  PROVE  DInv'
<1>1. PICK g : g = Page(p)
  OBVIOUS
<1>2. IsView(g, c) /\ c.now = clock
  BY <1>1, PageIs DEF At
<1>3. PICK conf : conf = g.m.conf \ {task}
  OBVIOUS
<1>4. PICK as : as = IF task.phase = "final" THEN {x \in g.m.attempts : x.rid # task.rid}
                     ELSE g.m.attempts
  OBVIOUS
<1>5. conf \in SUBSET Tasks(c) /\ as \in SUBSET Attempts(c)
  <2>1. g.m \in Memories(c)
    BY <1>2, MemoryOf
  <2> QED BY <1>3, <1>4, <2>1 DEF Memories
<1>6. PICK h : h = [g EXCEPT !.m.conf = conf, !.m.attempts = as]
  OBVIOUS
<1>7. IsView(h, c)
  BY <1>2, <1>5, <1>6, ConfView
<1>8. PICK k : k = Failure(h)
  OBVIOUS
<1>9. IsView(k, c)
  BY <1>7, <1>8, FailureView
<1>10. Becomes(p, k) /\ UNCHANGED <<server, db, flight, clock>>
  BY <1>1, <1>3, <1>4, <1>6, <1>8, Zenon DEF ConfirmFails
<1>11. c.now = clock' /\ UNCHANGED <<server, db, flight>>
  BY <1>2, <1>10
<1> QED BY <1>9, <1>10, <1>11, SameGrows, MemoryStep

\* A step of one page that hands nothing out and writes nothing.
LEMMA QuietStep ==
  ASSUME NEW c \in Contexts, At(c), UNCHANGED <<server, db, flight, clock>>,
         NEW p \in Pages, NEW g, IsView(g, c), Becomes(p, g)
  PROVE  DInv'
<1>1. c.now = clock' /\ UNCHANGED <<server, db, flight>>
  BY DEF At
<1> QED BY <1>1, SameGrows, MemoryStep

\* The drafts are read for an offer.
LEMMA RecoveryReadsStep ==
  ASSUME NEW c \in Contexts, At(c), NEW p \in Pages, RecoveryReads(p)
  PROVE  DInv'
<1>1. PICK g : g = Page(p)
  OBVIOUS
<1>2. IsView(g, c) /\ Store(db, c)
  BY <1>1, PageIs DEF At
<1>3. PICK e : e = g.w.sel
  OBVIOUS
<1>4. e \in Entities \cup {Nothing} /\ g.w.ver \in Nat /\ g.w.ro \in BOOLEAN
  BY <1>2, <1>3, MemoryOf, FormPay DEF Components
<1>5. NoRun \in Runs(c) /\ NoShown \in Shows(c)
  BY DEF Runs, Shows
<1>6. UNCHANGED <<server, db, flight, clock>>
  BY DEF RecoveryReads
<1>7. CASE e = Nothing
  <2>1. PICK h : h = [g EXCEPT !.m.due = FALSE, !.m.run = NoRun, !.m.shown = NoShown]
    OBVIOUS
  <2>2. IsView(h, c)
    BY <1>2, <1>5, <2>1, RunView
  <2>3. Becomes(p, h)
    BY <1>1, <1>3, <1>7, <2>1, Zenon DEF RecoveryReads
  <2> QED BY <1>6, <2>2, <2>3, QuietStep
<1>8. CASE e # Nothing
  <2>1. PICK foreign : foreign = {d \in DraftsOf(db, e) : d.tab # p /\ ~ Superseded(d, g.w.ver)}
    OBVIOUS
  <2>2. PICK own : own = {d \in OwnDrafts(db, p, e) : ~ Superseded(d, g.w.ver)}
    OBVIOUS
  <2>3. PICK red : red = {d \in foreign : Redundant(g, e, d, DraftPayload(g.w.form))}
    OBVIOUS
  <2>4. PICK oth : oth = {d \in foreign : ~ Redundant(g, e, d, DraftPayload(g.w.form))}
    OBVIOUS
  <2>5. PICK o : o = IF own = {} THEN NoDraft ELSE Newest(own)
    OBVIOUS
  <2>6. foreign \subseteq Drafts(c) /\ own \subseteq Drafts(c)
    BY <1>2, <2>1, <2>2 DEF DraftsOf, OwnDrafts, Store
  <2>7. red \in SUBSET Drafts(c) /\ oth \in SUBSET Drafts(c)
    BY <2>3, <2>4, <2>6
  <2>8. o \in Drafts(c) \cup {NoDraft}
    BY <2>5, <2>6, NewestType
  <2>9. PICK run : run = [e |-> e, base |-> g.w.ver, ro |-> g.w.ro, redundant |-> red,
                          others |-> oth, own |-> o]
    OBVIOUS
  <2>10. run \in Runs(c)
    BY <1>4, <1>8, <2>7, <2>8, <2>9 DEF Runs
  <2>11. PICK h : h = [g EXCEPT !.m.due = FALSE, !.m.run = run]
    OBVIOUS
  <2>12. IsView(h, c)
    BY <1>2, <1>5, <2>10, <2>11, RunView
  <2>13. Becomes(p, h)
    BY <1>1, <1>3, <1>8, <2>1, <2>2, <2>3, <2>4, <2>5, <2>9, <2>11, Zenon DEF RecoveryReads
  <2> QED BY <1>6, <2>12, <2>13, QuietStep
<1> QED BY <1>7, <1>8

\* The draft that is offered is one of those left.
LEMMA FirstIsOffered ==
  ASSUME NEW c \in Contexts, NEW run, run.redundant \subseteq Drafts(c),
         run.others \subseteq Drafts(c), NEW offered, offered # {},
         \A d \in offered : \E x \in run.redundant \cup run.others : x.id = d.id
  PROVE  FirstOf(run, offered) \in offered
<1>1. ASSUME NEW d \in offered
      PROVE  ReadAt(run, d) \in 0 .. c.now
  <2>1. PICK x : x = CHOOSE y \in run.redundant \cup run.others : y.id = d.id
    OBVIOUS
  <2>2. \E y \in run.redundant \cup run.others : y.id = d.id
    BY <1>1
  <2>3. x \in run.redundant \cup run.others
    BY <2>1, <2>2
  <2>4. x \in Drafts(c)
    BY <2>3
  <2>5. x.at \in 1 .. c.now /\ c.now \in Nat
    BY <2>4, LegitFields
  <2> QED BY <2>1, <2>5 DEF ReadAt
<1>2. PICK ats : ats = {ReadAt(run, d) : d \in offered}
  OBVIOUS
<1>3. c.now \in Nat /\ ats \in SUBSET (0 .. c.now) /\ ats # {}
  BY <1>1, <1>2 DEF Contexts
<1>4. PICK n \in ats : \A x \in ats : x <= n
  BY <1>3, HasGreatest
<1>5. PICK d \in offered : ReadAt(run, d) = n
  BY <1>2, <1>4
<1>6. \E x \in offered : \A y \in offered : ReadAt(run, y) <= ReadAt(run, x)
  BY <1>2, <1>4, <1>5
<1> QED BY <1>6 DEF FirstOf

\* The fields of a recovery under way.
LEMMA RunFields ==
  ASSUME NEW c \in Contexts, NEW g, IsView(g, c), g.m.run # NoRun
  PROVE  /\ g.m.run.e \in Entities /\ g.m.run.redundant \subseteq Drafts(c)
         /\ g.m.run.others \subseteq Drafts(c) /\ g.m.run.own \in Drafts(c) \cup {NoDraft}
         /\ g.m.run.own.id \in 0 .. c.now
<1>1. g.m \in Memories(c)
  BY MemoryOf
<1>2. g.m.run \in Runs(c) \ {NoRun}
  BY <1>1 DEF Memories
<1>3. /\ g.m.run.e \in Entities /\ g.m.run.redundant \subseteq Drafts(c)
      /\ g.m.run.others \subseteq Drafts(c) /\ g.m.run.own \in Drafts(c) \cup {NoDraft}
  BY <1>2 DEF Runs
<1>4. \A d \in Drafts(c) : d.id \in 0 .. c.now
  BY LegitFields
<1> QED BY <1>3, <1>4, NoDraftIsNone

\* A page whose recovery is over.
LEMMA EvaluatedView ==
  ASSUME NEW c \in Contexts, NEW g, IsView(g, c), NEW run, run.e \in Entities,
         run.own.id \in 0 .. c.now
  PROVE  IsView(Evaluated(g, run), c)
<1>1. PICK id : id = IF g.m.active[run.e] = 0 THEN run.own.id ELSE g.m.active[run.e]
  OBVIOUS
<1>2. id \in 0 .. c.now
  <2>1. g.m \in Memories(c)
    BY MemoryOf
  <2>2. g.m.active[run.e] \in 0 .. c.now
    BY <2>1 DEF Memories
  <2> QED BY <1>1, <2>2
<1>3. IsView([g EXCEPT !.m.run = NoRun, !.m.active[run.e] = id], c)
  BY <1>2, RunOverView
<1>4. Evaluated(g, run) = [g EXCEPT !.m.run = NoRun, !.m.active[run.e] = id]
  <2>1. PICK T, M, U : g \in [w : T, m : M, u : U]
    BY DEF IsView, Views
  <2>2. "run" \in DOMAIN g.m /\ "active" \in DOMAIN g.m
    BY Fields, MemoryOf
  <2> QED BY <1>1, <2>1, <2>2 DEF Evaluated
<1> QED BY <1>3, <1>4

\* The redundant drafts go and the newest of the others is offered.
LEMMA RecoveryEndsStep ==
  ASSUME NEW c \in Contexts, At(c), NEW p \in Pages, RecoveryEnds(p)
  PROVE  DInv'
<1>1. PICK g : g = Page(p)
  OBVIOUS
<1>2. IsView(g, c) /\ Store(db, c) /\ g.m = mem[p]
  BY <1>1, PageIs DEF At
<1>3. PICK run : run = mem[p].run
  OBVIOUS
<1>4. /\ run.e \in Entities /\ run.redundant \subseteq Drafts(c)
      /\ run.others \subseteq Drafts(c) /\ run.own.id \in 0 .. c.now
  <2>1. g.m.run # NoRun
    BY <1>2 DEF RecoveryEnds
  <2> QED BY <1>2, <1>3, <2>1, RunFields
<1>6. PICK left : left = Without(db, {d.id : d \in Redundants(run)})
  OBVIOUS
<1>7. Store(left, c)
  BY <1>2, <1>6, StoreWrites
<1>9. PICK offered : offered = Offered(run, left)
  OBVIOUS
<1>10. PICK first : first = FirstOf(run, offered)
  OBVIOUS
<1>11. offered # {} => first \in Drafts(c)
  <2>1. SUFFICES ASSUME offered # {} PROVE first \in Drafts(c)
    OBVIOUS
  <2>2. \A d \in offered : \E x \in run.redundant \cup run.others : x.id = d.id
    BY <1>9 DEF Offered
  <2>3. offered \subseteq Drafts(c)
    BY <1>4, <1>7, <1>9 DEF Store, Offered
  <2>4. first \in offered
    BY <1>4, <1>10, <2>1, <2>2, FirstIsOffered
  <2> QED BY <2>3, <2>4
<1>14. PICK h : h = Evaluated(g, run)
  OBVIOUS
<1>15. IsView(h, c)
  BY <1>2, <1>4, <1>14, EvaluatedView
<1>16. PICK k : k = IF offered = {} THEN [h EXCEPT !.m.shown = NoShown]
                    ELSE Displayed(h, run, first)
  OBVIOUS
<1>17. IsView(k, c)
  BY <1>4, <1>11, <1>15, <1>16, HiddenView, DisplayedView
<1>19. Becomes(p, k) /\ UNCHANGED <<server, flight, clock>> /\ db' = left
  BY <1>1, <1>3, <1>6, <1>9, <1>10, <1>14, <1>16, Zenon DEF RecoveryEnds
<1>20. flight' \in [Pages -> Flights(c)]
  BY <1>19, SameGrows, FlightsStay
<1> QED BY <1>7, <1>17, <1>19, <1>20, CalmStep

\* A recovery fails.
LEMMA RecoveryFailsStep ==
  ASSUME NEW c \in Contexts, At(c), NEW p \in Pages, RecoveryFails(p)
  PROVE  DInv'
<1>1. PICK g : g = Page(p)
  OBVIOUS
<1>2. IsView(g, c)
  BY <1>1, PageIs DEF At
<1>3. NoRun \in Runs(c) /\ NoShown \in Shows(c)
  BY DEF Runs, Shows
<1>4. PICK h : h = [g EXCEPT !.m.due = FALSE, !.m.run = NoRun]
  OBVIOUS
<1>5. IsView(h, c)
  BY <1>2, <1>3, <1>4, RunView
<1>6. PICK k : k = Failure(h)
  OBVIOUS
<1>7. IsView(k, c)
  BY <1>5, <1>6, FailureView
<1>8. Becomes(p, k) /\ UNCHANGED <<server, db, flight, clock>>
  BY <1>1, <1>4, <1>6, Zenon DEF RecoveryFails
<1> QED BY <1>7, <1>8, QuietStep

\* The offer of a page.
LEMMA ShownDraft ==
  ASSUME NEW c \in Contexts, NEW g, IsView(g, c), g.m.shown # NoShown
  PROVE  g.m.shown.draft \in Drafts(c) /\ g.m.shown.e \in Entities /\ g.m.shown.stale \in BOOLEAN
<1>1. g.m \in Memories(c)
  BY MemoryOf
<1>2. g.m.shown \in Shows(c) \ {NoShown}
  BY <1>1 DEF Memories
<1> QED BY <1>2 DEF Shows

\* The user takes the offer.
LEMMA RestoreStep ==
  ASSUME NEW c \in Contexts, At(c), NEW p \in Pages, Restore(p)
  PROVE  DInv'
<1>1. PICK g : g = Page(p)
  OBVIOUS
<1>2. IsView(g, c) /\ g.w = wire[p] /\ g.m = mem[p] /\ c.now = clock /\ clock \in Nat
  BY <1>1, PageIs DEF At, Contexts
<1>3. PICK s : s = g.m.shown
  OBVIOUS
<1>4. s.draft \in Drafts(c) /\ s.e \in Entities /\ s.stale \in BOOLEAN /\ s.e = g.w.sel
  <2>1. g.m.shown # NoShown /\ g.m.shown.e = g.w.sel
    BY <1>2 DEF Restore, Offers
  <2> QED BY <1>2, <1>3, <2>1, ShownDraft
<1>5. PICK e : e = g.w.sel
  OBVIOUS
<1>6. PICK t \in Nat : t = clock + 1
  BY <1>2
<1>7. PICK b : b = [id |-> t, e |-> s.draft.e, src |-> s.draft.id, at |-> s.draft.at]
  OBVIOUS
<1>8. /\ b \in Births /\ b.id = t /\ c.now < b.id
      /\ \E x \in c.born : x.id = b.src /\ x.e = b.e
  <2>1. /\ s.draft.id \in 1 .. c.now /\ s.draft.at \in 1 .. c.now /\ s.draft.e \in Entities
        /\ Birth(s.draft) \in c.born
    BY <1>4, LegitFields DEF Legit
  <2>2. Birth(s.draft).id = b.src /\ Birth(s.draft).e = b.e
    BY <1>7 DEF Birth
  <2>3. s.draft.id \in Nat /\ s.draft.at \in Nat
    BY <1>2, <2>1
  <2> QED BY <1>2, <1>6, <1>7, <2>1, <2>2, <2>3 DEF Births
<1>9. PICK l : l = Made(c, b)
  OBVIOUS
<1>10. /\ l \in Contexts /\ Grows(c, l) /\ l.now = t /\ <<t, t>> \in l.names /\ b \in l.born
       /\ l.rows = c.rows
  BY <1>8, <1>9, MadeContext, RowsSame
<1>11. PICK d : d = Adopted(s.draft, p, t)
  OBVIOUS
<1>12. d \in Drafts(l)
  <2>1. t \in 1 .. l.now /\ c.now < t
    BY <1>2, <1>6, <1>10
  <2> QED BY <1>4, <1>7, <1>10, <1>11, <2>1, AdoptedType
<1>13. s.draft.pay \in Payloads(l) /\ IsView(g, l)
  <2>1. s.draft \in Drafts(l)
    BY <1>4, <1>10, DraftLater
  <2> QED BY <1>2, <1>10, <2>1, LegitFields, LaterView
<1>14. PICK k : k = IF Alignable(g.w.form.pay.sol, s.draft.pay.sol)
                    THEN Queued([g EXCEPT !.w.form.pay = s.draft.pay], e,
                                [do |-> "adopt", stale |-> s.stale, plan |-> PutPlan(d)])
                    ELSE [g EXCEPT !.u = WithLabel(g.u, "stale")]
  OBVIOUS
<1>15. IsView(k, l)
  <2>1. IsView(Queued([g EXCEPT !.w.form.pay = s.draft.pay], e,
                      [do |-> "adopt", stale |-> s.stale, plan |-> PutPlan(d)]), l)
    BY <1>4, <1>5, <1>10, <1>12, <1>13, RestoredView
  <2>2. WithLabel(g.u, "stale") \in Statuses
    BY <1>2, MemoryOf, StatusLabels, WithLabelType
  <2>3. IsView([g EXCEPT !.u = WithLabel(g.u, "stale")], l)
    BY <1>10, <1>13, <2>2, NewU
  <2> QED BY <1>14, <2>1, <2>3
<1>16. Becomes(p, k) /\ clock' = clock + 1 /\ UNCHANGED <<server, db, flight>>
  BY <1>1, <1>3, <1>5, <1>6, <1>11, <1>14, Zenon DEF Restore, Tick
<1>17. l.now = clock' /\ UNCHANGED <<server, db, flight>>
  BY <1>6, <1>10, <1>16
<1> QED BY <1>10, <1>15, <1>16, <1>17, MemoryStep

\* The user refuses it.
LEMMA DropStep ==
  ASSUME NEW c \in Contexts, At(c), NEW p \in Pages, Drop(p)
  PROVE  DInv'
<1>1. PICK g : g = Page(p)
  OBVIOUS
<1>2. IsView(g, c) /\ g.w = wire[p] /\ g.m = mem[p] /\ Store(db, c)
  BY <1>1, PageIs DEF At
<1>3. PICK d : d = g.m.shown.draft
  OBVIOUS
<1>4. PICK e \in Entities : e = g.w.sel
  <2>1. g.m.shown # NoShown /\ g.m.shown.e = g.w.sel
    BY <1>2 DEF Drop, Offers
  <2> QED BY <1>2, <2>1, ShownDraft
<1>5. PICK id : id = IF UnchangedSince(db, d) /\ g.m.active[e] = d.id THEN 0 ELSE g.m.active[e]
  OBVIOUS
<1>6. PICK t : t = IF UnchangedSince(db, d) THEN [e |-> e, base |-> g.w.ver] ELSE g.m.tail
  OBVIOUS
<1>7. id \in 0 .. c.now /\ t \in Tails
  <2>1. g.m \in Memories(c) /\ g.w.ver \in Nat
    BY <1>2, MemoryOf, FormPay
  <2>2. g.m.active[e] \in 0 .. c.now /\ g.m.tail \in Tails
    BY <2>1 DEF Memories
  <2> QED BY <1>5, <1>6, <2>1, <2>2, NoDraftIsNone DEF Tails
<1>8. PICK h : h = [g EXCEPT !.m.shown = NoShown, !.m.active[e] = id, !.m.tail = t]
  OBVIOUS
<1>9. IsView(h, c)
  BY <1>2, <1>7, <1>8, DroppedView
<1>10. [g EXCEPT !.m.shown = NoShown,
                 !.m.active[e] = IF UnchangedSince(db, d) /\ @ = d.id THEN 0 ELSE @,
                 !.m.tail = IF UnchangedSince(db, d) THEN [e |-> e, base |-> g.w.ver] ELSE @] = h
  <2>1. PICK T, M, U : g \in [w : T, m : M, u : U]
    BY <1>2 DEF IsView, Views
  <2>2. "shown" \in DOMAIN g.m /\ "active" \in DOMAIN g.m /\ "tail" \in DOMAIN g.m
    BY <1>2, Fields, MemoryOf
  <2> QED BY <1>5, <1>6, <1>8, <2>1, <2>2
<1>11. PICK k : k = RecoveryDue(h)
  OBVIOUS
<1>12. IsView(k, c)
  BY <1>9, <1>11, DueView
<1>13. /\ Becomes(p, k) /\ UNCHANGED <<server, flight, clock>>
       /\ db' = IF UnchangedSince(db, d) THEN Without(db, {d.id}) ELSE db
  BY <1>1, <1>3, <1>4, <1>10, <1>11, Zenon DEF Drop
<1>14. Store(db', c)
  BY <1>2, <1>13, StoreWrites
<1>15. flight' \in [Pages -> Flights(c)]
  BY <1>13, SameGrows, FlightsStay
<1> QED BY <1>12, <1>13, <1>14, <1>15, CalmStep

\* Its deletion fails.
LEMMA DropFailsStep ==
  ASSUME NEW c \in Contexts, At(c), NEW p \in Pages, DropFails(p)
  PROVE  DInv'
<1>1. PICK g : g = Page(p)
  OBVIOUS
<1>2. IsView(g, c)
  BY <1>1, PageIs DEF At
<1>3. PICK k : k = Failure(g)
  OBVIOUS
<1>4. IsView(k, c) /\ Becomes(p, k) /\ UNCHANGED <<server, db, flight, clock>>
  BY <1>1, <1>2, <1>3, FailureView DEF DropFails
<1> QED BY <1>4, QuietStep

\* Its deletion is done.
LEMMA DropEndsStep ==
  ASSUME NEW c \in Contexts, At(c), NEW p \in Pages, DropEnds(p)
  PROVE  DInv'
<1>1. PICK g : g = Page(p)
  OBVIOUS
<1>2. IsView(g, c) /\ Store(db, c) /\ g.m.tail # NoRun
  BY <1>1, PageIs DEF At, DropEnds
<1>3. PICK e : e = g.m.tail.e
  OBVIOUS
<1>4. e \in Entities
  <2>1. g.m \in Memories(c)
    BY <1>2, MemoryOf
  <2>2. g.m.tail \in Tails \ {NoRun}
    BY <1>2, <2>1 DEF Memories
  <2> QED BY <1>3, <2>2 DEF Tails
<1>5. PICK h : h = [g EXCEPT !.m.tail = NoRun]
  OBVIOUS
<1>6. IsView(h, c) /\ h.u \in Statuses
  BY <1>2, <1>5, TailOverView, MemoryOf
<1>7. PICK known : known = ActiveDraft(db, p, e, g.m.active[e])
  OBVIOUS
<1>8. known.id \in 0 .. c.now
  BY <1>2, <1>7, ActiveDraftType
<1>9. PICK v : v = OnPersisted(h.u, e, known.base # g.m.tail.base, FALSE, g.w.sel, online)
  OBVIOUS
<1>10. PICK dirty : dirty = OnDirty(h.u, e, FALSE, g.w.sel, online)
  OBVIOUS
<1>11. PICK clean : clean = OnClean(h.u, e, FALSE, g.w.sel, online)
  OBVIOUS
<1>12. v \in Statuses /\ dirty \in Statuses /\ clean \in Statuses
  BY <1>4, <1>6, <1>9, <1>10, <1>11, StatusTypes
<1>13. PICK k : k =
       IF g.m.shown # NoShown \/ g.m.broken THEN h
       ELSE IF known # NoDraft
       THEN Activated(h, e, known.id, v)
       ELSE IF \/ g.m.timer[e] # NoTimer
               \/ g.m.jobs[e] # <<>>
               \/ g.m.newer[e] # NoPayload
               \/ g.m.rev[e] > 0
       THEN [h EXCEPT !.u = dirty]
       ELSE [h EXCEPT !.u = clean]
  OBVIOUS
<1>14. IsView(k, c)
  BY <1>4, <1>6, <1>8, <1>12, <1>13, ActivatedView, NewU
<1>15. Becomes(p, k) /\ UNCHANGED <<server, db, flight, clock>>
  BY <1>1, <1>3, <1>5, <1>7, <1>9, <1>10, <1>11, <1>13, ZenonT(60) DEF DropEnds, Activated
<1> QED BY <1>14, <1>15, QuietStep

-----------------------------------------------------------------------------
(* The steps of the network and of the server *)

\* A step that touches no page.
LEMMA FlightStep ==
  ASSUME NEW c \in Contexts, At(c), UNCHANGED <<server, db, wire, mem, ui, clock>>,
         flight' \in [Pages -> Flights(c)]
  PROVE  DInv'
<1>1. PagesAt(c)'
  BY SameGrows, PagesGrow DEF At
<1>2. ServerAt(c)' /\ Store(db', c) /\ c.now = clock'
  BY SameGrows, ServerStays DEF At
<1>3. At(c)'
  BY <1>1, <1>2 DEF At
<1> QED BY <1>3 DEF DInv

\* A request sets off.
LEMMA AsksType ==
  ASSUME NEW c \in Contexts, At(c), NEW p \in Pages, NEW kind, NEW arg, Asks(p, kind, arg),
         \/ kind \in {"save", "next", "select", "live", "discard"} /\ arg \in Entities \cup {Nothing}
         \/ kind = "structure" /\ arg \in Seq(Nat)
  PROVE  flight' \in [Pages -> Flights(c)] /\ UNCHANGED <<server, db, clock>>
<1>1. PICK f : f = [status |-> "sent", kind |-> kind, arg |-> arg, w |-> wire[p]]
  OBVIOUS
<1>2. wire[p] \in Components(c)
  BY PageIs DEF At
<1>3. f \in Flights(c)
  BY <1>1, <1>2 DEF Flights, Requests
<1>4. flight' = [flight EXCEPT ![p] = f] /\ UNCHANGED <<server, db, clock>>
  BY <1>1 DEF Asks
<1> QED BY <1>3, <1>4, SameGrows, FlightsStay

\* The user asks for something that is no save.
LEMMA RequestStep ==
  ASSUME NEW c \in Contexts, At(c), NEW p \in Pages,
         Close(p) \/ Report(p) \/ Discard(p) \/ \E e \in Entities : Select(p, e)
  PROVE  DInv'
<1>1. wire[p].sel \in Entities \cup {Nothing}
  BY PageIs, FormPay DEF At
<1>2. PICK kind \in {"select", "live", "discard"}, arg \in Entities \cup {Nothing} :
        Asks(p, kind, arg) /\ UNCHANGED <<wire, mem, ui>>
  BY <1>1 DEF Close, Report, Discard, Select
<1>3. flight' \in [Pages -> Flights(c)] /\ UNCHANGED <<server, db, clock>>
  BY <1>2, AsksType
<1> QED BY <1>2, <1>3, FlightStep

\* A click leads to a list of solutions.
LEMMA ListsType ==
  ASSUME NEW sol \in Seq(Nat), NEW arg \in Lists(sol)
  PROVE  arg \in Seq(Nat)
<1>1. CASE arg = Append(sol, 0)
  BY <1>1, SeqAppend
<1>2. CASE \E i \in DOMAIN sol : arg = RemoveAt(sol, i)
  BY <1>2, SeqRemove
<1> QED BY <1>1, <1>2 DEF Lists

\* The user adds or removes a solution.
LEMMA RestructureStep ==
  ASSUME NEW c \in Contexts, At(c), NEW p \in Pages, NEW arg \in Lists(wire[p].form.pay.sol),
         Restructure(p, arg)
  PROVE  DInv'
<1>1. PICK g : g = Page(p)
  OBVIOUS
<1>2. IsView(g, c) /\ g.w = wire[p]
  BY <1>1, PageIs DEF At
<1>3. arg \in Seq(Nat)
  <2>1. DraftPayload(g.w.form) \in Payloads(c)
    BY <1>2, FormPay
  <2>2. wire[p].form.pay.sol \in Seq(Nat)
    BY <1>2, <2>1 DEF DraftPayload, Payloads
  <2> QED BY <2>2, ListsType
<1>4. flight' \in [Pages -> Flights(c)] /\ UNCHANGED <<server, db, clock>>
  <2>1. Asks(p, "structure", arg)
    BY DEF Restructure
  <2> QED BY <1>3, <2>1, AsksType
<1>5. PICK e \in Entities : e = g.w.sel
  BY <1>2, FormPay DEF Restructure, Editable
<1>6. PICK h : h = [StructuralNote(g, e) EXCEPT !.m.rev[e] = @ + 1,
                                             !.u = OnDirty(@, e, FALSE, e, online)]
  OBVIOUS
<1>7. IsView(h, c)
  BY <1>2, <1>6, RestructuredView
<1>8. Becomes(p, h)
  BY <1>1, <1>5, <1>6, Zenon DEF Restructure
<1>9. Store(db', c)
  BY <1>4 DEF At
<1> QED BY <1>4, <1>7, <1>8, <1>9, CalmStep

\* The fields of the server.
LEMMA ServerFields ==
  ASSUME NEW c \in Contexts, ServerAt(c)
  PROVE  /\ server.ver \in Nat \ {0} /\ server.content \in [Entities -> Payloads(c)]
         /\ server.journal \in SUBSET Rows(c) /\ server.shut \in BOOLEAN
         /\ server.taken \in SUBSET Nat /\ server \in Servers(c)
         /\ server.shut \/ server.ver <= c.now
BY DEF ServerAt, Servers

\* Another user saves a finding.
LEMMA ForeignSaveStep ==
  ASSUME NEW c \in Contexts, At(c), NEW e \in Entities, ForeignSave(e)
  PROVE  DInv'
<1>1. PICK l : l = Later(c, clock + 1)
  OBVIOUS
<1>2. /\ l \in Contexts /\ Grows(c, l) /\ l.now = clock + 1 /\ l.rows = c.rows
      /\ clock \in Nat /\ c.now = clock
  BY <1>1, Ticked
<1>3. PICK pay : pay = [server.content[e] EXCEPT !.n = clock + 1]
  OBVIOUS
<1>4. /\ server.ver \in Nat \ {0} /\ server.content \in [Entities -> Payloads(c)]
      /\ server.journal \in SUBSET Rows(c) /\ server.shut \in BOOLEAN
      /\ server.taken \in SUBSET Nat /\ server \in Servers(l)
      /\ server.shut \/ server.ver <= c.now
  BY <1>2, ServerFields, ServersGrow DEF At
<1>5. pay \in Payloads(l)
  <2>1. PICK q \in Payloads(l) : q = server.content[e]
    BY <1>2, <1>4, PayloadsGrow
  <2>2. clock + 1 \in 0 .. l.now
    BY <1>2
  <2> QED BY <1>3, <2>1, <2>2 DEF Payloads
<1>6. /\ server' = [server EXCEPT !.ver = @ + 1, !.content[e] = pay] /\ ~ server.shut
      /\ clock' = clock + 1 /\ UNCHANGED <<db, wire, mem, ui, flight>>
  BY <1>3, Zenon DEF ForeignSave, Tick
<1>7. PICK v \in Nat \ {0} : v = server.ver + 1
  BY <1>4
<1>8. /\ server' \in Servers(l) /\ server'.journal = server.journal /\ server'.ver = v
  <2>1. server' = [server EXCEPT !.ver = v, !.content[e] = pay]
    BY <1>6, <1>7
  <2> QED BY <1>4, <1>5, <2>1 DEF Servers
<1>9. ServerAt(l)'
  <2>1. v <= l.now
    BY <1>2, <1>4, <1>6, <1>7
  <2>2. c.rows = RowsOf(server) /\ \A r, s \in server.journal : r.rid = s.rid => r = s
    BY DEF At, ServerAt
  <2> QED BY <1>2, <1>8, <2>1, <2>2 DEF ServerAt, RowsOf
<1>10. PagesAt(l)' /\ Store(db', l) /\ flight' \in [Pages -> Flights(l)]
  BY <1>2, <1>6, PagesGrow, StoreGrows, FlightsStay DEF At
<1>11. At(l)'
  BY <1>2, <1>6, <1>9, <1>10 DEF At
<1> QED BY <1>2, <1>11 DEF DInv

\* The assessment is completed.
LEMMA FinishStep ==
  ASSUME NEW c \in Contexts, At(c), Finish
  PROVE  DInv'
<1>4. /\ server.ver \in Nat \ {0} /\ server.content \in [Entities -> Payloads(c)]
      /\ server.journal \in SUBSET Rows(c) /\ server.shut \in BOOLEAN
      /\ server.taken \in SUBSET Nat /\ server \in Servers(c)
  BY ServerFields DEF At
<1>6. /\ server' = [server EXCEPT !.ver = @ + 1, !.shut = TRUE]
      /\ UNCHANGED <<db, wire, mem, ui, flight, clock>>
  BY DEF Finish
<1>7. PICK v \in Nat \ {0} : v = server.ver + 1
  BY <1>4
<1>8. server' \in Servers(c) /\ server'.journal = server.journal /\ server'.shut
  <2>1. server' = [server EXCEPT !.ver = v, !.shut = TRUE]
    BY <1>6, <1>7
  <2> QED BY <1>4, <2>1 DEF Servers
<1>9. ServerAt(c)'
  <2>2. c.rows = RowsOf(server) /\ \A r, s \in server.journal : r.rid = s.rid => r = s
    BY DEF At, ServerAt
  <2> QED BY <1>8, <2>2 DEF ServerAt, RowsOf
<1>10. PagesAt(c)' /\ Store(db', c) /\ flight' \in [Pages -> Flights(c)]
  BY <1>6, SameGrows, PagesGrow DEF At
<1>11. At(c)'
  BY <1>6, <1>9, <1>10 DEF At
<1> QED BY <1>11 DEF DInv

\* The browser goes offline, or comes back.
LEMMA ConnectionStep ==
  ASSUME NEW c \in Contexts, At(c), Disconnect \/ Reconnect
  PROVE  DInv'
<1>1. \A p \in Pages : ui[p] \in Statuses
  BY DEF At, PagesAt
<1>2. \A p \in Pages : /\ GoneOffline(ui[p], wire[p].sel) \in Statuses
                       /\ BackOnline(ui[p], wire[p].sel) \in Statuses
  BY <1>1, ConnectionTypes
<1>3. ui' \in [Pages -> Statuses] /\ UNCHANGED <<server, db, wire, mem, flight, clock>>
  BY <1>1, <1>2 DEF Disconnect, Reconnect
<1>4. PagesAt(c)'
  BY <1>3 DEF At, PagesAt
<1>5. ServerAt(c)' /\ Store(db', c) /\ c.now = clock' /\ flight' \in [Pages -> Flights(c)]
  BY <1>3, SameGrows, ServerStays DEF At
<1>6. At(c)'
  BY <1>4, <1>5 DEF At
<1> QED BY <1>6 DEF DInv

\* A request fails.
LEMMA LostStep ==
  ASSUME NEW c \in Contexts, At(c), NEW p \in Pages, Lost(p)
  PROVE  DInv'
<1>1. PICK g : g = Page(p)
  OBVIOUS
<1>2. IsView(g, c)
  BY <1>1, PageIs DEF At
<1>3. PICK k : k = IF g.m.save.phase = "sent" THEN SaveFails(g) ELSE g
  OBVIOUS
<1>4. IsView(k, c)
  <2>1. CASE g.m.save.phase = "sent"
    BY <1>2, <1>3, <2>1, UnderWay, MemoryOf, SaveFailsView
  <2>2. CASE g.m.save.phase # "sent"
    BY <1>2, <1>3, <2>2
  <2> QED BY <2>1, <2>2
<1>5. /\ Becomes(p, k) /\ UNCHANGED <<server, db, clock>>
      /\ flight' = [flight EXCEPT ![p] = NoMessage]
  BY <1>1, <1>3, Zenon DEF Lost
<1>6. NoMessage \in Flights(c)
  BY DEF Flights
<1>7. Store(db', c) /\ flight' \in [Pages -> Flights(c)]
  BY <1>5, <1>6, SameGrows, FlightsStay DEF At
<1> QED BY <1>4, <1>5, <1>7, CalmStep

\* A response leaves the save of the page alone.
LEMMA MergedSave ==
  ASSUME NEW c \in Contexts, NEW g, IsView(g, c), NEW a, NEW rekeyed
  PROVE  Merged(g, a, rekeyed).m.save = g.m.save
<1>1. PICK T, M, U : g \in [w : T, m : M, u : U]
  BY DEF IsView, Views
<1>2. \A w : [g EXCEPT !.w = w].m = g.m
  BY <1>1
<1> QED BY <1>2 DEF Merged

\* The steps of a response.
Received(g, a, rekeyed) ==
  Morphed([Merged(g, a, rekeyed) EXCEPT !.u = AfterMorph(@, a.w.sel, a.w.stat, online)])
Notified(g, a, key) == IF a.event = NoEvent THEN g ELSE ConfirmStarts(g, a.event, key)
Discarded(g, a) == IF a.dropped /\ a.w.sel # Nothing THEN Forgotten(g, a.w.sel) ELSE g
Released(g, k) == IF g.m.save.phase = "sent" THEN [k EXCEPT !.m.save = NoSave] ELSE k

\* The fields of a response.
LEMMA ResponseParts ==
  ASSUME NEW c \in Contexts, NEW f \in Flights(c), f.status = "answered"
  PROVE  /\ f \in Responses(c) /\ f.w \in Components(c) /\ f.event \in Confirmations(c)
         /\ f.w.sel \in Entities \cup {Nothing} /\ f.w.stat \in Labels
<1>1. f \in Responses(c)
  BY DEF Flights, Requests, NoMessage
<1>2. f.w \in Components(c) /\ f.event \in Confirmations(c)
  BY <1>1 DEF Responses, ResponseFields
<1>3. f.w.sel \in Entities \cup {Nothing} /\ f.w.stat \in {"saved", "unsaved", "error", "conflict"}
  BY <1>2 DEF Components
<1> QED BY <1>1, <1>2, <1>3, StatusLabels

\* A page that has taken over a response.
LEMMA ReceivedView ==
  ASSUME NEW c \in Contexts, NEW g, IsView(g, c), NEW a \in Responses(c), a.w.stat \in Labels,
         NEW rekeyed
  PROVE  IsView(Received(g, a, rekeyed), c) /\ Received(g, a, rekeyed).m.save = g.m.save
<1>1. PICK h : h = Merged(g, a, rekeyed)
  OBVIOUS
<1>2. IsView(h, c) /\ h.m.save = g.m.save
  BY <1>1, MergedView, MergedSave
<1>3. PICK u : u = AfterMorph(h.u, a.w.sel, a.w.stat, online)
  OBVIOUS
<1>4. u \in Statuses
  BY <1>2, <1>3, MemoryOf, ConnectionTypes
<1>5. PICK i : i = [h EXCEPT !.u = u]
  OBVIOUS
<1>6. IsView(i, c) /\ i.m.save = g.m.save
  BY <1>2, <1>4, <1>5, NewU
<1>7. IsView(Morphed(i), c) /\ Morphed(i).m.save = g.m.save
  BY <1>6, MorphedView
<1>8. Received(g, a, rekeyed) = Morphed(i)
  BY <1>1, <1>3, <1>5, Zenon DEF Received
<1> QED BY <1>7, <1>8

\* A page whose save is over.
LEMMA ReleasedView ==
  ASSUME NEW c \in Contexts, NEW g, IsView(g, c), NEW k, IsView(k, c), k.m.save = g.m.save
  PROVE  IsView(Released(g, k), c)
<1>1. CASE g.m.save.phase = "sent"
  <2>1. Idle(k.m)
    BY <1>1, UnderWay
  <2>2. NoSave \in Saves(c)
    BY DEF Saves
  <2>3. WithSave(k, NoSave) \in Views(c) /\ Idle(WithSave(k, NoSave).m)
    BY <2>1, <2>2, MemoryOf, SaveMoved
  <2>4. IsView(WithSave(k, NoSave), c)
    BY <2>3, IdleView
  <2> QED BY <1>1, <2>4 DEF Released, WithSave
<1>2. CASE g.m.save.phase # "sent"
  BY <1>2 DEF Released
<1> QED BY <1>1, <1>2

\* A response arrives.
LEMMA ArrivesStep ==
  ASSUME NEW c \in Contexts, At(c), NEW p \in Pages, Arrives(p)
  PROVE  DInv'
<1>1. PICK g : g = Page(p)
  OBVIOUS
<1>2. PICK a : a = flight[p]
  OBVIOUS
<1>3. PICK rekeyed :
        Becomes(p, Released(g, Discarded(Notified(Received(g, a, rekeyed), a, clock + 1), a)))
  BY <1>1, <1>2, ZenonT(60) DEF Arrives, Released, Discarded, Notified, Received
<1>4. /\ flight' = [flight EXCEPT ![p] = NoMessage]
      /\ clock' = IF a.event = NoEvent THEN clock ELSE clock + 1
      /\ UNCHANGED <<server, db>> /\ a.status = "answered"
  BY <1>2 DEF Arrives, Tick
<1>5. PICK l : l = Later(c, clock + 1)
  OBVIOUS
<1>6. /\ l \in Contexts /\ Grows(c, l) /\ l.now = clock + 1 /\ l.rows = c.rows
      /\ clock \in Nat /\ c.now = clock
  BY <1>5, Ticked
<1>7. PICK m \in Contexts : /\ Grows(c, m) /\ m.now = clock' /\ m.rows = c.rows
                            /\ a.event # NoEvent => clock + 1 \in 1 .. m.now
  <2>1. CASE a.event = NoEvent
    BY <1>4, <1>6, <2>1, SameGrows
  <2>2. CASE a.event # NoEvent
    <3>1. clock + 1 \in 1 .. l.now /\ l.now = clock'
      BY <1>4, <1>6, <2>2
    <3> QED BY <1>6, <3>1
  <2> QED BY <2>1, <2>2
<1>8. IsView(g, m) /\ a \in Flights(m)
  BY <1>1, <1>2, <1>7, PageIs, LaterView, FlightsStay DEF At
<1>9. /\ a \in Responses(m) /\ a.event \in Confirmations(m)
      /\ a.w.sel \in Entities \cup {Nothing} /\ a.w.stat \in Labels
  BY <1>4, <1>7, <1>8, ResponseParts
<1>10. PICK i : i = Received(g, a, rekeyed)
  OBVIOUS
<1>11. IsView(i, m) /\ i.m.save = g.m.save
  BY <1>7, <1>8, <1>9, <1>10, ReceivedView
<1>12. PICK j : j = Notified(i, a, clock + 1)
  OBVIOUS
<1>13. IsView(j, m) /\ j.m.save = g.m.save
  <2>1. CASE a.event = NoEvent
    BY <1>11, <1>12, <2>1 DEF Notified
  <2>2. CASE a.event # NoEvent
    <3>1. /\ IsView(ConfirmStarts(i, a.event, clock + 1), m)
          /\ ConfirmStarts(i, a.event, clock + 1).m.save = i.m.save
      BY <1>7, <1>9, <1>11, <2>2, ConfirmStartsView
    <3> QED BY <1>11, <1>12, <2>2, <3>1 DEF Notified
  <2> QED BY <2>1, <2>2
<1>14. PICK k : k = Discarded(j, a)
  OBVIOUS
<1>15. IsView(k, m) /\ k.m.save = g.m.save
  <2>1. CASE a.dropped /\ a.w.sel # Nothing
    <3>1. IsView(Forgotten(j, a.w.sel), m) /\ Forgotten(j, a.w.sel).m.save = j.m.save
      BY <1>7, <1>9, <1>13, <2>1, ForgottenView
    <3> QED BY <1>13, <1>14, <2>1, <3>1 DEF Discarded
  <2>2. CASE ~ (a.dropped /\ a.w.sel # Nothing)
    <3>1. k = j
      BY <1>14, <2>2, Zenon DEF Discarded
    <3> QED BY <1>13, <3>1
  <2> QED BY <2>1, <2>2
<1>16. PICK r : r = Released(g, k)
  OBVIOUS
<1>17. IsView(r, m)
  BY <1>7, <1>8, <1>15, <1>16, ReleasedView
<1>18. Becomes(p, r)
  BY <1>3, <1>10, <1>12, <1>14, <1>16
<1>19. Store(db', m) /\ flight' \in [Pages -> Flights(m)]
  <2>1. NoMessage \in Flights(m)
    BY DEF Flights
  <2>2. Store(db, m)
    BY <1>7, StoreGrows DEF At
  <2> QED BY <1>4, <1>7, <2>1, <2>2, FlightsStay
<1> QED BY <1>4, <1>7, <1>17, <1>18, <1>19, PageStep

\* A save is entered in the journal.
Rowed(c, t, r) == [c EXCEPT !.now = t, !.rows = @ \cup {r}]

\* What is applied is applied under a UUID handed out before.
LEMMA RowedContext ==
  ASSUME NEW c \in Contexts, NEW t \in Nat, c.now <= t,
         NEW r \in [rid : Nat, e : Entities, ver : Nat], r.rid <= t
  PROVE  /\ Rowed(c, t, r) \in Contexts /\ Grows(c, Rowed(c, t, r)) /\ Rowed(c, t, r).now = t
         /\ Rowed(c, t, r).rows = c.rows \cup {r} /\ Rowed(c, t, r).names = c.names
<1>1. PICK k : k = Later(c, t)
  OBVIOUS
<1>2. k \in Contexts /\ Grows(c, k) /\ k.now = t
  BY <1>1, LaterContext
<1>3. k.rows = c.rows
  BY <1>1 DEF Later, Contexts
<1>4. PICK l : l = [k EXCEPT !.rows = c.rows \cup {r}]
  OBVIOUS
<1>5. /\ l \in [now : Nat, names : SUBSET (Nat \X Nat), born : SUBSET Births,
                rows : SUBSET [rid : Nat, e : Entities, ver : Nat]]
      /\ l.now = t /\ l.names = k.names /\ l.born = k.born /\ l.rows = c.rows \cup {r}
  BY <1>2, <1>3, <1>4 DEF Contexts
<1>6. /\ \A x, i : <<x, i>> \in l.names => x <= l.now
      /\ \A x, i, j : <<x, i>> \in l.names /\ <<x, j>> \in l.names => i = j
      /\ \A b \in l.born :
          /\ b.id <= l.now
          /\ \A x \in l.born : x.id = b.id => x = b
          /\ b.src # 0 => \E x \in l.born : x.id = b.src /\ x.e = b.e
      /\ \A x \in k.rows : x.rid <= l.now
  BY <1>2, <1>5 DEF Contexts
<1>7. \A x \in l.rows : x.rid <= l.now
  BY <1>3, <1>5, <1>6
<1>8. l \in Contexts
  BY <1>5, <1>6, <1>7 DEF Contexts
<1>9. Grows(c, l)
  BY <1>2, <1>5 DEF Grows, Younger
<1>10. l = Rowed(c, t, r)
  BY <1>1, <1>4 DEF Rowed, Later, Contexts
<1>11. l.names = c.names
  BY <1>1, <1>5 DEF Later, Contexts
<1> QED BY <1>5, <1>8, <1>9, <1>10, <1>11

\* The component the server works on.
LEMMA KnownType ==
  ASSUME NEW c \in Contexts, ServerAt(c), NEW w \in Components(c)
  PROVE  /\ Known(w) \in Components(c) /\ Known(w).sel \in Entities \cup {Nothing}
         /\ Known(w).form.pay \in Payloads(c) /\ Known(w).form.files \in SUBSET Nat
         /\ Known(w).form \in Forms(c) /\ Known(w).pend \in 0 .. c.now
         /\ Known(w).form.pay.sol \in Seq(Nat)
<1>1. PICK s \in {"saved", "unsaved", "error", "conflict"} :
        s = IF w.form # w.canon /\ w.stat # "conflict" THEN "unsaved" ELSE w.stat
  BY DEF Components
<1>2. PICK ro \in BOOLEAN : ro = server.shut
  BY ServerFields
<1>3. PICK k : k = [w EXCEPT !.canon = w.form, !.ro = ro, !.stat = s]
  OBVIOUS
<1>4. k \in Components(c)
  BY <1>3 DEF Components
<1>5. Known(w) = k
  BY <1>1, <1>2, <1>3 DEF Known, Components
<1>6. /\ k.sel \in Entities \cup {Nothing} /\ k.form \in Forms(c) /\ k.pend \in 0 .. c.now
  BY <1>4 DEF Components
<1>7. k.form.pay \in Payloads(c) /\ k.form.files \in SUBSET Nat
  BY <1>6 DEF Forms
<1>8. k.form.pay.sol \in Seq(Nat)
  BY <1>7 DEF Payloads
<1> QED BY <1>4, <1>5, <1>6, <1>7, <1>8

\* A component filled again.
LEMMA ReloadedType ==
  ASSUME NEW c \in Contexts, server' \in Servers(c), NEW w \in Components(c),
         NEW e \in Entities \cup {Nothing}
  PROVE  Reloaded(w, e) \in Components(c)
<1>1. PICK f : f = IF e = Nothing THEN NoForm ELSE Form(server'.content[e], {})
  OBVIOUS
<1>2. f \in Forms(c)
  <2>1. server'.content \in [Entities -> Payloads(c)]
    BY DEF Servers
  <2> QED BY <1>1, <2>1, NoPageType DEF Form, Forms
<1>3. Reloaded(w, e) = [w EXCEPT !.sel = e, !.form = f, !.canon = f, !.stat = "saved"]
  BY <1>1 DEF Reloaded
<1> QED BY <1>2, <1>3 DEF Components

\* The next finding is a finding.
LEMMA AfterType ==
  ASSUME NEW e \in Entities \cup {Nothing}
  PROVE  After(e) \in Entities \cup {Nothing}
<1>1. CASE \E i \in DOMAIN Order : Order[i] = e /\ i < Len(Order)
  <2>1. PICK i \in DOMAIN Order : Order[i] = e /\ i < Len(Order)
    BY <1>1
  <2>2. PICK j : j = CHOOSE n \in DOMAIN Order : Order[n] = e
    OBVIOUS
  <2>3. j \in DOMAIN Order /\ Order[j] = e
    BY <2>1, <2>2
  <2>4. j = i
    BY <2>1, <2>3, DraftsAssumption
  <2>5. j + 1 \in DOMAIN Order
    <3>1. DOMAIN Order = 1 .. Len(Order) /\ Len(Order) \in Nat
      BY DraftsAssumption
    <3> QED BY <2>1, <2>4, <3>1
  <2>6. After(e) = Order[j + 1]
    BY <1>1, <2>2 DEF After
  <2> QED BY <2>5, <2>6 DEF Entities
<1>2. CASE ~ \E i \in DOMAIN Order : Order[i] = e /\ i < Len(Order)
  BY <1>2 DEF After
<1> QED BY <1>1, <1>2

\* What the user asked for, carried out.
LEMMA ActedType ==
  ASSUME NEW c \in Contexts, server' \in Servers(c), NEW m \in Requests(c), NEW w \in Components(c),
         clock + 1 \in 0 .. c.now
  PROVE  Acted(m, w) \in Components(c)
<1>1. w.sel \in Entities \cup {Nothing} /\ w.form \in Forms(c)
  BY DEF Components
<1>2. CASE m.kind = "select"
  <2>1. m.arg \in Entities \cup {Nothing}
    BY <1>2 DEF Requests
  <2> QED BY <1>2, <2>1, ReloadedType DEF Acted
<1>3. CASE m.kind = "next"
  BY <1>1, <1>3, AfterType, ReloadedType DEF Acted
<1>4. CASE m.kind = "discard" /\ w.stat = "error" /\ ~ server.shut
  <2>1. PICK v \in Components(c) : v = Reloaded(w, w.sel)
    BY <1>1, ReloadedType
  <2>2. Acted(m, w) = [v EXCEPT !.pend = 0]
    BY <1>4, <2>1 DEF Acted
  <2> QED BY <2>2, NoDraftIsNone DEF Components
<1>5. CASE m.kind = "structure" /\ ~ server.shut
  <2>1. m.arg \in Seq(Nat)
    BY <1>5 DEF Requests
  <2>2. PICK pay : pay = [w.form.pay EXCEPT !.n = clock + 1, !.sol = m.arg]
    OBVIOUS
  <2>3. pay \in Payloads(c)
    <3>1. PICK q \in Payloads(c) : q = w.form.pay
      BY <1>1 DEF Forms
    <3> QED BY <2>1, <2>2, <3>1 DEF Payloads
  <2>4. Acted(m, w) = [w EXCEPT !.form.pay = pay, !.canon.pay = pay]
    BY <1>5, <2>2 DEF Acted
  <2>5. w.canon \in Forms(c)
    BY DEF Components
  <2>6. PICK f \in Forms(c) : f = [w.form EXCEPT !.pay = pay]
    BY <1>1, <2>3 DEF Forms
  <2>7. PICK g \in Forms(c) : g = [w.canon EXCEPT !.pay = pay]
    BY <2>3, <2>5 DEF Forms
  <2>8. Acted(m, w) = [w EXCEPT !.form = f, !.canon = g]
    BY <2>4, <2>6, <2>7
  <2> QED BY <2>8 DEF Components
<1>6. CASE ~ \/ m.kind = "select"
             \/ m.kind = "next"
             \/ m.kind = "discard" /\ w.stat = "error" /\ ~ server.shut
             \/ m.kind = "structure" /\ ~ server.shut
  BY <1>6 DEF Acted
<1> QED BY <1>2, <1>3, <1>4, <1>5, <1>6

\* The message of the page becomes the answer.
LEMMA AnswerType ==
  ASSUME NEW c \in Contexts, flight \in [Pages -> Flights(c)], NEW p \in Pages,
         NEW m \in Requests(c), NEW w \in Components(c), NEW event \in Confirmations(c),
         NEW dropped \in BOOLEAN, Answer(p, m, w, event, dropped),
         event # NoEvent /\ m.w.pend = 0 => Unnamed(event.rid, c)
  PROVE  flight' \in [Pages -> Flights(c)]
<1>1. PICK f : f = IF wire[p].on = "gone" THEN NoMessage
                   ELSE [status |-> "answered", kind |-> m.kind, sent |-> m.w, w |-> w,
                         event |-> event, dropped |-> dropped]
  OBVIOUS
<1>2. m.kind \in {"save", "next", "select", "live", "discard", "structure"} /\ m.w \in Components(c)
  BY DEF Requests
<1>3. f \in Flights(c)
  BY <1>1, <1>2 DEF Flights, Responses, ResponseFields
<1>4. flight' = [flight EXCEPT ![p] = f]
  BY <1>1 DEF Answer
<1> QED BY <1>3, <1>4

\* A payload with its solutions numbered.
LEMMA NumberedType ==
  ASSUME NEW c \in Contexts, NEW pay \in Payloads(c), NEW t \in Nat
  PROVE  Numbered(pay, t) \in Payloads(c)
<1>1. pay.sol \in Seq(Nat)
  BY DEF Payloads
<1>2. PICK s \in Seq(Nat) : s = [i \in DOMAIN pay.sol |-> IF pay.sol[i] = 0 THEN t + i ELSE pay.sol[i]]
  BY <1>1, SeqMap
<1>3. Numbered(pay, t) = [pay EXCEPT !.sol = s]
  BY <1>2 DEF Numbered
<1> QED BY <1>3 DEF Payloads

\* A request is answered.
LEMMA AnswerStep ==
  ASSUME NEW c \in Contexts, At(c), NEW l \in Contexts, Grows(c, l), ServerAt(l)', l.now = clock',
         UNCHANGED <<db, wire, mem, ui>>, NEW p \in Pages, NEW m \in Requests(l),
         NEW w \in Components(l), NEW event \in Confirmations(l), NEW dropped \in BOOLEAN,
         Answer(p, m, w, event, dropped),
         event # NoEvent /\ m.w.pend = 0 => Unnamed(event.rid, l)
  PROVE  DInv'
<1>1. flight' \in [Pages -> Flights(l)]
  <2>1. flight \in [Pages -> Flights(l)]
    BY FlightsStay
  <2> QED BY <2>1, AnswerType
<1>2. PagesAt(l)' /\ Store(db', l)
  BY PagesGrow, StoreGrows DEF At
<1>3. At(l)'
  BY <1>1, <1>2 DEF At
<1> QED BY <1>3 DEF DInv

\* The component after a save.
LEMMA SavedType ==
  ASSUME NEW c \in Contexts, server' \in Servers(c), NEW m \in Requests(c), NEW w \in Components(c),
         clock + 1 \in 0 .. c.now, NEW ver \in Nat
  PROVE  [Acted(m, Reloaded(w, w.sel)) EXCEPT !.ver = ver, !.pend = 0] \in Components(c)
<1>1. w.sel \in Entities \cup {Nothing}
  BY DEF Components
<1>2. PICK k \in Components(c) : k = Reloaded(w, w.sel)
  BY <1>1, ReloadedType
<1>3. PICK a \in Components(c) : a = Acted(m, k)
  BY ActedType
<1>4. [a EXCEPT !.ver = ver, !.pend = 0] \in Components(c)
  BY NoDraftIsNone DEF Components
<1> QED BY <1>2, <1>3, <1>4

\* A save is applied: the journal has one row more, the only one with its UUID.
LEMMA AppliedStep ==
  ASSUME NEW c \in Contexts, ServerAt(c), ~ server.shut, NEW p, NEW w, w.sel \in Entities,
         w.form \in Forms(c), NEW t \in Nat, c.now < t, NEW rid \in 1 .. t,
         \A r \in server.journal : r.rid # rid, NEW l \in Contexts,
         l = Rowed(c, t, [rid |-> rid, e |-> w.sel, ver |-> server.ver + 1]),
         clock \in Nat, Applied(p, w, rid)
  PROVE  /\ l \in Contexts /\ Grows(c, l) /\ l.now = t /\ ServerAt(l)'
         /\ server.ver + 1 \in 1 .. t /\ Applies(rid, w.sel, server.ver + 1, l)
<1>1. /\ server.ver \in Nat \ {0} /\ server.content \in [Entities -> Payloads(c)]
      /\ server.journal \in SUBSET Rows(c) /\ server.shut \in BOOLEAN
      /\ server.taken \in SUBSET Nat /\ server \in Servers(c)
      /\ server.ver <= c.now
  BY ServerFields
<1>2. PICK v \in Nat : v = server.ver + 1
  BY <1>1
<1>3. v \in 1 .. t
  BY <1>1, <1>2 DEF Contexts
<1>4. PICK e \in Entities : e = w.sel
  OBVIOUS
<1>5. PICK row : row = [rid |-> rid, e |-> e, ver |-> v]
  OBVIOUS
<1>6. /\ l = Rowed(c, t, row) /\ Grows(c, l) /\ l.now = t /\ l.rows = c.rows \cup {row}
      /\ row \in [rid : Nat, e : Entities, ver : Nat] /\ row.rid = rid
  <2>1. row \in [rid : Nat, e : Entities, ver : Nat] /\ row.rid = rid /\ row.rid <= t
    BY <1>3, <1>5
  <2>2. l = Rowed(c, t, row)
    BY <1>2, <1>4, <1>5
  <2>3. c.now <= t
    BY DEF Contexts
  <2>4. /\ Grows(c, Rowed(c, t, row)) /\ Rowed(c, t, row).now = t
        /\ Rowed(c, t, row).rows = c.rows \cup {row}
    BY <2>1, <2>3, RowedContext
  <2> QED BY <2>1, <2>2, <2>4
<1>7. Applies(rid, e, v, l)
  <2>1. row \in l.rows /\ row.rid = rid /\ row.e = e /\ row.ver = v
    BY <1>5, <1>6
  <2> QED BY <2>1 DEF Applies
<1>8. PICK pay : pay = Numbered(w.form.pay, clock)
  OBVIOUS
<1>9. pay \in Payloads(l)
  <2>1. PICK f \in Forms(l) : f = w.form
    BY <1>6, PayloadsGrow
  <2>2. PICK q \in Payloads(l) : q = w.form.pay
    BY <2>1 DEF Forms
  <2>3. Numbered(q, clock) \in Payloads(l)
    BY <2>2, NumberedType
  <2> QED BY <1>8, <2>2, <2>3
<1>10. PICK x : x = [rid |-> rid, e |-> e, form |-> w.form, ver |-> v]
  OBVIOUS
<1>11. /\ server' = [server EXCEPT !.ver = v, !.content[e] = pay,
                                  !.taken = server.taken \cup w.form.files,
                                  !.journal = server.journal \cup {x}]
  BY <1>2, <1>4, <1>8, <1>10, Zenon DEF Applied
<1>12. x \in Rows(l) /\ x.rid = rid /\ x.e = e /\ x.ver = v
  <2>1. w.form \in Forms(l)
    BY <1>6, PayloadsGrow
  <2> QED BY <1>3, <1>6, <1>10, <2>1 DEF Rows
<1>13. server \in Servers(l) /\ w.form.files \in SUBSET Nat
  BY <1>1, <1>6, ServersGrow DEF Forms
<1>14. server' \in Servers(l) /\ server'.journal = server.journal \cup {x} /\ server'.ver = v
  <2>1. PICK s \in Servers(l) : s = server
    BY <1>13
  <2>2. v \in Nat \ {0}
    BY <1>3
  <2> QED BY <1>9, <1>11, <1>12, <1>13, <2>1, <2>2 DEF Servers
<1>15. l.rows = RowsOf(server')
  <2>1. c.rows = RowsOf(server)
    BY DEF ServerAt
  <2>2. row = [rid |-> x.rid, e |-> x.e, ver |-> x.ver]
    BY <1>5, <1>12
  <2> QED BY <1>6, <1>14, <2>1, <2>2 DEF RowsOf
<1>16. \A r, s \in server'.journal : r.rid = s.rid => r = s
  BY <1>12, <1>14 DEF ServerAt
<1>17. ServerAt(l)'
  <2>1. v <= l.now
    BY <1>3, <1>6
  <2> QED BY <1>14, <1>15, <1>16, <2>1 DEF ServerAt
<1> QED BY <1>2, <1>3, <1>4, <1>6, <1>7, <1>17

\* The two kinds of answers.
SavedWire(m, w, ver) == [Acted(m, Reloaded(w, w.sel)) EXCEPT !.ver = ver, !.pend = 0]
Confirmation(rid, w, ver) == [rid |-> rid, e |-> w.sel, av |-> ver]
Refused(w, stat) == [w EXCEPT !.stat = stat]

Served(p, m, w, rid) ==
  \/ /\ ~ NeedsSaving(m, w) /\ UNCHANGED server /\ UNCHANGED history
     /\ Answer(p, m, Acted(m, w), NoEvent, m.kind = "discard" /\ w.stat = "error")
  \/ UNCHANGED server /\ UNCHANGED history /\ Answer(p, m, w, NoEvent, FALSE)
  \/ /\ NeedsSaving(m, w) /\ ~ Declined(w)
     /\ Outcome(w, rid) = "applied" /\ Applied(p, w, rid)
     /\ Answer(p, m, SavedWire(m, w, server.ver + 1),
               Confirmation(rid, w, server.ver + 1), FALSE)
  \/ /\ NeedsSaving(m, w) /\ ~ Declined(w) /\ Outcome(w, rid) = "replayed"
     /\ UNCHANGED server /\ UNCHANGED history
     /\ Answer(p, m, SavedWire(m, w, JournalRow(rid).ver),
               Confirmation(rid, w, JournalRow(rid).ver), FALSE)
  \/ /\ UNCHANGED server /\ UNCHANGED history
     /\ \E stat \in {"conflict", "error"} : Answer(p, m, Refused(w, stat), NoEvent, FALSE)

\* What the server can do with a request.
LEMMA ServeCases ==
  ASSUME NEW p \in Pages, Serve(p), NEW m, m = flight[p], NEW w, w = Known(m.w),
         NEW rid, rid = IF w.pend # 0 THEN w.pend ELSE clock + 1
  PROVE  /\ m.status = "sent"
         /\ clock' = clock + (1 + Len(w.form.pay.sol)) /\ UNCHANGED <<db, wire, mem, ui>>
         /\ Served(p, m, w, rid)
BY ZenonT(60) DEF Serve, Tick, Served, SavedWire, Confirmation, Refused

\* A request on its way.
LEMMA RequestOf ==
  ASSUME NEW c \in Contexts, NEW f \in Flights(c), f.status = "sent"
  PROVE  f \in Requests(c) /\ f.w \in Components(c)
<1>1. f # NoMessage /\ f \notin Responses(c)
  BY DEF NoMessage, Responses, ResponseFields
<1>2. f \in Requests(c)
  BY <1>1 DEF Flights
<1> QED BY <1>2 DEF Requests

\* A confirmation tells of a save that was applied.
LEMMA EventOf ==
  ASSUME NEW c \in Contexts, NEW rid \in 1 .. c.now, NEW w, w.sel \in Entities,
         NEW ver \in 1 .. c.now, Applies(rid, w.sel, ver, c)
  PROVE  Confirmation(rid, w, ver) \in Confirmations(c)
<1>1. PICK e \in Entities : e = w.sel
  OBVIOUS
<1>2. PICK x : x = [rid |-> rid, e |-> e, av |-> ver]
  OBVIOUS
<1>3. x \in [rid : 1 .. c.now, e : Entities, av : 1 .. c.now] /\ Applies(x.rid, x.e, x.av, c)
  BY <1>1, <1>2
<1> QED BY <1>1, <1>2, <1>3 DEF Confirmation, Confirmations

\* The component of a refused save.
LEMMA RefusedType ==
  ASSUME NEW c \in Contexts, NEW w \in Components(c), NEW stat \in {"conflict", "error"}
  PROVE  Refused(w, stat) \in Components(c)
BY DEF Refused, Components

\* A replayed save is answered with the version it was applied with.
LEMMA ReplayedRow ==
  ASSUME NEW c \in Contexts, ServerAt(c), NEW w, NEW rid, Outcome(w, rid) = "replayed"
  PROVE  JournalRow(rid).ver \in 1 .. c.now /\ Applies(rid, w.sel, JournalRow(rid).ver, c)
<1>1. PICK r \in server.journal : r.rid = rid /\ r.e = w.sel
  BY DEF Outcome
<1>2. PICK j : j = JournalRow(rid)
  OBVIOUS
<1>3. j \in server.journal /\ j.rid = rid
  BY <1>1, <1>2 DEF JournalRow
<1>4. j = r
  BY <1>1, <1>3 DEF ServerAt
<1>5. j \in Rows(c)
  BY <1>3, ServerFields
<1>6. PICK x : x = [rid |-> j.rid, e |-> j.e, ver |-> j.ver]
  OBVIOUS
<1>7. x \in c.rows
  BY <1>3, <1>6 DEF ServerAt, RowsOf
<1>8. x.rid = rid /\ x.e = w.sel /\ x.ver = j.ver
  BY <1>1, <1>3, <1>4, <1>6
<1>9. Applies(rid, w.sel, j.ver, c)
  BY <1>7, <1>8 DEF Applies
<1>10. j.ver \in 1 .. c.now
  BY <1>5 DEF Rows
<1> QED BY <1>2, <1>9, <1>10

\* The server handles a request.
LEMMA ServeStep ==
  ASSUME NEW c \in Contexts, At(c), NEW p \in Pages, Serve(p)
  PROVE  DInv'
<1>1. PICK m : m = flight[p]
  OBVIOUS
<1>2. PICK w : w = Known(m.w)
  OBVIOUS
<1>3. PICK rid : rid = IF w.pend # 0 THEN w.pend ELSE clock + 1
  OBVIOUS
<1>4. m.status = "sent"
  BY <1>1, <1>2, <1>3, ServeCases
<1>5. m \in Requests(c) /\ m.w \in Components(c)
  BY <1>1, <1>4, RequestOf DEF At
<1>6. /\ w \in Components(c) /\ w.sel \in Entities \cup {Nothing} /\ w.form \in Forms(c)
      /\ w.pend \in 0 .. c.now /\ w.form.pay.sol \in Seq(Nat)
  BY <1>2, <1>5, KnownType DEF At
<1>7. PICK n \in Nat \ {0} : n = 1 + Len(w.form.pay.sol)
  BY <1>6
<1>8. clock' = clock + n /\ UNCHANGED <<db, wire, mem, ui>> /\ Served(p, m, w, rid)
  BY <1>1, <1>2, <1>3, <1>7, ServeCases
<1>9. PICK l : l = Later(c, clock + n)
  OBVIOUS
<1>10. /\ l \in Contexts /\ Grows(c, l) /\ l.now = clock + n /\ l.rows = c.rows
       /\ clock \in Nat /\ c.now = clock
  BY <1>9, Ticked
<1>11. /\ clock + 1 \in 0 .. l.now /\ rid \in 1 .. l.now /\ c.now \in Nat /\ l.now \in Nat
       /\ c.now < l.now
  <2>1. n \in Nat /\ n >= 1 /\ clock \in Nat /\ l.now = clock + n /\ c.now = clock
    BY <1>7, <1>10
  <2>2. w.pend \in 0 .. clock
    BY <1>6, <2>1
  <2>3. rid \in 1 .. clock + 1
    BY <1>3, <2>1, <2>2
  <2> QED BY <2>1, <2>3
<1>12. ASSUME NEW k \in Contexts, Grows(c, k)
       PROVE  m \in Requests(k) /\ w \in Components(k)
  <2>1. m \in Flights(k)
    BY <1>1, <1>12, FlightsGrow DEF At
  <2> QED BY <1>4, <1>6, <1>12, <2>1, RequestOf, ComponentsGrow
<1>13. UNCHANGED server => ServerAt(l)' /\ server' \in Servers(l)
  BY <1>10, ServerStays DEF At, ServerAt
<1>14. NoEvent \in Confirmations(l)
  BY DEF Confirmations
<1>20. ASSUME m.w.pend = 0, NEW k \in Contexts, k.names = c.names
       PROVE  Unnamed(rid, k)
  <2>1. w.pend = 0
    BY <1>2, <1>20 DEF Known, Components
  <2>2. rid = clock + 1 /\ c.now = clock /\ clock \in Nat
    BY <1>3, <1>10, <2>1
  <2>3. \A i : <<rid, i>> \notin c.names
    BY <2>2 DEF Contexts
  <2> QED BY <1>20, <2>3 DEF Unnamed
<1>15. CASE UNCHANGED server
            /\ Answer(p, m, Acted(m, w), NoEvent, m.kind = "discard" /\ w.stat = "error")
  <2>1. PICK dropped \in BOOLEAN : dropped = (m.kind = "discard" /\ w.stat = "error")
    BY Zenon
  <2>2. PICK k \in Components(l) : k = Acted(m, w)
    BY <1>10, <1>11, <1>12, <1>13, <1>15, ActedType
  <2>3. Answer(p, m, k, NoEvent, dropped)
    BY <1>15, <2>1, <2>2, Zenon
  <2> QED BY <1>8, <1>10, <1>12, <1>13, <1>14, <1>15, <2>3, AnswerStep
<1>16. CASE UNCHANGED server /\ Answer(p, m, w, NoEvent, FALSE)
  BY <1>8, <1>10, <1>12, <1>13, <1>14, <1>16, AnswerStep
<1>17. CASE /\ ~ Declined(w) /\ Outcome(w, rid) = "applied" /\ Applied(p, w, rid)
            /\ Answer(p, m, SavedWire(m, w, server.ver + 1),
                      Confirmation(rid, w, server.ver + 1), FALSE)
  <2>1. w.sel \in Entities /\ ~ server.shut
    BY <1>6, <1>17 DEF Declined
  <2>2. \A r \in server.journal : r.rid # rid
    BY <1>17 DEF Outcome
  <2>3. PICK t \in Nat : t = clock + n
    BY <1>10
  <2>4. PICK k : k = Rowed(c, t, [rid |-> rid, e |-> w.sel, ver |-> server.ver + 1])
    OBVIOUS
  <2>5. PICK ver : ver = server.ver + 1
    OBVIOUS
  <2>6. k \in Contexts
    <3>1. PICK row : row = [rid |-> rid, e |-> w.sel, ver |-> server.ver + 1]
      OBVIOUS
    <3>2. server.ver \in Nat
      BY ServerFields DEF At
    <3>3. row \in [rid : Nat, e : Entities, ver : Nat] /\ row.rid <= t
      BY <1>10, <1>11, <2>1, <2>3, <3>1, <3>2
    <3>4. c.now <= t
      BY <1>10, <1>11, <2>3
    <3>5. Rowed(c, t, row) \in Contexts
      BY <3>3, <3>4, RowedContext
    <3> QED BY <2>4, <3>1, <3>5
  <2>7. /\ Grows(c, k) /\ k.now = t /\ ServerAt(k)' /\ k.names = c.names
        /\ ver \in 1 .. t /\ Applies(rid, w.sel, ver, k)
    <3>1. c.now < t /\ rid \in 1 .. t
      BY <1>10, <1>11, <2>3
    <3>2. ServerAt(c)
      BY DEF At
    <3>3. k.names = c.names
      BY <2>4 DEF Rowed, Contexts
    <3> QED BY <1>6, <1>10, <1>17, <2>1, <2>2, <2>4, <2>5, <2>6, <3>1, <3>2, <3>3, AppliedStep
  <2>8. /\ server' \in Servers(k) /\ m \in Requests(k) /\ w \in Components(k)
        /\ clock + 1 \in 0 .. k.now /\ rid \in 1 .. k.now /\ ver \in 1 .. k.now
        /\ k.now = clock'
    <3>1. server' \in Servers(k)
      BY <2>7 DEF ServerAt
    <3> QED BY <1>8, <1>10, <1>11, <1>12, <2>3, <2>6, <2>7, <3>1
  <2>9. PICK a \in Components(k) : a = SavedWire(m, w, ver)
    <3>1. ver \in Nat
      BY <2>8
    <3> QED BY <2>6, <2>8, <3>1, SavedType DEF SavedWire
  <2>10. PICK x \in Confirmations(k) : x = Confirmation(rid, w, ver)
    BY <2>1, <2>6, <2>7, <2>8, EventOf
  <2>11. Answer(p, m, a, x, FALSE)
    BY <1>17, <2>5, <2>9, <2>10
  <2>12. m.w.pend = 0 => Unnamed(x.rid, k)
    BY <1>20, <2>6, <2>7, <2>10 DEF Confirmation
  <2> QED BY <1>8, <2>6, <2>7, <2>8, <2>11, <2>12, AnswerStep
<1>18. CASE /\ ~ Declined(w) /\ Outcome(w, rid) = "replayed" /\ UNCHANGED server
            /\ Answer(p, m, SavedWire(m, w, JournalRow(rid).ver),
                      Confirmation(rid, w, JournalRow(rid).ver), FALSE)
  <2>1. w.sel \in Entities
    BY <1>6, <1>18 DEF Declined
  <2>2. PICK ver : ver = JournalRow(rid).ver
    OBVIOUS
  <2>3. ver \in 1 .. c.now /\ Applies(rid, w.sel, ver, c)
    BY <1>18, <2>2, ReplayedRow DEF At
  <2>4. ver \in 1 .. l.now /\ Applies(rid, w.sel, ver, l)
    BY <1>10, <1>11, <2>3 DEF Applies
  <2>5. PICK a \in Components(l) : a = SavedWire(m, w, ver)
    <3>1. ver \in Nat
      BY <2>4
    <3> QED BY <1>10, <1>11, <1>12, <1>13, <1>18, <3>1, SavedType DEF SavedWire
  <2>6. PICK x \in Confirmations(l) : x = Confirmation(rid, w, ver)
    BY <1>10, <1>11, <2>1, <2>4, EventOf
  <2>7. Answer(p, m, a, x, FALSE)
    BY <1>18, <2>2, <2>5, <2>6
  <2>8. m.w.pend = 0 => Unnamed(x.rid, l)
    <3>1. l.names = c.names
      BY <1>9 DEF Later, Contexts
    <3> QED BY <1>10, <1>20, <2>6, <3>1 DEF Confirmation
  <2> QED BY <1>8, <1>10, <1>12, <1>13, <1>18, <2>7, <2>8, AnswerStep
<1>19. CASE UNCHANGED server
            /\ \E stat \in {"conflict", "error"} : Answer(p, m, Refused(w, stat), NoEvent, FALSE)
  <2>1. PICK stat \in {"conflict", "error"} : Answer(p, m, Refused(w, stat), NoEvent, FALSE)
    BY <1>19
  <2>2. PICK k \in Components(l) : k = Refused(w, stat)
    BY <1>10, <1>12, RefusedType
  <2>3. Answer(p, m, k, NoEvent, FALSE)
    BY <2>1, <2>2
  <2> QED BY <1>8, <1>10, <1>12, <1>13, <1>14, <1>19, <2>3, AnswerStep
<1> QED BY <1>8, <1>15, <1>16, <1>17, <1>18, <1>19, Zenon DEF Served

-----------------------------------------------------------------------------
(* The theorems *)

\* At the start nothing has been handed out.
LEMMA StartsRight ==
  ASSUME Init
  PROVE  DInv
<1>1. PICK c : c = [now |-> 1, names |-> {}, born |-> {}, rows |-> {}]
  OBVIOUS
<1>2. c \in Contexts /\ c.now = 1 /\ c.rows = {}
  BY <1>1 DEF Contexts
<1>3. server \in Servers(c)
  <2>1. \A e \in Entities : InitialContent(e) \in Payloads(c)
    <3>1. <<1>> \in Seq(Nat)
      OBVIOUS
    <3> QED BY <1>2, <3>1 DEF InitialContent, Payload, Payloads
  <2>2. PICK f \in [Entities -> Payloads(c)] : f = [e \in Entities |-> InitialContent(e)]
    BY <2>1
  <2>3. server = [ver |-> 1, content |-> f, journal |-> {}, shut |-> FALSE, taken |-> {}]
    BY <2>2 DEF Init, InitialServer
  <2> QED BY <2>3 DEF Servers
<1>4. ServerAt(c)
  <2>1. server.journal = {} /\ server.ver = 1
    BY DEF Init, InitialServer
  <2> QED BY <1>2, <1>3, <2>1 DEF ServerAt, RowsOf
<1>5. PagesAt(c)
  BY <1>2, NoPageType, FreshMemoryType, NewStatusType DEF Init, PagesAt
<1>6. flight \in [Pages -> Flights(c)]
  BY DEF Init, Flights
<1>7. Store(db, c)
  BY DEF Init, Store
<1>8. At(c)
  BY <1>2, <1>4, <1>5, <1>6, <1>7 DEF At, Init
<1> QED BY <1>2, <1>8 DEF DInv

\* Every step leaves a context in which everything is sound.
LEMMA StaysRight ==
  ASSUME DInv, [Next]_vars
  PROVE  DInv'
<1>1. PICK c \in Contexts : At(c)
  BY DEF DInv
<1>2. CASE UNCHANGED vars
  BY <1>1, <1>2, FlightStep, SameGrows, PagesGrow, ServerStays DEF vars, At, DInv
<1>3. ASSUME NEW p \in Pages, User(p)
      PROVE  DInv'
  <2>1. CASE Open(p) \/ Leave(p) \/ Type(p) \/ Attach(p)
    BY <1>1, <2>1, OpenStep, LeaveStep, TypeStep, AttachStep
  <2>2. ASSUME NEW how \in Intercepted, SaveStarts(p, how)
        PROVE  DInv'
    BY <1>1, <2>2, SaveStartsStep
  <2>3. CASE Close(p) \/ Report(p) \/ Discard(p) \/ \E e \in Entities : Select(p, e)
    BY <1>1, <2>3, RequestStep
  <2>4. ASSUME NEW sol \in Lists(wire[p].form.pay.sol), Restructure(p, sol)
        PROVE  DInv'
    BY <1>1, <2>4, RestructureStep
  <2>5. CASE Restore(p) \/ Drop(p)
    BY <1>1, <2>5, RestoreStep, DropStep
  <2> QED BY <1>3, <2>1, <2>2, <2>3, <2>4, <2>5, Zenon DEF User
<1>4. ASSUME NEW p \in Pages, Script(p)
      PROVE  DInv'
  <2>1. ASSUME NEW e \in Entities, TimerFires(p, e) \/ JobReads(p, e) \/ JobWrites(p, e)
        PROVE  DInv'
    BY <1>1, <2>1, TimerStep, JobReadsStep, JobWritesStep
  <2>2. ASSUME NEW task \in mem[p].conf,
               ConfirmReads(p, task) \/ ConfirmMarks(p, task) \/ ConfirmEnds(p, task)
        PROVE  DInv'
    BY <1>1, <2>2, ConfirmReadsStep, ConfirmMarksStep, ConfirmEndsStep
  <2>3. CASE RecoveryReads(p) \/ RecoveryEnds(p) \/ DropEnds(p) \/ SaveLeaves(p)
    BY <1>1, <2>3, RecoveryReadsStep, RecoveryEndsStep, DropEndsStep, SaveLeavesStep
  <2> QED BY <1>4, <2>1, <2>2, <2>3, Zenon DEF Script
<1>5. ASSUME NEW p \in Pages, Breakdown(p)
      PROVE  DInv'
  <2>1. ASSUME NEW e \in Entities, JobFails(p, e)
        PROVE  DInv'
    BY <1>1, <2>1, JobFailsStep
  <2>2. ASSUME NEW task \in mem[p].conf, ConfirmFails(p, task)
        PROVE  DInv'
    BY <1>1, <2>2, ConfirmFailsStep
  <2>3. CASE RecoveryFails(p) \/ DropFails(p)
    BY <1>1, <2>3, RecoveryFailsStep, DropFailsStep
  <2> QED BY <1>5, <2>1, <2>2, <2>3, Zenon DEF Breakdown
<1>6. ASSUME NEW p \in Pages, Network(p)
      PROVE  DInv'
  BY <1>1, <1>6, ServeStep, ArrivesStep, LostStep DEF Network
<1>7. ASSUME NEW e \in Entities, ForeignSave(e)
      PROVE  DInv'
  BY <1>1, <1>7, ForeignSaveStep
<1>8. CASE Finish
  BY <1>1, <1>8, FinishStep
<1>9. CASE Disconnect \/ Reconnect
  BY <1>1, <1>9, ConnectionStep
<1> QED BY <1>2, <1>3, <1>4, <1>5, <1>6, <1>7, <1>8, <1>9, Zenon DEF Next

\* In every state all that is stored, remembered or on its way fits what was handed out.
LEMMA DraftsSound == Spec => []DInv
<1>1. Init => DInv
  BY StartsRight
<1>2. DInv /\ [Next]_vars => DInv'
  BY StaysRight
<1> QED BY <1>1, <1>2, PTL DEF Spec

\* The variables keep their values: a draft's identifier names one record, its
\* UUIDs and times were handed out before, its page and finding exist, and the
\* status line shows one of its labels (persistCurrentDraftUnlocked, showSaveStatus).
THEOREM DTypeCorrect == Spec => []DTypeOK
<1>1. DInv => DTypeOK
  <2> SUFFICES ASSUME DInv PROVE DTypeOK
    OBVIOUS
  <2>1. PICK c \in Contexts : At(c)
    BY DEF DInv
  <2>2. server.ver \in Nat /\ DOMAIN server.content = Entities
    <3>1. server.ver \in Nat \ {0} /\ server.content \in [Entities -> Payloads(c)]
      BY <2>1, ServerFields DEF At
    <3> QED BY <3>1
  <2>3. ASSUME NEW d \in db
        PROVE  /\ d.e \in Entities /\ d.tab \in Pages
               /\ {d.id, d.req, d.at} \subseteq 1 .. clock
               /\ {d.att, d.src, d.confirmed} \subseteq 0 .. clock
               /\ \A x \in db : x.id = d.id => x = d
    <3>1. d \in DraftFields(c) /\ c.now = clock
      BY <2>1, LegitFields DEF At, Store
    <3>2. \A x \in db : x.id = d.id => x = d
      BY <2>1 DEF At, Store
    <3> QED BY <3>1, <3>2 DEF DraftFields
  <2>4. ASSUME NEW p \in Pages
        PROVE  /\ wire[p].sel \in Entities \cup {Nothing}
               /\ ui[p].label \in Labels
               /\ ui[p].st \in [Entities -> EntityStates]
    <3>1. wire[p] \in Components(c) /\ ui[p] \in Statuses
      BY <2>1, PageIs DEF At
    <3> QED BY <3>1 DEF Components, Statuses
  <2> QED BY <2>2, <2>3, <2>4 DEF DTypeOK
<1> QED BY <1>1, DraftsSound, PTL

\* Two drafts never share a request UUID, so a confirmation is about one of them:
\* a draft that is written again gets a new one, a copy in another tab gets its
\* own, and a job that has read and not yet written gives none away
\* (persistCurrentDraftUnlocked, restoreDisplayedDraft, handleServerConfirmation).
THEOREM UuidsAreUnique == Spec => []UuidNamesOneDraft
<1>1. DInv => UuidNamesOneDraft
  <2> SUFFICES ASSUME DInv, NEW d1 \in db, NEW d2 \in db, d1.req = d2.req
               PROVE  d1 = d2
    BY DEF UuidNamesOneDraft
  <2>1. PICK c \in Contexts : At(c)
    BY DEF DInv
  <2>2. <<d1.req, d1.id>> \in c.names /\ <<d2.req, d2.id>> \in c.names
    BY <2>1 DEF At, Store, Drafts, Legit
  <2>3. d1.id = d2.id
    BY <2>2 DEF Contexts
  <2> QED BY <2>1, <2>3 DEF At, Store
<1> QED BY <1>1, DraftsSound, PTL

\* A draft marked as confirmed was overtaken by a save of its finding, the one
\* whose version it is marked with: late, repeated and crossing confirmations
\* mark no draft that no save has overtaken (handleServerConfirmation).
THEOREM MarksAreTrue == Spec => []ConfirmedDraftsAreOvertaken
<1>1. DInv => ConfirmedDraftsAreOvertaken
  <2> SUFFICES ASSUME DInv, NEW d \in db, d.confirmed # 0
               PROVE  \E r \in server.journal :
                        r.e = d.e /\ r.ver = d.confirmed /\ (r.rid > d.pay.n \/ d.req > r.rid)
    BY DEF ConfirmedDraftsAreOvertaken
  <2>1. PICK c \in Contexts : At(c)
    BY DEF DInv
  <2>2. OvertakenAt(d, c)
    BY <2>1 DEF At, Store, Drafts, Legit
  <2>3. PICK r \in RowsOf(server) :
          r.e = d.e /\ r.ver = d.confirmed /\ (r.rid > d.pay.n \/ d.req > r.rid)
    BY <2>1, <2>2 DEF OvertakenAt, At, ServerAt
  <2>4. PICK s \in server.journal : r = [rid |-> s.rid, e |-> s.e, ver |-> s.ver]
    BY DEF RowsOf
  <2> QED BY <2>3, <2>4
<1> QED BY <1>1, DraftsSound, PTL
=============================================================================
