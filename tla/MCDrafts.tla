------------------------------ MODULE MCDrafts -----------------------------
EXTENDS WorkspaceDrafts

CONSTANTS p1, p2, f1, f2

OneFinding == <<f1>>
TwoFindings == <<f1, f2>>

\* What may happen to p1, to p2, and under Nothing to the server.
Kinds(first, second, outside) ==
  [p \in Pages \cup {Nothing} |->
     IF p = Nothing THEN outside ELSE IF p = p1 THEN first ELSE second]

PageHappens ==
  Kinds({"type", "attach", "save", "select", "discard", "invalid", "loss",
         "breakdown"}, {}, {})
PageBudget == [p \in Pages \cup {Nothing} |-> IF p = Nothing THEN 0 ELSE 3]

LiveHappens ==
  Kinds({"type", "next", "structure", "live", "close", "loss", "breakdown", "leave"}, {},
        {"offline", "finish", "foreign"})
LiveBudget == [p \in Pages \cup {Nothing} |-> IF p = Nothing THEN 1 ELSE 2]

RecoveryHappens ==
  Kinds({"type"}, {"save", "restore", "drop", "breakdown"}, {})
RecoveryBudget == [p \in Pages \cup {Nothing} |-> IF p = p2 THEN 2 ELSE 1]

\* The recovery run starts where p1 has been opened, its finding edited and
\* the edit stored, and perhaps another user has saved the finding since: the
\* states that Open, Type, TimerFires, JobReads, JobWrites, RecoveryReads and
\* RecoveryEnds of p1, and ForeignSave, lead to.
Edited == Payload(f1, 2, <<1>>)
SavedByOthers == Payload(f1, 4, <<1>>)

RecoveryInit ==
  /\ \/ /\ server = InitialServer
        /\ history = InitialHistory
        /\ clock = 3
     \/ /\ server = [InitialServer EXCEPT !.ver = 2, !.content[f1] = SavedByOthers]
        /\ history = [InitialHistory EXCEPT
             !.held = @ \cup {[tab |-> Nothing, pay |-> SavedByOthers, ver |-> 2]}]
        /\ clock = 4
  /\ db = {NewDraft(p1, f1, Edited, 1, 3)}
  /\ wire = [p \in Pages |->
       IF p = p1
       THEN [Filled([NoPage EXCEPT !.on = "open", !.ver = 1], f1) EXCEPT !.form.pay = Edited]
       ELSE NoPage]
  /\ mem = [p \in Pages |->
       IF p = p1 THEN [FreshMemory EXCEPT !.rev[f1] = 1, !.active[f1] = 3] ELSE FreshMemory]
  /\ ui = [p \in Pages |->
       LET u == NewStatus(Entities, "saved") IN
       IF p = p1 THEN OnPersisted(OnInput(u, f1, FALSE, TRUE), f1, FALSE, FALSE, f1, TRUE)
       ELSE u]
  /\ flight = [p \in Pages |-> NoMessage]
  /\ online = TRUE
  /\ spent = [p \in Pages \cup {Nothing} |-> 0]

RecoverySpec == RecoveryInit /\ [][Next]_vars
=============================================================================
