------------------------ MODULE AssessmentDocument ------------------------
(***************************************************************************)
(* What the server promises about one assessment, with the requests, the   *)
(* lock, the journal and the transactions left out: a document that        *)
(* changes one operation at a time, counts every operation in its version, *)
(* and is closed to operations while it is completed or archived.          *)
(*                                                                         *)
(* The "general data" edit form of the admin panel is part of the promise  *)
(* only in what it leaves alone: Amend rewrites the details, and the       *)
(* status with what the form was filled with, in any status and without    *)
(* counting.  AssessmentStore implements this specification.               *)
(***************************************************************************)
EXTENDS Naturals, Sequences

CONSTANTS
  Findings,         \* identifiers of finding rows
  InitialFindings,  \* the findings of the assessment when it is first seen, a sequence
  Details,          \* the unit of the assessment's own fields
  Payloads,         \* contents a form can submit
  Blank             \* the content of a row nobody has filled in

VARIABLES
  version,          \* number of operations applied
  status,           \* "draft", "completed" or "archived"
  order,            \* the findings in display order
  content           \* unit -> what it holds; Blank for a finding out of the order

docVars == <<version, status, order, content>>

Elements(s) == {s[i] : i \in DOMAIN s}

Counted == version' = version + 1

Init ==
  /\ version = 0
  /\ status = "draft"
  /\ order = InitialFindings
  /\ content = [u \in Findings \cup {Details} |-> Blank]

Edit(u, p) ==
  /\ status = "draft"
  /\ u \in Elements(order) \cup {Details}
  /\ content' = [content EXCEPT ![u] = p]
  /\ Counted
  /\ UNCHANGED <<status, order>>

Add(f, p) ==
  /\ status = "draft"
  /\ f \notin Elements(order)
  /\ order' = Append(order, f)
  /\ content' = [content EXCEPT ![f] = p]
  /\ Counted
  /\ UNCHANGED status

\* A duplicate holds what its source holds at that moment.
Copy(f, g) ==
  /\ g \in Elements(order)
  /\ Add(f, content[g])

\* The findings behind the one that leaves move up.
Remove(f) ==
  /\ status = "draft"
  /\ \E i \in DOMAIN order :
       /\ order[i] = f
       /\ order' = SubSeq(order, 1, i - 1) \o SubSeq(order, i + 1, Len(order))
  /\ content' = [content EXCEPT ![f] = Blank]
  /\ Counted
  /\ UNCHANGED status

Arrange(o) ==
  /\ status = "draft"
  /\ Elements(o) = Elements(order)
  /\ order' = o
  /\ Counted
  /\ UNCHANGED <<status, content>>

Move(from, to) ==
  /\ status \in from
  /\ status' = to
  /\ Counted
  /\ UNCHANGED <<order, content>>

Amend(p, s) ==
  /\ content' = [content EXCEPT ![Details] = p]
  /\ status' = s
  /\ UNCHANGED <<version, order>>

Next ==
  \/ \E u \in Findings \cup {Details}, p \in Payloads : Edit(u, p)
  \/ \E f \in Findings, p \in Payloads \cup {Blank} : Add(f, p)
  \/ \E f, g \in Findings : Copy(f, g)
  \/ \E f \in Findings : Remove(f)
  \/ \E o \in [DOMAIN order -> Elements(order)] : Arrange(o)
  \/ Move({"draft"}, "completed")
  \/ Move({"draft", "completed"}, "archived")
  \/ Move({"completed", "archived"}, "draft")
  \/ \E p \in Payloads, s \in {"draft", "completed", "archived"} : Amend(p, s)

Spec == Init /\ [][Next]_docVars
=============================================================================
