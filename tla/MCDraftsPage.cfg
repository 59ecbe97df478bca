SPECIFICATION Spec
CONSTANTS
  p1 = p1
  p2 = p2
  f1 = f1
  f2 = f2
  Pages = {p1}
  Order <- TwoFindings
  Entries = {f1}
  Nothing = Nothing
  Happens <- PageHappens
  Budget <- PageBudget
INVARIANTS
  DTypeOK
  SettledEditsAreSafe
  EvidenceIsGuarded
PROPERTIES
  DraftsRemovedOnlyWhenSafe
  DirtyFormIsSavedFirst
CHECK_DEADLOCK FALSE
