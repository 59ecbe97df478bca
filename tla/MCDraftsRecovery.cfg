SPECIFICATION RecoverySpec
CONSTANTS
  p1 = p1
  p2 = p2
  f1 = f1
  f2 = f2
  Pages = {p1, p2}
  Order <- OneFinding
  Entries = {f1}
  Nothing = Nothing
  Happens <- RecoveryHappens
  Budget <- RecoveryBudget
INVARIANTS
  UuidNamesOneDraft
  ConfirmedDraftsAreOvertaken
  StaleIsFlagged
PROPERTIES
  DraftsRemovedOnlyWhenSafe
CHECK_DEADLOCK FALSE
