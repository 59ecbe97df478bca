SPECIFICATION Spec
CONSTANTS
  p1 = p1
  p2 = p2
  f1 = f1
  f2 = f2
  Pages = {p1}
  Order <- OneFinding
  Entries = {f1}
  Nothing = Nothing
  Happens <- LiveHappens
  Budget <- LiveBudget
PROPERTIES
  SavesEnd
  EditsAreStored
  ConfirmedDraftsLeave
CHECK_DEADLOCK FALSE
