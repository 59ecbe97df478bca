SPECIFICATION LaterSpec
CONSTANTS
  Files = {f1}
  Operations = {o1}
  MaxFaults = 1
  Days = {0, 1}
  Week <- WeekOf
  Month <- MonthOf
  DailyLimit = 1
  WeeklyLimit = 2
  MonthlyLimit = 1
  Savers = {b1, b2}
  Restorer = Restorer
  MaxArchive = 3
SYMMETRY Symmetric
INVARIANTS
  BTypeOK
  ArchivesAreComplete
  PriorDataAreKept
  GenerationsAreKept
PROPERTIES
  RestoresAreWhole
CHECK_DEADLOCK FALSE
