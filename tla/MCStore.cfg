SPECIFICATION Spec
CONSTANTS
  f1 = f1
  Workers = {w1, w2}
  Findings = {f1, f2, f3}
  InitialFindings <- MCOne
  Details = details
  Keys = {k1, k2}
  NoKey = nokey
  Payloads = {p1}
  Blank = blank
  NoWorker = noworker
  Orphan = orphan
  MaxVersion = 2
SYMMETRY MCSymmetry
INVARIANTS TypeOK SortContiguous AppliedOnce JournalTruthful PlansAreCurrent
PROPERTIES FindingsFrozenWhileClosed ImplementsDocument
