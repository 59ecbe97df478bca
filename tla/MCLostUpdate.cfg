SPECIFICATION WSpec
CONSTANTS
  f1 = f1
  f2 = f2
  Tabs = {t1, t2}
  Nothing = nothing
  MaxStamp = 1
  LastVersion = 3
  MaxFaults = 0
  Offered = {"save_finding", "delete"}
  Workers = {w1}
  Findings = {f1, f2}
  InitialFindings <- MCTwo
  Details = details
  Keys <- MCKeys
  NoKey = 0
  Payloads <- MCPayloads
  Blank = 0
  NoWorker = noworker
  Orphan = orphan
  MaxVersion = 9
SYMMETRY MCSymmetry
PROPERTIES NoLostUpdate
