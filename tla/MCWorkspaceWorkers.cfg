SPECIFICATION WFairSpec
CONSTANTS
  f1 = f1
  f2 = f2
  Tabs = {t1, t2}
  Nothing = nothing
  MaxStamp = 0
  LastVersion = 1
  MaxFaults = 1
  Offered = {"delete", "complete", "save_finding"}
  Workers = {w1, w2}
  Findings = {f1}
  InitialFindings <- MCOne
  Details = details
  Keys <- MCKeys
  NoKey = 0
  Payloads <- MCPayloads
  Blank = 0
  NoWorker = noworker
  Orphan = orphan
  MaxVersion = 9
PROPERTIES UsesStore TabsAreAnswered CallsEnd
