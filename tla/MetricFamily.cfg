SPECIFICATION FairSpec
CONSTANTS
  Threads = {t1, t2}
  Labels = {a, b}
  Disciplines = {TRUE, FALSE}
  NoThread = NoThread
  NoLabels = NoLabels
  MaxCalls <- SomeCalls
  MaxUpdates = 1
INVARIANTS
  TypeOK
  GetStable
  AddedIsFound
  ScrapeWhole
  ResetComplete
PROPERTY CallsReturn
