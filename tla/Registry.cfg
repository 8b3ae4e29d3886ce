SPECIFICATION FairSpec
CONSTANTS
  Threads = {t1, t2}
  Names = {a, b}
  Disciplines = {TRUE, FALSE}
  NoThread = NoThread
  MaxCalls <- SomeCalls
  MaxUpdates <- SomeUpdates
INVARIANTS
  TypeOK
  OneCreatePerName
  HandlesRegistered
  ScrapeComplete
  ScrapeNotTorn
  ResetComplete
PROPERTY CallsReturn
