SPECIFICATION FairSpec
CONSTANTS
  Observers = {o1, o2}
  Scrapers = {s1}
  Resetters = {r1}
  Values = {1, 3}
  NonFinite = NonFinite
  Quantiles <- UnorderedQuantiles
  MaxObservations = 2
  NoThread = NoThread
  MaxCalls = 4
INVARIANTS
  TypeOK
  WindowBounded
  CountCoversWindow
  SnapshotIsWindow
  CountExact
  SumExact
  ReportOrdered
PROPERTIES
  ImplementsWindow
  CallsReturn
