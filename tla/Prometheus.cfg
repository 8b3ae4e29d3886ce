SPECIFICATION FairSpec
CONSTANTS
  t1 = t1
  t2 = t2
  t3 = t3
  aCounter = aCounter
  aGauge = aGauge
  aSummary = aSummary
  counters = counters
  gauges = gauges
  summaries = summaries
  Threads = {t1, t2, t3}
  Counters = {aCounter}
  Gauges = {aGauge}
  Summaries = {aSummary}
  Families = {counters, gauges, summaries}
  Metrics <- SomeMetrics
  Orders <- SomeOrders
  Programs <- SomePrograms
  Registry = Registry
  NoThread = NoThread
  NaN = NaN
  Amounts <- SomeAmounts
  MaxUpdates <- SomeUpdates
INVARIANTS
  TypeOK
  ScrapeNotTorn
  SummaryLinesAgree
  ResetForgets
  GaugeFollowsUses
PROPERTIES
  CallsReturn
  CounterOnlyRises
