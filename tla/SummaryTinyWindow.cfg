SPECIFICATION Spec
CONSTANTS
  Observers = {o1}
  Scrapers = {s1}
  Resetters = {r1}
  Values = {1}
  NonFinite = NonFinite
  Quantiles <- UnorderedQuantiles
  MaxObservations = 1
  NoThread = NoThread
  MaxCalls = 3
INVARIANT WindowBounded
