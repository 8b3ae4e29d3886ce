SPECIFICATION Spec
CONSTANTS
  Observers = {o1, o2}
  Scrapers = {s1}
  Resetters = {r1}
  Values = {1, 2}
  NonFinite = NonFinite
  Infinity = 9
  Orders = {TRUE, FALSE}
  GivenBounds <- SomeBounds
  MaxCalls = 4
SYMMETRY Symmetry
INVARIANTS
  TypeOK
  NothingLost
  ConsistentAtRest
  ScrapeInclusive
  ScrapedCountCoversBuckets
