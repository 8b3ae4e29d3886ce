# TeiaCarePrometheus in TLA+

TLA+ models of the C++ Prometheus client in `src/prometheus_client`, the TLC
configurations that check them on small instances, and TLAPS proofs. Paths
below are relative to `src/prometheus_client` unless they say otherwise.

## The system

A program creates *families* in a *registry*, adds *metrics* with *labels* to
a family, and updates the metrics through the shared pointers it was handed.
Beside that, something (an HTTP endpoint) calls `registry::serialize()` for
the text Prometheus scrapes, and something may call `reset()`. Everything is
documented as thread-safe, so any of these calls may run beside any other.

| component | state | operations | correct when |
|---|---|---|---|
| `registry` | `_families`, `_mutex` | `create_*`, `serialize`, `reset` | a name belongs to one family; what a caller was handed is scraped; scrapes and resets are complete and do not tear one another |
| `metric_family<T>` | `_metrics`, `_mutex` | `add_metric`, `get_metric`, `serialize`, `reset` | labels are looked up stably; a scrape prints every metric once; no walk outlives its buffer |
| `labels` | `_labels`, `_cached_string` | construction from a list, `add`, `to_string`, `==` | the text identifies the label set; the cache is current, and never read half written |
| `counter`, `gauge` | one atomic double | `inc`, `dec`, `set`, `get`, `reset` | a counter only rises but for resets; a gauge follows what it counts |
| `histogram` | count, sum, one atomic per bucket; no lock | `observe`, `reset` | buckets cumulative, the last equal to the count; nothing lost |
| `summary` | `_observations` under `_mutex`; count and sum atomics | `observe`, `sorted_observations`, `reset` | bounded window of recent values; exact totals; ordered quantiles |
| `metric_serializer` | an output stream, private to one scrape | `serialize` per type | no series twice and no label twice in a line; the lines of a metric agree |
| `base_metric`, `metric_type` | name, labels and type, which never change | virtual `serialize` and `reset` | |
| `default_registry`, `version` | none that changes | | |

How they interact: `registry::serialize` and `reset` hold the registry's mutex
and call each family; `metric_family::reset` takes the family's mutex and
resets each metric; `summary::reset` takes the summary's. A scrape goes from
the registry through `metric_family::serialize` back into the serializer,
which walks the vector `metrics()` refers to **without** the family's mutex,
asks each metric's labels for their text (cached on first use), and reads the
metric. Updates go straight to the metric.

What is hard here is interleaving, and nothing else on this scale: there is no
persistence, no network and no timer. The places where it bites:

* `create_*` looks up under the mutex and inserts after releasing it;
* the walk of a family's vector beside `add_metric`, and the label cache;
* `summary::observe` updates its totals after releasing the mutex;
* a histogram is a handful of relaxed atomics without a lock;
* `reset` beside updates and scrapes, at every level, through three nested
  mutexes;
* what a program may pass that the library does not check: NaN, labels given
  twice or called `le`, a family named like a line of another;
* limits: the window at `max_observations`, quantile indexes, bucket bounds.

`PROJECT.json` lists each of them at its line under `hazards`.

## Modules

| module | models | lines |
|---|---|---|
| `Quantile` | sorting, the index of a quantile, the bounds of a histogram, as pure operators | `summary.cpp:67`, `metric_serializer.cpp:75`, `histogram.cpp:34-47` |
| `SlidingWindow` | abstract: what a summary promises of its window, as one atomic object | |
| `Summary` | one summary under observers, scrapers and resetters | `summary.cpp`, `metric_serializer.cpp:67-85` |
| `Histogram` | one histogram under observers, scrapers and resetters | `histogram.cpp`, `metric_serializer.cpp:45-65` |
| `Registry` | the registry while families are created, and updates through handles | `registry.cpp` |
| `MetricFamily` | one family while it grows, its vector and the label cache of its metrics | `metric_family.hpp`, `labels.cpp:82-106` |
| `Labels` | label sets: validity of names, escaping, text and its cache, copies | `labels.cpp`, `labels.hpp` |
| `Prometheus` | the composition: registry, families, summaries, counters and gauges through their nested locks | `registry.cpp:65-89`, `metric_family.hpp:175-183`, `base_metric.hpp:60`, `counter.cpp`, `gauge.cpp`, `summary.cpp:40-92`, `metric_serializer.cpp` |
| `Exposition` | the lines a scrape prints, their names and labels | `metric_serializer.cpp`, `base_metric.cpp`, `registry.cpp:24-89`, `metric_family.hpp:109-124`, `summary.cpp:40-57` |
| `MC*` | constants of the instances TLC checks | |
| `SummaryProofs`, `HistogramProofs`, `RegistryProofs`, `MetricFamilyProofs`, `LabelsProofs`, `PrometheusProofs`, `ExpositionProofs` | theorems about the module each is named after | |
| `BasicLemmas` | lemmas about `Quantile`, and about numbers, sequences and finite sets | |

Definitions preceded by a comment that begins with `Bug:` are not part of a
specification. Each is a plausible mistake in the definition after it, and
breaks one of the properties when it takes that definition's place.

### Summary

Each action is one access to shared state; a lock is taken together with the
first access it guards and released together with the last. `observe` is
`Observe` (with the early return for NaN and the infinities), `Push`, `Prune`,
`AddCount`, `AddSum`; a scrape is `Serialize`, `CopyLock`, `CopyNext` (the
copy is made element by element, so that a missing lock would show),
`CopyDone`, `ReadSum`, `ReadCount`; `reset` is `Reset`, `ClearWindow`,
`ZeroCount`, `ZeroSum`. `recorded` and `straddled` are history variables:
count and sum of what was pushed since the last reset, and whether an observe
that had left the mutex was still adding when that reset began. The accesses
take effect in program order, as in x86 builds; the code's
`memory_order_relaxed` would allow more.

A quantile is an integer number of hundredths; of the double product only the
truncation is modelled. The cast of a negative product at or below -1 is
undefined behaviour, so every index may come out of it. `Sorted` is defined by
order statistics: the k-th entry of the result is the value with fewer than k
entries below it and at least k up to it.

### Histogram

There is no lock, so a call is the set of cells it has still to access
(`todo`). In a behaviour with `programOrder`, a choice of the initial state, a
thread accesses them as written; without it in any order, which is what
`memory_order_relaxed` allows. Only the former have scrapes, of which nothing
useful holds in the latter. Bounds are built by `Constructed` (in `Quantile`)
from any given sequence. History: `recorded` (values observed since the last
reset), `finished` (those whose call had returned), `owed` (`finished` when a
scrape began), `clean` (the scrapes that no reset, and nothing torn by one,
has overlapped) and `torn` (an observe overlapped the last reset).

### Registry

A family is one number, the value of its metrics. `create_*` is `Create`,
`Check` (the lookup, with the mutex, which throws), `Make`, `EmplaceFind` and
`EmplaceLink`. The two halves of `unordered_map::emplace` run outside the
mutex; what a race with another insertion or with a walk does is undefined
behaviour, modelled as a choice: nodes linked by others since the search may
be lost, and a walk in progress may skip or repeat nodes. (A crash would end
the behaviour and is left out.) `alone`, a choice of the initial state, is the
discipline of `examples/example_counter.cpp:49-98`, which creates its families
before it starts anything else. What a call knows on its way (the name, the
families it has still to visit, the lines it has printed) is in the record of
its thread.

### MetricFamily

The vector is its elements, its buffer and the buffer's capacity: `Grown`
moves to a new buffer when the old one is full. A scrape remembers the buffer
it took its iterators from; reading from one that has been left crashes or
reads what is still there. `Look`, `Write` and the reading of the text are the
label cache: `writers` are the threads inside the assignment to the optional,
and a text read beside one may be torn. `setupFirst`, a choice of the initial
state, is the discipline of the example: metrics are added and looked up beside no scrape, and there is one
scrape at a time.

### Labels

A text, a name and a value are sequences of characters here, because the
property is about them: `get_metric` compares texts where `operator==` compares
labels. `Add` has the check of the name and drops the cached text, `Construct`
is the constructor from a list (an invalid name throws and nothing is
constructed), `ToText` builds and caches the text, `Copy` takes the cache
along, as the serializer's copies do. `isalpha` and `isalnum` are undefined for
a character that is negative as a `char`: of the characters in `Foreign` each
call accepts any. One thread is at work; `MetricFamily` has the races on the
cache.

### Prometheus

The library put together, after the set-up the example makes. A call is a
*program*: the sequence of its atomic steps (lock, copy, print, zero, push, ...)
on the shared state, built as the code is, a call inside a call being a program
inside a program. `SerializeProgram` is `registry::serialize` with the families
and metrics it walks, `ResetProgram` is `registry::reset` with
`metric_family::reset` and `summary::reset` inside it, and so on; `Step(t)`
does the next step of thread `t`. The three mutexes are those of the registry,
of each family and of each summary. `FamilyReset` is a caller that holds a
family and resets it without the registry, `MetricReset` one that holds a metric
(`base_metric::reset`). Counters and gauges are updated by
one atomic operation each, beside everything; `Inc` has the check of
`counter::inc`, which a negative amount fails and NaN does not. A gauge is
`Set`, or counts uses that begin (`Use`, `gauge::inc`) and end (`EndUse`,
`gauge::dec`).

Of a summary only the count and the length of the window are kept here (its
values, its sum and its pruning are in `Summary`); histograms, which have no
lock, are in `Histogram`. History: a scrape notes what the totals were when it
locked the registry (`base`), how many observations were not counted yet when
it printed a count (`late`) and what the reset of a family or a metric zeroed
before it was printed (`reset`, noted only while the line is still to be
printed; `OwnResets` are the calls that do so); a reset
notes what was added since it was called (`since`);
`open` and `skewed` say what each gauge should show and whether it does.

### Exposition

What is printed, for whatever families, metrics and labels a program makes: a
line is its name and its labels, and no value is printed. A Prometheus server
tells series apart by these, and refuses an exposition that has one twice.
`Create` and `AddMetric` make families and metrics; `Construct` makes a metric
without a family, of given bounds or quantiles, which the program prints itself
(as `tests/test_metric_serializer.cpp:82-97` does). Of what a summary has
observed only whether its window is empty decides which lines are printed:
`Observe` fills it and `MetricReset`, `FamilyReset` and `Reset` empty it, by
metric, by family and for the registry; `ObserveOwn` and `ResetOwn` do so to a
metric without a family. Names are strings, so that `a` with `_sum` after it and
the name `a_sum` are one; a help text is the lines it is printed as.
`RegistryLines`, `FamilyLines`, `HistogramLines`, `SummaryLines` are the
functions of the serializer. Bounds and quantiles are integers
(ten-millionths), and `SixDecimals` prints them as `std::to_string` does: the
sign stays, and the greatest is `inf`, or `+Inf` as the bound of a bucket.

## Runs

| run | shows |
|---|---|
| `Summary` | `WindowBounded`, `CountCoversWindow`, `CountExact`, `SumExact`, `SnapshotIsWindow`, `ReportOrdered`, refinement of `SlidingWindow`, `CallsReturn` |
| `SummaryTinyWindow` | a limit of 1 is never enforced (violation) |
| `SummaryResetRace` | a reset inside an observe parts count and sum (violation) |
| `Histogram` | `NothingLost`, `ConsistentAtRest` in either order of accesses; `ScrapeInclusive`, `ScrapedCountCoversBuckets` in program order |
| `HistogramReset` | a reset inside an observe parts the bucket of +Inf and the count (violation) |
| `Registry` | `OneCreatePerName`, `HandlesRegistered`, `ScrapeComplete`, `ResetComplete` under the discipline; `ScrapeNotTorn`, `CallsReturn` with every race allowed too |
| `RegistryUnique` | two creates of one name both succeed (violation) |
| `MetricFamily` | `GetStable`, `AddedIsFound`, `ScrapeWhole` under the discipline; `ResetComplete`, `CallsReturn` with every race allowed too |
| `MetricFamilyAdd` | a scrape outlives its buffer (violation) |
| `Labels` | `CacheCurrent`, `TextIdentifies` |
| `Prometheus` | `ScrapeNotTorn`, `SummaryLinesAgree`, `ResetForgets`, `GaugeFollowsUses`, `CounterOnlyRises`, and that nothing deadlocks (`CallsReturn`) |
| `Exposition` | `SeriesDistinct`, `LabelsDistinct`, for programs that keep clear of what the library lets pass |

Each passing run also checks its module's `TypeOK`. Five runs end in a
violation; each states what a comment of the headers says, and `PROJECT.json`
quotes it under `findings`:

* with `max_observations` of 1 the erase removes `1 / 2 = 0` elements and the
  window grows for ever (`summary.hpp:39`, `summary.cpp:51`);
* a reset between the two additions of an `observe` leaves a count of 0 with a
  sum that is not (`summary.hpp:37` and `:99`, `summary.cpp:55-56`, `:90`);
* two threads that create one name both get a family, and one of them is never
  scraped (`registry.hpp:32`, `:49`, `registry.cpp:26-28`);
* a scrape beside `add_metric` reads a freed buffer (`metric_family.hpp:40`,
  `metric_serializer.cpp:29`);
* a reset beside an `observe` of a histogram, both without a lock, leaves the
  bucket of +Inf other than the count when all calls are over
  (`histogram.hpp:36` and `:91`, `histogram.cpp:54-62`, `:87-92`).

One more disagreement needs no run: `create_histogram` and `create_summary` take
"the bucket boundaries for all histograms in this family" and the quantiles
likewise (`registry.hpp:67`, `:78`) and ignore them (`registry.cpp:40-43`,
`:48-51`), so every metric of a family has the defaults. `Exposition` has it so.

What the properties of `Prometheus` and `Exposition` leave out is as telling as
what they state. A scrape *may* show a reset of one family half done, and one of a
summary by its handle, since neither takes the registry's mutex. A gauge that a reset
catches in the middle of a use is wrong from then on, after the use has ended
too. NaN poisons a counter until its reset. And an exposition may name a series
twice when a program gives one label twice or the same labels in two orders,
uses `le` or `quantile` itself, names a family `x_sum` beside `x`, asks for
bounds that agree in six decimals, or puts a line break in a help text: dropping
any of these conditions from the preconditions of `SeriesDistinct` and
`LabelsDistinct` makes the run fail. Two bounds that print alike, a label given
twice or a reserved one, and a reset amid the use of a gauge are conditions of
these properties and no violation of them: what the library prints then is what
the program gave, or what it did.

**Bounds.** Calls are bounded by `MaxCalls` (in `Prometheus` by the `calls` of a
program), updates by `MaxUpdates`, labels of an object by `MaxLabels`, metrics of
an exposition by `MaxMetrics`. Every race above needs two calls, or three with
the one that sets it up; the runs allow four to six, with two threads per role
that races with itself. The summary keeps two observations, so four observes
prune it twice. Two values tell apart which observation was kept; the quantiles
are out of order, and one is 2, whose index in a window of two is 2 and is cut off
to 1, so that the sort and the `min` on the index both matter (a quantile below 0
is outside what `ReportOrdered` claims). Labels: two
objects of up to two labels, over values that hold a newline, its escape sequence
spelt out, and the text of a further label, and names among which one is accepted
only sometimes. Bounds of a histogram: none, or two out of order of
which one is +Inf, where accesses take any order (one bucket, two), and two out of
order where they are in order (three buckets).

`Prometheus` has a counter, a gauge and a summary, each in its family, walked in
either of two orders. A program updates one of the three, for steps on different
metrics commute: what a scrape or reset shows of one does not depend on updates
of another, while the locks of all three are taken in each program. Two threads and two calls put
any two calls beside one another and beside two updates; the program of the
summary has three of each, because `SummaryLinesAgree` and `ResetForgets` are
about an observe, a reset and a scrape at once. `Exposition` has up to three
metrics in up to two families, one named like a line of the other, and labels and
bounds of each kind the precondition excludes; or one metric of any type that is
constructed with such bounds, observed and reset, so that given quantiles which
print alike, or as `inf`, are printed too.

Threads, names and labels are symmetric; symmetry is used only in runs without
liveness.

**Fairness.** Weak fairness on the steps of each thread inside a call: the
operating system runs a runnable thread. No thread has to make a call. With
finitely many calls a mutex cannot be taken past a waiting thread for ever, so
weak fairness suffices and nothing is assumed of the fairness of `std::mutex`.
`CallsReturn` therefore says that no path keeps a mutex and no call waits for
itself; it does not say that an endless stream of calls starves nobody.

## Proofs

Every theorem holds for all values of the constants that satisfy the module's
assumption: any number of threads, calls, updates, values, families, metrics and
labels. The assumptions ask for no more than what the constants are (finite sets
of threads, names of the right kind, mutexes that are distinct).

`SummaryProofs`, about `Summary`:

| theorem | property | rests on |
|---|---|---|
| `TypeCorrect` | `TypeOK` | itself |
| `MutexIsOwned` | at a critical label exactly the owner | `TypeOK` |
| `WindowIsBounded` | `WindowBounded` | one pusher at a time, `MaxObservations >= 2` |
| `CountAlwaysCovers` | `CountCoversWindow` | the mutex, and counting `Uncounted` |
| `CountIsExact` | `CountExact` | the same, with who straddles a reset |
| `SumIsExact` | `SumExact` | the mutex, and summing over `Unsummed` |
| `SnapshotIsAlwaysWindow` | `SnapshotIsWindow` | the mutex |
| `ReportsOrdered` | `ReportOrdered` | sorting, `Quantiles \in Seq(Nat)` |
| `SummaryImplementsWindow` | `ImplementsWindow` | `WindowIsBounded`, the mutex |

None of the properties is inductive alone. All rest on `MutexOwned`: a thread
is at a label of `Critical` exactly while it owns the mutex, so of two threads
at least one is outside. With that, `WindowInv` says that the window is one
above the limit only while its owner is about to prune; without the clause an
observer that finds the mutex free could not be shown to find the window
within the limit. `CountInv` adds what a reset that has cleared the window and
not yet the count leaves true. The count properties also need the cardinality
of `Uncounted` to change by exactly one with each push and each addition. The
sum needs a sum over the set of threads that owe it a value: `SumInv` says that
*some* function on sets of threads is the sum of their arguments (`Sums` of
`BasicLemmas`) and makes up the difference, and a step that changes one
argument has another such function (`WeightReplaced`), which it takes no
induction to give. For the refinement every step is shown to be an `Arrive`, a
`Clear` or a stutter of `SlidingWindow` on `CommittedWindow`: an observation
arrives when its call releases the mutex. `ReportsOrdered` needs that `Sorted`
ascends for every sequence of integers (`SortedProperties`) and that the index
of a quantile grows with it (`IndexesAscend`). It is stated for quantiles that
are not negative, since the index of a negative one may be any.

`HistogramProofs`, about `Histogram`, in program order or any other:

| theorem | property | rests on |
|---|---|---|
| `TypeCorrect` | `TypeOK` | bounds that ascend to +Inf, threads that keep to their roles |
| `IncrementsKept` | `NothingLost` | `Counted` |
| `ScrapesInclusive` | `ScrapeInclusive` | `Counted`, `Balanced`, `InOrder`, `Covered` |
| `ScrapedBucketsCovered` | `ScrapedCountCoversBuckets` | the same |
| `AtRestConsistent` | `ConsistentAtRest` | `Counted`, `Summed` |

`Counted` is the invariant there: unless a reset was torn, each cell but the sum
lacks exactly one for each observe that has still to add to it (`Owing`), and
while a reset that began at rest goes on nothing else does (`Emptied`).
`Balanced` relates what was observed, what had returned and what is under way,
so that `Covered` can say of a scrape at work that what it has read, and what it
is still to read, cover the observes it owes. `InOrder` is where the order of
the accesses enters: the count is added to first and read last.

`RegistryProofs`, about `Registry`:

| theorem | property | rests on |
|---|---|---|
| `TypeCorrect` | `TypeOK` | itself |
| `MutexIsOwned` | who walks the families owns the mutex, and no other | types |
| `ScrapesNotTorn` | `ScrapeNotTorn` | the mutex, every race allowed |
| `OneCreate`, `HandlesAreRegistered` | `OneCreatePerName`, `HandlesRegistered` | `Exclusive`, `Registered` |
| `ScrapesComplete`, `ResetsComplete` | `ScrapeComplete`, `ResetComplete` | `Exclusive`, `Complete` |

The first three hold of any program. The others hold under the discipline of
the example (`alone`), and `Exclusive` is what it gives: no call runs beside a
creation. `Fresh` then keeps a name that was found free so until its family is
linked, and `Progress` says of a walk that what it knew is visited or to be
visited.

`MetricFamilyProofs`, about `MetricFamily`:

| theorem | property | rests on |
|---|---|---|
| `TypeCorrect` | `TypeOK` | itself |
| `MutexIsOwned` | who searches or resets owns the mutex | types |
| `ResetsComplete` | `ResetComplete` | `ZeroedSoFar`, every race allowed |
| `GetsAreStable`, `AddedAreFound` | `GetStable`, `AddedIsFound` | `Separate`, `WritersAtWork`, `Searched` |
| `ScrapesWhole` | `ScrapeWhole` | `Separate`, `WritersAtWork`, `PrintedSoFar` |
| `DisciplineIsSafe` | under the discipline, `NoUseAfterFree` | the same |

`WritersAtWork` ties every writer of a cached text to a thread at that label;
with `Separate`, the discipline, and the mutex nobody writes the text that
another reads (`NobodyWrites`), so that lookups compare whole texts and scrapes
print them. `DisciplineIsSafe` is the other side of the run `MetricFamilyAdd`:
what is violated without the discipline is proved with it.

`LabelsProofs` proves `TypeCorrect`, `CacheAlwaysCurrent` (`CacheCurrent`) and
`TextsIdentify` (`TextIdentifies`) of `Labels`, whatever `isalpha` makes of the
characters it is undefined for. The cache property is inductive with the types: an
addition and a construction drop the text, a copy copies labels and text together.

`TextsIdentify` needs no more of a state than its types, and holds for names and
values of any length. It takes two equal texts apart from the front. What is
flattened from a sequence unrolls into its elements, whatever comes after them
(`FlattenUnrolls`). Two such texts have the same number of pieces if pieces in the
same place are only followed by the same (`PrefixFree`) and none goes on where the
other text ends (`Ends`); that is `PiecesAgree`. It is used twice: for the escaped
characters of a value, of which none begins with the closing quote (`ValuesEnd`),
and for the labels of a set, of which only the first does without a comma
(`TextsEnd`). Between the two, a name ends at the first `=`, because no valid name
holds one (`NamesEnd`). The theorem is what entitles `MetricFamily` to label sets
that are model values, although `get_metric` compares their texts.

`PrometheusProofs`, about the composition:

| theorem | property | rests on |
|---|---|---|
| `TypeCorrect` | `TypeOK` | `Typed`, `Owned` |
| `CountersOnlyRise` | `CounterOnlyRises` | `Numbers` |
| `GaugesFollow` | `GaugeFollowsUses` | types of the gauges |
| `ResetsForget` | `ResetForgets` | `Typed`, `ForgetInv` |
| `ScrapesNotTorn` | `ScrapeNotTorn` | `Typed`, `Owned`, `UntornInv` |
| `SummariesAgree` | `SummaryLinesAgree` | `Typed`, `Owned`, `LinesInv` |

What a call has still to do is a program, built by walking families and metrics.
The proofs look into no program. They know of each of its steps that it is
`InPlace`: what is locked is unlocked, what is unlocked was locked, a summary is
worked on under its mutex, zeroed right after its window was cleared and printed
after it was copied. `Held(s, i, x)` says it without any bookkeeping: at the
i-th step x is locked if an unlocking of x comes before any locking of it. The
blocks of the code (`PrintSummary`, `ResetSummary`, the loops over metrics and
families, ...) are shown to be disciplined one by one, the loops by what
concatenation preserves (`FlattenIn`). From there `Owned` follows for the state:
t owns x exactly while its program has x locked, which gives the exclusion that
every other invariant needs.

`UntornInv` says of a scrape in the registry's mutex that every total is at least
what it was at the lock, but for those a family's own reset has zeroed and has
noted. `ForgetInv` says of a reset that what it has zeroed shows no more than was
added since the call. `LinesInv` joins four: what an observer still has to do
(`ObserverInv`), that between the clear and the zero of a reset the window is
empty (`ClearedInv`), that the window is covered by the count and the observes
on their way (`WindowInv`, with the cardinality of `Uncounted`), and what that
makes of the copy a scrape has taken (`AgreeInv`).

`ExpositionProofs`, about `Exposition`:

| theorem | property | rests on |
|---|---|---|
| `TypeCorrect` | `TypeOK` | `Typed`, sorting |
| `SeriesStayDistinct` | `SeriesDistinct` | `Typed`, `Locates`, `LineOf`, `Places` |
| `LabelsStayDistinct` | `LabelsDistinct` | `Typed`, `LineOf` |

`Typed` is the inductive invariant: a family is registered under the name its
metrics have, the metrics are of its type, and bounds are sorted when a metric is
made (`SortedProperties`, `ConstructedProperties`), those it was given as well as
the defaults, which are below `Infinity` by assumption. The distinctness of lines
is then a fact about each state. Every sample is a `LineOf` its metric: its name
is the metric's, perhaps with a suffix, and its labels are the metric's, perhaps
with a reserved one after them. If two samples name one series, the conditions
on names (and that no suffix ends like another, `SuffixesTell`, which holds of any
strings and which TLC evaluates for the names of its runs) make their metrics agree in name, hence in type and in the reserved
label; what is not reserved of their labels are the metrics' labels
(`LabelsKept`), so the metrics are the same (`LinesApart`). Within a metric the
suffix or the printed bound differs (`LabelledLines`). That a scrape prints the
lines of each metric once is `Places`: the positions of a flattened sequence are
in one-to-one correspondence with the positions of its pieces
(`FlattenedPlaces`); `Locates` says so of the registered metrics, whatever order
the families are in.

The conditions on the program speak of the text that is printed of a bound or
quantile, by type: a proof that took the text of a bucket for both failed, since
a summary prints `inf` where a histogram prints `+Inf`.

**Induction.** The provers cannot instantiate an induction theorem over a
predicate. Where a fact needs one (flattening, sorting, sums), the proof takes
the least counterexample of the fact at hand, a set, which is not empty if the
fact is false (`NatMinimum`).

**Only model-checked** is `CallsReturn`, of `Summary`, `Registry`, `MetricFamily`
and `Prometheus`: liveness is beyond the prover. Every other property of a
passing run, invariant or action property or refinement, is a theorem.

## Not modelled

* Printed values and their formatting, doubles and their rounding (integers stand
  for them), NaN among the bounds of a histogram.
* `default_registry`, a function-local static that the language initialises once,
  and `version`, compile-time constants. The tests and build are not part of the
  library; of the example only the discipline of its set-up is used.
* Allocation failures.
