----------------------------- MODULE Histogram -----------------------------
(***************************************************************************)
(* One histogram metric (histogram.cpp) shared by threads that observe,    *)
(* scrape (metric_serializer::serialize(const histogram&)) and reset it.   *)
(*                                                                         *)
(* There is no lock: a call is a series of relaxed atomic accesses, one to *)
(* each cell it touches, and calls interleave between any two of them.     *)
(* In a behaviour with `programOrder' the accesses of a call take effect   *)
(* as written, which is what x86 builds do; without it in any order, which *)
(* is what memory_order_relaxed allows.  Nothing useful can be said of a   *)
(* scrape in the latter, so only the former have scrapes.                  *)
(***************************************************************************)
EXTENDS Quantile

CONSTANTS
  Observers,     (* threads that call observe                              *)
  Scrapers,      (* threads that serialize the histogram                   *)
  Resetters,     (* threads that call reset                                *)
  Values,        (* finite doubles that are observed, as integers          *)
  NonFinite,     (* stands for NaN and the infinities                      *)
  Infinity,      (* the bound of the last bucket, above every value        *)
  Orders,        (* whether the accesses of a call stay in order: may hold *)
                 (*   TRUE, FALSE or both                                  *)
  GivenBounds,   (* sequences of bounds a constructor may receive, as a    *)
                 (*   function of `programOrder'                           *)
  MaxCalls       (* bounds the model: number of calls in a behaviour       *)

Threads == Observers \cup Scrapers \cup Resetters

ASSUME HistogramAssumption ==
  /\ IsFiniteSet(Threads)
  /\ Observers \cap Scrapers = {}
  /\ Observers \cap Resetters = {}
  /\ Scrapers \cap Resetters = {}
  /\ Values \subseteq Int
  /\ NonFinite \notin Values
  /\ Infinity \in Int
  /\ \A v \in Values : v < Infinity
  /\ Orders \subseteq BOOLEAN
  /\ \A order \in BOOLEAN :
       GivenBounds[order] \subseteq Seq({b \in Int : b <= Infinity})
  /\ MaxCalls \in Nat

VARIABLES
  programOrder,  (* whether this build keeps accesses in order             *)
  bounds,   (* _bucket_bounds                                              *)
  mem,      (* _total_count, _total_sum and _bucket_counts, by cell        *)
  op,       (* the call each thread is in                                  *)
  arg,      (* argument of each observer's call                            *)
  todo,     (* the cells each thread's call has still to access            *)
  printed,  (* what each scraper's call has printed, by cell               *)
  calls,    (* number of calls made so far                                 *)
  recorded, (* history: values of the observes begun since the last reset  *)
  finished, (* history: those of them that had returned                    *)
  owed,     (* history: `finished' when each scrape began                  *)
  clean,    (* history: scrapes that no reset, and nothing one had torn,   *)
            (*   has overlapped                                            *)
  torn      (* history: an observe overlapped the last reset               *)

vars == <<programOrder, bounds, mem, op, arg, todo, printed, calls, recorded,
          finished, owed, clean, torn>>

(* What never changes, and the history of scrapes.                         *)
rigid == <<programOrder, bounds>>
scrape == <<printed, owed, clean>>

Count == <<"count", 0>>
Sum == <<"sum", 0>>
Bucket(i) == <<"bucket", i>>

Buckets == {Bucket(i) : i \in 1 .. Len(bounds)}
Cells == {Count, Sum} \cup Buckets
Zero == [c \in Cells |-> 0]

Init ==
  /\ programOrder \in Orders
  /\ bounds \in {Constructed(given, Infinity) : given \in GivenBounds[programOrder]}
  /\ mem = Zero
  /\ op = [t \in Threads |-> "idle"]
  /\ arg = [t \in Observers |-> 0]
  /\ todo = [t \in Threads |-> {}]
  /\ printed = [t \in Scrapers |-> Zero]
  /\ calls = 0
  /\ recorded = << >>
  /\ finished = << >>
  /\ owed = [t \in Scrapers |-> << >>]
  /\ clean = {}
  /\ torn = FALSE

-----------------------------------------------------------------------------

(* observe and reset touch the count, the sum and then the buckets; a      *)
(* scrape reads the buckets, the sum and then the count.                   *)
UpdateRank(c) == IF c = Count THEN -1 ELSE c[2]
(* Bug: the serializer reads the count before the buckets.                 *)
CountFirstRank(c) ==
  IF c = Count THEN 0 ELSE IF c = Sum THEN Len(bounds) + 1 ELSE c[2]

ScrapeRank(c) ==
  IF c = Count THEN Len(bounds) + 2 ELSE IF c = Sum THEN Len(bounds) + 1 ELSE c[2]

Precedes(call, c, d) ==
  IF call = "serialize"
    THEN ScrapeRank(c) < ScrapeRank(d)
    ELSE UpdateRank(c) < UpdateRank(d)

(* The cells thread t may access now.                                      *)
Ready(t) ==
  {c \in todo[t] : programOrder => \A d \in todo[t] : ~Precedes(op[t], d, c)}

Begin(t, call, cells) ==
  /\ op[t] = "idle"
  /\ calls < MaxCalls
  /\ calls' = calls + 1
  /\ op' = [op EXCEPT ![t] = call]
  /\ todo' = [todo EXCEPT ![t] = cells]

(* Bug: the call does not end with its last access.                        *)
AccessedForEver(t, c) ==
  /\ todo' = [todo EXCEPT ![t] = @ \ {c}]
  /\ UNCHANGED op

(* Thread t is done with cell c, and returns if it was the last one.       *)
Accessed(t, c) ==
  /\ todo' = [todo EXCEPT ![t] = @ \ {c}]
  /\ op' = [op EXCEPT ![t] = IF todo[t] = {c} THEN "idle" ELSE @]

In(call) == {t \in Threads : op[t] = call}

(* Bug: a value on a bound is not counted in that bucket.                  *)
TouchedBelow(v) ==
  {Count, Sum} \cup {Bucket(i) : i \in {j \in 1 .. Len(bounds) : v < bounds[j]}}

(* The cells an observation of v adds to.                                  *)
Touched(v) ==
  {Count, Sum} \cup {Bucket(i) : i \in {j \in 1 .. Len(bounds) : v <= bounds[j]}}

-----------------------------------------------------------------------------
(* observe(value)                                                          *)

(* NaN and the infinities are ignored.                                     *)
Ignore(t, v) ==
  /\ v = NonFinite
  /\ op[t] = "idle"
  /\ calls < MaxCalls
  /\ calls' = calls + 1
  /\ UNCHANGED <<rigid, mem, op, arg, todo, scrape, recorded, finished, torn>>

Observe(t, v) ==
  /\ v # NonFinite
  /\ Begin(t, "observe", Touched(v))
  /\ arg' = [arg EXCEPT ![t] = v]
  /\ recorded' = Append(recorded, v)
  /\ torn' = (torn \/ In("reset") # {})
  /\ UNCHANGED <<rigid, mem, scrape, finished>>

(* Bug: the loop over the buckets ends with the first that fits.           *)
AddToOneBucket(t) ==
  /\ op[t] = "observe"
  /\ \E c \in Ready(t) :
       /\ mem' = [mem EXCEPT ![c] = @ + IF c = Sum THEN arg[t] ELSE 1]
       /\ IF c \in Buckets
            THEN /\ todo' = [todo EXCEPT ![t] = {}]
                 /\ op' = [op EXCEPT ![t] = "idle"]
                 /\ finished' = Append(finished, arg[t])
            ELSE Accessed(t, c) /\ UNCHANGED finished
  /\ UNCHANGED <<rigid, arg, scrape, calls, recorded, torn>>

Add(t) ==
  /\ op[t] = "observe"
  /\ \E c \in Ready(t) :
       /\ mem' = [mem EXCEPT ![c] = @ + IF c = Sum THEN arg[t] ELSE 1]
       /\ Accessed(t, c)
       /\ finished' = IF todo[t] = {c} THEN Append(finished, arg[t]) ELSE finished
  /\ UNCHANGED <<rigid, arg, scrape, calls, recorded, torn>>

-----------------------------------------------------------------------------
(* metric_serializer::serialize(const histogram&)                          *)

Serialize(t) ==
  /\ Begin(t, "serialize", Cells)
  /\ printed' = [printed EXCEPT ![t] = Zero]
  /\ owed' = [owed EXCEPT ![t] = finished]
  /\ clean' = IF torn \/ In("reset") # {} THEN clean \ {t} ELSE clean \cup {t}
  /\ UNCHANGED <<rigid, mem, arg, recorded, finished, torn>>

Load(t) ==
  /\ op[t] = "serialize"
  /\ \E c \in Ready(t) :
       /\ printed' = [printed EXCEPT ![t][c] = mem[c]]
       /\ Accessed(t, c)
  /\ UNCHANGED <<rigid, mem, arg, calls, recorded, finished, owed, clean, torn>>

-----------------------------------------------------------------------------
(* reset()                                                                 *)

Reset(t) ==
  /\ Begin(t, "reset", Cells)
  /\ recorded' = << >>
  /\ finished' = << >>
  /\ torn' = (In("observe") # {})
  /\ clean' = {}
  /\ UNCHANGED <<rigid, mem, arg, printed, owed>>

Store(t) ==
  /\ op[t] = "reset"
  /\ \E c \in Ready(t) :
       /\ mem' = [mem EXCEPT ![c] = 0]
       /\ Accessed(t, c)
  /\ UNCHANGED <<rigid, arg, scrape, calls, recorded, finished, torn>>

-----------------------------------------------------------------------------

(* The bound on calls is used up and every call has returned.              *)
Finished ==
  /\ calls = MaxCalls
  /\ \A t \in Threads : op[t] = "idle"
  /\ UNCHANGED vars

Next ==
  \/ \E t \in Observers :
       \/ \E v \in Values \cup {NonFinite} : Ignore(t, v) \/ Observe(t, v)
       \/ Add(t)
  \/ \E t \in Scrapers : (programOrder /\ Serialize(t)) \/ Load(t)
  \/ \E t \in Resetters : Reset(t) \/ Store(t)
  \/ Finished

Spec == Init /\ [][Next]_vars

-----------------------------------------------------------------------------
(* Correctness                                                             *)

(* The type invariant: every variable holds a value of its kind, and a     *)
(* thread has cells to access exactly while it is in a call.               *)
TypeOK ==
  /\ programOrder \in BOOLEAN
  /\ bounds \in Seq(Int)
  /\ mem \in [Cells -> Int]
  /\ \A c \in Cells \ {Sum} : mem[c] >= 0
  /\ op \in [Threads -> {"idle", "observe", "serialize", "reset"}]
  /\ arg \in [Observers -> Values \cup {0}]
  /\ todo \in [Threads -> SUBSET Cells]
  /\ \A t \in Threads : op[t] = "idle" <=> todo[t] = {}
  /\ printed \in [Scrapers -> [Cells -> Int]]
  /\ calls \in 0 .. MaxCalls
  /\ recorded \in Seq(Values)
  /\ finished \in Seq(Values)
  /\ owed \in [Scrapers -> Seq(Values)]
  /\ clean \subseteq Scrapers
  /\ torn \in BOOLEAN

(* The number of entries of the sequence s that fall into bucket i, and    *)
(* into the cell c other than the sum.                                     *)
Within(s, i) == Cardinality(UpTo(s, bounds[i]))
Tally(s, c) == IF c = Count THEN Len(s) ELSE Within(s, c[2])

(* Whatever the interleaving and the order of the accesses, no increment   *)
(* is lost and none is made twice: between clean resets, the count and     *)
(* each bucket lack exactly the observes that have still to touch them.    *)
(* Hence they are exact, and the buckets cumulative, once observes return. *)
NothingLost ==
  ~torn /\ In("reset") = {} =>
    \A c \in Cells \ {Sum} :
      mem[c] + Cardinality({t \in In("observe") : c \in todo[t]})
        = Tally(recorded, c)

(* The sum of the entries of the sequence s.                               *)
Total(s) ==
  LET total[n \in 0 .. Len(s)] == IF n = 0 THEN 0 ELSE total[n - 1] + s[n]
  IN  total[Len(s)]

Quiet == \A t \in Threads : op[t] = "idle"

(* At rest, unless an observe overlapped the last reset, the exposition    *)
(* is one Prometheus accepts: buckets cumulative, the one of +Inf equal to *)
(* the count; and the sum is that of the values.                           *)
ConsistentAtRest ==
  Quiet /\ ~torn =>
    /\ \A i, j \in 1 .. Len(bounds) : i <= j => mem[Bucket(i)] <= mem[Bucket(j)]
    /\ mem[Bucket(Len(bounds))] = mem[Count]
    /\ mem[Sum] = Total(recorded)

(* "Clears all bucket counts, total count, and sum", says histogram.hpp:91 *)
(* of reset(), and line 36 that all methods are thread-safe: at rest the   *)
(* bucket of +Inf equals the count, whatever a reset fell beside.          *)
InfBucketIsCount == Quiet => mem[Bucket(Len(bounds))] = mem[Count]

(* The scrapes that have returned and that no reset has disturbed.         *)
Scraped == {t \in clean : op[t] = "idle"}

(* A scrape misses no observation that had returned when the scrape began, *)
(* in any of the cells it prints.                                          *)
ScrapeInclusive ==
  \A t \in Scraped : \A c \in Cells \ {Sum} : printed[t][c] >= Tally(owed[t], c)

(* A scrape racing observes never prints a bucket above the count:         *)
(* observe() adds to the count first and the serializer reads it last.     *)
ScrapedCountCoversBuckets ==
  \A t \in Scraped :
    \A i \in 1 .. Len(bounds) : printed[t][Bucket(i)] <= printed[t][Count]

=============================================================================
