------------------------------ MODULE Summary ------------------------------
(***************************************************************************)
(* One summary metric (summary.cpp) shared by threads that observe, scrape *)
(* (metric_serializer::serialize(const summary&)) and reset it.            *)
(*                                                                         *)
(* _observations is guarded by _mutex; _total_count and _total_sum are     *)
(* atomics that observe() updates after it has released the mutex, that a  *)
(* scrape reads without it, and that reset() stores while holding it.      *)
(* Every action is one access to shared state; a lock is taken together    *)
(* with the first access it guards and released together with the last.    *)
(***************************************************************************)
EXTENDS Quantile

CONSTANTS
  Observers,        (* threads that call observe                           *)
  Scrapers,         (* threads that serialize the summary                  *)
  Resetters,        (* threads that call reset                             *)
  Values,           (* finite doubles that are observed, as integers       *)
  NonFinite,        (* stands for NaN and the infinities                   *)
  Quantiles,        (* the quantiles the constructor received              *)
  MaxObservations,  (* _max_observations                                   *)
  NoThread,         (* owner of a free mutex                               *)
  MaxCalls          (* bounds the model: number of calls in a behaviour    *)

Threads == Observers \cup Scrapers \cup Resetters

ASSUME SummaryAssumption ==
  /\ IsFiniteSet(Threads)
  /\ NoThread \notin Threads
  /\ Values \subseteq Int
  /\ NonFinite \notin Values
  /\ MaxObservations \in Nat
  /\ MaxCalls \in Nat

VARIABLES
  observations,  (* _observations                                          *)
  totalCount,    (* _total_count                                           *)
  totalSum,      (* _total_sum                                             *)
  mutex,         (* owner of _mutex                                        *)
  pc,            (* what each thread does next                             *)
  arg,           (* argument of each observer's call                       *)
  snapshot,      (* `temp' of each scraper                                 *)
  readSum,       (* the _sum each scraper has printed                      *)
  report,        (* what each scraper's last call printed                  *)
  calls,         (* number of calls made so far                            *)
  recorded,      (* history: count and sum of the observations pushed      *)
                 (*   since the last reset cleared the window              *)
  straddled      (* history: an observe that had left the mutex was still  *)
                 (*   adding to the totals when that reset began           *)

vars == <<observations, totalCount, totalSum, mutex, pc, arg, snapshot,
          readSum, report, calls, recorded, straddled>>

NoReport == [quantiles |-> << >>, sum |-> 0, count |-> 0]

Init ==
  /\ observations = << >>
  /\ totalCount = 0
  /\ totalSum = 0
  /\ mutex = NoThread
  /\ pc = [t \in Threads |-> "idle"]
  /\ arg = [t \in Observers |-> 0]
  /\ snapshot = [t \in Scrapers |-> << >>]
  /\ readSum = [t \in Scrapers |-> 0]
  /\ report = [t \in Scrapers |-> NoReport]
  /\ calls = 0
  /\ recorded = [count |-> 0, sum |-> 0]
  /\ straddled = FALSE

Goto(t, label) == pc' = [pc EXCEPT ![t] = label]

Acquire(t) == mutex = NoThread /\ mutex' = t
Release(t) == mutex' = NoThread

Call(t) == pc[t] = "idle" /\ calls < MaxCalls /\ calls' = calls + 1

-----------------------------------------------------------------------------
(* observe(value)                                                          *)

(* Bug: the early return for NaN and the infinities is missing.            *)
ObserveUnchecked(t, v) ==
  /\ Call(t)
  /\ arg' = [arg EXCEPT ![t] = v]
  /\ Goto(t, "push")
  /\ UNCHANGED <<observations, totalCount, totalSum, mutex, snapshot,
                 readSum, report, recorded, straddled>>

Observe(t, v) ==
  /\ Call(t)
  /\ \/ /\ v = NonFinite
        /\ UNCHANGED <<pc, arg>>
     \/ /\ v # NonFinite
        /\ arg' = [arg EXCEPT ![t] = v]
        /\ Goto(t, "push")
  /\ UNCHANGED <<observations, totalCount, totalSum, mutex, snapshot,
                 readSum, report, recorded, straddled>>

Push(t) ==
  /\ pc[t] = "push"
  /\ Acquire(t)
  /\ observations' = Append(observations, arg[t])
  /\ recorded' = [count |-> recorded.count + 1, sum |-> recorded.sum + arg[t]]
  /\ Goto(t, "prune")
  /\ UNCHANGED <<totalCount, totalSum, arg, snapshot, readSum, report, calls,
                 straddled>>

(* Bug: the window is pruned one observation late.                         *)
PrunedLate(s) ==
  IF Len(s) > MaxObservations + 1
    THEN SubSeq(s, (MaxObservations \div 2) + 1, Len(s))
    ELSE s

(* Bug: as many observations as the limit are erased, not half of them.    *)
PrunedWhole(s) ==
  IF Len(s) > MaxObservations
    THEN SubSeq(s, MaxObservations + 1, Len(s))
    ELSE s

(* erase(begin, begin + _max_observations / 2) when the limit is exceeded  *)
Pruned(s) ==
  IF Len(s) > MaxObservations
    THEN SubSeq(s, (MaxObservations \div 2) + 1, Len(s))
    ELSE s

Prune(t) ==
  /\ pc[t] = "prune"
  /\ observations' = Pruned(observations)
  /\ Release(t)
  /\ Goto(t, "add_count")
  /\ UNCHANGED <<totalCount, totalSum, arg, snapshot, readSum, report, calls,
                 recorded, straddled>>

AddCount(t) ==
  /\ pc[t] = "add_count"
  /\ totalCount' = totalCount + 1
  /\ Goto(t, "add_sum")
  /\ UNCHANGED <<observations, totalSum, mutex, arg, snapshot, readSum,
                 report, calls, recorded, straddled>>

AddSum(t) ==
  /\ pc[t] = "add_sum"
  /\ totalSum' = totalSum + arg[t]
  /\ Goto(t, "idle")
  /\ UNCHANGED <<observations, totalCount, mutex, arg, snapshot, readSum,
                 report, calls, recorded, straddled>>

-----------------------------------------------------------------------------
(* metric_serializer::serialize(const summary&)                            *)

Serialize(t) ==
  /\ Call(t)
  /\ Goto(t, "copy_lock")
  /\ UNCHANGED <<observations, totalCount, totalSum, mutex, arg, snapshot,
                 readSum, report, recorded, straddled>>

(* Bug: the copy is made without the mutex.                                *)
CopyUnlocked(t) ==
  /\ pc[t] = "copy_lock"
  /\ snapshot' = [snapshot EXCEPT ![t] = << >>]
  /\ Goto(t, "copy")
  /\ UNCHANGED <<observations, totalCount, totalSum, mutex, arg, readSum,
                 report, calls, recorded, straddled>>

CopyLock(t) ==
  /\ pc[t] = "copy_lock"
  /\ Acquire(t)
  /\ snapshot' = [snapshot EXCEPT ![t] = << >>]
  /\ Goto(t, "copy")
  /\ UNCHANGED <<observations, totalCount, totalSum, arg, readSum, report,
                 calls, recorded, straddled>>

(* `temp = _observations' copies one element after the other.              *)
CopyNext(t) ==
  /\ pc[t] = "copy"
  /\ Len(snapshot[t]) < Len(observations)
  /\ snapshot' =
       [snapshot EXCEPT ![t] = Append(@, observations[Len(@) + 1])]
  /\ UNCHANGED <<observations, totalCount, totalSum, mutex, pc, arg, readSum,
                 report, calls, recorded, straddled>>

CopyDone(t) ==
  /\ pc[t] = "copy"
  /\ Len(snapshot[t]) >= Len(observations)
  /\ Release(t)
  /\ Goto(t, "read_sum")
  /\ UNCHANGED <<observations, totalCount, totalSum, arg, snapshot, readSum,
                 report, calls, recorded, straddled>>

ReadSum(t) ==
  /\ pc[t] = "read_sum"
  /\ readSum' = [readSum EXCEPT ![t] = totalSum]
  /\ Goto(t, "read_count")
  /\ UNCHANGED <<observations, totalCount, totalSum, mutex, arg, snapshot,
                 report, calls, recorded, straddled>>

(* Bug: the constructor does not sort the quantiles.                       *)
UnsortedQuantileLines(s) ==
  IF s = << >>
    THEN {<< >>}
    ELSE {f \in [1 .. Len(Quantiles) -> {s[i] : i \in 1 .. Len(s)}] :
            \A i \in 1 .. Len(Quantiles) :
              f[i] \in {Sorted(s)[k + 1] :
                           k \in QuantileIndexes(Quantiles[i], Len(s))}}

(* The quantile lines that can be printed for the copied window s.         *)
QuantileLines(s) ==
  IF s = << >>
    THEN {<< >>}
    ELSE LET line(q) == {Sorted(s)[i + 1] : i \in QuantileIndexes(q, Len(s))}
             order   == Sorted(Quantiles)
         IN  {f \in [1 .. Len(order) -> {s[i] : i \in 1 .. Len(s)}] :
                \A i \in 1 .. Len(order) : f[i] \in line(order[i])}

ReadCount(t) ==
  /\ pc[t] = "read_count"
  /\ \E lines \in QuantileLines(snapshot[t]) :
       report' = [report EXCEPT ![t] = [quantiles |-> lines,
                                        sum |-> readSum[t],
                                        count |-> totalCount]]
  /\ snapshot' = [snapshot EXCEPT ![t] = << >>]
  /\ readSum' = [readSum EXCEPT ![t] = 0]
  /\ Goto(t, "idle")
  /\ UNCHANGED <<observations, totalCount, totalSum, mutex, arg, calls,
                 recorded, straddled>>

-----------------------------------------------------------------------------
(* reset()                                                                 *)

Reset(t) ==
  /\ Call(t)
  /\ Goto(t, "clear")
  /\ UNCHANGED <<observations, totalCount, totalSum, mutex, arg, snapshot,
                 readSum, report, recorded, straddled>>

Adding == {t \in Threads : pc[t] \in {"add_count", "add_sum"}}

(* Bug: reset() leaves the window as it is.                                *)
ClearNothing(t) ==
  /\ pc[t] = "clear"
  /\ Acquire(t)
  /\ recorded' = [count |-> 0, sum |-> 0]
  /\ straddled' = (Adding # {})
  /\ Goto(t, "zero_count")
  /\ UNCHANGED <<observations, totalCount, totalSum, arg, snapshot, readSum,
                 report, calls>>

ClearWindow(t) ==
  /\ pc[t] = "clear"
  /\ Acquire(t)
  /\ observations' = << >>
  /\ recorded' = [count |-> 0, sum |-> 0]
  /\ straddled' = (Adding # {})
  /\ Goto(t, "zero_count")
  /\ UNCHANGED <<totalCount, totalSum, arg, snapshot, readSum, report, calls>>

(* Bug: reset() leaves the count as it is.                                 *)
KeepCount(t) ==
  /\ pc[t] = "zero_count"
  /\ Goto(t, "zero_sum")
  /\ UNCHANGED <<observations, totalCount, totalSum, mutex, arg, snapshot,
                 readSum, report, calls, recorded, straddled>>

ZeroCount(t) ==
  /\ pc[t] = "zero_count"
  /\ totalCount' = 0
  /\ Goto(t, "zero_sum")
  /\ UNCHANGED <<observations, totalSum, mutex, arg, snapshot, readSum,
                 report, calls, recorded, straddled>>

(* Bug: reset() leaves the sum as it is.                                   *)
KeepSum(t) ==
  /\ pc[t] = "zero_sum"
  /\ Release(t)
  /\ Goto(t, "idle")
  /\ UNCHANGED <<observations, totalCount, totalSum, arg, snapshot, readSum,
                 report, calls, recorded, straddled>>

(* Bug: reset() returns with the mutex locked.                             *)
ZeroSumLocked(t) ==
  /\ pc[t] = "zero_sum"
  /\ totalSum' = 0
  /\ Goto(t, "idle")
  /\ UNCHANGED <<observations, totalCount, mutex, arg, snapshot, readSum,
                 report, calls, recorded, straddled>>

ZeroSum(t) ==
  /\ pc[t] = "zero_sum"
  /\ totalSum' = 0
  /\ Release(t)
  /\ Goto(t, "idle")
  /\ UNCHANGED <<observations, totalCount, arg, snapshot, readSum, report,
                 calls, recorded, straddled>>

-----------------------------------------------------------------------------

(* The steps of a call that has begun.                                     *)
ObserveStep(t) == Push(t) \/ Prune(t) \/ AddCount(t) \/ AddSum(t)

SerializeStep(t) ==
  CopyLock(t) \/ CopyNext(t) \/ CopyDone(t) \/ ReadSum(t) \/ ReadCount(t)

ResetStep(t) == ClearWindow(t) \/ ZeroCount(t) \/ ZeroSum(t)

(* The bound on calls is used up and every call has returned.              *)
Finished ==
  /\ calls = MaxCalls
  /\ \A t \in Threads : pc[t] = "idle"
  /\ UNCHANGED vars

Next ==
  \/ \E t \in Observers :
       \/ \E v \in Values \cup {NonFinite} : Observe(t, v)
       \/ ObserveStep(t)
  \/ \E t \in Scrapers : Serialize(t) \/ SerializeStep(t)
  \/ \E t \in Resetters : Reset(t) \/ ResetStep(t)
  \/ Finished

Spec == Init /\ [][Next]_vars

(* The operating system keeps running every thread that is inside a call;  *)
(* nobody has to make a call.                                              *)
Fairness ==
  /\ \A t \in Observers : WF_vars(ObserveStep(t))
  /\ \A t \in Scrapers : WF_vars(SerializeStep(t))
  /\ \A t \in Resetters : WF_vars(ResetStep(t))

FairSpec == Spec /\ Fairness

-----------------------------------------------------------------------------
(* Correctness                                                             *)

ObserverLabels == {"idle", "push", "prune", "add_count", "add_sum"}
ScraperLabels == {"idle", "copy_lock", "copy", "read_sum", "read_count"}
ResetterLabels == {"idle", "clear", "zero_count", "zero_sum"}

(* The type invariant: every variable holds a value of its kind, and each  *)
(* thread is at a line of the function its role calls.                     *)
TypeOK ==
  /\ observations \in Seq(Values)
  /\ totalCount \in Nat
  /\ totalSum \in Int
  /\ mutex \in Threads \cup {NoThread}
  /\ pc \in [Threads -> ObserverLabels \cup ScraperLabels \cup ResetterLabels]
  /\ arg \in [Observers -> Values \cup {0}]
  /\ snapshot \in [Scrapers -> Seq(Values)]
  /\ readSum \in [Scrapers -> Int]
  /\ DOMAIN report = Scrapers
  /\ calls \in 0 .. MaxCalls
  /\ recorded \in [count : Nat, sum : Int]
  /\ straddled \in BOOLEAN

(* The labels at which a thread is inside a scoped_lock of _mutex.         *)
Critical == {"prune", "copy", "zero_count", "zero_sum"}

(* Whenever nobody is inside the mutex, the window holds no more than      *)
(* max_observations values: the pruning of observe() keeps up with any     *)
(* number of observers (summary.hpp:39).  It takes max_observations >= 2.  *)
WindowBounded ==
  mutex = NoThread => Len(observations) <= MaxObservations

(* Threads that have put their value into the window and have not yet      *)
(* added it to _total_count.                                               *)
Uncounted == {t \in Threads : pc[t] \in {"prune", "add_count"}}

(* Resets included, _total_count never falls behind the window by more     *)
(* than the observations still on their way to it: values that can be seen *)
(* in the quantiles are counted, or about to be.                           *)
CountCoversWindow ==
  Len(observations) <= totalCount + Cardinality(Uncounted)

(* A scraper copying the window gets a prefix of it as it is now, not a    *)
(* mixture of windows before and after a push, a prune or a reset.         *)
SnapshotIsWindow ==
  \A t \in Scrapers :
    pc[t] = "copy" => \E n \in 0 .. Len(observations) :
                        snapshot[t] = SubSeq(observations, 1, n)

(* Unless an observe straddled the last reset, _total_count lacks exactly  *)
(* the observations on their way to it: none is lost and none is counted   *)
(* twice, however observes, scrapes and resets interleave.                 *)
CountExact ==
  ~straddled /\ (\A t \in Threads : pc[t] # "zero_count") =>
    totalCount + Cardinality(Uncounted) = recorded.count

(* No call has anything left to do to _total_sum.                          *)
SumSettled ==
  \A t \in Threads :
    pc[t] \notin {"prune", "add_count", "add_sum", "zero_count", "zero_sum"}

(* Unless an observe straddled the last reset, _total_sum comes to rest at *)
(* the sum of the observations pushed since that reset.                    *)
SumExact == ~straddled /\ SumSettled => totalSum = recorded.sum

(* The quantile lines of a scrape do not decrease as the quantile grows,   *)
(* whatever order the constructor received the quantiles in.               *)
ReportOrdered ==
  \A t \in Scrapers :
    LET lines == report[t].quantiles
    IN  \A i, j \in 1 .. Len(lines) : i <= j => lines[i] <= lines[j]

(* The window as the abstract specification sees it: an observation        *)
(* arrives when its call leaves the mutex.                                 *)
CommittedWindow ==
  IF \E t \in Threads : pc[t] = "prune"
    THEN SubSeq(observations, 1, Len(observations) - 1)
    ELSE observations

Window == INSTANCE SlidingWindow
            WITH Capacity <- MaxObservations, window <- CommittedWindow

(* The mutex makes observe() and reset() atomic on the window: every       *)
(* behaviour of the summary is one of the abstract sliding window.         *)
ImplementsWindow == Window!Spec

(* Every observe, scrape and reset that begins returns: no thread waits    *)
(* for the mutex for ever.                                                 *)
CallsReturn == \A t \in Threads : []<>(pc[t] = "idle")

(* What summary.hpp:37 and :99 promise together: a reset that is called    *)
(* beside observes clears count and sum as one, so that at rest a count of *)
(* zero goes with a sum of zero.                                           *)
ResetClearsTogether ==
  (\A t \in Threads : pc[t] = "idle") => (totalCount = 0 <=> totalSum = 0)

=============================================================================
