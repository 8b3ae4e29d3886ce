--------------------------- MODULE SummaryProofs ---------------------------
(***************************************************************************)
(* Theorems about Summary, for any threads, values, quantiles and          *)
(* max_observations, and any number of calls.                              *)
(***************************************************************************)
EXTENDS Summary, BasicLemmas

USE SummaryAssumption DEF Threads

(* An observer that is past its early return carries a finite value.       *)
ArgTyped ==
  \A t \in Observers :
    pc[t] \in {"push", "prune", "add_count", "add_sum"} => arg[t] \in Values

Typed == TypeOK /\ ArgTyped

(* Pruning leaves a sequence of the same values, no longer than            *)
(* max_observations if it was at most one longer and something is erased.  *)
LEMMA PrunedProperties ==
  ASSUME NEW s \in Seq(Values)
  PROVE  /\ Pruned(s) \in Seq(Values)
         /\ Len(Pruned(s)) <= Len(s)
         /\ MaxObservations >= 2 /\ Len(s) <= MaxObservations + 1
              => Len(Pruned(s)) <= MaxObservations
<1>1. CASE Len(s) <= MaxObservations
  BY <1>1 DEF Pruned
<1>2. CASE Len(s) > MaxObservations
  <2> DEFINE half == MaxObservations \div 2
  <2>1. /\ half \in 0 .. MaxObservations
        /\ MaxObservations >= 2 => half >= 1
    OBVIOUS
  <2> HIDE DEF half
  <2>2. \A i \in half + 1 .. Len(s) : s[i] \in Values
    BY <2>1
  <2>3. /\ SubSeq(s, half + 1, Len(s)) \in Seq(Values)
        /\ Len(SubSeq(s, half + 1, Len(s))) = Len(s) - half
    BY <1>2, <2>1, <2>2, SubSeqProperties
  <2>4. Pruned(s) = SubSeq(s, half + 1, Len(s))
    BY <1>2 DEF Pruned, half
  <2> QED
    BY <1>2, <2>1, <2>3, <2>4
<1> QED
  BY <1>1, <1>2

-----------------------------------------------------------------------------

LEMMA TypedInit == Init => Typed
<1> SUFFICES ASSUME Init PROVE Typed
  OBVIOUS
<1>1. observations \in Seq(Values) /\ snapshot \in [Scrapers -> Seq(Values)]
  BY DEF Init
<1>2. pc \in [Threads -> ObserverLabels \cup ScraperLabels \cup ResetterLabels]
  BY DEF Init, ObserverLabels
<1>3. arg \in [Observers -> Values \cup {0}] /\ readSum \in [Scrapers -> Int]
  BY DEF Init
<1>4. /\ totalCount \in Nat /\ totalSum \in Int /\ calls \in 0 .. MaxCalls
      /\ recorded \in [count : Nat, sum : Int]
  BY DEF Init
<1>5. /\ mutex \in Threads \cup {NoThread}
      /\ DOMAIN report = Scrapers
      /\ straddled \in BOOLEAN
  BY DEF Init
<1>6. ArgTyped
  BY DEF Init, ArgTyped
<1> QED
  BY <1>1, <1>2, <1>3, <1>4, <1>5, <1>6 DEF Typed, TypeOK

LEMMA TypedStep == Typed /\ [Next]_vars => Typed'
<1> SUFFICES ASSUME Typed, [Next]_vars PROVE Typed'
  OBVIOUS
<1> USE DEF Typed, TypeOK, ArgTyped, Goto, Acquire, Release, Call
<1> USE DEF ObserverLabels, ScraperLabels, ResetterLabels
<1>1. ASSUME NEW t \in Observers, NEW v \in Values \cup {NonFinite}, Observe(t, v)
      PROVE  Typed'
  <2>1. CASE v = NonFinite
    BY <1>1, <2>1 DEF Observe
  <2>2. CASE v # NonFinite
    <3> USE <1>1, <2>2 DEF Observe
    <3>1. /\ v \in Values
          /\ arg' = [arg EXCEPT ![t] = v]
          /\ pc' = [pc EXCEPT ![t] = "push"]
      OBVIOUS
    <3>2. arg' \in [Observers -> Values \cup {0}]
      BY <3>1
    <3>3. ArgTyped'
      BY <3>1
    <3>4. calls' \in 0 .. MaxCalls
      OBVIOUS
    <3> QED
      BY <3>1, <3>2, <3>3, <3>4
  <2> QED
    BY <2>1, <2>2
<1>2. ASSUME NEW t \in Observers, Push(t) PROVE Typed'
  <2> USE <1>2 DEF Push
  <2>1. arg[t] \in Values
    OBVIOUS
  <2>2. observations' \in Seq(Values)
    BY <2>1
  <2>3. recorded' \in [count : Nat, sum : Int]
    <3>1. /\ recorded.count \in Nat /\ recorded.sum \in Int
          /\ arg[t] \in Int
      BY <2>1
    <3> QED
      BY <3>1
  <2> QED
    BY <2>2, <2>3
<1>3. ASSUME NEW t \in Observers, Prune(t) PROVE Typed'
  BY <1>3, PrunedProperties DEF Prune
<1>4. ASSUME NEW t \in Observers, AddCount(t) PROVE Typed'
  BY <1>4 DEF AddCount
<1>5. ASSUME NEW t \in Observers, AddSum(t) PROVE Typed'
  BY <1>5 DEF AddSum
<1>6. ASSUME NEW t \in Scrapers, Serialize(t) PROVE Typed'
  BY <1>6 DEF Serialize
<1>7. ASSUME NEW t \in Scrapers, CopyLock(t) PROVE Typed'
  BY <1>7 DEF CopyLock
<1>8. ASSUME NEW t \in Scrapers, CopyNext(t) PROVE Typed'
  BY <1>8 DEF CopyNext
<1>9. ASSUME NEW t \in Scrapers, CopyDone(t) PROVE Typed'
  BY <1>9 DEF CopyDone
<1>10. ASSUME NEW t \in Scrapers, ReadSum(t) PROVE Typed'
  BY <1>10 DEF ReadSum
<1>11. ASSUME NEW t \in Scrapers, ReadCount(t) PROVE Typed'
  BY <1>11 DEF ReadCount
<1>12. ASSUME NEW t \in Resetters, Reset(t) PROVE Typed'
  BY <1>12 DEF Reset
<1>13. ASSUME NEW t \in Resetters, ClearWindow(t) PROVE Typed'
  BY <1>13 DEF ClearWindow
<1>14. ASSUME NEW t \in Resetters, ZeroCount(t) PROVE Typed'
  BY <1>14 DEF ZeroCount
<1>15. ASSUME NEW t \in Resetters, ZeroSum(t) PROVE Typed'
  BY <1>15 DEF ZeroSum
<1>16. CASE UNCHANGED vars
  BY <1>16 DEF vars
<1> QED
  BY <1>1, <1>2, <1>3, <1>4, <1>5, <1>6, <1>7, <1>8, <1>9, <1>10, <1>11, <1>12,
     <1>13, <1>14, <1>15, <1>16
  DEF Next, Finished, ObserveStep, SerializeStep, ResetStep

LEMMA AlwaysTyped == Spec => []Typed
BY TypedInit, TypedStep, PTL DEF Spec

(* Every variable of the summary keeps a value of its kind.                *)
THEOREM TypeCorrect == Spec => []TypeOK
BY AlwaysTyped, PTL DEF Typed

-----------------------------------------------------------------------------
(* The mutex: its owner is the one thread inside a critical section.       *)

MutexOwned == \A t \in Threads : mutex = t <=> pc[t] \in Critical

LEMMA MutexOwnedStep == Typed /\ MutexOwned /\ [Next]_vars => MutexOwned'
<1> SUFFICES ASSUME Typed, MutexOwned, [Next]_vars PROVE MutexOwned'
  OBVIOUS
<1> USE DEF Typed, TypeOK, MutexOwned, Critical, Goto, Acquire, Release, Call
<1>1. ASSUME NEW t \in Observers, NEW v \in Values \cup {NonFinite}, Observe(t, v)
      PROVE  MutexOwned'
  BY <1>1 DEF Observe
<1>2. ASSUME NEW t \in Observers, ObserveStep(t) PROVE MutexOwned'
  BY <1>2 DEF ObserveStep, Push, Prune, AddCount, AddSum
<1>3. ASSUME NEW t \in Scrapers, Serialize(t) PROVE MutexOwned'
  BY <1>3 DEF Serialize
<1>4. ASSUME NEW t \in Scrapers, SerializeStep(t) PROVE MutexOwned'
  BY <1>4 DEF SerializeStep, CopyLock, CopyNext, CopyDone, ReadSum, ReadCount
<1>5. ASSUME NEW t \in Resetters, Reset(t) PROVE MutexOwned'
  BY <1>5 DEF Reset
<1>6. ASSUME NEW t \in Resetters, ResetStep(t) PROVE MutexOwned'
  BY <1>6 DEF ResetStep, ClearWindow, ZeroCount, ZeroSum
<1>7. CASE UNCHANGED vars
  BY <1>7 DEF vars
<1> QED
  BY <1>1, <1>2, <1>3, <1>4, <1>5, <1>6, <1>7 DEF Next, Finished

(* No two threads are inside the mutex at once.                            *)
THEOREM MutexIsOwned == Spec => []MutexOwned
<1>1. Init => MutexOwned
  BY DEF Init, MutexOwned, Critical
<1> QED
  BY <1>1, AlwaysTyped, MutexOwnedStep, PTL DEF Spec

-----------------------------------------------------------------------------
(* The window.  WindowBounded speaks of the moments at which the mutex is  *)
(* free; in between, the window is one longer while a thread is about to   *)
(* prune it.                                                               *)

WindowInv ==
  /\ Len(observations) <= MaxObservations + 1
  /\ (\A t \in Threads : pc[t] # "prune") => Len(observations) <= MaxObservations

LEMMA WindowStep ==
  MaxObservations >= 2 =>
    (Typed /\ MutexOwned /\ WindowInv /\ [Next]_vars => WindowInv')
<1> SUFFICES ASSUME MaxObservations >= 2, Typed, MutexOwned, WindowInv, [Next]_vars
             PROVE  WindowInv'
  OBVIOUS
<1> USE DEF Typed, TypeOK, MutexOwned, Critical, WindowInv, Goto, Acquire, Release,
            Call
<1>1. ASSUME NEW t \in Observers, NEW v \in Values \cup {NonFinite}, Observe(t, v)
      PROVE  WindowInv'
  BY <1>1 DEF Observe
<1>2. ASSUME NEW t \in Observers, Push(t) PROVE WindowInv'
  <2>1. \A u \in Threads : pc[u] # "prune"
    BY <1>2 DEF Push
  <2>2. arg[t] \in Values /\ Len(observations') = Len(observations) + 1
    BY <1>2 DEF Push, ArgTyped
  <2>3. pc'[t] = "prune" /\ t \in Threads
    BY <1>2 DEF Push
  <2> QED
    BY <2>1, <2>2, <2>3
<1>3. ASSUME NEW t \in Observers, Prune(t) PROVE WindowInv'
  <2>1. Len(observations') <= MaxObservations
    BY <1>3, PrunedProperties DEF Prune
  <2>2. Len(observations') \in Nat
    BY <1>3, PrunedProperties DEF Prune
  <2> QED
    BY <2>1, <2>2
<1>4. ASSUME NEW t \in Observers, AddCount(t) \/ AddSum(t) PROVE WindowInv'
  BY <1>4 DEF AddCount, AddSum
<1>5. ASSUME NEW t \in Scrapers, Serialize(t) \/ SerializeStep(t) PROVE WindowInv'
  BY <1>5 DEF Serialize, SerializeStep, CopyLock, CopyNext, CopyDone, ReadSum,
              ReadCount
<1>6. ASSUME NEW t \in Resetters, Reset(t) \/ ZeroCount(t) \/ ZeroSum(t)
      PROVE  WindowInv'
  BY <1>6 DEF Reset, ZeroCount, ZeroSum
<1>7. ASSUME NEW t \in Resetters, ClearWindow(t) PROVE WindowInv'
  BY <1>7 DEF ClearWindow
<1>8. CASE UNCHANGED vars
  BY <1>8 DEF vars
<1> QED
  BY <1>1, <1>2, <1>3, <1>4, <1>5, <1>6, <1>7, <1>8
  DEF Next, Finished, ObserveStep, ResetStep

(* Whatever the number of observers, the window never exceeds              *)
(* max_observations while the mutex is free, if max_observations >= 2.     *)
THEOREM WindowIsBounded ==
  ASSUME MaxObservations >= 2
  PROVE  Spec => []WindowBounded
<1>1. Init => WindowInv
  BY DEF Init, WindowInv
<1>2. Typed /\ MutexOwned /\ WindowInv /\ [Next]_vars => WindowInv'
  BY WindowStep
<1>3. MutexOwned /\ WindowInv /\ Typed => WindowBounded
  BY DEF MutexOwned, WindowInv, WindowBounded, Typed, TypeOK, Critical
<1> QED
  BY <1>1, <1>2, <1>3, AlwaysTyped, MutexIsOwned, PTL DEF Spec

-----------------------------------------------------------------------------
(* The count.                                                              *)

(* While a reset is storing its zeros, nothing can be pushed: the window   *)
(* is still as the reset has left it.                                      *)
ClearedInv ==
  \A t \in Threads : pc[t] \in {"zero_count", "zero_sum"} => observations = << >>

(* A reset that no observe straddles finds nothing on its way to the count *)
(* and, before it has stored zero there, nothing recorded.                 *)
ZeroingInv ==
  ~straddled =>
    \A t \in Threads :
      pc[t] = "zero_count" => Uncounted = {} /\ recorded.count = 0

CountInv == ClearedInv /\ ZeroingInv /\ CountCoversWindow /\ CountExact

LEMMA UncountedFinite ==
  /\ IsFiniteSet(Uncounted)
  /\ Cardinality(Uncounted) \in Nat
<1>1. Uncounted \in SUBSET Threads /\ IsFiniteSet(Threads)
  BY DEF Uncounted
<1> HIDE DEF Threads
<1>2. IsFiniteSet(Uncounted)
  BY <1>1, FS_Subset
<1> QED
  BY <1>2, FS_CardinalityType

LEMMA CountStep == Typed /\ MutexOwned /\ CountInv /\ [Next]_vars => CountInv'
<1> SUFFICES ASSUME Typed, MutexOwned, CountInv, [Next]_vars PROVE CountInv'
  OBVIOUS
<1> USE DEF Typed, TypeOK, MutexOwned, Critical, Goto, Acquire, Release, Call
<1>a. /\ IsFiniteSet(Uncounted)
      /\ Cardinality(Uncounted) \in Nat
      /\ totalCount \in Nat
      /\ recorded.count \in Nat /\ recorded.sum \in Int
      /\ Len(observations) \in Nat
  BY UncountedFinite
(* A step that leaves the window, the count, and the threads that have     *)
(* still to count or to store zeros as they are.                           *)
<1>b. ASSUME UNCHANGED <<observations, totalCount, recorded, straddled>>,
             Uncounted' = Uncounted,
             \A t \in Threads :
               \A label \in {"zero_count", "zero_sum"} :
                 pc'[t] = label <=> pc[t] = label
      PROVE  CountInv'
  BY <1>b DEF CountInv, ClearedInv, ZeroingInv, CountCoversWindow, CountExact
<1>1. ASSUME NEW t \in Observers, NEW v \in Values \cup {NonFinite}, Observe(t, v)
      PROVE  CountInv'
  BY <1>1, <1>b DEF Observe, Uncounted
<1>2. ASSUME NEW t \in Observers, Push(t) PROVE CountInv'
  <2> USE <1>2 DEF Push
  <2>1. Uncounted' = Uncounted \cup {t} /\ t \notin Uncounted
    BY DEF Uncounted
  <2>2. Cardinality(Uncounted') = Cardinality(Uncounted) + 1
    BY <1>a, <2>1, FS_AddElement
  <2>3. \A u \in Threads : pc'[u] \notin {"zero_count", "zero_sum"}
    OBVIOUS
  <2>4. /\ Len(observations') = Len(observations) + 1
        /\ recorded'.count = recorded.count + 1
    BY DEF ArgTyped
  <2>5. \A u \in Threads : pc[u] # "zero_count"
    OBVIOUS
  <2> QED
    BY <1>a, <2>2, <2>3, <2>4, <2>5
    DEF CountInv, ClearedInv, ZeroingInv, CountCoversWindow, CountExact
<1>3. ASSUME NEW t \in Observers, Prune(t) PROVE CountInv'
  <2> USE <1>3 DEF Prune
  <2>1. Uncounted' = Uncounted
    BY DEF Uncounted
  <2>2. \A u \in Threads : /\ pc'[u] \notin {"zero_count", "zero_sum"}
                           /\ pc[u] # "zero_count"
    OBVIOUS
  <2>3. Len(observations') \in Nat /\ Len(observations') <= Len(observations)
    BY PrunedProperties
  <2> QED
    BY <1>a, <2>1, <2>2, <2>3
    DEF CountInv, ClearedInv, ZeroingInv, CountCoversWindow, CountExact
<1>4. ASSUME NEW t \in Observers, AddCount(t) PROVE CountInv'
  <2> USE <1>4 DEF AddCount
  <2>1. Uncounted' = Uncounted \ {t} /\ t \in Uncounted
    BY DEF Uncounted
  <2>2. Cardinality(Uncounted') = Cardinality(Uncounted) - 1
    BY <1>a, <2>1, FS_RemoveElement
  <2>3. \A u \in Threads :
          \A label \in {"zero_count", "zero_sum"} :
            pc'[u] = label <=> pc[u] = label
    OBVIOUS
  <2>4. ClearedInv'
    BY <2>3 DEF CountInv, ClearedInv
  <2>5. ZeroingInv'
    BY <2>1, <2>3 DEF CountInv, ZeroingInv
  <2>6. totalCount' + Cardinality(Uncounted') = totalCount + Cardinality(Uncounted)
    BY <1>a, <2>2
  <2>7. CountCoversWindow' /\ CountExact'
    BY <2>3, <2>6 DEF CountInv, CountCoversWindow, CountExact
  <2> QED
    BY <2>4, <2>5, <2>7 DEF CountInv
<1>5. ASSUME NEW t \in Observers, AddSum(t) PROVE CountInv'
  BY <1>5, <1>b DEF AddSum, Uncounted
<1>6. ASSUME NEW t \in Scrapers, Serialize(t) PROVE CountInv'
  BY <1>6, <1>b DEF Serialize, Uncounted
<1>7. ASSUME NEW t \in Scrapers, SerializeStep(t) PROVE CountInv'
  BY <1>7, <1>b DEF SerializeStep, CopyLock, CopyNext, CopyDone, ReadSum,
                    ReadCount, Uncounted
<1>8. ASSUME NEW t \in Resetters, Reset(t) PROVE CountInv'
  BY <1>8, <1>b DEF Reset, Uncounted
<1>9. ASSUME NEW t \in Resetters, ClearWindow(t) PROVE CountInv'
  <2> USE <1>9 DEF ClearWindow
  <2>1. /\ observations' = << >> /\ recorded'.count = 0
        /\ totalCount' = totalCount /\ pc'[t] = "zero_count" /\ t \in Threads
    OBVIOUS
  <2>2. Uncounted' = Uncounted
    BY DEF Uncounted
  <2>3. ~straddled' => Uncounted = {}
    <3>1. \A u \in Threads : pc[u] # "prune"
      OBVIOUS
    <3>2. Adding = {} => \A u \in Threads : pc[u] # "add_count"
      BY DEF Adding
    <3>3. ~straddled' => Adding = {}
      OBVIOUS
    <3> QED
      BY <3>1, <3>2, <3>3 DEF Uncounted
  <2> QED
    BY <1>a, <2>1, <2>2, <2>3
    DEF CountInv, ClearedInv, ZeroingInv, CountCoversWindow, CountExact
<1>10. ASSUME NEW t \in Resetters, ZeroCount(t) PROVE CountInv'
  <2> USE <1>10 DEF ZeroCount
  <2>1. Uncounted' = Uncounted
    BY DEF Uncounted
  <2>2. observations = << >>
    BY DEF CountInv, ClearedInv
  <2>3. ~straddled => Uncounted = {} /\ recorded.count = 0
    BY DEF CountInv, ZeroingInv
  <2>4. Cardinality({}) = 0
    BY FS_EmptySet
  <2>5. \A u \in Threads : pc'[u] # "zero_count"
    OBVIOUS
  <2>6. ClearedInv'
    BY <2>2 DEF CountInv, ClearedInv
  <2>7. ZeroingInv'
    BY <2>5 DEF ZeroingInv
  <2>8. CountCoversWindow'
    BY <1>a, <2>1, <2>2 DEF CountCoversWindow
  <2>9. CountExact'
    <3>1. totalCount' = 0 /\ recorded' = recorded /\ straddled' = straddled
      OBVIOUS
    <3>2. ASSUME ~straddled'
          PROVE  Cardinality(Uncounted') = 0 /\ recorded'.count = 0
      <4>1. ~straddled
        BY <3>1, <3>2
      <4>2. Uncounted = {} /\ recorded.count = 0
        BY <2>3, <4>1
      <4>3. Uncounted' = {}
        BY <2>1, <4>2
      <4>4. Cardinality(Uncounted') = 0
        BY <2>4, <4>3
      <4> QED
        BY <3>1, <4>2, <4>4
    <3> QED
      BY <3>1, <3>2 DEF CountExact
  <2> QED
    BY <2>6, <2>7, <2>8, <2>9 DEF CountInv
<1>11. ASSUME NEW t \in Resetters, ZeroSum(t) PROVE CountInv'
  <2> USE <1>11 DEF ZeroSum
  <2>1. Uncounted' = Uncounted
    BY DEF Uncounted
  <2>2. \A u \in Threads :
          /\ pc[u] # "zero_count" /\ pc'[u] # "zero_count"
          /\ pc'[u] # "zero_sum"
    OBVIOUS
  <2> QED
    BY <1>a, <2>1, <2>2
    DEF CountInv, ClearedInv, ZeroingInv, CountCoversWindow, CountExact
<1>12. CASE UNCHANGED vars
  BY <1>12, <1>b DEF vars, Uncounted
<1> QED
  BY <1>1, <1>2, <1>3, <1>4, <1>5, <1>6, <1>7, <1>8, <1>9, <1>10, <1>11, <1>12
  DEF Next, Finished, ObserveStep, ResetStep

LEMMA AlwaysCountInv == Spec => []CountInv
<1>1. Init => CountInv
  <2> SUFFICES ASSUME Init PROVE CountInv
    OBVIOUS
  <2>1. Uncounted = {} /\ \A t \in Threads : pc[t] = "idle"
    BY DEF Init, Uncounted
  <2>2. Cardinality({}) = 0
    BY FS_EmptySet
  <2>3. /\ totalCount = 0 /\ recorded.count = 0
        /\ Len(observations) = 0 /\ observations = << >>
    BY DEF Init
  <2> QED
    BY <2>1, <2>2, <2>3
    DEF CountInv, ClearedInv, ZeroingInv, CountCoversWindow, CountExact
<1> QED
  BY <1>1, CountStep, AlwaysTyped, MutexIsOwned, PTL DEF Spec

(* Resets included, the count never falls behind the window by more than   *)
(* the observations on their way to it.                                    *)
THEOREM CountAlwaysCovers == Spec => []CountCoversWindow
BY AlwaysCountInv, PTL DEF CountInv

(* Unless an observe straddled the last reset, the count lacks exactly the *)
(* observations on their way to it.                                        *)
THEOREM CountIsExact == Spec => []CountExact
BY AlwaysCountInv, PTL DEF CountInv

-----------------------------------------------------------------------------
(* The copy of a scrape.                                                   *)

LEMMA SnapshotStep ==
  Typed /\ MutexOwned /\ SnapshotIsWindow /\ [Next]_vars => SnapshotIsWindow'
<1> SUFFICES ASSUME Typed, MutexOwned, SnapshotIsWindow, [Next]_vars,
                    NEW s \in Scrapers, pc'[s] = "copy"
             PROVE  (\E n \in 0 .. Len(observations) :
                       snapshot[s] = SubSeq(observations, 1, n))'
  BY DEF SnapshotIsWindow
<1> USE DEF Typed, TypeOK, MutexOwned, Critical, Goto, Acquire, Release, Call
(* Nobody else has the mutex, so the window stands still.                  *)
<1>a. ASSUME pc[s] = "copy", UNCHANGED <<observations, snapshot>>
      PROVE  (\E n \in 0 .. Len(observations) :
                snapshot[s] = SubSeq(observations, 1, n))'
  BY <1>a DEF SnapshotIsWindow
<1>1. ASSUME NEW t \in Observers, NEW v \in Values \cup {NonFinite}, Observe(t, v)
      PROVE  pc[s] = "copy" /\ UNCHANGED <<observations, snapshot>>
  BY <1>1 DEF Observe
<1>2. ASSUME NEW t \in Observers, ObserveStep(t)
      PROVE  pc[s] = "copy" /\ UNCHANGED <<observations, snapshot>>
  BY <1>2 DEF ObserveStep, Push, Prune, AddCount, AddSum
<1>3. ASSUME NEW t \in Scrapers, Serialize(t) \/ CopyDone(t) \/ ReadSum(t)
      PROVE  pc[s] = "copy" /\ UNCHANGED <<observations, snapshot>>
  BY <1>3 DEF Serialize, CopyDone, ReadSum
<1>4. ASSUME NEW t \in Scrapers, ReadCount(t)
      PROVE  (\E n \in 0 .. Len(observations) :
                snapshot[s] = SubSeq(observations, 1, n))'
  <2>1. t # s /\ pc[s] = "copy" /\ snapshot'[s] = snapshot[s]
        /\ observations' = observations
    BY <1>4 DEF ReadCount
  <2> QED
    BY <2>1 DEF SnapshotIsWindow
<1>5. ASSUME NEW t \in Scrapers, CopyLock(t)
      PROVE  (\E n \in 0 .. Len(observations) :
                snapshot[s] = SubSeq(observations, 1, n))'
  <2>1. t = s
    BY <1>5 DEF CopyLock
  <2>2. snapshot'[s] = << >> /\ observations' = observations
    BY <1>5, <2>1 DEF CopyLock
  <2>3. SubSeq(observations, 1, 0) = << >>
    BY SubSeqEmpty
  <2>4. 0 \in 0 .. Len(observations')
    BY <2>2
  <2>5. snapshot'[s] = SubSeq(observations', 1, 0)
    BY <2>2, <2>3
  <2> QED
    BY <2>4, <2>5
<1>6. ASSUME NEW t \in Scrapers, CopyNext(t)
      PROVE  (\E n \in 0 .. Len(observations) :
                snapshot[s] = SubSeq(observations, 1, n))'
  <2>1. t = s /\ pc[s] = "copy"
    BY <1>6 DEF CopyNext
  <2>2. PICK n \in 0 .. Len(observations) : snapshot[s] = SubSeq(observations, 1, n)
    BY <2>1 DEF SnapshotIsWindow
  <2>3. Len(snapshot[s]) = n
    <3>1. \A i \in 1 .. n : observations[i] \in Values
      OBVIOUS
    <3> QED
      BY <2>2, <3>1, SubSeqProperties
  <2>4. n + 1 \in 1 .. Len(observations) /\ observations[n + 1] \in Values
    BY <1>6, <2>1, <2>3 DEF CopyNext
  <2>5. snapshot'[s] = Append(SubSeq(observations, 1, n), observations[n + 1])
    BY <1>6, <2>1, <2>2, <2>3 DEF CopyNext
  <2>6. SubSeq(observations, 1, n) \in Seq(Values)
    BY <2>2
  <2>7. SubSeq(observations, 1, n + 1)
          = SubSeq(observations, 1, (n + 1) - 1) \o <<observations[n + 1]>>
    BY <2>4, SubSeqRecursiveSecond
  <2>8. snapshot'[s] = SubSeq(observations, 1, n + 1)
    BY <2>4, <2>5, <2>6, <2>7, AppendIsConcat
  <2>9. observations' = observations
    BY <1>6 DEF CopyNext
  <2>10. n + 1 \in 0 .. Len(observations')
    BY <2>4, <2>9
  <2>11. snapshot'[s] = SubSeq(observations', 1, n + 1)
    BY <2>8, <2>9
  <2> QED
    BY <2>10, <2>11
<1>7. ASSUME NEW t \in Resetters, Reset(t) \/ ResetStep(t)
      PROVE  pc[s] = "copy" /\ UNCHANGED <<observations, snapshot>>
  BY <1>7 DEF Reset, ResetStep, ClearWindow, ZeroCount, ZeroSum
<1>8. CASE UNCHANGED vars
  BY <1>8, <1>a DEF vars
<1> QED
  BY <1>a, <1>1, <1>2, <1>3, <1>4, <1>5, <1>6, <1>7, <1>8
  DEF Next, Finished, SerializeStep

(* A scraper copies the window as it is, never a mixture of two.           *)
THEOREM SnapshotIsAlwaysWindow == Spec => []SnapshotIsWindow
<1>1. Init => SnapshotIsWindow
  BY DEF Init, SnapshotIsWindow
<1> QED
  BY <1>1, SnapshotStep, AlwaysTyped, MutexIsOwned, PTL DEF Spec

-----------------------------------------------------------------------------
(* The sum.                                                                *)

(* Threads that have put their value into the window and have not yet      *)
(* added it to _total_sum, and resets that have not stored both zeros.     *)
Unsummed == {t \in Threads : pc[t] \in {"prune", "add_count", "add_sum"}}
Zeroing == {t \in Threads : pc[t] \in {"zero_count", "zero_sum"}}

(* Only observers observe.  While a reset that no observe straddles has    *)
(* not stored its zeros, nothing is on its way to the sum and nothing is   *)
(* recorded; otherwise the sum lacks the arguments of the observers that   *)
(* have still to add them.                                                 *)
SumInv ==
  /\ \A t \in Threads :
       pc[t] \in {"push", "prune", "add_count", "add_sum"} => t \in Observers
  /\ ~straddled /\ Zeroing # {} => Unsummed = {} /\ recorded.sum = 0
  /\ \E f : /\ Sums(f, Observers, arg)
            /\ ~straddled /\ Zeroing = {} => totalSum + f[Unsummed] = recorded.sum

LEMMA SumInit == Init => SumInv
<1> SUFFICES ASSUME Init PROVE SumInv
  OBVIOUS
<1> DEFINE f == [T \in SUBSET Observers |-> 0]
<1>1. arg \in [Observers -> Int] /\ \A t \in Observers : arg[t] = 0
  BY DEF Init
<1>2. Sums(f, Observers, arg) /\ f[{}] = 0
  BY <1>1 DEF Sums
<1>3. /\ Unsummed = {} /\ Zeroing = {} /\ recorded.sum = 0 /\ totalSum = 0
      /\ \A t \in Threads : pc[t] = "idle"
  BY DEF Init, Unsummed, Zeroing
<1> HIDE DEF f
<1> QED
  BY <1>2, <1>3 DEF SumInv

LEMMA SumStep == Typed /\ MutexOwned /\ SumInv /\ [Next]_vars => SumInv'
<1> SUFFICES ASSUME Typed, MutexOwned, SumInv, [Next]_vars PROVE SumInv'
  OBVIOUS
<1> USE DEF Goto, Acquire, Release, Call
<1>1. /\ totalSum \in Int /\ recorded.sum \in Int
      /\ pc \in [Threads -> ObserverLabels \cup ScraperLabels \cup ResetterLabels]
      /\ arg \in [Observers -> Values \cup {0}]
      /\ \A t \in Threads : mutex = t <=> pc[t] \in Critical
      /\ \A t \in Threads :
           pc[t] \in {"push", "prune", "add_count", "add_sum"} => t \in Observers
      /\ ~straddled /\ Zeroing # {} => Unsummed = {} /\ recorded.sum = 0
  BY DEF Typed, TypeOK, MutexOwned, SumInv
<1>2. /\ arg \in [Observers -> Int] /\ Values \cup {0} \subseteq Int
      /\ Unsummed \in SUBSET Observers
  <2>1. Values \cup {0} \subseteq Int
    OBVIOUS
  <2>2. arg \in [Observers -> Int]
    BY ONLY <1>1, <2>1
  <2> QED
    BY <1>1, <2>1, <2>2 DEF Unsummed
<1>3. PICK f : /\ Sums(f, Observers, arg)
               /\ ~straddled /\ Zeroing = {} => totalSum + f[Unsummed] = recorded.sum
  BY DEF SumInv
<1>4. /\ f \in [SUBSET Observers -> Int] /\ f[{}] = 0 /\ f[Unsummed] \in Int
      /\ \A T \in SUBSET Observers : \A u \in Observers \ T : f[T \cup {u}] = f[T] + arg[u]
  BY <1>2, <1>3 DEF Sums
(* A step that leaves the sum and the threads that have still to change it *)
(* as they are.                                                            *)
<1>5. ASSUME NEW t \in Threads, NEW label, pc' = [pc EXCEPT ![t] = label],
             label \notin {"push", "prune", "add_count", "add_sum", "zero_count", "zero_sum"},
             pc[t] \notin {"prune", "add_count", "add_sum", "zero_count", "zero_sum"},
             UNCHANGED <<totalSum, recorded, straddled, arg>>
      PROVE  SumInv'
  <2>1. Unsummed' = Unsummed /\ Zeroing' = Zeroing
    BY <1>1, <1>5 DEF Unsummed, Zeroing
  <2> QED
    BY <1>1, <1>3, <1>5, <2>1 DEF SumInv
<1>6. ASSUME UNCHANGED <<totalSum, recorded, straddled, arg, pc>> PROVE SumInv'
  <2>1. Unsummed' = Unsummed /\ Zeroing' = Zeroing
    BY <1>6 DEF Unsummed, Zeroing
  <2> QED
    BY <1>1, <1>3, <1>6, <2>1 DEF SumInv
<1>7. ASSUME NEW t \in Observers, NEW v \in Values \cup {NonFinite}, Observe(t, v)
      PROVE  SumInv'
  <2>1. UNCHANGED <<totalSum, recorded, straddled>> /\ pc[t] = "idle" /\ t \in Threads
    BY <1>7 DEF Observe
  <2>2. CASE v = NonFinite
    BY <1>6, <1>7, <2>1, <2>2 DEF Observe
  <2>3. CASE v # NonFinite
    <3> DEFINE w == [arg EXCEPT ![t] = v]
    <3>1. /\ v \in Int /\ pc' = [pc EXCEPT ![t] = "push"] /\ arg' = w
      BY <1>2, <1>7, <2>3 DEF Observe
    <3>2. w \in [Observers -> Int] /\ w[t] = v /\ \A s \in Observers \ {t} : w[s] = arg[s]
      BY <1>2, <3>1
    <3> HIDE DEF w
    <3>3. PICK g : Sums(g, Observers, w) /\ \A T \in SUBSET (Observers \ {t}) : g[T] = f[T]
      BY <1>2, <1>3, <3>2, WeightReplaced
    <3>4. Unsummed' = Unsummed /\ Zeroing' = Zeroing /\ t \notin Unsummed
      BY <1>1, <2>1, <3>1 DEF Unsummed, Zeroing
    <3>5. g[Unsummed] = f[Unsummed]
      BY <1>2, <3>3, <3>4
    <3>6. \A u \in Threads :
            pc'[u] \in {"push", "prune", "add_count", "add_sum"} => u \in Observers
      BY <1>1, <3>1
    <3>7. ~straddled' /\ Zeroing' = {} => totalSum' + g[Unsummed'] = recorded'.sum
      BY <1>3, <2>1, <3>4, <3>5
    <3> QED
      BY <1>1, <2>1, <3>1, <3>3, <3>4, <3>6, <3>7 DEF SumInv
  <2> QED
    BY <2>2, <2>3
<1>8. ASSUME NEW t \in Observers, Push(t) PROVE SumInv'
  <2>1. /\ pc[t] = "push" /\ t \in Threads /\ mutex = NoThread
        /\ recorded' = [count |-> recorded.count + 1, sum |-> recorded.sum + arg[t]]
        /\ pc' = [pc EXCEPT ![t] = "prune"]
        /\ UNCHANGED <<totalSum, straddled, arg>>
    BY <1>8 DEF Push
  <2>2. Zeroing = {} /\ Zeroing' = {}
    BY <1>1, <2>1 DEF Zeroing, Critical
  <2>3. t \notin Unsummed /\ Unsummed' = Unsummed \cup {t}
    BY <1>1, <2>1 DEF Unsummed
  <2>4. f[Unsummed \cup {t}] = f[Unsummed] + arg[t] /\ arg[t] \in Int
    BY <1>2, <1>4, <2>3
  <2>5. recorded'.sum = recorded.sum + arg[t]
    BY <2>1
  <2>6. ~straddled => totalSum + f[Unsummed \cup {t}] = recorded'.sum
    BY <1>1, <1>3, <1>4, <2>2, <2>4, <2>5
  <2>7. \A u \in Threads :
          pc'[u] \in {"push", "prune", "add_count", "add_sum"} => u \in Observers
    BY <1>1, <2>1
  <2> QED
    BY <1>3, <2>1, <2>2, <2>3, <2>6, <2>7 DEF SumInv
<1>9. ASSUME NEW t \in Observers, Prune(t) \/ AddCount(t) PROVE SumInv'
  <2>1. /\ pc[t] \in {"prune", "add_count"} /\ t \in Threads
        /\ \/ pc' = [pc EXCEPT ![t] = "add_count"]
           \/ pc' = [pc EXCEPT ![t] = "add_sum"]
        /\ UNCHANGED <<totalSum, recorded, straddled, arg>>
    BY <1>9 DEF Prune, AddCount
  <2>2. Unsummed' = Unsummed /\ Zeroing' = Zeroing
    BY <1>1, <2>1 DEF Unsummed, Zeroing
  <2>3. \A u \in Threads :
          pc'[u] \in {"push", "prune", "add_count", "add_sum"} => u \in Observers
    BY <1>1, <2>1
  <2> QED
    BY <1>1, <1>3, <2>1, <2>2, <2>3 DEF SumInv
<1>10. ASSUME NEW t \in Observers, AddSum(t) PROVE SumInv'
  <2>1. /\ pc[t] = "add_sum" /\ t \in Threads
        /\ pc' = [pc EXCEPT ![t] = "idle"]
        /\ totalSum' = totalSum + arg[t]
        /\ UNCHANGED <<recorded, straddled, arg>>
    BY <1>10 DEF AddSum
  <2>2. Zeroing' = Zeroing
    BY <1>1, <2>1 DEF Zeroing
  <2> DEFINE Rest == Unsummed \ {t}
  <2>3. t \in Unsummed /\ Unsummed' = Rest
    BY <1>1, <2>1 DEF Unsummed
  <2>4. Rest \in SUBSET Observers /\ t \in Observers \ Rest /\ Rest \cup {t} = Unsummed
    BY <1>2, <2>3
  <2> HIDE DEF Rest
  <2>5. f[Unsummed] = f[Rest] + arg[t] /\ arg[t] \in Int /\ f[Rest] \in Int
    BY <1>2, <1>4, <2>4
  <2>6. ~straddled /\ Zeroing = {} => totalSum' + f[Rest] = recorded.sum
    BY <1>1, <1>3, <2>1, <2>5
  <2>7. Zeroing # {} => straddled
    BY <1>1, <2>3
  <2>8. \A u \in Threads :
          pc'[u] \in {"push", "prune", "add_count", "add_sum"} => u \in Observers
    BY <1>1, <2>1
  <2> QED
    BY <1>3, <2>1, <2>2, <2>3, <2>6, <2>7, <2>8 DEF SumInv
<1>11. ASSUME NEW t \in Scrapers, Serialize(t) \/ SerializeStep(t) PROVE SumInv'
  <2>1. /\ t \in Threads /\ UNCHANGED <<totalSum, recorded, straddled, arg>>
        /\ pc[t] \in {"idle", "copy_lock", "copy", "read_sum", "read_count"}
    BY <1>11 DEF Serialize, SerializeStep, CopyLock, CopyNext, CopyDone, ReadSum, ReadCount
  <2>2. \/ UNCHANGED pc
        \/ \E label \in {"idle", "copy_lock", "copy", "read_sum", "read_count"} :
             pc' = [pc EXCEPT ![t] = label]
    BY <1>11 DEF Serialize, SerializeStep, CopyLock, CopyNext, CopyDone, ReadSum, ReadCount
  <2> QED
    BY <1>5, <1>6, <2>1, <2>2
<1>12. ASSUME NEW t \in Resetters, Reset(t) PROVE SumInv'
  BY <1>5, <1>12 DEF Reset
<1>13. ASSUME NEW t \in Resetters, ClearWindow(t) PROVE SumInv'
  <2>1. /\ pc[t] = "clear" /\ t \in Threads /\ mutex = NoThread
        /\ recorded' = [count |-> 0, sum |-> 0]
        /\ straddled' = (Adding # {})
        /\ pc' = [pc EXCEPT ![t] = "zero_count"]
        /\ UNCHANGED <<totalSum, arg>>
    BY <1>13 DEF ClearWindow
  <2>2. t \in Zeroing'
    BY <1>1, <2>1 DEF Zeroing
  <2>3. \A u \in Threads : pc[u] # "prune"
    BY <1>1, <2>1 DEF Critical
  <2>4. ~straddled' => Unsummed = {}
    BY <2>1, <2>3 DEF Adding, Unsummed
  <2>5. Unsummed' = Unsummed /\ recorded'.sum = 0
    BY <1>1, <2>1 DEF Unsummed
  <2>6. \A u \in Threads :
          pc'[u] \in {"push", "prune", "add_count", "add_sum"} => u \in Observers
    BY <1>1, <2>1
  <2> QED
    BY <1>3, <2>1, <2>2, <2>4, <2>5, <2>6 DEF SumInv
<1>14. ASSUME NEW t \in Resetters, ZeroCount(t) PROVE SumInv'
  <2>1. /\ pc[t] = "zero_count" /\ t \in Threads
        /\ pc' = [pc EXCEPT ![t] = "zero_sum"]
        /\ UNCHANGED <<totalSum, recorded, straddled, arg>>
    BY <1>14 DEF ZeroCount
  <2>2. Unsummed' = Unsummed /\ Zeroing' = Zeroing
    BY <1>1, <2>1 DEF Unsummed, Zeroing
  <2>3. \A u \in Threads :
          pc'[u] \in {"push", "prune", "add_count", "add_sum"} => u \in Observers
    BY <1>1, <2>1
  <2> QED
    BY <1>1, <1>3, <2>1, <2>2, <2>3 DEF SumInv
<1>15. ASSUME NEW t \in Resetters, ZeroSum(t) PROVE SumInv'
  <2>1. /\ pc[t] = "zero_sum" /\ t \in Threads /\ totalSum' = 0
        /\ pc' = [pc EXCEPT ![t] = "idle"]
        /\ UNCHANGED <<recorded, straddled, arg>>
    BY <1>15 DEF ZeroSum
  <2>2. Unsummed' = Unsummed /\ t \in Zeroing
    BY <1>1, <2>1 DEF Unsummed, Zeroing
  <2>3. ~straddled => Unsummed = {} /\ recorded.sum = 0
    BY <1>1, <2>2
  <2>4. \A u \in Threads :
          pc'[u] \in {"push", "prune", "add_count", "add_sum"} => u \in Observers
    BY <1>1, <2>1
  <2>5. ~straddled => totalSum' + f[Unsummed] = recorded.sum
    <3>1. f[{}] = 0 /\ totalSum' = 0
      BY <1>4, <2>1
    <3>2. Unsummed = {} => f[Unsummed] = 0
      BY <3>1
    <3> QED
      BY ONLY <2>3, <3>1, <3>2
  <2> QED
    BY <1>3, <2>1, <2>2, <2>3, <2>4, <2>5 DEF SumInv
<1>16. CASE UNCHANGED vars
  BY <1>6, <1>16 DEF vars
<1> QED
  BY <1>7, <1>8, <1>9, <1>10, <1>11, <1>12, <1>13, <1>14, <1>15, <1>16
  DEF Next, Finished, ObserveStep, ResetStep

(* Unless an observe straddled the last reset, the sum comes to rest at    *)
(* that of the observations pushed since.                                  *)
THEOREM SumIsExact == Spec => []SumExact
<1>1. Typed /\ SumInv => SumExact
  <2>1. SUFFICES ASSUME Typed, SumInv, ~straddled, SumSettled
                 PROVE  totalSum = recorded.sum
    BY DEF SumExact
  <2>2. Unsummed = {} /\ Zeroing = {}
    BY <2>1 DEF SumSettled, Unsummed, Zeroing
  <2>3. PICK f : Sums(f, Observers, arg) /\ totalSum + f[Unsummed] = recorded.sum
    BY <2>1, <2>2 DEF SumInv
  <2>4. f[Unsummed] = 0 /\ totalSum \in Int
    BY <2>1, <2>2, <2>3 DEF Sums, Typed, TypeOK
  <2> QED
    BY <2>3, <2>4
<1> QED
  BY <1>1, SumInit, SumStep, AlwaysTyped, MutexIsOwned, PTL DEF Spec

-----------------------------------------------------------------------------
(* The quantiles of a scrape.                                              *)

LEMMA LinesAscend ==
  ASSUME Quantiles \in Seq(Nat), NEW s \in Seq(Values), NEW lines \in QuantileLines(s)
  PROVE  \A i, j \in 1 .. Len(lines) : i <= j => lines[i] <= lines[j]
<1>1. CASE s = << >>
  <2>1. lines = << >>
    BY <1>1 DEF QuantileLines
  <2> QED
    BY <2>1
<1>2. CASE s # << >>
  <2> DEFINE order == Sorted(Quantiles)
             n == Len(s)
             line(q) == {Sorted(s)[i + 1] : i \in QuantileIndexes(q, n)}
  <2>1. /\ lines \in [1 .. Len(order) -> {s[i] : i \in 1 .. Len(s)}]
        /\ \A i \in 1 .. Len(order) : lines[i] \in line(order[i])
    BY <1>2 DEF QuantileLines
  <2>2. s \in Seq(Int) /\ Quantiles \in Seq(Int)
    <3>1. Values \subseteq Int /\ Nat \subseteq Int
      OBVIOUS
    <3>2. Seq(Values) \subseteq Seq(Int)
      BY ONLY <3>1, SeqMonotonic
    <3>3. Seq(Nat) \subseteq Seq(Int)
      BY ONLY <3>1, SeqMonotonic
    <3> QED
      BY <3>2, <3>3
  <2>3. n \in Nat /\ n >= 1
    BY <1>2, EmptySeq
  <2>4. /\ order \in Seq(Int)
        /\ \A k \in 1 .. Len(Quantiles) : \E i \in 1 .. Len(Quantiles) : order[k] = Quantiles[i]
        /\ \A k, l \in 1 .. Len(Quantiles) : k <= l => order[k] <= order[l]
        /\ Len(order) = Len(Quantiles)
    BY <2>2, SortedProperties
  <2>5. /\ \A k, l \in 1 .. n : k <= l => Sorted(s)[k] <= Sorted(s)[l]
        /\ Sorted(s) \in Seq(Int) /\ Len(Sorted(s)) = n
    BY <2>2, SortedProperties
  <2> HIDE DEF order, n
  <2>6. Len(lines) = Len(order) /\ Len(order) \in Nat
    BY <2>1, <2>4
  <2>7. ASSUME NEW k \in 1 .. Len(order) PROVE order[k] \in Nat
    <3>1. PICK i \in 1 .. Len(Quantiles) : order[k] = Quantiles[i]
      BY <2>4
    <3> QED
      BY <3>1
  <2>8. SUFFICES ASSUME NEW i \in 1 .. Len(order), NEW j \in 1 .. Len(order), i <= j
                 PROVE  lines[i] <= lines[j]
    BY <2>6
  <2>9. PICK k \in QuantileIndexes(order[i], n) : lines[i] = Sorted(s)[k + 1]
    BY <2>1
  <2>10. PICK l \in QuantileIndexes(order[j], n) : lines[j] = Sorted(s)[l + 1]
    BY <2>1
  <2>11. order[i] <= order[j] /\ order[i] \in Nat /\ order[j] \in Nat
    BY <2>4, <2>7, <2>8
  <2>12. k \in 0 .. n - 1 /\ l \in 0 .. n - 1 /\ k <= l
    BY <2>3, <2>11, IndexesAscend
  <2>13. k + 1 \in 1 .. n /\ l + 1 \in 1 .. n /\ k + 1 <= l + 1
    BY <2>3, <2>12
  <2> QED
    BY <2>5, <2>9, <2>10, <2>13
<1> QED
  BY <1>1, <1>2

(* The quantile lines of a scrape do not decrease as the quantile grows,   *)
(* whatever the order in which the constructor received the quantiles, if  *)
(* none of them is negative: the index of a negative one is undefined.     *)
THEOREM ReportsOrdered ==
  ASSUME Quantiles \in Seq(Nat)
  PROVE  Spec => []ReportOrdered
<1>1. Init => ReportOrdered
  BY DEF Init, ReportOrdered, NoReport
<1>2. Typed /\ ReportOrdered /\ [Next]_vars => ReportOrdered'
  <2> SUFFICES ASSUME Typed, ReportOrdered, [Next]_vars PROVE ReportOrdered'
    OBVIOUS
  <2>1. ASSUME report' = report PROVE ReportOrdered'
    BY <2>1 DEF ReportOrdered
  <2>2. ASSUME NEW t \in Scrapers, ReadCount(t) PROVE ReportOrdered'
    <3>1. PICK lines \in QuantileLines(snapshot[t]) :
            report' = [report EXCEPT ![t] = [quantiles |-> lines, sum |-> readSum[t],
                                             count |-> totalCount]]
      BY <2>2 DEF ReadCount
    <3>2. snapshot[t] \in Seq(Values) /\ DOMAIN report = Scrapers
      BY DEF Typed, TypeOK
    <3>3. \A i, j \in 1 .. Len(lines) : i <= j => lines[i] <= lines[j]
      BY <3>1, <3>2, LinesAscend
    <3>4. /\ report'[t].quantiles = lines
          /\ \A u \in Scrapers \ {t} : report'[u] = report[u]
      BY <3>1, <3>2
    <3> QED
      BY <3>3, <3>4 DEF ReportOrdered
  <2>3. ASSUME NEW t \in Observers, NEW v \in Values \cup {NonFinite}, Observe(t, v)
        PROVE  report' = report
    BY <2>3 DEF Observe
  <2>4. ASSUME NEW t \in Observers, ObserveStep(t) PROVE report' = report
    BY <2>4 DEF ObserveStep, Push, Prune, AddCount, AddSum
  <2>5. ASSUME NEW t \in Scrapers,
               Serialize(t) \/ CopyLock(t) \/ CopyNext(t) \/ CopyDone(t) \/ ReadSum(t)
        PROVE  report' = report
    BY <2>5 DEF Serialize, CopyLock, CopyNext, CopyDone, ReadSum
  <2>6. ASSUME NEW t \in Resetters, Reset(t) \/ ResetStep(t) PROVE report' = report
    BY <2>6 DEF Reset, ResetStep, ClearWindow, ZeroCount, ZeroSum
  <2>7. CASE UNCHANGED vars
    BY <2>1, <2>7 DEF vars
  <2> QED
    BY <2>1, <2>2, <2>3, <2>4, <2>5, <2>6, <2>7 DEF Next, Finished, SerializeStep
<1> QED
  BY <1>1, <1>2, AlwaysTyped, PTL DEF Spec

-----------------------------------------------------------------------------
(* The window implements the abstract one.                                 *)

LEMMA FrontOfAppend ==
  ASSUME NEW s \in Seq(Values), NEW v \in Values
  PROVE  SubSeq(Append(s, v), 1, Len(s)) = s
<1>1. CASE Len(s) = 0
  <2>1. s = << >>
    BY <1>1
  <2>2. SubSeq(Append(s, v), 1, Len(s)) = << >>
    BY <1>1, SubSeqEmpty
  <2> QED
    BY <2>1, <2>2
<1>2. CASE Len(s) # 0
  <2>1. Len(s) \in 1 .. Len(s) /\ 1 \in 1 .. Len(s)
    BY <1>2
  <2>2. SubSeq(s \o <<v>>, 1, Len(s)) = SubSeq(s, 1, Len(s))
    BY <2>1, SubSeqOfConcat1
  <2> QED
    BY <2>2, AppendIsConcat, SubSeqFull
<1> QED
  BY <1>1, <1>2

LEMMA AppendToFront ==
  ASSUME NEW s \in Seq(Values), s # << >>
  PROVE  /\ SubSeq(s, 1, Len(s) - 1) \in Seq(Values)
         /\ Len(SubSeq(s, 1, Len(s) - 1)) = Len(s) - 1
         /\ Append(SubSeq(s, 1, Len(s) - 1), s[Len(s)]) = s
<1>1. Len(s) \in 1 .. Len(s) /\ 1 \in 1 .. Len(s) /\ s[Len(s)] \in Values
  OBVIOUS
<1>2. \A i \in 1 .. Len(s) - 1 : s[i] \in Values
  OBVIOUS
<1>3. /\ SubSeq(s, 1, Len(s) - 1) \in Seq(Values)
      /\ Len(SubSeq(s, 1, Len(s) - 1)) = Len(s) - 1
  <2>1. Len(s) - 1 \in Int /\ Len(s) - 1 >= 0
    BY <1>1
  <2> DEFINE m == Len(s) - 1
  <2> HIDE DEF m
  <2>2. \A i \in 1 .. m : s[i] \in Values
    BY <1>2 DEF m
  <2>3. m \in Int
    BY <2>1 DEF m
  <2>4. /\ SubSeq(s, 1, m) \in Seq(Values)
        /\ Len(SubSeq(s, 1, m)) = IF 1 <= m THEN m - 1 + 1 ELSE 0
    BY <2>2, <2>3, SubSeqProperties
  <2>5. m >= 0
    BY <2>1 DEF m
  <2>6. Len(SubSeq(s, 1, m)) = m
    BY <2>3, <2>4, <2>5
  <2> QED
    BY <2>4, <2>6 DEF m
<1>4. SubSeq(s, 1, Len(s)) = SubSeq(s, 1, Len(s) - 1) \o <<s[Len(s)]>>
  BY <1>1, SubSeqRecursiveSecond
<1> QED
  BY <1>1, <1>3, <1>4, AppendIsConcat, SubSeqFull

(* A thread that is about to prune has pushed something.                   *)
PushedInv ==
  \A t \in Threads : pc[t] = "prune" => observations # << >>

LEMMA PushedStep == Typed /\ MutexOwned /\ PushedInv /\ [Next]_vars => PushedInv'
<1> SUFFICES ASSUME Typed, MutexOwned, PushedInv, [Next]_vars PROVE PushedInv'
  OBVIOUS
<1> USE DEF Typed, TypeOK, MutexOwned, Critical, PushedInv, Goto, Acquire, Release,
            Call
<1>1. ASSUME NEW t \in Observers, NEW v \in Values \cup {NonFinite}, Observe(t, v)
      PROVE  PushedInv'
  BY <1>1 DEF Observe
<1>2. ASSUME NEW t \in Observers, Push(t) PROVE PushedInv'
  <2>1. observations' # << >>
    BY <1>2, AppendProperties DEF Push, ArgTyped
  <2> QED
    BY <2>1
<1>3. ASSUME NEW t \in Observers, Prune(t) \/ AddCount(t) \/ AddSum(t)
      PROVE  PushedInv'
  BY <1>3 DEF Prune, AddCount, AddSum
<1>4. ASSUME NEW t \in Scrapers, Serialize(t) \/ SerializeStep(t) PROVE PushedInv'
  BY <1>4 DEF Serialize, SerializeStep, CopyLock, CopyNext, CopyDone, ReadSum,
              ReadCount
<1>5. ASSUME NEW t \in Resetters, Reset(t) \/ ResetStep(t) PROVE PushedInv'
  BY <1>5 DEF Reset, ResetStep, ClearWindow, ZeroCount, ZeroSum
<1>6. CASE UNCHANGED vars
  BY <1>6 DEF vars
<1> QED
  BY <1>1, <1>2, <1>3, <1>4, <1>5, <1>6 DEF Next, Finished, ObserveStep

LEMMA PruneArrives ==
  ASSUME MaxObservations >= 2, Typed, MutexOwned, WindowInv, PushedInv,
         NEW t \in Observers, Prune(t)
  PROVE  \E v \in Values : Window!Arrive(v)
<1> USE DEF Typed, TypeOK
<1> DEFINE n == Len(observations)
           v == observations[n]
           half == MaxObservations \div 2
           dropped == IF n > MaxObservations THEN half ELSE 0
<1>1. /\ pc[t] = "prune" /\ t \in Threads
      /\ observations' = Pruned(observations)
      /\ \A u \in Threads : pc'[u] # "prune"
  BY DEF Prune, Goto, MutexOwned, Critical
<1>2. observations # << >> /\ n \in Nat /\ n >= 1 /\ v \in Values
  BY <1>1 DEF PushedInv
<1>3. /\ CommittedWindow = SubSeq(observations, 1, n - 1)
      /\ CommittedWindow' = Pruned(observations)
  BY <1>1 DEF CommittedWindow
<1>4. /\ Append(CommittedWindow, v) = observations
      /\ Len(CommittedWindow) = n - 1
  BY <1>2, <1>3, AppendToFront
<1>5. n <= MaxObservations + 1
  BY DEF WindowInv
<1>6. dropped \in 0 .. half /\ half \in Nat
  OBVIOUS
<1>7. dropped > 0 => Len(CommittedWindow) = MaxObservations
  <2>1. CASE n > MaxObservations
    <3>1. n = MaxObservations + 1
      BY <1>2, <1>5, <2>1
    <3> QED
      BY <1>4, <3>1
  <2>2. CASE ~(n > MaxObservations)
    BY <2>2
  <2> QED
    BY <2>1, <2>2
<1>8. Pruned(observations) = SubSeq(observations, dropped + 1, n)
  <2>1. CASE n > MaxObservations
    BY <2>1 DEF Pruned
  <2>2. CASE ~(n > MaxObservations)
    <3>1. Pruned(observations) = observations /\ dropped + 1 = 1
      BY <2>2 DEF Pruned
    <3> QED
      BY <3>1, SubSeqFull
  <2> QED
    BY <2>1, <2>2
<1>9. CommittedWindow'
        = SubSeq(Append(CommittedWindow, v), dropped + 1, Len(CommittedWindow) + 1)
  <2>1. Len(CommittedWindow) + 1 = n
    BY <1>2, <1>4
  <2> QED
    BY <1>3, <1>4, <1>8, <2>1
<1>10. Len(CommittedWindow') <= MaxObservations
  BY <1>3, <1>5, PrunedProperties
<1> HIDE DEF dropped, v, half
<1> QED
  BY <1>2, <1>6, <1>7, <1>9, <1>10 DEF Window!Arrive, half

LEMMA WindowSimulation ==
  MaxObservations >= 2 =>
    (Typed /\ MutexOwned /\ WindowInv /\ PushedInv /\ [Next]_vars
       => [Window!Next]_CommittedWindow)
<1> SUFFICES ASSUME MaxObservations >= 2, Typed, MutexOwned, WindowInv, PushedInv,
                    [Next]_vars
             PROVE  [Window!Next]_CommittedWindow
  OBVIOUS
<1> USE DEF Typed, TypeOK, MutexOwned, Critical, Goto, Acquire, Release, Call
(* A step that leaves the window and the pruner alone.                     *)
<1>a. ASSUME observations' = observations,
             \A u \in Threads : pc'[u] = "prune" <=> pc[u] = "prune"
      PROVE  CommittedWindow' = CommittedWindow
  BY <1>a DEF CommittedWindow
<1>1. ASSUME NEW t \in Observers, NEW v \in Values \cup {NonFinite}, Observe(t, v)
      PROVE  CommittedWindow' = CommittedWindow
  BY <1>1, <1>a DEF Observe
<1>2. ASSUME NEW t \in Observers, Push(t)
      PROVE  CommittedWindow' = CommittedWindow
  <2>1. /\ \A u \in Threads : pc[u] # "prune"
        /\ pc'[t] = "prune" /\ t \in Threads
        /\ observations' = Append(observations, arg[t])
        /\ arg[t] \in Values
    BY <1>2 DEF Push, ArgTyped
  <2>2. CommittedWindow = observations
    BY <2>1 DEF CommittedWindow
  <2>3. CommittedWindow' = SubSeq(observations', 1, Len(observations') - 1)
    BY <2>1 DEF CommittedWindow
  <2>4. Len(observations') - 1 = Len(observations)
    BY <2>1
  <2> QED
    BY <2>1, <2>2, <2>3, <2>4, FrontOfAppend
<1>3. ASSUME NEW t \in Observers, Prune(t) PROVE Window!Next
  BY <1>3, PruneArrives DEF Window!Next
<1>4. ASSUME NEW t \in Observers, AddCount(t) \/ AddSum(t)
      PROVE  CommittedWindow' = CommittedWindow
  BY <1>4, <1>a DEF AddCount, AddSum
<1>5. ASSUME NEW t \in Scrapers, Serialize(t) \/ SerializeStep(t)
      PROVE  CommittedWindow' = CommittedWindow
  BY <1>5, <1>a DEF Serialize, SerializeStep, CopyLock, CopyNext, CopyDone,
                    ReadSum, ReadCount
<1>6. ASSUME NEW t \in Resetters, Reset(t) \/ ZeroCount(t) \/ ZeroSum(t)
      PROVE  CommittedWindow' = CommittedWindow
  BY <1>6, <1>a DEF Reset, ZeroCount, ZeroSum
<1>7. ASSUME NEW t \in Resetters, ClearWindow(t) PROVE Window!Next
  <2>1. observations' = << >> /\ \A u \in Threads : pc'[u] # "prune"
    BY <1>7 DEF ClearWindow
  <2>2. CommittedWindow' = << >>
    BY <2>1 DEF CommittedWindow
  <2> QED
    BY <2>2 DEF Window!Next, Window!Clear
<1>8. CASE UNCHANGED vars
  BY <1>8, <1>a DEF vars
<1> QED
  BY <1>1, <1>2, <1>3, <1>4, <1>5, <1>6, <1>7, <1>8
  DEF Next, Finished, ObserveStep, ResetStep

(* Every behaviour of the summary is, for its window, a behaviour of the   *)
(* abstract sliding window with capacity max_observations >= 2.            *)
THEOREM SummaryImplementsWindow ==
  ASSUME MaxObservations >= 2
  PROVE  Spec => ImplementsWindow
<1>1. Init => Window!Init
  BY DEF Init, Window!Init, CommittedWindow
<1>2. Init => WindowInv /\ PushedInv
  BY DEF Init, WindowInv, PushedInv
<1>3. Typed /\ MutexOwned /\ WindowInv /\ PushedInv /\ [Next]_vars
        => [Window!Next]_CommittedWindow
  BY WindowSimulation
<1>4. Typed /\ MutexOwned /\ WindowInv /\ PushedInv /\ [Next]_vars
        => (WindowInv /\ PushedInv)'
  BY WindowStep, PushedStep
<1> QED
  BY <1>1, <1>2, <1>3, <1>4, AlwaysTyped, MutexIsOwned, PTL
  DEF Spec, ImplementsWindow, Window!Spec

=============================================================================
