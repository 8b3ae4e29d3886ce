---------------------------- MODULE MetricFamily ----------------------------
(***************************************************************************)
(* One metric family (metric_family.hpp) shared by threads that add and    *)
(* get metrics, scrape the family, reset it and update its metrics.        *)
(*                                                                         *)
(* add_metric, get_metric and reset hold _mutex.  A scrape does not: it    *)
(* takes the ends of the vector metrics() refers to, and walks them.  The  *)
(* text of a metric's labels is cached in the metric by the first call of  *)
(* labels::to_string, whichever thread makes it.  What the races may do is *)
(* a nondeterministic choice: a walk over a buffer that the vector has     *)
(* left crashes or reads what is still there, and a text read while it is  *)
(* being written is whole or torn.                                         *)
(*                                                                         *)
(* In a behaviour with `setupFirst' the callers keep to the discipline of  *)
(* the shipped example: metrics are added and looked up beside no scrape,  *)
(* and there is one scrape at a time (as there is when only                *)
(* registry::serialize, with its mutex, scrapes).                          *)
(***************************************************************************)
EXTENDS Integers, Sequences, FiniteSets

CONSTANTS
  Threads,      (* callers of the family                                   *)
  Labels,       (* label sets                                              *)
  Disciplines,  (* whether callers keep to the discipline above: may hold  *)
                (*   TRUE, FALSE or both                                   *)
  NoThread,     (* owner of a free mutex                                   *)
  NoLabels,     (* argument of a call that is given no labels              *)
  MaxCalls,     (* bounds the model: number of calls, as a function of     *)
                (*   `setupFirst'                                          *)
  MaxUpdates    (* bounds the model: the value of a metric                 *)

ASSUME MetricFamilyAssumption ==
  /\ NoThread \notin Threads
  /\ NoLabels \notin Labels
  /\ Disciplines \subseteq BOOLEAN
  /\ MaxCalls \in [BOOLEAN -> Nat]
  /\ MaxUpdates \in Nat

VARIABLES
  setupFirst,  (* whether the callers of this program are disciplined      *)
  metrics,     (* _metrics: the labels of each metric                      *)
  value,       (* the value of each metric                                 *)
  buffer,      (* the storage of the vector: which one, and its capacity   *)
  cached,      (* the metrics whose label text is cached                   *)
  writers,     (* the threads writing each metric's cached text            *)
  mutex,       (* owner of _mutex                                          *)
  thread,      (* what each thread does next (pc), in which call (op) with *)
               (*   which labels (arg); the metric a loop has reached      *)
               (*   (next); a scrape's iterators, their buffer and the     *)
               (*   last metric, and the output it printed; as history:    *)
               (*   known, the metrics returned when it was called, and    *)
               (*   touched, those updated since                           *)
  calls,       (* number of calls made so far                              *)
  returned,    (* history: the metrics add_metric has returned             *)
  got,         (* history: the metrics get_metric has returned for labels  *)
  missed       (* history: labels get_metric threw for, though their       *)
               (*   metric had been returned before the call               *)

vars == <<setupFirst, metrics, value, buffer, cached, writers, mutex, thread,
          calls, returned, got, missed>>

(* What most actions leave alone together.                                 *)
series == <<setupFirst, metrics, value, buffer>>
cache == <<cached, writers>>
history == <<returned, got, missed>>

Frame(op, pc, l) ==
  [op |-> op, pc |-> pc, arg |-> l, next |-> 0, buffer |-> 0, last |-> 0,
   output |-> << >>, known |-> returned, touched |-> {}]

Idle == [op |-> "none", pc |-> "idle"]

Init ==
  /\ setupFirst \in Disciplines
  /\ metrics = << >>
  /\ value = << >>
  /\ buffer = [id |-> 0, capacity |-> 0]
  /\ cached = {}
  /\ writers = << >>
  /\ mutex = NoThread
  /\ thread = [t \in Threads |-> Idle]
  /\ calls = 0
  /\ returned = {}
  /\ got = [l \in Labels |-> {}]
  /\ missed = {}

At(t, label) == thread[t].pc = label
In(t, call) == thread[t].op = call
Reached(t) == thread[t].next
Goto(t, label) == thread' = [thread EXCEPT ![t].pc = label]
Resume(t, label, n) == thread' = [thread EXCEPT ![t].pc = label, ![t].next = n]
Return(t) == thread' = [thread EXCEPT ![t] = Idle]

Crashed == \E t \in Threads : At(t, "crashed")

Acquire(t) == mutex = NoThread /\ mutex' = t
Release(t) == mutex' = NoThread

(* The calls that a call must not run beside under the discipline.         *)
Excluded(call) ==
  CASE call = "serialize" -> {"add", "get", "serialize"}
    [] call \in {"add", "get"} -> {"serialize"}
    [] OTHER -> {}

Call(t, call, label, l) ==
  /\ At(t, "idle")
  /\ calls < MaxCalls[setupFirst]
  /\ setupFirst => \A u \in Threads : thread[u].op \notin Excluded(call)
  /\ calls' = calls + 1
  /\ thread' = [thread EXCEPT ![t] = Frame(call, label, l)]
  /\ UNCHANGED <<series, cache, mutex, history>>

-----------------------------------------------------------------------------
(* add_metric(labels)                                                      *)

Add(t, l) == Call(t, "add", "append", l)

(* Bug: the vector grows one element too late.                             *)
GrownLate(b) ==
  IF Len(metrics) <= b.capacity
    THEN b
    ELSE [id |-> b.id + 1, capacity |-> 2 * b.capacity]

(* emplace_back moves to a new buffer, twice as large, when the one it has *)
(* is full; the old one is freed.                                          *)
Grown(b) ==
  IF Len(metrics) < b.capacity
    THEN b
    ELSE [id |-> b.id + 1,
          capacity |-> IF b.capacity = 0 THEN 1 ELSE 2 * b.capacity]

AppendMetric(t) ==
  /\ At(t, "append")
  /\ mutex = NoThread
  /\ metrics' = Append(metrics, thread[t].arg)
  /\ value' = Append(value, 0)
  /\ writers' = Append(writers, {})
  /\ buffer' = Grown(buffer)
  /\ returned' = returned \cup {Len(metrics')}
  /\ Return(t)
  /\ UNCHANGED <<setupFirst, cached, mutex, calls, got, missed>>

-----------------------------------------------------------------------------
(* labels::to_string() of the metric a thread has reached                  *)

(* The cache is tested.  A test beside a write may come out either way.    *)
Look(t) ==
  LET m == Reached(t) IN
  /\ At(t, "look")
  /\ \/ /\ m \notin cached \/ writers[m] # {}
        /\ writers' = [writers EXCEPT ![m] = @ \cup {t}]
        /\ Goto(t, "write")
     \/ /\ m \in cached \/ writers[m] # {}
        /\ Goto(t, "read")
        /\ UNCHANGED writers
  /\ UNCHANGED <<series, cached, mutex, calls, history>>

(* The text has been built and stored.                                     *)
Write(t) ==
  LET m == Reached(t) IN
  /\ At(t, "write")
  /\ writers' = [writers EXCEPT ![m] = @ \ {t}]
  /\ cached' = cached \cup {m}
  /\ Goto(t, "read")
  /\ UNCHANGED <<series, mutex, calls, history>>

(* Whether the text read can be whole, and whether it can be torn.         *)
Readings(m) == IF writers[m] = {} THEN {"whole"} ELSE {"whole", "torn"}

-----------------------------------------------------------------------------
(* get_metric(labels): the first metric whose text is that of the labels   *)

Get(t, l) == Call(t, "get", "search", l)

(* Bug: the search begins with the newest metric.                          *)
SearchNewest(t) ==
  /\ At(t, "search")
  /\ Acquire(t)
  /\ Resume(t, IF metrics = << >> THEN "throw" ELSE "look", Len(metrics))
  /\ UNCHANGED <<series, cache, calls, history>>

Search(t) ==
  /\ At(t, "search")
  /\ Acquire(t)
  /\ Resume(t, IF metrics = << >> THEN "throw" ELSE "look", 1)
  /\ UNCHANGED <<series, cache, calls, history>>

Found(t) ==
  /\ got' = [got EXCEPT ![thread[t].arg] = @ \cup {Reached(t)}]
  /\ Release(t)
  /\ Return(t)

(* Bug: the search gives up after the first metric.                        *)
MatchFirst(t) ==
  /\ At(t, "read") /\ In(t, "get")
  /\ IF metrics[Reached(t)] = thread[t].arg
       THEN Found(t)
       ELSE Goto(t, "throw") /\ UNCHANGED <<mutex, got>>
  /\ UNCHANGED <<series, cache, calls, returned, missed>>

Match(t) ==
  /\ At(t, "read") /\ In(t, "get")
  /\ \E reading \in Readings(Reached(t)) :
       IF reading = "whole" /\ metrics[Reached(t)] = thread[t].arg
         THEN Found(t)
         ELSE /\ Resume(t, IF Reached(t) = Len(metrics) THEN "throw" ELSE "look",
                        Reached(t) + 1)
              /\ UNCHANGED <<mutex, got>>
  /\ UNCHANGED <<series, cache, calls, returned, missed>>

(* Bug: the exception leaves the mutex locked.                             *)
ThrowLocked(t) ==
  /\ At(t, "throw")
  /\ Return(t)
  /\ UNCHANGED <<series, cache, mutex, calls, history>>

Throw(t) ==
  /\ At(t, "throw")
  /\ missed' = IF \E m \in thread[t].known : metrics[m] = thread[t].arg
                 THEN missed \cup {thread[t].arg}
                 ELSE missed
  /\ Release(t)
  /\ Return(t)
  /\ UNCHANGED <<series, cache, calls, returned, got>>

-----------------------------------------------------------------------------
(* metric_serializer::serialize(const base_metric_family&)                 *)

Serialize(t) == Call(t, "serialize", "begin", NoLabels)

(* Bug: the last metric is left out.                                       *)
BeginShort(t) ==
  /\ At(t, "begin")
  /\ thread' = [thread EXCEPT ![t].pc = "next", ![t].next = 1,
                              ![t].buffer = buffer.id,
                              ![t].last = Len(metrics) - 1]
  /\ UNCHANGED <<series, cache, mutex, calls, history>>

(* The loop takes begin() and end() of the vector, without the mutex.      *)
Begin(t) ==
  /\ At(t, "begin")
  /\ thread' = [thread EXCEPT ![t].pc = "next", ![t].next = 1,
                              ![t].buffer = buffer.id,
                              ![t].last = Len(metrics)]
  /\ UNCHANGED <<series, cache, mutex, calls, history>>

Dangling(t) == thread[t].buffer # buffer.id

(* The next element is read from the buffer the walk began with.           *)
NextMetric(t) ==
  /\ At(t, "next")
  /\ Reached(t) <= thread[t].last
  /\ \/ /\ Dangling(t)
        /\ thread' = [u \in Threads |-> [op |-> "none", pc |-> "crashed"]]
     \/ Goto(t, "look")
  /\ UNCHANGED <<series, cache, mutex, calls, history>>

PrintMetric(t) ==
  /\ At(t, "read") /\ In(t, "serialize")
  /\ \E reading \in Readings(Reached(t)) :
       thread' = [thread EXCEPT
                    ![t].pc = "next",
                    ![t].next = @ + 1,
                    ![t].output = Append(@, [metric |-> Reached(t), text |-> reading])]
  /\ UNCHANGED <<series, cache, mutex, calls, history>>

ScrapeOver(t) == At(t, "next") /\ Reached(t) > thread[t].last

SerializeDone(t) ==
  /\ ScrapeOver(t)
  /\ Return(t)
  /\ UNCHANGED <<series, cache, mutex, calls, history>>

-----------------------------------------------------------------------------
(* reset()                                                                 *)

Reset(t) == Call(t, "reset", "reset_lock", NoLabels)

(* Bug: the first metric is left out.                                      *)
ResetLockSecond(t) ==
  /\ At(t, "reset_lock")
  /\ Acquire(t)
  /\ Resume(t, "reset", 2)
  /\ UNCHANGED <<series, cache, calls, history>>

ResetLock(t) ==
  /\ At(t, "reset_lock")
  /\ Acquire(t)
  /\ Resume(t, "reset", 1)
  /\ UNCHANGED <<series, cache, calls, history>>

ResetOver(t) == At(t, "reset") /\ Reached(t) > Len(metrics)

ResetMetric(t) ==
  /\ At(t, "reset")
  /\ Reached(t) <= Len(metrics)
  /\ value' = [value EXCEPT ![Reached(t)] = 0]
  /\ Resume(t, "reset", Reached(t) + 1)
  /\ UNCHANGED <<setupFirst, metrics, buffer, cache, mutex, calls, history>>

ResetDone(t) ==
  /\ ResetOver(t)
  /\ Release(t)
  /\ Return(t)
  /\ UNCHANGED <<series, cache, calls, history>>

-----------------------------------------------------------------------------
(* A metric is updated by a holder of it, beside any call.                 *)
Update(m) ==
  /\ ~Crashed
  /\ m \in returned
  /\ value[m] < MaxUpdates
  /\ value' = [value EXCEPT ![m] = @ + 1]
  /\ thread' = [t \in Threads |->
                  IF In(t, "reset")
                    THEN [thread[t] EXCEPT !.touched = @ \cup {m}]
                    ELSE thread[t]]
  /\ UNCHANGED <<setupFirst, metrics, buffer, cache, mutex, calls, history>>

(* The program has crashed, or its bound on calls is used up.              *)
Finished ==
  /\ \/ Crashed
     \/ calls = MaxCalls[setupFirst] /\ \A t \in Threads : At(t, "idle")
  /\ UNCHANGED vars

(* What a thread may call, in any order.                                   *)
Operation(t) ==
  \/ \E l \in Labels : Add(t, l) \/ Get(t, l)
  \/ Serialize(t)
  \/ Reset(t)

(* The steps of a call that has begun.                                     *)
Step(t) ==
  \/ AppendMetric(t)
  \/ Look(t) \/ Write(t)
  \/ Search(t) \/ Match(t) \/ Throw(t)
  \/ Begin(t) \/ NextMetric(t) \/ PrintMetric(t) \/ SerializeDone(t)
  \/ ResetLock(t) \/ ResetMetric(t) \/ ResetDone(t)

Next ==
  \/ \E t \in Threads : Operation(t) \/ Step(t)
  \/ \E m \in returned : Update(m)
  \/ Finished

Spec == Init /\ [][Next]_vars

(* The operating system keeps running every thread that is inside a call;  *)
(* nobody has to make a call or to update a metric.                        *)
FairSpec == Spec /\ \A t \in Threads : WF_vars(Step(t))

-----------------------------------------------------------------------------
(* Correctness                                                             *)

(* The type invariant: every variable holds a value of its kind, and the   *)
(* vector fits its buffer.                                                 *)
TypeOK ==
  /\ setupFirst \in BOOLEAN
  /\ metrics \in Seq(Labels)
  /\ value \in [1 .. Len(metrics) -> 0 .. MaxUpdates]
  /\ buffer \in [id : Nat, capacity : Nat]
  /\ Len(metrics) <= buffer.capacity
  /\ cached \subseteq 1 .. Len(metrics)
  /\ writers \in [1 .. Len(metrics) -> SUBSET Threads]
  /\ mutex \in Threads \cup {NoThread}
  /\ \A t \in Threads :
       \/ thread[t].op = "none"
       \/ /\ thread[t].op \in {"add", "get", "serialize", "reset"}
          /\ thread[t].arg \in Labels \cup {NoLabels}
          /\ thread[t].next \in 0 .. Len(metrics) + 1
  /\ calls \in 0 .. MaxCalls[setupFirst]
  /\ returned \subseteq 1 .. Len(metrics)
  /\ got \in [Labels -> SUBSET (1 .. Len(metrics))]
  /\ missed \subseteq Labels

(* With the discipline, get_metric gives every caller the same metric for  *)
(* the same labels, even while add_metric adds more metrics with those     *)
(* labels: two threads that look a series up update the same one.          *)
GetStable == setupFirst => \A l \in Labels : Cardinality(got[l]) <= 1

(* With the discipline, a metric that add_metric has returned can be found *)
(* by its labels from then on.                                             *)
AddedIsFound == setupFirst => missed = {}

(* With the discipline, a scrape that is over has printed every metric     *)
(* added before it was called, once and in the order of their addition,    *)
(* with whole labels.                                                      *)
ScrapeWhole ==
  \A t \in Threads :
    setupFirst /\ ScrapeOver(t) =>
      /\ \A m \in thread[t].known : m <= Len(thread[t].output)
      /\ \A i \in 1 .. Len(thread[t].output) :
           thread[t].output[i] = [metric |-> i, text |-> "whole"]

(* A reset that is over has zeroed every metric added before it was called *)
(* but those updated since, whatever is added or scraped beside it.        *)
ResetComplete ==
  \A t \in Threads :
    ResetOver(t) =>
      \A m \in thread[t].known : value[m] # 0 => m \in thread[t].touched

(* Every call returns or throws, or is ended when a scrape crashes the     *)
(* program: no path keeps the mutex, for a thread is always at last idle.  *)
CallsReturn == \A t \in Threads : []<>In(t, "none")

(* metric_family.hpp:40 and :41, "All methods are thread-safe", "Metrics   *)
(* can be added or retrieved concurrently": no scrape reads a buffer that  *)
(* add_metric has freed.                                                   *)
NoUseAfterFree ==
  \A t \in Threads :
    At(t, "next") /\ Reached(t) <= thread[t].last => ~Dangling(t)

=============================================================================
