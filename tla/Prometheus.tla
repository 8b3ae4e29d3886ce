----------------------------- MODULE Prometheus -----------------------------
(***************************************************************************)
(* The library put together: one registry, its families and their metrics, *)
(* once they have been set up as in the shipped example.  Threads scrape   *)
(* and reset the registry, reset a family or a metric on its own and       *)
(* observe into summaries; counters and gauges are updated beside them     *)
(* without a lock.                                                         *)
(*                                                                         *)
(* Every call is a program, the sequence of its steps on the shared state: *)
(* what is a call inside a call in the code is a program inside a program  *)
(* here.  A step is atomic, because a mutex or an atomic of the code makes *)
(* it so.  Three locks nest: the registry's, a family's, a summary's.      *)
(*                                                                         *)
(* Of a summary only its count and the length of its window are kept, the  *)
(* window being far from full; its values, its histogram counterpart and   *)
(* the families that grow have modules of their own.                       *)
(***************************************************************************)
EXTENDS Integers, FiniteSets, SequencesExt

CONSTANTS
  Threads,     (* callers of the library                                   *)
  Counters,    (* the metrics of each type                                 *)
  Gauges,
  Summaries,
  Families,    (* the families registered                                  *)
  Metrics,     (* Metrics[f]: _metrics of family f                         *)
  Orders,      (* the orders _families, an unordered_map, may iterate in   *)
  Programs,    (* the programs that use the library: the metrics each      *)
               (*   updates, the threads that call the library and, which  *)
               (*   bounds the model, how often they do                    *)
  Registry,    (* the registry, whose mutex it names                       *)
  NoThread,    (* owner of a free mutex                                    *)
  NaN,         (* the number that is not one                               *)
  Amounts,     (* what callers pass to counter::inc and gauge::set         *)
  MaxUpdates   (* bounds the model: number of updates of each counter or   *)
               (*   gauge                                                  *)

(* What counts up: a counter, the count of a summary.                      *)
Totals == Counters \cup Summaries
All == Totals \cup Gauges

Number == Int \cup {NaN}

(* Each lock is known by what it guards.                                   *)
Mutexes == {Registry} \cup Families \cup Summaries

ASSUME PrometheusAssumption ==
  /\ IsFiniteSet(Threads) /\ IsFiniteSet(Families)
  /\ NoThread \notin Threads
  /\ NaN \notin Int
  /\ Amounts \subseteq Number
  /\ Totals \cap Gauges = {}
  /\ Counters \cap Summaries = {}
  /\ Registry \notin Families \cup Summaries
  /\ Families \cap Summaries = {}
  /\ Metrics \in [Families -> Seq(All)]
  /\ \A m \in All : \E f \in Families : m \in Range(Metrics[f])
  /\ Orders \subseteq SetToSeqs(Families)
  /\ Programs \subseteq [updates : SUBSET All, callers : SUBSET Threads, calls : Nat]
  /\ MaxUpdates \in [Counters \cup Gauges -> Nat]

VARIABLES
  program,  (* the program                                                 *)
  order,    (* the families as _families iterates them                     *)
  value,    (* _value of a counter or gauge, _total_count of a summary     *)
  window,   (* the number of _observations of each summary                 *)
  mutex,    (* owner of each mutex                                         *)
  thread,   (* the call each thread is in and the steps it has still to do *)
            (*   and as history, of the totals: for a scrape, base, those  *)
            (*   when it locked the registry, lines, those it has printed, *)
            (*   copied, the lengths of the windows it has copied, late,   *)
            (*   how many observations in a window were not counted when   *)
            (*   it printed the count, and reset, what the reset of a      *)
            (*   family or of a metric zeroed between the lock and the     *)
            (*   line; for a reset,                                        *)
            (*   covers, those it is to reset, and since, what has been    *)
            (*   added to each since it was called                         *)
  calls,    (* number of calls made so far                                 *)
  updates,  (* number of updates of each counter and gauge                 *)
  open,     (* history: uses of each gauge begun and not ended             *)
  skewed    (* history: gauges zeroed, or set to another number than that  *)
            (*   of the uses in progress, since they last were that number *)

vars == <<program, order, value, window, mutex, thread, calls, updates, open, skewed>>

(* What no step changes.                                                  *)
rigid == <<program, order>>

Idle == [call |-> "idle"]

Init ==
  /\ program \in Programs
  /\ order \in Orders
  /\ value = [m \in All |-> 0]
  /\ window = [s \in Summaries |-> 0]
  /\ mutex = [x \in Mutexes |-> NoThread]
  /\ thread = [t \in Threads |-> Idle]
  /\ calls = 0
  /\ updates = [m \in Counters \cup Gauges |-> 0]
  /\ open = [g \in Gauges |-> 0]
  /\ skewed = {}

-----------------------------------------------------------------------------
(* Numbers that may be NaN, which no comparison holds of                   *)

Plus(a, b) == IF NaN \in {a, b} THEN NaN ELSE a + b
Less(a, b) == NaN \notin {a, b} /\ a < b

(* Whether a counter that showed a may show b, nothing having reset it.    *)
Rises(a, b) == b = NaN \/ (a # NaN /\ a <= b)

-----------------------------------------------------------------------------
(* The steps of a call and the programs made of them                       *)

Do(step, x) == << <<step, x>> >>

(* Bug: nothing unlocks at the end of the block.                           *)
LockedForGood(x, block) == Do("lock", x) \o block

(* A scoped_lock around a block.                                           *)
Locked(x, block) == Do("lock", x) \o block \o Do("unlock", x)

(* The blocks of a loop, one after the other.                              *)
Each(seq, Block(_)) == FlattenSeq([i \in 1 .. Len(seq) |-> Block(seq[i])])

(* serialize(counter) and serialize(gauge) print the value they load.      *)
PrintValue(m) == Do("print", m)

(* Bug: the count is printed from before the window.                       *)
PrintSummaryLate(s) == Do("print", s) \o Locked(s, Do("copy", s))

(* serialize(summary) copies the window under the summary's mutex, as      *)
(* sorted_observations(), and loads the count after it.                    *)
PrintSummary(s) == Locked(s, Do("copy", s)) \o Do("print", s)

PrintMetric(m) == IF m \in Summaries THEN PrintSummary(m) ELSE PrintValue(m)

(* serialize(family): no lock is taken.                                    *)
PrintFamily(f) == Each(Metrics[f], PrintMetric)

(* registry::serialize()                                                   *)
SerializeProgram == Locked(Registry, Each(order, PrintFamily))

ResetSummary(s) == Locked(s, Do("clear", s) \o Do("zero", s))

ResetMetric(m) == IF m \in Summaries THEN ResetSummary(m) ELSE Do("zero", m)

(* metric_family::reset()                                                  *)
ResetFamily(f) == Locked(f, Each(Metrics[f], ResetMetric))

(* Bug: the registry is not locked.                                        *)
ResetUnlocked == Each(order, ResetFamily)

(* Bug: each family locks the registry again.                              *)
ResetRelocking == Locked(Registry, Each(order, LAMBDA f : Locked(Registry, ResetFamily(f))))

(* registry::reset()                                                       *)
ResetProgram == Locked(Registry, Each(order, ResetFamily))

(* summary::observe()                                                      *)
ObserveProgram(s) == Locked(s, Do("push", s)) \o Do("count", s)

-----------------------------------------------------------------------------
(* Calls                                                                   *)

Busy == {t \in Threads : thread[t].call # "idle"}
Scrapes == {t \in Threads : thread[t].call = "serialize"}
Resets ==
  {t \in Threads : thread[t].call \in {"reset", "family_reset", "metric_reset"}}

(* Those that do not lock the registry.                                    *)
OwnResets == {t \in Resets : thread[t].call # "reset"}

Call(t, state) ==
  /\ t \in program.callers \ Busy
  /\ calls < program.calls
  /\ calls' = calls + 1
  /\ thread' = [thread EXCEPT ![t] = state]
  /\ UNCHANGED <<rigid, value, window, mutex, updates, open, skewed>>

Nothing == [m \in Totals |-> 0]

Serialize(t) ==
  Call(t, [call |-> "serialize", todo |-> SerializeProgram, base |-> Nothing,
           lines |-> << >>, copied |-> << >>, late |-> << >>, reset |-> {}])

Reset(t) ==
  Call(t, [call |-> "reset", todo |-> ResetProgram, covers |-> Totals, since |-> Nothing])

(* A family is reset by whoever holds it, without the registry.            *)
FamilyReset(t, f) ==
  Call(t, [call |-> "family_reset", todo |-> ResetFamily(f),
           covers |-> Range(Metrics[f]) \ Gauges, since |-> Nothing])

(* reset() of a counter, gauge or summary, by whoever holds it.            *)
MetricReset(t, m) ==
  Call(t, [call |-> "metric_reset", todo |-> ResetMetric(m),
           covers |-> {m} \ Gauges, since |-> Nothing])

Observe(t, s) ==
  s \in program.updates /\ Call(t, [call |-> "observe", todo |-> ObserveProgram(s)])

-----------------------------------------------------------------------------
(* Steps                                                                   *)

(* The first step thread t has to do is `step'.                            *)
First(t, step) == t \in Busy /\ thread[t].todo # << >> /\ Head(thread[t].todo)[1] = step

(* It has still to print m.                                                *)
Unprinted(t, m) == <<"print", m>> \in Range(thread[t].todo)

On(t) == Head(thread[t].todo)[2]

(* f, with v for x.                                                        *)
With(f, x, v) == [y \in DOMAIN f \cup {x} |-> IF y = x THEN v ELSE f[y]]

Goto(t, state) == thread' = [thread EXCEPT ![t] = [state EXCEPT !.todo = Tail(@)]]

Lock(t) ==
  /\ First(t, "lock")
  /\ mutex[On(t)] = NoThread
  /\ mutex' = [mutex EXCEPT ![On(t)] = t]
  /\ Goto(t, IF t \in Scrapes /\ On(t) = Registry
                THEN [thread[t] EXCEPT !.base = Restrict(value, Totals), !.reset = {}]
                ELSE thread[t])
  /\ UNCHANGED <<rigid, value, window, calls, updates, open, skewed>>

Unlock(t) ==
  /\ First(t, "unlock")
  /\ mutex' = [mutex EXCEPT ![On(t)] = NoThread]
  /\ Goto(t, thread[t])
  /\ UNCHANGED <<rigid, value, window, calls, updates, open, skewed>>

Copy(t) ==
  /\ First(t, "copy")
  /\ Goto(t, [thread[t] EXCEPT !.copied = With(@, On(t), window[On(t)])])
  /\ UNCHANGED <<rigid, value, window, mutex, calls, updates, open, skewed>>

(* The observations of s pushed into its window and not counted yet.       *)
Uncounted(s) ==
  {u \in Busy : /\ thread[u].call = "observe"
                /\ thread[u].todo \in {Do("unlock", s) \o Do("count", s), Do("count", s)}}

PrintLine(t) ==
  /\ First(t, "print")
  /\ LET m == On(t)
     IN  Goto(t, IF m \in Gauges
                   THEN thread[t]
                   ELSE [thread[t] EXCEPT !.lines = With(@, m, value[m]),
                                          !.late = With(@, m, Cardinality(Uncounted(m)))])
  /\ UNCHANGED <<rigid, value, window, mutex, calls, updates, open, skewed>>

(* What becomes of `skewed' when g is made to show v.                      *)
Skew(g, v) == skewed' = IF v = open[g] THEN skewed \ {g} ELSE skewed \cup {g}

(* Bug: what the metric shows is subtracted from it.                       *)
ZeroedBySubtraction(v) == IF v = NaN THEN NaN ELSE 0

Zeroed(v) == 0

Zero(t) ==
  /\ First(t, "zero")
  /\ LET m == On(t)
     IN  /\ value' = [value EXCEPT ![m] = Zeroed(@)]
         /\ IF m \in Gauges THEN Skew(m, value'[m]) ELSE UNCHANGED skewed
         /\ thread' = [u \in Threads |->
              IF u = t THEN [thread[t] EXCEPT !.todo = Tail(@)]
              ELSE IF u \in Scrapes /\ t \in OwnResets /\ m \in Totals /\ Unprinted(u, m)
                THEN [thread[u] EXCEPT !.reset = @ \cup {m}]
                ELSE thread[u]]
  /\ UNCHANGED <<rigid, window, mutex, calls, updates, open>>

Clear(t) ==
  /\ First(t, "clear")
  /\ window' = [window EXCEPT ![On(t)] = 0]
  /\ Goto(t, thread[t])
  /\ UNCHANGED <<rigid, value, mutex, calls, updates, open, skewed>>

Push(t) ==
  /\ First(t, "push")
  /\ window' = [window EXCEPT ![On(t)] = @ + 1]
  /\ Goto(t, thread[t])
  /\ UNCHANGED <<rigid, value, mutex, calls, updates, open, skewed>>

(* The threads, those in a reset knowing that v was added to m.            *)
Added(m, v) ==
  [u \in Threads |-> IF u \in Resets
                       THEN [thread[u] EXCEPT !.since[m] = Plus(@, v)]
                       ELSE thread[u]]

Count(t) ==
  /\ First(t, "count")
  /\ LET s == On(t)
     IN  /\ value' = [value EXCEPT ![s] = Plus(@, 1)]
         /\ thread' = [Added(s, 1) EXCEPT ![t].todo = Tail(@)]
  /\ UNCHANGED <<rigid, window, mutex, calls, updates, open, skewed>>

Return(t) ==
  /\ t \in Busy
  /\ thread[t].todo = << >>
  /\ thread' = [thread EXCEPT ![t] = Idle]
  /\ UNCHANGED <<rigid, value, window, mutex, calls, updates, open, skewed>>

-----------------------------------------------------------------------------
(* Updates of counters and gauges: one atomic operation each               *)

Update(m) ==
  /\ m \in program.updates
  /\ updates[m] < MaxUpdates[m]
  /\ updates' = [updates EXCEPT ![m] = @ + 1]
  /\ UNCHANGED <<rigid, window, mutex, calls>>

(* Bug: the amount is not checked.                                         *)
IncUnchecked(c, amount) ==
  /\ Update(c)
  /\ value' = [value EXCEPT ![c] = Plus(@, amount)]
  /\ thread' = Added(c, amount)
  /\ UNCHANGED <<open, skewed>>

(* counter::inc throws when the amount is negative, which NaN is not.      *)
Inc(c, amount) ==
  \/ /\ Less(amount, 0)
     /\ UNCHANGED vars
  \/ /\ ~Less(amount, 0)
     /\ Update(c)
     /\ value' = [value EXCEPT ![c] = Plus(@, amount)]
     /\ thread' = Added(c, amount)
     /\ UNCHANGED <<open, skewed>>

(* gauge::set                                                              *)
Set(g, v) ==
  /\ Update(g)
  /\ value' = [value EXCEPT ![g] = v]
  /\ Skew(g, v)
  /\ UNCHANGED <<thread, open>>

(* gauge::inc where a use of what the gauge counts begins.                 *)
Use(g) ==
  /\ Update(g)
  /\ value' = [value EXCEPT ![g] = Plus(@, 1)]
  /\ open' = [open EXCEPT ![g] = @ + 1]
  /\ UNCHANGED <<thread, skewed>>

(* Bug: the use that ends is added.                                        *)
EndUseAdding(g) ==
  /\ Update(g)
  /\ open[g] > 0
  /\ value' = [value EXCEPT ![g] = Plus(@, 1)]
  /\ open' = [open EXCEPT ![g] = @ - 1]
  /\ UNCHANGED <<thread, skewed>>

(* gauge::dec where it ends.                                               *)
EndUse(g) ==
  /\ Update(g)
  /\ open[g] > 0
  /\ value' = [value EXCEPT ![g] = Plus(@, -1)]
  /\ open' = [open EXCEPT ![g] = @ - 1]
  /\ UNCHANGED <<thread, skewed>>

-----------------------------------------------------------------------------
Operation(t) ==
  \/ Serialize(t)
  \/ Reset(t)
  \/ \E f \in Families : FamilyReset(t, f)
  \/ \E m \in All : MetricReset(t, m)
  \/ \E s \in Summaries : Observe(t, s)

Step(t) ==
  \/ Lock(t) \/ Unlock(t) \/ Copy(t) \/ PrintLine(t)
  \/ Zero(t) \/ Clear(t) \/ Push(t) \/ Count(t)
  \/ Return(t)

UpdateCounter(c) == \E amount \in Amounts : Inc(c, amount)
UpdateGauge(g) == (\E v \in Amounts : Set(g, v)) \/ Use(g) \/ EndUse(g)

(* The bounds are used up and every call has returned.                     *)
Finished ==
  /\ calls = program.calls
  /\ Busy = {}
  /\ UNCHANGED vars

Next ==
  \/ \E t \in Threads : Operation(t) \/ Step(t)
  \/ \E c \in Counters : UpdateCounter(c)
  \/ \E g \in Gauges : UpdateGauge(g)
  \/ Finished

Spec == Init /\ [][Next]_vars

(* The operating system keeps running every thread that is inside a call;  *)
(* nobody has to make a call or to update a metric.                        *)
FairSpec == Spec /\ \A t \in Threads : WF_vars(Step(t))

-----------------------------------------------------------------------------
(* Correctness                                                             *)

(* The type invariant: every variable holds a value of its kind, and the   *)
(* owner of a mutex has still to unlock it.                                *)
TypeOK ==
  LET Steps == {"lock", "unlock", "copy", "print", "zero", "clear",
                "push", "count"}
  IN  /\ program \in Programs
      /\ order \in Orders
      /\ value \in [All -> Number]
      /\ window \in [Summaries -> Nat]
      /\ mutex \in [Mutexes -> Threads \cup {NoThread}]
      /\ \A x \in Mutexes :
           mutex[x] # NoThread =>
             mutex[x] \in Busy /\ <<"unlock", x>> \in Range(thread[mutex[x]].todo)
      /\ \A t \in Busy : thread[t].todo \in Seq(Steps \X (Mutexes \cup All))
      /\ calls \in 0 .. program.calls
      /\ \A m \in Counters \cup Gauges : updates[m] \in 0 .. MaxUpdates[m]
      /\ open \in [Gauges -> Nat]
      /\ skewed \subseteq Gauges

(* Every call returns: however the calls nest and whatever they run beside,*)
(* no circle of threads waits for the locks of the registry, a family and  *)
(* a summary.                                                              *)
CallsReturn == \A t \in Threads : []<>(t \notin Busy)

(* A counter only rises, but for the step of a reset that zeroes it and    *)
(* for an increment by NaN, which inc() lets through.                      *)
CounterOnlyRises ==
  [][\A c \in Counters :
       Rises(value[c], value'[c]) \/ \E t \in Threads : Zero(t) /\ On(t) = c]_vars

(* A scrape never shows a reset of the registry half done: what it prints  *)
(* is at least what there was when it locked the registry, unless a reset  *)
(* of one family or metric, which the registry does not know of, came      *)
(* between.                                                                *)
ScrapeNotTorn ==
  \A t \in Scrapes :
    \A m \in DOMAIN thread[t].lines \ thread[t].reset :
      Rises(thread[t].base[m], thread[t].lines[m])

(* The lines a scrape prints of a summary agree, though it reads them at   *)
(* two moments: the count covers every observation in the window that the  *)
(* quantiles are taken from, but those another thread was about to count.  *)
SummaryLinesAgree ==
  \A t \in Scrapes :
    \A s \in (DOMAIN thread[t].copied \cap DOMAIN thread[t].lines) \ thread[t].reset :
      Unprinted(t, s) \/ thread[t].copied[s] <= thread[t].lines[s] + thread[t].late[s]

(* A reset, of the registry, of one family or of one metric, that is over  *)
(* has left of a counter or summary no more than what was added since it   *)
(* was called, and no NaN of before.                                       *)
ResetForgets ==
  \A t \in Resets :
    thread[t].todo = << >> =>
      \A m \in thread[t].covers : Rises(value[m], thread[t].since[m])

(* A gauge that is incremented and decremented around each use shows the   *)
(* number of uses in progress, from the last moment it was reset or set to *)
(* that number on; when a reset zeroes it in the middle of a use, it is    *)
(* wrong from then on, after every use has ended too.                      *)
GaugeFollowsUses == \A g \in Gauges : value[g] = open[g] <=> g \notin skewed

=============================================================================
