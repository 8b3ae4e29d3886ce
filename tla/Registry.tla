------------------------------ MODULE Registry ------------------------------
(***************************************************************************)
(* The registry (registry.cpp) shared by threads that create families,     *)
(* scrape and reset it, and update metrics through the families they hold. *)
(*                                                                         *)
(* create_* looks the name up under _mutex and inserts into _families      *)
(* after it has released it; serialize() and reset() walk _families under  *)
(* _mutex.  An insertion is two steps, the search of emplace and the       *)
(* linking of the new node.  Nothing orders it with another insertion or   *)
(* with a walk; what such a race may do is a nondeterministic choice:      *)
(* nodes linked by others since the search may be lost, and a walk in      *)
(* progress may skip or repeat nodes.  (It may also crash: that ends the   *)
(* behaviour.)  In a behaviour with `alone' the callers keep to the        *)
(* discipline of the shipped example, which creates its families before    *)
(* it starts anything else.                                                *)
(*                                                                         *)
(* A family is one number here, the value of its metrics: they have        *)
(* modules of their own.                                                   *)
(***************************************************************************)
EXTENDS Integers, Sequences, FiniteSets

CONSTANTS
  Threads,      (* callers of the registry                                 *)
  Names,        (* family names                                            *)
  Disciplines,  (* whether callers run create_* beside no other call: may  *)
                (*   hold TRUE, FALSE or both                              *)
  NoThread,     (* owner of a free mutex                                   *)
  MaxCalls,     (* bounds the model: number of registry calls              *)
  MaxUpdates    (* bounds the model: number of updates of a family; both   *)
                (*   bounds are functions of `alone'                       *)

ASSUME RegistryAssumption ==
  /\ NoThread \notin Threads
  /\ Disciplines \subseteq BOOLEAN
  /\ MaxCalls \in [BOOLEAN -> Nat]
  /\ MaxUpdates \in [BOOLEAN -> Nat]

VARIABLES
  alone,     (* whether the callers of this program are disciplined        *)
  made,      (* names of the families constructed, in order                *)
  families,  (* _families: the positions in `made' of those linked         *)
  handles,   (* families that create_* has returned                        *)
  value,     (* the value of each family made                              *)
  mutex,     (* owner of _mutex                                            *)
  thread,    (* where each thread is, with what it has noted on its way:   *)
             (*   name and fresh, the family a create_* call makes;        *)
             (*   seen, the families linked when its emplace searched;     *)
             (*   todo, families a walk has still to visit; output, the    *)
             (*   lines it printed; and as history: known, the families    *)
             (*   when it was called, base, their values when it locked    *)
             (*   the mutex or, for a reset, their updates when called     *)
  calls,     (* number of registry calls made so far                       *)
  updates    (* history: number of updates to each family                  *)

vars == <<alone, made, families, handles, value, mutex, thread, calls, updates>>

(* What most actions leave alone together.                                 *)
contents == <<alone, made, families, handles>>

Idle == [at |-> "idle"]

Init ==
  /\ alone \in Disciplines
  /\ made = << >>
  /\ families = {}
  /\ handles = {}
  /\ value = << >>
  /\ mutex = NoThread
  /\ thread = [t \in Threads |-> Idle]
  /\ calls = 0
  /\ updates = << >>

At(t, label) == thread[t].at = label
Goto(t, state) == thread' = [thread EXCEPT ![t] = state]

Creating == {t \in Threads : thread[t].at \in {"check", "make", "emplace", "link"}}
Walking == {t \in Threads : thread[t].at \in {"serialize", "reset"}}
Busy == {t \in Threads : ~At(t, "idle")}

(* Thread t calls the registry; with `alone' not beside `others'.          *)
Call(t, others, state) ==
  /\ At(t, "idle")
  /\ calls < MaxCalls[alone]
  /\ alone => others = {}
  /\ calls' = calls + 1
  /\ Goto(t, state)
  /\ UNCHANGED <<contents, value, mutex, updates>>

-----------------------------------------------------------------------------
(* create_counter, create_gauge, create_histogram, create_summary          *)

Create(t, n) == Call(t, Busy, [at |-> "check", name |-> n])

Exists(n) == \E f \in families : made[f] = n

(* Bug: the name is not looked up.                                         *)
CheckNothing(t) ==
  /\ At(t, "check")
  /\ mutex = NoThread
  /\ Goto(t, [thread[t] EXCEPT !.at = "make"])
  /\ UNCHANGED <<contents, value, mutex, calls, updates>>

(* Bug: the exception leaves the mutex locked.                             *)
CheckThrowsLocked(t) ==
  /\ At(t, "check")
  /\ mutex = NoThread
  /\ IF Exists(thread[t].name)
       THEN Goto(t, Idle) /\ mutex' = t
       ELSE Goto(t, [thread[t] EXCEPT !.at = "make"]) /\ UNCHANGED mutex
  /\ UNCHANGED <<contents, value, calls, updates>>

(* check_metric_family_exists takes the mutex, looks, throws or returns.   *)
Check(t) ==
  /\ At(t, "check")
  /\ mutex = NoThread
  /\ Goto(t, IF Exists(thread[t].name)
               THEN Idle
               ELSE [thread[t] EXCEPT !.at = "make"])
  /\ UNCHANGED <<contents, value, mutex, calls, updates>>

(* Bug: the family is constructed without its metrics.                     *)
MakeBare(t) ==
  /\ At(t, "make")
  /\ made' = Append(made, thread[t].name)
  /\ Goto(t, [at |-> "emplace", fresh |-> Len(made')])
  /\ UNCHANGED <<alone, families, handles, value, mutex, calls, updates>>

(* make_shared: the buckets or quantiles of the call are not passed on.    *)
Make(t) ==
  /\ At(t, "make")
  /\ made' = Append(made, thread[t].name)
  /\ value' = Append(value, 0)
  /\ updates' = Append(updates, 0)
  /\ Goto(t, [at |-> "emplace", fresh |-> Len(made')])
  /\ UNCHANGED <<alone, families, handles, mutex, calls>>

(* The call returns the family it has made, whatever emplace did.          *)
Return(t) == handles' = handles \cup {thread[t].fresh}

EmplaceFind(t) ==
  /\ At(t, "emplace")
  /\ \/ /\ ~Exists(made[thread[t].fresh])
        /\ Goto(t, [at |-> "link", fresh |-> thread[t].fresh, seen |-> families])
        /\ UNCHANGED handles
     \/ /\ Exists(made[thread[t].fresh])
        /\ Return(t)
        /\ Goto(t, Idle)
  /\ UNCHANGED <<alone, made, families, value, mutex, calls, updates>>

EmplaceLink(t) ==
  /\ At(t, "link")
  /\ \E lost \in SUBSET (families \ thread[t].seen) :
       families' = (families \ lost) \cup {thread[t].fresh}
  /\ \E disturbed \in [Walking -> SUBSET families'] :
       thread' = [u \in Threads |->
                    IF u = t THEN Idle
                    ELSE IF u \in Walking
                      THEN [thread[u] EXCEPT !.todo = disturbed[u]]
                      ELSE thread[u]]
  /\ Return(t)
  /\ UNCHANGED <<alone, made, value, mutex, calls, updates>>

-----------------------------------------------------------------------------
(* serialize() and reset()                                                 *)

Serialize(t) ==
  Call(t, Creating, [at |-> "serialize_lock", known |-> families])

Reset(t) ==
  Call(t, Creating, [at |-> "reset_lock", known |-> families, base |-> updates])

Scraping(t) == [at |-> "serialize", known |-> thread[t].known, base |-> value,
                todo |-> families, output |-> << >>]

(* Bug: the scrape does not take the mutex.                                *)
SerializeUnlocked(t) ==
  /\ At(t, "serialize_lock")
  /\ Goto(t, Scraping(t))
  /\ UNCHANGED <<contents, value, mutex, calls, updates>>

SerializeLock(t) ==
  /\ At(t, "serialize_lock")
  /\ mutex = NoThread
  /\ mutex' = t
  /\ Goto(t, Scraping(t))
  /\ UNCHANGED <<contents, value, calls, updates>>

ResetLock(t) ==
  /\ At(t, "reset_lock")
  /\ mutex = NoThread
  /\ mutex' = t
  /\ Goto(t, [at |-> "reset", known |-> thread[t].known,
              base |-> thread[t].base, todo |-> families])
  /\ UNCHANGED <<contents, value, calls, updates>>

(* Bug: the loop ends with its first family.                               *)
OnlyThat(todo, f) == {}

(* The families a walk has to visit after f.                               *)
Rest(todo, f) == todo \ {f}

(* The order of an unordered_map is any order.                             *)
SerializeFamily(t) ==
  /\ At(t, "serialize")
  /\ \E f \in thread[t].todo :
       thread' = [thread EXCEPT
                    ![t].todo = Rest(@, f),
                    ![t].output = Append(@, [family |-> f, value |-> value[f]])]
  /\ UNCHANGED <<contents, value, mutex, calls, updates>>

ResetFamily(t) ==
  /\ At(t, "reset")
  /\ \E f \in thread[t].todo :
       /\ thread' = [thread EXCEPT ![t].todo = Rest(@, f)]
       /\ value' = [value EXCEPT ![f] = 0]
  /\ UNCHANGED <<contents, mutex, calls, updates>>

(* A walk that is over has nothing left to visit.                          *)
WalkOver(t, label) == At(t, label) /\ thread[t].todo = {}

WalkDone(t) ==
  /\ WalkOver(t, "serialize") \/ WalkOver(t, "reset")
  /\ mutex' = NoThread
  /\ Goto(t, Idle)
  /\ UNCHANGED <<contents, value, calls, updates>>

-----------------------------------------------------------------------------
(* A metric of family f is incremented by the default 1, through a handle  *)
(* and beside any call.                                                    *)
Update(f) ==
  /\ f \in handles
  /\ updates[f] < MaxUpdates[alone]
  /\ updates' = [updates EXCEPT ![f] = @ + 1]
  /\ value' = [value EXCEPT ![f] = @ + 1]
  /\ UNCHANGED <<contents, mutex, thread, calls>>

(* What a thread may call, in any order.                                   *)
Operation(t) == (\E n \in Names : Create(t, n)) \/ Serialize(t) \/ Reset(t)

(* The steps of a call that has begun.                                     *)
Step(t) ==
  \/ Check(t) \/ Make(t) \/ EmplaceFind(t) \/ EmplaceLink(t)
  \/ SerializeLock(t) \/ SerializeFamily(t)
  \/ ResetLock(t) \/ ResetFamily(t)
  \/ WalkDone(t)

(* The bounds are used up and every call has returned.                     *)
Finished ==
  /\ calls = MaxCalls[alone]
  /\ Busy = {}
  /\ \A f \in handles : updates[f] = MaxUpdates[alone]
  /\ UNCHANGED vars

Next ==
  \/ \E t \in Threads : Operation(t) \/ Step(t)
  \/ \E f \in handles : Update(f)
  \/ Finished

Spec == Init /\ [][Next]_vars

(* The operating system keeps running every thread that is inside a call;  *)
(* nobody has to make a call or to update a metric.                        *)
FairSpec == Spec /\ \A t \in Threads : WF_vars(Step(t))

-----------------------------------------------------------------------------
(* Correctness                                                             *)

(* The type invariant: every variable holds a value of its kind, and what  *)
(* is linked, returned or noted by a thread has been made.                 *)
TypeOK ==
  LET Made == 1 .. Len(made)
      State ==
        [at : {"idle"}]
          \cup [at : {"check", "make"}, name : Names]
          \cup [at : {"emplace"}, fresh : Made]
          \cup [at : {"link"}, fresh : Made, seen : SUBSET Made]
          \cup [at : {"serialize_lock"}, known : SUBSET Made]
  IN  /\ alone \in BOOLEAN
      /\ made \in Seq(Names)
      /\ families \subseteq Made
      /\ handles \subseteq Made
      /\ value \in [Made -> 0 .. MaxUpdates[alone]]
      /\ updates \in [Made -> 0 .. MaxUpdates[alone]]
      /\ mutex \in Threads \cup {NoThread}
      /\ \A t \in Threads :
           IF thread[t].at \in {"reset_lock", "serialize", "reset"}
             THEN thread[t].known \subseteq Made
             ELSE thread[t] \in State
      /\ \A t \in Walking : thread[t].todo \subseteq Made
      /\ calls \in 0 .. MaxCalls[alone]

(* The registry "ensures that metric family names are unique" (registry.hpp *)
(* :32): of all the calls that create a name, one returns a family.  The   *)
(* others throw.                                                           *)
NamesUnique == \A f, g \in handles : made[f] = made[g] => f = g

(* So it is if create_* runs beside no other call.                         *)
OneCreatePerName == alone => NamesUnique

(* With that discipline no caller is left with an orphan, a family whose   *)
(* metrics no scrape will ever show.                                       *)
HandlesRegistered == alone => handles \subseteq families

(* With that discipline a scrape that is over has one line for each family *)
(* that was registered when it was called, and none twice.                 *)
ScrapeComplete ==
  \A t \in Threads :
    alone /\ WalkOver(t, "serialize") =>
      \A f \in thread[t].known :
        LET output == thread[t].output
        IN  Cardinality({i \in 1 .. Len(output) : output[i].family = f}) = 1

(* Whatever creations, updates and resets of the registry run beside it, a *)
(* scrape never shows a reset half done: since it holds the mutex, values  *)
(* can only grow under it.  (Prometheus has the resets that do not take    *)
(* the mutex of the registry, those of a family and of a metric.)          *)
ScrapeNotTorn ==
  \A t \in Threads :
    At(t, "serialize") =>
      \A i \in 1 .. Len(thread[t].output) :
        LET line == thread[t].output[i]
        IN  line.family \in DOMAIN thread[t].base =>
              line.value >= thread[t].base[line.family]

(* With that discipline a reset that is over has forgotten every update    *)
(* made before it was called, in every family registered by then, while    *)
(* handles go on updating.                                                 *)
ResetComplete ==
  \A t \in Threads :
    alone /\ WalkOver(t, "reset") =>
      \A f \in thread[t].known : value[f] <= updates[f] - thread[t].base[f]

(* Every call returns, the creates that throw included: no path keeps the  *)
(* mutex.                                                                  *)
CallsReturn == \A t \in Threads : []<>(t \notin Busy)

=============================================================================
