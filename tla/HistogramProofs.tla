-------------------------- MODULE HistogramProofs --------------------------
(***************************************************************************)
(* Theorems about Histogram, for any threads, values and bounds, any       *)
(* number of calls, and accesses in program order or in any order.         *)
(***************************************************************************)
EXTENDS Histogram, BasicLemmas

(* The bounds are those of a constructed histogram.                        *)
Ascending ==
  /\ Len(bounds) >= 1
  /\ \A i, j \in 1 .. Len(bounds) : i <= j => bounds[i] <= bounds[j]
  /\ bounds[Len(bounds)] = Infinity

(* A thread is in a call of its role, an observer with a finite value and  *)
(* no cells to access but those that value touches.                        *)
Roles ==
  \A t \in Threads :
    /\ op[t] = "observe" =>
         t \in Observers /\ arg[t] \in Values /\ todo[t] \subseteq Touched(arg[t])
    /\ op[t] = "serialize" => t \in Scrapers /\ programOrder
    /\ op[t] = "reset" => t \in Resetters

Typed == TypeOK /\ Ascending /\ Roles

(* The threads that have still to add to the cell c, and those whose value *)
(* it counts.                                                              *)
Owing(c) == {t \in In("observe") : c \in todo[t]}
Active(c) == {t \in In("observe") : c \in Touched(arg[t])}

(* While a reset that began at rest has not ended, no observe is under way *)
(* and the cells that no reset has still to store are zero.                *)
Emptied ==
  /\ recorded = << >>
  /\ In("observe") = {}
  /\ \A c \in Cells : (\A t \in In("reset") : c \notin todo[t]) => mem[c] = 0

(* The count and the buckets lack what the observes under way owe them.    *)
Counted ==
  ~torn =>
    IF In("reset") = {}
      THEN \A c \in Cells \ {Sum} :
             mem[c] + Cardinality(Owing(c)) = Tally(recorded, c)
      ELSE Emptied

(* The observes begun are those that have returned and those under way.    *)
Balanced ==
  ~torn =>
    \A c \in Cells \ {Sum} :
      Tally(finished, c) + Cardinality(Active(c)) = Tally(recorded, c)

(* The sum lacks the arguments of the observers that owe it one.           *)
Summed ==
  \E f : /\ Sums(f, Observers, arg)
         /\ ~torn /\ In("reset") = {} => mem[Sum] + f[Owing(Sum)] = Total(recorded)

(* Where accesses stay in order, an observer that has not added to the     *)
(* count has added to nothing, and the count is what a scrape reads last.  *)
InOrder ==
  programOrder =>
    \A t \in Threads :
      /\ op[t] = "observe" /\ Count \in todo[t] => todo[t] = Touched(arg[t])
      /\ op[t] = "serialize" => Count \in todo[t]

(* What a scrape that no reset has disturbed has read so far, and the      *)
(* cells it has still to read, cover the observes that had returned when   *)
(* it began; and the count covers the buckets it has read.                 *)
Covered ==
  /\ clean # {} => ~torn /\ In("reset") = {} /\ programOrder
  /\ \A t \in clean :
       /\ \A c \in Cells \ {Sum} :
            Tally(owed[t], c) <= IF c \in todo[t] THEN mem[c] ELSE printed[t][c]
       /\ \A i \in 1 .. Len(bounds) :
            Bucket(i) \notin todo[t] =>
              printed[t][Bucket(i)] <=
                IF Count \in todo[t] THEN mem[Count] ELSE printed[t][Count]

-----------------------------------------------------------------------------
(* The cells.                                                              *)

(* The cells are distinct, and each is the count, the sum or a bucket.     *)
LEMMA CellFacts ==
  /\ Count \in Cells /\ Sum \in Cells /\ Count # Sum
  /\ \A i \in 1 .. Len(bounds) :
       Bucket(i) \in Buckets /\ Bucket(i) \in Cells
         /\ Bucket(i) # Count /\ Bucket(i) # Sum /\ Bucket(i)[2] = i
  /\ \A c \in Cells :
       c # Count /\ c # Sum => \E i \in 1 .. Len(bounds) : c = Bucket(i)
BY DEF Cells, Buckets, Count, Sum, Bucket

(* Every observation touches the count and the sum, and the buckets whose  *)
(* bound its value does not exceed.                                        *)
LEMMA TouchedFacts ==
  ASSUME NEW v
  PROVE  /\ Touched(v) \subseteq Cells
         /\ Count \in Touched(v) /\ Sum \in Touched(v)
         /\ \A i \in 1 .. Len(bounds) : Bucket(i) \in Touched(v) <=> v <= bounds[i]
BY DEF Touched, Cells, Buckets, Count, Sum, Bucket

(* In program order a call accesses first the cell of the lowest rank.     *)
LEMMA RankFacts ==
  ASSUME NEW c \in Cells
  PROVE  /\ c # Count => Precedes("observe", Count, c)
         /\ bounds \in Seq(Int) /\ c # Count => Precedes("serialize", c, Count)
<1>1. CASE c = Count
  BY <1>1
<1>2. CASE c = Sum
  BY <1>2, CellFacts
  DEF Precedes, UpdateRank, ScrapeRank, Count, Sum
<1>3. CASE c # Count /\ c # Sum
  <2>1. PICK i \in 1 .. Len(bounds) : c = Bucket(i)
    BY <1>3, CellFacts
  <2>2. c[2] = i /\ i \in Int /\ i >= 1 /\ i <= Len(bounds)
    BY <2>1, CellFacts
  <2>3. UpdateRank(Count) = -1 /\ UpdateRank(c) = i
    BY <1>3, <2>2 DEF UpdateRank
  <2>4. ScrapeRank(Count) = Len(bounds) + 2 /\ ScrapeRank(c) = i
    BY <1>3, <2>2 DEF ScrapeRank
  <2>5. Precedes("observe", Count, c)
    BY <2>2, <2>3 DEF Precedes
  <2>6. bounds \in Seq(Int) => Precedes("serialize", c, Count)
    BY <2>2, <2>4 DEF Precedes
  <2> QED
    BY <2>5, <2>6
<1> QED
  BY <1>1, <1>2, <1>3

(* The bounds never change, and with them the cells.                       *)
LEMMA Rigid ==
  ASSUME [Next]_vars
  PROVE  programOrder' = programOrder /\ bounds' = bounds
BY DEF Next, vars, rigid, Ignore, Observe, Add, Serialize, Load, Reset, Store,
       Finished

LEMMA RigidCells ==
  ASSUME bounds' = bounds
  PROVE  /\ Cells' = Cells /\ Buckets' = Buckets /\ Zero' = Zero
         /\ \A v : Touched(v)' = Touched(v)
BY DEF Cells, Buckets, Zero, Touched

-----------------------------------------------------------------------------
(* Types and roles.                                                        *)

LEMMA TypedInit == Init => Typed
<1> SUFFICES ASSUME Init PROVE Typed
  OBVIOUS
<1>1. PICK given \in GivenBounds[programOrder] :
        bounds = Constructed(given, Infinity)
  BY DEF Init
<1>2. /\ Infinity \in Int /\ programOrder \in BOOLEAN
      /\ given \in Seq({b \in Int : b <= Infinity})
  BY HistogramAssumption DEF Init
<1>3. bounds \in Seq(Int) /\ Ascending
  BY <1>1, <1>2, ConstructedProperties DEF Ascending
<1>4. Zero \in [Cells -> Int] /\ \A c \in Cells : Zero[c] = 0
  BY DEF Zero
<1>5. /\ mem \in [Cells -> Int]
      /\ \A c \in Cells \ {Sum} : mem[c] >= 0
      /\ printed \in [Scrapers -> [Cells -> Int]]
  BY <1>4 DEF Init
<1>6. /\ op \in [Threads -> {"idle", "observe", "serialize", "reset"}]
      /\ arg \in [Observers -> Values \cup {0}]
      /\ todo \in [Threads -> SUBSET Cells]
      /\ \A t \in Threads : op[t] = "idle" /\ todo[t] = {}
  BY DEF Init
<1>7. /\ calls \in 0 .. MaxCalls
      /\ recorded \in Seq(Values) /\ finished \in Seq(Values)
      /\ owed \in [Scrapers -> Seq(Values)]
      /\ clean \subseteq Scrapers /\ torn \in BOOLEAN
  <2>1. << >> \in Seq(Values) /\ 0 \in 0 .. MaxCalls
    BY HistogramAssumption
  <2> QED
    BY <2>1 DEF Init
<1>8. TypeOK
  BY <1>2, <1>3, <1>5, <1>6, <1>7 DEF TypeOK
<1> QED
  BY <1>3, <1>6, <1>8 DEF Typed, Roles

(* What the beginning of a call by thread t does to the threads.           *)
LEMMA BeginTyped ==
  ASSUME Typed, [Next]_vars, NEW t \in Threads,
         NEW call \in {"observe", "serialize", "reset"},
         NEW cells \in SUBSET Cells, cells # {}, Begin(t, call, cells)
  PROVE  /\ op' \in [Threads -> {"idle", "observe", "serialize", "reset"}]
         /\ (todo \in [Threads -> SUBSET Cells])'
         /\ \A u \in Threads : op'[u] = "idle" <=> todo'[u] = {}
         /\ calls' \in 0 .. MaxCalls
         /\ op[t] = "idle" /\ op'[t] = call /\ todo'[t] = cells
         /\ \A u \in Threads \ {t} : op'[u] = op[u] /\ todo'[u] = todo[u]
<1>1. /\ op \in [Threads -> {"idle", "observe", "serialize", "reset"}]
      /\ todo \in [Threads -> SUBSET Cells] /\ Cells' = Cells
      /\ \A u \in Threads : op[u] = "idle" <=> todo[u] = {}
  BY Rigid, RigidCells DEF Typed, TypeOK
<1>2. /\ op[t] = "idle"
      /\ op' = [op EXCEPT ![t] = call]
      /\ todo' = [todo EXCEPT ![t] = cells]
  BY DEF Begin
<1>3. calls' \in 0 .. MaxCalls
  BY HistogramAssumption DEF Begin, Typed, TypeOK
<1>4. /\ op' \in [Threads -> {"idle", "observe", "serialize", "reset"}]
      /\ (todo \in [Threads -> SUBSET Cells])'
  BY <1>1, <1>2
<1>5. /\ op'[t] = call /\ todo'[t] = cells
      /\ \A u \in Threads \ {t} : op'[u] = op[u] /\ todo'[u] = todo[u]
  BY <1>1, <1>2
<1>6. \A u \in Threads : op'[u] = "idle" <=> todo'[u] = {}
  BY <1>1, <1>5
<1> QED
  BY <1>2, <1>3, <1>4, <1>5, <1>6

(* What an access of thread t to the cell c does to the threads.           *)
LEMMA AccessTyped ==
  ASSUME Typed, [Next]_vars, NEW t \in Threads, NEW c \in Ready(t), Accessed(t, c),
         op[t] # "idle"
  PROVE  /\ op' \in [Threads -> {"idle", "observe", "serialize", "reset"}]
         /\ (todo \in [Threads -> SUBSET Cells])'
         /\ \A u \in Threads : op'[u] = "idle" <=> todo'[u] = {}
         /\ c \in todo[t] /\ c \in Cells /\ todo'[t] = todo[t] \ {c}
         /\ op'[t] = IF todo[t] = {c} THEN "idle" ELSE op[t]
         /\ \A u \in Threads \ {t} : op'[u] = op[u] /\ todo'[u] = todo[u]
<1>1. /\ op \in [Threads -> {"idle", "observe", "serialize", "reset"}]
      /\ todo \in [Threads -> SUBSET Cells] /\ Cells' = Cells
      /\ \A u \in Threads : op[u] = "idle" <=> todo[u] = {}
  BY Rigid, RigidCells DEF Typed, TypeOK
<1>2. c \in todo[t] /\ c \in Cells
  BY <1>1 DEF Ready
<1>3. /\ op' = [op EXCEPT ![t] = IF todo[t] = {c} THEN "idle" ELSE op[t]]
      /\ todo' = [todo EXCEPT ![t] = todo[t] \ {c}]
  BY <1>1 DEF Accessed
<1>4. /\ op' \in [Threads -> {"idle", "observe", "serialize", "reset"}]
      /\ (todo \in [Threads -> SUBSET Cells])'
  BY <1>1, <1>3
<1>5. /\ op'[t] = (IF todo[t] = {c} THEN "idle" ELSE op[t])
      /\ todo'[t] = todo[t] \ {c}
      /\ \A u \in Threads \ {t} : op'[u] = op[u] /\ todo'[u] = todo[u]
  BY <1>1, <1>3
<1>6. \A u \in Threads : op'[u] = "idle" <=> todo'[u] = {}
  BY <1>1, <1>2, <1>5
<1> QED
  BY <1>2, <1>4, <1>5, <1>6

(* What each step changes.                                                 *)

(* The variables that a step of no call leaves alone.                      *)
Still == UNCHANGED <<rigid, mem, op, arg, todo, scrape, recorded, finished, torn>>

Others(t) == \A u \in Threads \ {t} : op'[u] = op[u] /\ todo'[u] = todo[u]
Begins(t, call, cells) ==
  op[t] = "idle" /\ op'[t] = call /\ todo'[t] = cells /\ Others(t)
Accesses(t, c) ==
  /\ c \in Ready(t) /\ c \in todo[t] /\ c \in Cells
  /\ todo'[t] = todo[t] \ {c}
  /\ op'[t] = IF todo[t] = {c} THEN "idle" ELSE op[t]
  /\ Others(t)

ThreadsTyped ==
  /\ op \in [Threads -> {"idle", "observe", "serialize", "reset"}]
  /\ todo \in [Threads -> SUBSET Cells]
  /\ \A u \in Threads : op[u] = "idle" <=> todo[u] = {}
  /\ calls \in 0 .. MaxCalls

LEMMA IgnoreMoves ==
  ASSUME Typed, [Next]_vars, NEW t, NEW v, Ignore(t, v)
  PROVE  ThreadsTyped' /\ Still
<1>1. bounds' = bounds /\ Cells' = Cells
  BY Rigid, RigidCells
<1>2. ThreadsTyped
  BY DEF Typed, TypeOK, ThreadsTyped
<1>3. calls' \in 0 .. MaxCalls /\ UNCHANGED <<op, todo>>
  BY <1>2, HistogramAssumption DEF Ignore, ThreadsTyped
<1> QED
  BY <1>1, <1>2, <1>3 DEF Ignore, Still, ThreadsTyped

LEMMA ObserveMoves ==
  ASSUME Typed, [Next]_vars, NEW t \in Observers, NEW v \in Values \cup {NonFinite},
         Observe(t, v)
  PROVE  /\ ThreadsTyped' /\ v \in Values /\ Begins(t, "observe", Touched(v))
         /\ arg' \in [Observers -> Values \cup {0}] /\ arg'[t] = v
         /\ \A u \in Observers \ {t} : arg'[u] = arg[u]
         /\ recorded' = Append(recorded, v)
         /\ torn' = (torn \/ In("reset") # {})
         /\ UNCHANGED <<mem, printed, owed, clean, finished>>
<1>1. /\ t \in Threads /\ v \in Values /\ Begin(t, "observe", Touched(v))
      /\ Touched(v) \in SUBSET Cells /\ Touched(v) # {}
      /\ arg' = [arg EXCEPT ![t] = v] /\ recorded' = Append(recorded, v)
      /\ torn' = (torn \/ In("reset") # {})
      /\ UNCHANGED <<mem, scrape, finished>>
  BY TouchedFacts DEF Observe, Threads
<1>2. ThreadsTyped' /\ Begins(t, "observe", Touched(v))
  BY <1>1, BeginTyped DEF ThreadsTyped, Begins, Others
<1>3. /\ arg' \in [Observers -> Values \cup {0}] /\ arg'[t] = v
      /\ \A u \in Observers \ {t} : arg'[u] = arg[u]
  BY <1>1 DEF Typed, TypeOK
<1> QED
  BY <1>1, <1>2, <1>3 DEF scrape

LEMMA AddMoves ==
  ASSUME Typed, [Next]_vars, NEW t \in Observers, Add(t)
  PROVE  /\ ThreadsTyped' /\ op[t] = "observe" /\ arg[t] \in Values
         /\ \E c \in Cells :
              /\ Accesses(t, c)
              /\ mem' = [mem EXCEPT ![c] = @ + IF c = Sum THEN arg[t] ELSE 1]
              /\ finished' = IF todo[t] = {c} THEN Append(finished, arg[t])
                                              ELSE finished
         /\ UNCHANGED <<arg, printed, owed, clean, recorded, torn>>
<1>1. PICK c \in Ready(t) :
        /\ mem' = [mem EXCEPT ![c] = @ + IF c = Sum THEN arg[t] ELSE 1]
        /\ Accessed(t, c)
        /\ finished' = IF todo[t] = {c} THEN Append(finished, arg[t]) ELSE finished
  BY DEF Add
<1>2. /\ t \in Threads /\ op[t] = "observe" /\ arg[t] \in Values
      /\ UNCHANGED <<arg, scrape, calls, recorded, torn>>
  BY DEF Add, Threads, Typed, Roles
<1>3. ThreadsTyped' /\ Accesses(t, c)
  BY <1>1, <1>2, AccessTyped DEF ThreadsTyped, Accesses, Others, Typed, TypeOK
<1>4. c \in Cells
  BY <1>3 DEF Accesses
<1> QED
  BY <1>1, <1>2, <1>3, <1>4 DEF scrape

LEMMA SerializeMoves ==
  ASSUME Typed, [Next]_vars, NEW t \in Scrapers, Serialize(t)
  PROVE  /\ ThreadsTyped' /\ Begins(t, "serialize", Cells)
         /\ printed' = [printed EXCEPT ![t] = Zero]
         /\ owed' = [owed EXCEPT ![t] = finished]
         /\ clean' = IF torn \/ In("reset") # {} THEN clean \ {t} ELSE clean \cup {t}
         /\ UNCHANGED <<mem, arg, recorded, finished, torn>>
<1>1. t \in Threads /\ Begin(t, "serialize", Cells) /\ Cells # {}
  BY CellFacts DEF Serialize, Threads
<1>2. ThreadsTyped' /\ Begins(t, "serialize", Cells)
  BY <1>1, BeginTyped DEF ThreadsTyped, Begins, Others
<1> QED
  BY <1>2 DEF Serialize

LEMMA LoadMoves ==
  ASSUME Typed, [Next]_vars, NEW t \in Scrapers, Load(t)
  PROVE  /\ ThreadsTyped' /\ op[t] = "serialize"
         /\ \E c \in Cells : /\ Accesses(t, c)
                           /\ printed' = [printed EXCEPT ![t][c] = mem[c]]
         /\ UNCHANGED <<mem, arg, recorded, finished, owed, clean, torn>>
<1>1. PICK c \in Ready(t) :
        printed' = [printed EXCEPT ![t][c] = mem[c]] /\ Accessed(t, c)
  BY DEF Load
<1>2. /\ t \in Threads /\ op[t] = "serialize"
      /\ UNCHANGED <<mem, arg, calls, recorded, finished, owed, clean, torn>>
  BY DEF Load, Threads
<1>3. ThreadsTyped' /\ Accesses(t, c)
  BY <1>1, <1>2, AccessTyped DEF ThreadsTyped, Accesses, Others, Typed, TypeOK
<1>4. c \in Cells
  BY <1>3 DEF Accesses
<1> QED
  BY <1>1, <1>2, <1>3, <1>4

LEMMA ResetMoves ==
  ASSUME Typed, [Next]_vars, NEW t \in Resetters, Reset(t)
  PROVE  /\ ThreadsTyped' /\ Begins(t, "reset", Cells)
         /\ recorded' = << >> /\ finished' = << >> /\ clean' = {}
         /\ torn' = (In("observe") # {})
         /\ UNCHANGED <<mem, arg, printed, owed>>
<1>1. t \in Threads /\ Begin(t, "reset", Cells) /\ Cells # {}
  BY CellFacts DEF Reset, Threads
<1>2. ThreadsTyped' /\ Begins(t, "reset", Cells)
  BY <1>1, BeginTyped DEF ThreadsTyped, Begins, Others
<1> QED
  BY <1>2 DEF Reset

LEMMA StoreMoves ==
  ASSUME Typed, [Next]_vars, NEW t \in Resetters, Store(t)
  PROVE  /\ ThreadsTyped' /\ op[t] = "reset"
         /\ \E c \in Cells : Accesses(t, c) /\ mem' = [mem EXCEPT ![c] = 0]
         /\ UNCHANGED <<arg, printed, owed, clean, recorded, finished, torn>>
<1>1. PICK c \in Ready(t) : mem' = [mem EXCEPT ![c] = 0] /\ Accessed(t, c)
  BY DEF Store
<1>2. /\ t \in Threads /\ op[t] = "reset"
      /\ UNCHANGED <<arg, scrape, calls, recorded, finished, torn>>
  BY DEF Store, Threads
<1>3. ThreadsTyped' /\ Accesses(t, c)
  BY <1>1, <1>2, AccessTyped DEF ThreadsTyped, Accesses, Others, Typed, TypeOK
<1>4. c \in Cells
  BY <1>3 DEF Accesses
<1> QED
  BY <1>1, <1>2, <1>3, <1>4 DEF scrape

LEMMA TypedStep == Typed /\ [Next]_vars => Typed'
<1> SUFFICES ASSUME Typed, [Next]_vars PROVE Typed'
  OBVIOUS
<1>1. /\ programOrder' = programOrder /\ bounds' = bounds
      /\ Cells' = Cells /\ Zero' = Zero /\ \A v : Touched(v)' = Touched(v)
  BY Rigid, RigidCells
<1>2. Ascending'
  BY <1>1 DEF Typed, Ascending
<1>3. /\ programOrder \in BOOLEAN /\ bounds \in Seq(Int)
      /\ mem \in [Cells -> Int] /\ \A c \in Cells \ {Sum} : mem[c] >= 0
      /\ arg \in [Observers -> Values \cup {0}]
      /\ printed \in [Scrapers -> [Cells -> Int]]
      /\ recorded \in Seq(Values) /\ finished \in Seq(Values)
      /\ owed \in [Scrapers -> Seq(Values)]
      /\ clean \subseteq Scrapers /\ torn \in BOOLEAN
  BY DEF Typed, TypeOK
<1>4. Observers \subseteq Threads /\ Scrapers \subseteq Threads /\ Resetters \subseteq Threads
  BY DEF Threads
<1>5. Zero \in [Cells -> Int]
  BY CellFacts DEF Zero
<1> DEFINE Kept == /\ mem' \in [Cells -> Int] /\ \A c \in Cells \ {Sum} : mem'[c] >= 0
                   /\ arg' \in [Observers -> Values \cup {0}]
                   /\ printed' \in [Scrapers -> [Cells -> Int]]
                   /\ recorded' \in Seq(Values) /\ finished' \in Seq(Values)
                   /\ owed' \in [Scrapers -> Seq(Values)]
                   /\ clean' \subseteq Scrapers /\ torn' \in BOOLEAN
<1>6. ThreadsTyped' /\ Kept /\ Roles' => Typed'
  BY <1>1, <1>2, <1>3 DEF Typed, TypeOK, ThreadsTyped
<1>7. ASSUME ThreadsTyped', Still PROVE Typed'
  <2>1. Kept
    BY <1>3, <1>7 DEF Still, scrape
  <2>2. Roles'
    BY <1>1, <1>7 DEF Still, Typed, Roles
  <2> QED
    BY <1>6, <1>7, <2>1, <2>2
<1>8. ASSUME NEW t \in Observers, NEW v \in Values \cup {NonFinite}, Observe(t, v)
      PROVE  Typed'
  <2>1. Kept
    <3>1. recorded' = Append(recorded, v) /\ v \in Values
      BY <1>8, ObserveMoves
    <3>2. recorded' \in Seq(Values)
      BY <1>3, <3>1
    <3>3. torn' \in BOOLEAN
      BY <1>8, ObserveMoves
    <3> QED
      BY <1>3, <1>8, <3>2, <3>3, ObserveMoves
  <2>2. Roles'
    BY <1>1, <1>4, <1>8, ObserveMoves DEF Typed, Roles, Begins, Others
  <2> QED
    BY <1>6, <1>8, <2>1, <2>2, ObserveMoves
<1>9. ASSUME NEW t \in Observers, Add(t) PROVE Typed'
  <2>1. PICK c \in Cells :
          /\ Accesses(t, c)
          /\ mem' = [mem EXCEPT ![c] = @ + IF c = Sum THEN arg[t] ELSE 1]
          /\ finished' = IF todo[t] = {c} THEN Append(finished, arg[t]) ELSE finished
    BY <1>9, AddMoves
  <2>2. /\ ThreadsTyped' /\ op[t] = "observe" /\ arg[t] \in Values
        /\ UNCHANGED <<arg, printed, owed, clean, recorded, torn>>
    BY <1>9, AddMoves
  <2>3. arg[t] \in Int
    BY <2>2, HistogramAssumption
  <2>4. /\ mem' \in [Cells -> Int] /\ \A d \in Cells \ {Sum} : mem'[d] >= 0
    BY <1>3, <2>1, <2>3
  <2>5. finished' \in Seq(Values)
    BY <1>3, <2>1, <2>2
  <2>6. Kept
    BY <1>3, <2>2, <2>4, <2>5
  <2>7. Roles'
    BY <1>1, <2>1, <2>2 DEF Typed, Roles, Accesses, Others
  <2> QED
    BY <1>6, <2>2, <2>6, <2>7
<1>10. ASSUME NEW t \in Scrapers, programOrder, Serialize(t) PROVE Typed'
  <2>1. Kept
    BY <1>3, <1>5, <1>10, SerializeMoves
  <2>2. Roles'
    BY <1>1, <1>4, <1>10, SerializeMoves DEF Typed, Roles, Begins, Others
  <2> QED
    BY <1>6, <1>10, <2>1, <2>2, SerializeMoves
<1>11. ASSUME NEW t \in Scrapers, Load(t) PROVE Typed'
  <2>1. PICK c \in Cells :
          Accesses(t, c) /\ printed' = [printed EXCEPT ![t][c] = mem[c]]
    BY <1>11, LoadMoves
  <2>2. printed' \in [Scrapers -> [Cells -> Int]]
    BY <1>3, <2>1
  <2>3. Kept
    BY <1>3, <1>11, <2>2, LoadMoves
  <2>4. Roles'
    BY <1>1, <1>11, <2>1, LoadMoves DEF Typed, Roles, Accesses, Others
  <2> QED
    BY <1>6, <1>11, <2>3, <2>4, LoadMoves
<1>12. ASSUME NEW t \in Resetters, Reset(t) PROVE Typed'
  <2>1. Kept
    <3>1. /\ recorded' = << >> /\ finished' = << >> /\ clean' = {}
          /\ torn' = (In("observe") # {})
          /\ UNCHANGED <<mem, arg, printed, owed>>
      BY <1>12, ResetMoves
    <3>2. recorded' \in Seq(Values) /\ finished' \in Seq(Values) /\ torn' \in BOOLEAN
      BY <3>1
    <3> QED
      BY <1>3, <3>1, <3>2
  <2>2. Roles'
    BY <1>1, <1>4, <1>12, ResetMoves DEF Typed, Roles, Begins, Others
  <2> QED
    BY <1>6, <1>12, <2>1, <2>2, ResetMoves
<1>13. ASSUME NEW t \in Resetters, Store(t) PROVE Typed'
  <2>1. PICK c \in Cells : Accesses(t, c) /\ mem' = [mem EXCEPT ![c] = 0]
    BY <1>13, StoreMoves
  <2>2. Kept
    BY <1>3, <1>13, <2>1, StoreMoves
  <2>3. Roles'
    BY <1>1, <1>13, <2>1, StoreMoves DEF Typed, Roles, Accesses, Others
  <2> QED
    BY <1>6, <1>13, <2>2, <2>3, StoreMoves
<1>14. ASSUME UNCHANGED vars PROVE ThreadsTyped' /\ Still
  BY <1>14 DEF vars, rigid, scrape, Still, ThreadsTyped, Typed, TypeOK, Cells, Buckets
<1>15. ASSUME NEW t \in Observers, NEW v \in Values \cup {NonFinite}, Ignore(t, v)
       PROVE  Typed'
  BY <1>7, <1>15, IgnoreMoves
<1>16. CASE UNCHANGED vars
  BY <1>7, <1>14, <1>16
<1> QED
  BY <1>8, <1>9, <1>10, <1>11, <1>12, <1>13, <1>15, <1>16 DEF Next, Finished

LEMMA AlwaysTyped == Spec => []Typed
BY TypedInit, TypedStep, PTL DEF Spec

(* Every variable of the histogram keeps a value of its kind, and a thread *)
(* has cells to access exactly while it is in a call.                      *)
THEOREM TypeCorrect == Spec => []TypeOK
BY AlwaysTyped, PTL DEF Typed

-----------------------------------------------------------------------------
(* Counting.                                                               *)

(* Every step is of one kind.                                              *)
LEMMA Steps ==
  ASSUME Typed, [Next]_vars
  PROVE  \/ Still
         \/ \E t \in Observers, v \in Values \cup {NonFinite} : Observe(t, v)
         \/ \E t \in Observers : Add(t)
         \/ \E t \in Scrapers : programOrder /\ Serialize(t)
         \/ \E t \in Scrapers : Load(t)
         \/ \E t \in Resetters : Reset(t)
         \/ \E t \in Resetters : Store(t)
<1>1. UNCHANGED vars => Still
  BY DEF vars, rigid, scrape, Still
<1>2. ASSUME NEW t, NEW v, Ignore(t, v) PROVE Still
  BY <1>2, IgnoreMoves
<1> QED
  BY <1>1, <1>2 DEF Next, Finished

(* What a sequence of values adds to the count and the buckets.            *)
LEMMA TallyFacts ==
  ASSUME bounds \in Seq(Int), NEW c \in Cells \ {Sum}, NEW s \in Seq(Values)
  PROVE  /\ Tally(s, c) \in Nat /\ Tally(s, c) <= Len(s) /\ Len(s) \in Nat
         /\ Tally(s, Count) = Len(s)
         /\ Tally(<< >>, c) = 0
         /\ \A v \in Values :
              Tally(Append(s, v), c) = Tally(s, c) + IF c \in Touched(v) THEN 1 ELSE 0
<1>1. s \in Seq(Int) /\ Len(s) \in Nat /\ \A v \in Values : v \in Int
  <2>1. Values \subseteq Int
    BY HistogramAssumption
  <2>2. s \in Seq(Int)
    BY <2>1, SeqMonotonic
  <2> QED
    BY <2>1, <2>2
<1>2. CASE c = Count
  <2>1. \A r : Tally(r, c) = Len(r)
    BY <1>2 DEF Tally
  <2>2. \A v \in Values : Len(Append(s, v)) = Len(s) + 1 /\ c \in Touched(v)
    BY <1>2, TouchedFacts
  <2>3. Tally(<< >>, c) = 0 /\ Tally(s, Count) = Len(s)
    BY <2>1 DEF Tally
  <2>4. ASSUME NEW v \in Values
        PROVE  Tally(Append(s, v), c) = Tally(s, c) + IF c \in Touched(v) THEN 1 ELSE 0
    BY <2>1, <2>2
  <2> QED
    BY <1>1, <2>1, <2>3, <2>4
<1>3. CASE c # Count
  <2>1. PICK i \in 1 .. Len(bounds) : c = Bucket(i)
    BY <1>3, CellFacts
  <2>2. bounds[i] \in Int /\ c[2] = i
    BY <2>1, CellFacts
  <2>3. \A r : Tally(r, c) = Cardinality(UpTo(r, bounds[i]))
    BY <1>3, <2>2 DEF Tally, Within
  <2>4. \A v : c \in Touched(v) <=> v <= bounds[i]
    BY <2>1, TouchedFacts
  <2>5. Tally(s, c) \in Nat /\ Tally(s, c) <= Len(s)
    BY <1>1, <2>2, <2>3, Counts
  <2>6. Cardinality(UpTo(<< >>, bounds[i])) = 0
    BY FS_EmptySet DEF UpTo
  <2>7. ASSUME NEW v \in Values
        PROVE  Tally(Append(s, v), c) = Tally(s, c) + IF c \in Touched(v) THEN 1 ELSE 0
    BY <1>1, <2>2, <2>3, <2>4, AppendCounts
  <2>8. Tally(s, Count) = Len(s)
    BY DEF Tally
  <2> QED
    BY <1>1, <2>3, <2>5, <2>6, <2>7, <2>8
<1> QED
  BY <1>2, <1>3

LEMMA SetsFinite ==
  ASSUME Typed, NEW c
  PROVE  /\ Owing(c) \subseteq Observers /\ Active(c) \subseteq Observers
         /\ IsFiniteSet(In("observe")) /\ IsFiniteSet(Owing(c)) /\ IsFiniteSet(Active(c))
         /\ Cardinality(In("observe")) \in Nat
         /\ Cardinality(Owing(c)) \in Nat /\ Cardinality(Active(c)) \in Nat
         /\ Owing(c) \subseteq Active(c) /\ Active(c) \subseteq In("observe")
         /\ Cardinality(Owing(c)) <= Cardinality(Active(c))
<1>1. IsFiniteSet(Threads) /\ In("observe") \subseteq Threads
  BY HistogramAssumption DEF In
<1>2. \A t \in In("observe") : t \in Observers /\ todo[t] \subseteq Touched(arg[t])
  BY DEF In, Typed, Roles
<1>3. Owing(c) \subseteq Active(c) /\ Active(c) \subseteq In("observe")
  BY <1>2 DEF Owing, Active
<1>4. IsFiniteSet(In("observe"))
  BY <1>1, FS_Subset
<1>5. IsFiniteSet(Active(c))
  BY <1>3, <1>4, FS_Subset
<1>6. IsFiniteSet(Owing(c)) /\ Cardinality(Owing(c)) <= Cardinality(Active(c))
  BY <1>3, <1>5, FS_Subset
<1> QED
  BY <1>2, <1>3, <1>4, <1>5, <1>6, FS_CardinalityType

(* A step of a thread that does not observe leaves the observers alone.    *)
LEMMA SameObservers ==
  ASSUME Typed, [Next]_vars, NEW t \in Threads, Others(t), arg' = arg,
         op[t] # "observe", op'[t] # "observe"
  PROVE  /\ In("observe")' = In("observe")
         /\ \A c : Owing(c)' = Owing(c) /\ Active(c)' = Active(c)
<1>1. \A v : Touched(v)' = Touched(v)
  BY Rigid, RigidCells
<1>2. In("observe")' = In("observe")
  BY DEF In, Others
<1> QED
  BY <1>1, <1>2 DEF Owing, Active, In, Others

LEMMA ObserveSets ==
  ASSUME Typed, [Next]_vars, NEW t \in Observers, NEW v \in Values \cup {NonFinite},
         Observe(t, v), NEW c
  PROVE  /\ In("reset")' = In("reset") /\ In("observe")' = In("observe") \cup {t}
         /\ t \notin Owing(c) /\ t \notin Active(c)
         /\ Owing(c)' = IF c \in Touched(v) THEN Owing(c) \cup {t} ELSE Owing(c)
         /\ Active(c)' = IF c \in Touched(v) THEN Active(c) \cup {t} ELSE Active(c)
<1>1. \A w : Touched(w)' = Touched(w)
  BY Rigid, RigidCells
<1>2. /\ op[t] = "idle" /\ op'[t] = "observe" /\ todo'[t] = Touched(v) /\ arg'[t] = v
      /\ \A u \in Threads \ {t} : op'[u] = op[u] /\ todo'[u] = todo[u]
      /\ \A u \in Observers \ {t} : arg'[u] = arg[u]
      /\ t \in Threads
  BY ObserveMoves DEF Begins, Others, Threads
<1>3. \A u \in Threads : op[u] = "observe" => u \in Observers
  BY DEF Typed, Roles
<1>4. In("reset")' = In("reset")
  BY <1>2 DEF In
<1>5. In("observe")' = In("observe") \cup {t} /\ t \notin In("observe")
  BY <1>2 DEF In
<1>6. \A u \in In("observe") : u # t /\ todo'[u] = todo[u] /\ arg'[u] = arg[u]
  BY <1>2, <1>3 DEF In
<1>7. t \notin Owing(c) /\ t \notin Active(c)
  BY <1>5 DEF Owing, Active
<1>8. Owing(c)' = IF c \in Touched(v) THEN Owing(c) \cup {t} ELSE Owing(c)
  BY <1>2, <1>5, <1>6 DEF Owing
<1>9. Active(c)' = IF c \in Touched(v) THEN Active(c) \cup {t} ELSE Active(c)
  BY <1>1, <1>2, <1>5, <1>6 DEF Active
<1> QED
  BY <1>4, <1>5, <1>7, <1>8, <1>9

LEMMA AddSets ==
  ASSUME Typed, [Next]_vars, NEW t \in Observers, Add(t), NEW c, Accesses(t, c), NEW d
  PROVE  /\ In("reset")' = In("reset")
         /\ In("observe")' = IF todo[t] = {c} THEN In("observe") \ {t} ELSE In("observe")
         /\ t \in Owing(c) /\ t \in In("observe")
         /\ t \in Active(d) <=> d \in Touched(arg[t])
         /\ Owing(d)' = IF d = c THEN Owing(d) \ {t} ELSE Owing(d)
         /\ Active(d)' = IF todo[t] = {c} THEN Active(d) \ {t} ELSE Active(d)
<1>1. \A w : Touched(w)' = Touched(w)
  BY Rigid, RigidCells
<1>2. /\ op[t] = "observe" /\ c \in todo[t] /\ todo'[t] = todo[t] \ {c}
      /\ op'[t] = IF todo[t] = {c} THEN "idle" ELSE op[t]
      /\ \A u \in Threads \ {t} : op'[u] = op[u] /\ todo'[u] = todo[u]
      /\ arg' = arg /\ t \in Threads
  BY AddMoves DEF Accesses, Others, Threads
<1>3. In("reset")' = In("reset")
  BY <1>2 DEF In
<1>4. /\ In("observe")' = IF todo[t] = {c} THEN In("observe") \ {t} ELSE In("observe")
      /\ t \in In("observe")
  BY <1>2 DEF In
<1>5. t \in Owing(c) /\ (t \in Active(d) <=> d \in Touched(arg[t]))
  BY <1>2, <1>4 DEF Owing, Active
<1>6. Owing(d)' = IF d = c THEN Owing(d) \ {t} ELSE Owing(d)
  <2>1. In("observe") \subseteq Threads
    BY DEF In
  <2>2. \A u \in In("observe") \ {t} : u \in In("observe")' /\ todo'[u] = todo[u]
    BY <1>2, <1>4, <2>1
  <2>3. t \in Owing(d)' <=> d # c /\ t \in Owing(d)
    BY <1>2, <1>4 DEF Owing
  <2>4. \A u : u # t => (u \in Owing(d)' <=> u \in Owing(d))
    BY <1>4, <2>2 DEF Owing
  <2> QED
    BY <2>3, <2>4
<1>7. Active(d)' = IF todo[t] = {c} THEN Active(d) \ {t} ELSE Active(d)
  BY <1>1, <1>2, <1>4 DEF Active
<1> QED
  BY <1>3, <1>4, <1>5, <1>6, <1>7

-----------------------------------------------------------------------------
(* Nothing is lost.                                                        *)

LEMMA CountedInit == Init => Counted
<1> SUFFICES ASSUME Init PROVE Counted
  OBVIOUS
<1>1. recorded = << >> /\ mem = Zero /\ In("reset") = {} /\ In("observe") = {}
  BY DEF Init, In
<1>2. \A c \in Cells \ {Sum} : mem[c] = 0 /\ Owing(c) = {}
  BY <1>1 DEF Zero, Owing
<1>3. bounds \in Seq(Int) /\ recorded \in Seq(Values)
  BY <1>1, TypedInit DEF Typed, TypeOK
<1>4. \A c \in Cells \ {Sum} : Tally(recorded, c) = 0
  BY <1>1, <1>3, TallyFacts
<1>5. \A c \in Cells \ {Sum} :
        mem[c] + Cardinality(Owing(c)) = Tally(recorded, c)
  BY <1>2, <1>4, FS_EmptySet
<1> QED
  BY <1>1, <1>5 DEF Counted

LEMMA TallyRigid ==
  ASSUME bounds' = bounds, NEW c
  PROVE  /\ \A s : recorded' = s => Tally(recorded, c)' = Tally(s, c)
         /\ \A s : finished' = s => Tally(finished, c)' = Tally(s, c)
         /\ \A t, s : owed'[t] = s => Tally(owed[t], c)' = Tally(s, c)
BY DEF Tally, Within, UpTo, Count

LEMMA CountedStep == Typed /\ Counted /\ [Next]_vars => Counted'
<1> SUFFICES ASSUME Typed, Counted, [Next]_vars PROVE Counted'
  OBVIOUS
<1>1. /\ bounds' = bounds /\ Cells' = Cells
      /\ bounds \in Seq(Int) /\ recorded \in Seq(Values)
      /\ mem \in [Cells -> Int] /\ \A c \in Cells \ {Sum} : mem[c] \in Int
  BY Rigid, RigidCells DEF Typed, TypeOK
<1>2. \A c \in Cells \ {Sum} :
        /\ Tally(recorded, c) \in Nat
        /\ IsFiniteSet(Owing(c)) /\ Cardinality(Owing(c)) \in Nat
  BY <1>1, SetsFinite, TallyFacts
<1>3. ASSUME Still PROVE Counted'
  <2>1. /\ UNCHANGED <<torn, recorded, mem>> /\ In("reset")' = In("reset")
        /\ In("observe")' = In("observe") /\ todo' = todo
        /\ \A c : Owing(c)' = Owing(c)
    BY <1>3 DEF Still, In, Owing
  <2>2. \A c : Tally(recorded, c)' = Tally(recorded, c)
    BY <1>1, <2>1, TallyRigid
  <2> QED
    BY <1>1, <2>1, <2>2 DEF Counted, Emptied
<1>4. ASSUME NEW t \in Observers, NEW v \in Values \cup {NonFinite}, Observe(t, v)
      PROVE  Counted'
  <2>1. SUFFICES ASSUME ~torn' PROVE Counted'
    BY DEF Counted
  <2>2. /\ ~torn /\ In("reset") = {} /\ In("reset")' = {} /\ v \in Values
        /\ mem' = mem /\ recorded' = Append(recorded, v)
    BY <1>4, <2>1, ObserveMoves, ObserveSets
  <2>3. ASSUME NEW c \in Cells \ {Sum}
        PROVE  mem[c] + Cardinality(Owing(c)') = Tally(recorded, c)'
    <3>1. mem[c] + Cardinality(Owing(c)) = Tally(recorded, c)
      BY <2>2 DEF Counted
    <3>2. Cardinality(Owing(c)') =
            Cardinality(Owing(c)) + IF c \in Touched(v) THEN 1 ELSE 0
      BY <1>2, <1>4, ObserveSets, FS_AddElement
    <3>3. Tally(recorded, c)' = Tally(recorded, c) + IF c \in Touched(v) THEN 1 ELSE 0
      <4>1. Tally(recorded, c)' = Tally(Append(recorded, v), c)
        BY <1>1, <2>2, TallyRigid
      <4> QED
        BY <1>1, <2>2, <4>1, TallyFacts
    <3> QED
      BY <1>1, <1>2, <3>1, <3>2, <3>3
  <2> QED
    BY <1>1, <2>2, <2>3 DEF Counted
<1>5. ASSUME NEW t \in Observers, Add(t) PROVE Counted'
  <2>1. PICK c \in Cells :
          /\ Accesses(t, c)
          /\ mem' = [mem EXCEPT ![c] = @ + IF c = Sum THEN arg[t] ELSE 1]
    BY <1>5, AddMoves
  <2>2. UNCHANGED <<recorded, torn>> /\ In("reset")' = In("reset")
    BY <1>5, <2>1, AddMoves, AddSets
  <2>3. SUFFICES ASSUME ~torn PROVE Counted'
    BY <2>2 DEF Counted
  <2>4. In("reset") = {}
    BY <1>5, <2>1, <2>3, AddSets DEF Counted, Emptied
  <2>5. ASSUME NEW d \in Cells \ {Sum}
        PROVE  mem'[d] + Cardinality(Owing(d)') = Tally(recorded, d)'
    <3>1. mem[d] + Cardinality(Owing(d)) = Tally(recorded, d)
      BY <2>3, <2>4 DEF Counted
    <3>2. Cardinality(Owing(d)') = Cardinality(Owing(d)) - IF d = c THEN 1 ELSE 0
      BY <1>2, <1>5, <2>1, AddSets, FS_RemoveElement
    <3>3. mem'[d] = mem[d] + IF d = c THEN 1 ELSE 0
      BY <1>1, <2>1
    <3>4. Tally(recorded, d)' = Tally(recorded, d)
      BY <1>1, <2>2, TallyRigid
    <3> QED
      BY <1>1, <1>2, <3>1, <3>2, <3>3, <3>4
  <2> QED
    BY <1>1, <2>2, <2>4, <2>5 DEF Counted
<1>6. ASSUME NEW t \in Threads, Others(t), UNCHANGED <<mem, arg, recorded, torn>>,
             op[t] \notin {"observe", "reset"}, op'[t] \notin {"observe", "reset"}
      PROVE  Counted'
  <2>1. /\ In("observe")' = In("observe") /\ In("reset")' = In("reset")
        /\ \A c : Owing(c)' = Owing(c)
        /\ \A u \in In("reset") : todo'[u] = todo[u]
    BY <1>6, SameObservers DEF In, Others
  <2>2. \A c : Tally(recorded, c)' = Tally(recorded, c)
    BY <1>1, <1>6, TallyRigid
  <2> QED
    BY <1>1, <1>6, <2>1, <2>2 DEF Counted, Emptied
<1>7. ASSUME NEW t \in Scrapers, Serialize(t) PROVE Counted'
  BY <1>6, <1>7, SerializeMoves DEF Begins, Threads
<1>8. ASSUME NEW t \in Scrapers, Load(t) PROVE Counted'
  BY <1>6, <1>8, LoadMoves DEF Accesses, Threads
<1>9. ASSUME NEW t \in Resetters, Reset(t) PROVE Counted'
  <2>1. SUFFICES ASSUME ~torn' PROVE Counted'
    BY DEF Counted
  <2>2. /\ In("observe") = {} /\ recorded' = << >> /\ t \in Threads
        /\ Begins(t, "reset", Cells) /\ arg' = arg
    BY <1>9, <2>1, ResetMoves DEF Threads
  <2>3. In("observe")' = {}
    BY <2>2, SameObservers DEF Begins
  <2>4. t \in In("reset")' /\ todo'[t] = Cells
    BY <2>2 DEF Begins, In
  <2> QED
    BY <1>1, <2>2, <2>3, <2>4 DEF Counted, Emptied
<1>10. ASSUME NEW t \in Resetters, Store(t) PROVE Counted'
  <2>1. PICK c \in Cells : Accesses(t, c) /\ mem' = [mem EXCEPT ![c] = 0]
    BY <1>10, StoreMoves
  <2>2. /\ UNCHANGED <<recorded, torn, arg>> /\ t \in In("reset") /\ t \in Threads
    BY <1>10, StoreMoves DEF In, Threads
  <2>3. SUFFICES ASSUME ~torn PROVE Counted'
    BY <2>2 DEF Counted
  <2>4. Emptied
    BY <2>2, <2>3 DEF Counted
  <2>5. /\ In("observe")' = {} /\ \A d : Owing(d)' = {}
    BY <1>10, <2>1, <2>2, <2>4, SameObservers, StoreMoves
    DEF Accesses, Emptied, Owing, In
  <2>6. ASSUME NEW d \in Cells, \A u \in In("reset")' : d \notin todo'[u]
        PROVE  mem'[d] = 0
    <3>1. CASE d = c
      BY <1>1, <2>1, <3>1
    <3>2. CASE d # c
      <4>1. ASSUME NEW u \in In("reset") PROVE d \notin todo[u]
        <5>1. CASE u = t
          <6>1. op'[t] # "idle" => t \in In("reset")'
            BY <1>10, <2>1, <2>2, StoreMoves DEF Accesses, In
          <6>2. op'[t] = "idle" => todo[t] = {c}
            BY <1>10, <2>1, StoreMoves DEF Accesses
          <6> QED
            BY <2>1, <2>6, <3>2, <5>1, <6>1, <6>2 DEF Accesses
        <5>2. CASE u # t
          BY <2>1, <2>6, <5>2 DEF Accesses, Others, In
        <5> QED
          BY <5>1, <5>2
      <4> QED
        BY <1>1, <2>1, <2>4, <3>2, <4>1 DEF Emptied
    <3> QED
      BY <3>1, <3>2
  <2>7. \A d \in Cells \ {Sum} : Tally(recorded, d)' = 0
    BY <1>1, <2>2, <2>4, TallyRigid, TallyFacts DEF Emptied
  <2>8. CASE In("reset")' = {}
    <3>1. \A d \in Cells \ {Sum} : mem'[d] = 0 /\ Cardinality(Owing(d)') = 0
      BY <2>5, <2>6, <2>8, FS_EmptySet
    <3> QED
      BY <1>1, <2>7, <2>8, <3>1 DEF Counted
  <2>9. CASE In("reset")' # {}
    <3>1. Emptied'
      BY <1>1, <2>2, <2>4, <2>5, <2>6 DEF Emptied
    <3> QED
      BY <2>9, <3>1 DEF Counted
  <2> QED
    BY <2>8, <2>9
<1> QED
  BY <1>3, <1>4, <1>5, <1>7, <1>8, <1>9, <1>10, Steps

LEMMA AlwaysCounted == Spec => []Counted
BY CountedInit, CountedStep, TypedInit, TypedStep, PTL DEF Spec

(* No increment is lost and none is made twice: between clean resets, the  *)
(* count and each bucket lack exactly the observes that have still to      *)
(* touch them, in whatever order the accesses take effect.                 *)
THEOREM IncrementsKept == Spec => []NothingLost
<1>1. Counted => NothingLost
  BY DEF Counted, NothingLost, Owing
<1> QED
  BY <1>1, AlwaysCounted, PTL

-----------------------------------------------------------------------------
(* The observes that have returned.                                        *)

LEMMA BalancedInit == Init => Balanced
<1> SUFFICES ASSUME Init PROVE Balanced
  OBVIOUS
<1>1. recorded = << >> /\ finished = << >> /\ In("observe") = {}
  BY DEF Init, In
<1>2. bounds \in Seq(Int) /\ recorded \in Seq(Values)
  BY <1>1, TypedInit DEF Typed, TypeOK
<1>3. \A c \in Cells \ {Sum} : Tally(recorded, c) = 0 /\ Active(c) = {}
  BY <1>1, <1>2, TallyFacts DEF Active
<1> QED
  BY <1>1, <1>3, FS_EmptySet DEF Balanced

LEMMA BalancedStep == Typed /\ Balanced /\ [Next]_vars => Balanced'
<1> SUFFICES ASSUME Typed, Balanced, [Next]_vars PROVE Balanced'
  OBVIOUS
<1>1. /\ bounds' = bounds /\ Cells' = Cells
      /\ bounds \in Seq(Int) /\ recorded \in Seq(Values) /\ finished \in Seq(Values)
  BY Rigid, RigidCells DEF Typed, TypeOK
<1>2. \A c \in Cells \ {Sum} :
        /\ Tally(recorded, c) \in Nat /\ Tally(finished, c) \in Nat
        /\ IsFiniteSet(Active(c)) /\ Cardinality(Active(c)) \in Nat
  BY <1>1, SetsFinite, TallyFacts
<1>3. ASSUME torn' = torn, recorded' = recorded, finished' = finished,
             \A c : Active(c)' = Active(c)
      PROVE  Balanced'
  <2>1. \A c : /\ Tally(recorded, c)' = Tally(recorded, c)
               /\ Tally(finished, c)' = Tally(finished, c)
    BY <1>1, <1>3, TallyRigid
  <2> QED
    BY <1>1, <1>3, <2>1 DEF Balanced
<1>4. ASSUME Still PROVE Balanced'
  <2>1. /\ \A c : Touched(arg[c])' = Touched(arg'[c])
        /\ In("observe")' = In("observe") /\ arg' = arg
        /\ \A v : Touched(v)' = Touched(v)
    BY <1>1, <1>4, RigidCells DEF Still, In, Touched
  <2>2. \A c : Active(c)' = Active(c)
    BY <2>1 DEF Active
  <2> QED
    BY <1>3, <1>4, <2>2 DEF Still
<1>5. ASSUME NEW t \in Observers, NEW v \in Values \cup {NonFinite}, Observe(t, v)
      PROVE  Balanced'
  <2>1. SUFFICES ASSUME ~torn' PROVE Balanced'
    BY DEF Balanced
  <2>2. /\ ~torn /\ v \in Values
        /\ finished' = finished /\ recorded' = Append(recorded, v)
    BY <1>5, <2>1, ObserveMoves
  <2>3. ASSUME NEW c \in Cells \ {Sum}
        PROVE  Tally(finished, c)' + Cardinality(Active(c)') = Tally(recorded, c)'
    <3>1. Tally(finished, c) + Cardinality(Active(c)) = Tally(recorded, c)
      BY <2>2 DEF Balanced
    <3>2. Cardinality(Active(c)') =
            Cardinality(Active(c)) + IF c \in Touched(v) THEN 1 ELSE 0
      BY <1>2, <1>5, ObserveSets, FS_AddElement
    <3>3. /\ Tally(recorded, c)' = Tally(Append(recorded, v), c)
          /\ Tally(finished, c)' = Tally(finished, c)
      BY <1>1, <2>2, TallyRigid
    <3>4. Tally(recorded, c)' = Tally(recorded, c) + IF c \in Touched(v) THEN 1 ELSE 0
      BY <1>1, <2>2, <3>3, TallyFacts
    <3> QED
      BY <1>2, <3>1, <3>2, <3>3, <3>4
  <2> QED
    BY <1>1, <2>3 DEF Balanced
<1>6. ASSUME NEW t \in Observers, Add(t) PROVE Balanced'
  <2>1. PICK c \in Cells :
          /\ Accesses(t, c)
          /\ finished' = IF todo[t] = {c} THEN Append(finished, arg[t]) ELSE finished
    BY <1>6, AddMoves
  <2>2. UNCHANGED <<recorded, torn>> /\ arg[t] \in Values
    BY <1>6, AddMoves
  <2>3. CASE todo[t] # {c}
    <3>1. \A d : Active(d)' = Active(d)
      BY <1>6, <2>1, <2>3, AddSets
    <3> QED
      BY <1>3, <2>1, <2>2, <2>3, <3>1
  <2>4. CASE todo[t] = {c}
    <3>1. SUFFICES ASSUME ~torn PROVE Balanced'
      BY <2>2 DEF Balanced
    <3>2. ASSUME NEW d \in Cells \ {Sum}
          PROVE  Tally(finished, d)' + Cardinality(Active(d)') = Tally(recorded, d)'
      <4>1. Tally(finished, d) + Cardinality(Active(d)) = Tally(recorded, d)
        BY <3>1 DEF Balanced
      <4>2. Cardinality(Active(d)') =
              Cardinality(Active(d)) - IF d \in Touched(arg[t]) THEN 1 ELSE 0
        BY <1>2, <1>6, <2>1, <2>4, AddSets, FS_RemoveElement
      <4>3. /\ Tally(finished, d)' = Tally(Append(finished, arg[t]), d)
            /\ Tally(recorded, d)' = Tally(recorded, d)
        BY <1>1, <2>1, <2>2, <2>4, TallyRigid
      <4>4. Tally(finished, d)' =
              Tally(finished, d) + IF d \in Touched(arg[t]) THEN 1 ELSE 0
        BY <1>1, <2>2, <4>3, TallyFacts
      <4> QED
        BY <1>2, <4>1, <4>2, <4>3, <4>4
    <3> QED
      BY <1>1, <2>2, <3>2 DEF Balanced
  <2> QED
    BY <2>3, <2>4
<1>7. ASSUME NEW t \in Scrapers, Serialize(t) PROVE Balanced'
  BY <1>3, <1>7, SerializeMoves, SameObservers DEF Begins, Threads
<1>8. ASSUME NEW t \in Scrapers, Load(t) PROVE Balanced'
  BY <1>3, <1>8, LoadMoves, SameObservers DEF Accesses, Threads
<1>9. ASSUME NEW t \in Resetters, Store(t) PROVE Balanced'
  BY <1>3, <1>9, StoreMoves, SameObservers DEF Accesses, Threads
<1>10. ASSUME NEW t \in Resetters, Reset(t) PROVE Balanced'
  <2>1. SUFFICES ASSUME ~torn' PROVE Balanced'
    BY DEF Balanced
  <2>2. /\ In("observe") = {} /\ recorded' = << >> /\ finished' = << >>
        /\ t \in Threads /\ Begins(t, "reset", Cells) /\ arg' = arg
    BY <1>10, <2>1, ResetMoves DEF Threads
  <2>3. \A c : Active(c)' = {}
    BY <2>2, SameObservers DEF Begins, Active
  <2>4. \A c \in Cells \ {Sum} :
          /\ Tally(finished, c)' = 0 /\ Tally(recorded, c)' = 0
          /\ Cardinality(Active(c)') = 0
    BY <1>1, <2>2, <2>3, TallyRigid, TallyFacts, FS_EmptySet
  <2> QED
    BY <1>1, <2>4 DEF Balanced
<1> QED
  BY <1>4, <1>5, <1>6, <1>7, <1>8, <1>9, <1>10, Steps

-----------------------------------------------------------------------------
(* Accesses in order.                                                      *)

LEMMA InOrderInit == Init => InOrder
BY DEF Init, InOrder

LEMMA InOrderStep == Typed /\ InOrder /\ [Next]_vars => InOrder'
<1> SUFFICES ASSUME Typed, InOrder, [Next]_vars, programOrder PROVE InOrder'
  BY Rigid DEF InOrder
<1>1. /\ Observers \subseteq Threads /\ bounds \in Seq(Int)
      /\ \A v : Touched(v)' = Touched(v)
  BY Rigid, RigidCells DEF Threads, Typed, TypeOK
<1>2. \A t \in Threads :
        /\ op[t] = "observe" /\ Count \in todo[t] => todo[t] = Touched(arg[t])
        /\ op[t] = "serialize" => Count \in todo[t]
  BY DEF InOrder
<1>3. \A t \in Threads : op[t] = "observe" => t \in Observers
  BY DEF Typed, Roles
<1> DEFINE Ordered(t) ==
      /\ op'[t] = "observe" /\ Count \in todo'[t] => todo'[t] = Touched(arg'[t])
      /\ op'[t] = "serialize" => Count \in todo'[t]
<1>4. (\A t \in Threads : Ordered(t)) => InOrder'
  BY <1>1 DEF InOrder, Count
<1>5. ASSUME Still PROVE InOrder'
  BY <1>2, <1>4, <1>5 DEF Still
<1>6. ASSUME NEW t \in Observers, NEW v \in Values \cup {NonFinite}, Observe(t, v)
      PROVE  InOrder'
  BY <1>2, <1>3, <1>4, <1>6, ObserveMoves DEF Begins, Others
<1>7. ASSUME NEW t \in Threads, Others(t), arg' = arg, Ordered(t) PROVE InOrder'
  BY <1>2, <1>4, <1>7 DEF Others
<1>8. ASSUME NEW t \in Observers, Add(t) PROVE InOrder'
  <2>1. PICK c \in Cells : Accesses(t, c)
    BY <1>8, AddMoves
  <2>2. op[t] = "observe" /\ arg' = arg /\ t \in Threads
    BY <1>8, AddMoves DEF Threads
  <2>3. Count \notin todo'[t]
    <3>1. SUFFICES ASSUME Count \in todo[t], c # Count PROVE FALSE
      BY <2>1 DEF Accesses
    <3>2. Precedes(op[t], Count, c)
      BY <2>2, <3>1, RankFacts
    <3> QED
      BY <2>1, <3>1, <3>2 DEF Accesses, Ready
  <2>4. Ordered(t)
    BY <2>1, <2>2, <2>3 DEF Accesses
  <2> QED
    BY <1>7, <2>1, <2>2, <2>4 DEF Accesses
<1>9. ASSUME NEW t \in Scrapers, Serialize(t) PROVE InOrder'
  <2>1. t \in Threads /\ Begins(t, "serialize", Cells) /\ arg' = arg
    BY <1>9, SerializeMoves DEF Threads
  <2>2. Ordered(t)
    BY <2>1, CellFacts DEF Begins
  <2> QED
    BY <1>7, <2>1, <2>2 DEF Begins
<1>10. ASSUME NEW t \in Scrapers, Load(t) PROVE InOrder'
  <2>1. PICK c \in Cells : Accesses(t, c)
    BY <1>10, LoadMoves
  <2>2. op[t] = "serialize" /\ arg' = arg /\ t \in Threads
    BY <1>10, LoadMoves DEF Threads
  <2>3. ASSUME op'[t] = "serialize" PROVE Count \in todo'[t]
    <3>1. SUFFICES ASSUME c = Count PROVE FALSE
      BY <1>2, <2>1, <2>2 DEF Accesses
    <3>2. PICK d \in todo[t] : d # Count
      BY <2>1, <2>3, <3>1 DEF Accesses
    <3>3. d \in Cells
      BY <2>2, <3>2 DEF Typed, TypeOK
    <3>4. Precedes(op[t], d, c)
      BY <1>1, <2>2, <3>1, <3>2, <3>3, RankFacts
    <3> QED
      BY <2>1, <3>2, <3>4 DEF Accesses, Ready
  <2>4. Ordered(t)
    BY <2>1, <2>2, <2>3 DEF Accesses
  <2> QED
    BY <1>7, <2>1, <2>2, <2>4 DEF Accesses
<1>11. ASSUME NEW t \in Resetters, Reset(t) PROVE InOrder'
  BY <1>7, <1>11, ResetMoves DEF Begins, Threads
<1>12. ASSUME NEW t \in Resetters, Store(t) PROVE InOrder'
  BY <1>7, <1>12, StoreMoves DEF Accesses, Threads
<1> QED
  BY <1>5, <1>6, <1>8, <1>9, <1>10, <1>11, <1>12, Steps

-----------------------------------------------------------------------------
(* What a scrape reads.                                                    *)

(* Unless a reset disturbs them, the cells cover the observes that have    *)
(* returned; and where accesses stay in order, the count every bucket.     *)
LEMMA CellsCover ==
  ASSUME Typed, Counted, Balanced, InOrder, ~torn, In("reset") = {}
  PROVE  /\ \A c \in Cells \ {Sum} : Tally(finished, c) <= mem[c]
         /\ programOrder =>
              \A i \in 1 .. Len(bounds) : mem[Bucket(i)] <= mem[Count]
<1> DEFINE Done(c) == Active(c) \ Owing(c)
<1>1. /\ bounds \in Seq(Int) /\ recorded \in Seq(Values) /\ finished \in Seq(Values)
      /\ \A c \in Cells : mem[c] \in Int
      /\ Count \in Cells \ {Sum}
  BY CellFacts DEF Typed, TypeOK
<1>2. ASSUME NEW c \in Cells \ {Sum}
      PROVE  /\ Tally(finished, c) \in Nat /\ Tally(finished, c) <= Tally(finished, Count)
             /\ IsFiniteSet(Done(c)) /\ Cardinality(Done(c)) \in Nat
             /\ mem[c] = Tally(finished, c) + Cardinality(Done(c))
  <2>1. /\ Tally(finished, c) \in Nat /\ Tally(recorded, c) \in Nat
        /\ Tally(finished, c) <= Tally(finished, Count)
    BY <1>1, TallyFacts
  <2>2. /\ IsFiniteSet(Active(c)) /\ Owing(c) \subseteq Active(c)
        /\ Cardinality(Active(c)) \in Nat /\ Cardinality(Owing(c)) \in Nat
        /\ IsFiniteSet(Owing(c))
    BY SetsFinite
  <2>3. IsFiniteSet(Done(c)) /\ Cardinality(Done(c)) \in Nat
    BY <2>2, FS_Difference, FS_CardinalityType
  <2>4. Cardinality(Done(c)) = Cardinality(Active(c)) - Cardinality(Owing(c))
    <3>1. Cardinality(Done(c)) =
            Cardinality(Active(c)) - Cardinality(Active(c) \cap Owing(c))
      BY <2>2, FS_Difference
    <3>2. Active(c) \cap Owing(c) = Owing(c)
      BY <2>2
    <3> QED
      BY <3>1, <3>2
  <2>5. /\ mem[c] + Cardinality(Owing(c)) = Tally(recorded, c)
        /\ Tally(finished, c) + Cardinality(Active(c)) = Tally(recorded, c)
    BY DEF Counted, Balanced
  <2> HIDE DEF Done
  <2>6. mem[c] = Tally(finished, c) + Cardinality(Done(c))
    <3>1. mem[c] \in Int
      BY <1>1
    <3> QED
      BY <2>1, <2>2, <2>3, <2>4, <2>5, <3>1
  <2> QED
    BY <2>1, <2>3, <2>6
<1>3. ASSUME programOrder, NEW i \in 1 .. Len(bounds)
      PROVE  mem[Bucket(i)] <= mem[Count]
  <2>1. Bucket(i) \in Cells \ {Sum}
    BY CellFacts
  <2>2. Done(Bucket(i)) \subseteq Done(Count)
    <3>1. SUFFICES ASSUME NEW t \in Done(Bucket(i)) PROVE t \in Done(Count)
      OBVIOUS
    <3>2. /\ op[t] = "observe" /\ t \in Threads /\ t \in In("observe")
          /\ todo[t] # Touched(arg[t])
      BY <3>1 DEF Active, Owing, In
    <3>3. Count \notin todo[t]
      BY <1>3, <3>2 DEF InOrder
    <3>4. Count \in Touched(arg[t])
      BY TouchedFacts
    <3> QED
      BY <3>2, <3>3, <3>4 DEF Active, Owing
  <2> HIDE DEF Done
  <2>3. Cardinality(Done(Bucket(i))) <= Cardinality(Done(Count))
    BY <1>1, <1>2, <2>2, FS_Subset
  <2>4. /\ Tally(finished, Bucket(i)) \in Nat
        /\ Tally(finished, Bucket(i)) <= Tally(finished, Count)
        /\ Cardinality(Done(Bucket(i))) \in Nat
        /\ mem[Bucket(i)] = Tally(finished, Bucket(i)) + Cardinality(Done(Bucket(i)))
    BY <1>2, <2>1
  <2>5. /\ Tally(finished, Count) \in Nat /\ Cardinality(Done(Count)) \in Nat
        /\ mem[Count] = Tally(finished, Count) + Cardinality(Done(Count))
    BY <1>1, <1>2
  <2> QED
    BY <2>3, <2>4, <2>5
<1> HIDE DEF Done
<1>4. ASSUME NEW c \in Cells \ {Sum} PROVE Tally(finished, c) <= mem[c]
  BY <1>2, <1>4
<1> QED
  BY <1>3, <1>4

LEMMA CoveredInit == Init => Covered
BY DEF Init, Covered

LEMMA CoveredStep ==
  Typed /\ Counted /\ Balanced /\ InOrder /\ Covered /\ [Next]_vars => Covered'
<1> SUFFICES ASSUME Typed, Counted, Balanced, InOrder, Covered, [Next]_vars
             PROVE  Covered'
  OBVIOUS
<1>1. /\ bounds' = bounds /\ programOrder' = programOrder /\ Cells' = Cells
      /\ bounds \in Seq(Int) /\ mem \in [Cells -> Int]
      /\ printed \in [Scrapers -> [Cells -> Int]]
      /\ owed \in [Scrapers -> Seq(Values)]
      /\ finished \in Seq(Values)
      /\ clean \subseteq Scrapers /\ Count # Sum /\ Count \in Cells
      /\ \A i \in 1 .. Len(bounds) :
           Bucket(i) \in Cells /\ Bucket(i) # Sum /\ Bucket(i) # Count
  BY Rigid, RigidCells, CellFacts DEF Typed, TypeOK
<1>2. /\ Observers \subseteq Threads /\ Scrapers \subseteq Threads
      /\ Resetters \subseteq Threads
      /\ Observers \cap Scrapers = {} /\ Resetters \cap Scrapers = {}
  BY HistogramAssumption DEF Threads
<1> DEFINE Quietly == ~torn /\ In("reset") = {} /\ programOrder
           Inclusive(t) ==
             \A c \in Cells \ {Sum} :
               Tally(owed[t], c) <= IF c \in todo[t] THEN mem[c] ELSE printed[t][c]
           Bounded(t) ==
             \A i \in 1 .. Len(bounds) :
               Bucket(i) \notin todo[t] =>
                 printed[t][Bucket(i)] <=
                   IF Count \in todo[t] THEN mem[Count] ELSE printed[t][Count]
           Grown ==
             mem' \in [Cells -> Int] /\ \A c \in Cells \ {Sum} : mem[c] <= mem'[c]
<1>3. /\ clean # {} => Quietly
      /\ \A t \in clean : Inclusive(t) /\ Bounded(t)
  BY DEF Covered
<1>4. ASSUME clean' # {} => Quietly', \A t \in clean' : Inclusive(t)' /\ Bounded(t)'
      PROVE  Covered'
  BY <1>4 DEF Covered
<1>5. \A t, c : owed'[t] = owed[t] => Tally(owed[t], c)' = Tally(owed[t], c)
  BY <1>1, TallyRigid
<1>6. /\ \A t \in Scrapers : \A c \in Cells \ {Sum} : Tally(owed[t], c) \in Nat
      /\ mem' = mem => Grown
  BY <1>1, TallyFacts
(* A scrape is as it was when nothing it has read or has to read changes,  *)
(* or the cells grow.                                                      *)
<1>7. ASSUME NEW t \in clean, todo'[t] = todo[t], owed'[t] = owed[t],
             printed'[t] = printed[t], Grown
      PROVE  Inclusive(t)' /\ Bounded(t)'
  <2>1. t \in Scrapers /\ Inclusive(t) /\ Bounded(t)
    BY <1>1, <1>3
  <2>2. ASSUME NEW c \in Cells \ {Sum}
        PROVE  Tally(owed[t], c)' <=
                 IF c \in todo'[t] THEN mem'[c] ELSE printed'[t][c]
    <3>1. Tally(owed[t], c)' = Tally(owed[t], c) /\ Tally(owed[t], c) \in Nat
      BY <1>5, <1>6, <1>7, <2>1
    <3>2. mem[c] \in Int /\ mem'[c] \in Int /\ mem[c] <= mem'[c]
      BY <1>1, <1>7
    <3>3. Tally(owed[t], c) <= IF c \in todo[t] THEN mem[c] ELSE printed[t][c]
      BY <2>1
    <3> QED
      BY <1>7, <3>1, <3>2, <3>3
  <2>3. Bounded(t)'
    <3>1. ASSUME NEW i \in 1 .. Len(bounds), Bucket(i) \notin todo[t]
          PROVE  printed[t][Bucket(i)] <=
                   IF Count \in todo[t] THEN mem'[Count] ELSE printed[t][Count]
      <4>1. /\ printed[t][Bucket(i)] \in Int
            /\ mem[Count] \in Int /\ mem'[Count] \in Int
            /\ mem[Count] <= mem'[Count]
            /\ printed[t][Bucket(i)] <=
                 IF Count \in todo[t] THEN mem[Count] ELSE printed[t][Count]
        BY <1>1, <1>7, <2>1, <3>1
      <4> QED
        BY <4>1
    <3> QED
      BY <1>1, <1>7, <3>1 DEF Bucket, Count
  <2> QED
    BY <1>1, <2>2, <2>3 DEF Sum
<1> HIDE DEF Inclusive, Bounded
<1>8. ASSUME Still PROVE Covered'
  <2>1. clean' # {} => Quietly'
    BY <1>1, <1>3, <1>8 DEF Still, scrape, In
  <2> QED
    BY <1>4, <1>6, <1>7, <1>8, <2>1 DEF Still, scrape
<1>9. ASSUME NEW t \in Observers, NEW v \in Values \cup {NonFinite}, Observe(t, v)
      PROVE  Covered'
  <2>1. clean' # {} => Quietly'
    BY <1>1, <1>3, <1>9, ObserveMoves, ObserveSets
  <2>2. \A u \in clean : u \in Threads \ {t}
    BY <1>1, <1>2
  <2>3. /\ clean' = clean
        /\ \A u \in clean : /\ todo'[u] = todo[u] /\ owed'[u] = owed[u]
                            /\ printed'[u] = printed[u]
        /\ mem' = mem
    BY <1>9, <2>2, ObserveMoves DEF Begins, Others
  <2> QED
    BY <1>4, <1>6, <1>7, <2>1, <2>3
<1>10. ASSUME NEW t \in Observers, Add(t) PROVE Covered'
  <2>1. PICK c \in Cells :
          /\ Accesses(t, c)
          /\ mem' = [mem EXCEPT ![c] = @ + IF c = Sum THEN arg[t] ELSE 1]
    BY <1>10, AddMoves
  <2>2. arg[t] \in Int
    BY <1>10, AddMoves, HistogramAssumption
  <2>3. Grown
    BY <1>1, <2>1, <2>2
  <2>4. UNCHANGED <<clean, owed, printed, torn>> /\ In("reset")' = In("reset")
    BY <1>10, <2>1, AddMoves, AddSets
  <2>5. \A u \in clean : u \in Threads \ {t}
    BY <1>1, <1>2
  <2>6. \A u \in clean : todo'[u] = todo[u]
    BY <2>1, <2>5 DEF Accesses, Others
  <2>7. clean' # {} => Quietly'
    BY <1>1, <1>3, <2>4
  <2> QED
    BY <1>4, <1>7, <2>3, <2>4, <2>6, <2>7
<1>11. ASSUME NEW t \in Scrapers, programOrder, Serialize(t) PROVE Covered'
  <2>1. /\ Begins(t, "serialize", Cells) /\ t \in Threads
        /\ printed' = [printed EXCEPT ![t] = Zero]
        /\ owed' = [owed EXCEPT ![t] = finished]
        /\ clean' = IF torn \/ In("reset") # {} THEN clean \ {t} ELSE clean \cup {t}
        /\ UNCHANGED <<mem, torn>>
    BY <1>2, <1>11, SerializeMoves
  <2>2. In("reset")' = In("reset")
    BY <2>1 DEF Begins, Others, In
  <2>3. clean' # {} => Quietly'
    BY <1>1, <1>3, <1>11, <2>1, <2>2
  <2>4. ASSUME NEW u \in clean', u # t PROVE Inclusive(u)' /\ Bounded(u)'
    <3>1. /\ u \in clean /\ u \in Scrapers /\ todo'[u] = todo[u]
          /\ owed'[u] = owed[u] /\ printed'[u] = printed[u]
      BY <1>1, <1>2, <2>1, <2>4 DEF Begins, Others
    <3> QED
      BY <1>6, <1>7, <2>1, <3>1
  <2>5. ASSUME t \in clean' PROVE Inclusive(t)' /\ Bounded(t)'
    <3>1. ~torn /\ In("reset") = {}
      BY <2>1, <2>5
    <3>2. \A c \in Cells \ {Sum} : Tally(finished, c) <= mem[c]
      BY <3>1, CellsCover
    <3>3. \A c : Tally(owed[t], c)' = Tally(finished, c)
      BY <1>1, <2>1, TallyRigid
    <3>4. Inclusive(t)'
      BY <1>1, <2>1, <3>2, <3>3 DEF Begins, Sum, Inclusive
    <3>5. Bounded(t)'
      BY <1>1, <2>1 DEF Begins, Bucket, Bounded
    <3> QED
      BY <3>4, <3>5
  <2> QED
    BY <1>4, <2>3, <2>4, <2>5
<1>12. ASSUME NEW t \in Scrapers, Load(t) PROVE Covered'
  <2>1. PICK c \in Cells :
          Accesses(t, c) /\ printed' = [printed EXCEPT ![t][c] = mem[c]]
    BY <1>12, LoadMoves
  <2>2. /\ UNCHANGED <<clean, owed, mem, torn>> /\ t \in Threads
        /\ op[t] = "serialize"
    BY <1>2, <1>12, LoadMoves
  <2>3. In("reset")' = In("reset")
    BY <2>1, <2>2 DEF Accesses, Others, In
  <2>4. clean' # {} => Quietly'
    BY <1>1, <1>3, <2>2, <2>3
  <2>5. ASSUME NEW u \in clean', u # t PROVE Inclusive(u)' /\ Bounded(u)'
    <3>1. /\ u \in clean /\ u \in Scrapers /\ todo'[u] = todo[u]
          /\ owed'[u] = owed[u] /\ printed'[u] = printed[u]
      BY <1>1, <1>2, <2>1, <2>2, <2>5 DEF Accesses, Others
    <3> QED
      BY <1>6, <1>7, <2>2, <3>1
  <2>6. ASSUME t \in clean PROVE Inclusive(t)' /\ Bounded(t)'
    <3>1. /\ Inclusive(t) /\ Bounded(t) /\ Quietly
      BY <1>3, <2>6
    <3>2. \A i \in 1 .. Len(bounds) : mem[Bucket(i)] <= mem[Count]
      BY <3>1, CellsCover
    <3>3. /\ c \in todo[t] /\ todo'[t] = todo[t] \ {c}
          /\ printed'[t][c] = mem[c]
          /\ \A d \in Cells \ {c} : printed'[t][d] = printed[t][d]
      BY <1>1, <2>1 DEF Accesses
    <3>4. Inclusive(t)'
      <4>1. ASSUME NEW d \in Cells \ {Sum}
            PROVE  Tally(owed[t], d) <= IF d \in todo'[t] THEN mem[d] ELSE printed'[t][d]
        BY <3>1, <3>3 DEF Inclusive
      <4> QED
        BY <1>1, <1>5, <2>2, <4>1 DEF Sum, Inclusive
    <3>5. ASSUME NEW i \in 1 .. Len(bounds), Bucket(i) \notin todo'[t]
          PROVE  printed'[t][Bucket(i)] <=
                   IF Count \in todo'[t] THEN mem[Count] ELSE printed'[t][Count]
      <4>1. Bucket(i) \in Cells /\ Bucket(i) # Count
        BY <1>1
      <4>2. CASE c = Bucket(i)
        <5>1. Count \in todo[t]
          BY <2>2, <3>1 DEF InOrder
        <5>2. Count \in todo'[t]
          BY <3>3, <4>1, <4>2, <5>1
        <5> QED
          BY <3>2, <3>3, <4>2, <5>2
      <4>3. CASE c # Bucket(i)
        <5>1. printed'[t][Bucket(i)] = printed[t][Bucket(i)] /\ Bucket(i) \notin todo[t]
          BY <3>3, <3>5, <4>1, <4>3
        <5>2. printed[t][Bucket(i)] <=
                IF Count \in todo[t] THEN mem[Count] ELSE printed[t][Count]
          BY <3>1, <5>1 DEF Bounded
        <5> QED
          BY <1>1, <3>3, <5>1, <5>2
      <4> QED
        BY <4>2, <4>3
    <3>6. Bounded(t)'
      BY <1>1, <2>2, <3>5 DEF Bucket, Count, Bounded
    <3> QED
      BY <3>4, <3>6
  <2> QED
    BY <1>4, <2>2, <2>4, <2>5, <2>6
<1>13. ASSUME NEW t \in Resetters, Reset(t) PROVE Covered'
  <2>1. clean' = {}
    BY <1>13, ResetMoves
  <2> QED
    BY <1>4, <2>1
<1>14. ASSUME NEW t \in Resetters, Store(t) PROVE Covered'
  <2>1. t \in In("reset") /\ clean' = clean
    BY <1>2, <1>14, StoreMoves DEF In
  <2>2. clean = {}
    BY <1>3, <2>1
  <2> QED
    BY <1>4, <2>1, <2>2
<1> QED
  BY <1>8, <1>9, <1>10, <1>11, <1>12, <1>13, <1>14, Steps

LEMMA AlwaysCovered == Spec => [](Typed /\ Balanced /\ Covered)
<1>1. Init => Typed /\ Counted /\ Balanced /\ InOrder /\ Covered
  BY TypedInit, CountedInit, BalancedInit, InOrderInit, CoveredInit
<1>2. Typed /\ Counted /\ Balanced /\ InOrder /\ Covered /\ [Next]_vars
        => (Typed /\ Counted /\ Balanced /\ InOrder /\ Covered)'
  BY TypedStep, CountedStep, BalancedStep, InOrderStep, CoveredStep
<1> QED
  BY <1>1, <1>2, PTL DEF Spec

(* A scrape misses no observation that had returned when the scrape began. *)
THEOREM ScrapesInclusive == Spec => []ScrapeInclusive
<1>1. Typed /\ Balanced /\ Covered => ScrapeInclusive
  <2>1. SUFFICES ASSUME Typed, Covered, NEW t \in Scraped, NEW c \in Cells \ {Sum}
                 PROVE  printed[t][c] >= Tally(owed[t], c)
    BY DEF ScrapeInclusive
  <2>2. t \in clean /\ t \in Threads /\ todo[t] = {} /\ t \in Scrapers
    BY <2>1 DEF Scraped, Typed, TypeOK, Threads
  <2>3. printed[t][c] \in Int /\ Tally(owed[t], c) \in Int
    BY <2>1, <2>2, TallyFacts DEF Typed, TypeOK
  <2>4. Tally(owed[t], c) <= printed[t][c]
    BY <2>1, <2>2 DEF Covered
  <2> QED
    BY <2>3, <2>4
<1> QED
  BY <1>1, AlwaysCovered, PTL

(* A scrape racing observes never prints a bucket above the count:         *)
(* observe() adds to the count first and the serializer reads it last.     *)
THEOREM ScrapedBucketsCovered == Spec => []ScrapedCountCoversBuckets
<1>1. Typed /\ Balanced /\ Covered => ScrapedCountCoversBuckets
  <2>1. SUFFICES ASSUME Typed, Covered, NEW t \in Scraped, NEW i \in 1 .. Len(bounds)
                 PROVE  printed[t][Bucket(i)] <= printed[t][Count]
    BY DEF ScrapedCountCoversBuckets
  <2>2. t \in clean /\ t \in Threads /\ todo[t] = {}
    BY <2>1 DEF Scraped, Typed, TypeOK, Threads
  <2> QED
    BY <2>1, <2>2 DEF Covered
<1> QED
  BY <1>1, AlwaysCovered, PTL

-----------------------------------------------------------------------------
(* The sum.                                                                *)

(* g[n] is the sum of the first n entries of s.                            *)
Running(g, s) ==
  /\ g \in [0 .. Len(s) -> Int]
  /\ g[0] = 0
  /\ \A n \in 1 .. Len(s) : g[n] = g[n - 1] + s[n]

(* Every sequence of integers has running sums: the shortest prefix        *)
(* without them would extend one that has them.                            *)
LEMMA RunningExists ==
  ASSUME NEW s \in Seq(Int)
  PROVE  \E g : Running(g, s)
<1>1. Len(s) \in Nat /\ \A n \in 1 .. Len(s) : s[n] \in Int
  OBVIOUS
<1> DEFINE Upto(m, g) ==
      /\ g \in [0 .. m -> Int] /\ g[0] = 0
      /\ \A n \in 1 .. m : g[n] = g[n - 1] + s[n]
           Bad == {m \in 0 .. Len(s) : ~ \E g : Upto(m, g)}
<1>2. Bad = {}
  <2>1. SUFFICES ASSUME Bad # {} PROVE FALSE
    OBVIOUS
  <2>2. PICK m \in Bad : \A k \in Bad : m <= k
    <3>1. Bad \in SUBSET Nat
      BY <1>1
    <3> QED
      BY <2>1, <3>1, NatMinimum
  <2>3. m \in Nat /\ m \in 0 .. Len(s) /\ ~ \E g : Upto(m, g)
    BY <1>1
  <2>4. m # 0
    <3>1. Upto(0, [n \in 0 .. 0 |-> 0])
      OBVIOUS
    <3> QED
      BY <2>3, <3>1
  <2>5. PICK g : Upto(m - 1, g)
    <3>1. m - 1 \in 0 .. Len(s) /\ ~(m <= m - 1)
      BY <1>1, <2>3, <2>4
    <3> QED
      BY <2>2, <3>1
  <2> DEFINE h == [n \in 0 .. m |-> IF n = m THEN g[m - 1] + s[m] ELSE g[n]]
  <2>6. /\ g \in [0 .. m - 1 -> Int] /\ g[0] = 0
        /\ \A n \in 1 .. m - 1 : g[n] = g[n - 1] + s[n]
        /\ m - 1 \in Nat /\ s[m] \in Int
    BY <1>1, <2>3, <2>4, <2>5
  <2>7. h \in [0 .. m -> Int] /\ h[0] = 0 /\ h[m] = g[m - 1] + s[m]
        /\ \A n \in 0 .. m - 1 : h[n] = g[n]
    BY <2>3, <2>4, <2>6
  <2> HIDE DEF h
  <2>8. ASSUME NEW n \in 1 .. m PROVE h[n] = h[n - 1] + s[n]
    <3>1. n - 1 \in 0 .. m - 1 /\ h[n - 1] = g[n - 1]
      BY <2>3, <2>7
    <3>2. CASE n = m
      BY <2>7, <3>1, <3>2
    <3>3. CASE n # m
      <4>1. n \in 1 .. m - 1 /\ n \in 0 .. m - 1
        BY <2>3, <3>3
      <4> QED
        BY <2>6, <2>7, <3>1, <4>1
    <3> QED
      BY <3>2, <3>3
  <2> QED
    BY <2>3, <2>7, <2>8
<1> HIDE DEF Upto
<1>3. \E g : Upto(Len(s), g)
  <2>1. Len(s) \in 0 .. Len(s)
    BY <1>1
  <2> QED
    BY <1>2, <2>1
<1> QED
  BY <1>3 DEF Running, Upto

LEMMA TotalOfRunning ==
  ASSUME NEW s \in Seq(Int), NEW g, Running(g, s)
  PROVE  Total(s) = g[Len(s)]
<1> DEFINE Next1(f) == [n \in 0 .. Len(s) |-> IF n = 0 THEN 0 ELSE f[n - 1] + s[n]]
           total == CHOOSE f : f = Next1(f)
<1>1. /\ Len(s) \in Nat /\ g \in [0 .. Len(s) -> Int] /\ g[0] = 0
      /\ \A n \in 1 .. Len(s) : g[n] = g[n - 1] + s[n]
  BY DEF Running
<1>2. g = Next1(g)
  <2>1. \A n \in 0 .. Len(s) : g[n] = IF n = 0 THEN 0 ELSE g[n - 1] + s[n]
    BY <1>1
  <2> QED
    BY <1>1, <2>1
<1>3. total = Next1(total)
  BY <1>2
<1>4. Total(s) = total[Len(s)]
  BY DEF Total
<1> HIDE DEF total
<1>5. \A n \in 0 .. Len(s) : total[n] = IF n = 0 THEN 0 ELSE total[n - 1] + s[n]
  BY <1>3
<1> DEFINE Bad == {n \in 0 .. Len(s) : total[n] # g[n]}
<1>6. Bad = {}
  <2>1. SUFFICES ASSUME Bad # {} PROVE FALSE
    OBVIOUS
  <2>2. PICK m \in Bad : \A k \in Bad : m <= k
    <3>1. Bad \in SUBSET Nat
      BY <1>1
    <3> QED
      BY <2>1, <3>1, NatMinimum
  <2>3. m \in 0 .. Len(s) /\ total[m] # g[m] /\ m \in Nat
    BY <1>1
  <2>4. m # 0
    BY <1>1, <1>5, <2>3
  <2>5. m - 1 \in 0 .. Len(s) /\ ~(m <= m - 1)
    BY <1>1, <2>3, <2>4
  <2>6. total[m - 1] = g[m - 1]
    BY <2>2, <2>5
  <2> QED
    BY <1>1, <1>5, <2>3, <2>4, <2>6
<1> QED
  BY <1>1, <1>4, <1>6

(* The empty sequence sums to nothing, and appending a value adds it.      *)
LEMMA TotalFacts ==
  ASSUME NEW s \in Seq(Int), NEW v \in Int
  PROVE  /\ Total(<< >>) = 0
         /\ Total(s) \in Int
         /\ Total(Append(s, v)) = Total(s) + v
<1>1. Total(<< >>) = 0
  <2> DEFINE e == << >>
  <2>1. e \in Seq(Int) /\ Len(e) = 0
    OBVIOUS
  <2>2. PICK g : Running(g, e)
    BY <2>1, RunningExists
  <2>3. g[0] = 0
    BY <2>2 DEF Running
  <2> HIDE DEF e
  <2>4. Total(e) = g[Len(e)]
    BY <2>1, <2>2, TotalOfRunning
  <2> QED
    BY <2>1, <2>3, <2>4 DEF e
<1>2. PICK g : Running(g, s)
  BY RunningExists
<1>3. /\ Len(s) \in Nat /\ g \in [0 .. Len(s) -> Int] /\ g[0] = 0
      /\ \A n \in 1 .. Len(s) : g[n] = g[n - 1] + s[n]
  BY <1>2 DEF Running
<1>4. Total(s) = g[Len(s)] /\ Total(s) \in Int
  BY <1>2, <1>3, TotalOfRunning
<1> DEFINE t == Append(s, v)
           h == [n \in 0 .. Len(s) + 1 |-> IF n = Len(s) + 1 THEN g[Len(s)] + v ELSE g[n]]
<1>5. /\ t \in Seq(Int) /\ Len(t) = Len(s) + 1 /\ t[Len(s) + 1] = v
      /\ \A i \in 1 .. Len(s) : t[i] = s[i]
  BY AppendProperties
<1>6. /\ h \in [0 .. Len(s) + 1 -> Int] /\ h[0] = 0
      /\ h[Len(s) + 1] = g[Len(s)] + v
      /\ \A n \in 0 .. Len(s) : h[n] = g[n]
  BY <1>3
<1> HIDE DEF t, h
<1>7. \A n \in 1 .. Len(s) + 1 : h[n] = h[n - 1] + t[n]
  <2>1. SUFFICES ASSUME NEW n \in 1 .. Len(s) + 1 PROVE h[n] = h[n - 1] + t[n]
    OBVIOUS
  <2>2. CASE n = Len(s) + 1
    <3>1. n - 1 = Len(s) /\ Len(s) \in 0 .. Len(s)
      BY <1>3, <2>2
    <3> QED
      BY <1>3, <1>5, <1>6, <2>2, <3>1
  <2>3. CASE n \in 1 .. Len(s)
    <3>1. n - 1 \in 0 .. Len(s) /\ n \in 0 .. Len(s)
      BY <1>3, <2>3
    <3> QED
      BY <1>3, <1>5, <1>6, <2>3, <3>1
  <2> QED
    BY <1>3, <2>2, <2>3
<1>8. Running(h, t)
  BY <1>5, <1>6, <1>7 DEF Running
<1>9. Total(t) = h[Len(s) + 1]
  BY <1>5, <1>8, TotalOfRunning
<1> QED
  BY <1>1, <1>4, <1>6, <1>9 DEF t

LEMMA SummedInit == Init => Summed
<1> SUFFICES ASSUME Init PROVE Summed
  OBVIOUS
<1> DEFINE f == [T \in SUBSET Observers |-> 0]
<1>1. \A t \in Observers : arg[t] = 0
  BY DEF Init
<1>2. Sums(f, Observers, arg)
  BY <1>1 DEF Sums
<1>3. recorded = << >> /\ mem[Sum] = 0 /\ In("observe") = {}
  BY CellFacts DEF Init, Zero, In
<1>4. Owing(Sum) = {} /\ f[{}] = 0 /\ Total(<< >>) = 0
  <2>1. << >> \in Seq(Int) /\ 0 \in Int
    OBVIOUS
  <2>2. Total(<< >>) = 0
    BY <2>1, TotalFacts
  <2>3. Owing(Sum) = {}
    BY <1>3 DEF Owing
  <2>4. f[{}] = 0
    OBVIOUS
  <2> QED
    BY <2>2, <2>3, <2>4
<1>5. mem[Sum] + f[Owing(Sum)] = Total(recorded)
  BY <1>3, <1>4
<1> HIDE DEF f
<1> QED
  BY <1>2, <1>5 DEF Summed

LEMMA SummedStep == Typed /\ Counted /\ Summed /\ [Next]_vars => Summed'
<1> SUFFICES ASSUME Typed, Counted, Summed, [Next]_vars PROVE Summed'
  OBVIOUS
<1>1. PICK f : /\ Sums(f, Observers, arg)
               /\ ~torn /\ In("reset") = {} => mem[Sum] + f[Owing(Sum)] = Total(recorded)
  BY DEF Summed
<1>2. /\ f \in [SUBSET Observers -> Int] /\ f[{}] = 0
      /\ \A T \in SUBSET Observers : \A u \in Observers \ T : f[T \cup {u}] = f[T] + arg[u]
      /\ Owing(Sum) \in SUBSET Observers
  BY <1>1, SetsFinite DEF Sums
<1>3. /\ mem \in [Cells -> Int] /\ Sum \in Cells /\ mem[Sum] \in Int
      /\ arg \in [Observers -> Int] /\ recorded \in Seq(Int)
      /\ f[Owing(Sum)] \in Int /\ Total(recorded) \in Int
  <2>1. Values \subseteq Int
    BY HistogramAssumption
  <2>2. recorded \in Seq(Values) /\ arg \in [Observers -> Values \cup {0}]
    BY DEF Typed, TypeOK
  <2>3. recorded \in Seq(Int)
    BY <2>1, <2>2, SeqMonotonic
  <2>4. arg \in [Observers -> Int]
    <3>1. Values \cup {0} \subseteq Int
      BY <2>1
    <3> QED
      BY <2>2, <3>1
  <2>5. Total(recorded) \in Int
    BY <2>3, TotalFacts
  <2> QED
    BY <1>2, <2>3, <2>4, <2>5, CellFacts DEF Typed, TypeOK
<1>4. ASSUME NEW g, Sums(g, Observers, arg'),
             ~torn' /\ In("reset")' = {} => mem'[Sum] + g[Owing(Sum)'] = Total(recorded')
      PROVE  Summed'
  <2>1. Total(recorded)' = Total(recorded') /\ Sum' = Sum
    BY DEF Total, Sum
  <2> QED
    BY <1>4, <2>1 DEF Summed, Sum
<1>5. arg' = arg => Sums(f, Observers, arg')
  BY <1>1
<1>6. ASSUME UNCHANGED <<torn, recorded, arg>>, mem'[Sum] = mem[Sum],
             Owing(Sum)' = Owing(Sum), In("reset")' = In("reset")
      PROVE  Summed'
  BY <1>1, <1>4, <1>5, <1>6
<1>7. ASSUME Still PROVE Summed'
  BY <1>6, <1>7 DEF Still, Owing, In
<1>8. ASSUME NEW t \in Observers, NEW v \in Values \cup {NonFinite}, Observe(t, v)
      PROVE  Summed'
  <2>1. /\ v \in Values /\ v \in Int /\ mem' = mem /\ recorded' = Append(recorded, v)
        /\ torn' = (torn \/ In("reset") # {}) /\ arg'[t] = v
        /\ \A u \in Observers \ {t} : arg'[u] = arg[u]
    BY <1>8, ObserveMoves, HistogramAssumption
  <2>2. arg' \in [Observers -> Int]
    <3>1. Values \cup {0} \subseteq Int
      BY HistogramAssumption
    <3> QED
      BY <1>8, <3>1, ObserveMoves
  <2>3. PICK g : /\ Sums(g, Observers, arg')
                 /\ \A T \in SUBSET (Observers \ {t}) : g[T] = f[T]
    <3> DEFINE w == arg
               u == arg'
    <3>1. /\ w \in [Observers -> Int] /\ u \in [Observers -> Int]
          /\ Sums(f, Observers, w) /\ \A s \in Observers \ {t} : u[s] = w[s]
      BY <1>1, <1>3, <2>1, <2>2
    <3> HIDE DEF w, u
    <3>2. \E g : /\ Sums(g, Observers, u)
                 /\ \A T \in SUBSET (Observers \ {t}) : g[T] = f[T]
      BY <3>1, WeightReplaced
    <3> QED
      BY <3>2 DEF u
  <2>4. SUFFICES ASSUME ~torn, In("reset") = {}
                 PROVE  mem'[Sum] + g[Owing(Sum)'] = Total(recorded')
    BY <1>4, <1>8, <2>1, <2>3, ObserveSets
  <2>5. /\ t \notin Owing(Sum) /\ Owing(Sum)' = Owing(Sum) \cup {t}
    BY <1>8, ObserveSets, TouchedFacts
  <2>6. g[Owing(Sum) \cup {t}] = g[Owing(Sum)] + v
    BY <1>2, <2>1, <2>3, <2>5 DEF Sums
  <2>7. g[Owing(Sum)] = f[Owing(Sum)]
    BY <1>2, <2>3, <2>5
  <2>8. Total(recorded') = Total(recorded) + v
    BY <1>3, <2>1, TotalFacts
  <2>9. mem[Sum] + f[Owing(Sum)] = Total(recorded)
    BY <1>1, <2>4
  <2> QED
    BY <1>3, <2>1, <2>5, <2>6, <2>7, <2>8, <2>9
<1>9. ASSUME NEW t \in Observers, Add(t) PROVE Summed'
  <2>1. PICK c \in Cells :
          /\ Accesses(t, c)
          /\ mem' = [mem EXCEPT ![c] = @ + IF c = Sum THEN arg[t] ELSE 1]
    BY <1>9, AddMoves
  <2>2. /\ UNCHANGED <<torn, recorded, arg>> /\ In("reset")' = In("reset")
        /\ Owing(Sum)' = IF Sum = c THEN Owing(Sum) \ {t} ELSE Owing(Sum)
        /\ t \in Owing(c)
    BY <1>9, <2>1, AddMoves, AddSets
  <2>3. CASE c # Sum
    <3>1. mem'[Sum] = mem[Sum]
      BY <1>3, <2>1, <2>3
    <3> QED
      BY <1>6, <2>2, <2>3, <3>1
  <2>4. CASE c = Sum
    <3>1. mem'[Sum] = mem[Sum] + arg[t] /\ arg[t] \in Int
      BY <1>3, <2>1, <2>4
    <3> DEFINE Rest == Owing(Sum) \ {t}
    <3>2. Rest \in SUBSET Observers /\ t \in Observers \ Rest /\ Rest \cup {t} = Owing(Sum)
      BY <1>2, <2>2, <2>4
    <3>3. Owing(Sum)' = Rest
      BY <2>2, <2>4
    <3> HIDE DEF Rest
    <3>4. f[Owing(Sum)] = f[Rest] + arg[t] /\ f[Rest] \in Int
      BY <1>2, <3>2
    <3>5. ~torn /\ In("reset") = {} => mem'[Sum] + f[Rest] = Total(recorded)
      BY <1>1, <1>3, <3>1, <3>4
    <3> QED
      BY <1>4, <1>5, <2>2, <3>3, <3>5
  <2> QED
    BY <2>3, <2>4
<1>10. ASSUME NEW t \in Scrapers, Serialize(t) PROVE Summed'
  <2>1. /\ t \in Threads /\ Begins(t, "serialize", Cells)
        /\ UNCHANGED <<mem, arg, recorded, torn>>
    BY <1>10, SerializeMoves DEF Threads
  <2>2. Owing(Sum)' = Owing(Sum) /\ In("reset")' = In("reset")
    BY <2>1, SameObservers DEF Begins, Others, In
  <2> QED
    BY <1>6, <2>1, <2>2
<1>11. ASSUME NEW t \in Scrapers, Load(t) PROVE Summed'
  <2>1. PICK c \in Cells : Accesses(t, c)
    BY <1>11, LoadMoves
  <2>2. /\ t \in Threads /\ op[t] = "serialize" /\ UNCHANGED <<mem, arg, recorded, torn>>
    BY <1>11, LoadMoves DEF Threads
  <2>3. Owing(Sum)' = Owing(Sum) /\ In("reset")' = In("reset")
    BY <2>1, <2>2, SameObservers DEF Accesses, Others, In
  <2> QED
    BY <1>6, <2>2, <2>3
<1>12. ASSUME NEW t \in Resetters, Reset(t) PROVE Summed'
  <2>1. t \in In("reset")' /\ arg' = arg
    BY <1>12, ResetMoves DEF Begins, In, Threads
  <2> QED
    BY <1>4, <1>5, <2>1
<1>13. ASSUME NEW t \in Resetters, Store(t) PROVE Summed'
  <2>1. PICK c \in Cells : Accesses(t, c) /\ mem' = [mem EXCEPT ![c] = 0]
    BY <1>13, StoreMoves
  <2>2. /\ UNCHANGED <<recorded, torn, arg>> /\ t \in In("reset") /\ t \in Threads
        /\ op[t] = "reset"
    BY <1>13, StoreMoves DEF In, Threads
  <2>3. SUFFICES ASSUME ~torn, In("reset")' = {}
                 PROVE  mem'[Sum] + f[Owing(Sum)'] = Total(recorded')
    BY <1>4, <1>5, <2>2
  <2>4. Emptied
    BY <2>2, <2>3 DEF Counted
  <2>5. In("observe")' = {} /\ Owing(Sum)' = {}
    BY <2>1, <2>2, <2>4, SameObservers DEF Accesses, Emptied, Owing, In
  <2>6. mem'[Sum] = 0
    <3>1. CASE c = Sum
      BY <1>3, <2>1, <3>1
    <3>2. CASE c # Sum
      <4>1. op'[t] = "idle"
        BY <2>1, <2>2, <2>3 DEF Accesses, In
      <4>2. todo[t] = {c}
        BY <2>1, <2>2, <4>1 DEF Accesses
      <4>3. \A u \in In("reset") : u = t
        BY <2>1, <2>3 DEF Accesses, Others, In
      <4>4. mem[Sum] = 0
        BY <1>3, <2>4, <3>2, <4>2, <4>3 DEF Emptied
      <4> QED
        BY <1>3, <2>1, <3>2, <4>4
    <3> QED
      BY <3>1, <3>2
  <2>7. Total(recorded') = 0
    BY <1>3, <2>2, <2>4, TotalFacts DEF Emptied
  <2> QED
    BY <1>2, <2>5, <2>6, <2>7
<1> QED
  BY <1>7, <1>8, <1>9, <1>10, <1>11, <1>12, <1>13, Steps

LEMMA AlwaysSummed == Spec => [](Typed /\ Counted /\ Summed)
<1>1. Init => Typed /\ Counted /\ Summed
  BY TypedInit, CountedInit, SummedInit
<1>2. Typed /\ Counted /\ Summed /\ [Next]_vars => (Typed /\ Counted /\ Summed)'
  BY TypedStep, CountedStep, SummedStep
<1> QED
  BY <1>1, <1>2, PTL DEF Spec

(* At rest, unless an observe overlapped the last reset, the buckets are   *)
(* cumulative, the one of +Inf equals the count, and the sum is that of    *)
(* the values observed, whatever the order of the accesses.                *)
THEOREM AtRestConsistent == Spec => []ConsistentAtRest
<1>1. Typed /\ Counted /\ Summed => ConsistentAtRest
  <2>1. SUFFICES ASSUME Typed, Counted, Summed, Quiet, ~torn
                 PROVE  /\ \A i, j \in 1 .. Len(bounds) :
                             i <= j => mem[Bucket(i)] <= mem[Bucket(j)]
                        /\ mem[Bucket(Len(bounds))] = mem[Count]
                        /\ mem[Sum] = Total(recorded)
    BY DEF ConsistentAtRest
  <2>2. In("reset") = {} /\ In("observe") = {} /\ \A c : Owing(c) = {}
    BY <2>1 DEF Quiet, In, Owing
  <2>3. /\ bounds \in Seq(Int) /\ recorded \in Seq(Values)
        /\ \A c \in Cells : mem[c] \in Int
        /\ Len(bounds) \in Nat /\ Len(bounds) >= 1
        /\ \A i, j \in 1 .. Len(bounds) : i <= j => bounds[i] <= bounds[j]
        /\ bounds[Len(bounds)] = Infinity
    BY <2>1 DEF Typed, TypeOK, Ascending
  <2>4. \A c \in Cells \ {Sum} : mem[c] = Tally(recorded, c)
    <3>1. SUFFICES ASSUME NEW c \in Cells \ {Sum} PROVE mem[c] = Tally(recorded, c)
      OBVIOUS
    <3>2. mem[c] + Cardinality(Owing(c)) = Tally(recorded, c) /\ mem[c] \in Int
      BY <2>1, <2>2, <2>3 DEF Counted
    <3> QED
      BY <2>2, <3>2, FS_EmptySet
  <2>5. \A i \in 1 .. Len(bounds) :
          /\ mem[Bucket(i)] = Cardinality(UpTo(recorded, bounds[i]))
          /\ IsFiniteSet(UpTo(recorded, bounds[i]))
          /\ bounds[i] \in Int
    <3>1. SUFFICES ASSUME NEW i \in 1 .. Len(bounds)
                   PROVE  /\ mem[Bucket(i)] = Cardinality(UpTo(recorded, bounds[i]))
                          /\ IsFiniteSet(UpTo(recorded, bounds[i]))
                          /\ bounds[i] \in Int
      OBVIOUS
    <3>2. recorded \in Seq(Int)
      BY <2>3, HistogramAssumption, SeqMonotonic
    <3>3. bounds[i] \in Int
      BY <2>3
    <3>4. mem[Bucket(i)] = Tally(recorded, Bucket(i)) /\ Bucket(i) # Count /\ Bucket(i)[2] = i
      BY <2>4, CellFacts
    <3> QED
      BY <3>2, <3>3, <3>4, Counts DEF Tally, Within
  <2>6. ASSUME NEW i \in 1 .. Len(bounds), NEW j \in 1 .. Len(bounds), i <= j
        PROVE  mem[Bucket(i)] <= mem[Bucket(j)]
    <3>1. bounds[i] <= bounds[j] /\ bounds[i] \in Int /\ bounds[j] \in Int
      BY <2>3, <2>5, <2>6
    <3>2. \A k \in 1 .. Len(recorded) : recorded[k] \in Int
      <4>1. \A v \in Values : v \in Int
        BY HistogramAssumption
      <4>2. \A k \in 1 .. Len(recorded) : recorded[k] \in Values
        BY <2>3
      <4> QED
        BY <4>1, <4>2
    <3>3. UpTo(recorded, bounds[i]) \subseteq UpTo(recorded, bounds[j])
      BY <3>1, <3>2 DEF UpTo
    <3> QED
      BY <2>5, <3>3, FS_Subset
  <2>7. mem[Bucket(Len(bounds))] = mem[Count]
    <3>1. Len(bounds) \in 1 .. Len(bounds)
      BY <2>3
    <3>2. \A k \in 1 .. Len(recorded) : recorded[k] \in Int /\ recorded[k] < Infinity
      <4>1. \A v \in Values : v \in Int /\ v < Infinity
        BY HistogramAssumption
      <4>2. \A k \in 1 .. Len(recorded) : recorded[k] \in Values
        BY <2>3
      <4> QED
        BY <4>1, <4>2
    <3>3. UpTo(recorded, Infinity) = 1 .. Len(recorded)
      BY <3>2, HistogramAssumption DEF UpTo
    <3>4. Cardinality(UpTo(recorded, Infinity)) = Len(recorded)
      BY <2>3, <3>3, UpToNumber
    <3>5. mem[Count] = Len(recorded)
      BY <2>4, CellFacts DEF Tally
    <3> QED
      BY <2>3, <2>5, <3>1, <3>4, <3>5
  <2>8. mem[Sum] = Total(recorded)
    <3>1. PICK f : Sums(f, Observers, arg) /\ mem[Sum] + f[Owing(Sum)] = Total(recorded)
      BY <2>1, <2>2 DEF Summed
    <3>2. f[Owing(Sum)] = 0 /\ mem[Sum] \in Int
      BY <2>2, <2>3, <3>1, CellFacts DEF Sums
    <3> QED
      BY <3>1, <3>2
  <2> QED
    BY <2>6, <2>7, <2>8
<1> QED
  BY <1>1, AlwaysSummed, PTL

=============================================================================
