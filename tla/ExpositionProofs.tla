-------------------------- MODULE ExpositionProofs --------------------------
(***************************************************************************)
(* That a scrape names no series twice and prints no label twice on a      *)
(* line, as long as the program keeps clear of what the library lets pass: *)
(* for all names, helps, labels and bounds, and however many metrics.      *)
(*                                                                         *)
(* The argument: a sample has the name of its metric, perhaps with a       *)
(* suffix, and the labels of its metric, perhaps with a reserved one; so   *)
(* its name and labels tell the metric, and the suffix and the reserved    *)
(* label tell the line of the metric.  A scrape is made of such lines, of  *)
(* each metric once, and of comments.                                      *)
(***************************************************************************)
EXTENDS Exposition, BasicLemmas

(* A metric as the program makes one: its bounds are in ascending order,   *)
(* those of a histogram up to +Inf.                                        *)
Metrics ==
  {m \in [type : Types, name : Names, labels : LabelSets,
          observed : BOOLEAN, bounds : Seq(Int)] :
     /\ \A i, j \in 1 .. Len(m.bounds) : i <= j => m.bounds[i] <= m.bounds[j]
     /\ m.type = "histogram" =>
          Len(m.bounds) >= 1 /\ m.bounds[Len(m.bounds)] = Infinity}

(* A family of that name: each of its metrics has its name and type.       *)
FamiliesOf(n) ==
  {f \in [type : Types, help : Helps[n], metrics : Seq(Metrics)] :
     \A i \in 1 .. Len(f.metrics) :
       f.metrics[i].name = n /\ f.metrics[i].type = f.type}

(* The inductive invariant.                                                *)
Typed ==
  /\ IsFiniteSet(DOMAIN families)
  /\ DOMAIN families \subseteq Names
  /\ families = [n \in DOMAIN families |-> families[n]]
  /\ \A n \in DOMAIN families : families[n] \in FamiliesOf(n)
  /\ own \in Seq(Metrics)
  /\ Len(own) <= 1

(* It implies the type invariant.                                          *)
LEMMA TypedIsTypeOK == Typed => TypeOK
<1> SUFFICES ASSUME Typed PROVE TypeOK
  OBVIOUS
<1> DEFINE IsMetric(m) ==
             /\ m.type \in Types
             /\ m.name \in Names
             /\ m.labels \in LabelSets
             /\ \A i, j \in 1 .. Len(m.bounds) : i < j => m.bounds[i] <= m.bounds[j]
             /\ m.type = "histogram" => Last(m.bounds) = Infinity
<1>1. \A m \in Metrics : IsMetric(m)
  <2> TAKE m \in Metrics
  <2>1. /\ m.type \in Types /\ m.name \in Names /\ m.labels \in LabelSets
        /\ m.bounds \in Seq(Int)
        /\ \A i, j \in 1 .. Len(m.bounds) : i <= j => m.bounds[i] <= m.bounds[j]
        /\ m.type = "histogram" =>
             Len(m.bounds) >= 1 /\ m.bounds[Len(m.bounds)] = Infinity
    BY DEF Metrics
  <2>2. m.type = "histogram" => Last(m.bounds) = Infinity
    BY <2>1 DEF Last
  <2>3. \A i, j \in 1 .. Len(m.bounds) : i < j => m.bounds[i] <= m.bounds[j]
    BY <2>1
  <2> QED
    BY <2>1, <2>2, <2>3
<1> HIDE DEF IsMetric
<1>2. ASSUME NEW n \in DOMAIN families, NEW m \in Range(families[n].metrics)
      PROVE  IsMetric(m) /\ m.name = n /\ m.type = families[n].type
  <2> DEFINE ms == families[n].metrics
  <2>1. ms \in Seq(Metrics)
    BY DEF Typed, FamiliesOf
  <2>2. \A i \in 1 .. Len(ms) : ms[i].name = n /\ ms[i].type = families[n].type
    BY DEF Typed, FamiliesOf
  <2> HIDE DEF ms
  <2>3. PICK i \in 1 .. Len(ms) : m = ms[i]
    BY <1>2, <2>1, RangeEquality DEF ms
  <2>4. m \in Metrics
    BY <2>1, <2>3
  <2> QED
    BY <1>1, <2>2, <2>3, <2>4
<1>3. \A m \in Range(own) : IsMetric(m)
  <2>1. Range(own) \subseteq Metrics
    BY RangeOfSeq DEF Typed
  <2> QED
    BY <1>1, <2>1
<1>4. DOMAIN families \subseteq Names
  BY DEF Typed
<1> QED
  BY <1>2, <1>3, <1>4 DEF TypeOK, IsMetric

(* What a program asks for and the defaults are bounds up to +Inf.         *)
Bounds == {b \in Int : b <= Infinity}

(* The assumption, without the numeral, which Zenon cannot read.           *)
LEMMA Assumed ==
  /\ LabelSets \subseteq Seq(STRING \X STRING)
  /\ Infinity \in Int
  /\ \A given \in Given : given \in Seq(Bounds)
  BY SMT, ExpositionAssumption DEF Bounds

(* The default buckets and quantiles are such bounds.                      *)
LEMMA DefaultsAreBounds == \A type : Default(type) \in Seq(Bounds)
<1> DEFINE Small == {i \in Int : i <= 100000000}
<1>1. Small \subseteq Bounds
  <2>1. Infinity \in Int /\ 100000000 < Infinity
    BY SMT, ExpositionAssumption
  <2> QED
    BY SMT, <2>1 DEF Bounds
<1>2. Infinity \in Bounds
  BY Assumed DEF Bounds
<1>3. /\ 50000 \in Bounds /\ 100000 \in Bounds /\ 250000 \in Bounds
      /\ 500000 \in Bounds /\ 750000 \in Bounds /\ 1000000 \in Bounds
      /\ 2500000 \in Bounds /\ 5000000 \in Bounds /\ 7500000 \in Bounds
      /\ 10000000 \in Bounds /\ 25000000 \in Bounds /\ 50000000 \in Bounds
      /\ 75000000 \in Bounds /\ 100000000 \in Bounds
      /\ 9000000 \in Bounds /\ 9900000 \in Bounds
  <2>1. /\ 50000 \in Small /\ 100000 \in Small /\ 250000 \in Small
        /\ 500000 \in Small /\ 750000 \in Small /\ 1000000 \in Small
        /\ 2500000 \in Small /\ 5000000 \in Small /\ 7500000 \in Small
        /\ 10000000 \in Small /\ 25000000 \in Small /\ 50000000 \in Small
        /\ 75000000 \in Small /\ 100000000 \in Small
        /\ 9000000 \in Small /\ 9900000 \in Small
    BY SMT
  <2> HIDE DEF Small
  <2> QED
    BY SMT, <1>1, <2>1
<1>4. DefaultBuckets \in Seq(Bounds)
  BY SMT, <1>2, <1>3 DEF DefaultBuckets
<1>5. DefaultQuantiles \in Seq(Bounds)
  BY SMT, <1>3 DEF DefaultQuantiles
<1> QED
  BY <1>4, <1>5 DEF Default

(* A metric is constructed with its bounds sorted.                         *)
LEMMA MetricType ==
  ASSUME NEW type \in Types, NEW name \in Names, NEW labels \in LabelSets,
         NEW given \in Seq(Bounds)
  PROVE  /\ Metric(type, name, labels, given) \in Metrics
         /\ Metric(type, name, labels, given).name = name
         /\ Metric(type, name, labels, given).type = type
<1> DEFINE m == Metric(type, name, labels, given)
           Ascends(s) == \A i, j \in 1 .. Len(s) : i <= j => s[i] <= s[j]
           Ends(s) == Len(s) >= 1 /\ s[Len(s)] = Infinity
<1>1. m.type = type /\ m.name = name /\ m.labels = labels /\ m.observed = FALSE
  BY DEF Metric
<1>2. SUFFICES /\ m.bounds \in Seq(Int)
               /\ Ascends(m.bounds)
               /\ type = "histogram" => Ends(m.bounds)
  <2>1. m = [type |-> m.type, name |-> m.name, labels |-> m.labels,
             observed |-> m.observed, bounds |-> m.bounds]
    BY DEF Metric
  <2> HIDE DEF m
  <2>2. m \in [type : Types, name : Names, labels : LabelSets,
               observed : BOOLEAN, bounds : Seq(Int)]
    BY <1>1, <1>2, <2>1
  <2> QED
    BY <1>1, <1>2, <2>2 DEF Metrics, m
<1>3. given \in Seq(Int) /\ Infinity \in Int
  <2>1. Bounds \subseteq Int
    BY DEF Bounds
  <2> QED
    BY <2>1, SeqMonotonic, Assumed
<1>4. CASE type = "histogram"
  <2>1. m.bounds = Constructed(given, Infinity)
    BY <1>4 DEF Metric
  <2> QED
    BY <1>3, <2>1, ConstructedProperties DEF Bounds
<1>5. CASE type = "summary"
  <2>1. m.bounds = Sorted(given)
    BY <1>5 DEF Metric
  <2> QED
    BY <1>3, <1>5, <2>1, SortedProperties
<1>6. CASE type \notin {"histogram", "summary"}
  <2>1. m.bounds = << >>
    BY <1>6 DEF Metric
  <2> QED
    BY <1>6, <2>1
<1> QED
  BY <1>4, <1>5, <1>6

(* Metrics some of which have been observed or reset.                      *)
LEMMA SeenMetrics ==
  ASSUME NEW ms \in Seq(Metrics), NEW which, NEW observed \in BOOLEAN
  PROVE  /\ Seen(ms, which, observed) \in Seq(Metrics)
         /\ Len(Seen(ms, which, observed)) = Len(ms)
         /\ \A i \in 1 .. Len(ms) :
              /\ Seen(ms, which, observed)[i].name = ms[i].name
              /\ Seen(ms, which, observed)[i].type = ms[i].type
<1> DEFINE o(m) == [m EXCEPT !.observed = observed]
           ns == Seen(ms, which, observed)
<1>1. ASSUME NEW m \in Metrics
      PROVE  o(m) \in Metrics /\ o(m).name = m.name /\ o(m).type = m.type
  <2>1. m \in [type : Types, name : Names, labels : LabelSets,
               observed : BOOLEAN, bounds : Seq(Int)]
    BY DEF Metrics
  <2>2. /\ o(m) \in [type : Types, name : Names, labels : LabelSets,
                     observed : BOOLEAN, bounds : Seq(Int)]
        /\ o(m).name = m.name /\ o(m).type = m.type /\ o(m).bounds = m.bounds
    BY <2>1
  <2> HIDE DEF o
  <2>3. o(m) \in Metrics
    BY <2>2 DEF Metrics
  <2> QED
    BY <2>2, <2>3
<1>2. ns = [i \in 1 .. Len(ms) |-> IF i \in which THEN o(ms[i]) ELSE ms[i]]
  BY DEF Seen
<1> HIDE DEF o, ns
<1>3. Len(ms) \in Nat /\ \A i \in 1 .. Len(ms) : ms[i] \in Metrics
  OBVIOUS
<1>4. ASSUME NEW i \in 1 .. Len(ms)
      PROVE  ns[i] \in Metrics /\ ns[i].name = ms[i].name /\ ns[i].type = ms[i].type
  <2>1. ns[i] = o(ms[i]) \/ ns[i] = ms[i]
    BY <1>2
  <2> QED
    BY <1>1, <1>3, <2>1
<1>5. ns \in Seq(Metrics) /\ Len(ns) = Len(ms)
  BY <1>2, <1>3, <1>4
<1> QED
  BY <1>4, <1>5 DEF ns

(* The same of the metrics of a family.                                    *)
LEMMA SeenType ==
  ASSUME NEW n, NEW f \in FamiliesOf(n), NEW which, NEW observed \in BOOLEAN
  PROVE  [f EXCEPT !.metrics = Seen(@, which, observed)] \in FamiliesOf(n)
<1> DEFINE ms == f.metrics
           ns == Seen(ms, which, observed)
           g == [f EXCEPT !.metrics = ns]
<1>1. /\ f \in [type : Types, help : Helps[n], metrics : Seq(Metrics)]
      /\ ms \in Seq(Metrics)
      /\ \A i \in 1 .. Len(ms) : ms[i].name = n /\ ms[i].type = f.type
  BY DEF FamiliesOf
<1>2. /\ ns \in Seq(Metrics) /\ Len(ns) = Len(ms)
      /\ \A i \in 1 .. Len(ms) : ns[i].name = ms[i].name /\ ns[i].type = ms[i].type
  BY <1>1, SeenMetrics
<1>3. [f EXCEPT !.metrics = Seen(@, which, observed)] = g
  BY DEF ns
<1> HIDE DEF ns
<1>4. \A i \in 1 .. Len(ns) : ns[i].name = n /\ ns[i].type = f.type
  BY <1>1, <1>2
<1>5. /\ g \in [type : Types, help : Helps[n], metrics : Seq(Metrics)]
      /\ g.metrics = ns /\ g.type = f.type
  BY <1>1, <1>2
<1> HIDE DEF g
<1>6. g \in FamiliesOf(n)
  BY <1>4, <1>5 DEF FamiliesOf
<1> QED
  BY <1>3, <1>6

(* A metric added to a family.                                             *)
LEMMA AddedType ==
  ASSUME NEW n, NEW f \in FamiliesOf(n),
         NEW m \in Metrics, m.name = n, m.type = f.type
  PROVE  [f EXCEPT !.metrics = Append(@, m)] \in FamiliesOf(n)
<1> DEFINE ms == f.metrics
           ns == Append(ms, m)
           g == [f EXCEPT !.metrics = ns]
<1>1. /\ f \in [type : Types, help : Helps[n], metrics : Seq(Metrics)]
      /\ ms \in Seq(Metrics)
      /\ \A i \in 1 .. Len(ms) : ms[i].name = n /\ ms[i].type = f.type
  BY DEF FamiliesOf
<1>2. /\ ns \in Seq(Metrics) /\ Len(ns) = Len(ms) + 1 /\ Len(ms) \in Nat
      /\ \A i \in 1 .. Len(ms) : ns[i] = ms[i]
      /\ ns[Len(ms) + 1] = m
  BY <1>1, AppendProperties
<1> HIDE DEF ns
<1>3. \A i \in 1 .. Len(ns) : ns[i].name = n /\ ns[i].type = f.type
  BY <1>1, <1>2
<1>4. /\ g \in [type : Types, help : Helps[n], metrics : Seq(Metrics)]
      /\ g.metrics = ns /\ g.type = f.type
  BY <1>1, <1>2
<1> HIDE DEF g
<1>5. g \in FamiliesOf(n)
  BY <1>3, <1>4 DEF FamiliesOf
<1> QED
  BY <1>5 DEF g, ns

(* Typed holds at first, and every step keeps it.                          *)
LEMMA TypedInductive ==
  /\ Init => Typed
  /\ Typed /\ [Next]_vars => Typed'
<1>1. Init => Typed
  <2> SUFFICES ASSUME Init PROVE Typed
    OBVIOUS
  <2>1. families = << >> /\ own = << >> /\ DOMAIN << >> = {}
    BY DEF Init
  <2>2. IsFiniteSet({})
    BY FS_EmptySet
  <2>3. << >> = [n \in {} |-> << >>[n]]
    OBVIOUS
  <2> QED
    BY <2>1, <2>2, <2>3 DEF Typed
<1>2. ASSUME Typed, [Next]_vars PROVE Typed'
  <2>1. /\ IsFiniteSet(DOMAIN families)
        /\ DOMAIN families \subseteq Names
        /\ \A n \in DOMAIN families : families[n] \in FamiliesOf(n)
        /\ own \in Seq(Metrics) /\ Len(own) <= 1
    BY <1>2 DEF Typed
  <2>2. ASSUME NEW name \in Names, NEW type \in Types,
               NEW help \in Helps[name], Create(name, type, help)
        PROVE  Typed'
    <3> DEFINE new == [type |-> type, help |-> help, metrics |-> << >>]
    <3>1. /\ families' = [n \in DOMAIN families \cup {name} |->
                            IF n = name THEN new ELSE families[n]]
          /\ own' = own
      BY <2>2 DEF Create
    <3>2. new \in FamiliesOf(name)
      BY DEF FamiliesOf
    <3> HIDE DEF new
    <3>3. DOMAIN families' = DOMAIN families \cup {name}
      BY <3>1
    <3>4. IsFiniteSet(DOMAIN families')
      BY <2>1, <3>3, FS_AddElement
    <3>5. families' = [n \in DOMAIN families' |-> families'[n]]
      BY <3>1, <3>3
    <3>6. \A n \in DOMAIN families' : families'[n] \in FamiliesOf(n)
      BY <2>1, <3>1, <3>2, <3>3
    <3> QED
      BY <2>1, <3>1, <3>3, <3>4, <3>5, <3>6 DEF Typed
  <2>3. ASSUME NEW name \in DOMAIN families, NEW labels \in LabelSets,
               AddMetric(name, labels)
        PROVE  Typed'
    <3> DEFINE f == families[name]
               m == Metric(f.type, name, labels, Default(f.type))
               g == [f EXCEPT !.metrics = Append(@, m)]
    <3>1. families' = [families EXCEPT ![name] = g] /\ own' = own
      BY <2>3 DEF AddMetric
    <3>2. f \in FamiliesOf(name) /\ f.type \in Types /\ name \in Names
      BY <2>1 DEF FamiliesOf
    <3>3. m \in Metrics /\ m.name = name /\ m.type = f.type
      BY <3>2, MetricType, DefaultsAreBounds
    <3> HIDE DEF f, m
    <3>4. g \in FamiliesOf(name)
      BY <3>2, <3>3, AddedType
    <3> HIDE DEF g
    <3>5. DOMAIN families' = DOMAIN families
      BY <3>1
    <3>6. families' = [n \in DOMAIN families' |-> families'[n]]
      BY <3>1, <3>5
    <3>7. \A n \in DOMAIN families' : families'[n] \in FamiliesOf(n)
      BY <2>1, <3>1, <3>4, <3>5
    <3> QED
      BY <2>1, <3>1, <3>5, <3>6, <3>7 DEF Typed
  <2>4. ASSUME NEW type \in Types, NEW name \in Names, NEW labels \in LabelSets,
               NEW given \in Given, Construct(type, name, labels, given)
        PROVE  Typed'
    <3> DEFINE m == Metric(type, name, labels, given)
    <3>1. own' = <<m>> /\ families' = families
      BY <2>4 DEF Construct
    <3>2. m \in Metrics
      BY Assumed, MetricType
    <3> HIDE DEF m
    <3>3. own' \in Seq(Metrics) /\ Len(own') <= 1
      BY <3>1, <3>2
    <3> QED
      BY <1>2, <3>1, <3>3 DEF Typed
  <2>5. ASSUME NEW name \in DOMAIN families, NEW which, NEW observed \in BOOLEAN,
               See(name, which, observed)
        PROVE  Typed'
    <3> DEFINE g == [families[name] EXCEPT !.metrics = Seen(@, which, observed)]
    <3>1. families' = [families EXCEPT ![name] = g] /\ own' = own
      BY <2>5 DEF See
    <3>2. g \in FamiliesOf(name)
      BY <2>1, SeenType
    <3> HIDE DEF g
    <3>3. DOMAIN families' = DOMAIN families
      BY <3>1
    <3>4. families' = [n \in DOMAIN families' |-> families'[n]]
      BY <3>1, <3>3
    <3>5. \A n \in DOMAIN families' : families'[n] \in FamiliesOf(n)
      BY <2>1, <3>1, <3>2, <3>3
    <3> QED
      BY <2>1, <3>1, <3>3, <3>4, <3>5 DEF Typed
  <2>6. CASE Reset
    <3> DEFINE g(n) == [families[n] EXCEPT
                          !.metrics = Seen(@, DOMAIN families[n].metrics, FALSE)]
    <3>1. families' = [n \in DOMAIN families |-> g(n)] /\ own' = own
      BY <2>6 DEF Reset
    <3>2. \A n \in DOMAIN families : g(n) \in FamiliesOf(n)
      BY <2>1, SeenType
    <3> HIDE DEF g
    <3>3. DOMAIN families' = DOMAIN families
      BY <3>1
    <3>4. families' = [n \in DOMAIN families' |-> families'[n]]
      BY <3>1, <3>3
    <3>5. \A n \in DOMAIN families' : families'[n] \in FamiliesOf(n)
      BY <3>1, <3>2, <3>3
    <3> QED
      BY <2>1, <3>1, <3>3, <3>4, <3>5 DEF Typed
  <2>8. ASSUME NEW which, NEW observed \in BOOLEAN,
               own' = Seen(own, which, observed), UNCHANGED families
        PROVE  Typed'
    <3>1. own' \in Seq(Metrics) /\ Len(own') <= 1
      BY <2>1, <2>8, SeenMetrics
    <3> QED
      BY <1>2, <2>8, <3>1 DEF Typed
  <2>9. CASE ObserveOwn
    BY <2>8, <2>9 DEF ObserveOwn
  <2>10. CASE ResetOwn
    BY <2>8, <2>10 DEF ResetOwn
  <2>11. ASSUME NEW name \in DOMAIN families, NEW i, Observe(name, i) \/ MetricReset(name, i)
         PROVE  Typed'
    BY <2>5, <2>11 DEF Observe, MetricReset
  <2>12. ASSUME NEW name \in DOMAIN families, FamilyReset(name)
         PROVE  Typed'
    BY <2>5, <2>12 DEF FamilyReset
  <2>7. CASE UNCHANGED vars
    BY <1>2, <2>7 DEF Typed, vars
  <2> QED
    BY <1>2, <2>2, <2>3, <2>4, <2>6, <2>7, <2>9, <2>10, <2>11, <2>12 DEF Next
<1> QED
  BY <1>1, <1>2

(* Typed holds in every reachable state.                                   *)
LEMMA TypedInvariant == Spec => []Typed
  BY TypedInductive, PTL DEF Spec

(* In every reachable state each metric has the name and the type of its   *)
(* family, and bounds in ascending order, a histogram's up to +Inf.        *)
THEOREM TypeCorrect == Spec => []TypeOK
  BY TypedInvariant, TypedIsTypeOK, PTL

-----------------------------------------------------------------------------
(* Sequences                                                               *)

(* A sequence, of whatever elements.                                       *)
IsSequence(s) == \E S : s \in Seq(S)

(* The elements of s and then those of t.                                  *)
Extends(w, s, t) ==
  /\ Len(s) \in Nat /\ Len(t) \in Nat /\ Len(w) = Len(s) + Len(t)
  /\ \A i \in 1 .. Len(s) : w[i] = s[i]
  /\ \A i \in 1 .. Len(w) :
       i \notin 1 .. Len(s) => i - Len(s) \in 1 .. Len(t) /\ w[i] = t[i - Len(s)]

(* Two sequences in a row, whatever their elements.                        *)
LEMMA ConcatExtends ==
  ASSUME NEW s, NEW t, IsSequence(s), IsSequence(t)
  PROVE  IsSequence(s \o t) /\ Extends(s \o t, s, t)
<1>1. PICK S : s \in Seq(S)
  BY DEF IsSequence
<1>2. PICK T : t \in Seq(T)
  BY DEF IsSequence
<1> DEFINE U == S \cup T
<1>3. s \in Seq(U) /\ t \in Seq(U)
  <2>1. S \subseteq U /\ T \subseteq U
    OBVIOUS
  <2> HIDE DEF U
  <2> QED
    BY <1>1, <1>2, <2>1, SeqMonotonic
<1> HIDE DEF U
<1>4. /\ s \o t \in Seq(U) /\ Len(s \o t) = Len(s) + Len(t)
      /\ \A i \in 1 .. Len(s) + Len(t) :
           (s \o t)[i] = IF i <= Len(s) THEN s[i] ELSE t[i - Len(s)]
      /\ Len(s) \in Nat /\ Len(t) \in Nat
  BY <1>3, ConcatProperties, LenProperties
<1> DEFINE w == s \o t
           a == Len(s)
           b == Len(t)
<1> HIDE DEF w, a, b
<1>5. /\ a \in Nat /\ b \in Nat /\ Len(w) = a + b
      /\ \A i \in 1 .. a + b : w[i] = IF i <= a THEN s[i] ELSE t[i - a]
  BY <1>4 DEF w, a, b
<1>6. \A i \in 1 .. a : w[i] = s[i]
  BY <1>5
<1>7. \A i \in 1 .. Len(w) : i \notin 1 .. a => i - a \in 1 .. b /\ w[i] = t[i - a]
  BY <1>5
<1>8. Extends(w, s, t)
  BY <1>5, <1>6, <1>7 DEF Extends, a, b
<1> QED
  BY <1>4, <1>8 DEF IsSequence, w

(* FlattenSeq of the community modules, of sequences of whatever elements. *)
LEMMA FlattenSeqPlaces ==
  ASSUME NEW n \in Nat, NEW ss, ss = [k \in 1 .. n |-> ss[k]],
         \A k \in 1 .. n : IsSequence(ss[k])
  PROVE  /\ IsSequence(FlattenSeq(ss))
         /\ \E p, q : Places(p, q, FlattenSeq(ss), ss, n)
         /\ \A S : (\A k \in 1 .. n : ss[k] \in Seq(S)) => FlattenSeq(ss) \in Seq(S)
<1>1. FlattenSeq(ss) = Flattened(ss)
  BY DEF FlattenSeq, Flattened, Flattening
<1>2. ASSUME NEW S, \A k \in 1 .. n : ss[k] \in Seq(S)
      PROVE  /\ Flattened(ss) \in Seq(S)
             /\ \E p, q : Places(p, q, Flattened(ss), ss, n)
  <2> DEFINE T == Seq(S)
  <2>1. \A k \in 1 .. n : ss[k] \in T
    BY <1>2
  <2> HIDE DEF T
  <2>2. ss \in Seq(T) /\ Len(ss) = n
    BY <2>1
  <2> QED
    BY <2>2, FlattenedPlaces DEF T
<1> DEFINE U == UNION {Range(ss[k]) : k \in 1 .. n}
<1>3. \A k \in 1 .. n : ss[k] \in Seq(U)
  <2> TAKE k \in 1 .. n
  <2>1. PICK S : ss[k] \in Seq(S)
    BY DEF IsSequence
  <2>2. ss[k] \in Seq(Range(ss[k]))
    BY <2>1, SeqOfRange
  <2>3. Range(ss[k]) \subseteq U
    OBVIOUS
  <2> HIDE DEF U
  <2> QED
    BY <2>2, <2>3, SeqMonotonic
<1> HIDE DEF U
<1> QED
  BY <1>1, <1>2, <1>3 DEF IsSequence

-----------------------------------------------------------------------------
(* Lines that differ                                                       *)

Apart(x, y) == x.kind = "sample" /\ y.kind = "sample" => Series(x) # Series(y)

(* Lines that differ, whichever of two comes first.                        *)
LEMMA DifferIsApart ==
  ASSUME NEW w, Len(w) \in Nat
  PROVE  SeriesDiffer(w) <=> \A i, j \in 1 .. Len(w) : i # j => Apart(w[i], w[j])
<1>1. SeriesDiffer(w) <=> \A i, j \in 1 .. Len(w) : i < j => Apart(w[i], w[j])
  BY DEF SeriesDiffer, Apart
<1>2. \A i, j \in 1 .. Len(w) : i # j => i < j \/ j < i
  OBVIOUS
<1>3. \A i, j \in 1 .. Len(w) : i < j => i # j
  OBVIOUS
<1>4. \A x, y : Apart(x, y) => Apart(y, x)
  BY DEF Apart
<1> QED
  BY <1>1, <1>2, <1>3, <1>4

(* Sequences of lines that differ, of which each line is apart from those  *)
(* of the other.                                                           *)
LEMMA ConcatDiffer ==
  ASSUME NEW s, NEW t, IsSequence(s), IsSequence(t),
         SeriesDiffer(s), SeriesDiffer(t),
         \A i \in 1 .. Len(s) : \A j \in 1 .. Len(t) : Apart(s[i], t[j])
  PROVE  SeriesDiffer(s \o t)
<1> DEFINE w == s \o t
           a == Len(s)
<1>1. Extends(w, s, t)
  BY ConcatExtends
<1> HIDE DEF w
<1>2. a \in Nat /\ Len(t) \in Nat /\ Len(w) = a + Len(t)
  BY <1>1 DEF Extends
<1>3. ASSUME NEW i \in 1 .. Len(w), NEW j \in 1 .. Len(w), i # j
      PROVE  Apart(w[i], w[j])
  <2>1. /\ i \in 1 .. a => w[i] = s[i]
        /\ j \in 1 .. a => w[j] = s[j]
        /\ i \notin 1 .. a => i - a \in 1 .. Len(t) /\ w[i] = t[i - a]
        /\ j \notin 1 .. a => j - a \in 1 .. Len(t) /\ w[j] = t[j - a]
    BY <1>1 DEF Extends
  <2>2. \A x, y : Apart(x, y) => Apart(y, x)
    BY DEF Apart
  <2>3. /\ \A k, l \in 1 .. a : k # l => Apart(s[k], s[l])
        /\ \A k, l \in 1 .. Len(t) : k # l => Apart(t[k], t[l])
    BY <1>2, DifferIsApart
  <2> DEFINE k == i - a
             l == j - a
  <2>4. k # l
    BY <1>2, <1>3
  <2> HIDE DEF k, l, a
  <2>5. CASE i \in 1 .. a /\ j \in 1 .. a
    BY <1>3, <2>1, <2>3, <2>5
  <2>6. CASE i \in 1 .. a /\ j \notin 1 .. a
    BY <2>1, <2>6 DEF a
  <2>7. CASE i \notin 1 .. a /\ j \in 1 .. a
    BY <2>1, <2>2, <2>7 DEF a
  <2>8. CASE i \notin 1 .. a /\ j \notin 1 .. a
    BY <2>1, <2>3, <2>4, <2>8 DEF k, l
  <2> QED
    BY <2>5, <2>6, <2>7, <2>8
<1>4. Len(w) \in Nat
  BY <1>2
<1> QED
  BY <1>3, <1>4, DifferIsApart DEF w

(* Lines put together differ if those of each piece do, and those of one   *)
(* piece are apart from those of the others.                               *)
LEMMA FlattenDiffer ==
  ASSUME NEW n \in Nat, NEW ss, ss = [k \in 1 .. n |-> ss[k]],
         \A k \in 1 .. n : IsSequence(ss[k]) /\ SeriesDiffer(ss[k]),
         \A k, l \in 1 .. n : k # l =>
           \A i \in 1 .. Len(ss[k]) : \A j \in 1 .. Len(ss[l]) :
             Apart(ss[k][i], ss[l][j])
  PROVE  SeriesDiffer(FlattenSeq(ss))
<1> DEFINE w == FlattenSeq(ss)
<1>1. IsSequence(w) /\ \E p, q : Places(p, q, w, ss, n)
  BY FlattenSeqPlaces
<1>2. PICK p, q : Places(p, q, w, ss, n)
  BY <1>1
<1> HIDE DEF w
<1>3. Len(w) \in Nat /\ \A k \in 1 .. n : Len(ss[k]) \in Nat
  BY <1>1, LenProperties DEF IsSequence
<1>4. ASSUME NEW i \in 1 .. Len(w), NEW j \in 1 .. Len(w), i # j
      PROVE  Apart(w[i], w[j])
  <2>1. /\ p[i] \in 1 .. n /\ q[i] \in 1 .. Len(ss[p[i]]) /\ w[i] = ss[p[i]][q[i]]
        /\ p[j] \in 1 .. n /\ q[j] \in 1 .. Len(ss[p[j]]) /\ w[j] = ss[p[j]][q[j]]
        /\ ~(p[i] = p[j] /\ q[i] = q[j])
    BY <1>2, <1>4 DEF Places
  <2>2. \A k \in 1 .. n : \A a, b \in 1 .. Len(ss[k]) : a # b => Apart(ss[k][a], ss[k][b])
    BY <1>3, DifferIsApart
  <2> QED
    BY <2>1, <2>2
<1> QED
  BY <1>3, <1>4, DifferIsApart DEF w

-----------------------------------------------------------------------------
(* The lines of a metric                                                   *)

(* A sample of metric m: its name may have a suffix, and a reserved label  *)
(* may follow its labels.                                                  *)
LineOf(x, m) ==
  /\ x.kind = "sample"
  /\ \/ x.name = m.name
     \/ \E s \in LineSuffixes : x.name = LineName(m.name, s)
  /\ \/ x.labels = m.labels
     \/ \E r \in Reserved(m) : \E t : x.labels = Append(m.labels, <<r, t>>)

(* A name with a suffix tells the name and the suffix.                     *)
LEMMA NameSuffixed ==
  ASSUME NEW m \in Names, NEW n \in Names,
         NEW s \in LineSuffixes, NEW t \in LineSuffixes, LineName(m, s) = LineName(n, t)
  PROVE  m = n /\ s = t
  BY SuffixesTell

(* A label that is appended is one more.                                   *)
LEMMA LabelAppended ==
  ASSUME NEW labels \in LabelSets, NEW e
  PROVE  /\ Range(Append(labels, e)) = Range(labels) \cup {e}
         /\ Len(Append(labels, e)) = Len(labels) + 1
         /\ Len(labels) \in Nat
         /\ labels = [i \in 1 .. Len(labels) |-> labels[i]]
<1> DEFINE S == (STRING \X STRING) \cup {e}
<1>1. labels \in Seq(S) /\ e \in S
  <2>1. (STRING \X STRING) \subseteq S
    OBVIOUS
  <2>2. labels \in Seq(STRING \X STRING)
    BY Assumed
  <2> HIDE DEF S
  <2>3. labels \in Seq(S)
    BY <2>1, <2>2, SeqMonotonic
  <2> QED
    BY <2>3 DEF S
<1> HIDE DEF S
<1>2. /\ Append(labels, e) = labels \o <<e>>
      /\ Len(Append(labels, e)) = Len(labels) + 1
      /\ <<e>> \in Seq(S)
  BY <1>1, AppendIsConcat, AppendProperties
<1>3. Range(labels \o <<e>>) = Range(labels) \cup Range(<<e>>)
  BY <1>1, <1>2, RangeConcatenation
<1>4. Range(<<e>>) = {e}
  <2>1. Len(<<e>>) = 1 /\ <<e>>[1] = e
    OBVIOUS
  <2>2. Range(<<e>>) = {<<e>>[i] : i \in 1 .. Len(<<e>>)}
    BY <1>2, RangeEquality
  <2> QED
    BY <2>1, <2>2
<1> QED
  BY <1>1, <1>2, <1>3, <1>4, LenProperties

(* A function of the positions up to n is a sequence.                      *)
LEMMA FunctionIsSequence ==
  ASSUME NEW n \in Nat, NEW f, f = [i \in 1 .. n |-> f[i]]
  PROVE  IsSequence(f) /\ Len(f) = n
<1> DEFINE S == {f[i] : i \in 1 .. n}
<1>1. \A i \in 1 .. n : f[i] \in S
  OBVIOUS
<1> HIDE DEF S
<1>2. f \in Seq(S) /\ Len(f) = n
  BY <1>1
<1> QED
  BY <1>2 DEF IsSequence

(* The last two lines of a histogram or a summary.                         *)
LEMMA LastLines ==
  ASSUME NEW m \in Metrics
  PROVE  LET w == <<SumLine(m), CountLine(m)>>
         IN  /\ IsSequence(w) /\ Len(w) = 2
             /\ SeriesDiffer(w)
             /\ \A i \in 1 .. 2 :
                  /\ LineOf(w[i], m) /\ w[i].labels = m.labels
                  /\ w[i].name \in {LineName(m.name, "_sum"), LineName(m.name, "_count")}
<1> DEFINE x == SumLine(m)
           y == CountLine(m)
           w == <<x, y>>
<1>1. m.name \in Names
  BY DEF Metrics
<1>2. /\ x.kind = "sample" /\ x.name = LineName(m.name, "_sum") /\ x.labels = m.labels
      /\ y.kind = "sample" /\ y.name = LineName(m.name, "_count") /\ y.labels = m.labels
  BY DEF SumLine, CountLine, Sample
<1> HIDE DEF x, y
<1>3. Len(w) = 2 /\ w[1] = x /\ w[2] = y /\ w \in Seq({x, y})
  OBVIOUS
<1> HIDE DEF w
<1>4. LineOf(x, m) /\ LineOf(y, m)
  BY <1>2 DEF LineOf, LineSuffixes
<1>5. x.name # y.name
  <2>1. "_sum" \in LineSuffixes /\ "_count" \in LineSuffixes /\ "_sum" # "_count"
    BY DEF LineSuffixes
  <2> QED
    BY <1>1, <1>2, <2>1, NameSuffixed
<1>6. Apart(x, y) /\ Apart(y, x)
  BY <1>5 DEF Apart, Series
<1>7. \A i \in 1 .. 2 : i = 1 \/ i = 2
  OBVIOUS
<1>8. SeriesDiffer(w)
  BY <1>3, <1>6, <1>7, DifferIsApart
<1>9. \A i \in 1 .. 2 : w[i] = x \/ w[i] = y
  BY <1>3, <1>7
<1> QED
  BY <1>2, <1>3, <1>4, <1>8, <1>9 DEF IsSequence, w, x, y

(* No two bounds of the metric print alike.                                *)
PrintsApart(m) ==
  Cardinality({Printed(m, i) : i \in 1 .. Len(m.bounds)}) = Len(m.bounds)

(* The lines w are samples of metric m, which differ if its labels keep    *)
(* clear of the reserved one and its bounds print apart.                   *)
Prints(m, w) ==
  /\ IsSequence(w)
  /\ \A k \in 1 .. Len(w) : LineOf(w[k], m)
  /\ LabelNames(m.labels) \cap Reserved(m) = {} /\ PrintsApart(m)
       => SeriesDiffer(w)

(* The lines of a histogram or a summary: first those with a reserved      *)
(* label, n of them.                                                       *)
Labelled(m, n, text, name, r) ==
  [i \in 1 .. n |-> Sample(name, Append(m.labels, <<r, text[i]>>))]
    \o <<SumLine(m), CountLine(m)>>

(* They are lines of the metric.                                           *)
LEMMA LabelledLines ==
  ASSUME NEW m \in Metrics, NEW n \in Nat, NEW text, NEW r \in Reserved(m),
         NEW name \in {m.name, LineName(m.name, "_bucket")},
         PrintsApart(m) => \A i, j \in 1 .. n : text[i] = text[j] => i = j
  PROVE  Prints(m, Labelled(m, n, text, name, r))
<1> DEFINE first == [i \in 1 .. n |-> Sample(name, Append(m.labels, <<r, text[i]>>))]
           last == <<SumLine(m), CountLine(m)>>
           w == first \o last
<1>1. m.name \in Names /\ m.labels \in LabelSets
  BY DEF Metrics
<1>2. \A i \in 1 .. n : /\ first[i].kind = "sample" /\ first[i].name = name
                        /\ first[i].labels = Append(m.labels, <<r, text[i]>>)
  BY DEF Sample
<1>3. IsSequence(first) /\ Len(first) = n
  <2>1. first = [i \in 1 .. n |-> first[i]]
    OBVIOUS
  <2> HIDE DEF first
  <2> QED
    BY <2>1, FunctionIsSequence
<1> HIDE DEF first
<1>4. /\ IsSequence(last) /\ Len(last) = 2
      /\ SeriesDiffer(last)
      /\ \A i \in 1 .. 2 :
           /\ LineOf(last[i], m) /\ last[i].labels = m.labels
           /\ last[i].name \in {LineName(m.name, "_sum"), LineName(m.name, "_count")}
  BY LastLines
<1> HIDE DEF last
<1>5. IsSequence(w) /\ Extends(w, first, last)
  BY <1>3, <1>4, ConcatExtends
<1>6. \A i \in 1 .. n : LineOf(first[i], m)
  BY <1>2 DEF LineOf, LineSuffixes
<1> HIDE DEF w
<1>7. ASSUME NEW k \in 1 .. Len(w)
      PROVE  LineOf(w[k], m)
  BY <1>3, <1>4, <1>5, <1>6 DEF Extends
<1>8. ASSUME LabelNames(m.labels) \cap Reserved(m) = {}, PrintsApart(m)
      PROVE  SeriesDiffer(w)
  <2>1. ASSUME NEW i \in 1 .. n, NEW j \in 1 .. n, i # j
        PROVE  Apart(first[i], first[j])
    <3> DEFINE d == <<r, text[i]>>
               e == <<r, text[j]>>
    <3>1. d # e /\ d[1] = r
      BY <1>8, <2>1
    <3>2. d \notin Range(m.labels)
      BY <1>8, <3>1 DEF LabelNames
    <3>3. /\ Range(first[i].labels) = Range(m.labels) \cup {d}
          /\ Range(first[j].labels) = Range(m.labels) \cup {e}
      BY <1>1, <1>2, LabelAppended
    <3> HIDE DEF d, e
    <3>4. Range(first[i].labels) # Range(first[j].labels)
      BY <3>1, <3>2, <3>3
    <3> QED
      BY <3>4 DEF Apart, Series
  <2>2. SeriesDiffer(first)
    BY <1>3, <2>1, DifferIsApart
  <2>3. ASSUME NEW i \in 1 .. n, NEW j \in 1 .. 2
        PROVE  Apart(first[i], last[j])
    <3> DEFINE d == <<r, text[i]>>
    <3>1. d \notin Range(m.labels)
      <4>1. d[1] = r
        OBVIOUS
      <4> QED
        BY <1>8, <4>1 DEF LabelNames
    <3>2. Range(first[i].labels) = Range(m.labels) \cup {d}
      BY <1>1, <1>2, LabelAppended
    <3>3. last[j].labels = m.labels
      BY <1>4
    <3> HIDE DEF d
    <3>4. Range(first[i].labels) # Range(last[j].labels)
      BY <3>1, <3>2, <3>3
    <3> QED
      BY <3>4 DEF Apart, Series
  <2> QED
    BY <1>3, <1>4, <2>2, <2>3, ConcatDiffer DEF w
<1> QED
  BY <1>5, <1>7, <1>8 DEF Prints, Labelled, w, first, last

(* Then each text printed is that of one bound.                            *)
LEMMA PrintedApart ==
  ASSUME NEW m \in Metrics, PrintsApart(m)
  PROVE  \A i, j \in 1 .. Len(m.bounds) : Printed(m, i) = Printed(m, j) => i = j
<1> DEFINE n == Len(m.bounds)
           f == [i \in 1 .. n |-> Printed(m, i)]
           T == {Printed(m, i) : i \in 1 .. n}
<1>1. n \in Nat
  BY DEF Metrics
<1>2. IsFiniteSet(1 .. n) /\ Cardinality(1 .. n) = n
  BY <1>1, FS_Interval
<1>3. f \in Surjection(1 .. n, T)
  BY DEF Surjection
<1>4. Cardinality(T) = n
  BY DEF PrintsApart
<1> HIDE DEF n, T, f
<1>5. f \in Injection(1 .. n, T)
  BY <1>2, <1>3, <1>4, FS_Surjection
<1>6. \A i, j \in 1 .. n : f[i] = f[j] => i = j
  BY <1>5 DEF Injection, IsInjective
<1> QED
  BY <1>6 DEF f, n

(* The lines of every metric are its own.                                  *)
LEMMA MetricPrints ==
  ASSUME NEW m \in Metrics
  PROVE  Prints(m, MetricLines(m))
<1> DEFINE w == MetricLines(m)
           n == Len(m.bounds)
           last == <<SumLine(m), CountLine(m)>>
           text == [i \in 1 .. n |-> Printed(m, i)]
<1>1. n \in Nat /\ m.type \in Types
  BY DEF Metrics
<1>2. PrintsApart(m) => \A i, j \in 1 .. n : text[i] = text[j] => i = j
  BY PrintedApart
<1>3. CASE m.type \in {"counter", "gauge"}
  <2> DEFINE x == ValueLine(m)
  <2>1. w = <<x>>
    BY <1>3 DEF MetricLines
  <2>2. x.kind = "sample" /\ x.name = m.name /\ x.labels = m.labels
    BY DEF ValueLine, Sample
  <2> HIDE DEF x
  <2>3. LineOf(x, m)
    BY <2>2 DEF LineOf
  <2>4. <<x>> \in Seq({x}) /\ Len(<<x>>) = 1 /\ \A i \in 1 .. 1 : <<x>>[i] = x
    OBVIOUS
  <2> HIDE DEF w
  <2>5. IsSequence(w) /\ \A k \in 1 .. Len(w) : LineOf(w[k], m)
    BY <2>1, <2>3, <2>4 DEF IsSequence
  <2>6. \A i, j \in 1 .. Len(w) : ~(i # j)
    BY <2>1, <2>4
  <2>7. SeriesDiffer(w)
    BY <2>1, <2>4, <2>6, DifferIsApart
  <2> QED
    BY <2>5, <2>7 DEF w, Prints
<1>4. CASE m.type = "histogram"
  <2>1. "le" \in Reserved(m)
    BY <1>4 DEF Reserved
  <2>2. w = Labelled(m, n, text, LineName(m.name, "_bucket"), "le")
    <3>1. w = HistogramLines(m)
      BY <1>4 DEF MetricLines
    <3>2. \A i \in 1 .. n : WithLe(m, i) = Append(m.labels, <<"le", text[i]>>)
      BY <1>4 DEF WithLe, Printed
    <3>3. [i \in 1 .. n |-> Sample(LineName(m.name, "_bucket"), WithLe(m, i))]
            = [i \in 1 .. n |-> Sample(LineName(m.name, "_bucket"),
                                      Append(m.labels, <<"le", text[i]>>))]
      BY <3>2
    <3> QED
      BY <3>1, <3>3 DEF HistogramLines, Labelled
  <2> HIDE DEF text, n
  <2> DEFINE name == LineName(m.name, "_bucket")
  <2>3. name \in {m.name, LineName(m.name, "_bucket")}
    OBVIOUS
  <2> HIDE DEF name
  <2>4. Prints(m, Labelled(m, n, text, name, "le"))
    BY <1>1, <1>2, <2>1, <2>3, LabelledLines
  <2> QED
    BY <2>2, <2>4 DEF name
<1>5. CASE m.type = "summary"
  <2>1. "quantile" \in Reserved(m) /\ m.name \in {m.name, LineName(m.name, "_bucket")}
    BY <1>5 DEF Reserved
  <2>2. w = SummaryLines(m)
    BY <1>5 DEF MetricLines
  <2>3. CASE m.observed
    <3>1. w = Labelled(m, n, text, m.name, "quantile")
      <4>1. \A i \in 1 .. n :
              WithQuantile(m, i) = Append(m.labels, <<"quantile", text[i]>>)
        BY <1>5 DEF WithQuantile, Printed
      <4>2. [i \in 1 .. n |-> Sample(m.name, WithQuantile(m, i))]
              = [i \in 1 .. n |-> Sample(m.name, Append(m.labels, <<"quantile", text[i]>>))]
        BY <4>1
      <4> QED
        BY <2>2, <2>3, <4>2 DEF SummaryLines, Labelled
    <3> HIDE DEF text, n
    <3>2. Prints(m, Labelled(m, n, text, m.name, "quantile"))
      BY <1>1, <1>2, <2>1, LabelledLines
    <3> QED
      BY <3>1, <3>2
  <2>4. CASE ~m.observed
    <3>1. w = << >> \o last
      BY <2>2, <2>4 DEF SummaryLines
    <3>2. IsSequence(last) /\ Len(last) = 2 /\ SeriesDiffer(last)
          /\ \A i \in 1 .. 2 : LineOf(last[i], m)
      BY LastLines
    <3> HIDE DEF last
    <3>3. w = last
      BY <3>1, <3>2, ConcatEmptySeq DEF IsSequence
    <3> QED
      BY <3>2, <3>3 DEF Prints
  <2> QED
    BY <2>3, <2>4
<1> QED
  BY <1>1, <1>3, <1>4, <1>5 DEF Types

(* The lines of some metrics, each one a line of one of them.              *)
LEMMA AllLinesOf ==
  ASSUME NEW ms \in Seq(Metrics)
  PROVE  /\ IsSequence(AllLines(ms))
         /\ \A k \in 1 .. Len(AllLines(ms)) :
              \E i \in 1 .. Len(ms) : LineOf(AllLines(ms)[k], ms[i])
<1> DEFINE n == Len(ms)
           ss == [i \in 1 .. n |-> MetricLines(ms[i])]
           w == FlattenSeq(ss)
<1>1. n \in Nat /\ \A i \in 1 .. n : ms[i] \in Metrics
  OBVIOUS
<1>2. w = AllLines(ms)
  BY DEF AllLines
<1>3. \A i \in 1 .. n : Prints(ms[i], ss[i])
  BY <1>1, MetricPrints
<1>4. ss = [i \in 1 .. n |-> ss[i]]
  OBVIOUS
<1> HIDE DEF ss
<1>5. IsSequence(w) /\ \E p, q : Places(p, q, w, ss, n)
  BY <1>1, <1>3, <1>4, FlattenSeqPlaces DEF Prints
<1> HIDE DEF w, n
<1>6. \A k \in 1 .. Len(w) : \E i \in 1 .. n : LineOf(w[k], ms[i])
  <2> TAKE k \in 1 .. Len(w)
  <2>1. PICK p, q : Places(p, q, w, ss, n)
    BY <1>5
  <2>2. p[k] \in 1 .. n /\ q[k] \in 1 .. Len(ss[p[k]]) /\ w[k] = ss[p[k]][q[k]]
    BY <2>1 DEF Places
  <2>3. LineOf(w[k], ms[p[k]])
    BY <1>3, <2>2 DEF Prints
  <2> QED
    BY <2>2, <2>3
<1> QED
  BY <1>2, <1>5, <1>6 DEF n

-----------------------------------------------------------------------------
(* Labels                                                                  *)

(* A line has each label once, if its metric does and uses no reserved     *)
(* one.                                                                    *)
LEMMA LabelsOfLine ==
  ASSUME NEW m \in Metrics, NEW x, LineOf(x, m),
         Cardinality(LabelNames(m.labels)) = Len(m.labels),
         LabelNames(m.labels) \cap Reserved(m) = {}
  PROVE  Cardinality(LabelNames(x.labels)) = Len(x.labels)
<1>1. m.labels \in LabelSets
  BY DEF Metrics
<1>2. CASE x.labels = m.labels
  BY <1>2
<1>3. ASSUME NEW r \in Reserved(m), NEW t, x.labels = Append(m.labels, <<r, t>>)
      PROVE  Cardinality(LabelNames(x.labels)) = Len(x.labels)
  <2> DEFINE names == LabelNames(m.labels)
             e == <<r, t>>
  <2>1. /\ Range(x.labels) = Range(m.labels) \cup {e}
        /\ Len(x.labels) = Len(m.labels) + 1 /\ Len(m.labels) \in Nat
        /\ m.labels = [i \in 1 .. Len(m.labels) |-> m.labels[i]]
    BY <1>1, <1>3, LabelAppended
  <2>2. e[1] = r
    OBVIOUS
  <2> HIDE DEF e
  <2>3. LabelNames(x.labels) = names \cup {r}
    BY <2>1, <2>2 DEF LabelNames
  <2>4. IsFiniteSet(names)
    <3> DEFINE I == 1 .. Len(m.labels)
               f == [i \in I |-> m.labels[i][1]]
    <3>1. IsFiniteSet(I)
      <4>1. 1 \in Int /\ Len(m.labels) \in Int
        BY <2>1
      <4> QED
        BY ONLY <4>1, FS_Interval
    <3>2. Range(m.labels) = {m.labels[i] : i \in I}
      BY <2>1 DEF Range
    <3>3. f \in Surjection(I, names)
      BY <3>2 DEF Surjection, LabelNames
    <3> QED
      BY <3>1, <3>3, FS_Surjection
  <2>5. r \notin names
    OBVIOUS
  <2>6. Cardinality(names \cup {r}) = Cardinality(names) + 1
    BY <2>4, <2>5, FS_AddElement
  <2> QED
    BY <2>1, <2>3, <2>6
<1> QED
  BY <1>2, <1>3 DEF LineOf

(* So has every line of some metrics.                                      *)
LEMMA LabelsOfLines ==
  ASSUME NEW ms \in Seq(Metrics), LabelsCareful(ms)
  PROVE  \A line \in Range(AllLines(ms)) :
           Cardinality(LabelNames(line.labels)) = Len(line.labels)
<1> TAKE line \in Range(AllLines(ms))
<1>1. PICK S : AllLines(ms) \in Seq(S)
  BY AllLinesOf DEF IsSequence
<1>2. PICK k \in 1 .. Len(AllLines(ms)) : line = AllLines(ms)[k]
  BY <1>1, RangeEquality
<1>3. PICK i \in 1 .. Len(ms) : LineOf(line, ms[i])
  BY <1>2, AllLinesOf
<1>4. ms[i] \in Metrics /\ ms[i] \in Range(ms)
  BY RangeEquality
<1>5. /\ Cardinality(LabelNames(ms[i].labels)) = Len(ms[i].labels)
      /\ LabelNames(ms[i].labels) \cap Reserved(ms[i]) = {}
  BY <1>4 DEF LabelsCareful
<1> QED
  BY <1>3, <1>4, <1>5, LabelsOfLine

-----------------------------------------------------------------------------
(* The registered metrics                                                  *)

(* The elements of a finite set in some order, each once.                  *)
LEMMA SetToSeqListing ==
  ASSUME NEW S, IsFiniteSet(S)
  PROVE  /\ Cardinality(S) \in Nat
         /\ SetToSeq(S) \in [1 .. Cardinality(S) -> S]
         /\ IsInjective(SetToSeq(S))
         /\ Len(SetToSeq(S)) = Cardinality(S)
<1> DEFINE n == Cardinality(S)
<1>1. n \in Nat /\ ExistsBijection(1 .. n, S)
  BY FS_CardinalityType
<1> HIDE DEF n
<1>2. \E f \in [1 .. n -> S] : IsInjective(f)
  BY <1>1 DEF ExistsBijection, Bijection, Injection
<1>3. SetToSeq(S) \in [1 .. n -> S] /\ IsInjective(SetToSeq(S))
  BY <1>2 DEF SetToSeq, n
<1>4. Len(SetToSeq(S)) = n
  BY <1>1, <1>3
<1> QED
  BY <1>1, <1>3, <1>4 DEF n

ListOfNames == SetToSeq(DOMAIN families)

(* w has the i-th metric of the family n at its position at[<<n, i>>].     *)
Locates(at, w) ==
  \A n \in DOMAIN families : \A i \in 1 .. Len(families[n].metrics) :
    /\ at[<<n, i>>] \in 1 .. Len(w)
    /\ w[at[<<n, i>>]] = families[n].metrics[i]
    /\ \A o \in DOMAIN families : \A j \in 1 .. Len(families[o].metrics) :
         at[<<n, i>>] = at[<<o, j>>] => n = o /\ i = j

(* Registered holds the metrics of every family, each once.                *)
LEMMA RegisteredType ==
  ASSUME Typed
  PROVE  /\ Registered \in Seq(Metrics)
         /\ \A i, j \in 1 .. Len(Registered) :
              Registered[i].name = Registered[j].name =>
                Registered[i].type = Registered[j].type
         /\ \E at : Locates(at, Registered)
<1> DEFINE N == DOMAIN families
           c == Cardinality(N)
           names == ListOfNames
           ss == [i \in 1 .. c |-> families[names[i]].metrics]
           w == FlattenSeq(ss)
<1>1. /\ \A n \in N : families[n] \in FamiliesOf(n)
      /\ IsFiniteSet(N)
  BY DEF Typed
<1>2. /\ c \in Nat /\ names \in [1 .. c -> N]
      /\ IsInjective(names) /\ Len(names) = c
  BY <1>1, SetToSeqListing DEF ListOfNames
<1>3. w = Registered
  BY <1>2 DEF Registered, ListOfNames
<1>4. \A n \in N : /\ families[n].metrics \in Seq(Metrics)
                   /\ \A i \in 1 .. Len(families[n].metrics) :
                        /\ families[n].metrics[i].name = n
                        /\ families[n].metrics[i].type = families[n].type
  BY <1>1 DEF FamiliesOf
<1> HIDE DEF names, c
<1>5. \A i \in 1 .. c : /\ ss[i] = families[names[i]].metrics
                        /\ ss[i] \in Seq(Metrics)
  BY <1>2, <1>4
<1>6. ss = [i \in 1 .. c |-> ss[i]]
  OBVIOUS
<1> HIDE DEF ss
<1>7. w \in Seq(Metrics) /\ \E p, q : Places(p, q, w, ss, c)
  BY <1>2, <1>5, <1>6, FlattenSeqPlaces DEF IsSequence
<1>8. PICK p, q : Places(p, q, w, ss, c)
  BY <1>7
<1> HIDE DEF w, N
<1>9. \A k \in 1 .. Len(w) : \E n \in N : w[k].name = n /\ w[k].type = families[n].type
  <2> TAKE k \in 1 .. Len(w)
  <2>1. p[k] \in 1 .. c /\ q[k] \in 1 .. Len(ss[p[k]]) /\ w[k] = ss[p[k]][q[k]]
    BY <1>8 DEF Places
  <2> DEFINE n == names[p[k]]
             i == q[k]
  <2>2. n \in N
    BY <1>2, <2>1
  <2>3. ss[p[k]] = families[n].metrics
    BY <1>5, <2>1
  <2> HIDE DEF n, i
  <2>4. i \in 1 .. Len(families[n].metrics) /\ w[k] = families[n].metrics[i]
    BY <2>1, <2>3 DEF i
  <2>5. families[n].metrics[i].name = n /\ families[n].metrics[i].type = families[n].type
    BY ONLY <1>4, <2>2, <2>4
  <2>6. w[k].name = n /\ w[k].type = families[n].type
    BY ONLY <2>4, <2>5
  <2> QED
    BY ONLY <2>2, <2>6
<1>10. \A n \in N : \E a \in 1 .. c : names[a] = n
  <2>1. IsFiniteSet(1 .. c) /\ Cardinality(1 .. c) = c
    BY <1>2, FS_Interval
  <2>2. names \in Injection(1 .. c, N)
    BY <1>2 DEF Injection
  <2>3. names \in Surjection(1 .. c, N)
    BY <1>1, <2>1, <2>2, FS_Injection DEF c
  <2> QED
    BY <2>3 DEF Surjection
<1> DEFINE Place(n, i) == {k \in 1 .. Len(w) : names[p[k]] = n /\ q[k] = i}
           at == [x \in N \X Nat |-> CHOOSE k : k \in Place(x[1], x[2])]
<1>11. ASSUME NEW n \in N, NEW i \in 1 .. Len(families[n].metrics)
       PROVE  /\ at[<<n, i>>] \in 1 .. Len(w)
              /\ names[p[at[<<n, i>>]]] = n /\ q[at[<<n, i>>]] = i
              /\ w[at[<<n, i>>]] = families[n].metrics[i]
  <2>1. PICK a \in 1 .. c : names[a] = n
    BY <1>10
  <2>2. i \in 1 .. Len(ss[a])
    BY <1>5, <2>1
  <2>3. \E k \in 1 .. Len(w) : p[k] = a /\ q[k] = i
    BY <1>8, <2>2 DEF Places
  <2>4. \E k : k \in Place(n, i)
    BY <2>1, <2>3
  <2>5. <<n, i>> \in N \X Nat
    OBVIOUS
  <2>6. at[<<n, i>>] = CHOOSE k : k \in Place(n, i)
    BY <2>5
  <2> DEFINE k == at[<<n, i>>]
  <2> HIDE DEF at
  <2>7. k \in Place(n, i)
    BY <2>4, <2>6
  <2>8. k \in 1 .. Len(w) /\ names[p[k]] = n /\ q[k] = i
    BY <2>7
  <2>9. p[k] \in 1 .. c /\ w[k] = ss[p[k]][q[k]]
    BY <1>8, <2>8 DEF Places
  <2> QED
    BY <1>5, <2>8, <2>9
<1> HIDE DEF at
<1>12. ASSUME NEW n \in N, NEW i \in 1 .. Len(families[n].metrics),
              NEW o \in N, NEW j \in 1 .. Len(families[o].metrics),
              at[<<n, i>>] = at[<<o, j>>]
       PROVE  n = o /\ i = j
  <2>1. names[p[at[<<n, i>>]]] = n /\ q[at[<<n, i>>]] = i
    BY <1>11
  <2>2. names[p[at[<<o, j>>]]] = o /\ q[at[<<o, j>>]] = j
    BY <1>11
  <2> QED
    BY ONLY <1>12, <2>1, <2>2
<1>13. Locates(at, w)
  <2> SUFFICES ASSUME NEW n \in N, NEW i \in 1 .. Len(families[n].metrics)
               PROVE  /\ at[<<n, i>>] \in 1 .. Len(w)
                      /\ w[at[<<n, i>>]] = families[n].metrics[i]
                      /\ \A o \in N : \A j \in 1 .. Len(families[o].metrics) :
                           at[<<n, i>>] = at[<<o, j>>] => n = o /\ i = j
    BY DEF Locates, N
  <2>1. \A o \in N : \A j \in 1 .. Len(families[o].metrics) :
          at[<<n, i>>] = at[<<o, j>>] => n = o /\ i = j
    BY <1>12
  <2> QED
    BY <1>11, <2>1
<1>14. \A i, j \in 1 .. Len(w) : w[i].name = w[j].name => w[i].type = w[j].type
  BY <1>9
<1> QED
  BY <1>3, <1>7, <1>13, <1>14

-----------------------------------------------------------------------------
(* Metrics that are kept apart                                             *)

(* What the program sees to, of one metric and of two.                     *)
Careful(m) == LabelNames(m.labels) \cap Reserved(m) = {} /\ PrintsApart(m)

KeptApart(m, n) ==
  /\ Series(m) # Series(n)
  /\ m.name = n.name => m.type = n.type
  /\ \A s \in LineSuffixes : m.name # LineName(n.name, s) /\ n.name # LineName(m.name, s)

(* The labels of a line that are not reserved are those of the metric.     *)
LEMMA LabelsKept ==
  ASSUME NEW m \in Metrics, Careful(m), NEW x, LineOf(x, m)
  PROVE  Range(m.labels) = {e \in Range(x.labels) : e[1] \notin Reserved(m)}
<1>1. m.labels \in LabelSets
  BY DEF Metrics
<1>2. \A e \in Range(m.labels) : e[1] \notin Reserved(m)
  BY DEF Careful, LabelNames
<1>3. CASE x.labels = m.labels
  BY <1>2, <1>3
<1>4. ASSUME NEW r \in Reserved(m), NEW t, x.labels = Append(m.labels, <<r, t>>)
      PROVE  Range(m.labels) = {e \in Range(x.labels) : e[1] \notin Reserved(m)}
  <2> DEFINE d == <<r, t>>
  <2>1. Range(x.labels) = Range(m.labels) \cup {d}
    BY <1>1, <1>4, LabelAppended
  <2>2. d[1] \in Reserved(m)
    OBVIOUS
  <2> HIDE DEF d
  <2> QED
    BY <1>2, <2>1, <2>2
<1> QED
  BY <1>3, <1>4 DEF LineOf

(* Lines of two metrics that the program keeps apart name two series.      *)
LEMMA LinesApart ==
  ASSUME NEW m \in Metrics, NEW n \in Metrics, Careful(m), Careful(n),
         KeptApart(m, n), NEW x, NEW y, LineOf(x, m), LineOf(y, n)
  PROVE  Apart(x, y)
<1> SUFFICES ASSUME x.name = y.name, Range(x.labels) = Range(y.labels)
             PROVE  FALSE
  BY DEF Apart, Series
<1>1. m.name \in Names /\ n.name \in Names
  BY DEF Metrics
<1>2. m.name = n.name
  <2>1. CASE x.name = m.name /\ y.name = n.name
    BY <2>1
  <2>2. ASSUME x.name = m.name, NEW s \in LineSuffixes, y.name = LineName(n.name, s)
        PROVE  FALSE
    BY <2>2 DEF KeptApart
  <2>3. ASSUME y.name = n.name, NEW s \in LineSuffixes, x.name = LineName(m.name, s)
        PROVE  FALSE
    BY <2>3 DEF KeptApart
  <2>4. ASSUME NEW s \in LineSuffixes, NEW t \in LineSuffixes,
               x.name = LineName(m.name, s), y.name = LineName(n.name, t)
        PROVE  m.name = n.name
    <3> DEFINE a == m.name
               b == n.name
    <3>1. a \in Names /\ b \in Names /\ LineName(a, s) = LineName(b, t)
      BY <1>1, <2>4
    <3> HIDE DEF a, b
    <3>2. a = b
      BY <3>1, NameSuffixed
    <3> QED
      BY <3>2 DEF a, b
  <2> QED
    BY <2>1, <2>2, <2>3, <2>4 DEF LineOf
<1>3. Reserved(m) = Reserved(n)
  BY <1>2 DEF KeptApart, Reserved
<1>4. Range(m.labels) = Range(n.labels)
  BY <1>3, LabelsKept
<1> QED
  BY <1>2, <1>4 DEF KeptApart, Series

(* The lines of metrics that the program keeps apart differ.               *)
LEMMA AllLinesDiffer ==
  ASSUME NEW ms \in Seq(Metrics),
         \A i \in 1 .. Len(ms) : Careful(ms[i]),
         \A i, j \in 1 .. Len(ms) : i # j => KeptApart(ms[i], ms[j])
  PROVE  SeriesDiffer(AllLines(ms))
<1> DEFINE n == Len(ms)
           ss == [i \in 1 .. n |-> MetricLines(ms[i])]
<1>1. n \in Nat /\ \A i \in 1 .. n : ms[i] \in Metrics
  OBVIOUS
<1>2. \A i \in 1 .. n : Prints(ms[i], ss[i])
  BY <1>1, MetricPrints
<1>3. ss = [i \in 1 .. n |-> ss[i]] /\ AllLines(ms) = FlattenSeq(ss)
  BY DEF AllLines
<1> HIDE DEF ss
<1>4. \A i \in 1 .. n : IsSequence(ss[i]) /\ SeriesDiffer(ss[i])
  BY <1>2 DEF Careful, Prints
<1>5. ASSUME NEW k \in 1 .. n, NEW l \in 1 .. n, k # l,
             NEW i \in 1 .. Len(ss[k]), NEW j \in 1 .. Len(ss[l])
      PROVE  Apart(ss[k][i], ss[l][j])
  <2>1. LineOf(ss[k][i], ms[k]) /\ LineOf(ss[l][j], ms[l])
    BY <1>2 DEF Prints
  <2> QED
    BY <1>1, <1>5, <2>1, LinesApart
<1> HIDE DEF n
<1>6. SeriesDiffer(FlattenSeq(ss))
  BY <1>1, <1>3, <1>4, <1>5, FlattenDiffer
<1> QED
  BY <1>3, <1>6

-----------------------------------------------------------------------------
(* Comments                                                                *)

Comments(s) == IsSequence(s) /\ \A i \in 1 .. Len(s) : s[i].kind = "comment"

(* Every sample of w is one of t.                                          *)
SamplesOf(w, t) ==
  \A k \in 1 .. Len(w) : w[k].kind = "sample" => \E j \in 1 .. Len(t) : w[k] = t[j]

(* A comment on its own.                                                   *)
LEMMA OneComment == \A text : Comments(<<Comment(text)>>)
<1> TAKE text
<1> DEFINE x == Comment(text)
<1>1. x.kind = "comment"
  BY DEF Comment
<1> HIDE DEF x
<1>2. <<x>> \in Seq({x}) /\ Len(<<x>>) = 1 /\ \A i \in 1 .. 1 : <<x>>[i] = x
  OBVIOUS
<1> QED
  BY <1>1, <1>2 DEF Comments, IsSequence, x

(* Comments before or after some lines add no sample.                      *)
LEMMA CommentsAround ==
  ASSUME NEW s, NEW t, Comments(s), IsSequence(t)
  PROVE  /\ IsSequence(s \o t) /\ IsSequence(t \o s)
         /\ SamplesOf(s \o t, t)
         /\ Comments(t) => Comments(s \o t)
         /\ SeriesDiffer(t) => SeriesDiffer(s \o t) /\ SeriesDiffer(t \o s)
<1> DEFINE w == s \o t
           v == t \o s
<1>1. /\ IsSequence(s) /\ IsSequence(w) /\ IsSequence(v)
      /\ Extends(w, s, t)
  BY ConcatExtends DEF Comments
<1>2. \A i \in 1 .. Len(s) : s[i].kind = "comment"
  BY DEF Comments
<1>3. Len(s) \in Nat
  BY <1>1, LenProperties DEF IsSequence
<1>4. SeriesDiffer(s)
  BY <1>2, <1>3, DifferIsApart DEF Apart
<1>5. ASSUME SeriesDiffer(t) PROVE SeriesDiffer(w) /\ SeriesDiffer(v)
  BY <1>1, <1>2, <1>4, <1>5, ConcatDiffer DEF Apart
<1> HIDE DEF w
<1>6. SamplesOf(w, t)
  BY <1>1, <1>2 DEF Extends, SamplesOf
<1>7. ASSUME Comments(t) PROVE Comments(w)
  BY <1>1, <1>2, <1>7 DEF Extends, Comments
<1> QED
  BY <1>1, <1>5, <1>6, <1>7 DEF w

(* A family whose help text is one line prints no samples but those of its *)
(* metrics.                                                                *)
LEMMA FamilyPrints ==
  ASSUME Typed, NEW n \in DOMAIN families, Len(families[n].help) = 1
  PROVE  /\ IsSequence(FamilyLines(n))
         /\ SamplesOf(FamilyLines(n), AllLines(families[n].metrics))
         /\ SeriesDiffer(AllLines(families[n].metrics)) => SeriesDiffer(FamilyLines(n))
<1> DEFINE f == families[n]
           c1 == <<Comment("# HELP " \o n \o " " \o f.help[1])>>
           c2 == <<Comment("# TYPE " \o n \o " " \o f.type)>>
           rest == [i \in 1 .. Len(f.help) - 1 |-> Sample(f.help[i + 1], << >>)]
           t == AllLines(f.metrics)
           c == (c1 \o rest) \o c2
<1>1. FamilyLines(n) = c \o t
  BY DEF FamilyLines
<1>2. Comments(c1) /\ Comments(c2)
  BY OneComment
<1>3. rest = << >>
  OBVIOUS
<1>4. f.metrics \in Seq(Metrics)
  BY DEF Typed, FamiliesOf
<1>5. IsSequence(t)
  BY <1>4, AllLinesOf
<1> HIDE DEF c1, c2, rest, t
<1>6. c1 \o rest = c1
  BY <1>2, <1>3, ConcatEmptySeq DEF Comments, IsSequence
<1>7. Comments(c)
  BY <1>2, <1>6, CommentsAround DEF Comments
<1> HIDE DEF c
<1> QED
  BY <1>1, <1>5, <1>7, CommentsAround DEF t

-----------------------------------------------------------------------------
(* The exposition                                                          *)

(* What the program sees to, of the metrics of a sequence.                 *)
LEMMA CarefulMetrics ==
  ASSUME NEW ms \in Seq(Metrics), LabelsCareful(ms), MetricsCareful(ms),
         \A i, j \in 1 .. Len(ms) : ms[i].name = ms[j].name => ms[i].type = ms[j].type
  PROVE  /\ \A i \in 1 .. Len(ms) : Careful(ms[i])
         /\ \A i, j \in 1 .. Len(ms) : i # j => KeptApart(ms[i], ms[j])
<1>1. \A i \in 1 .. Len(ms) : ms[i] \in Range(ms)
  BY RangeEquality
<1>2. \A i \in 1 .. Len(ms) : Careful(ms[i])
  BY <1>1 DEF LabelsCareful, MetricsCareful, Careful, PrintsApart
<1>3. \A i, j \in 1 .. Len(ms) : i < j => Series(ms[i]) # Series(ms[j])
  BY DEF MetricsCareful
<1>4. \A i, j \in 1 .. Len(ms) : i # j => i < j \/ j < i
  OBVIOUS
<1>5. \A i, j \in 1 .. Len(ms) : i # j => Series(ms[i]) # Series(ms[j])
  BY <1>3, <1>4
<1>6. \A m, n \in Range(ms) : \A s \in LineSuffixes : m.name # LineName(n.name, s)
  BY DEF MetricsCareful
<1> QED
  BY <1>1, <1>2, <1>5, <1>6 DEF KeptApart

(* The lines of a registry differ.                                         *)
LEMMA RegistryDiffers ==
  ASSUME Typed, HelpsCareful, LabelsCareful(Registered), MetricsCareful(Registered)
  PROVE  SeriesDiffer(RegistryLines)
<1> DEFINE N == DOMAIN families
           c == Cardinality(N)
           names == ListOfNames
           ss == [i \in 1 .. c |-> FamilyLines(names[i])]
           w == FlattenSeq(ss)
           v == IF w = << >> THEN <<Comment("")>> ELSE w
<1>1. IsFiniteSet(N) /\ \A n \in N : families[n].metrics \in Seq(Metrics)
  BY DEF Typed, FamiliesOf
<1>2. /\ c \in Nat /\ names \in [1 .. c -> N]
      /\ IsInjective(names) /\ Len(names) = c
  BY <1>1, SetToSeqListing DEF ListOfNames
<1>3. RegistryLines = v \o <<Comment("# EOF")>>
  BY <1>2 DEF RegistryLines, ListOfNames
<1> DEFINE ms == Registered
<1>4. /\ ms \in Seq(Metrics)
      /\ \A i \in 1 .. Len(ms) : Careful(ms[i])
      /\ \A i, j \in 1 .. Len(ms) : i # j => KeptApart(ms[i], ms[j])
  BY RegisteredType, CarefulMetrics
<1>5. PICK at : Locates(at, ms)
  BY RegisteredType
<1> HIDE DEF ms
<1>6. ASSUME NEW n \in N, NEW i \in 1 .. Len(families[n].metrics)
      PROVE  Careful(families[n].metrics[i])
  BY <1>4, <1>5, <1>6 DEF Locates
<1>7. ASSUME NEW n \in N, NEW i \in 1 .. Len(families[n].metrics),
             NEW o \in N, NEW j \in 1 .. Len(families[o].metrics), n # o \/ i # j
      PROVE  KeptApart(families[n].metrics[i], families[o].metrics[j])
  <2> DEFINE k == at[<<n, i>>]
             l == at[<<o, j>>]
  <2>1. /\ k \in 1 .. Len(ms) /\ ms[k] = families[n].metrics[i]
        /\ l \in 1 .. Len(ms) /\ ms[l] = families[o].metrics[j]
    BY <1>5 DEF Locates
  <2>2. k # l
    <3>1. at[<<n, i>>] = at[<<o, j>>] => n = o /\ i = j
      <4>1. \A o1 \in N : \A j1 \in 1 .. Len(families[o1].metrics) :
              at[<<n, i>>] = at[<<o1, j1>>] => n = o1 /\ i = j1
        BY ONLY <1>5, n \in N, i \in 1 .. Len(families[n].metrics) DEF Locates
      <4> QED
        BY ONLY <4>1, o \in N, j \in 1 .. Len(families[o].metrics)
    <3> QED
      BY <1>7, <3>1
  <2> HIDE DEF k, l
  <2> QED
    BY <1>4, <2>1, <2>2
<1>8. ASSUME NEW n \in N
      PROVE  /\ IsSequence(FamilyLines(n)) /\ SeriesDiffer(FamilyLines(n))
             /\ SamplesOf(FamilyLines(n), AllLines(families[n].metrics))
  <2>1. SeriesDiffer(AllLines(families[n].metrics))
    BY <1>1, <1>6, <1>7, AllLinesDiffer
  <2>2. Len(families[n].help) = 1
    BY DEF HelpsCareful
  <2> QED
    BY <2>1, <2>2, FamilyPrints
<1>9. ASSUME NEW n \in N, NEW o \in N, n # o,
             NEW i \in 1 .. Len(FamilyLines(n)), NEW j \in 1 .. Len(FamilyLines(o))
      PROVE  Apart(FamilyLines(n)[i], FamilyLines(o)[j])
  <2> DEFINE x == FamilyLines(n)[i]
             y == FamilyLines(o)[j]
  <2>1. SUFFICES ASSUME x.kind = "sample", y.kind = "sample" PROVE Apart(x, y)
    BY DEF Apart
  <2>2. PICK a \in 1 .. Len(families[n].metrics) : LineOf(x, families[n].metrics[a])
    <3>1. \E k \in 1 .. Len(AllLines(families[n].metrics)) :
            x = AllLines(families[n].metrics)[k]
      BY <1>8, <2>1 DEF SamplesOf
    <3> QED
      BY <1>1, <3>1, AllLinesOf
  <2>3. PICK b \in 1 .. Len(families[o].metrics) : LineOf(y, families[o].metrics[b])
    <3>1. \E k \in 1 .. Len(AllLines(families[o].metrics)) :
            y = AllLines(families[o].metrics)[k]
      BY <1>8, <2>1 DEF SamplesOf
    <3> QED
      BY <1>1, <3>1, AllLinesOf
  <2> DEFINE m == families[n].metrics[a]
             l == families[o].metrics[b]
  <2>4. m \in Metrics /\ l \in Metrics /\ Careful(m) /\ Careful(l) /\ KeptApart(m, l)
    BY <1>1, <1>6, <1>7, <1>9
  <2> HIDE DEF m, l, x, y
  <2> QED
    BY <2>2, <2>3, <2>4, LinesApart DEF m, l
<1>10. /\ ss = [i \in 1 .. c |-> ss[i]]
       /\ \A i \in 1 .. c : ss[i] = FamilyLines(names[i]) /\ names[i] \in N
       /\ \A i, j \in 1 .. c : i # j => names[i] # names[j]
  BY <1>2 DEF IsInjective
<1> HIDE DEF ss, c, N, names
<1>11. \A k \in 1 .. c : IsSequence(ss[k]) /\ SeriesDiffer(ss[k])
  BY <1>8, <1>10
<1>12. ASSUME NEW k \in 1 .. c, NEW l \in 1 .. c, k # l,
              NEW i \in 1 .. Len(ss[k]), NEW j \in 1 .. Len(ss[l])
       PROVE  Apart(ss[k][i], ss[l][j])
  BY <1>9, <1>10, <1>12
<1>13. IsSequence(w) /\ SeriesDiffer(w)
  BY <1>2, <1>10, <1>11, <1>12, FlattenSeqPlaces, FlattenDiffer
<1> HIDE DEF w
<1>14. IsSequence(v) /\ SeriesDiffer(v)
  <2> DEFINE e == <<Comment("")>>
  <2>1. Comments(e)
    BY OneComment
  <2> HIDE DEF e
  <2>2. IsSequence(<< >>) /\ SeriesDiffer(<< >>)
    <3>1. << >> \in Seq({}) /\ Len(<< >>) = 0
      OBVIOUS
    <3> QED
      BY <3>1 DEF IsSequence, SeriesDiffer
  <2>3. IsSequence(e) /\ e \o << >> = e
    BY <2>1, ConcatEmptySeq DEF Comments, IsSequence
  <2>4. SeriesDiffer(e)
    BY <2>1, <2>2, <2>3, CommentsAround
  <2> QED
    BY <1>13, <2>3, <2>4 DEF e
<1> HIDE DEF v
<1> QED
  BY <1>3, <1>14, OneComment, CommentsAround

(* The lines of a metric without a family differ.                          *)
LEMMA OwnDiffers ==
  ASSUME Typed, LabelsCareful(own), MetricsCareful(own)
  PROVE  SeriesDiffer(AllLines(own))
<1>1. own \in Seq(Metrics) /\ Len(own) <= 1
  BY DEF Typed
<1>2. \A i, j \in 1 .. Len(own) : i = j
  BY <1>1
<1> QED
  BY <1>1, <1>2, CarefulMetrics, AllLinesDiffer

(* No scrape names a series twice, as long as the program keeps clear of   *)
(* what the library lets pass.                                             *)
THEOREM SeriesStayDistinct == Spec => []SeriesDistinct
<1>1. Typed => SeriesDistinct
  BY RegistryDiffers, OwnDiffers DEF SeriesDistinct
<1> QED
  BY <1>1, TypedInvariant, PTL

(* No line of a scrape has a label twice, unless the labels of a metric do *)
(* or use a reserved name.                                                 *)
THEOREM LabelsStayDistinct == Spec => []LabelsDistinct
<1>1. Typed => LabelsDistinct
  <2> SUFFICES ASSUME Typed PROVE LabelsDistinct
    OBVIOUS
  <2>1. Registered \in Seq(Metrics) /\ own \in Seq(Metrics)
    BY RegisteredType DEF Typed
  <2> QED
    BY <2>1, LabelsOfLines DEF LabelsDistinct
<1> QED
  BY <1>1, TypedInvariant, PTL

=============================================================================
