----------------------------- MODULE Exposition -----------------------------
(***************************************************************************)
(* What a scrape prints: the lines of metric_serializer.cpp, for whatever  *)
(* families, metrics and labels a program has made.  One thread is at      *)
(* work, and no value is printed: a Prometheus server tells the series of  *)
(* an exposition apart by their names and labels, and refuses one that     *)
(* names a series twice.  The library checks label names (module Labels)   *)
(* and that family names differ; the rest is up to the program.            *)
(*                                                                         *)
(* A bound or quantile is a number of ten-millionths.                      *)
(***************************************************************************)
EXTENDS Quantile, SequencesExt

CONSTANTS
  Names,      (* family names a program uses                               *)
  Helps,      (* Helps[n]: the help texts of name n, each as its lines     *)
  LabelSets,  (* the labels it gives to metrics, each <<name, value>>      *)
  Given,      (* bounds or quantiles it constructs a metric with           *)
  Infinity,   (* the bound above all others, those of DefaultBuckets too   *)
  MaxMetrics  (* bounds the model: number of metrics made                  *)

(* What the serializer appends to the name of a metric.                    *)
LineSuffixes == {"_bucket", "_sum", "_count"}

LineName(name, suffix) == name \o suffix

ASSUME ExpositionAssumption ==
  /\ Names \subseteq STRING
  /\ Helps \in [Names -> SUBSET (Seq(STRING) \ {<< >>})]
  /\ LabelSets \subseteq Seq(STRING \X STRING)
  /\ Infinity \in Int
  /\ 100000000 < Infinity
  /\ Given \subseteq Seq({b \in Int : b <= Infinity})
  /\ MaxMetrics \in Nat

(* So it is with any strings: no suffix ends like another.                 *)
ASSUME SuffixesTell ==
  \A m, n \in Names : \A s, t \in LineSuffixes :
    LineName(m, s) = LineName(n, t) => m = n /\ s = t

VARIABLES
  families,  (* _families: by name, the type, help and metrics of each     *)
  own        (* the metrics, none or one, made without a family, which the *)
             (*   program prints itself                                    *)

vars == <<families, own>>

Init == families = << >> /\ own = << >>

-----------------------------------------------------------------------------
(* Metrics                                                                 *)

Types == {"counter", "gauge", "histogram", "summary"}

DefaultBuckets ==
  <<50000, 100000, 250000, 500000, 750000, 1000000, 2500000, 5000000, 7500000,
    10000000, 25000000, 50000000, 75000000, 100000000, Infinity>>

DefaultQuantiles == <<5000000, 9000000, 9900000>>

(* A metric of a type that is constructed with `given', of which a counter *)
(* or gauge has no use.                                                    *)
Metric(type, name, labels, given) ==
  [type |-> type, name |-> name, labels |-> labels, observed |-> FALSE,
   bounds |-> CASE type = "histogram" -> Constructed(given, Infinity)
                [] type = "summary"   -> Sorted(given)
                [] OTHER              -> << >>]

Default(type) == IF type = "histogram" THEN DefaultBuckets ELSE DefaultQuantiles

MetricsMade ==
  FoldSet(LAMBDA n, sum : sum + Len(families[n].metrics), 0, DOMAIN families)

-----------------------------------------------------------------------------
(* What the program does                                                   *)

(* create_* throws for a name that is taken, and makes nothing of buckets  *)
(* or quantiles that it is given.                                          *)
Create(name, type, help) ==
  /\ own = << >>
  /\ name \notin DOMAIN families
  /\ LET new == [type |-> type, help |-> help, metrics |-> << >>]
     IN  families' = [n \in DOMAIN families \cup {name} |->
                        IF n = name THEN new ELSE families[n]]
  /\ UNCHANGED own

(* add_metric, of a list of labels: the metric has the name of the family  *)
(* and the buckets or quantiles that are the default, whatever the family  *)
(* was created with.                                                       *)
AddMetric(name, labels) ==
  /\ MetricsMade < MaxMetrics
  /\ LET type == families[name].type
     IN  families' = [families EXCEPT ![name].metrics =
                        Append(@, Metric(type, name, labels, Default(type)))]
  /\ UNCHANGED own

(* A metric made without a family does not meet the registry: a behaviour  *)
(* has the one or the other.                                               *)
Construct(type, name, labels, given) ==
  /\ families = << >>
  /\ own' = <<Metric(type, name, labels, given)>>
  /\ UNCHANGED families

(* The metrics, those at the places `which' having observations or none.   *)
Seen(metrics, which, observed) ==
  [i \in 1 .. Len(metrics) |->
     IF i \in which THEN [metrics[i] EXCEPT !.observed = observed] ELSE metrics[i]]

See(name, which, observed) ==
  /\ families' = [families EXCEPT ![name].metrics = Seen(@, which, observed)]
  /\ UNCHANGED own

(* summary::observe(), of a summary by its handle.                         *)
Observe(name, i) == families[name].type = "summary" /\ See(name, {i}, TRUE)

(* The reset of a metric, and of a family, by its handle.                  *)
MetricReset(name, i) == See(name, {i}, FALSE)
FamilyReset(name) == See(name, DOMAIN families[name].metrics, FALSE)

(* registry::reset()                                                       *)
Reset ==
  /\ families' = [n \in DOMAIN families |->
       [families[n] EXCEPT !.metrics = Seen(@, DOMAIN families[n].metrics, FALSE)]]
  /\ UNCHANGED own

(* The same of a metric made without a family.                             *)
ObserveOwn ==
  /\ \E i \in DOMAIN own : own[i].type = "summary" /\ own' = Seen(own, {i}, TRUE)
  /\ UNCHANGED families

ResetOwn ==
  /\ own' = Seen(own, DOMAIN own, FALSE)
  /\ UNCHANGED families

Next ==
  \/ \E name \in Names, type \in Types : \E help \in Helps[name] :
       Create(name, type, help)
  \/ \E name \in DOMAIN families, labels \in LabelSets : AddMetric(name, labels)
  \/ \E type \in Types, name \in Names, labels \in LabelSets, given \in Given :
       Construct(type, name, labels, given)
  \/ \E name \in DOMAIN families :
       \/ \E i \in DOMAIN families[name].metrics : Observe(name, i) \/ MetricReset(name, i)
       \/ FamilyReset(name)
  \/ Reset
  \/ ObserveOwn \/ ResetOwn

Spec == Init /\ [][Next]_vars

-----------------------------------------------------------------------------
(* The lines of an exposition                                              *)

Comment(text) == [kind |-> "comment", name |-> text, labels |-> << >>]
Sample(name, labels) == [kind |-> "sample", name |-> name, labels |-> labels]

(* std::to_string prints six decimals: here the number of millionths, with *)
(* the sign that a negative keeps even when its decimals are all zeros.    *)
SixDecimals(bound) ==
  CASE bound = Infinity -> "inf"
    [] bound < 0        -> "-" \o ToString((5 - bound) \div 10)
    [] OTHER            -> ToString((bound + 5) \div 10)

BoundText(bound) == IF bound = Infinity THEN "+Inf" ELSE SixDecimals(bound)

(* serialize(counter) and serialize(gauge)                                 *)
ValueLine(m) == Sample(m.name, m.labels)

SumLine(m) == Sample(LineName(m.name, "_sum"), m.labels)

(* Bug: the line is named like the one before.                             *)
CountLineMisnamed(m) == Sample(LineName(m.name, "_sum"), m.labels)

CountLine(m) == Sample(LineName(m.name, "_count"), m.labels)

(* Bug: each bucket adds its le to the labels of the bucket before.        *)
WithLeSoFar(m, i) ==
  m.labels \o [k \in 1 .. i |-> <<"le", BoundText(m.bounds[k])>>]

(* Each bucket adds its le to a copy of the metric's labels.               *)
WithLe(m, i) == Append(m.labels, <<"le", BoundText(m.bounds[i])>>)

HistogramLines(m) ==
  [i \in 1 .. Len(m.bounds) |-> Sample(LineName(m.name, "_bucket"), WithLe(m, i))]
    \o <<SumLine(m), CountLine(m)>>

WithQuantile(m, i) == Append(m.labels, <<"quantile", SixDecimals(m.bounds[i])>>)

(* No quantile is printed of an empty window.                              *)
SummaryLines(m) ==
  (IF m.observed
     THEN [i \in 1 .. Len(m.bounds) |-> Sample(m.name, WithQuantile(m, i))]
     ELSE << >>)
    \o <<SumLine(m), CountLine(m)>>

MetricLines(m) ==
  CASE m.type \in {"counter", "gauge"} -> <<ValueLine(m)>>
    [] m.type = "histogram"            -> HistogramLines(m)
    [] m.type = "summary"              -> SummaryLines(m)

AllLines(metrics) == FlattenSeq([i \in 1 .. Len(metrics) |-> MetricLines(metrics[i])])

(* The help text is printed as it is: what follows a line break in it is a *)
(* line of its own.                                                        *)
FamilyLines(name) ==
  LET help == families[name].help
  IN  <<Comment("# HELP " \o name \o " " \o help[1])>>
        \o [i \in 1 .. Len(help) - 1 |-> Sample(help[i + 1], << >>)]
        \o <<Comment("# TYPE " \o name \o " " \o families[name].type)>>
        \o AllLines(families[name].metrics)

(* registry::serialize(): the families in an order of their own; an empty  *)
(* registry prints an empty line.                                          *)
RegistryLines ==
  LET names == SetToSeq(DOMAIN families)
      lines == FlattenSeq([i \in 1 .. Len(names) |-> FamilyLines(names[i])])
  IN  (IF lines = << >> THEN <<Comment("")>> ELSE lines) \o <<Comment("# EOF")>>

-----------------------------------------------------------------------------
(* Correctness                                                             *)

(* The type invariant: families are of the four types, and each metric has *)
(* the name and type of its family and bounds in ascending order, those of *)
(* a histogram up to +Inf.                                                 *)
TypeOK ==
  LET IsMetric(m) ==
        /\ m.type \in Types
        /\ m.name \in Names
        /\ m.labels \in LabelSets
        /\ \A i, j \in 1 .. Len(m.bounds) : i < j => m.bounds[i] <= m.bounds[j]
        /\ m.type = "histogram" => Last(m.bounds) = Infinity
  IN  /\ DOMAIN families \subseteq Names
      /\ \A n \in DOMAIN families : \A m \in Range(families[n].metrics) :
           IsMetric(m) /\ m.name = n /\ m.type = families[n].type
      /\ \A m \in Range(own) : IsMetric(m)

(* The series that a line names: the order of its labels does not matter.  *)
Series(line) == <<line.name, Range(line.labels)>>

LabelNames(labels) == {label[1] : label \in Range(labels)}

(* What a program must see to, for nothing in the library does.            *)
Reserved(m) == CASE m.type = "histogram" -> {"le"}
                 [] m.type = "summary"   -> {"quantile"}
                 [] OTHER                -> {}

LabelsCareful(metrics) ==
  \A m \in Range(metrics) :
    /\ Cardinality(LabelNames(m.labels)) = Len(m.labels)
    /\ LabelNames(m.labels) \cap Reserved(m) = {}

(* What is printed of the i-th bound or quantile.                          *)
Printed(m, i) ==
  IF m.type = "histogram" THEN BoundText(m.bounds[i]) ELSE SixDecimals(m.bounds[i])

(* No two metrics have the name and, in any order, the labels of another;  *)
(* no name is another with a suffix; no two bounds print alike.            *)
MetricsCareful(metrics) ==
  /\ \A i, j \in 1 .. Len(metrics) :
       i < j => Series(metrics[i]) # Series(metrics[j])
  /\ \A m, n \in Range(metrics) :
       m.name \notin {LineName(n.name, suffix) : suffix \in LineSuffixes}
  /\ \A m \in Range(metrics) :
       Cardinality({Printed(m, i) : i \in 1 .. Len(m.bounds)}) = Len(m.bounds)

Registered ==
  LET names == SetToSeq(DOMAIN families)
  IN  FlattenSeq([i \in 1 .. Len(names) |-> families[names[i]].metrics])

HelpsCareful == \A n \in DOMAIN families : Len(families[n].help) = 1

SeriesDiffer(lines) ==
  \A i, j \in 1 .. Len(lines) :
    i < j /\ lines[i].kind = "sample" /\ lines[j].kind = "sample" =>
      Series(lines[i]) # Series(lines[j])

(* An exposition names no series twice, if the program keeps clear of what *)
(* the library lets pass: labels given twice or in another order, a label  *)
(* called le or quantile, a family named like a line of another, bounds    *)
(* that print alike, a line break in a help text.                          *)
SeriesDistinct ==
  /\ LabelsCareful(Registered) /\ MetricsCareful(Registered) /\ HelpsCareful =>
       SeriesDiffer(RegistryLines)
  /\ LabelsCareful(own) /\ MetricsCareful(own) => SeriesDiffer(AllLines(own))

(* No line has a label twice, if no metric does or uses a reserved one:    *)
(* what is added for one bucket or quantile is gone for the next.          *)
LabelsDistinct ==
  \A metrics \in {Registered, own} :
    LabelsCareful(metrics) =>
      \A line \in Range(AllLines(metrics)) :
        Cardinality(LabelNames(line.labels)) = Len(line.labels)

=============================================================================
