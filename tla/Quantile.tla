------------------------------ MODULE Quantile ------------------------------
(***************************************************************************)
(* The pure parts of summaries and histograms: the sorted copy of a        *)
(* summary's observations (summary::sorted_observations), the index a      *)
(* quantile selects in it (metric_serializer::serialize(const summary&)),  *)
(* and the bounds a histogram makes of those it is given.                  *)
(*                                                                         *)
(* A quantile is an integer number of hundredths (50 stands for 0.5), so   *)
(* that quantile * (n - 1) is exact; the rounding of the double product is *)
(* not modelled.  Only its truncation to an integer is.                    *)
(***************************************************************************)
EXTENDS Integers, Sequences, FiniteSets

Smaller(a, b) == IF a < b THEN a ELSE b

(* The entries of the sequence s below v, and those up to v.               *)
Below(s, v) == {i \in 1 .. Len(s) : s[i] < v}
UpTo(s, v) == {i \in 1 .. Len(s) : s[i] <= v}

(* The sequence s in ascending order, as std::ranges::sort leaves it: its  *)
(* k-th entry has fewer than k entries below and at least k up to it.      *)
Sorted(s) ==
  [k \in 1 .. Len(s) |->
     CHOOSE v \in {s[i] : i \in 1 .. Len(s)} :
       Cardinality(Below(s, v)) < k /\ k <= Cardinality(UpTo(s, v))]

(* size_t(quantile * (n - 1)), then min with n - 1: a position from 0.     *)
(* The cast of a negative product at or below -1 is undefined behaviour,   *)
(* so every size_t may come out of it before the min.                      *)
QuantileIndexes(q, n) ==
  LET product == q * (n - 1)
  IN  IF product <= -100
        THEN 0 .. n - 1
        ELSE {Smaller(IF product < 0 THEN 0 ELSE product \div 100, n - 1)}

(* Bug: the bounds are not sorted.                                         *)
ConstructedUnsorted(given, infinity) ==
  IF given = << >> \/ given[Len(given)] # infinity
    THEN Append(given, infinity)
    ELSE given

(* A histogram sorts its bounds and adds +Inf if it is not the last.       *)
Constructed(given, infinity) ==
  LET sorted == Sorted(given)
  IN  IF sorted = << >> \/ sorted[Len(sorted)] # infinity
        THEN Append(sorted, infinity)
        ELSE sorted

=============================================================================
