---------------------------- MODULE MCHistogram ----------------------------
(***************************************************************************)
(* Instances of Histogram for TLC.                                         *)
(***************************************************************************)
EXTENDS Histogram, TLC

(* Observers are interchangeable, and so are scrapers and resetters.       *)
Symmetry ==
  Permutations(Observers) \cup Permutations(Scrapers) \cup Permutations(Resetters)

(* Two bounds out of order, so three buckets; where accesses may take any  *)
(* order, no bounds, and bounds out of order with +Inf: one bucket, two.   *)
SomeBounds ==
  [inOrder \in BOOLEAN |-> IF inOrder THEN {<<2, 1>>} ELSE {<< >>, <<9, 1>>}]

=============================================================================
