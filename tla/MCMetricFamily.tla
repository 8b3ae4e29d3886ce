--------------------------- MODULE MCMetricFamily ---------------------------
(***************************************************************************)
(* Instances of MetricFamily for TLC.                                      *)
(***************************************************************************)
EXTENDS MetricFamily

(* A disciplined program interleaves less, so it may call more.            *)
SomeCalls == [disciplined \in BOOLEAN |-> IF disciplined THEN 5 ELSE 4]

=============================================================================
