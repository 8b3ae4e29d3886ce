---------------------------- MODULE MCPrometheus ----------------------------
(***************************************************************************)
(* Instances of Prometheus for TLC: a family of counters, of gauges and of *)
(* summaries, with one metric each.                                        *)
(***************************************************************************)
EXTENDS Prometheus

CONSTANTS t1, t2, t3, aCounter, aGauge, aSummary, counters, gauges, summaries

SomeMetrics ==
  (counters :> <<aCounter>>) @@ (gauges :> <<aGauge>>) @@ (summaries :> <<aSummary>>)

(* The counters and the summaries are walked in either order.              *)
SomeOrders ==
  {<<counters, summaries, gauges>>, <<summaries, counters, gauges>>}

(* One metric is updated; its summary takes an observe, a scrape and a     *)
(* reset at once.                                                          *)
SomePrograms ==
  {[updates |-> {aCounter}, callers |-> {t1, t2}, calls |-> 2],
   [updates |-> {aGauge}, callers |-> {t1, t2}, calls |-> 2],
   [updates |-> {aSummary}, callers |-> {t1, t2, t3}, calls |-> 3]}

SomeUpdates == (aCounter :> 2) @@ (aGauge :> 2)
SomeAmounts == {-1, 1, NaN}

=============================================================================
