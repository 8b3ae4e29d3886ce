----------------------------- MODULE MCSummary -----------------------------
(***************************************************************************)
(* Instances of Summary for TLC.                                           *)
(***************************************************************************)
EXTENDS Summary

(* Out of order, as a caller may pass them to the constructor, with one    *)
(* above 1, whose index in a window of two the min cuts off.               *)
UnorderedQuantiles == <<200, 50, 100, 0>>

=============================================================================
