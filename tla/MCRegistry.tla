----------------------------- MODULE MCRegistry -----------------------------
(***************************************************************************)
(* Instances of Registry for TLC.                                          *)
(***************************************************************************)
EXTENDS Registry

(* A disciplined program interleaves less, so it may do more.              *)
SomeCalls == [disciplined \in BOOLEAN |-> IF disciplined THEN 6 ELSE 4]
SomeUpdates == [disciplined \in BOOLEAN |-> IF disciplined THEN 2 ELSE 1]

=============================================================================
