--------------------------- MODULE SlidingWindow ---------------------------
(***************************************************************************)
(* What a summary promises about the observations it keeps ("quantiles     *)
(* over a sliding window", "pruned when exceeding max_observations"): one  *)
(* atomic object that holds the most recent observations in arrival order, *)
(* never more than Capacity of them, and gives up old ones only when it    *)
(* must, never more than half a window at a time and never the one that    *)
(* has just arrived.                                                       *)
(***************************************************************************)
EXTENDS Integers, Sequences

CONSTANTS Values,    (* the values that can be observed                    *)
          Capacity   (* the largest number of observations kept            *)

VARIABLE window

Init == window = << >>

(* v arrives; the `dropped' oldest observations leave.                     *)
Arrive(v) ==
  \E dropped \in 0 .. Capacity \div 2 :
    /\ dropped > 0 => Len(window) = Capacity
    /\ window' = SubSeq(Append(window, v), dropped + 1, Len(window) + 1)
    /\ Len(window') <= Capacity

Clear == window' = << >>

Next == Clear \/ \E v \in Values : Arrive(v)

Spec == Init /\ [][Next]_window

=============================================================================
