---------------------------- MODULE MCExposition ----------------------------
(***************************************************************************)
(* An instance of Exposition for TLC.                                      *)
(***************************************************************************)
EXTENDS Exposition

(* A family may be named like the line of another.                         *)
SomeNames == {"a", "a_sum"}

(* A help text of the other goes on, after a line break, like a line of a. *)
SomeHelps == ("a" :> {<<"help">>}) @@ ("a_sum" :> {<<"help">>, <<"help", "a">>})

(* No labels, two in either order, one twice, and the reserved ones.       *)
SomeLabels ==
  {<< >>, << <<"x", "1">>, <<"y", "2">> >>, << <<"y", "2">>, <<"x", "1">> >>,
   << <<"x", "1">>, <<"x", "1">> >>, << <<"le", "+Inf">> >>,
   << <<"quantile", "500000">> >>}

(* None, three out of order, of which two differ by a sign, two that print *)
(* alike, and +Inf before another.                                         *)
SomeGiven ==
  {<< >>, <<20000000, 4, -4>>, <<10000001, 10000002>>, <<Infinity, 5000000>>}

=============================================================================
