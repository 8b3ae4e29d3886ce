------------------------------ MODULE MCLabels ------------------------------
(***************************************************************************)
(* An instance of Labels for TLC.                                          *)
(***************************************************************************)
EXTENDS Labels, TLC

(* A valid name, and one with a character that is undefined for isalnum;   *)
(* an empty one, a reserved one, one that begins with a digit and one that *)
(* spells a label and the beginning of another.                            *)
SomeNames ==
  {<<"a">>, <<"_", "9", "e acute">>, << >>, <<"_", "_", "a">>, <<"9">>,
   <<"a", "=", "\"", "x", "\"", ",", "a">>}

(* A newline, its escape sequence spelt out, and a value that would end    *)
(* its label and begin another if its quotes were not escaped.             *)
SomeValues ==
  {<<"x">>, <<"\n">>, <<"\\", "n">>,
   <<"x", "\"", ",", "a", "=", "\"", "x">>}

(* None, two labels, and one that has an invalid name after a valid one.   *)
SomeLists ==
  LET a == [name |-> <<"a">>, value |-> <<"x">>]
  IN  {<< >>, <<a, [name |-> <<"_", "9", "e acute">>, value |-> <<"x">>]>>,
       <<a, [name |-> <<"9">>, value |-> <<"x">>]>>}

(* Objects are interchangeable.                                            *)
Symmetry == Permutations(Objects)

=============================================================================
