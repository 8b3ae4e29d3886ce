------------------------------- MODULE Labels -------------------------------
(***************************************************************************)
(* Label sets (labels.cpp) as a program builds, copies and prints them.    *)
(* metric_family::get_metric compares label sets by their text, and a      *)
(* scrape prints that text: so it must tell label sets apart, and the      *)
(* cached text must be that of the labels, whatever was added to a set or  *)
(* to its copy since.  A text, a name or a value is a sequence of          *)
(* characters.  One thread is at work; MetricFamily has the races.         *)
(***************************************************************************)
EXTENDS Naturals, SequencesExt

CONSTANTS
  Objects,     (* the labels objects                                       *)
  Alphabetic,  (* the characters isalpha accepts                           *)
  Numeric,     (* those that isalnum accepts in addition                   *)
  Foreign,     (* those that are negative as a char, of which isalpha and  *)
               (*   isalnum are undefined: in each call they accept some   *)
  Names,       (* label names, valid or not, that are given to add         *)
  Values,      (* label values                                             *)
  Lists,       (* lists of labels an object is constructed from            *)
  MaxLabels    (* bounds the model: number of labels in an object          *)

Label == [name : Names, value : Values]

ASSUME LabelsAssumption ==
  /\ Names \subseteq Seq(STRING)
  /\ Values \subseteq Seq(STRING)
  /\ Lists \subseteq Seq(Label)
  /\ MaxLabels \in Nat
  /\ (Alphabetic \cup Numeric \cup Foreign) \cap {"=", "\"", ","} = {}

VARIABLES
  labels,       (* _labels of each object                                  *)
  cachedString  (* _cached_string: an optional, as a sequence of 0 or 1    *)

vars == <<labels, cachedString>>

Init ==
  /\ labels = [o \in Objects |-> << >>]
  /\ cachedString = [o \in Objects |-> << >>]

-----------------------------------------------------------------------------

NameCharacters(accepted) == Alphabetic \cup Numeric \cup accepted \cup {"_", ":"}

(* The check of a name by isalpha and isalnum that accept, of the foreign  *)
(* characters, these.                                                      *)
IsValidLabelName(name, accepted) ==
  /\ name # << >>
  /\ ~IsPrefix(<<"_", "_">>, name)
  /\ name[1] \in Alphabetic \cup accepted \cup {"_", ":"}
  /\ \A i \in 1 .. Len(name) : name[i] \in NameCharacters(accepted)

(* Bug: a backslash is not escaped.                                        *)
EscapedButBackslash(c) ==
  CASE c = "\"" -> <<"\\", "\"">>
    [] c = "\n" -> <<"\\", "n">>
    [] c = "\t" -> <<"\\", "t">>
    [] c = "\r" -> <<"\\", "r">>
    [] OTHER    -> <<c>>

Escaped(c) ==
  CASE c = "\\" -> <<"\\", "\\">>
    [] c = "\"" -> <<"\\", "\"">>
    [] c = "\n" -> <<"\\", "n">>
    [] c = "\t" -> <<"\\", "t">>
    [] c = "\r" -> <<"\\", "r">>
    [] OTHER    -> <<c>>

EscapeValue(value) == FlattenSeq([i \in 1 .. Len(value) |-> Escaped(value[i])])

(* name="value", after a comma unless it is the first.                     *)
Pair(ls, i) ==
  (IF i > 1 THEN <<",">> ELSE << >>)
    \o ls[i].name \o <<"=", "\"">> \o EscapeValue(ls[i].value) \o <<"\"">>

Text(ls) ==
  IF ls = << >>
    THEN << >>
    ELSE <<"{">> \o FlattenSeq([i \in 1 .. Len(ls) |-> Pair(ls, i)]) \o <<"}">>

-----------------------------------------------------------------------------

(* Bug: the name is not checked.                                           *)
AddUnchecked(o, name, value) ==
  /\ Len(labels[o]) < MaxLabels
  /\ labels' = [labels EXCEPT ![o] = Append(@, [name |-> name, value |-> value])]
  /\ cachedString' = [cachedString EXCEPT ![o] = << >>]

(* Bug: the cached text outlives the addition.                             *)
AddKeepsCache(o, name, value) ==
  /\ Len(labels[o]) < MaxLabels
  /\ IsValidLabelName(name, {})
  /\ labels' = [labels EXCEPT ![o] = Append(@, [name |-> name, value |-> value])]
  /\ UNCHANGED cachedString

(* add(name, value) throws for an invalid name and changes nothing.        *)
Add(o, name, value) ==
  /\ Len(labels[o]) < MaxLabels
  /\ \E accepted \in SUBSET Foreign :
       \/ /\ ~IsValidLabelName(name, accepted)
          /\ UNCHANGED vars
       \/ /\ IsValidLabelName(name, accepted)
          /\ labels' =
               [labels EXCEPT ![o] = Append(@, [name |-> name, value |-> value])]
          /\ cachedString' = [cachedString EXCEPT ![o] = << >>]

(* The labels of a list, added to an object that is given to o once it is  *)
(* complete: an invalid name among them throws, and leaves o as it was.    *)
Construct(o, list) ==
  \E accepted \in SUBSET Foreign :
    \/ /\ \E i \in 1 .. Len(list) : ~IsValidLabelName(list[i].name, accepted)
       /\ UNCHANGED vars
    \/ /\ \A i \in 1 .. Len(list) : IsValidLabelName(list[i].name, accepted)
       /\ labels' = [labels EXCEPT ![o] = list]
       /\ cachedString' = [cachedString EXCEPT ![o] = << >>]

(* to_string() caches the text it builds.                                 *)
ToText(o) ==
  /\ cachedString' =
       [cachedString EXCEPT ![o] = IF @ = << >> THEN <<Text(labels[o])>> ELSE @]
  /\ UNCHANGED labels

(* A copy takes the cached text along, as in `labels lb = m.labels()',     *)
(* which the serializer then adds le or quantile to.                       *)
Copy(from, to) ==
  /\ labels' = [labels EXCEPT ![to] = labels[from]]
  /\ cachedString' = [cachedString EXCEPT ![to] = cachedString[from]]

(* operator==                                                              *)
Equal(o, other) == labels[o] = labels[other]

Next ==
  \E o \in Objects :
    \/ \E name \in Names, value \in Values : Add(o, name, value)
    \/ \E list \in Lists : Construct(o, list)
    \/ ToText(o)
    \/ \E to \in Objects : Copy(o, to)

Spec == Init /\ [][Next]_vars

-----------------------------------------------------------------------------
(* Correctness                                                             *)

(* The type invariant: an object holds labels whose names are made of the  *)
(* characters of a name, and at most one text.                             *)
TypeOK ==
  /\ labels \in [Objects -> Seq(Label)]
  /\ \A o \in Objects : \A i \in 1 .. Len(labels[o]) :
       LET name == labels[o][i].name
       IN  /\ name # << >>
           /\ \A k \in 1 .. Len(name) : name[k] \in NameCharacters(Foreign)
  /\ DOMAIN cachedString = Objects
  /\ \A o \in Objects : Len(cachedString[o]) \in {0, 1}

(* A cached text is that of the labels the object has now, although labels *)
(* are added after it was cached, to the object or to a copy of it.        *)
CacheCurrent ==
  \A o \in Objects :
    cachedString[o] # << >> => cachedString[o] = <<Text(labels[o])>>

(* Comparing texts, as get_metric does, is comparing labels: no value can  *)
(* spell the quotes, commas and escapes of other labels, nor can a name,   *)
(* whatever isalpha and isalnum make of the characters undefined for them. *)
TextIdentifies ==
  \A o, p \in Objects : (Text(labels[o]) = Text(labels[p])) <=> Equal(o, p)

=============================================================================
