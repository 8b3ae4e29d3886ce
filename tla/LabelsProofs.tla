---------------------------- MODULE LabelsProofs ----------------------------
(***************************************************************************)
(* Theorems about Labels, for any objects, names, values and characters.   *)
(* That texts identify labels is proved by taking two texts apart from the *)
(* front: an escaped value ends where its quote is, a name where its sign  *)
(* is, and a label where the next comma or the closing brace is.           *)
(***************************************************************************)
EXTENDS Labels, BasicLemmas

NameAllowed(name) ==
  name # << >> /\ \A k \in 1 .. Len(name) : name[k] \in NameCharacters(Foreign)

(* The type invariant, as a property of each object by itself.             *)
ObjectOK(ls, cache) ==
  /\ \A i \in 1 .. Len(ls) : NameAllowed(ls[i].name)
  /\ Len(cache) \in {0, 1}

Typed ==
  /\ labels \in [Objects -> Seq(Label)]
  /\ DOMAIN cachedString = Objects
  /\ \A o \in Objects : ObjectOK(labels[o], cachedString[o])

(* The types of the objects, one by one, are the type invariant.           *)
LEMMA TypedIsTypeOK == Typed => TypeOK
BY DEF Typed, TypeOK, ObjectOK, NameAllowed

(* A name that passes the check of add is made of the characters of a      *)
(* name.                                                                   *)
LEMMA ValidIsAllowed ==
  ASSUME NEW name, NEW accepted \in SUBSET Foreign,
         IsValidLabelName(name, accepted)
  PROVE  NameAllowed(name)
BY DEF IsValidLabelName, NameAllowed, NameCharacters

(* Adding a label to a sequence of labels leaves a sequence of labels.     *)
LEMMA AppendedOK ==
  ASSUME NEW ls \in Seq(Label), NEW name \in Names, NEW value \in Values,
         \A i \in 1 .. Len(ls) : NameAllowed(ls[i].name),
         NameAllowed(name)
  PROVE  LET more == Append(ls, [name |-> name, value |-> value])
         IN  /\ more \in Seq(Label)
             /\ \A i \in 1 .. Len(more) : NameAllowed(more[i].name)
<1> DEFINE new == [name |-> name, value |-> value]
           more == Append(ls, new)
<1>1. new \in Label
  BY DEF Label
<1>2. more \in Seq(Label) /\ Len(more) = Len(ls) + 1 /\ Len(ls) \in Nat
  BY <1>1
<1>3. ASSUME NEW i \in 1 .. Len(more)
      PROVE  NameAllowed(more[i].name)
  <2>1. CASE i <= Len(ls)
    <3>1. more[i] = ls[i] /\ i \in 1 .. Len(ls)
      BY <1>1, <1>2, <2>1
    <3> QED BY <3>1
  <2>2. CASE i = Len(ls) + 1
    <3>1. more[i] = new
      BY <1>1, <1>2, <2>2
    <3>2. more[i].name = name
      BY <3>1
    <3> QED BY <3>2
  <2> QED BY <1>2, <2>1, <2>2
<1> QED BY <1>2, <1>3

-----------------------------------------------------------------------------
(* No step of a program puts a name into an object that is not allowed.    *)
LEMMA TypedInductive == Typed /\ [Next]_vars => Typed'
<1> SUFFICES ASSUME Typed, [Next]_vars
             PROVE  Typed'
  OBVIOUS
<1>1. ASSUME NEW o \in Objects, NEW name \in Names, NEW value \in Values,
             Add(o, name, value)
      PROVE  Typed'
  <2>1. CASE UNCHANGED vars
    BY <2>1 DEF Typed, vars
  <2>2. CASE ~UNCHANGED vars
    <3> DEFINE more == Append(labels[o], [name |-> name, value |-> value])
    <3>1. /\ labels' = [labels EXCEPT ![o] = more]
          /\ cachedString' = [cachedString EXCEPT ![o] = << >>]
          /\ NameAllowed(name)
      BY <1>1, <2>2, ValidIsAllowed DEF Add
    <3>2. /\ more \in Seq(Label)
          /\ \A i \in 1 .. Len(more) : NameAllowed(more[i].name)
      BY <3>1, AppendedOK DEF Typed, ObjectOK
    <3> HIDE DEF more
    <3>3. labels' \in [Objects -> Seq(Label)] /\ DOMAIN cachedString' = Objects
      BY <3>1, <3>2 DEF Typed
    <3>4. ObjectOK(more, << >>)
      BY <3>2 DEF ObjectOK
    <3>5. \A p \in Objects : ObjectOK(labels'[p], cachedString'[p])
      BY <3>1, <3>4 DEF Typed
    <3> QED BY <3>3, <3>5 DEF Typed
  <2> QED BY <2>1, <2>2
<1>2. ASSUME NEW o \in Objects, ToText(o)
      PROVE  Typed'
  <2> DEFINE cache == IF cachedString[o] = << >> THEN <<Text(labels[o])>>
                                                 ELSE cachedString[o]
  <2>1. /\ cachedString' = [cachedString EXCEPT ![o] = cache]
        /\ labels' = labels
    BY <1>2 DEF ToText
  <2>2. ObjectOK(labels[o], cache)
    BY DEF Typed, ObjectOK
  <2> HIDE DEF cache
  <2> QED BY <2>1, <2>2 DEF Typed
<1>3. ASSUME NEW from \in Objects, NEW to \in Objects, Copy(from, to)
      PROVE  Typed'
  BY <1>3 DEF Copy, Typed
<1>4. ASSUME NEW o \in Objects, NEW list \in Lists, Construct(o, list)
      PROVE  Typed'
  <2>1. CASE UNCHANGED vars
    BY <2>1 DEF Typed, vars
  <2>2. CASE ~UNCHANGED vars
    <3>1. PICK accepted \in SUBSET Foreign :
            /\ \A i \in 1 .. Len(list) : IsValidLabelName(list[i].name, accepted)
            /\ labels' = [labels EXCEPT ![o] = list]
            /\ cachedString' = [cachedString EXCEPT ![o] = << >>]
      BY <1>4, <2>2 DEF Construct
    <3>2. list \in Seq(Label)
      BY LabelsAssumption
    <3>3. ObjectOK(list, << >>)
      BY <3>1, ValidIsAllowed DEF ObjectOK
    <3> QED BY <3>1, <3>2, <3>3 DEF Typed
  <2> QED BY <2>1, <2>2
<1>5. CASE UNCHANGED vars
  BY <1>5 DEF Typed, vars
<1> QED BY <1>1, <1>2, <1>3, <1>4, <1>5 DEF Next

(* The type invariant of label sets: only names that a scrape can print    *)
(* without escaping get into an object, by addition or by copy.            *)
THEOREM TypeCorrect == Spec => []TypeOK
<1>1. Init => Typed
  BY DEF Init, Typed, ObjectOK
<1> QED BY <1>1, TypedInductive, TypedIsTypeOK, PTL DEF Spec

(* The text that get_metric compares and a scrape prints is never stale,   *)
(* in an object or in any chain of copies of it.                           *)
THEOREM CacheAlwaysCurrent == Spec => []CacheCurrent
<1>1. Init => CacheCurrent
  BY DEF Init, CacheCurrent
<1>2. TypeOK /\ CacheCurrent /\ [Next]_vars => CacheCurrent'
  <2> SUFFICES ASSUME TypeOK, CacheCurrent, [Next]_vars
               PROVE  CacheCurrent'
    OBVIOUS
  <2>1. ASSUME NEW o \in Objects, NEW name \in Names, NEW value \in Values,
               Add(o, name, value)
        PROVE  CacheCurrent'
    BY <2>1 DEF Add, TypeOK, CacheCurrent, vars
  <2>2. ASSUME NEW o \in Objects, ToText(o)
        PROVE  CacheCurrent'
    BY <2>2 DEF ToText, TypeOK, CacheCurrent
  <2>3. ASSUME NEW from \in Objects, NEW to \in Objects, Copy(from, to)
        PROVE  CacheCurrent'
    BY <2>3 DEF Copy, TypeOK, CacheCurrent
  <2>4. ASSUME NEW o \in Objects, NEW list \in Lists, Construct(o, list)
        PROVE  CacheCurrent'
    BY <2>4 DEF Construct, TypeOK, CacheCurrent, vars
  <2>5. CASE UNCHANGED vars
    BY <2>5 DEF CacheCurrent, vars
  <2> QED BY <2>1, <2>2, <2>3, <2>4, <2>5 DEF Next
<1> QED BY <1>1, <1>2, TypeCorrect, PTL DEF Spec

-----------------------------------------------------------------------------
(* Texts.                                                                  *)

(* Sequences of one and of two elements.                                   *)
LEMMA OneAndTwo ==
  ASSUME NEW S, NEW c \in S, NEW d \in S
  PROVE  /\ <<c>> \in Seq(S) /\ Len(<<c>>) = 1 /\ <<c>>[1] = c
         /\ <<c, d>> \in Seq(S) /\ Len(<<c, d>>) = 2 /\ <<c, d>>[1] = c /\ <<c, d>>[2] = d
OBVIOUS

(* Joining, by a name of its own for the provers to match.                 *)
Joined(a, b) == a \o b

(* Sequences that begin alike go on alike.                                 *)
LEMMA SameStart ==
  ASSUME NEW S, NEW p \in Seq(S), NEW q \in Seq(S), Len(p) = Len(q),
         NEW a \in Seq(S), NEW b \in Seq(S), Joined(p, a) = Joined(q, b)
  PROVE  p = q /\ a = b
<1>0. p \o a = q \o b
  BY DEF Joined
<1>1. /\ \A i \in 1 .. Len(p) + Len(a) :
           (p \o a)[i] = IF i <= Len(p) THEN p[i] ELSE a[i - Len(p)]
      /\ \A i \in 1 .. Len(q) + Len(b) :
           (q \o b)[i] = IF i <= Len(q) THEN q[i] ELSE b[i - Len(q)]
      /\ Len(p \o a) = Len(p) + Len(a) /\ Len(q \o b) = Len(q) + Len(b)
      /\ Len(p) \in Nat /\ Len(a) \in Nat /\ Len(b) \in Nat
  BY ConcatProperties, LenProperties
<1>2. Len(a) = Len(b)
  BY <1>0, <1>1
<1>3. ASSUME NEW i \in 1 .. Len(p) PROVE p[i] = q[i]
  <2>1. i \in 1 .. Len(p) + Len(a) /\ i \in 1 .. Len(q) + Len(b) /\ i <= Len(p)
    BY <1>1
  <2> QED
    BY <1>0, <1>1, <2>1
<1>4. ASSUME NEW i \in 1 .. Len(a) PROVE a[i] = b[i]
  <2> DEFINE k == Len(p) + i
  <2>1. /\ k \in 1 .. Len(p) + Len(a) /\ k \in 1 .. Len(q) + Len(b)
        /\ ~(k <= Len(p)) /\ k - Len(p) = i
    BY <1>1, <1>2
  <2> HIDE DEF k
  <2> QED
    BY <1>0, <1>1, <2>1
<1> QED
  BY <1>2, <1>3, <1>4, SeqEqual

(* What begins with c.                                                     *)
LEMMA Begins ==
  ASSUME NEW S, NEW c \in S, NEW a \in Seq(S)
  PROVE  /\ <<c>> \o a \in Seq(S) /\ (<<c>> \o a)[1] = c
         /\ Len(<<c>> \o a) = 1 + Len(a) /\ Len(a) \in Nat
<1> DEFINE one == <<c>>
<1>1. one \in Seq(S) /\ Len(one) = 1 /\ one[1] = c
  BY OneAndTwo
<1> HIDE DEF one
<1>2. Len(a) \in Nat
  BY LenProperties
<1>3. 1 \in 1 .. Len(one) + Len(a) /\ 1 <= Len(one)
  BY <1>1, <1>2
<1>4. one \o a \in Seq(S) /\ (one \o a)[1] = c /\ Len(one \o a) = 1 + Len(a)
  BY <1>1, <1>3, ConcatProperties
<1> QED
  BY <1>2, <1>4 DEF one

(* Two names that do not hold c are told apart by what comes up to the     *)
(* first c.                                                                *)
LEMMA ShorterName ==
  ASSUME NEW S, NEW n \in Seq(S), NEW m \in Seq(S), NEW x \in Seq(S), NEW y \in Seq(S),
         \A i \in 1 .. Len(m) : m[i] # x[1], Len(x) > 0, n \o x = m \o y
  PROVE  Len(m) <= Len(n)
<1>1. /\ Len(n) \in Nat /\ Len(m) \in Nat /\ Len(x) \in Nat /\ Len(y) \in Nat
      /\ Len(n \o x) = Len(n) + Len(x) /\ Len(m \o y) = Len(m) + Len(y)
      /\ \A i \in 1 .. Len(n) + Len(x) :
           (n \o x)[i] = IF i <= Len(n) THEN n[i] ELSE x[i - Len(n)]
      /\ \A i \in 1 .. Len(m) + Len(y) :
           (m \o y)[i] = IF i <= Len(m) THEN m[i] ELSE y[i - Len(m)]
  BY ConcatProperties, LenProperties
<1>2. SUFFICES ASSUME Len(n) < Len(m) PROVE FALSE
  BY <1>1
<1> DEFINE k == Len(n) + 1
<1>3. /\ k \in 1 .. Len(n) + Len(x) /\ k \in 1 .. Len(m) + Len(y)
      /\ ~(k <= Len(n)) /\ k - Len(n) = 1 /\ k \in 1 .. Len(m) /\ k <= Len(m)
  BY <1>1, <1>2
<1> HIDE DEF k
<1>4. (n \o x)[k] = x[1] /\ (m \o y)[k] = m[k]
  BY <1>1, <1>3
<1> QED
  BY <1>3, <1>4

(* What comes after the same character is the same.                        *)
LEMMA SameAfter ==
  ASSUME NEW S, NEW c \in S, NEW a \in Seq(S), NEW b \in Seq(S), <<c>> \o a = <<c>> \o b
  PROVE  a = b
<1> DEFINE p == <<c>>
<1>1. p \in Seq(S)
  BY OneAndTwo
<1>2. Joined(p, a) = Joined(p, b)
  BY DEF Joined
<1> HIDE DEF p
<1> QED
  BY <1>1, <1>2, SameStart

(* p, then the character c, then a.                                        *)
Followed(p, c, a) == p \o (<<c>> \o a)

(* No element of p is c.                                                   *)
Lacks(p, c) == \A i \in 1 .. Len(p) : p[i] # c

(* A name ends at the first c, when it holds none itself.                  *)
LEMMA NamesEnd ==
  ASSUME NEW S, NEW n \in Seq(S), NEW m \in Seq(S), NEW c \in S,
         Lacks(n, c), Lacks(m, c),
         NEW a \in Seq(S), NEW b \in Seq(S),
         Followed(n, c, a) = Followed(m, c, b)
  PROVE  n = m /\ a = b
<1> DEFINE x == <<c>> \o a
           y == <<c>> \o b
<1>1. /\ x \in Seq(S) /\ x[1] = c /\ Len(x) > 0
      /\ y \in Seq(S) /\ y[1] = c /\ Len(y) > 0
  BY Begins
<1>2. n \o x = m \o y
  BY DEF Followed
<1> HIDE DEF x, y
<1>3. Len(m) <= Len(n) /\ Len(n) <= Len(m)
  BY <1>1, <1>2, ShorterName DEF Lacks
<1>4. Len(n) = Len(m)
  BY <1>3, LenProperties
<1>5. n = m /\ x = y
  <2>1. x \in Seq(S) /\ y \in Seq(S)
    BY <1>1
  <2>2. Joined(n, x) = Joined(m, y)
    BY <1>2 DEF Joined
  <2> QED
    BY ONLY <1>4, <2>1, <2>2, n \in Seq(S), m \in Seq(S), SameStart
<1>6. <<c>> \o a = <<c>> \o b
  BY <1>5 DEF x, y
<1> QED
  BY <1>5, <1>6, SameAfter

-----------------------------------------------------------------------------
(* Escapes.                                                                *)

Special == {"\\", "\"", "\n", "\t", "\r"}

(* The characters of texts.                                                *)
Characters == STRING \cup Special \cup {"n", "t", "r", "=", ",", "{", "}"}

(* The escape of a character is the character, or a backslash and a letter *)
(* that no other has.                                                      *)
Letter(c) ==
  CASE c = "\n" -> "n"
    [] c = "\t" -> "t"
    [] c = "\r" -> "r"
    [] OTHER    -> c

(* What a character is escaped by: itself, or a backslash and its letter.  *)
LEMMA EscapedFacts ==
  ASSUME NEW c \in Characters
  PROVE  /\ Escaped(c) \in Seq(Characters)
         /\ c \notin Special =>
              Len(Escaped(c)) = 1 /\ Escaped(c)[1] = c /\ c # "\\" /\ c # "\""
         /\ c \in Special =>
              Len(Escaped(c)) = 2 /\ Escaped(c)[1] = "\\" /\ Escaped(c)[2] = Letter(c)
<1>1. "\\" \in Characters /\ Letter(c) \in Characters
  BY DEF Characters, Special, Letter
<1>2. CASE c \notin Special
  <2>1. Escaped(c) = <<c>> /\ c # "\\" /\ c # "\""
    BY <1>2 DEF Escaped, Special
  <2> QED
    BY <1>2, <2>1, OneAndTwo
<1>3. CASE c \in Special
  <2>1. Escaped(c) = <<"\\", Letter(c)>>
    BY <1>3 DEF Escaped, Special, Letter
  <2> QED
    BY <1>1, <1>3, <2>1, OneAndTwo
<1> QED
  BY <1>2, <1>3

(* No two characters are escaped by the same letter.                       *)
LEMMA LettersDiffer ==
  ASSUME NEW c \in Special, NEW d \in Special, Letter(c) = Letter(d)
  PROVE  c = d
BY DEF Letter, Special

(* Escapes form a prefix-free code.                                        *)
LEMMA EscapedEnds ==
  ASSUME NEW c \in Characters, NEW d \in Characters,
         NEW a \in Seq(Characters), NEW b \in Seq(Characters),
         Escaped(c) \o a = Escaped(d) \o b
  PROVE  c = d /\ a = b
<1> DEFINE p == Escaped(c)
           q == Escaped(d)
<1>1. /\ p \in Seq(Characters) /\ q \in Seq(Characters)
      /\ c \notin Special => Len(p) = 1 /\ p[1] = c /\ c # "\\"
      /\ d \notin Special => Len(q) = 1 /\ q[1] = d /\ d # "\\"
      /\ c \in Special => Len(p) = 2 /\ p[1] = "\\" /\ p[2] = Letter(c)
      /\ d \in Special => Len(q) = 2 /\ q[1] = "\\" /\ q[2] = Letter(d)
  BY EscapedFacts
<1>2. p \o a = q \o b
  OBVIOUS
<1> HIDE DEF p, q
<1>3. (p \o a)[1] = p[1] /\ (q \o b)[1] = q[1]
  <2>1. Len(a) \in Nat /\ Len(b) \in Nat
    BY LenProperties
  <2>2. 1 \in 1 .. Len(p) + Len(a) /\ 1 \in 1 .. Len(q) + Len(b) /\ 1 <= Len(p) /\ 1 <= Len(q)
    BY <1>1, <2>1
  <2> QED
    BY <1>1, <2>2, ConcatProperties
<1>4. c \in Special <=> d \in Special
  BY <1>1, <1>2, <1>3
<1>5. Len(p) = Len(q)
  BY <1>1, <1>4
<1>6. p = q /\ a = b
  <2>1. Joined(p, a) = Joined(q, b)
    BY <1>2 DEF Joined
  <2> QED
    BY ONLY <1>1, <1>5, <2>1, a \in Seq(Characters), b \in Seq(Characters), SameStart
<1> QED
  BY <1>1, <1>4, <1>6, LettersDiffer

-----------------------------------------------------------------------------
(* Flattened sequences, taken apart from the front.                        *)

(* The first n elements of ss with x after them come to w: h[k] is what    *)
(* they come to from the k-th on.                                          *)
Unrolls(h, ss, n, x, w, S) ==
  /\ h \in [1 .. n + 1 -> Seq(S)]
  /\ h[1] = w
  /\ h[n + 1] = x
  /\ \A k \in 1 .. n : h[k] = ss[k] \o h[k + 1]

(* One element more is unrolled from what the elements before come with.   *)
LEMMA UnrollsMore ==
  ASSUME NEW S, NEW n \in Nat, NEW ss, NEW x \in Seq(S), NEW w, NEW h,
         Unrolls(h, ss, n, ss[n + 1] \o x, w, S)
  PROVE  \E l : Unrolls(l, ss, n + 1, x, w, S)
<1> DEFINE m == n + 1
           l == [k \in 1 .. m + 1 |-> IF k = m + 1 THEN x ELSE h[k]]
<1>1. /\ m \in Nat /\ m + 1 \in 1 .. m + 1 /\ 1 \in 1 .. m /\ m \in 1 .. m
      /\ \A k \in 1 .. m : k \in 1 .. m + 1 /\ k # m + 1
  OBVIOUS
<1>2. /\ h \in [1 .. m -> Seq(S)] /\ h[1] = w /\ h[m] = ss[m] \o x
      /\ \A k \in 1 .. n : h[k] = ss[k] \o h[k + 1]
  BY DEF Unrolls
<1>3. l \in [1 .. m + 1 -> Seq(S)]
  BY <1>1, <1>2
<1>4. l[m + 1] = x /\ \A k \in 1 .. m : l[k] = h[k]
  BY <1>1
<1> HIDE DEF l
<1>5. ASSUME NEW k \in 1 .. m PROVE l[k] = ss[k] \o l[k + 1]
  <2>1. CASE k = m
    BY <1>1, <1>2, <1>4, <2>1
  <2>2. CASE k # m
    <3>1. k \in 1 .. n /\ k + 1 \in 1 .. m
      BY <2>2
    <3> QED
      BY <1>2, <1>4, <3>1
  <2> QED
    BY <2>1, <2>2
<1>6. l[1] = w
  BY <1>1, <1>2, <1>4
<1>7. Unrolls(l, ss, m, x, w, S)
  BY <1>3, <1>4, <1>5, <1>6 DEF Unrolls
<1> QED
  BY <1>7

(* Some h unrolls the first n elements, whatever comes after them.         *)
Unrolling(ss, n, p, S) ==
  \A x \in Seq(S) : \E h : Unrolls(h, ss, n, x, p \o x, S)

(* One element more, appended to what the elements before come to.         *)
LEMMA UnrollingMore ==
  ASSUME NEW S, NEW n \in Nat, NEW ss, NEW p \in Seq(S), ss[n + 1] \in Seq(S),
         Unrolling(ss, n, p, S)
  PROVE  Unrolling(ss, n + 1, p \o ss[n + 1], S)
<1> SUFFICES ASSUME NEW x \in Seq(S)
             PROVE  \E l : Unrolls(l, ss, n + 1, x, (p \o ss[n + 1]) \o x, S)
  BY DEF Unrolling
<1> DEFINE q == ss[n + 1]
<1>1. q \in Seq(S) /\ q \o x \in Seq(S)
  BY ConcatProperties
<1>2. PICK h : Unrolls(h, ss, n, q \o x, p \o (q \o x), S)
  BY <1>1 DEF Unrolling
<1> HIDE DEF q
<1>3. (p \o q) \o x = p \o (q \o x)
  BY <1>1, ConcatAssociative
<1>4. Unrolls(h, ss, n, q \o x, (p \o q) \o x, S)
  BY <1>2, <1>3
<1> QED
  BY <1>4, UnrollsMore DEF q

(* A flattened sequence comes apart into its elements.                     *)
LEMMA FlattenUnrolls ==
  ASSUME NEW S, NEW ss \in Seq(Seq(S))
  PROVE  FlattenSeq(ss) \in Seq(S) /\ Unrolling(ss, Len(ss), FlattenSeq(ss), S)
<1> DEFINE n == Len(ss)
<1>1. n \in Nat /\ \A k \in 1 .. n : ss[k] \in Seq(S)
  OBVIOUS
<1>2. Unrolling(ss, 0, << >>, S)
  <2> SUFFICES ASSUME NEW x \in Seq(S)
               PROVE  \E h : Unrolls(h, ss, 0, x, << >> \o x, S)
    BY DEF Unrolling
  <2> DEFINE h == [k \in 1 .. 1 |-> x]
  <2>1. << >> \o x = x
    BY ConcatEmptySeq
  <2>2. Unrolls(h, ss, 0, x, x, S)
    BY DEF Unrolls
  <2> QED
    BY <2>1, <2>2
<1>3. CASE n = 0
  <2>1. FlattenSeq(ss) = << >> /\ << >> \in Seq(S)
    BY <1>3 DEF FlattenSeq
  <2> QED
    BY <1>2, <1>3, <2>1
<1>4. CASE n # 0
  <2>1. PICK g : Flattens(g, ss, n) /\ FlattenSeq(ss) = g[n]
    <3>1. FlattenSeq(ss) = Flattening(ss)[n]
      BY <1>4 DEF FlattenSeq, Flattening
    <3> QED
      BY <1>1, <3>1, FlatteningFlattens
  <2>2. \A i \in 1 .. n : g[i] = IF i = 1 THEN ss[i] ELSE g[i - 1] \o ss[i]
    BY <2>1 DEF Flattens
  <2> HIDE DEF n
  <2> DEFINE p(m) == IF m = 0 THEN << >> ELSE g[m]
             Bad == {m \in 0 .. n : ~(p(m) \in Seq(S) /\ Unrolling(ss, m, p(m), S))}
  <2>3. SUFFICES ASSUME Bad # {} PROVE FALSE
    <3>1. n \in 0 .. n
      BY <1>1
    <3> QED
      BY <1>4, <2>1, <3>1 DEF n
  <2>4. PICK m \in Bad : \A k \in Bad : m <= k
    <3>1. Bad \in SUBSET Nat
      BY <1>1
    <3> QED
      BY <2>3, <3>1, NatMinimum
  <2>5. m # 0
    BY <1>2, EmptySeq
  <2> DEFINE k == m - 1
  <2>6. k \in 0 .. n /\ ~(m <= k) /\ k \in Nat /\ k + 1 = m /\ m \in 1 .. n
    BY <1>1, <2>5
  <2> HIDE DEF k
  <2>7. p(k) \in Seq(S) /\ Unrolling(ss, k, p(k), S) /\ ss[m] \in Seq(S)
    BY <1>1, <2>4, <2>6
  <2>8. p(m) = p(k) \o ss[m]
    <3>1. CASE k = 0
      BY <2>2, <2>6, <2>7, <3>1, ConcatEmptySeq
    <3>2. CASE k # 0
      <4>1. m # 1 /\ m # 0 /\ k = m - 1
        BY <2>6, <3>2
      <4>2. g[m] = g[k] \o ss[m]
        BY <2>2, <2>6, <4>1
      <4> QED
        BY <3>2, <4>1, <4>2
    <3> QED
      BY <3>1, <3>2
  <2> HIDE DEF p
  <2>9. p(m) \in Seq(S)
    BY <2>7, <2>8, ConcatProperties
  <2>10. Unrolling(ss, k + 1, p(k) \o ss[k + 1], S)
    BY <2>6, <2>7, UnrollingMore
  <2> QED
    BY <2>6, <2>8, <2>9, <2>10
<1> QED
  BY <1>3, <1>4

(* What begins with a piece of the one and what begins with a piece of the *)
(* other, in the same place, are only the same if the rest is.             *)
PrefixFree(ss, ts, n, m, S) ==
  \A i \in 1 .. n : i <= m =>
    \A a, b \in Seq(S) : ss[i] \o a = ts[i] \o b => a = b

(* After n pieces, x is not what the pieces go on with.                    *)
Ends(n, x, ts, m, S) == n < m => \A b \in Seq(S) : ts[n + 1] \o b # x

Alike(ss, ts, n, S) ==
  \A i \in 1 .. n : \E a, b \in Seq(S) : ss[i] \o a = ts[i] \o b

(* Two texts that are flattened from pieces of a prefix-free code have the *)
(* same number of pieces, if none goes on where the other ends.            *)
LEMMA PiecesAgree ==
  ASSUME NEW S, NEW n \in Nat, NEW m \in Nat, NEW ss, NEW ts,
         NEW x \in Seq(S), NEW y \in Seq(S), NEW h, NEW l,
         NEW w, Unrolls(h, ss, n, x, w, S), Unrolls(l, ts, m, y, w, S),
         PrefixFree(ss, ts, n, m, S), Ends(n, x, ts, m, S), Ends(m, y, ss, n, S)
  PROVE  n = m /\ x = y /\ Alike(ss, ts, n, S)
<1>1. /\ h \in [1 .. n + 1 -> Seq(S)] /\ h[n + 1] = x /\ h[1] = l[1]
      /\ \A k \in 1 .. n : h[k] = ss[k] \o h[k + 1]
      /\ l \in [1 .. m + 1 -> Seq(S)] /\ l[m + 1] = y
      /\ \A k \in 1 .. m : l[k] = ts[k] \o l[k + 1]
  BY DEF Unrolls
<1>2. ASSUME NEW k \in 1 .. n + 1, k <= m + 1, h[k] # l[k] PROVE FALSE
  <2> DEFINE Bad == {j \in 1 .. n + 1 : j <= m + 1 /\ h[j] # l[j]}
  <2>1. PICK j \in Bad : \A i \in Bad : j <= i
    <3>1. Bad \in SUBSET Nat /\ Bad # {}
      BY <1>2
    <3> QED
      BY <3>1, NatMinimum
  <2>2. j \in 1 .. n + 1 /\ j <= m + 1 /\ h[j] # l[j] /\ j # 1
    BY <1>1
  <2> DEFINE i == j - 1
  <2>3. /\ i \in 1 .. n /\ i \in 1 .. m /\ i + 1 = j /\ ~(j <= i) /\ i <= m
        /\ i \in 1 .. n + 1 /\ i <= m + 1 /\ j \in 1 .. m + 1
    BY <2>2
  <2> HIDE DEF i
  <2>4. h[i] = l[i]
    BY <2>1, <2>3
  <2>5. ss[i] \o h[j] = ts[i] \o l[j]
    BY <1>1, <2>3, <2>4
  <2>6. h[j] \in Seq(S) /\ l[j] \in Seq(S)
    BY <1>1, <2>2, <2>3
  <2> QED
    BY <2>2, <2>3, <2>5, <2>6 DEF PrefixFree
<1>3. ~(n < m)
  <2> SUFFICES ASSUME n < m PROVE FALSE
    OBVIOUS
  <2>1. /\ n + 1 \in 1 .. n + 1 /\ n + 1 <= m + 1 /\ n + 1 \in 1 .. m
        /\ n + 1 + 1 \in 1 .. m + 1
    OBVIOUS
  <2>2. x = l[n + 1]
    BY <1>1, <1>2, <2>1
  <2>3. l[n + 1] = ts[n + 1] \o l[n + 1 + 1] /\ l[n + 1 + 1] \in Seq(S)
    BY <1>1, <2>1
  <2> QED
    BY <2>2, <2>3 DEF Ends
<1>4. ~(m < n)
  <2> SUFFICES ASSUME m < n PROVE FALSE
    OBVIOUS
  <2>1. /\ m + 1 \in 1 .. n + 1 /\ m + 1 <= m + 1 /\ m + 1 \in 1 .. n
        /\ m + 1 + 1 \in 1 .. n + 1
    OBVIOUS
  <2>2. h[m + 1] = y
    BY <1>1, <1>2, <2>1
  <2>3. h[m + 1] = ss[m + 1] \o h[m + 1 + 1] /\ h[m + 1 + 1] \in Seq(S)
    BY <1>1, <2>1
  <2> QED
    BY <2>2, <2>3 DEF Ends
<1>5. n = m
  BY <1>3, <1>4
<1>6. n + 1 \in 1 .. n + 1 /\ n + 1 <= m + 1
  BY <1>5
<1>7. x = y
  BY <1>1, <1>2, <1>5, <1>6
<1>8. ASSUME NEW i \in 1 .. n
      PROVE  \E a, b \in Seq(S) : ss[i] \o a = ts[i] \o b
  <2>1. i \in 1 .. n + 1 /\ i <= m + 1 /\ i \in 1 .. m /\ i + 1 \in 1 .. n + 1 /\ i + 1 \in 1 .. m + 1
    BY <1>5
  <2>2. h[i] = l[i]
    BY <1>2, <2>1
  <2>3. h[i] = ss[i] \o h[i + 1] /\ l[i] = ts[i] \o l[i + 1]
    BY <1>1, <2>1
  <2>4. h[i + 1] \in Seq(S) /\ l[i + 1] \in Seq(S)
    BY <1>1, <2>1
  <2>5. ss[i] \o h[i + 1] = ts[i] \o l[i + 1]
    BY <2>2, <2>3
  <2> QED
    BY <2>4, <2>5
<1> QED
  BY <1>5, <1>7, <1>8 DEF Alike

-----------------------------------------------------------------------------
(* Values and labels.                                                      *)

(* An escaped value, its closing quote and what comes after.               *)
Quoted(u, a) == Followed(EscapeValue(u), "\"", a)

(* Escaped values with the closing quote after them: no value goes on.     *)
LEMMA ValuesEnd ==
  ASSUME NEW u \in Seq(Characters), NEW v \in Seq(Characters),
         NEW a \in Seq(Characters), NEW b \in Seq(Characters),
         Quoted(u, a) = Quoted(v, b)
  PROVE  u = v /\ a = b
<1> DEFINE C == Characters
           n == Len(u)
           m == Len(v)
           us == [i \in 1 .. n |-> Escaped(u[i])]
           vs == [i \in 1 .. m |-> Escaped(v[i])]
           x == <<"\"">> \o a
           y == <<"\"">> \o b
<1> HIDE DEF C
<1>1. n \in Nat /\ m \in Nat
  BY LenProperties
<1>2. /\ \A i \in 1 .. n : u[i] \in Characters
      /\ \A i \in 1 .. m : v[i] \in Characters
  BY ElementOfSeq
<1>3. /\ \A i \in 1 .. n : Escaped(u[i]) \in Seq(C)
      /\ \A i \in 1 .. m : Escaped(v[i]) \in Seq(C)
  BY <1>2, EscapedFacts DEF C
<1> HIDE DEF n, m
<1>4. /\ us \in Seq(Seq(C)) /\ Len(us) = n /\ \A i \in 1 .. n : us[i] = Escaped(u[i])
      /\ vs \in Seq(Seq(C)) /\ Len(vs) = m /\ \A i \in 1 .. m : vs[i] = Escaped(v[i])
  BY ONLY <1>1, <1>3
<1>5. "\"" \in C /\ a \in Seq(C) /\ b \in Seq(C)
  BY DEF C, Characters, Special
<1>6. /\ x \in Seq(C) /\ x[1] = "\"" /\ y \in Seq(C) /\ y[1] = "\""
  BY <1>5, Begins
<1>7. EscapeValue(u) = FlattenSeq(us) /\ EscapeValue(v) = FlattenSeq(vs)
  BY DEF EscapeValue, n, m
<1>8. FlattenSeq(us) \o x = FlattenSeq(vs) \o y
  BY <1>7 DEF Quoted, Followed
<1> DEFINE w == FlattenSeq(us) \o x
<1> HIDE DEF us, vs, x, y
<1>9. Unrolling(us, n, FlattenSeq(us), C) /\ Unrolling(vs, m, FlattenSeq(vs), C)
  BY <1>4, FlattenUnrolls
<1>10. PICK h : Unrolls(h, us, n, x, w, C)
  BY <1>6, <1>9 DEF Unrolling
<1>11. PICK l : Unrolls(l, vs, m, y, w, C)
  BY <1>6, <1>8, <1>9 DEF Unrolling
<1> HIDE DEF w
<1>12. ASSUME NEW i \in 1 .. n, i <= m, NEW e \in Seq(C), NEW f \in Seq(C),
              us[i] \o e = vs[i] \o f
       PROVE  u[i] = v[i] /\ e = f
  <2>1. i \in 1 .. m
    BY ONLY <1>1, i \in 1 .. n, i <= m
  <2> DEFINE c == u[i]
             d == v[i]
  <2>2. Escaped(c) \o e = Escaped(d) \o f
    BY <1>4, <1>12, <2>1
  <2>3. c \in Characters /\ d \in Characters
    BY <1>2, <2>1
  <2> HIDE DEF c, d
  <2>4. e \in Seq(Characters) /\ f \in Seq(Characters)
    BY DEF C
  <2>5. c = d /\ e = f
    BY ONLY <2>2, <2>3, <2>4, EscapedEnds
  <2> QED
    BY <2>5 DEF c, d
<1>13. ASSUME NEW c \in Characters, NEW e \in Seq(C)
       PROVE  (Escaped(c) \o e)[1] # "\""
  <2> DEFINE p == Escaped(c)
  <2>1. p \in Seq(C) /\ Len(p) \in {1, 2} /\ p[1] # "\""
    BY EscapedFacts DEF C, Special
  <2> HIDE DEF p
  <2>2. Len(e) \in Nat
    BY LenProperties
  <2>3. Len(p) = 1 \/ Len(p) = 2
    BY ONLY <2>1
  <2>4. 1 \in 1 .. Len(p) + Len(e) /\ 1 <= Len(p)
    <3>1. CASE Len(p) = 1
      BY ONLY <2>2, <3>1
    <3>2. CASE Len(p) = 2
      BY ONLY <2>2, <3>2
    <3> QED
      BY <2>3, <3>1, <3>2
  <2>5. (p \o e)[1] = p[1]
    BY <2>1, <2>4, ConcatProperties
  <2> QED
    BY <2>1, <2>5 DEF p
<1>14. Ends(n, x, vs, m, C)
  <2> SUFFICES ASSUME n < m, NEW f \in Seq(C), vs[n + 1] \o f = x PROVE FALSE
    BY DEF Ends
  <2>1. n + 1 \in 1 .. m
    BY ONLY <1>1, n < m
  <2>2. vs[n + 1] = Escaped(v[n + 1]) /\ v[n + 1] \in Characters
    BY <1>2, <1>4, <2>1
  <2> QED
    BY <1>6, <1>13, <2>2
<1>15. Ends(m, y, us, n, C)
  <2> SUFFICES ASSUME m < n, NEW e \in Seq(C), us[m + 1] \o e = y PROVE FALSE
    BY DEF Ends
  <2>1. m + 1 \in 1 .. n
    BY ONLY <1>1, m < n
  <2>2. us[m + 1] = Escaped(u[m + 1]) /\ u[m + 1] \in Characters
    BY <1>2, <1>4, <2>1
  <2> QED
    BY <1>6, <1>13, <2>2
<1>16. PrefixFree(us, vs, n, m, C)
  BY <1>12 DEF PrefixFree
<1>17. n = m /\ x = y /\ Alike(us, vs, n, C)
  BY ONLY <1>1, <1>6, <1>10, <1>11, <1>14, <1>15, <1>16, PiecesAgree
<1>18. \A i \in 1 .. n : u[i] = v[i]
  <2> SUFFICES ASSUME NEW i \in 1 .. n PROVE u[i] = v[i]
    OBVIOUS
  <2>1. i <= m
    BY ONLY <1>1, <1>17, i \in 1 .. n
  <2> QED
    BY <1>12, <1>17, <2>1 DEF Alike
<1>19. u = v
  BY <1>17, <1>18, SeqEqual DEF n, m
<1>20. a = b
  <2>1. <<"\"">> \o a = <<"\"">> \o b
    BY <1>17 DEF x, y
  <2> QED
    BY ONLY <1>5, <2>1, SameAfter
<1> QED
  BY <1>19, <1>20

(* An escaped value is a text.                                             *)
LEMMA EscapeValueType ==
  ASSUME NEW u \in Seq(Characters)
  PROVE  EscapeValue(u) \in Seq(Characters)
<1> DEFINE C == Characters
           n == Len(u)
           us == [i \in 1 .. n |-> Escaped(u[i])]
<1> HIDE DEF C
<1>1. n \in Nat
  BY LenProperties
<1>2. \A i \in 1 .. n : u[i] \in Characters
  BY ElementOfSeq
<1>3. \A i \in 1 .. n : Escaped(u[i]) \in Seq(C)
  BY <1>2, EscapedFacts DEF C
<1> HIDE DEF n
<1>4. us \in Seq(Seq(C))
  BY ONLY <1>1, <1>3
<1>5. EscapeValue(u) = FlattenSeq(us)
  BY DEF EscapeValue, n
<1> HIDE DEF us
<1>6. FlattenSeq(us) \in Seq(C)
  BY <1>4, FlattenUnrolls
<1> QED
  BY <1>5, <1>6 DEF C

(* Two elements are one and one.                                           *)
LEMMA TwoIsOneAndOne ==
  ASSUME NEW S, NEW c \in S, NEW d \in S
  PROVE  <<c, d>> = <<c>> \o <<d>>
<1> DEFINE p == <<c, d>>
           q == <<c>>
           r == <<d>>
<1>1. /\ p \in Seq(S) /\ Len(p) = 2 /\ p[1] = c /\ p[2] = d
      /\ q \in Seq(S) /\ Len(q) = 1 /\ q[1] = c
      /\ r \in Seq(S) /\ Len(r) = 1 /\ r[1] = d
  BY OneAndTwo
<1> HIDE DEF p, q, r
<1>2. /\ q \o r \in Seq(S) /\ Len(q \o r) = Len(q) + Len(r)
      /\ \A i \in 1 .. Len(q) + Len(r) :
           (q \o r)[i] = IF i <= Len(q) THEN q[i] ELSE r[i - Len(q)]
  BY <1>1, ConcatProperties
<1>3. Len(q \o r) = 2 /\ (q \o r)[1] = c /\ (q \o r)[2] = d
  BY ONLY <1>1, <1>2
<1>4. p = q \o r
  BY <1>1, <1>2, <1>3, SeqEqual
<1> QED
  BY <1>4 DEF p, q, r

(* What is joined is a sequence, however it is grouped.                    *)
LEMMA JoinedFacts ==
  ASSUME NEW S, NEW a \in Seq(S), NEW b \in Seq(S)
  PROVE  /\ Joined(a, b) \in Seq(S)
         /\ \A c \in Seq(S) : Joined(Joined(a, b), c) = Joined(a, Joined(b, c))
<1>1. a \o b \in Seq(S)
  BY ConcatProperties
<1>2. ASSUME NEW c \in Seq(S)
      PROVE  (a \o b) \o c = a \o (b \o c)
  BY ConcatAssociative
<1> QED
  BY <1>1, <1>2 DEF Joined

(* What is joined to the same is the same.                                 *)
LEMMA SameRest ==
  ASSUME NEW S, NEW c \in Seq(S), NEW a \in Seq(S), NEW b \in Seq(S),
         Joined(c, a) = Joined(c, b)
  PROVE  a = b
BY SameStart

(* A label, after c and before a, with e for the sign and q for the quotes *)
(* about the text v of its value; and the same, from the first part on.    *)
Spelled(c, n, e, q, v, a) == (c \o n \o <<e, q>> \o v \o <<q>>) \o a

Parts(c, n, e, q, v, a) == c \o Followed(n, e, <<q>> \o Followed(v, q, a))

(* Both are the same text.                                                 *)
LEMMA Regrouped ==
  ASSUME NEW S, NEW c \in Seq(S), NEW n \in Seq(S), NEW e \in S, NEW q \in S,
         NEW v \in Seq(S), NEW a \in Seq(S)
  PROVE  Spelled(c, n, e, q, v, a) = Parts(c, n, e, q, v, a)
<1> DEFINE E == <<e>>
           Q == <<q>>
           P == <<e, q>>
           L == Joined(Joined(Joined(Joined(c, n), P), v), Q)
<1>1. E \in Seq(S) /\ Q \in Seq(S) /\ P \in Seq(S)
  BY OneAndTwo
<1>2. P = Joined(E, Q)
  BY TwoIsOneAndOne DEF Joined
<1> HIDE DEF E, Q, P
<1>3. /\ Joined(c, n) \in Seq(S)
      /\ Joined(Joined(c, n), P) \in Seq(S)
      /\ Joined(Joined(Joined(c, n), P), v) \in Seq(S)
      /\ L \in Seq(S)
      /\ Joined(Q, a) \in Seq(S)
      /\ Joined(v, Joined(Q, a)) \in Seq(S)
      /\ Joined(Q, Joined(v, Joined(Q, a))) \in Seq(S)
      /\ Joined(P, Joined(v, Joined(Q, a))) \in Seq(S)
  BY <1>1, JoinedFacts
<1>4. Joined(L, a) = Joined(Joined(Joined(Joined(c, n), P), v), Joined(Q, a))
  BY <1>1, <1>3, JoinedFacts
<1>5. Joined(L, a) = Joined(Joined(Joined(c, n), P), Joined(v, Joined(Q, a)))
  BY <1>1, <1>3, <1>4, JoinedFacts
<1>6. Joined(L, a) = Joined(Joined(c, n), Joined(P, Joined(v, Joined(Q, a))))
  BY <1>1, <1>3, <1>5, JoinedFacts
<1>7. Joined(L, a) = Joined(c, Joined(n, Joined(P, Joined(v, Joined(Q, a)))))
  BY <1>1, <1>3, <1>6, JoinedFacts
<1>8. Joined(P, Joined(v, Joined(Q, a))) = Joined(E, Joined(Q, Joined(v, Joined(Q, a))))
  BY <1>1, <1>2, <1>3, JoinedFacts
<1>9. Joined(L, a) = Joined(c, Joined(n, Joined(E, Joined(Q, Joined(v, Joined(Q, a))))))
  BY ONLY <1>7, <1>8, Zenon
<1> QED
  BY ONLY <1>9 DEF Joined, E, Q, P, L, Spelled, Parts, Followed

(* A label with this name and value, after c and before a.                 *)
Labelled(c, n, u, a) == Spelled(c, n, "=", "\"", EscapeValue(u), a)

(* Two labels, with or without the comma before them and with what comes   *)
(* after.                                                                  *)
LEMMA LabelsEnd ==
  ASSUME NEW c \in Seq(Characters),
         NEW n \in Seq(Characters), Lacks(n, "="),
         NEW m \in Seq(Characters), Lacks(m, "="),
         NEW u \in Seq(Characters), NEW v \in Seq(Characters),
         NEW a \in Seq(Characters), NEW b \in Seq(Characters),
         Labelled(c, n, u, a) = Labelled(c, m, v, b)
  PROVE  n = m /\ u = v /\ a = b
<1> DEFINE s == EscapeValue(u)
           t == EscapeValue(v)
           x3 == Followed(s, "\"", a)
           y3 == Followed(t, "\"", b)
           x2 == <<"\"">> \o x3
           y2 == <<"\"">> \o y3
           x1 == Followed(n, "=", x2)
           y1 == Followed(m, "=", y2)
<1>1. s \in Seq(Characters) /\ t \in Seq(Characters)
  BY EscapeValueType
<1>2. "=" \in Characters /\ "\"" \in Characters
  BY DEF Characters, Special
<1>3. ASSUME NEW p \in Seq(Characters), NEW d \in Characters, NEW z \in Seq(Characters)
      PROVE  <<d>> \o z \in Seq(Characters) /\ Followed(p, d, z) \in Seq(Characters)
  <2>1. <<d>> \o z \in Seq(Characters)
    BY Begins
  <2> QED
    BY <2>1, ConcatProperties DEF Followed
<1>4. c \o x1 = c \o y1
  <2> DEFINE sign == "="
             quote == "\""
  <2> HIDE DEF s, t
  <2>1. /\ Spelled(c, n, "=", "\"", s, a) = Parts(c, n, "=", "\"", s, a)
        /\ Spelled(c, m, "=", "\"", t, b) = Parts(c, m, "=", "\"", t, b)
    <3>1. sign \in Characters /\ quote \in Characters
      BY <1>2
    <3> HIDE DEF sign, quote
    <3>2. /\ Spelled(c, n, sign, quote, s, a) = Parts(c, n, sign, quote, s, a)
          /\ Spelled(c, m, sign, quote, t, b) = Parts(c, m, sign, quote, t, b)
      BY ONLY <1>1, <3>1, c \in Seq(Characters), n \in Seq(Characters),
              m \in Seq(Characters), a \in Seq(Characters), b \in Seq(Characters), Regrouped
    <3> QED
      BY <3>2 DEF sign, quote
  <2>2. Spelled(c, n, "=", "\"", s, a) = Spelled(c, m, "=", "\"", t, b)
    BY DEF s, t, Labelled
  <2> QED
    BY ONLY <2>1, <2>2 DEF Parts
<1> HIDE DEF s, t
<1>5. x3 \in Seq(Characters) /\ y3 \in Seq(Characters)
  BY <1>1, <1>2, <1>3
<1> HIDE DEF x3, y3
<1>6. x2 \in Seq(Characters) /\ y2 \in Seq(Characters)
  BY <1>2, <1>3, <1>5
<1> HIDE DEF x2, y2
<1>7. x1 \in Seq(Characters) /\ y1 \in Seq(Characters)
  BY <1>2, <1>3, <1>6
<1>8. x1 = y1
  <2> HIDE DEF x1, y1
  <2>1. Joined(c, x1) = Joined(c, y1)
    BY <1>4 DEF Joined
  <2> QED
    BY <1>7, <2>1, SameRest
<1>9. n = m /\ x2 = y2
  <2> DEFINE sign == "="
  <2>1. Followed(n, sign, x2) = Followed(m, sign, y2)
    BY <1>8
  <2>2. sign \in Characters /\ Lacks(n, sign) /\ Lacks(m, sign)
    BY <1>2
  <2> HIDE DEF sign
  <2> QED
    BY ONLY <1>6, <2>1, <2>2, n \in Seq(Characters), m \in Seq(Characters), NamesEnd
<1>10. x3 = y3
  <2>1. <<"\"">> \o x3 = <<"\"">> \o y3
    BY <1>9 DEF x2, y2
  <2> QED
    BY ONLY <1>2, <1>5, <2>1, SameAfter
<1>11. u = v /\ a = b
  <2>1. Quoted(u, a) = Quoted(v, b)
    BY <1>10 DEF x3, y3, s, t, Quoted
  <2> QED
    BY ONLY <2>1, u \in Seq(Characters), v \in Seq(Characters),
            a \in Seq(Characters), b \in Seq(Characters), ValuesEnd
<1> QED
  BY <1>9, <1>11

-----------------------------------------------------------------------------
(* Label sets.                                                             *)

Comma(i) == IF i > 1 THEN <<",">> ELSE << >>

(* What add makes sure of a label, in terms of the characters of texts.    *)
Sound(label) ==
  /\ label.name \in Seq(Characters)
  /\ label.value \in Seq(Characters)
  /\ Lacks(label.name, "=")

(* A label is a text.                                                      *)
LEMMA SpelledType ==
  ASSUME NEW S, NEW c \in Seq(S), NEW n \in Seq(S), NEW e \in S, NEW q \in S,
         NEW v \in Seq(S)
  PROVE  c \o n \o <<e, q>> \o v \o <<q>> \in Seq(S)
<1> DEFINE Q == <<q>>
           P == <<e, q>>
           L == Joined(Joined(Joined(Joined(c, n), P), v), Q)
<1>1. Q \in Seq(S) /\ P \in Seq(S)
  BY OneAndTwo
<1> HIDE DEF Q, P
<1>2. /\ Joined(c, n) \in Seq(S)
      /\ Joined(Joined(c, n), P) \in Seq(S)
      /\ Joined(Joined(Joined(c, n), P), v) \in Seq(S)
      /\ L \in Seq(S)
  BY <1>1, JoinedFacts
<1> QED
  BY ONLY <1>2 DEF Joined, Q, P, L

(* With a comma before it or without.                                      *)
LEMMA CommaType == \A i \in Nat : Comma(i) \in Seq(Characters)
<1>1. "," \in Characters
  BY DEF Characters
<1>2. <<",">> \in Seq(Characters) /\ << >> \in Seq(Characters)
  <2>1. << >> \in Seq(Characters)
    BY EmptySeq
  <2> QED
    BY ONLY <1>1, <2>1, OneAndTwo
<1> QED
  BY <1>2 DEF Comma

(* The sign and the quote are characters of texts.                         *)
LEMMA SignAndQuote == "=" \in Characters /\ "\"" \in Characters
BY DEF Characters, Special

(* Pair is a label, spelled out after its comma.                           *)
LEMMA PairFacts ==
  ASSUME NEW ls, NEW i \in Nat, Sound(ls[i])
  PROVE  /\ Pair(ls, i) \in Seq(Characters)
         /\ \A a : Pair(ls, i) \o a =
              Labelled(Comma(i), ls[i].name, ls[i].value, a)
<1> DEFINE c == Comma(i)
           n == ls[i].name
           v == EscapeValue(ls[i].value)
           sign == "="
           quote == "\""
<1>1. Pair(ls, i) = c \o n \o <<sign, quote>> \o v \o <<quote>>
  BY Zenon DEF Pair, Comma
<1>2. c \in Seq(Characters) /\ n \in Seq(Characters) /\ v \in Seq(Characters)
  BY CommaType, EscapeValueType DEF Sound
<1>3. sign \in Characters /\ quote \in Characters
  BY SignAndQuote
<1>4. ASSUME NEW a
      PROVE  Pair(ls, i) \o a = Spelled(c, n, sign, quote, v, a)
  BY <1>1, Zenon DEF Spelled
<1> HIDE DEF c, n, v, sign, quote
<1>5. Pair(ls, i) \in Seq(Characters)
  BY <1>1, <1>2, <1>3, SpelledType
<1> QED
  BY <1>4, <1>5 DEF c, n, v, sign, quote, Labelled

(* A label after others begins with a comma.                               *)
LEMMA CommaFirst ==
  ASSUME NEW ls, NEW i \in Nat, i > 1, Sound(ls[i]), NEW a \in Seq(Characters)
  PROVE  (Pair(ls, i) \o a)[1] = ","
<1> DEFINE n == ls[i].name
           v == EscapeValue(ls[i].value)
           sign == "="
           quote == "\""
           x == Followed(n, sign, <<quote>> \o Followed(v, quote, a))
<1>1. n \in Seq(Characters) /\ v \in Seq(Characters)
  BY EscapeValueType DEF Sound
<1>2. sign \in Characters /\ quote \in Characters
  BY SignAndQuote
<1>3. Comma(i) = <<",">>
  BY DEF Comma
<1>4. Pair(ls, i) \o a = Spelled(Comma(i), n, sign, quote, v, a)
  BY PairFacts, Zenon DEF Labelled
<1> HIDE DEF n, v, sign, quote
<1>5. Comma(i) \in Seq(Characters)
  BY CommaType
<1>6. Spelled(Comma(i), n, sign, quote, v, a) = Parts(Comma(i), n, sign, quote, v, a)
  BY ONLY <1>1, <1>2, <1>5, a \in Seq(Characters), Regrouped
<1>7. Pair(ls, i) \o a = <<",">> \o x
  BY ONLY <1>3, <1>4, <1>6 DEF Parts
<1>8. ASSUME NEW p \in Seq(Characters), NEW d \in Characters, NEW z \in Seq(Characters)
      PROVE  <<d>> \o z \in Seq(Characters) /\ Followed(p, d, z) \in Seq(Characters)
  <2>1. <<d>> \o z \in Seq(Characters)
    BY Begins
  <2> QED
    BY <2>1, ConcatProperties DEF Followed
<1>9. Followed(v, quote, a) \in Seq(Characters)
  BY ONLY <1>1, <1>2, <1>8, a \in Seq(Characters)
<1>10. <<quote>> \o Followed(v, quote, a) \in Seq(Characters)
  BY ONLY <1>2, <1>9, Begins
<1>11. x \in Seq(Characters)
  BY ONLY <1>1, <1>2, <1>8, <1>10
<1>12. "," \in Characters
  BY DEF Characters
<1> HIDE DEF x
<1>13. (<<",">> \o x)[1] = ","
  BY <1>11, <1>12, Begins
<1> QED
  BY <1>7, <1>13

(* Pairs in the same place are the same text only if the labels are the    *)
(* same, and what comes after.                                             *)
SameLabels(ls, ms, i) ==
  \A a, b \in Seq(Characters) :
    Pair(ls, i) \o a = Pair(ms, i) \o b =>
      ls[i].name = ms[i].name /\ ls[i].value = ms[i].value /\ a = b

(* This is so for labels that add lets in.                                 *)
LEMMA PairsEnd ==
  ASSUME NEW ls, NEW ms, NEW i \in Nat, Sound(ls[i]), Sound(ms[i])
  PROVE  SameLabels(ls, ms, i)
<1> SUFFICES ASSUME NEW a \in Seq(Characters), NEW b \in Seq(Characters),
                    Pair(ls, i) \o a = Pair(ms, i) \o b
             PROVE  ls[i].name = ms[i].name /\ ls[i].value = ms[i].value /\ a = b
  BY DEF SameLabels
<1> DEFINE c == Comma(i)
           n == ls[i].name
           u == ls[i].value
           m == ms[i].name
           v == ms[i].value
<1>1. /\ Pair(ls, i) \o a = Labelled(c, n, u, a)
      /\ Pair(ms, i) \o b = Labelled(c, m, v, b)
  BY PairFacts, Zenon
<1>2. Labelled(c, n, u, a) = Labelled(c, m, v, b)
  BY <1>1, Zenon
<1>3. c \in Seq(Characters)
  BY CommaType
<1>4. /\ n \in Seq(Characters) /\ u \in Seq(Characters) /\ Lacks(n, "=")
      /\ m \in Seq(Characters) /\ v \in Seq(Characters) /\ Lacks(m, "=")
  BY DEF Sound
<1> HIDE DEF c, n, u, m, v
<1>5. n = m /\ u = v /\ a = b
  BY ONLY <1>2, <1>3, <1>4, a \in Seq(Characters), b \in Seq(Characters), LabelsEnd
<1> QED
  BY <1>5 DEF n, u, m, v

(* The pairs of labels and the text that they are flattened to.            *)
LEMMA PairsFacts ==
  ASSUME NEW ls, NEW n \in Nat, n = Len(ls), \A i \in 1 .. n : Sound(ls[i])
  PROVE  LET ps == [i \in 1 .. n |-> Pair(ls, i)]
         IN  /\ \A i \in 1 .. n : ps[i] = Pair(ls, i)
             /\ FlattenSeq(ps) \in Seq(Characters)
             /\ Unrolling(ps, n, FlattenSeq(ps), Characters)
<1> DEFINE ps == [i \in 1 .. n |-> Pair(ls, i)]
<1>1. \A i \in 1 .. n : Pair(ls, i) \in Seq(Characters)
  <2> SUFFICES ASSUME NEW i \in 1 .. n
               PROVE  Pair(ls, i) \in Seq(Characters)
    OBVIOUS
  <2>1. i \in Nat
    BY ONLY i \in 1 .. n, n \in Nat
  <2> QED
    BY <2>1, PairFacts
<1>2. ps \in Seq(Seq(Characters)) /\ Len(ps) = n
  BY ONLY <1>1, n \in Nat
<1>3. \A i \in 1 .. n : ps[i] = Pair(ls, i)
  OBVIOUS
<1> HIDE DEF ps
<1>4. FlattenSeq(ps) \in Seq(Characters) /\ Unrolling(ps, n, FlattenSeq(ps), Characters)
  BY <1>2, FlattenUnrolls
<1> QED
  BY <1>3, <1>4 DEF ps

(* The next label of a longer text is not where a shorter one closes.      *)
LEMMA CloseIsNoPair ==
  ASSUME NEW ls, NEW n \in Nat, NEW m \in Nat, n > 0, \A i \in 1 .. m : Sound(ls[i]),
         NEW ps, \A i \in 1 .. m : ps[i] = Pair(ls, i)
  PROVE  Ends(n, <<"}">>, ps, m, Characters)
<1> SUFFICES ASSUME n < m, NEW b \in Seq(Characters), ps[n + 1] \o b = <<"}">>
             PROVE  FALSE
  BY DEF Ends
<1> DEFINE k == n + 1
<1>1. k \in 1 .. m /\ k \in Nat /\ k > 1
  BY ONLY n \in Nat, m \in Nat, n > 0, n < m
<1>2. ps[k] \o b = <<"}">>
  OBVIOUS
<1> HIDE DEF k
<1>3. (Pair(ls, k) \o b)[1] = ","
  BY <1>1, CommaFirst
<1>4. Pair(ls, k) \o b = <<"}">>
  BY <1>1, <1>2
<1>5. <<"}">>[1] = "}"
  OBVIOUS
<1> QED
  BY ONLY <1>3, <1>4, <1>5

(* Texts of labels are the same only if the labels are, one by one.        *)
LEMMA TextsEnd ==
  ASSUME NEW ls, NEW n \in Nat, n = Len(ls), n > 0, \A i \in 1 .. n : Sound(ls[i]),
         NEW ms, NEW m \in Nat, m = Len(ms), m > 0, \A i \in 1 .. m : Sound(ms[i]),
         ls # << >>, ms # << >>, Text(ls) = Text(ms)
  PROVE  /\ n = m
         /\ \A i \in 1 .. n : ls[i].name = ms[i].name /\ ls[i].value = ms[i].value
<1> DEFINE C == Characters
           ps == [i \in 1 .. n |-> Pair(ls, i)]
           qs == [i \in 1 .. m |-> Pair(ms, i)]
           open == <<"{">>
           close == <<"}">>
           p == FlattenSeq(ps)
           q == FlattenSeq(qs)
<1>1. /\ \A i \in 1 .. n : ps[i] = Pair(ls, i)
      /\ p \in Seq(C) /\ Unrolling(ps, n, p, C)
  BY PairsFacts
<1>2. /\ \A i \in 1 .. m : qs[i] = Pair(ms, i)
      /\ q \in Seq(C) /\ Unrolling(qs, m, q, C)
  BY PairsFacts
<1>3. open \in Seq(C) /\ close \in Seq(C)
  <2>1. "{" \in C /\ "}" \in C
    BY DEF Characters
  <2> QED
    BY <2>1, OneAndTwo
<1>4. Joined(Joined(open, p), close) = Joined(Joined(open, q), close)
  BY DEF Text, Joined
<1>5. Ends(n, close, qs, m, C)
  <2> HIDE DEF ps, qs
  <2> QED
    BY <1>2, CloseIsNoPair
<1>6. Ends(m, close, ps, n, C)
  <2> HIDE DEF ps, qs
  <2> QED
    BY <1>1, CloseIsNoPair
<1> HIDE DEF ps, qs, p, q, open, close
<1>7. Joined(open, Joined(p, close)) = Joined(open, Joined(q, close))
  BY ONLY <1>1, <1>2, <1>3, <1>4, JoinedFacts
<1>8. Joined(p, close) \in Seq(C) /\ Joined(q, close) \in Seq(C)
  BY ONLY <1>1, <1>2, <1>3, JoinedFacts
<1>9. Joined(p, close) = Joined(q, close)
  BY ONLY <1>3, <1>7, <1>8, SameRest
<1> DEFINE w == Joined(p, close)
<1>10. PICK h : Unrolls(h, ps, n, close, w, C)
  BY <1>1, <1>3 DEF Unrolling, Joined
<1>11. PICK l : Unrolls(l, qs, m, close, w, C)
  <2>1. w = q \o close
    BY <1>9 DEF Joined
  <2> QED
    BY <1>2, <1>3, <2>1 DEF Unrolling
<1>12. ASSUME NEW i \in 1 .. n, i <= m, NEW a \in Seq(C), NEW b \in Seq(C),
              ps[i] \o a = qs[i] \o b
       PROVE  ls[i].name = ms[i].name /\ ls[i].value = ms[i].value /\ a = b
  <2>1. i \in 1 .. m /\ i \in Nat
    BY ONLY i \in 1 .. n, i <= m, n \in Nat, m \in Nat
  <2>2. Pair(ls, i) \o a = Pair(ms, i) \o b
    BY <1>1, <1>2, <1>12, <2>1
  <2>3. SameLabels(ls, ms, i)
    <3>1. Sound(ls[i]) /\ Sound(ms[i])
      BY <2>1
    <3> QED
      BY ONLY <2>1, <3>1, PairsEnd
  <2> QED
    BY ONLY <2>2, <2>3, a \in Seq(C), b \in Seq(C) DEF SameLabels
<1>13. PrefixFree(ps, qs, n, m, C)
  BY <1>12 DEF PrefixFree
<1> HIDE DEF w
<1>14. n = m /\ Alike(ps, qs, n, C)
  BY ONLY <1>3, <1>5, <1>6, <1>10, <1>11, <1>13, n \in Nat, m \in Nat, PiecesAgree
<1>15. ASSUME NEW i \in 1 .. n
       PROVE  ls[i].name = ms[i].name /\ ls[i].value = ms[i].value
  <2>1. i <= m
    BY ONLY <1>14, i \in 1 .. n, n \in Nat
  <2>2. PICK a \in Seq(C), b \in Seq(C) : ps[i] \o a = qs[i] \o b
    BY <1>14 DEF Alike
  <2> QED
    BY <1>12, <2>1, <2>2
<1> QED
  BY <1>14, <1>15

(* Only the empty set has the empty text.                                  *)
LEMMA TextOfSome ==
  ASSUME NEW ls, NEW n \in Nat, n = Len(ls), n > 0, \A i \in 1 .. n : Sound(ls[i]),
         ls # << >>
  PROVE  Text(ls) # << >>
<1> DEFINE ps == [i \in 1 .. n |-> Pair(ls, i)]
           p == FlattenSeq(ps)
           open == <<"{">>
           close == <<"}">>
           x == Joined(p, close)
<1>1. p \in Seq(Characters)
  BY PairsFacts
<1>2. Text(ls) = Joined(Joined(open, p), close)
  BY DEF Text, Joined
<1> HIDE DEF ps, p
<1>3. "{" \in Characters /\ "}" \in Characters
  BY DEF Characters
<1>4. open \in Seq(Characters) /\ close \in Seq(Characters)
  BY <1>3, OneAndTwo
<1> HIDE DEF open, close
<1>5. Text(ls) = Joined(open, x) /\ x \in Seq(Characters)
  BY ONLY <1>1, <1>2, <1>4, JoinedFacts
<1> HIDE DEF x
<1>6. Len(Text(ls)) = 1 + Len(x) /\ Len(x) \in Nat
  BY ONLY <1>3, <1>5, Begins DEF Joined, open
<1> QED
  BY ONLY <1>6

-----------------------------------------------------------------------------
(* What TypeOK says of an object, in terms of the characters of texts.     *)
LEMMA ObjectsSound ==
  ASSUME TypeOK, NEW o \in Objects
  PROVE  /\ labels[o] \in Seq(Label) /\ Len(labels[o]) \in Nat
         /\ \A i \in 1 .. Len(labels[o]) : labels[o][i] \in Label /\ Sound(labels[o][i])
<1> DEFINE ls == labels[o]
<1>1. ls \in Seq(Label) /\ Len(ls) \in Nat
  BY DEF TypeOK
<1>2. ASSUME NEW i \in 1 .. Len(ls)
      PROVE  ls[i] \in Label /\ Sound(ls[i])
  <2> DEFINE name == ls[i].name
             value == ls[i].value
  <2>1. ls[i] \in Label
    BY <1>1, ElementOfSeq
  <2>2. name \in Names /\ value \in Values
    BY <2>1 DEF Label
  <2>3. name \in Seq(STRING) /\ value \in Seq(STRING)
    BY <2>2, LabelsAssumption
  <2>4. ASSUME NEW k \in 1 .. Len(name)
        PROVE  name[k] # "="
    <3>1. name[k] \in NameCharacters(Foreign)
      BY DEF TypeOK
    <3> QED
      BY <3>1, LabelsAssumption DEF NameCharacters
  <2> HIDE DEF name, value
  <2>5. STRING \subseteq Characters
    BY DEF Characters
  <2>6. name \in Seq(Characters) /\ value \in Seq(Characters)
    BY ONLY <2>3, <2>5, SeqMonotonic
  <2>7. Lacks(name, "=")
    BY <2>4 DEF Lacks
  <2> QED
    BY <2>1, <2>6, <2>7 DEF Sound, name, value
<1> QED
  BY <1>1, <1>2

(* Texts of objects are the same only if the labels are.                   *)
LEMMA SameText ==
  ASSUME TypeOK, NEW o \in Objects, NEW p \in Objects,
         Text(labels[o]) = Text(labels[p])
  PROVE  labels[o] = labels[p]
<1> DEFINE ls == labels[o]
           ms == labels[p]
           n == Len(ls)
           m == Len(ms)
<1>1. /\ ls \in Seq(Label) /\ n \in Nat
      /\ \A i \in 1 .. n : ls[i] \in Label /\ Sound(ls[i])
      /\ ms \in Seq(Label) /\ m \in Nat
      /\ \A i \in 1 .. m : ms[i] \in Label /\ Sound(ms[i])
  BY ObjectsSound
<1>2. Text(ls) = Text(ms)
  OBVIOUS
<1>3. Text(<< >>) = << >>
  BY DEF Text
<1> SUFFICES ls = ms
  OBVIOUS
<1> HIDE DEF ls, ms
<1>4. /\ ls = << >> \/ (ls # << >> /\ n > 0)
      /\ ms = << >> \/ (ms # << >> /\ m > 0)
  BY <1>1, EmptySeq
<1>5. CASE ls = << >> \/ ms = << >>
  <2>1. ASSUME ls # << >>
        PROVE  Text(ls) # << >>
    BY <1>1, <1>4, <2>1, TextOfSome
  <2>2. ASSUME ms # << >>
        PROVE  Text(ms) # << >>
    BY <1>1, <1>4, <2>2, TextOfSome
  <2> QED
    BY <1>2, <1>3, <1>5, <2>1, <2>2
<1>6. CASE ls # << >> /\ ms # << >>
  <2> HIDE DEF n, m
  <2>1. n = Len(ls) /\ m = Len(ms)
    BY DEF n, m
  <2>2. /\ n = m
        /\ \A i \in 1 .. n : ls[i].name = ms[i].name /\ ls[i].value = ms[i].value
    BY <1>1, <1>2, <1>4, <1>6, <2>1, TextsEnd
  <2>3. \A i \in 1 .. n : ls[i] = ms[i]
    BY ONLY <1>1, <2>2 DEF Label
  <2> QED
    BY <1>1, <2>1, <2>2, <2>3, SeqEqual
<1> QED
  BY <1>4, <1>5, <1>6

(* Comparing texts, as get_metric does with those of to_string, is the     *)
(* comparison of labels that operator== makes: the quotes, commas and      *)
(* backslashes of a value are escaped so that no other labels come to the  *)
(* same text, for any names and values that add lets in.                   *)
THEOREM TextsIdentify == Spec => []TextIdentifies
<1>1. TypeOK => TextIdentifies
  <2> SUFFICES ASSUME TypeOK, NEW o \in Objects, NEW p \in Objects
               PROVE  (Text(labels[o]) = Text(labels[p])) <=> Equal(o, p)
    BY DEF TextIdentifies
  <2>1. CASE labels[o] = labels[p]
    BY <2>1 DEF Equal
  <2>2. CASE labels[o] # labels[p]
    BY <2>2, SameText DEF Equal
  <2> QED
    BY <2>1, <2>2
<1> QED
  BY <1>1, TypeCorrect, PTL

=============================================================================
