-------------------------- MODULE PrometheusProofs --------------------------
(***************************************************************************)
(* What TLAPS proves of Prometheus, for any threads, families, metrics,    *)
(* orders and amounts and whatever runs beside a call: the type invariant, *)
(* that counters only rise and that gauges follow their uses, that resets  *)
(* forget, that scrapes are not torn and that the lines of a summary agree.*)
(*                                                                         *)
(* A call is a program of steps.  What the proofs know of the programs     *)
(* they know of every step: where x is locked there is an unlocking of x   *)
(* to come before any locking of it (Held), and every step is where it may *)
(* be (InPlace).  The blocks programs are made of are shown to have this   *)
(* one by one, and from there on no program is looked into any more.       *)
(***************************************************************************)
EXTENDS Prometheus, BasicLemmas

-----------------------------------------------------------------------------
(* Flattening a sequence of sequences.                                     *)

LEMMA FlattenIsLast ==
  ASSUME NEW ss, Len(ss) \in Nat, Len(ss) # 0
  PROVE  \E g : Flattens(g, ss, Len(ss)) /\ FlattenSeq(ss) = g[Len(ss)]
<1>1. FlattenSeq(ss) = Flattening(ss)[Len(ss)]
  BY DEF FlattenSeq, Flattening
<1> QED
  BY <1>1, FlatteningFlattens

(* A set of sequences that holds the empty one and all concatenations      *)
(* holds all that is flattened from its elements.                          *)
LEMMA FlattenIn ==
  ASSUME NEW P, << >> \in P, \A a, b \in P : a \o b \in P, NEW ss \in Seq(P)
  PROVE  FlattenSeq(ss) \in P
<1>1. CASE Len(ss) = 0
  <2>1. ss = << >>
    BY <1>1
  <2> QED
    BY <1>1, <2>1 DEF FlattenSeq
<1>2. CASE Len(ss) # 0
  <2>1. Len(ss) \in Nat /\ \A i \in 1 .. Len(ss) : ss[i] \in P
    OBVIOUS
  <2>2. PICK g : Flattens(g, ss, Len(ss)) /\ FlattenSeq(ss) = g[Len(ss)]
    BY <1>2, <2>1, FlattenIsLast
  <2> DEFINE Bad == {i \in 1 .. Len(ss) : g[i] \notin P}
  <2>3. Bad = {}
    <3>1. SUFFICES ASSUME Bad # {} PROVE FALSE
      OBVIOUS
    <3>2. PICK i \in Bad : \A k \in Bad : i <= k
      <4>1. Bad \in SUBSET Nat
        BY <2>1
      <4> QED
        BY <3>1, <4>1, NatMinimum
    <3>3. i # 1 => i - 1 \in 1 .. Len(ss) /\ ~(i <= i - 1)
      BY <2>1
    <3>4. i # 1 => g[i - 1] \in P
      BY <3>2, <3>3
    <3>5. g[i] = IF i = 1 THEN ss[i] ELSE g[i - 1] \o ss[i]
      BY <2>2 DEF Flattens
    <3> QED
      BY <2>1, <3>4, <3>5
  <2> QED
    BY <1>2, <2>1, <2>2, <2>3
<1> QED
  BY <1>1, <1>2

(* It holds every element of what it is flattened from.                    *)
LEMMA FlattenHas ==
  ASSUME NEW S, NEW ss \in Seq(Seq(S)), NEW i \in 1 .. Len(ss), NEW e \in Range(ss[i])
  PROVE  e \in Range(FlattenSeq(ss))
<1>1. Len(ss) \in Nat /\ Len(ss) # 0 /\ \A k \in 1 .. Len(ss) : ss[k] \in Seq(S)
  OBVIOUS
<1>2. PICK g : Flattens(g, ss, Len(ss)) /\ FlattenSeq(ss) = g[Len(ss)]
  BY <1>1, FlattenIsLast
<1>3. \A k \in 1 .. Len(ss) : g[k] = IF k = 1 THEN ss[k] ELSE g[k - 1] \o ss[k]
  BY <1>2 DEF Flattens
<1>4. ASSUME NEW a \in Seq(S), NEW b \in Seq(S)
      PROVE  Range(a) \cup Range(b) \subseteq Range(a \o b) /\ a \o b \in Seq(S)
  <2>1. /\ a \o b \in Seq(S) /\ Len(a \o b) = Len(a) + Len(b)
        /\ \A k \in 1 .. Len(a) + Len(b) :
             (a \o b)[k] = IF k <= Len(a) THEN a[k] ELSE b[k - Len(a)]
    BY ConcatProperties
  <2>2. DOMAIN a = 1 .. Len(a) /\ DOMAIN b = 1 .. Len(b) /\ Len(a) \in Nat /\ Len(b) \in Nat
    OBVIOUS
  <2> DEFINE c == a \o b
  <2>3. DOMAIN c = 1 .. Len(a) + Len(b)
    BY <2>1
  <2> HIDE DEF c
  <2>4. ASSUME NEW k \in 1 .. Len(a) PROVE a[k] \in Range(c)
    <3>1. k \in 1 .. Len(a) + Len(b) /\ c[k] = a[k]
      BY <2>1, <2>2 DEF c
    <3> QED
      BY <2>3, <3>1 DEF Range
  <2>5. ASSUME NEW k \in 1 .. Len(b) PROVE b[k] \in Range(c)
    <3>1. /\ k + Len(a) \in 1 .. Len(a) + Len(b) /\ ~(k + Len(a) <= Len(a))
          /\ k + Len(a) - Len(a) = k
      BY <2>2
    <3>2. c[k + Len(a)] = b[k]
      BY <2>1, <3>1 DEF c
    <3> QED
      BY <2>3, <3>1, <3>2 DEF Range
  <2> QED
    BY <2>1, <2>2, <2>4, <2>5 DEF Range, c
<1> DEFINE Bad == {k \in i .. Len(ss) : ~(g[k] \in Seq(S) /\ e \in Range(g[k]))}
           Untyped == {k \in 1 .. Len(ss) : g[k] \notin Seq(S)}
<1>5. Untyped = {}
  <2>1. SUFFICES ASSUME Untyped # {} PROVE FALSE
    OBVIOUS
  <2>2. PICK k \in Untyped : \A l \in Untyped : k <= l
    <3>1. Untyped \in SUBSET Nat
      BY <1>1
    <3> QED
      BY <2>1, <3>1, NatMinimum
  <2>3. k # 1 => k - 1 \in 1 .. Len(ss) /\ ~(k <= k - 1)
    BY <1>1
  <2>4. k # 1 => g[k - 1] \in Seq(S)
    BY <2>2, <2>3
  <2> QED
    BY <1>1, <1>3, <1>4, <2>4
<1>6. Bad = {}
  <2>1. SUFFICES ASSUME Bad # {} PROVE FALSE
    OBVIOUS
  <2>2. PICK k \in Bad : \A l \in Bad : k <= l
    <3>1. Bad \in SUBSET Nat
      BY <1>1
    <3> QED
      BY <2>1, <3>1, NatMinimum
  <2>3. k \in 1 .. Len(ss) /\ k >= i /\ ss[k] \in Seq(S) /\ (k # 1 => k - 1 \in 1 .. Len(ss))
    BY <1>1
  <2>4. k # 1 => g[k - 1] \in Seq(S)
    BY <1>5, <2>3
  <2>5. CASE k = i
    BY <1>3, <1>4, <2>3, <2>4, <2>5
  <2>6. CASE k # i
    <3>1. k - 1 \in i .. Len(ss) /\ ~(k <= k - 1) /\ k # 1
      BY <2>3, <2>6
    <3>2. e \in Range(g[k - 1])
      BY <2>2, <3>1
    <3> QED
      BY <1>3, <1>4, <2>3, <2>4, <3>1, <3>2
  <2> QED
    BY <2>5, <2>6
<1>7. Len(ss) \in i .. Len(ss)
  BY <1>1
<1> QED
  BY <1>2, <1>6, <1>7
-----------------------------------------------------------------------------
(* Programs of steps.                                                      *)

(* The steps there are, and those of the steps named and on the mutexes of *)
(* X.                                                                      *)
AllSteps ==
  ({"lock", "unlock"} \X Mutexes)
    \cup ({"copy", "clear", "push", "count"} \X Summaries)
    \cup ({"print", "zero"} \X All)

Kinds(names, X) ==
  {p \in AllSteps : p[1] \in names \/ p \in {"lock", "unlock"} \X X}

(* A program whose next step is the i-th one of s has x locked: it is to   *)
(* unlock x before it locks it again.                                      *)
Held(s, i, x) ==
  \E j \in i .. Len(s) :
    s[j] = <<"unlock", x>> /\ \A k \in i .. j - 1 : s[k] # <<"lock", x>>

(* The i-th step of s is where it may be: what is locked is unlocked, what *)
(* is unlocked was locked, a summary is worked on under its mutex, zeroed  *)
(* right after its window was cleared, and printed after it was copied.    *)
InPlace(s, i) ==
  /\ \A x \in Mutexes : s[i] = <<"lock", x>> => Held(s, i + 1, x)
  /\ \A x \in Mutexes : s[i] = <<"unlock", x>> => ~Held(s, i + 1, x)
  /\ \A x \in Summaries : s[i] \in {"copy", "clear", "push", "zero"} \X {x} => Held(s, i, x)
  /\ \A x \in Summaries : s[i] = <<"zero", x>> /\ i > 1 => s[i - 1] = <<"clear", x>>
  /\ \A x \in Summaries :
       s[i] = <<"copy", x>> => \E j \in i + 1 .. Len(s) : s[j] = <<"print", x>>

Disciplined(s) == \A i \in 1 .. Len(s) : InPlace(s, i)

(* A program that begins and ends with what it has locked unlocked.        *)
Whole(s) ==
  /\ Disciplined(s)
  /\ \A x \in Mutexes : ~Held(s, 1, x)
  /\ \A x \in Summaries : Len(s) > 0 => s[1] # <<"zero", x>>

Blocks(names, X) == {s \in Seq(Kinds(names, X)) : Whole(s)}

(* What is held in the two parts of a program.                             *)
LEMMA HeldInConcat ==
  ASSUME NEW S, NEW a \in Seq(S), NEW b \in Seq(S), NEW x
  PROVE  LET c == a \o b
         IN  /\ c \in Seq(S) /\ Len(c) = Len(a) + Len(b)
             /\ Len(a) \in Nat /\ Len(b) \in Nat
             /\ \A i \in 1 .. Len(a) : c[i] = a[i]
             /\ \A k \in 1 .. Len(b) : c[Len(a) + k] = b[k]
             /\ \A k \in 1 .. Len(b) + 1 : Held(c, Len(a) + k, x) <=> Held(b, k, x)
             /\ ~Held(b, 1, x) =>
                  \A i \in 1 .. Len(a) + 1 : Held(c, i, x) <=> Held(a, i, x)
<1> DEFINE c == a \o b
           n == Len(a)
           m == Len(b)
<1>1. /\ c \in Seq(S) /\ Len(c) = n + m /\ n \in Nat /\ m \in Nat
      /\ \A i \in 1 .. n : c[i] = a[i]
  BY ConcatProperties
<1>2. ASSUME NEW k \in 1 .. m PROVE c[n + k] = b[k]
  <2>1. n + k \in 1 .. n + m /\ ~(n + k <= n) /\ n + k - n = k
    BY <1>1
  <2> QED
    BY <2>1, ConcatProperties
<1> HIDE DEF c
<1>3. ASSUME NEW k \in 1 .. m + 1 PROVE Held(c, n + k, x) <=> Held(b, k, x)
  <2>1. ASSUME Held(c, n + k, x) PROVE Held(b, k, x)
    <3>1. PICK j \in n + k .. n + m :
            c[j] = <<"unlock", x>> /\ \A l \in n + k .. j - 1 : c[l] # <<"lock", x>>
      BY <1>1, <2>1 DEF Held
    <3>2. j - n \in k .. m /\ j - n \in 1 .. m /\ n + (j - n) = j
      BY <1>1
    <3>3. b[j - n] = <<"unlock", x>>
      BY <1>2, <3>1, <3>2
    <3>4. ASSUME NEW l \in k .. j - n - 1 PROVE b[l] # <<"lock", x>>
      <4>1. l \in 1 .. m /\ n + l \in n + k .. j - 1
        BY <1>1
      <4> QED
        BY <1>2, <3>1, <4>1
    <3> QED
      BY <3>2, <3>3, <3>4 DEF Held
  <2>2. ASSUME Held(b, k, x) PROVE Held(c, n + k, x)
    <3>1. PICK j \in k .. m :
            b[j] = <<"unlock", x>> /\ \A l \in k .. j - 1 : b[l] # <<"lock", x>>
      BY <1>1, <2>2 DEF Held
    <3> DEFINE h == n + j
    <3>2. h \in n + k .. n + m /\ j \in 1 .. m
      BY <1>1
    <3>3. c[h] = <<"unlock", x>>
      BY <1>2, <3>1, <3>2
    <3>4. ASSUME NEW l \in n + k .. h - 1 PROVE c[l] # <<"lock", x>>
      <4>1. l - n \in 1 .. m /\ l - n \in k .. j - 1 /\ n + (l - n) = l
        BY <1>1
      <4> QED
        BY <1>2, <3>1, <4>1
    <3> HIDE DEF h
    <3> QED
      BY <1>1, <3>2, <3>3, <3>4 DEF Held
  <2> QED
    BY <2>1, <2>2
<1>4. ASSUME ~Held(b, 1, x), NEW i \in 1 .. n + 1
      PROVE  Held(c, i, x) <=> Held(a, i, x)
  <2>1. ASSUME Held(a, i, x) PROVE Held(c, i, x)
    <3>1. PICK j \in i .. n :
            a[j] = <<"unlock", x>> /\ \A l \in i .. j - 1 : a[l] # <<"lock", x>>
      BY <2>1 DEF Held
    <3>2. j \in i .. n + m /\ j \in 1 .. n /\ \A l \in i .. j - 1 : l \in 1 .. n
      BY <1>1
    <3> QED
      BY <1>1, <3>1, <3>2 DEF Held
  <2>2. ASSUME Held(c, i, x) PROVE Held(a, i, x)
    <3>1. PICK j \in i .. n + m :
            c[j] = <<"unlock", x>> /\ \A l \in i .. j - 1 : c[l] # <<"lock", x>>
      BY <1>1, <2>2 DEF Held
    <3>2. CASE j \in 1 .. n
      <4>1. j \in i .. n /\ \A l \in i .. j - 1 : l \in 1 .. n
        BY <1>1, <3>2
      <4> QED
        BY <1>1, <3>1, <3>2, <4>1 DEF Held
    <3>3. CASE j \notin 1 .. n
      <4>1. j \in n + 1 .. n + m /\ \A l \in n + 1 .. j - 1 : l \in i .. j - 1
        BY <1>1, <3>3
      <4>2. Held(c, n + 1, x)
        BY <1>1, <3>1, <4>1 DEF Held
      <4>3. Held(b, 1, x)
        <5>1. 1 \in 1 .. m + 1
          BY <1>1
        <5> QED
          BY <1>3, <4>2, <5>1
      <4> QED
        BY <1>4, <4>3
    <3> QED
      BY <3>2, <3>3
  <2> QED
    BY <2>1, <2>2
<1>5. /\ c \in Seq(S) /\ Len(c) = n + m /\ n \in Nat /\ m \in Nat
      /\ \A i \in 1 .. n : c[i] = a[i]
      /\ \A k \in 1 .. m : c[n + k] = b[k]
      /\ \A k \in 1 .. m + 1 : Held(c, n + k, x) <=> Held(b, k, x)
      /\ ~Held(b, 1, x) => \A i \in 1 .. n + 1 : Held(c, i, x) <=> Held(a, i, x)
  BY <1>1, <1>2, <1>3, <1>4
<1> QED
  BY <1>5 DEF c

LEMMA BlocksConcat ==
  ASSUME NEW names, NEW X, NEW a \in Blocks(names, X), NEW b \in Blocks(names, X)
  PROVE  a \o b \in Blocks(names, X)
<1> DEFINE c == a \o b
           n == Len(a)
           m == Len(b)
<1>1. a \in Seq(Kinds(names, X)) /\ b \in Seq(Kinds(names, X)) /\ Whole(a) /\ Whole(b)
  BY DEF Blocks
<1>2. /\ c \in Seq(Kinds(names, X)) /\ Len(c) = n + m /\ n \in Nat /\ m \in Nat
      /\ \A i \in 1 .. n : c[i] = a[i]
      /\ \A k \in 1 .. m : c[n + k] = b[k]
  BY <1>1, HeldInConcat
<1>3. /\ \A x \in Mutexes : \A k \in 1 .. m + 1 : Held(c, n + k, x) <=> Held(b, k, x)
      /\ \A x \in Mutexes : \A i \in 1 .. n + 1 : Held(c, i, x) <=> Held(a, i, x)
  BY <1>1, HeldInConcat DEF Whole
<1> HIDE DEF c, n, m
<1>4. Summaries \subseteq Mutexes
  BY DEF Mutexes
<1>5. ASSUME NEW i \in 1 .. n PROVE InPlace(c, i)
  <2>1. InPlace(a, i) /\ c[i] = a[i] /\ i \in 1 .. n + 1 /\ i + 1 \in 1 .. n + 1
    BY <1>1, <1>2 DEF Whole, Disciplined, n
  <2>2. i > 1 => c[i - 1] = a[i - 1]
    BY <1>2
  <2>3. \A x \in Mutexes : /\ Held(c, i, x) <=> Held(a, i, x)
                           /\ Held(c, i + 1, x) <=> Held(a, i + 1, x)
    BY <1>3, <2>1
  <2>4. \A j \in i + 1 .. n : j \in i + 1 .. n + m /\ c[j] = a[j]
    BY <1>2
  <2>5. \A x \in Summaries : a[i] = <<"copy", x>> =>
          \E j \in i + 1 .. n : a[j] = <<"print", x>>
    BY <2>1 DEF InPlace, n
  <2> QED
    BY <1>2, <1>4, <2>1, <2>2, <2>3, <2>4, <2>5 DEF InPlace
<1>6. ASSUME NEW k \in 1 .. m PROVE InPlace(c, n + k)
  <2>1. InPlace(b, k) /\ c[n + k] = b[k] /\ k \in 1 .. m + 1 /\ k + 1 \in 1 .. m + 1
        /\ n + (k + 1) = n + k + 1
    <3>1. \A l \in 1 .. m : InPlace(b, l)
      BY <1>1 DEF Whole, Disciplined, m
    <3> QED
      BY <1>2, <3>1
  <2>2. k > 1 => c[n + k - 1] = b[k - 1]
    <3>1. k > 1 => k - 1 \in 1 .. m /\ n + (k - 1) = n + k - 1
      BY <1>2
    <3> QED
      BY <1>2, <3>1
  <2>3. \A x \in Mutexes : /\ Held(c, n + k, x) <=> Held(b, k, x)
                           /\ Held(c, n + k + 1, x) <=> Held(b, k + 1, x)
    BY <1>3, <2>1
  <2>4. \A j \in k + 1 .. m : n + j \in n + k + 1 .. n + m /\ c[n + j] = b[j]
    BY <1>2
  <2>5. \A x \in Summaries : b[k] = <<"copy", x>> =>
          \E j \in k + 1 .. m : b[j] = <<"print", x>>
    BY <2>1 DEF InPlace, m
  <2>6. k = 1 => \A x \in Summaries : b[k] # <<"zero", x>>
    BY <1>1, <1>2 DEF Whole, m
  <2>7. k = 1 \/ k > 1
    BY <1>2
  <2>8. \A x \in Summaries : c[n + k] = <<"zero", x>> => c[n + k - 1] = <<"clear", x>>
    BY <2>1, <2>2, <2>6, <2>7 DEF InPlace
  <2>9. \A x \in Summaries :
          c[n + k] = <<"copy", x>> => \E j \in n + k + 1 .. n + m : c[j] = <<"print", x>>
    BY <2>1, <2>4, <2>5
  <2> QED
    BY <1>2, <1>4, <2>1, <2>3, <2>8, <2>9 DEF InPlace
<1>7. Disciplined(c)
  <2>1. ASSUME NEW i \in 1 .. n + m PROVE InPlace(c, i)
    <3>1. CASE i \in 1 .. n
      BY <1>5, <3>1
    <3>2. CASE i \notin 1 .. n
      <4>1. i - n \in 1 .. m /\ n + (i - n) = i
        BY <1>2, <3>2
      <4>2. InPlace(c, n + (i - n))
        BY <1>6, <4>1
      <4> QED
        BY <4>1, <4>2
    <3> QED
      BY <3>1, <3>2
  <2> QED
    BY <1>2, <2>1 DEF Disciplined
<1>8. \A x \in Mutexes : ~Held(c, 1, x)
  <2>1. 1 \in 1 .. n + 1
    BY <1>2
  <2> QED
    BY <1>1, <1>3, <2>1 DEF Whole
<1>9. \A x \in Summaries : Len(c) > 0 => c[1] # <<"zero", x>>
  <2>1. CASE n > 0
    <3>1. c[1] = a[1]
      BY <1>2, <2>1
    <3> QED
      BY <1>1, <2>1, <3>1 DEF Whole, n
  <2>2. CASE n = 0
    <3>1. m > 0 => c[1] = b[1]
      <4>1. m > 0 => 1 \in 1 .. m /\ n + 1 = 1
        BY <1>2, <2>2
      <4> QED
        BY <1>2, <4>1
    <3>2. Len(c) > 0 => m > 0
      BY <1>2, <2>2
    <3> QED
      BY <1>1, <3>1, <3>2 DEF Whole, m
  <2> QED
    BY <1>2, <2>1, <2>2
<1> QED
  BY <1>2, <1>7, <1>8, <1>9 DEF Blocks, Whole, c

LEMMA EmptyBlock ==
  ASSUME NEW names, NEW X
  PROVE  << >> \in Blocks(names, X)
<1> DEFINE e == << >>
<1>1. e \in Seq(Kinds(names, X)) /\ Len(e) = 0
  OBVIOUS
<1> HIDE DEF e
<1>2. Whole(e)
  BY <1>1 DEF Whole, Disciplined, Held
<1> QED
  BY <1>1, <1>2 DEF Blocks, e

(* A block between a step and another.                                     *)
LEMMA WrappedBlock ==
  ASSUME NEW S, NEW p \in S, NEW q \in S, NEW b \in Seq(S)
  PROVE  LET c == <<p>> \o b \o <<q>>
         IN  /\ c \in Seq(S) /\ Len(c) = Len(b) + 2 /\ Len(b) \in Nat
             /\ c[1] = p /\ c[Len(b) + 2] = q
             /\ \A k \in 1 .. Len(b) : c[k + 1] = b[k]
<1> DEFINE a == <<p>> \o b
           c == a \o <<q>>
           n == Len(b)
<1>1. <<p>> \in Seq(S) /\ <<q>> \in Seq(S) /\ Len(<<p>>) = 1 /\ Len(<<q>>) = 1 /\ n \in Nat
  OBVIOUS
<1>2. /\ a \in Seq(S) /\ Len(a) = 1 + n
      /\ \A i \in 1 .. 1 + n : a[i] = IF i <= 1 THEN p ELSE b[i - 1]
  BY <1>1, ConcatProperties
<1> HIDE DEF a
<1>3. /\ c \in Seq(S) /\ Len(c) = 1 + n + 1
      /\ \A i \in 1 .. 1 + n + 1 : c[i] = IF i <= 1 + n THEN a[i] ELSE <<q>>[i - (1 + n)]
  BY <1>1, <1>2, ConcatProperties
<1> HIDE DEF c, n
<1>4. c[1] = p
  BY <1>1, <1>2, <1>3
<1>5. c[n + 2] = q
  BY <1>1, <1>2, <1>3
<1>6. ASSUME NEW k \in 1 .. n PROVE c[k + 1] = b[k]
  <2>1. k + 1 \in 1 .. 1 + n /\ k + 1 \in 1 .. 1 + n + 1 /\ ~(k + 1 <= 1) /\ k + 1 - 1 = k
        /\ k + 1 <= 1 + n
    BY <1>1
  <2> QED
    BY <1>2, <1>3, <2>1
<1>7. c \in Seq(S) /\ Len(c) = n + 2 /\ n \in Nat
  BY <1>1, <1>3
<1> QED
  BY <1>4, <1>5, <1>6, <1>7 DEF c, a, n

(* c is the steps of b between the locking and the unlocking of x.         *)
Encloses(c, x, b) ==
  /\ c[1] = <<"lock", x>>
  /\ \A i \in 2 .. Len(c) : Held(c, i, x) /\ c[i] # <<"lock", x>>
  /\ \A k \in 1 .. Len(b) : k + 1 \in 1 .. Len(c) /\ c[k + 1] = b[k]

(* A block that does not touch x, under x.                                 *)
LEMMA LockedBlock ==
  ASSUME NEW names, names \cap {"lock", "unlock"} = {}, NEW X, NEW x \in Mutexes, x \notin X,
         NEW b \in Blocks(names, X), NEW d, d = Locked(x, b)
  PROVE  d \in Blocks(names, X \cup {x}) /\ Encloses(d, x, b)
<1> DEFINE Y == X \cup {x}
           K == Kinds(names, Y)
           p == <<"lock", x>>
           q == <<"unlock", x>>
           c == <<p>> \o b \o <<q>>
           n == Len(b)
<1>1. b \in Seq(Kinds(names, X)) /\ Whole(b)
  BY DEF Blocks
<1>2. Kinds(names, X) \subseteq K /\ p \in K /\ q \in K
  BY DEF Kinds, AllSteps
<1>3. b \in Seq(K)
  <2>1. Seq(Kinds(names, X)) \subseteq Seq(K)
    BY ONLY <1>2, SeqMonotonic
  <2> QED
    BY ONLY <1>1, <2>1
<1>4. /\ c \in Seq(K) /\ Len(c) = n + 2 /\ n \in Nat
      /\ c[1] = p /\ c[n + 2] = q
      /\ \A k \in 1 .. n : c[k + 1] = b[k]
  BY ONLY <1>2, <1>3, WrappedBlock
<1>5. \A k \in 1 .. n : b[k] # p /\ b[k] # q
  <2>1. \A k \in 1 .. n : b[k] \in Kinds(names, X)
    BY <1>1
  <2>2. p \notin Kinds(names, X) /\ q \notin Kinds(names, X)
    BY DEF Kinds
  <2> QED
    BY <2>1, <2>2
<1>6. c = d
  BY DEF Locked, Do
<1> HIDE DEF c, n, K
<1>7. \A k \in 2 .. n + 2 : c[k] # p
  <2>1. ASSUME NEW k \in 2 .. n + 2 PROVE c[k] # p
    <3>1. CASE k = n + 2
      BY <1>4, <3>1
    <3>2. CASE k # n + 2
      <4>1. k - 1 \in 1 .. n /\ k - 1 + 1 = k
        BY <1>4, <3>2
      <4>2. c[k - 1 + 1] = b[k - 1] /\ b[k - 1] # p
        BY <1>4, <1>5, <4>1
      <4> QED
        BY <4>1, <4>2
    <3> QED
      BY <3>1, <3>2
  <2> QED
    BY <2>1
<1>8. ASSUME NEW i \in 2 .. n + 2 PROVE Held(c, i, x)
  <2> DEFINE h == n + 2
  <2>1. h \in i .. n + 2 /\ c[h] = q /\ \A k \in i .. h - 1 : k \in 2 .. n + 2
    BY <1>4
  <2> HIDE DEF h
  <2> QED
    BY <1>4, <1>7, <2>1 DEF Held
<1>9. ~Held(c, 1, x) /\ \A y : ~Held(c, n + 3, y)
  <2>1. ~Held(c, 1, x)
    <3>1. SUFFICES ASSUME NEW j \in 1 .. n + 2, c[j] = q,
                          \A k \in 1 .. j - 1 : c[k] # p
                   PROVE  FALSE
      BY <1>4 DEF Held
    <3>2. j # 1
      <4>1. p # q
        OBVIOUS
      <4> HIDE DEF p, q
      <4> QED
        BY <1>4, <3>1, <4>1
    <3>3. 1 \in 1 .. j - 1
      BY <1>4, <3>2
    <3> QED
      BY <1>4, <3>1, <3>3
  <2>2. \A y : ~Held(c, n + 3, y)
    BY <1>4 DEF Held
  <2> QED
    BY <2>1, <2>2
<1>10. ASSUME NEW y, y # x, NEW k \in 1 .. n + 1 PROVE Held(c, k + 1, y) <=> Held(b, k, y)
  <2>1. ASSUME Held(b, k, y) PROVE Held(c, k + 1, y)
    <3>1. PICK j \in k .. n : b[j] = <<"unlock", y>> /\ \A l \in k .. j - 1 : b[l] # <<"lock", y>>
      BY <2>1 DEF Held, n
    <3> DEFINE h == j + 1
    <3>2. h \in k + 1 .. n + 2 /\ c[h] = <<"unlock", y>>
      BY <1>4, <3>1
    <3>3. ASSUME NEW l \in k + 1 .. h - 1 PROVE c[l] # <<"lock", y>>
      <4>1. l - 1 \in 1 .. n /\ l - 1 \in k .. j - 1 /\ l - 1 + 1 = l
        BY <1>4
      <4>2. c[l - 1 + 1] = b[l - 1]
        BY <1>4, <4>1
      <4> QED
        BY <3>1, <4>1, <4>2
    <3> HIDE DEF h
    <3> QED
      BY <1>4, <3>2, <3>3 DEF Held
  <2>2. ASSUME Held(c, k + 1, y) PROVE Held(b, k, y)
    <3>1. PICK j \in k + 1 .. n + 2 :
            c[j] = <<"unlock", y>> /\ \A l \in k + 1 .. j - 1 : c[l] # <<"lock", y>>
      BY <1>4, <2>2 DEF Held
    <3>2. j # n + 2
      BY <1>4, <1>10, <3>1
    <3> DEFINE h == j - 1
    <3>3. h \in 1 .. n /\ h \in k .. n /\ h + 1 = j
      BY <1>4, <3>2
    <3>4. b[h] = <<"unlock", y>>
      BY <1>4, <3>1, <3>3
    <3>5. ASSUME NEW l \in k .. h - 1 PROVE b[l] # <<"lock", y>>
      <4>1. l \in 1 .. n /\ l + 1 \in k + 1 .. j - 1
        BY <1>4, <3>3
      <4> QED
        BY <1>4, <3>1, <4>1
    <3> HIDE DEF h
    <3> QED
      BY <3>3, <3>4, <3>5 DEF Held, n
  <2> QED
    BY <2>1, <2>2
<1>11. ASSUME NEW y, y # x PROVE Held(c, 1, y) <=> Held(b, 1, y)
  <2>1. ASSUME Held(c, 2, y) PROVE Held(c, 1, y)
    <3>1. PICK j \in 2 .. n + 2 :
            c[j] = <<"unlock", y>> /\ \A l \in 2 .. j - 1 : c[l] # <<"lock", y>>
      BY <1>4, <2>1 DEF Held
    <3>2. j \in 1 .. n + 2 /\ \A l \in 1 .. j - 1 : l = 1 \/ l \in 2 .. j - 1
      BY <1>4
    <3>3. c[1] # <<"lock", y>>
      BY <1>4, <1>11
    <3> QED
      BY <1>4, <3>1, <3>2, <3>3 DEF Held
  <2>2. ASSUME Held(c, 1, y) PROVE Held(c, 2, y)
    <3>1. PICK j \in 1 .. n + 2 :
            c[j] = <<"unlock", y>> /\ \A l \in 1 .. j - 1 : c[l] # <<"lock", y>>
      BY <1>4, <2>2 DEF Held
    <3>2. j # 1
      BY <1>4, <3>1
    <3>3. j \in 2 .. n + 2 /\ \A l \in 2 .. j - 1 : l \in 1 .. j - 1
      BY <1>4, <3>2
    <3> QED
      BY <1>4, <3>1, <3>3 DEF Held
  <2>3. 1 \in 1 .. n + 1 /\ 1 + 1 = 2
    BY <1>4
  <2>4. Held(c, 2, y) <=> Held(b, 1, y)
    BY <1>10, <1>11, <2>3
  <2> QED
    BY <2>1, <2>2, <2>4
<1>12. InPlace(c, 1)
  <2>1. Held(c, 2, x)
    BY <1>4, <1>8
  <2> QED
    BY <1>4, <2>1 DEF InPlace
<1>13. InPlace(c, n + 2)
  <2>1. ~Held(c, n + 2 + 1, x)
    <3>1. n + 2 + 1 = n + 3
      BY <1>4
    <3> QED
      BY <1>9, <3>1
  <2> QED
    BY <1>4, <2>1 DEF InPlace
<1>14. ASSUME NEW k \in 1 .. n PROVE InPlace(c, k + 1)
  <2>1. c[k + 1] = b[k] /\ b[k] # p /\ b[k] # q
    BY <1>4, <1>5
  <2>2. InPlace(b, k)
    BY <1>1 DEF Whole, Disciplined, n
  <2>3. \A y : y # x => /\ Held(c, k + 1, y) <=> Held(b, k, y)
                        /\ Held(c, k + 1 + 1, y) <=> Held(b, k + 1, y)
    <3>1. k \in 1 .. n + 1 /\ k + 1 \in 1 .. n + 1
      BY <1>4
    <3> QED
      BY <1>10, <3>1
  <2>4. Held(c, k + 1, x)
    <3>1. k + 1 \in 2 .. n + 2
      BY <1>4
    <3> QED
      BY <1>8, <3>1
  <2>5. \A y \in Summaries : b[k] = <<"zero", y>> => c[k] = <<"clear", y>>
    <3>1. k > 1 => k - 1 \in 1 .. n /\ k - 1 + 1 = k
      BY <1>4
    <3>2. k > 1 => c[k] = b[k - 1]
      <4>1. k > 1 => c[k - 1 + 1] = b[k - 1]
        BY <1>4, <3>1
      <4> QED
        BY <3>1, <4>1
    <3>3. k = 1 => \A y \in Summaries : b[k] # <<"zero", y>>
      BY <1>1, <1>4 DEF Whole, n
    <3>4. k = 1 \/ k > 1
      BY <1>4
    <3> QED
      BY <2>2, <3>2, <3>3, <3>4 DEF InPlace
  <2>6. \A y \in Summaries :
          b[k] = <<"copy", y>> => \E j \in k + 1 + 1 .. n + 2 : c[j] = <<"print", y>>
    <3>1. SUFFICES ASSUME NEW y \in Summaries, b[k] = <<"copy", y>>
                   PROVE  \E j \in k + 1 + 1 .. n + 2 : c[j] = <<"print", y>>
      OBVIOUS
    <3>2. PICK j \in k + 1 .. n : b[j] = <<"print", y>>
      BY <2>2, <3>1 DEF InPlace, n
    <3>3. j + 1 \in k + 1 + 1 .. n + 2 /\ c[j + 1] = b[j]
      BY <1>4
    <3> QED
      BY <3>2, <3>3
  <2>7. k + 1 - 1 = k
    BY <1>4
  <2>8. \A y \in Summaries : y \in Mutexes
    BY DEF Mutexes
  <2>9. \A y \in Mutexes : b[k] = <<"lock", y>> => Held(c, k + 1 + 1, y)
    BY <2>1, <2>2, <2>3 DEF InPlace
  <2>10. \A y \in Mutexes : b[k] = <<"unlock", y>> => ~Held(c, k + 1 + 1, y)
    BY <2>1, <2>2, <2>3 DEF InPlace
  <2>11. \A y \in Summaries :
           b[k] \in {"copy", "clear", "push", "zero"} \X {y} => Held(c, k + 1, y)
    BY <2>2, <2>3, <2>4 DEF InPlace
  <2> QED
    BY <1>4, <2>1, <2>5, <2>6, <2>7, <2>9, <2>10, <2>11 DEF InPlace
<1>15. Disciplined(c)
  <2>1. ASSUME NEW i \in 1 .. n + 2 PROVE InPlace(c, i)
    <3>1. CASE i = 1 \/ i = n + 2
      BY <1>12, <1>13, <3>1
    <3>2. CASE i # 1 /\ i # n + 2
      <4>1. i - 1 \in 1 .. n /\ i - 1 + 1 = i
        BY <1>4, <3>2
      <4>2. InPlace(c, i - 1 + 1)
        BY <1>14, <4>1
      <4> QED
        BY <4>1, <4>2
    <3> QED
      BY <3>1, <3>2
  <2> QED
    BY <1>4, <2>1 DEF Disciplined
<1>16. Whole(c)
  <2>1. \A y \in Mutexes : ~Held(c, 1, y)
    BY <1>1, <1>9, <1>11 DEF Whole
  <2>2. \A y \in Summaries : c[1] # <<"zero", y>>
    BY <1>4
  <2> QED
    BY <1>15, <2>1, <2>2 DEF Whole
<1>17. c \in Blocks(names, X \cup {x})
  BY <1>4, <1>16 DEF Blocks, K
<1>18. \A k \in 1 .. n : k + 1 \in 1 .. Len(c) /\ c[k + 1] = b[k]
  BY <1>4
<1> QED
  BY <1>4, <1>6, <1>7, <1>8, <1>17, <1>18 DEF n, Encloses

(* What is left of a program after its first step.                         *)
LEMMA RestOfProgram ==
  ASSUME NEW S, NEW s \in Seq(S), s # << >>
  PROVE  /\ Tail(s) \in Seq(S) /\ Len(Tail(s)) = Len(s) - 1 /\ Len(s) \in Nat /\ Len(s) > 0
         /\ \A i \in 1 .. Len(s) - 1 : Tail(s)[i] = s[i + 1]
         /\ \A x : \A i \in 1 .. Len(s) : Held(Tail(s), i, x) <=> Held(s, i + 1, x)
         /\ Disciplined(s) => Disciplined(Tail(s))
<1> DEFINE t == Tail(s)
           n == Len(s)
<1>1. /\ t \in Seq(S) /\ Len(t) = n - 1 /\ n \in Nat /\ n > 0
      /\ \A i \in 1 .. n - 1 : t[i] = s[i + 1]
  BY HeadTailProperties, EmptySeq
<1> HIDE DEF t, n
<1>2. ASSUME NEW x, NEW i \in 1 .. n PROVE Held(t, i, x) <=> Held(s, i + 1, x)
  <2>1. ASSUME Held(t, i, x) PROVE Held(s, i + 1, x)
    <3>1. PICK j \in i .. n - 1 :
            t[j] = <<"unlock", x>> /\ \A l \in i .. j - 1 : t[l] # <<"lock", x>>
      BY <1>1, <2>1 DEF Held
    <3> DEFINE h == j + 1
    <3>2. h \in i + 1 .. n /\ s[h] = <<"unlock", x>>
      BY <1>1, <3>1
    <3>3. ASSUME NEW l \in i + 1 .. h - 1 PROVE s[l] # <<"lock", x>>
      <4>1. l - 1 \in 1 .. n - 1 /\ l - 1 \in i .. j - 1 /\ l - 1 + 1 = l
        BY <1>1
      <4>2. t[l - 1] = s[l - 1 + 1]
        BY <1>1, <4>1
      <4> QED
        BY <3>1, <4>1, <4>2
    <3> HIDE DEF h
    <3> QED
      BY <3>2, <3>3 DEF Held, n
  <2>2. ASSUME Held(s, i + 1, x) PROVE Held(t, i, x)
    <3>1. PICK j \in i + 1 .. n :
            s[j] = <<"unlock", x>> /\ \A l \in i + 1 .. j - 1 : s[l] # <<"lock", x>>
      BY <2>2 DEF Held, n
    <3> DEFINE h == j - 1
    <3>2. h \in 1 .. n - 1 /\ h \in i .. n - 1 /\ h + 1 = j
      BY <1>1
    <3>3. t[h] = <<"unlock", x>>
      BY <1>1, <3>1, <3>2
    <3>4. ASSUME NEW l \in i .. h - 1 PROVE t[l] # <<"lock", x>>
      <4>1. l \in 1 .. n - 1 /\ l + 1 \in i + 1 .. j - 1
        BY <1>1, <3>2
      <4> QED
        BY <1>1, <3>1, <4>1
    <3> HIDE DEF h
    <3> QED
      BY <1>1, <3>2, <3>3, <3>4 DEF Held
  <2> QED
    BY <2>1, <2>2
<1>3. ASSUME Disciplined(s), NEW i \in 1 .. n - 1 PROVE InPlace(t, i)
  <2>1. i + 1 \in 1 .. n /\ i \in 1 .. n /\ t[i] = s[i + 1] /\ i + 1 > 1 /\ i + 1 - 1 = i
    BY <1>1
  <2>2. InPlace(s, i + 1)
    BY <1>3, <2>1 DEF Disciplined, n
  <2>3. \A x : /\ Held(t, i, x) <=> Held(s, i + 1, x)
               /\ Held(t, i + 1, x) <=> Held(s, i + 1 + 1, x)
    BY <1>2, <2>1
  <2>4. i > 1 => t[i - 1] = s[i]
    <3>1. i > 1 => i - 1 \in 1 .. n - 1 /\ i - 1 + 1 = i
      BY <1>1
    <3> QED
      BY <1>1, <3>1
  <2>5. \A x \in Summaries :
          s[i + 1] = <<"copy", x>> => \E j \in i + 1 .. n - 1 : t[j] = <<"print", x>>
    <3>1. SUFFICES ASSUME NEW x \in Summaries, s[i + 1] = <<"copy", x>>
                   PROVE  \E j \in i + 1 .. n - 1 : t[j] = <<"print", x>>
      OBVIOUS
    <3>2. PICK j \in i + 1 + 1 .. n : s[j] = <<"print", x>>
      BY <2>2, <3>1 DEF InPlace, n
    <3>3. j - 1 \in i + 1 .. n - 1 /\ j - 1 \in 1 .. n - 1 /\ j - 1 + 1 = j
      BY <1>1
    <3>4. t[j - 1] = s[j]
      BY <1>1, <3>3
    <3> QED
      BY <3>2, <3>3, <3>4
  <2>6. /\ \A x \in Mutexes : t[i] = <<"lock", x>> => Held(t, i + 1, x)
        /\ \A x \in Mutexes : t[i] = <<"unlock", x>> => ~Held(t, i + 1, x)
    BY <2>1, <2>2, <2>3 DEF InPlace
  <2>7. \A x \in Summaries : t[i] \in {"copy", "clear", "push", "zero"} \X {x} => Held(t, i, x)
    BY <2>1, <2>2, <2>3 DEF InPlace
  <2>8. \A x \in Summaries : t[i] = <<"zero", x>> /\ i > 1 => t[i - 1] = <<"clear", x>>
    BY <2>1, <2>2, <2>4 DEF InPlace
  <2> QED
    BY <1>1, <2>1, <2>5, <2>6, <2>7, <2>8 DEF InPlace
<1>4. Disciplined(s) => Disciplined(t)
  BY <1>1, <1>3 DEF Disciplined
<1> QED
  BY <1>1, <1>2, <1>4 DEF t, n

(* The programs that no other is inside of.                                *)

LEMMA FourSteps ==
  ASSUME NEW a, NEW b, NEW c, NEW d
  PROVE  /\ <<a>> \o <<b>> \o <<c>> \o <<d>> = <<a, b, c, d>>
         /\ <<a>> \o (<<b>> \o <<c>>) \o <<d>> = <<a, b, c, d>>
<1> DEFINE S == {a, b, c, d}
           four == <<a, b, c, d>>
           sa == <<a>>
           sb == <<b>>
           sc == <<c>>
           sd == <<d>>
           e == sa \o sb
           f == e \o sc
           g == sb \o sc
           h == sa \o g
<1>1. /\ four \in Seq(S) /\ Len(four) = 4
      /\ four[1] = a /\ four[2] = b /\ four[3] = c /\ four[4] = d
  OBVIOUS
<1>2. /\ sa \in Seq(S) /\ sb \in Seq(S) /\ sc \in Seq(S) /\ sd \in Seq(S)
      /\ Len(sa) = 1 /\ Len(sb) = 1 /\ Len(sc) = 1 /\ Len(sd) = 1
      /\ sa[1] = a /\ sb[1] = b /\ sc[1] = c /\ sd[1] = d
  OBVIOUS
<1> HIDE DEF S, four, sa, sb, sc, sd
<1>3. e \in Seq(S) /\ Len(e) = 2 /\ e[1] = a /\ e[2] = b
  BY <1>2, ConcatProperties
<1>4. g \in Seq(S) /\ Len(g) = 2 /\ g[1] = b /\ g[2] = c
  BY <1>2, ConcatProperties
<1> HIDE DEF e, g
<1>5. f \in Seq(S) /\ Len(f) = 3 /\ f[1] = a /\ f[2] = b /\ f[3] = c
  <2>1. /\ f \in Seq(S) /\ Len(f) = Len(e) + Len(sc)
        /\ \A i \in 1 .. Len(e) + Len(sc) :
             f[i] = IF i <= Len(e) THEN e[i] ELSE sc[i - Len(e)]
    BY <1>2, <1>3, ConcatProperties
  <2> HIDE DEF f
  <2> QED
    BY <1>2, <1>3, <2>1
<1>6. h \in Seq(S) /\ Len(h) = 3 /\ h[1] = a /\ h[2] = b /\ h[3] = c
  <2>1. /\ h \in Seq(S) /\ Len(h) = Len(sa) + Len(g)
        /\ \A i \in 1 .. Len(sa) + Len(g) :
             h[i] = IF i <= Len(sa) THEN sa[i] ELSE g[i - Len(sa)]
    BY <1>2, <1>4, ConcatProperties
  <2> HIDE DEF h
  <2> QED
    BY <1>2, <1>4, <2>1
<1> HIDE DEF f, h
<1>7. ASSUME NEW k \in Seq(S), Len(k) = 3, k[1] = a, k[2] = b, k[3] = c
      PROVE  k \o sd = four
  <2> DEFINE l == k \o sd
  <2>4. /\ l \in Seq(S) /\ Len(l) = Len(k) + Len(sd)
        /\ \A i \in 1 .. Len(k) + Len(sd) :
             l[i] = IF i <= Len(k) THEN k[i] ELSE sd[i - Len(k)]
    BY <1>2, <1>7, ConcatProperties
  <2> HIDE DEF l
  <2>1. l \in Seq(S) /\ Len(l) = 4 /\ l[1] = a /\ l[2] = b /\ l[3] = c /\ l[4] = d
    BY <1>2, <1>7, <2>4
  <2>2. \A i \in 1 .. 4 : i = 1 \/ i = 2 \/ i = 3 \/ i = 4
    OBVIOUS
  <2>3. \A i \in 1 .. Len(l) : l[i] = four[i]
    BY <1>1, <2>1, <2>2
  <2> QED
    BY <1>1, <2>1, <2>3, SeqEqual DEF l
<1>8. f \o sd = four /\ h \o sd = four
  BY <1>5, <1>6, <1>7
<1> QED
  BY <1>8 DEF e, f, g, h, four, sa, sb, sc, sd

LEMMA Spelt ==
  ASSUME NEW x
  PROVE  /\ PrintSummary(x) = << <<"lock", x>>, <<"copy", x>>, <<"unlock", x>>, <<"print", x>> >>
         /\ ResetSummary(x) = << <<"lock", x>>, <<"clear", x>>, <<"zero", x>>, <<"unlock", x>> >>
         /\ ObserveProgram(x) = << <<"lock", x>>, <<"push", x>>, <<"unlock", x>>, <<"count", x>> >>
<1>1. PrintSummary(x) = << <<"lock", x>>, <<"copy", x>>, <<"unlock", x>>, <<"print", x>> >>
  BY FourSteps, Zenon DEF PrintSummary, Locked, Do
<1>2. ResetSummary(x) = << <<"lock", x>>, <<"clear", x>>, <<"zero", x>>, <<"unlock", x>> >>
  BY FourSteps, Zenon DEF ResetSummary, Locked, Do
<1>3. ObserveProgram(x) = << <<"lock", x>>, <<"push", x>>, <<"unlock", x>>, <<"count", x>> >>
  BY FourSteps, Zenon DEF ObserveProgram, Locked, Do
<1> QED
  BY <1>1, <1>2, <1>3

(* A step that needs no mutex is a block.                                  *)
LEMMA StepBlock ==
  ASSUME NEW names, NEW X, NEW p \in Kinds(names, X), p[1] \in {"print", "zero"},
         p[1] = "zero" => p[2] \notin Summaries
  PROVE  <<p>> \in Blocks(names, X)
<1> DEFINE s == <<p>>
<1>1. s \in Seq(Kinds(names, X)) /\ Len(s) = 1 /\ s[1] = p
  OBVIOUS
<1> HIDE DEF s
<1>2. /\ \A x : p # <<"lock", x>> /\ p # <<"unlock", x>> /\ p # <<"copy", x>>
      /\ \A x : p # <<"clear", x>> /\ p # <<"push", x>>
      /\ \A x \in Summaries : p # <<"zero", x>>
  OBVIOUS
<1>3. \A x : ~Held(s, 1, x)
  BY <1>1, <1>2 DEF Held
<1>4. InPlace(s, 1)
  BY <1>1, <1>2 DEF InPlace
<1> QED
  BY <1>1, <1>2, <1>3, <1>4 DEF Blocks, Whole, Disciplined, s

(* So is a summary locked, worked on and unlocked.                         *)
LEMMA PrintSummaryBlock ==
  ASSUME NEW x \in Summaries
  PROVE  PrintSummary(x) \in Blocks({"copy", "print"}, Summaries)
<1> DEFINE s == << <<"lock", x>>, <<"copy", x>>, <<"unlock", x>>, <<"print", x>> >>
           K == Kinds({"copy", "print"}, Summaries)
<1>1. /\ <<"lock", x>> \in K /\ <<"copy", x>> \in K
      /\ <<"unlock", x>> \in K /\ <<"print", x>> \in K
  BY DEF Kinds, AllSteps, Mutexes, All, Totals
<1> HIDE DEF K
<1>2. /\ s \in Seq(K) /\ Len(s) = 4
      /\ s[1] = <<"lock", x>> /\ s[2] = <<"copy", x>>
      /\ s[3] = <<"unlock", x>> /\ s[4] = <<"print", x>>
  BY <1>1
<1> HIDE DEF s
<1>3. /\ Held(s, 2, x) /\ \A y : ~Held(s, 4, y)
      /\ \A y : ~Held(s, 1, y)
  BY <1>2 DEF Held
<1>4. InPlace(s, 1) /\ InPlace(s, 2) /\ InPlace(s, 3) /\ InPlace(s, 4)
  BY <1>2, <1>3 DEF InPlace
<1>5. Whole(s)
  BY <1>2, <1>3, <1>4 DEF Whole, Disciplined
<1>6. s \in Seq(K)
  BY <1>2
<1> QED
  BY <1>5, <1>6, Spelt DEF Blocks, s, K

LEMMA ResetSummaryBlock ==
  ASSUME NEW x \in Summaries
  PROVE  ResetSummary(x) \in Blocks({"clear", "zero"}, Summaries)
<1> DEFINE s == << <<"lock", x>>, <<"clear", x>>, <<"zero", x>>, <<"unlock", x>> >>
           K == Kinds({"clear", "zero"}, Summaries)
<1>1. /\ <<"lock", x>> \in K /\ <<"clear", x>> \in K
      /\ <<"unlock", x>> \in K /\ <<"zero", x>> \in K
  BY DEF Kinds, AllSteps, Mutexes, All, Totals
<1> HIDE DEF K
<1>2. /\ s \in Seq(K) /\ Len(s) = 4
      /\ s[1] = <<"lock", x>> /\ s[2] = <<"clear", x>>
      /\ s[3] = <<"zero", x>> /\ s[4] = <<"unlock", x>>
  BY <1>1
<1> HIDE DEF s
<1>3. /\ Held(s, 2, x) /\ Held(s, 3, x) /\ \A y : ~Held(s, 5, y)
      /\ \A y : ~Held(s, 1, y)
  BY <1>2 DEF Held
<1>4. InPlace(s, 1) /\ InPlace(s, 2) /\ InPlace(s, 3) /\ InPlace(s, 4)
  BY <1>2, <1>3 DEF InPlace
<1>5. Whole(s)
  BY <1>2, <1>3, <1>4 DEF Whole, Disciplined
<1>6. s \in Seq(K)
  BY <1>2
<1> QED
  BY <1>5, <1>6, Spelt DEF Blocks, s, K

LEMMA ObserveBlock ==
  ASSUME NEW x \in Summaries
  PROVE  ObserveProgram(x) \in Blocks({"push", "count"}, Summaries)
<1> DEFINE s == << <<"lock", x>>, <<"push", x>>, <<"unlock", x>>, <<"count", x>> >>
           K == Kinds({"push", "count"}, Summaries)
<1>1. /\ <<"lock", x>> \in K /\ <<"push", x>> \in K
      /\ <<"unlock", x>> \in K /\ <<"count", x>> \in K
  BY DEF Kinds, AllSteps, Mutexes
<1> HIDE DEF K
<1>2. /\ s \in Seq(K) /\ Len(s) = 4
      /\ s[1] = <<"lock", x>> /\ s[2] = <<"push", x>>
      /\ s[3] = <<"unlock", x>> /\ s[4] = <<"count", x>>
  BY <1>1
<1> HIDE DEF s
<1>3. /\ Held(s, 2, x) /\ \A y : ~Held(s, 4, y)
      /\ \A y : ~Held(s, 1, y)
  BY <1>2 DEF Held
<1>4. InPlace(s, 1) /\ InPlace(s, 2) /\ InPlace(s, 3) /\ InPlace(s, 4)
  BY <1>2, <1>3 DEF InPlace
<1>5. Whole(s)
  BY <1>2, <1>3, <1>4 DEF Whole, Disciplined
<1>6. s \in Seq(K)
  BY <1>2
<1> QED
  BY <1>5, <1>6, Spelt DEF Blocks, s, K

(* The programs made of others.                                            *)

LEMMA MoreMutexes ==
  ASSUME NEW names, NEW X, NEW Y, X \subseteq Y
  PROVE  Blocks(names, X) \subseteq Blocks(names, Y)
<1>1. Kinds(names, X) \subseteq Kinds(names, Y)
  BY DEF Kinds
<1>2. Seq(Kinds(names, X)) \subseteq Seq(Kinds(names, Y))
  BY ONLY <1>1, SeqMonotonic
<1> QED
  BY <1>2 DEF Blocks

(* A loop over blocks is a block, and has their steps.                     *)
LEMMA LoopBlock ==
  ASSUME NEW names, NEW X, NEW n \in Nat, NEW ss,
         ss \in [1 .. n -> Blocks(names, X)]
  PROVE  /\ FlattenSeq(ss) \in Blocks(names, X)
         /\ \A i \in 1 .. n : Range(ss[i]) \subseteq Range(FlattenSeq(ss))
<1> DEFINE P == Blocks(names, X)
           S == Kinds(names, X)
<1>1. P \subseteq Seq(S)
  BY DEF Blocks
<1>2. << >> \in P /\ \A a, b \in P : a \o b \in P
  BY EmptyBlock, BlocksConcat
<1> HIDE DEF P, S
<1>3. ss \in Seq(P) /\ Len(ss) = n
  BY DEF P
<1>4. FlattenSeq(ss) \in P
  BY ONLY <1>2, <1>3, FlattenIn
<1>5. ss \in Seq(Seq(S))
  BY ONLY <1>1, <1>3, SeqMonotonic
<1>6. ASSUME NEW i \in 1 .. n, NEW e \in Range(ss[i]) PROVE e \in Range(FlattenSeq(ss))
  <2>1. i \in 1 .. Len(ss)
    BY <1>3
  <2> QED
    BY ONLY <1>5, <1>6, <2>1, FlattenHas
<1> QED
  BY <1>4, <1>6 DEF P

LEMMA PrintMetricBlock ==
  ASSUME NEW m \in All
  PROVE  PrintMetric(m) \in Blocks({"copy", "print"}, Summaries)
<1>1. CASE m \in Summaries
  BY <1>1, PrintSummaryBlock DEF PrintMetric
<1>2. CASE m \notin Summaries
  <2> DEFINE p == <<"print", m>>
  <2>1. p \in Kinds({"copy", "print"}, Summaries) /\ p[1] = "print"
    BY DEF Kinds, AllSteps
  <2> HIDE DEF p
  <2>2. <<p>> \in Blocks({"copy", "print"}, Summaries)
    BY <2>1, StepBlock
  <2>3. PrintMetric(m) = <<p>>
    BY <1>2 DEF PrintMetric, PrintValue, Do, p
  <2> QED
    BY <2>2, <2>3
<1> QED
  BY <1>1, <1>2

LEMMA ResetMetricBlock ==
  ASSUME NEW m \in All
  PROVE  /\ ResetMetric(m) \in Blocks({"clear", "zero"}, Summaries)
         /\ <<"zero", m>> \in Range(ResetMetric(m))
<1>1. CASE m \in Summaries
  <2> DEFINE s == << <<"lock", m>>, <<"clear", m>>, <<"zero", m>>, <<"unlock", m>> >>
  <2>1. ResetMetric(m) = s
    BY <1>1, Spelt DEF ResetMetric
  <2>2. DOMAIN s = 1 .. 4 /\ s[3] = <<"zero", m>>
    OBVIOUS
  <2> HIDE DEF s
  <2>3. <<"zero", m>> \in Range(s)
    BY <2>2 DEF Range
  <2> QED
    BY <1>1, <2>1, <2>3, ResetSummaryBlock DEF ResetMetric
<1>2. CASE m \notin Summaries
  <2> DEFINE p == <<"zero", m>>
             s == <<p>>
  <2>1. p \in Kinds({"clear", "zero"}, Summaries) /\ p[1] = "zero" /\ p[2] = m
    BY DEF Kinds, AllSteps
  <2> HIDE DEF p
  <2>2. s \in Blocks({"clear", "zero"}, Summaries)
    BY <1>2, <2>1, StepBlock
  <2>3. ResetMetric(m) = s
    BY <1>2 DEF ResetMetric, Do, p
  <2>4. p \in Range(s)
    <3>1. 1 \in DOMAIN s /\ s[1] = p
      OBVIOUS
    <3> QED
      BY <3>1 DEF Range
  <2> QED
    BY <2>2, <2>3, <2>4 DEF p
<1> QED
  BY <1>1, <1>2

LEMMA PrintFamilyBlock ==
  ASSUME NEW f \in Families
  PROVE  PrintFamily(f) \in Blocks({"copy", "print"}, Summaries)
<1> DEFINE n == Len(Metrics[f])
           ss == [i \in 1 .. n |-> PrintMetric(Metrics[f][i])]
<1>1. Metrics[f] \in Seq(All)
  BY PrometheusAssumption
<1>2. n \in Nat /\ \A i \in 1 .. n : Metrics[f][i] \in All
  BY <1>1
<1>3. ss \in [1 .. n -> Blocks({"copy", "print"}, Summaries)]
  BY <1>2, PrintMetricBlock
<1>4. PrintFamily(f) = FlattenSeq(ss)
  BY DEF PrintFamily, Each
<1> HIDE DEF n, ss
<1> QED
  BY <1>2, <1>3, <1>4, LoopBlock

(* The steps of a block are those of the block locked.                     *)
LEMMA LockedHas ==
  ASSUME NEW names, names \cap {"lock", "unlock"} = {}, NEW X, NEW x \in Mutexes, x \notin X,
         NEW b \in Blocks(names, X)
  PROVE  Range(b) \subseteq Range(Locked(x, b))
<1> DEFINE c == Locked(x, b)
<1>0. c = Locked(x, b)
  OBVIOUS
<1> HIDE DEF c
<1>1. /\ c \in Blocks(names, X \cup {x})
      /\ \A k \in 1 .. Len(b) : k + 1 \in 1 .. Len(c) /\ c[k + 1] = b[k]
  <2>1. c \in Blocks(names, X \cup {x}) /\ Encloses(c, x, b)
    BY <1>0, LockedBlock
  <2> QED
    BY <2>1 DEF Encloses
<1>2. DOMAIN c = 1 .. Len(c) /\ DOMAIN b = 1 .. Len(b)
  BY <1>1 DEF Blocks
<1> QED
  BY <1>1, <1>2 DEF Range, c

LEMMA ResetFamilyBlock ==
  ASSUME NEW f \in Families
  PROVE  /\ ResetFamily(f) \in Blocks({"clear", "zero"}, Summaries \cup Families)
         /\ \A m \in Range(Metrics[f]) : <<"zero", m>> \in Range(ResetFamily(f))
<1> DEFINE n == Len(Metrics[f])
           ss == [i \in 1 .. n |-> ResetMetric(Metrics[f][i])]
           b == FlattenSeq(ss)
           N == {"clear", "zero"}
<1>1. Metrics[f] \in Seq(All) /\ f \notin Summaries /\ f \in Mutexes
  BY PrometheusAssumption DEF Mutexes
<1>2. /\ n \in Nat /\ DOMAIN Metrics[f] = 1 .. n
      /\ \A i \in 1 .. n : Metrics[f][i] \in All
  BY <1>1
<1>3. /\ ss \in [1 .. n -> Blocks(N, Summaries)]
      /\ \A i \in 1 .. n : <<"zero", Metrics[f][i]>> \in Range(ss[i])
  BY <1>2, ResetMetricBlock
<1>4. ResetFamily(f) = Locked(f, b)
  BY DEF ResetFamily, Each
<1>5. N \cap {"lock", "unlock"} = {}
  OBVIOUS
<1> HIDE DEF n, ss, N
<1>6. b \in Blocks(N, Summaries) /\ \A i \in 1 .. n : Range(ss[i]) \subseteq Range(b)
  BY <1>2, <1>3, LoopBlock
<1> HIDE DEF b
<1>7. /\ Locked(f, b) \in Blocks(N, Summaries \cup {f})
      /\ Range(b) \subseteq Range(Locked(f, b))
  BY <1>1, <1>5, <1>6, LockedBlock, LockedHas
<1>8. Blocks(N, Summaries \cup {f}) \subseteq Blocks(N, Summaries \cup Families)
  BY MoreMutexes
<1>9. ASSUME NEW m \in Range(Metrics[f]) PROVE <<"zero", m>> \in Range(Locked(f, b))
  <2>1. PICK i \in 1 .. n : m = Metrics[f][i]
    BY <1>2 DEF Range
  <2>2. <<"zero", m>> \in Range(ss[i])
    BY <1>3, <2>1
  <2> QED
    BY <1>6, <1>7, <2>2
<1> QED
  BY <1>4, <1>7, <1>8, <1>9 DEF N

(* What prints a metric or zeroes one does so with the registry locked,    *)
(* which nothing locks but the first step.                                 *)
InRegistry(s) ==
  \A i \in 1 .. Len(s) :
    /\ s[i][1] \in {"print", "zero"} => Held(s, i, Registry)
    /\ i > 1 => s[i] # <<"lock", Registry>>

LEMMA OrderFacts ==
  ASSUME order \in Orders
  PROVE  /\ Len(order) \in Nat
         /\ \A i \in 1 .. Len(order) : order[i] \in Families
         /\ \A f \in Families : \E i \in 1 .. Len(order) : order[i] = f
<1> DEFINE n == Cardinality(Families)
           R == {order[i] : i \in 1 .. n}
<1>1. /\ IsFiniteSet(Families)
      /\ order \in [1 .. n -> Families]
      /\ \A i, j \in 1 .. n : i # j => order[i] # order[j]
  BY PrometheusAssumption DEF SetToSeqs
<1>2. n \in Nat
  BY <1>1, FS_CardinalityType
<1>3. Len(order) = n
  BY <1>1, <1>2
<1>4. IsFiniteSet(1 .. n) /\ Cardinality(1 .. n) = n
  BY <1>2, UpToNumber
<1> HIDE DEF n
<1>5. R \subseteq Families
  BY <1>1
<1>6. ExistsBijection(1 .. n, R)
  <2> DEFINE g == [i \in 1 .. n |-> order[i]]
  <2>1. g \in Bijection(1 .. n, R)
    BY <1>1 DEF Bijection, Injection, Surjection, IsInjective
  <2> QED
    BY <2>1 DEF ExistsBijection
<1>7. Cardinality(R) = n
  BY <1>4, <1>6, FS_Bijection
<1>8. R = Families
  BY <1>1, <1>5, <1>7, FS_Subset DEF n
<1> QED
  BY <1>1, <1>2, <1>3, <1>8

LEMMA SerializeBlock ==
  ASSUME order \in Orders
  PROVE  /\ SerializeProgram \in Blocks({"copy", "print"}, Summaries \cup {Registry})
         /\ InRegistry(SerializeProgram)
<1> DEFINE n == Len(order)
           ss == [i \in 1 .. n |-> PrintFamily(order[i])]
           b == FlattenSeq(ss)
           N == {"copy", "print"}
           c == Locked(Registry, b)
<1>1. n \in Nat /\ \A i \in 1 .. n : order[i] \in Families
  BY OrderFacts
<1>2. ss \in [1 .. n -> Blocks(N, Summaries)]
  BY <1>1, PrintFamilyBlock
<1>3. SerializeProgram = c
  BY DEF SerializeProgram, Each
<1>4. N \cap {"lock", "unlock"} = {} /\ Registry \in Mutexes /\ Registry \notin Summaries
  BY PrometheusAssumption DEF Mutexes
<1>0. c = Locked(Registry, b)
  OBVIOUS
<1> HIDE DEF n, ss, N, c
<1>5. b \in Blocks(N, Summaries)
  BY <1>1, <1>2, LoopBlock
<1> HIDE DEF b
<1>6. /\ c \in Blocks(N, Summaries \cup {Registry})
      /\ \A i \in 2 .. Len(c) : Held(c, i, Registry) /\ c[i] # <<"lock", Registry>>
      /\ c[1] = <<"lock", Registry>>
  <2>1. c \in Blocks(N, Summaries \cup {Registry}) /\ Encloses(c, Registry, b)
    BY <1>0, <1>4, <1>5, LockedBlock
  <2> QED
    BY <2>1 DEF Encloses
<1>7. Len(c) \in Nat /\ \A i \in 1 .. Len(c) : i = 1 \/ i \in 2 .. Len(c)
  BY <1>6 DEF Blocks
<1>8. InRegistry(c)
  BY <1>6, <1>7 DEF InRegistry
<1> QED
  BY <1>3, <1>6, <1>8 DEF N

LEMMA ResetBlock ==
  ASSUME order \in Orders
  PROVE  /\ ResetProgram \in Blocks({"clear", "zero"}, Summaries \cup Families \cup {Registry})
         /\ InRegistry(ResetProgram)
         /\ \A m \in All : <<"zero", m>> \in Range(ResetProgram)
<1> DEFINE n == Len(order)
           ss == [i \in 1 .. n |-> ResetFamily(order[i])]
           b == FlattenSeq(ss)
           N == {"clear", "zero"}
           X == Summaries \cup Families
           c == Locked(Registry, b)
<1>1. /\ n \in Nat
      /\ \A i \in 1 .. n : order[i] \in Families
      /\ \A f \in Families : \E i \in 1 .. n : order[i] = f
  BY OrderFacts
<1>2. ss \in [1 .. n -> Blocks(N, X)]
  BY <1>1, ResetFamilyBlock
<1>3. ResetProgram = c
  BY DEF ResetProgram, Each
<1>4. N \cap {"lock", "unlock"} = {} /\ Registry \in Mutexes /\ Registry \notin X
  BY PrometheusAssumption DEF Mutexes
<1>5. \A i \in 1 .. n : ss[i] = ResetFamily(order[i])
  OBVIOUS
<1>0. c = Locked(Registry, b)
  OBVIOUS
<1> HIDE DEF n, ss, N, X, c
<1>6. b \in Blocks(N, X) /\ \A i \in 1 .. n : Range(ss[i]) \subseteq Range(b)
  BY <1>1, <1>2, LoopBlock
<1> HIDE DEF b
<1>7. /\ c \in Blocks(N, X \cup {Registry})
      /\ \A i \in 2 .. Len(c) : Held(c, i, Registry) /\ c[i] # <<"lock", Registry>>
      /\ c[1] = <<"lock", Registry>>
      /\ Range(b) \subseteq Range(c)
  <2>1. c \in Blocks(N, X \cup {Registry}) /\ Encloses(c, Registry, b)
    BY <1>0, <1>4, <1>6, LockedBlock
  <2>2. Range(b) \subseteq Range(c)
    BY <1>0, <1>4, <1>6, LockedHas
  <2> QED
    BY <2>1, <2>2 DEF Encloses
<1>8. Len(c) \in Nat /\ \A i \in 1 .. Len(c) : i = 1 \/ i \in 2 .. Len(c)
  BY <1>7 DEF Blocks
<1>9. InRegistry(c)
  BY <1>7, <1>8 DEF InRegistry
<1>10. ASSUME NEW m \in All PROVE <<"zero", m>> \in Range(c)
  <2>1. PICK f \in Families : m \in Range(Metrics[f])
    BY PrometheusAssumption
  <2>2. PICK i \in 1 .. n : order[i] = f
    BY <1>1
  <2>3. <<"zero", m>> \in Range(ss[i])
    BY <1>5, <2>1, <2>2, ResetFamilyBlock
  <2> QED
    BY <1>6, <1>7, <2>3
<1> QED
  BY <1>3, <1>7, <1>9, <1>10 DEF N, X

-----------------------------------------------------------------------------
(* Counters.                                                               *)

(* Every metric shows a number.                                            *)
Numbers == value \in [All -> Number]

(* Adding an amount that is not negative, NaN included, never takes a      *)
(* number below what it was.                                               *)
LEMMA PlusRises ==
  ASSUME NEW a \in Number, NEW b \in Number, ~Less(b, 0)
  PROVE  Rises(a, Plus(a, b))
  BY PrometheusAssumption DEF Number, Less, Rises, Plus

LEMMA PlusNumber ==
  ASSUME NEW a \in Number, NEW b \in Number
  PROVE  Plus(a, b) \in Number
  BY PrometheusAssumption DEF Number, Plus

(* A metric that keeps its value does not fall.                            *)
LEMMA SameRises ==
  ASSUME NEW a \in Number
  PROVE  Rises(a, a)
  BY PrometheusAssumption DEF Number, Rises

LEMMA Initially == Init => Numbers
  BY DEF Init, Numbers, Number

(* The steps that do not write a value.                                    *)
Quiet(t) ==
  \/ Operation(t)
  \/ Lock(t) \/ Unlock(t) \/ Copy(t) \/ PrintLine(t)
  \/ Clear(t) \/ Push(t) \/ Return(t)

LEMMA QuietKeepsValues ==
  ASSUME NEW t \in Threads, Quiet(t)
  PROVE  value' = value
  BY DEF Quiet, Operation, Serialize, Reset, FamilyReset, MetricReset, Observe, Call, Lock,
         Unlock, Copy, PrintLine, Clear, Push, Return

(* An action leaves numbers, and no counter below what it was unless it is *)
(* the zeroing of that counter.                                            *)
StepRises ==
  \A c \in Counters :
    Rises(value[c], value'[c]) \/ \E t \in Threads : Zero(t) /\ On(t) = c

LEMMA UnchangedRises ==
  ASSUME Numbers, value' = value
  PROVE  Numbers' /\ StepRises
  <1>1. \A c \in Counters : value[c] \in Number
    BY DEF Numbers, All, Totals
  <1> QED
    BY <1>1, SameRises DEF Numbers, StepRises

(* Writing a number over the value of one metric is all an action does to  *)
(* values.                                                                 *)
LEMMA WriteRises ==
  ASSUME Numbers, NEW m, NEW v \in Number,
         value' = [value EXCEPT ![m] = v],
         m \in Counters => \/ Rises(value[m], v)
                           \/ \E t \in Threads : Zero(t) /\ On(t) = m
  PROVE  Numbers' /\ StepRises
  <1>1. Numbers'
    BY DEF Numbers
  <1>2. ASSUME NEW c \in Counters
        PROVE  Rises(value[c], value'[c]) \/ \E t \in Threads : Zero(t) /\ On(t) = c
    <2>1. c \in All /\ value[c] \in Number
      BY DEF Numbers, All, Totals
    <2>2. CASE c = m
      BY <2>1, <2>2 DEF Numbers
    <2>3. CASE c # m
      BY <2>1, <2>3, SameRises DEF Numbers
    <2> QED
      BY <2>2, <2>3
  <1> QED
    BY <1>1, <1>2 DEF StepRises

LEMMA NextRises ==
  ASSUME Numbers, [Next]_vars
  PROVE  Numbers' /\ StepRises
  <1>1. CASE \E t \in Threads : Quiet(t)
    BY <1>1, QuietKeepsValues, UnchangedRises
  <1>2. ASSUME NEW t \in Threads, Zero(t)
        PROVE  Numbers' /\ StepRises
    <2>1. value' = [value EXCEPT ![On(t)] = 0]
      BY <1>2 DEF Zero, Zeroed
    <2>2. 0 \in Number
      BY DEF Number
    <2> QED
      BY <1>2, <2>1, <2>2, WriteRises
  <1>3. ASSUME NEW t \in Threads, Count(t)
        PROVE  Numbers' /\ StepRises
    <2> DEFINE s == On(t)
    <2>1. value' = [value EXCEPT ![s] = Plus(value[s], 1)]
      BY <1>3 DEF Count
    <2>2. CASE s \in All
      <3>1. value[s] \in Number /\ 1 \in Number /\ ~Less(1, 0)
        BY <2>2 DEF Numbers, Number, Less
      <3>2. Plus(value[s], 1) \in Number /\ Rises(value[s], Plus(value[s], 1))
        BY <3>1, PlusNumber, PlusRises
      <3> QED
        BY <2>1, <3>2, WriteRises
    <2>3. CASE s \notin All
      BY <2>1, <2>3, UnchangedRises DEF Numbers
    <2> QED
      BY <2>2, <2>3
  <1>4. ASSUME NEW c \in Counters, UpdateCounter(c)
        PROVE  Numbers' /\ StepRises
    <2>1. PICK amount \in Amounts : Inc(c, amount)
      BY <1>4 DEF UpdateCounter
    <2>2. value[c] \in Number /\ amount \in Number
      BY PrometheusAssumption DEF Numbers, All, Totals
    <2>3. CASE Less(amount, 0)
      BY <2>1, <2>3, UnchangedRises DEF Inc, vars
    <2>4. CASE ~Less(amount, 0)
      <3>1. value' = [value EXCEPT ![c] = Plus(value[c], amount)]
        BY <2>1, <2>4 DEF Inc
      <3>2. /\ Plus(value[c], amount) \in Number
            /\ Rises(value[c], Plus(value[c], amount))
        BY <2>2, <2>4, PlusNumber, PlusRises
      <3> QED
        BY <3>1, <3>2, WriteRises
    <2> QED
      BY <2>3, <2>4
  <1>5. ASSUME NEW g \in Gauges, UpdateGauge(g)
        PROVE  Numbers' /\ StepRises
    <2>1. value[g] \in Number /\ g \notin Counters
      BY PrometheusAssumption DEF Numbers, All, Totals
    <2>2. \E v \in Number : value' = [value EXCEPT ![g] = v]
      <3>1. CASE \E v \in Amounts : Set(g, v)
        BY <3>1, PrometheusAssumption DEF Set
      <3>2. CASE Use(g)
        <4>1. Plus(value[g], 1) \in Number
          <5>1. 1 \in Number /\ -1 \in Number
            BY DEF Number
          <5> QED
            BY <2>1, <5>1, PlusNumber
        <4> QED
          BY <3>2, <4>1 DEF Use
      <3>3. CASE EndUse(g)
        <4>1. Plus(value[g], -1) \in Number
          <5>1. 1 \in Number /\ -1 \in Number
            BY DEF Number
          <5> QED
            BY <2>1, <5>1, PlusNumber
        <4> QED
          BY <3>3, <4>1 DEF EndUse
      <3> QED
        BY <1>5, <3>1, <3>2, <3>3 DEF UpdateGauge
    <2> QED
      BY <2>1, <2>2, WriteRises
  <1>6. CASE UNCHANGED vars \/ Finished
    <2>1. value' = value
      BY <1>6 DEF Finished, vars
    <2> QED
      BY <2>1, UnchangedRises
  <1> QED
    BY <1>1, <1>2, <1>3, <1>4, <1>5, <1>6 DEF Next, Step, Quiet

(* A counter only rises, for every number of threads and whatever they     *)
(* call: between two resets no scrape and no get() shows it fall (counter  *)
(* .cpp:26).                                                               *)
THEOREM CountersOnlyRise == Spec => CounterOnlyRises
  <1>1. Numbers /\ [Next]_vars => Numbers'
    BY NextRises
  <1>2. Numbers /\ [Next]_vars =>
          [\A c \in Counters : Rises(value[c], value'[c])
                                 \/ \E t \in Threads : Zero(t) /\ On(t) = c]_vars
    BY NextRises DEF StepRises
  <1> QED
    BY <1>1, <1>2, Initially, PTL DEF Spec, CounterOnlyRises

-----------------------------------------------------------------------------
(* The state of a thread.                                                  *)

Partial(S, T) == UNION {[D -> T] : D \in SUBSET S}

ScrapeStates ==
  [call : {"serialize"}, todo : Seq(AllSteps), base : [Totals -> Number],
   lines : Partial(Totals, Number), copied : Partial(Totals, Nat),
   late : Partial(Totals, Nat), reset : SUBSET Totals]

ResetStates ==
  [call : {"reset", "family_reset", "metric_reset"}, todo : Seq(AllSteps), covers : SUBSET Totals,
   since : [Totals -> Number]]

ObserveStates == [call : {"observe"}, todo : Seq(AllSteps)]

BusyStates == ScrapeStates \cup ResetStates \cup ObserveStates

(* The steps a call has of its own.                                        *)
NamesOf ==
  [serialize    |-> {"copy", "print"},
   reset        |-> {"clear", "zero"},
   family_reset |-> {"clear", "zero"},
   metric_reset |-> {"clear", "zero"},
   observe      |-> {"push", "count"}]

(* What a thread may have to do still in a call.                           *)
TodoOK(call, todo) ==
  /\ todo \in Seq(Kinds(NamesOf[call], Mutexes))
  /\ Disciplined(todo)
  /\ call \in {"serialize", "reset"} => InRegistry(todo)

ThreadOK(c) == c \in BusyStates /\ TodoOK(c.call, c.todo)

LEMMA RestOfTodo ==
  ASSUME NEW call, NEW todo, TodoOK(call, todo), todo # << >>
  PROVE  /\ TodoOK(call, Tail(todo))
         /\ Tail(todo) \in Seq(AllSteps)
         /\ call \in {"serialize", "reset"} =>
              <<"lock", Registry>> \notin Range(Tail(todo))
<1> DEFINE K == Kinds(NamesOf[call], Mutexes)
           rest == Tail(todo)
           n == Len(todo)
<1>1. todo \in Seq(K) /\ Disciplined(todo)
  BY DEF TodoOK
<1> HIDE DEF K
<1>2. /\ rest \in Seq(K) /\ Len(rest) = n - 1 /\ n \in Nat /\ n > 0
      /\ \A i \in 1 .. n - 1 : rest[i] = todo[i + 1]
      /\ \A x : \A i \in 1 .. n : Held(rest, i, x) <=> Held(todo, i + 1, x)
      /\ Disciplined(rest)
  BY <1>1, RestOfProgram
<1> HIDE DEF rest, n
<1>3. rest \in Seq(AllSteps)
  <2>1. K \subseteq AllSteps
    BY DEF K, Kinds
  <2> QED
    BY ONLY <1>2, <2>1, SeqMonotonic
<1>4. ASSUME InRegistry(todo)
      PROVE  InRegistry(rest) /\ <<"lock", Registry>> \notin Range(rest)
  <2>1. ASSUME NEW i \in 1 .. n - 1
        PROVE  /\ rest[i][1] \in {"print", "zero"} => Held(rest, i, Registry)
               /\ rest[i] # <<"lock", Registry>>
    <3>1. i + 1 \in 1 .. n /\ i \in 1 .. n /\ i + 1 > 1
      BY <1>2
    <3> QED
      BY <1>2, <1>4, <3>1 DEF InRegistry, n
  <2>2. DOMAIN rest = 1 .. n - 1
    BY <1>2
  <2> QED
    BY <1>2, <2>1, <2>2 DEF InRegistry, Range
<1>5. call \in {"serialize", "reset"} => InRegistry(todo)
  BY DEF TodoOK
<1> QED
  BY <1>1, <1>2, <1>3, <1>4, <1>5 DEF TodoOK, K, rest

(* The first step of a program.                                            *)
LEMMA FirstOfTodo ==
  ASSUME NEW call, NEW todo, TodoOK(call, todo), todo # << >>
  PROVE  /\ Head(todo) = todo[1] /\ 1 \in 1 .. Len(todo)
         /\ Head(todo) \in AllSteps
         /\ Head(todo)[1] \in NamesOf[call] \cup {"lock", "unlock"}
         /\ Head(todo) = <<Head(todo)[1], Head(todo)[2]>>
         /\ InPlace(todo, 1)
         /\ Range(todo) = {Head(todo)} \cup Range(Tail(todo))
<1> DEFINE K == Kinds(NamesOf[call], Mutexes)
           n == Len(todo)
           rest == Tail(todo)
<1>1. todo \in Seq(K) /\ Disciplined(todo)
  BY DEF TodoOK
<1> HIDE DEF K
<1>2. /\ n \in Nat /\ n > 0 /\ 1 \in 1 .. n /\ Head(todo) = todo[1] /\ todo[1] \in K
      /\ DOMAIN todo = 1 .. n
  BY <1>1, EmptySeq
<1>3. /\ todo[1] \in AllSteps
      /\ todo[1][1] \in NamesOf[call] \cup {"lock", "unlock"}
  BY <1>2 DEF K, Kinds
<1>4. todo[1] = <<todo[1][1], todo[1][2]>>
  BY <1>3 DEF AllSteps
<1>5. InPlace(todo, 1)
  BY <1>1, <1>2 DEF Disciplined
<1>6. /\ rest \in Seq(K) /\ Len(rest) = n - 1
      /\ \A i \in 1 .. n - 1 : rest[i] = todo[i + 1]
  BY <1>1, RestOfProgram
<1> HIDE DEF rest, n
<1>7. DOMAIN rest = 1 .. n - 1
  BY <1>2, <1>6
<1>8. Range(todo) \subseteq {todo[1]} \cup Range(rest)
  <2>1. ASSUME NEW i \in 1 .. n, i # 1 PROVE todo[i] \in Range(rest)
    <3>1. i - 1 \in 1 .. n - 1 /\ i - 1 + 1 = i
      BY <1>2, <2>1
    <3>2. rest[i - 1] = todo[i - 1 + 1]
      BY <1>6, <3>1
    <3> QED
      BY <1>7, <3>1, <3>2 DEF Range
  <2> QED
    BY <1>2, <2>1 DEF Range
<1>9. {todo[1]} \cup Range(rest) \subseteq Range(todo)
  <2>1. \A i \in 1 .. n - 1 : i + 1 \in 1 .. n
    BY <1>2
  <2> QED
    BY <1>2, <1>6, <1>7, <2>1 DEF Range
<1> QED
  BY <1>2, <1>3, <1>4, <1>5, <1>8, <1>9 DEF n, rest

(* A thread that goes on keeps all but its program.                        *)
LEMMA Forward ==
  ASSUME NEW c, ThreadOK(c), c.todo # << >>, NEW d, d = [c EXCEPT !.todo = Tail(@)]
  PROVE  /\ ThreadOK(d) /\ d.call = c.call /\ d.todo = Tail(c.todo)
         /\ c \in ScrapeStates =>
              /\ d \in ScrapeStates /\ d.base = c.base /\ d.lines = c.lines
              /\ d.copied = c.copied /\ d.late = c.late /\ d.reset = c.reset
         /\ c \in ResetStates =>
              d \in ResetStates /\ d.covers = c.covers /\ d.since = c.since
<1>1. TodoOK(c.call, Tail(c.todo)) /\ Tail(c.todo) \in Seq(AllSteps)
  BY RestOfTodo DEF ThreadOK
<1> DEFINE rest == Tail(c.todo)
<1> HIDE DEF rest
<1>2. d = [c EXCEPT !.todo = rest] /\ rest \in Seq(AllSteps)
  BY <1>1 DEF rest
<1>3. CASE c \in ScrapeStates
  <2>1. /\ d \in ScrapeStates /\ d.call = c.call /\ d.todo = rest
        /\ d.base = c.base /\ d.lines = c.lines /\ d.copied = c.copied
        /\ d.late = c.late /\ d.reset = c.reset
    BY <1>2, <1>3 DEF ScrapeStates
  <2>2. c \notin ResetStates
    BY <1>3 DEF ScrapeStates, ResetStates
  <2> QED
    BY <1>1, <2>1, <2>2 DEF ThreadOK, BusyStates, rest
<1>4. CASE c \in ResetStates
  <2>1. /\ d \in ResetStates /\ d.call = c.call /\ d.todo = rest
        /\ d.covers = c.covers /\ d.since = c.since
    BY <1>2, <1>4 DEF ResetStates
  <2>2. c \notin ScrapeStates
    BY <1>4 DEF ScrapeStates, ResetStates
  <2> QED
    BY <1>1, <2>1, <2>2 DEF ThreadOK, BusyStates, rest
<1>5. CASE c \in ObserveStates
  <2>1. d \in ObserveStates /\ d.call = c.call /\ d.todo = rest
    BY <1>2, <1>5 DEF ObserveStates
  <2>2. c \notin ScrapeStates /\ c \notin ResetStates
    BY <1>5 DEF ScrapeStates, ResetStates, ObserveStates
  <2> QED
    BY <1>1, <2>1, <2>2 DEF ThreadOK, BusyStates, rest
<1> QED
  BY <1>3, <1>4, <1>5 DEF ThreadOK, BusyStates

-----------------------------------------------------------------------------
(* Types.                                                                  *)

Typed ==
  /\ program \in Programs
  /\ order \in Orders
  /\ value \in [All -> Number] /\ \A s \in Summaries : value[s] \in Int
  /\ window \in [Summaries -> Nat]
  /\ mutex \in [Mutexes -> Threads \cup {NoThread}]
  /\ thread \in [Threads -> BusyStates \cup {Idle}]
  /\ \A t \in Busy : ThreadOK(thread[t])
  /\ calls \in 0 .. program.calls
  /\ updates \in [Counters \cup Gauges -> Nat]
  /\ \A m \in Counters \cup Gauges : updates[m] \in 0 .. MaxUpdates[m]
  /\ open \in [Gauges -> Nat]
  /\ skewed \subseteq Gauges

(* A state by the call it is in.                                           *)
LEMMA StateByCall ==
  ASSUME NEW c \in BusyStates \cup {Idle}
  PROVE  /\ c.call = "idle" <=> c = Idle
         /\ c.call = "serialize" <=> c \in ScrapeStates
         /\ c.call \in {"reset", "family_reset", "metric_reset"} <=> c \in ResetStates
         /\ c.call = "observe" <=> c \in ObserveStates
         /\ c.call # "idle" <=> c \in BusyStates
BY DEF BusyStates, ScrapeStates, ResetStates, ObserveStates, Idle

(* Thread u is where it was, in the call it was in.                        *)
Stays(u) ==
  /\ thread'[u].call = thread[u].call
  /\ u \in Busy => ThreadOK(thread'[u]) /\ thread'[u].todo = thread[u].todo

SameHistory(u) ==
  /\ thread[u].call = "serialize" =>
       /\ thread'[u].base = thread[u].base /\ thread'[u].lines = thread[u].lines
       /\ thread'[u].copied = thread[u].copied /\ thread'[u].late = thread[u].late
       /\ thread'[u].reset = thread[u].reset
  /\ u \in Resets => /\ thread'[u].covers = thread[u].covers
                     /\ thread'[u].since = thread[u].since

Others(t) == \A u \in Threads \ {t} : Stays(u) /\ SameHistory(u)

(* Thread t does the first step of its program.                            *)
Goes(t, step) ==
  /\ t \in Busy /\ thread[t].todo # << >>
  /\ Head(thread[t].todo) = <<step, On(t)>>
  /\ ThreadOK(thread[t]) /\ ThreadOK(thread'[t])
  /\ thread'[t].call = thread[t].call
  /\ thread'[t].todo = Tail(thread[t].todo)
  /\ step \in NamesOf[thread[t].call] \cup {"lock", "unlock"}

LEMMA FirstFacts ==
  ASSUME Typed, NEW t \in Threads, NEW step, First(t, step)
  PROVE  /\ t \in Busy /\ ThreadOK(thread[t]) /\ thread[t].todo # << >>
         /\ Head(thread[t].todo) = <<step, On(t)>>
         /\ <<step, On(t)>> \in AllSteps
         /\ step \in NamesOf[thread[t].call] \cup {"lock", "unlock"}
<1>1. t \in Busy /\ ThreadOK(thread[t]) /\ thread[t].todo # << >>
      /\ Head(thread[t].todo)[1] = step
  BY DEF First, Typed
<1>2. TodoOK(thread[t].call, thread[t].todo)
  BY <1>1 DEF ThreadOK
<1> DEFINE p == Head(thread[t].todo)
<1>3. /\ p \in AllSteps /\ p[1] \in NamesOf[thread[t].call] \cup {"lock", "unlock"}
      /\ p = <<p[1], p[2]>>
  BY <1>1, <1>2, FirstOfTodo
<1> QED
  BY <1>1, <1>3 DEF On

LEMMA GotoGoes ==
  ASSUME Typed, NEW t \in Threads, NEW step, First(t, step),
         NEW e, ThreadOK(e), e.call = thread[t].call, e.todo = thread[t].todo, Goto(t, e)
  PROVE  /\ Goes(t, step) /\ Others(t)
         /\ thread' \in [Threads -> BusyStates \cup {Idle}]
         /\ e.call = "serialize" =>
              /\ thread'[t].base = e.base /\ thread'[t].lines = e.lines
              /\ thread'[t].copied = e.copied /\ thread'[t].late = e.late
              /\ thread'[t].reset = e.reset
         /\ e.call \in {"reset", "family_reset", "metric_reset"} =>
              thread'[t].covers = e.covers /\ thread'[t].since = e.since
<1> DEFINE d == [e EXCEPT !.todo = Tail(@)]
<1>1. thread \in [Threads -> BusyStates \cup {Idle}] /\ \A u \in Busy : ThreadOK(thread[u])
  BY DEF Typed
<1>2. thread' = [thread EXCEPT ![t] = d]
  BY DEF Goto
<1>3. /\ t \in Busy /\ thread[t].todo # << >> /\ Head(thread[t].todo) = <<step, On(t)>>
      /\ ThreadOK(thread[t]) /\ step \in NamesOf[thread[t].call] \cup {"lock", "unlock"}
  BY FirstFacts
<1>4. e.todo # << >> /\ e \in BusyStates
  BY <1>3 DEF ThreadOK
<1>5. d = [e EXCEPT !.todo = Tail(@)]
  OBVIOUS
<1> HIDE DEF d
<1>6. /\ ThreadOK(d) /\ d.call = e.call /\ d.todo = Tail(e.todo)
      /\ e \in ScrapeStates =>
           /\ d \in ScrapeStates /\ d.base = e.base /\ d.lines = e.lines
           /\ d.copied = e.copied /\ d.late = e.late /\ d.reset = e.reset
      /\ e \in ResetStates =>
           d \in ResetStates /\ d.covers = e.covers /\ d.since = e.since
  BY <1>4, <1>5, Forward
<1>7. d \in BusyStates
  BY <1>6 DEF ThreadOK
<1>8. /\ thread' \in [Threads -> BusyStates \cup {Idle}]
      /\ thread'[t] = d /\ \A u \in Threads \ {t} : thread'[u] = thread[u]
  BY <1>1, <1>2, <1>7
<1>9. Others(t)
  BY <1>1, <1>8 DEF Others, Stays, SameHistory, Busy
<1>10. Goes(t, step)
  BY <1>3, <1>6, <1>8 DEF Goes
<1>11. /\ e.call = "serialize" => e \in ScrapeStates
       /\ e.call \in {"reset", "family_reset", "metric_reset"} => e \in ResetStates
  BY <1>4, StateByCall
<1> QED
  BY <1>6, <1>8, <1>9, <1>10, <1>11

(* A scrape whose history changes is still one.                            *)
LEMMA HistoryOK ==
  ASSUME NEW c, ThreadOK(c), NEW d, d \in BusyStates, d.call = c.call, d.todo = c.todo
  PROVE  ThreadOK(d)
BY DEF ThreadOK

LEMMA LockMoves ==
  ASSUME Typed, NEW t \in Threads, Lock(t)
  PROVE  /\ Goes(t, "lock") /\ Others(t) /\ On(t) \in Mutexes
         /\ thread' \in [Threads -> BusyStates \cup {Idle}]
         /\ t \in Scrapes =>
              /\ thread'[t].lines = thread[t].lines /\ thread'[t].copied = thread[t].copied
              /\ thread'[t].late = thread[t].late
              /\ IF On(t) = Registry
                   THEN thread'[t].base = Restrict(value, Totals) /\ thread'[t].reset = {}
                   ELSE thread'[t].base = thread[t].base /\ thread'[t].reset = thread[t].reset
         /\ t \in Resets => SameHistory(t)
<1> DEFINE b == Restrict(value, Totals)
           e == IF t \in Scrapes /\ On(t) = Registry
                  THEN [thread[t] EXCEPT !.base = b, !.reset = {}]
                  ELSE thread[t]
<1>1. First(t, "lock") /\ Goto(t, e)
  BY DEF Lock
<1>2. t \in Busy /\ ThreadOK(thread[t]) /\ <<"lock", On(t)>> \in AllSteps
  BY <1>1, FirstFacts
<1>3. On(t) \in Mutexes
  BY <1>2 DEF AllSteps
<1>4. b \in [Totals -> Number]
  BY DEF Restrict, Typed, All
<1> HIDE DEF b
<1>5. /\ ThreadOK(e) /\ e.call = thread[t].call /\ e.todo = thread[t].todo
      /\ t \in Scrapes =>
           /\ e.lines = thread[t].lines /\ e.copied = thread[t].copied
           /\ e.late = thread[t].late
           /\ IF On(t) = Registry THEN e.base = b /\ e.reset = {}
                ELSE e.base = thread[t].base /\ e.reset = thread[t].reset
      /\ t \in Resets => e.covers = thread[t].covers /\ e.since = thread[t].since
  <2>1. CASE t \in Scrapes /\ On(t) = Registry
    <3>1. thread[t] \in ScrapeStates /\ t \notin Resets
      BY <1>2, <2>1, StateByCall DEF Scrapes, Resets, ThreadOK
    <3>2. e = [thread[t] EXCEPT !.base = b, !.reset = {}]
      BY <2>1
    <3> HIDE DEF e
    <3>3. /\ e \in ScrapeStates /\ e.call = thread[t].call /\ e.todo = thread[t].todo
          /\ e.lines = thread[t].lines /\ e.copied = thread[t].copied
          /\ e.late = thread[t].late /\ e.base = b /\ e.reset = {}
      <4> DEFINE h == [thread[t] EXCEPT !.base = b]
      <4>1. /\ h \in ScrapeStates /\ h.call = thread[t].call /\ h.todo = thread[t].todo
            /\ h.lines = thread[t].lines /\ h.copied = thread[t].copied
            /\ h.late = thread[t].late /\ h.base = b
        BY <1>4, <3>1 DEF ScrapeStates
      <4>2. e = [h EXCEPT !.reset = {}]
        BY <3>1, <3>2 DEF ScrapeStates
      <4> HIDE DEF h
      <4> QED
        BY <4>1, <4>2 DEF ScrapeStates
    <3>4. ThreadOK(e)
      BY <1>2, <3>3, HistoryOK DEF BusyStates
    <3> QED
      BY <2>1, <3>1, <3>3, <3>4
  <2>2. CASE ~(t \in Scrapes /\ On(t) = Registry)
    BY <1>2, <2>2
  <2> QED
    BY <2>1, <2>2
<1> HIDE DEF e
<1>6. /\ Goes(t, "lock") /\ Others(t)
      /\ thread' \in [Threads -> BusyStates \cup {Idle}]
      /\ e.call = "serialize" =>
           /\ thread'[t].base = e.base /\ thread'[t].lines = e.lines
           /\ thread'[t].copied = e.copied /\ thread'[t].late = e.late
           /\ thread'[t].reset = e.reset
      /\ e.call \in {"reset", "family_reset", "metric_reset"} =>
           thread'[t].covers = e.covers /\ thread'[t].since = e.since
  BY <1>1, <1>5, GotoGoes
<1>7. t \in Scrapes => e.call = "serialize"
  BY <1>5 DEF Scrapes
<1>8. t \in Resets => e.call \in {"reset", "family_reset", "metric_reset"} /\ thread[t].call # "serialize"
  BY <1>5 DEF Resets
<1> QED
  BY <1>3, <1>5, <1>6, <1>7, <1>8 DEF SameHistory, b

(* The steps that change no history.                                       *)
LEMMA PlainMoves ==
  ASSUME Typed, NEW t \in Threads, NEW step, First(t, step), Goto(t, thread[t])
  PROVE  /\ Goes(t, step) /\ Others(t) /\ SameHistory(t)
         /\ thread' \in [Threads -> BusyStates \cup {Idle}]
<1>1. ThreadOK(thread[t]) /\ t \in Busy
  BY FirstFacts
<1> DEFINE e == thread[t]
<1>2. ThreadOK(e) /\ e.call = thread[t].call /\ e.todo = thread[t].todo /\ Goto(t, e)
  BY <1>1
<1> HIDE DEF e
<1>3. /\ Goes(t, step) /\ Others(t)
      /\ thread' \in [Threads -> BusyStates \cup {Idle}]
      /\ e.call = "serialize" =>
           /\ thread'[t].base = e.base /\ thread'[t].lines = e.lines
           /\ thread'[t].copied = e.copied /\ thread'[t].late = e.late
           /\ thread'[t].reset = e.reset
      /\ e.call \in {"reset", "family_reset", "metric_reset"} =>
           thread'[t].covers = e.covers /\ thread'[t].since = e.since
  BY <1>2, GotoGoes
<1> QED
  BY <1>3 DEF SameHistory, Resets, e

LEMMA NamesFacts ==
  ASSUME NEW c, ThreadOK(c), NEW step \in NamesOf[c.call]
  PROVE  /\ step \in {"copy", "print"} => c.call = "serialize" /\ c \in ScrapeStates
         /\ step \in {"clear", "zero"} =>
              c.call \in {"reset", "family_reset", "metric_reset"} /\ c \in ResetStates
         /\ step \in {"push", "count"} => c.call = "observe" /\ c \in ObserveStates
<1>1. c \in BusyStates
  BY DEF ThreadOK
<1>2. c.call \in {"serialize", "reset", "family_reset", "metric_reset", "observe"}
  BY <1>1 DEF BusyStates, ScrapeStates, ResetStates, ObserveStates
<1>3. /\ step \in {"copy", "print"} => c.call = "serialize"
      /\ step \in {"clear", "zero"} => c.call \in {"reset", "family_reset", "metric_reset"}
      /\ step \in {"push", "count"} => c.call = "observe"
  BY <1>2 DEF NamesOf
<1> QED
  BY <1>1, <1>3, StateByCall

LEMMA WithFacts ==
  ASSUME NEW S, NEW T, NEW f \in Partial(S, T), NEW x \in S, NEW v \in T
  PROVE  /\ With(f, x, v) \in Partial(S, T)
         /\ DOMAIN With(f, x, v) = DOMAIN f \cup {x}
         /\ With(f, x, v)[x] = v
         /\ \A y \in DOMAIN f \ {x} : With(f, x, v)[y] = f[y]
<1>1. PICK D \in SUBSET S : f \in [D -> T]
  BY DEF Partial
<1> DEFINE g == With(f, x, v)
<1>2. g = [y \in D \cup {x} |-> IF y = x THEN v ELSE f[y]]
  BY <1>1 DEF With
<1> HIDE DEF g
<1>3. g \in [D \cup {x} -> T] /\ D \cup {x} \in SUBSET S /\ g[x] = v
      /\ \A y \in D \ {x} : g[y] = f[y]
  BY <1>1, <1>2
<1> QED
  BY <1>1, <1>3 DEF Partial, g

LEMMA CopyMoves ==
  ASSUME Typed, NEW t \in Threads, Copy(t)
  PROVE  /\ Goes(t, "copy") /\ Others(t) /\ On(t) \in Summaries /\ t \in Scrapes
         /\ thread' \in [Threads -> BusyStates \cup {Idle}]
         /\ thread'[t].base = thread[t].base /\ thread'[t].lines = thread[t].lines
         /\ thread'[t].copied = With(thread[t].copied, On(t), window[On(t)])
         /\ thread'[t].late = thread[t].late /\ thread'[t].reset = thread[t].reset
<1> DEFINE w == With(thread[t].copied, On(t), window[On(t)])
           e == [thread[t] EXCEPT !.copied = w]
<1>1. First(t, "copy") /\ Goto(t, e)
  BY DEF Copy
<1>2. /\ t \in Busy /\ ThreadOK(thread[t]) /\ <<"copy", On(t)>> \in AllSteps
      /\ "copy" \in NamesOf[thread[t].call]
  BY <1>1, FirstFacts
<1>3. On(t) \in Summaries
  BY <1>2 DEF AllSteps
<1>4. thread[t] \in ScrapeStates /\ thread[t].call = "serialize"
  BY <1>2, NamesFacts
<1>5. w \in Partial(Totals, Nat)
  <2>1. thread[t].copied \in Partial(Totals, Nat) /\ On(t) \in Totals /\ window[On(t)] \in Nat
    BY <1>3, <1>4 DEF ScrapeStates, Totals, Typed
  <2> QED
    BY <2>1, WithFacts
<1> HIDE DEF w
<1>6. /\ e \in ScrapeStates /\ e.call = thread[t].call /\ e.todo = thread[t].todo
      /\ e.base = thread[t].base /\ e.lines = thread[t].lines /\ e.copied = w
      /\ e.late = thread[t].late /\ e.reset = thread[t].reset
  BY <1>4, <1>5 DEF ScrapeStates
<1> HIDE DEF e
<1>7. ThreadOK(e)
  BY <1>2, <1>6, HistoryOK DEF BusyStates
<1>8. /\ Goes(t, "copy") /\ Others(t)
      /\ thread' \in [Threads -> BusyStates \cup {Idle}]
      /\ e.call = "serialize" =>
           /\ thread'[t].base = e.base /\ thread'[t].lines = e.lines
           /\ thread'[t].copied = e.copied /\ thread'[t].late = e.late
           /\ thread'[t].reset = e.reset
  BY <1>1, <1>6, <1>7, GotoGoes
<1> QED
  BY <1>3, <1>4, <1>6, <1>8 DEF Scrapes, w

LEMMA UncountedFinite ==
  ASSUME NEW s
  PROVE  IsFiniteSet(Uncounted(s)) /\ Cardinality(Uncounted(s)) \in Nat
<1>1. Uncounted(s) \subseteq Threads /\ IsFiniteSet(Threads)
  BY PrometheusAssumption DEF Uncounted, Busy
<1> QED
  BY <1>1, FS_Subset, FS_CardinalityType

LEMMA PrintMoves ==
  ASSUME Typed, NEW t \in Threads, PrintLine(t)
  PROVE  /\ Goes(t, "print") /\ Others(t) /\ On(t) \in All /\ t \in Scrapes
         /\ thread' \in [Threads -> BusyStates \cup {Idle}]
         /\ thread'[t].base = thread[t].base /\ thread'[t].copied = thread[t].copied
         /\ thread'[t].reset = thread[t].reset
         /\ IF On(t) \in Gauges
              THEN thread'[t].lines = thread[t].lines /\ thread'[t].late = thread[t].late
              ELSE /\ thread'[t].lines = With(thread[t].lines, On(t), value[On(t)])
                   /\ thread'[t].late = With(thread[t].late, On(t), Cardinality(Uncounted(On(t))))
<1> DEFINE m == On(t)
           v == With(thread[t].lines, m, value[m])
           w == With(thread[t].late, m, Cardinality(Uncounted(m)))
           e == IF m \in Gauges THEN thread[t] ELSE [thread[t] EXCEPT !.lines = v, !.late = w]
<1>1. First(t, "print") /\ Goto(t, e)
  BY DEF PrintLine
<1>2. /\ t \in Busy /\ ThreadOK(thread[t]) /\ <<"print", m>> \in AllSteps
      /\ "print" \in NamesOf[thread[t].call]
  BY <1>1, FirstFacts
<1>3. m \in All
  BY <1>2 DEF AllSteps
<1>4. thread[t] \in ScrapeStates /\ thread[t].call = "serialize"
  BY <1>2, NamesFacts
<1> HIDE DEF m
<1>5. m \notin Gauges => v \in Partial(Totals, Number) /\ w \in Partial(Totals, Nat)
  <2>1. /\ thread[t].lines \in Partial(Totals, Number) /\ thread[t].late \in Partial(Totals, Nat)
        /\ value[m] \in Number /\ Cardinality(Uncounted(m)) \in Nat
        /\ m \notin Gauges => m \in Totals
    BY <1>3, <1>4, UncountedFinite DEF ScrapeStates, All, Typed
  <2> QED
    BY <2>1, WithFacts
<1> HIDE DEF v, w
<1>6. /\ e \in ScrapeStates /\ e.call = thread[t].call /\ e.todo = thread[t].todo
      /\ e.base = thread[t].base /\ e.copied = thread[t].copied /\ e.reset = thread[t].reset
      /\ IF m \in Gauges THEN e.lines = thread[t].lines /\ e.late = thread[t].late
                         ELSE e.lines = v /\ e.late = w
  <2>1. CASE m \in Gauges
    BY <1>4, <2>1
  <2>2. CASE m \notin Gauges
    <3> DEFINE h == [thread[t] EXCEPT !.lines = v]
    <3>1. /\ h \in ScrapeStates /\ h.call = thread[t].call /\ h.todo = thread[t].todo
          /\ h.base = thread[t].base /\ h.copied = thread[t].copied
          /\ h.reset = thread[t].reset /\ h.lines = v
      BY <1>4, <1>5, <2>2 DEF ScrapeStates
    <3>2. e = [h EXCEPT !.late = w]
      BY <1>4, <2>2 DEF ScrapeStates
    <3> HIDE DEF h, e
    <3>3. /\ e \in ScrapeStates /\ e.call = h.call /\ e.todo = h.todo
          /\ e.base = h.base /\ e.copied = h.copied
          /\ e.reset = h.reset /\ e.lines = h.lines /\ e.late = w
      BY <1>5, <2>2, <3>1, <3>2 DEF ScrapeStates
    <3> QED
      BY <2>2, <3>1, <3>3
  <2> QED
    BY <2>1, <2>2
<1> HIDE DEF e
<1>7. ThreadOK(e)
  BY <1>2, <1>6, HistoryOK DEF BusyStates
<1>8. /\ Goes(t, "print") /\ Others(t)
      /\ thread' \in [Threads -> BusyStates \cup {Idle}]
      /\ e.call = "serialize" =>
           /\ thread'[t].base = e.base /\ thread'[t].lines = e.lines
           /\ thread'[t].copied = e.copied /\ thread'[t].late = e.late
           /\ thread'[t].reset = e.reset
  BY <1>1, <1>6, <1>7, GotoGoes
<1> QED
  BY <1>3, <1>4, <1>6, <1>8 DEF Scrapes, v, w, m

LEMMA ZeroMoves ==
  ASSUME Typed, NEW t \in Threads, Zero(t)
  PROVE  /\ Goes(t, "zero") /\ On(t) \in All /\ t \in Resets /\ SameHistory(t)
         /\ thread' \in [Threads -> BusyStates \cup {Idle}]
         /\ \A u \in Threads \ {t} :
              /\ Stays(u)
              /\ u \in Resets => SameHistory(u)
              /\ u \in Scrapes =>
                   /\ thread'[u].base = thread[u].base /\ thread'[u].lines = thread[u].lines
                   /\ thread'[u].copied = thread[u].copied /\ thread'[u].late = thread[u].late
                   /\ thread'[u].reset =
                        IF t \in OwnResets /\ On(t) \in Totals /\ Unprinted(u, On(t))
                          THEN thread[u].reset \cup {On(t)}
                          ELSE thread[u].reset
<1> DEFINE m == On(t)
           noted(u) == /\ u \in Scrapes /\ t \in OwnResets
                       /\ m \in Totals /\ Unprinted(u, m)
           d == [thread[t] EXCEPT !.todo = Tail(@)]
<1>0. First(t, "zero")
  BY DEF Zero
<1>1. /\ thread[t].todo # << >> /\ t \in Busy /\ ThreadOK(thread[t])
      /\ Head(thread[t].todo) = <<"zero", m>>
      /\ <<"zero", m>> \in AllSteps /\ "zero" \in NamesOf[thread[t].call]
  BY <1>0, FirstFacts
<1>2. m \in All
  BY <1>1 DEF AllSteps
<1>3. thread[t] \in ResetStates /\ thread[t].call \in {"reset", "family_reset", "metric_reset"}
  BY <1>1, NamesFacts
<1>4. thread \in [Threads -> BusyStates \cup {Idle}] /\ \A u \in Busy : ThreadOK(thread[u])
  BY DEF Typed
<1>5. d = [thread[t] EXCEPT !.todo = Tail(@)]
  OBVIOUS
<1>6. /\ thread'[t] = d /\ DOMAIN thread' = Threads
      /\ \A u \in Threads \ {t} :
           thread'[u] = IF noted(u) THEN [thread[u] EXCEPT !.reset = @ \cup {m}] ELSE thread[u]
  BY DEF Zero
<1>15. thread' = [u \in Threads |-> thread'[u]]
  BY DEF Zero
<1> HIDE DEF d, m, noted
<1>7. /\ ThreadOK(d) /\ d.call = thread[t].call /\ d.todo = Tail(thread[t].todo)
      /\ d.covers = thread[t].covers /\ d.since = thread[t].since
  BY <1>1, <1>3, <1>5, Forward
<1>8. Goes(t, "zero")
  BY <1>1, <1>6, <1>7 DEF Goes, m
<1>9. thread[t].call # "serialize"
  BY <1>3
<1>10. SameHistory(t)
  BY <1>6, <1>7, <1>9 DEF SameHistory
<1>11. ASSUME NEW u \in Threads \ {t}
       PROVE  /\ thread'[u] \in BusyStates \cup {Idle}
              /\ Stays(u)
              /\ u \in Resets => SameHistory(u)
              /\ u \in Scrapes =>
                   /\ thread'[u].base = thread[u].base /\ thread'[u].lines = thread[u].lines
                   /\ thread'[u].copied = thread[u].copied /\ thread'[u].late = thread[u].late
                   /\ thread'[u].reset =
                        IF noted(u) THEN thread[u].reset \cup {m} ELSE thread[u].reset
  <2>1. CASE noted(u)
    <3>1. u \in Busy /\ u \in Scrapes /\ u \notin Resets /\ m \in Totals
      BY <1>4, <2>1 DEF noted, Busy, Scrapes, Resets
    <3>2. thread[u] \in ScrapeStates /\ ThreadOK(thread[u])
      BY <1>4, <3>1, StateByCall DEF Scrapes
    <3> DEFINE r == thread[u].reset \cup {m}
               e == [thread[u] EXCEPT !.reset = r]
    <3>3. r \in SUBSET Totals
      BY <3>1, <3>2 DEF ScrapeStates
    <3>4. thread'[u] = e
      BY <1>6, <2>1
    <3> HIDE DEF r
    <3>5. /\ e \in ScrapeStates /\ e.call = thread[u].call /\ e.todo = thread[u].todo
          /\ e.base = thread[u].base /\ e.lines = thread[u].lines
          /\ e.copied = thread[u].copied /\ e.late = thread[u].late /\ e.reset = r
      BY <3>2, <3>3 DEF ScrapeStates
    <3> HIDE DEF e
    <3>6. ThreadOK(e)
      BY <3>2, <3>5, HistoryOK DEF BusyStates
    <3> QED
      BY <2>1, <3>1, <3>4, <3>5, <3>6 DEF Stays, BusyStates, r
  <2>2. CASE ~noted(u)
    <3>1. thread'[u] = thread[u]
      BY <1>6, <2>2
    <3> QED
      BY <1>4, <2>2, <3>1 DEF Stays, SameHistory
  <2> QED
    BY <2>1, <2>2
<1>12. thread'[t] \in BusyStates
  BY <1>6, <1>7 DEF ThreadOK
<1>13. thread' \in [Threads -> BusyStates \cup {Idle}]
  <2>1. \A u \in Threads : thread'[u] \in BusyStates \cup {Idle}
    BY <1>11, <1>12
  <2> QED
    BY <1>15, <2>1
<1>14. t \in Resets
  BY <1>3 DEF Resets
<1> QED
  BY <1>2, <1>8, <1>10, <1>11, <1>13, <1>14 DEF m, noted

(* What threads in a reset note when v is added to m.                      *)
LEMMA AddedFacts ==
  ASSUME Typed, NEW m \in Totals, NEW v \in Number, NEW w, w = Added(m, v)
  PROVE  /\ w \in [Threads -> BusyStates \cup {Idle}]
         /\ \A u \in Threads : u \notin Resets => w[u] = thread[u]
         /\ \A u \in Resets :
              /\ ThreadOK(w[u]) /\ w[u].call = thread[u].call /\ w[u].todo = thread[u].todo
              /\ w[u].covers = thread[u].covers
              /\ w[u].since = [thread[u].since EXCEPT ![m] = Plus(thread[u].since[m], v)]
<1>1. thread \in [Threads -> BusyStates \cup {Idle}] /\ \A u \in Busy : ThreadOK(thread[u])
  BY DEF Typed
<1>2. /\ DOMAIN w = Threads /\ w = [u \in Threads |-> w[u]]
      /\ \A u \in Threads : u \notin Resets => w[u] = thread[u]
      /\ \A u \in Resets :
           w[u] = [thread[u] EXCEPT !.since = [thread[u].since EXCEPT ![m] = Plus(thread[u].since[m], v)]]
  BY DEF Added, Resets
<1>3. ASSUME NEW u \in Resets
      PROVE  /\ w[u] \in BusyStates
             /\ ThreadOK(w[u]) /\ w[u].call = thread[u].call /\ w[u].todo = thread[u].todo
             /\ w[u].covers = thread[u].covers
             /\ w[u].since = [thread[u].since EXCEPT ![m] = Plus(thread[u].since[m], v)]
  <2>1. u \in Busy /\ u \in Threads /\ thread[u] \in ResetStates
    BY <1>1, StateByCall DEF Resets, Busy
  <2>2. thread[u].since \in [Totals -> Number] /\ thread[u].since[m] \in Number
    BY <2>1 DEF ResetStates
  <2> DEFINE f == [thread[u].since EXCEPT ![m] = Plus(thread[u].since[m], v)]
  <2>3. f \in [Totals -> Number]
    BY <2>2, PlusNumber
  <2>4. w[u] = [thread[u] EXCEPT !.since = f]
    BY <1>2
  <2> HIDE DEF f
  <2>5. /\ w[u] \in ResetStates /\ w[u].call = thread[u].call /\ w[u].todo = thread[u].todo
        /\ w[u].covers = thread[u].covers /\ w[u].since = f
    BY <2>1, <2>3, <2>4 DEF ResetStates
  <2>6. ThreadOK(w[u])
    BY <1>1, <2>1, <2>5, HistoryOK DEF BusyStates
  <2> QED
    BY <2>5, <2>6 DEF f, BusyStates
<1>4. w \in [Threads -> BusyStates \cup {Idle}]
  BY <1>1, <1>2, <1>3
<1> QED
  BY <1>2, <1>3, <1>4

(* What has been added to m is noted as v more, and nothing else changes.  *)
Notes(u, m, v) ==
  /\ Stays(u)
  /\ u \notin Resets => SameHistory(u)
  /\ u \in Resets =>
       /\ thread'[u].covers = thread[u].covers
       /\ thread'[u].since = [thread[u].since EXCEPT ![m] = Plus(thread[u].since[m], v)]

LEMMA AddMoves ==
  ASSUME Typed, NEW m \in Totals, NEW v \in Number, thread' = Added(m, v)
  PROVE  /\ thread' \in [Threads -> BusyStates \cup {Idle}]
         /\ \A u \in Threads : Notes(u, m, v)
<1>1. /\ thread' \in [Threads -> BusyStates \cup {Idle}]
      /\ \A u \in Threads : u \notin Resets => thread'[u] = thread[u]
      /\ \A u \in Resets :
           /\ ThreadOK(thread'[u]) /\ thread'[u].call = thread[u].call
           /\ thread'[u].todo = thread[u].todo
           /\ thread'[u].covers = thread[u].covers
           /\ thread'[u].since = [thread[u].since EXCEPT ![m] = Plus(thread[u].since[m], v)]
  BY AddedFacts
<1>2. \A u \in Busy : ThreadOK(thread[u])
  BY DEF Typed
<1>3. ASSUME NEW u \in Threads PROVE Notes(u, m, v)
  <2>1. CASE u \in Resets
    BY <1>1, <2>1 DEF Notes, Stays
  <2>2. CASE u \notin Resets
    BY <1>1, <1>2, <2>2 DEF Notes, Stays, SameHistory
  <2> QED
    BY <2>1, <2>2
<1> QED
  BY <1>1, <1>3

LEMMA CountMoves ==
  ASSUME Typed, NEW t \in Threads, Count(t)
  PROVE  /\ Goes(t, "count") /\ On(t) \in Summaries /\ thread[t].call = "observe"
         /\ thread' \in [Threads -> BusyStates \cup {Idle}]
         /\ \A u \in Threads \ {t} : Notes(u, On(t), 1)
<1> DEFINE s == On(t)
           w == Added(s, 1)
           d == [thread[t] EXCEPT !.todo = Tail(@)]
<1>0. First(t, "count")
  BY DEF Count
<1>1. /\ thread[t].todo # << >> /\ t \in Busy /\ ThreadOK(thread[t])
      /\ Head(thread[t].todo) = <<"count", s>>
      /\ <<"count", s>> \in AllSteps /\ "count" \in NamesOf[thread[t].call]
  BY <1>0, FirstFacts
<1>2. s \in Summaries /\ s \in Totals /\ 1 \in Number
  BY <1>1 DEF AllSteps, Totals, Number
<1>3. thread[t].call = "observe" /\ t \notin Resets
  BY <1>1, NamesFacts DEF Resets
<1>4. thread' = [w EXCEPT ![t] = [w[t] EXCEPT !.todo = Tail(@)]]
  BY DEF Count
<1>5. w = Added(s, 1)
  OBVIOUS
<1>6. d = [thread[t] EXCEPT !.todo = Tail(@)]
  OBVIOUS
<1>12. On(t) = s
  OBVIOUS
<1> HIDE DEF w, s
<1>7. /\ w \in [Threads -> BusyStates \cup {Idle}]
      /\ \A u \in Threads : u \notin Resets => w[u] = thread[u]
      /\ \A u \in Resets :
           /\ ThreadOK(w[u]) /\ w[u].call = thread[u].call /\ w[u].todo = thread[u].todo
           /\ w[u].covers = thread[u].covers
           /\ w[u].since = [thread[u].since EXCEPT ![s] = Plus(thread[u].since[s], 1)]
  BY <1>2, <1>5, AddedFacts
<1>8. thread' = [w EXCEPT ![t] = d]
  BY <1>3, <1>4, <1>7
<1> HIDE DEF d
<1>9. ThreadOK(d) /\ d.call = thread[t].call /\ d.todo = Tail(thread[t].todo)
  BY <1>1, <1>6, Forward
<1>10. /\ thread' \in [Threads -> BusyStates \cup {Idle}]
       /\ thread'[t] = d /\ \A u \in Threads \ {t} : thread'[u] = w[u]
  BY <1>7, <1>8, <1>9 DEF ThreadOK
<1>11. ASSUME NEW u \in Threads \ {t} PROVE Notes(u, s, 1)
  <2>1. \A x \in Busy : ThreadOK(thread[x])
    BY DEF Typed
  <2>2. CASE u \in Resets
    BY <1>7, <1>10, <2>2 DEF Notes, Stays
  <2>3. CASE u \notin Resets
    BY <1>7, <1>10, <2>1, <2>3 DEF Notes, Stays, SameHistory
  <2> QED
    BY <2>2, <2>3
<1>13. Goes(t, "count")
  BY <1>1, <1>9, <1>10, <1>12 DEF Goes
<1> QED
  BY <1>2, <1>3, <1>10, <1>11, <1>12, <1>13

(* Thread t calls.                                                         *)
Calls(t) ==
  /\ t \notin Busy /\ thread[t] = Idle /\ ThreadOK(thread'[t])
  /\ Whole(thread'[t].todo) /\ Others(t)
  /\ calls < program.calls /\ calls' = calls + 1
  /\ thread' \in [Threads -> BusyStates \cup {Idle}]
  /\ UNCHANGED <<rigid, value, window, mutex, updates, open, skewed>>

LEMMA CallMoves ==
  ASSUME Typed, NEW t \in Threads, NEW c, Call(t, c), ThreadOK(c), Whole(c.todo)
  PROVE  Calls(t) /\ thread'[t] = c
<1>1. thread \in [Threads -> BusyStates \cup {Idle}] /\ \A u \in Busy : ThreadOK(thread[u])
  BY DEF Typed
<1>2. thread[t] = Idle /\ t \notin Busy
  BY <1>1, StateByCall DEF Call, Busy
<1>3. thread' = [thread EXCEPT ![t] = c] /\ c \in BusyStates
  BY DEF Call, ThreadOK
<1>4. /\ thread' \in [Threads -> BusyStates \cup {Idle}]
      /\ thread'[t] = c /\ \A u \in Threads \ {t} : thread'[u] = thread[u]
  BY <1>1, <1>3
<1>5. Others(t)
  BY <1>1, <1>4 DEF Others, Stays, SameHistory
<1> QED
  BY <1>2, <1>4, <1>5 DEF Calls, Call

LEMMA BlockTodo ==
  ASSUME NEW call \in {"serialize", "reset", "family_reset", "metric_reset", "observe"},
         NEW X, X \subseteq Mutexes, NEW s \in Blocks(NamesOf[call], X),
         call \in {"serialize", "reset"} => InRegistry(s)
  PROVE  TodoOK(call, s) /\ Whole(s) /\ s \in Seq(AllSteps)
<1> DEFINE N == NamesOf[call]
<1>1. Blocks(N, X) \subseteq Blocks(N, Mutexes)
  BY MoreMutexes
<1> HIDE DEF N
<1>2. s \in Seq(Kinds(N, Mutexes)) /\ Whole(s)
  BY <1>1 DEF Blocks, N
<1>3. Kinds(N, Mutexes) \subseteq AllSteps
  BY DEF Kinds
<1>4. s \in Seq(AllSteps)
  BY ONLY <1>2, <1>3, SeqMonotonic
<1> QED
  BY <1>2, <1>4 DEF TodoOK, Whole, N

LEMMA NothingIsNothing ==
  Nothing \in [Totals -> Number] /\ \A m \in Totals : Nothing[m] = 0
BY DEF Nothing, Number

LEMMA NoneNoted ==
  ASSUME NEW S, NEW T
  PROVE  << >> \in Partial(S, T) /\ DOMAIN << >> = {}
<1> DEFINE e == << >>
<1>1. e \in [{} -> T] /\ DOMAIN e = {}
  OBVIOUS
<1> HIDE DEF e
<1> QED
  BY <1>1 DEF Partial, e

LEMMA SerializeMoves ==
  ASSUME Typed, NEW t \in Threads, Serialize(t)
  PROVE  /\ Calls(t) /\ thread'[t].call = "serialize"
         /\ DOMAIN thread'[t].lines = {} /\ DOMAIN thread'[t].copied = {}
         /\ DOMAIN thread'[t].late = {} /\ thread'[t].reset = {}
<1> DEFINE c == [call |-> "serialize", todo |-> SerializeProgram, base |-> Nothing,
                 lines |-> << >>, copied |-> << >>, late |-> << >>, reset |-> {}]
<1>1. /\ SerializeProgram \in Blocks(NamesOf["serialize"], Summaries \cup {Registry})
      /\ InRegistry(SerializeProgram)
  BY SerializeBlock DEF Typed, NamesOf
<1>2. Summaries \cup {Registry} \subseteq Mutexes
  BY DEF Mutexes
<1> DEFINE s == SerializeProgram
<1>3. TodoOK("serialize", s) /\ Whole(s) /\ s \in Seq(AllSteps)
  BY <1>1, <1>2, BlockTodo
<1> DEFINE e == << >>
<1>4. /\ e \in Partial(Totals, Number) /\ e \in Partial(Totals, Nat) /\ DOMAIN e = {}
      /\ Nothing \in [Totals -> Number]
  BY NoneNoted, NothingIsNothing
<1>5. Call(t, c)
  BY DEF Serialize
<1> HIDE DEF s, e
<1>6. c = [call |-> "serialize", todo |-> s, base |-> Nothing,
           lines |-> e, copied |-> e, late |-> e, reset |-> {}]
  BY DEF s, e
<1> HIDE DEF c
<1>7. c \in ScrapeStates
  BY <1>3, <1>4, <1>6 DEF ScrapeStates
<1>8. /\ c.call = "serialize" /\ c.todo = s /\ c.lines = e /\ c.copied = e
      /\ c.late = e /\ c.reset = {}
  BY <1>6
<1>9. ThreadOK(c) /\ Whole(c.todo)
  BY <1>3, <1>7, <1>8 DEF ThreadOK, BusyStates
<1> QED
  BY <1>4, <1>5, <1>8, <1>9, CallMoves

(* A reset of a family or a metric.                                        *)
OwnReset(t) ==
  (\E f \in Families : FamilyReset(t, f)) \/ (\E m \in All : MetricReset(t, m))

(* A thread that calls a reset is to zero what it covers, and has noted    *)
(* no updates yet.                                                         *)
LEMMA ResetMoves ==
  ASSUME Typed, NEW t \in Threads, Reset(t) \/ OwnReset(t)
  PROVE  /\ Calls(t) /\ thread'[t].call \in {"reset", "family_reset", "metric_reset"}
         /\ \A m \in thread'[t].covers : <<"zero", m>> \in Range(thread'[t].todo)
         /\ \A m \in Totals : thread'[t].since[m] = 0
<1>0. order \in Orders
  BY DEF Typed
<1>1. ASSUME NEW call \in {"reset", "family_reset", "metric_reset"}, NEW s, NEW C \in SUBSET Totals,
             TodoOK(call, s), Whole(s), s \in Seq(AllSteps),
             \A m \in C : <<"zero", m>> \in Range(s),
             Call(t, [call |-> call, todo |-> s, covers |-> C, since |-> Nothing])
      PROVE  /\ Calls(t) /\ thread'[t].call \in {"reset", "family_reset", "metric_reset"}
             /\ \A m \in thread'[t].covers : <<"zero", m>> \in Range(thread'[t].todo)
             /\ \A m \in Totals : thread'[t].since[m] = 0
  <2> DEFINE c == [call |-> call, todo |-> s, covers |-> C, since |-> Nothing]
  <2>1. c.call = call /\ c.todo = s /\ c.covers = C /\ c.since = Nothing
    OBVIOUS
  <2>2. c \in ResetStates
    BY <1>1, NothingIsNothing DEF ResetStates
  <2>3. Call(t, c)
    BY <1>1
  <2> HIDE DEF c
  <2>4. ThreadOK(c) /\ Whole(c.todo)
    BY <1>1, <2>1, <2>2 DEF ThreadOK, BusyStates
  <2>5. Calls(t) /\ thread'[t] = c
    BY <2>3, <2>4, CallMoves
  <2> QED
    BY <1>1, <2>1, <2>5, NothingIsNothing
<1>2. CASE Reset(t)
  <2> DEFINE s == ResetProgram
             X == Summaries \cup Families \cup {Registry}
  <2>1. /\ s \in Blocks(NamesOf["reset"], X) /\ InRegistry(s)
        /\ \A m \in All : <<"zero", m>> \in Range(s)
    BY <1>0, ResetBlock DEF NamesOf
  <2>2. X \subseteq Mutexes /\ Totals \subseteq All
    BY DEF Mutexes, All
  <2>3. Call(t, [call |-> "reset", todo |-> s, covers |-> Totals, since |-> Nothing])
    BY <1>2 DEF Reset
  <2> HIDE DEF s, X
  <2>4. TodoOK("reset", s) /\ Whole(s) /\ s \in Seq(AllSteps)
    BY <2>1, <2>2, BlockTodo
  <2>5. \A m \in Totals : <<"zero", m>> \in Range(s)
    BY <2>1, <2>2
  <2> QED
    BY <1>1, <2>3, <2>4, <2>5
<1>3. ASSUME NEW f \in Families, FamilyReset(t, f)
      PROVE  /\ Calls(t) /\ thread'[t].call \in {"reset", "family_reset", "metric_reset"}
             /\ \A m \in thread'[t].covers : <<"zero", m>> \in Range(thread'[t].todo)
             /\ \A m \in Totals : thread'[t].since[m] = 0
  <2> DEFINE s == ResetFamily(f)
             X == Summaries \cup Families
             C == Range(Metrics[f]) \ Gauges
  <2>1. /\ s \in Blocks(NamesOf["family_reset"], X)
        /\ \A m \in Range(Metrics[f]) : <<"zero", m>> \in Range(s)
    BY ResetFamilyBlock DEF NamesOf
  <2>2. X \subseteq Mutexes
    BY DEF Mutexes
  <2>3. Call(t, [call |-> "family_reset", todo |-> s, covers |-> C, since |-> Nothing])
    BY <1>3 DEF FamilyReset
  <2>4. C \in SUBSET Totals
    <3>1. Metrics[f] \in Seq(All)
      BY PrometheusAssumption
    <3>2. Range(Metrics[f]) \subseteq All
      BY <3>1 DEF Range
    <3> QED
      BY <3>2 DEF All
  <2>6. C \subseteq Range(Metrics[f])
    OBVIOUS
  <2> HIDE DEF s, X, C
  <2>5. TodoOK("family_reset", s) /\ Whole(s) /\ s \in Seq(AllSteps)
    BY <2>1, <2>2, BlockTodo
  <2> QED
    BY <1>1, <2>1, <2>3, <2>4, <2>5, <2>6
<1>4. ASSUME NEW m \in All, MetricReset(t, m)
      PROVE  /\ Calls(t) /\ thread'[t].call \in {"reset", "family_reset", "metric_reset"}
             /\ \A n \in thread'[t].covers : <<"zero", n>> \in Range(thread'[t].todo)
             /\ \A n \in Totals : thread'[t].since[n] = 0
  <2> DEFINE s == ResetMetric(m)
             C == {m} \ Gauges
  <2>1. /\ s \in Blocks(NamesOf["metric_reset"], Summaries)
        /\ <<"zero", m>> \in Range(s)
    BY ResetMetricBlock DEF NamesOf
  <2>2. Summaries \subseteq Mutexes
    BY DEF Mutexes
  <2>3. Call(t, [call |-> "metric_reset", todo |-> s, covers |-> C, since |-> Nothing])
    BY <1>4 DEF MetricReset
  <2>4. C \in SUBSET Totals /\ C \subseteq {m}
    BY DEF All
  <2> HIDE DEF s, C
  <2>5. TodoOK("metric_reset", s) /\ Whole(s) /\ s \in Seq(AllSteps)
    BY <2>1, <2>2, BlockTodo
  <2>6. \A n \in C : <<"zero", n>> \in Range(s)
    BY <2>1, <2>4
  <2> QED
    BY <1>1, <2>3, <2>4, <2>5, <2>6
<1> QED
  BY <1>2, <1>3, <1>4 DEF OwnReset

LEMMA ObserveMoves ==
  ASSUME Typed, NEW t \in Threads, NEW s \in Summaries, Observe(t, s)
  PROVE  Calls(t) /\ thread'[t] = [call |-> "observe", todo |-> ObserveProgram(s)]
<1> DEFINE p == ObserveProgram(s)
           c == [call |-> "observe", todo |-> p]
<1>1. p \in Blocks(NamesOf["observe"], Summaries) /\ Summaries \subseteq Mutexes
  BY ObserveBlock DEF NamesOf, Mutexes
<1>2. Call(t, c)
  BY DEF Observe
<1> HIDE DEF p
<1>3. TodoOK("observe", p) /\ Whole(p) /\ p \in Seq(AllSteps)
  BY <1>1, BlockTodo
<1>4. c \in ObserveStates /\ c.call = "observe" /\ c.todo = p
  BY <1>3 DEF ObserveStates
<1> HIDE DEF c
<1>5. ThreadOK(c) /\ Whole(c.todo)
  BY <1>3, <1>4 DEF ThreadOK, BusyStates
<1> QED
  BY <1>2, <1>5, CallMoves DEF c, p

LEMMA ReturnMoves ==
  ASSUME Typed, NEW t \in Threads, Return(t)
  PROVE  /\ t \in Busy /\ thread[t].todo = << >> /\ thread'[t] = Idle /\ Others(t)
         /\ thread' \in [Threads -> BusyStates \cup {Idle}]
<1>1. thread \in [Threads -> BusyStates \cup {Idle}] /\ \A u \in Busy : ThreadOK(thread[u])
  BY DEF Typed
<1>2. /\ t \in Busy /\ thread[t].todo = << >> /\ thread' = [thread EXCEPT ![t] = Idle]
  BY DEF Return
<1>3. /\ thread' \in [Threads -> BusyStates \cup {Idle}] /\ thread'[t] = Idle
      /\ \A u \in Threads \ {t} : thread'[u] = thread[u]
  BY <1>1, <1>2
<1> QED
  BY <1>1, <1>2, <1>3 DEF Others, Stays, SameHistory

-----------------------------------------------------------------------------
(* Types are kept.                                                         *)

(* The states the threads may be in, of which t may be in any.             *)
LEMMA ThreadsTyped ==
  ASSUME Typed, NEW t \in Threads, \A u \in Threads \ {t} : Stays(u),
         thread' \in [Threads -> BusyStates \cup {Idle}],
         thread'[t] = Idle \/ ThreadOK(thread'[t])
  PROVE  \A u \in Busy' : ThreadOK(thread'[u])
<1> SUFFICES ASSUME NEW u \in Threads, thread'[u].call # "idle"
             PROVE  ThreadOK(thread'[u])
  BY DEF Busy
<1>1. CASE u = t
  BY <1>1 DEF Idle
<1>2. CASE u # t
  <2>1. Stays(u)
    BY <1>2
  <2>2. u \in Busy
    BY <2>1 DEF Stays, Busy
  <2> QED
    BY <2>1, <2>2 DEF Stays
<1> QED
  BY <1>1, <1>2

(* What Typed says of all but the threads and the values.                  *)
TypedRest ==
  /\ program \in Programs
  /\ order \in Orders
  /\ window \in [Summaries -> Nat]
  /\ mutex \in [Mutexes -> Threads \cup {NoThread}]
  /\ calls \in 0 .. program.calls
  /\ updates \in [Counters \cup Gauges -> Nat]
  /\ \A m \in Counters \cup Gauges : updates[m] \in 0 .. MaxUpdates[m]
  /\ open \in [Gauges -> Nat]
  /\ skewed \subseteq Gauges

TypedThreads ==
  /\ thread \in [Threads -> BusyStates \cup {Idle}]
  /\ \A t \in Busy : ThreadOK(thread[t])

TypedValues == value \in [All -> Number] /\ \A s \in Summaries : value[s] \in Int

LEMMA TypedParts == Typed <=> TypedRest /\ TypedThreads /\ TypedValues
BY DEF Typed, TypedRest, TypedThreads, TypedValues

LEMMA InitTyped == Init => Typed
<1> SUFFICES ASSUME Init PROVE Typed
  OBVIOUS
<1>1. program.calls \in Nat
  BY PrometheusAssumption DEF Init
<1>2. TypedRest
  BY <1>1, PrometheusAssumption DEF Init, TypedRest
<1>3. TypedThreads
  BY DEF Init, TypedThreads, Busy, Idle
<1>4. TypedValues
  BY DEF Init, TypedValues, Number, All, Totals
<1> QED
  BY <1>2, <1>3, <1>4, TypedParts

(* A step of thread t on the threads, whatever it does to them.            *)
LEMMA StepThreads ==
  ASSUME Typed, NEW t \in Threads, Step(t)
  PROVE  /\ TypedThreads'
         /\ \A u \in Threads \ {t} : Stays(u)
<1>1. CASE Lock(t)
  BY <1>1, LockMoves, ThreadsTyped DEF TypedThreads, Others, Goes
<1>2. CASE Unlock(t) \/ Clear(t) \/ Push(t)
  <2>1. PICK step : First(t, step) /\ Goto(t, thread[t])
    BY <1>2 DEF Unlock, Clear, Push
  <2> QED
    BY <2>1, PlainMoves, ThreadsTyped DEF TypedThreads, Others, Goes
<1>3. CASE Copy(t)
  BY <1>3, CopyMoves, ThreadsTyped DEF TypedThreads, Others, Goes
<1>4. CASE PrintLine(t)
  BY <1>4, PrintMoves, ThreadsTyped DEF TypedThreads, Others, Goes
<1>5. CASE Zero(t)
  BY <1>5, ZeroMoves, ThreadsTyped DEF TypedThreads, Goes
<1>6. CASE Count(t)
  BY <1>6, CountMoves, ThreadsTyped DEF TypedThreads, Notes, Goes
<1>7. CASE Return(t)
  BY <1>7, ReturnMoves, ThreadsTyped DEF TypedThreads, Others
<1> QED
  BY <1>1, <1>2, <1>3, <1>4, <1>5, <1>6, <1>7 DEF Step

LEMMA OperationThreads ==
  ASSUME Typed, NEW t \in Threads, Operation(t)
  PROVE  Calls(t) /\ TypedThreads'
<1>1. Calls(t)
  BY SerializeMoves, ResetMoves, ObserveMoves DEF Operation, OwnReset
<1> QED
  BY <1>1, ThreadsTyped DEF TypedThreads, Calls, Others

(* A step on the values.                                                   *)
LEMMA StepValues ==
  ASSUME Typed, [Next]_vars
  PROVE  TypedValues'
<1>1. Numbers
  BY DEF Typed, Numbers
<1>2. value' \in [All -> Number]
  BY <1>1, NextRises DEF Numbers
<1>3. ASSUME NEW s \in Summaries
      PROVE  value'[s] \in Int
  <2>1. value[s] \in Int /\ value \in [All -> Number] /\ s \in All
    BY DEF Typed, All, Totals
  <2>2. CASE value' = value
    BY <2>1, <2>2
  <2>3. ASSUME NEW t \in Threads, Zero(t)
        PROVE  value'[s] \in Int
    BY <2>1, <2>3 DEF Zero, Zeroed
  <2>4. ASSUME NEW t \in Threads, Count(t)
        PROVE  value'[s] \in Int
    <3>1. value' = [value EXCEPT ![On(t)] = Plus(value[On(t)], 1)]
      BY <2>4 DEF Count
    <3>2. Plus(value[s], 1) \in Int
      BY <2>1, PrometheusAssumption DEF Plus
    <3> QED
      BY <2>1, <3>1, <3>2
  <2>5. ASSUME NEW m \in Counters \cup Gauges, NEW v, value' = [value EXCEPT ![m] = v]
        PROVE  value'[s] \in Int
    <3>1. m # s
      BY PrometheusAssumption DEF Totals
    <3> QED
      BY <2>1, <2>5, <3>1
  <2>6. ASSUME NEW c \in Counters, UpdateCounter(c)
        PROVE  value'[s] \in Int
    BY <2>6, <2>5, <2>2 DEF UpdateCounter, Inc, vars
  <2>7. ASSUME NEW g \in Gauges, UpdateGauge(g)
        PROVE  value'[s] \in Int
    BY <2>7, <2>5 DEF UpdateGauge, Set, Use, EndUse
  <2>8. ASSUME NEW t \in Threads, Quiet(t)
        PROVE  value'[s] \in Int
    BY <2>8, QuietKeepsValues, <2>2
  <2>9. CASE UNCHANGED vars \/ Finished
    BY <2>9, <2>2 DEF vars, Finished
  <2> QED
    BY <2>3, <2>4, <2>6, <2>7, <2>8, <2>9 DEF Next, Step, Quiet
<1> QED
  BY <1>2, <1>3 DEF TypedValues

(* A step on the rest.                                                     *)
LEMMA StepRest ==
  ASSUME Typed, NEW t \in Threads, Step(t)
  PROVE  TypedRest'
<1>1. TypedRest
  BY TypedParts
<1>2. CASE Lock(t) \/ Unlock(t)
  <2>1. /\ UNCHANGED <<program, order, window, calls, updates, open, skewed>>
        /\ \E v \in Threads \cup {NoThread} : mutex' = [mutex EXCEPT ![On(t)] = v]
    BY <1>2 DEF Lock, Unlock, rigid
  <2> QED
    BY <1>1, <2>1 DEF TypedRest
<1>3. CASE Clear(t) \/ Push(t)
  <2>1. /\ UNCHANGED <<program, order, mutex, calls, updates, open, skewed>>
        /\ \/ window' = [window EXCEPT ![On(t)] = 0]
           \/ window' = [window EXCEPT ![On(t)] = @ + 1]
    BY <1>3 DEF Clear, Push, rigid
  <2>2. window' \in [Summaries -> Nat]
    BY <1>1, <2>1 DEF TypedRest
  <2> QED
    BY <1>1, <2>1, <2>2 DEF TypedRest
<1>4. CASE Copy(t) \/ PrintLine(t) \/ Count(t) \/ Return(t)
  <2>1. UNCHANGED <<program, order, window, mutex, calls, updates, open, skewed>>
    BY <1>4 DEF Copy, PrintLine, Count, Return, rigid
  <2> QED
    BY <1>1, <2>1 DEF TypedRest
<1>5. CASE Zero(t)
  <2>1. /\ UNCHANGED <<program, order, window, mutex, calls, updates, open>>
        /\ skewed' \subseteq Gauges
    BY <1>1, <1>5 DEF Zero, rigid, Skew, TypedRest
  <2> QED
    BY <1>1, <2>1 DEF TypedRest
<1> QED
  BY <1>2, <1>3, <1>4, <1>5 DEF Step

LEMMA UpdateRest ==
  ASSUME Typed, NEW m \in Counters \cup Gauges, Update(m), skewed' \subseteq Gauges,
         open' \in [Gauges -> Nat]
  PROVE  TypedRest'
<1>1. TypedRest
  BY TypedParts
<1>2. updates[m] \in Nat /\ updates[m] < MaxUpdates[m] /\ MaxUpdates[m] \in Nat
      /\ updates' = [updates EXCEPT ![m] = updates[m] + 1]
  BY <1>1, PrometheusAssumption DEF TypedRest, Update
<1>3. /\ updates' \in [Counters \cup Gauges -> Nat]
      /\ \A k \in Counters \cup Gauges : updates'[k] \in 0 .. MaxUpdates[k]
  BY <1>1, <1>2 DEF TypedRest
<1>4. UNCHANGED <<program, order, window, mutex, calls>>
  BY DEF Update, rigid
<1> QED
  BY <1>1, <1>3, <1>4 DEF TypedRest

LEMMA UpdatesThreads ==
  ASSUME Typed, \A u \in Threads : Stays(u),
         thread' \in [Threads -> BusyStates \cup {Idle}]
  PROVE  TypedThreads'
BY DEF TypedThreads, Stays, Busy

LEMMA TypedStep ==
  ASSUME Typed, [Next]_vars
  PROVE  Typed'
<1>1. TypedRest /\ TypedThreads
  BY TypedParts
<1>2. TypedValues'
  BY StepValues
<1>3. ASSUME NEW t \in Threads, Operation(t)
      PROVE  TypedRest' /\ TypedThreads'
  <2>1. Calls(t) /\ TypedThreads'
    BY <1>3, OperationThreads
  <2>2. program.calls \in Nat /\ calls \in 0 .. program.calls
    BY PrometheusAssumption, <1>1 DEF TypedRest
  <2>3. /\ UNCHANGED <<program, order, window, mutex, updates, open, skewed>>
        /\ calls' \in 0 .. program.calls
    BY <2>1, <2>2 DEF Calls, rigid
  <2> QED
    BY <1>1, <2>1, <2>3 DEF TypedRest
<1>4. ASSUME NEW t \in Threads, Step(t)
      PROVE  TypedRest' /\ TypedThreads'
  BY <1>4, StepThreads, StepRest
<1>5. ASSUME NEW c \in Counters, UpdateCounter(c)
      PROVE  TypedRest' /\ TypedThreads'
  <2>1. PICK amount \in Amounts : Inc(c, amount)
    BY <1>5 DEF UpdateCounter
  <2>2. CASE Less(amount, 0)
    <3>1. UNCHANGED vars
      BY <2>1, <2>2 DEF Inc
    <3> QED
      BY <1>1, <3>1 DEF vars, TypedRest, TypedThreads, Busy
  <2>3. CASE ~Less(amount, 0)
    <3>1. Update(c) /\ thread' = Added(c, amount) /\ UNCHANGED <<open, skewed>>
      BY <2>1, <2>3 DEF Inc
    <3>2. c \in Totals /\ amount \in Number
      BY PrometheusAssumption DEF Totals
    <3>3. TypedThreads'
      BY <3>1, <3>2, AddMoves, UpdatesThreads DEF Notes
    <3>4. skewed' \subseteq Gauges /\ open' \in [Gauges -> Nat]
      BY <1>1, <3>1 DEF TypedRest
    <3> QED
      BY <3>1, <3>3, <3>4, UpdateRest
  <2> QED
    BY <2>2, <2>3
<1>6. ASSUME NEW g \in Gauges, UpdateGauge(g)
      PROVE  TypedRest' /\ TypedThreads'
  <2>1. Update(g) /\ thread' = thread
    BY <1>6 DEF UpdateGauge, Set, Use, EndUse
  <2>2. skewed' \subseteq Gauges
    BY <1>1, <1>6 DEF UpdateGauge, Set, Use, EndUse, Skew, TypedRest
  <2>3. open' \in [Gauges -> Nat]
    BY <1>1, <1>6 DEF UpdateGauge, Set, Use, EndUse, TypedRest
  <2>4. TypedThreads'
    BY <1>1, <2>1 DEF TypedThreads, Busy
  <2> QED
    BY <2>1, <2>2, <2>3, <2>4, UpdateRest
<1>7. ASSUME UNCHANGED vars \/ Finished
      PROVE  TypedRest' /\ TypedThreads'
  <2>1. UNCHANGED vars
    BY <1>7 DEF Finished
  <2> QED
    BY <1>1, <2>1 DEF vars, TypedRest, TypedThreads, Busy
<1>8. TypedRest' /\ TypedThreads'
  BY <1>3, <1>4, <1>5, <1>6, <1>7 DEF Next
<1> QED
  <2>1. Typed' <=> TypedRest' /\ TypedThreads' /\ TypedValues'
    BY DEF Typed, TypedRest, TypedThreads, TypedValues
  <2> QED
    BY <1>2, <1>8, <2>1

-----------------------------------------------------------------------------
(* The owner of a mutex is the thread whose program has it locked.         *)

Owns(c, x) == c.call # "idle" /\ Held(c.todo, 1, x)

Owned == \A t \in Threads : \A x \in Mutexes : mutex[x] = t <=> Owns(thread[t], x)

(* What the first step of a program makes of a mutex.                      *)
LEMMA HeldStep ==
  ASSUME NEW call, NEW todo, TodoOK(call, todo), todo # << >>, NEW x \in Mutexes
  PROVE  /\ Head(todo) = <<"lock", x>> => ~Held(todo, 1, x) /\ Held(Tail(todo), 1, x)
         /\ Head(todo) = <<"unlock", x>> => Held(todo, 1, x) /\ ~Held(Tail(todo), 1, x)
         /\ Head(todo) \notin {<<"lock", x>>, <<"unlock", x>>} =>
              (Held(todo, 1, x) <=> Held(Tail(todo), 1, x))
         /\ Held(todo, 1, x) => <<"unlock", x>> \in Range(todo)
<1> DEFINE K == Kinds(NamesOf[call], Mutexes)
           n == Len(todo)
<1>1. todo \in Seq(K)
  BY DEF TodoOK
<1> HIDE DEF K
<1>2. /\ n \in Nat /\ n > 0 /\ Head(todo) = todo[1] /\ DOMAIN todo = 1 .. n
      /\ Held(Tail(todo), 1, x) <=> Held(todo, 2, x)
  <2>1. /\ n \in Nat /\ n > 0
        /\ \A y : \A i \in 1 .. n : Held(Tail(todo), i, y) <=> Held(todo, i + 1, y)
    BY <1>1, RestOfProgram
  <2>2. Held(Tail(todo), 1, x) <=> Held(todo, 1 + 1, x)
    BY <2>1
  <2> QED
    BY <1>1, <2>1, <2>2
<1>3. InPlace(todo, 1)
  BY FirstOfTodo
<1>7. Held(todo, 1, x) => <<"unlock", x>> \in Range(todo)
  BY <1>2 DEF Held, Range
<1> HIDE DEF n
<1>4. CASE todo[1] = <<"lock", x>>
  <2>1. Held(todo, 2, x)
    BY <1>3, <1>4 DEF InPlace
  <2>2. ~Held(todo, 1, x)
    <3>1. ASSUME NEW j \in 1 .. n, todo[j] = <<"unlock", x>>
          PROVE  \E k \in 1 .. j - 1 : todo[k] = <<"lock", x>>
      <4>1. j # 1
        BY <1>4, <3>1
      <4>2. 1 \in 1 .. j - 1
        BY <1>2, <4>1
      <4> QED
        BY <1>4, <4>2
    <3> QED
      BY <3>1 DEF Held, n
  <2> QED
    BY <1>2, <1>4, <1>7, <2>1, <2>2
<1>5. CASE todo[1] = <<"unlock", x>>
  <2>1. ~Held(todo, 2, x)
    BY <1>3, <1>5 DEF InPlace
  <2>2. Held(todo, 1, x)
    <3>1. 1 \in 1 .. n /\ 1 .. 1 - 1 = {}
      BY <1>2
    <3> QED
      BY <1>5, <3>1 DEF Held, n
  <2> QED
    BY <1>2, <1>5, <1>7, <2>1, <2>2
<1>6. CASE todo[1] \notin {<<"lock", x>>, <<"unlock", x>>}
  <2>1. ASSUME Held(todo, 1, x) PROVE Held(todo, 2, x)
    <3>1. PICK j \in 1 .. n :
            todo[j] = <<"unlock", x>> /\ \A k \in 1 .. j - 1 : todo[k] # <<"lock", x>>
      BY <2>1 DEF Held, n
    <3>2. j # 1
      BY <1>6, <3>1
    <3>3. j \in 2 .. n /\ \A k \in 2 .. j - 1 : k \in 1 .. j - 1
      BY <1>2, <3>2
    <3> QED
      BY <3>1, <3>3 DEF Held, n
  <2>2. ASSUME Held(todo, 2, x) PROVE Held(todo, 1, x)
    <3>1. PICK j \in 2 .. n :
            todo[j] = <<"unlock", x>> /\ \A k \in 2 .. j - 1 : todo[k] # <<"lock", x>>
      BY <2>2 DEF Held, n
    <3>2. j \in 1 .. n /\ \A k \in 1 .. j - 1 : k = 1 \/ k \in 2 .. j - 1
      BY <1>2
    <3>3. \A k \in 1 .. j - 1 : todo[k] # <<"lock", x>>
      BY <1>6, <3>1, <3>2
    <3> QED
      BY <3>1, <3>2, <3>3 DEF Held, n
  <2> QED
    BY <1>2, <1>6, <1>7, <2>1, <2>2
<1> QED
  BY <1>4, <1>5, <1>6

(* What is held where a step of its own stands first.                      *)
LEMMA HeldFirst ==
  ASSUME NEW c, ThreadOK(c), c.todo # << >>, NEW step, NEW x, Head(c.todo) = <<step, x>>
  PROVE  /\ step \in {"copy", "clear", "push", "zero"} /\ x \in Summaries =>
              Owns(c, x)
         /\ step \in {"print", "zero"} /\ c.call \in {"serialize", "reset"} =>
              Owns(c, Registry)
<1>1. TodoOK(c.call, c.todo) /\ c.call # "idle"
  BY DEF ThreadOK, BusyStates, ScrapeStates, ResetStates, ObserveStates
<1>2. Head(c.todo) = c.todo[1] /\ InPlace(c.todo, 1) /\ 1 \in 1 .. Len(c.todo)
  BY <1>1, FirstOfTodo
<1>3. step \in {"copy", "clear", "push", "zero"} /\ x \in Summaries => Held(c.todo, 1, x)
  <2> SUFFICES ASSUME step \in {"copy", "clear", "push", "zero"}, x \in Summaries
               PROVE  Held(c.todo, 1, x)
    OBVIOUS
  <2>1. c.todo[1] = <<step, x>>
    BY <1>2
  <2>2. <<step, x>> \in {"copy", "clear", "push", "zero"} \X {x}
    OBVIOUS
  <2>3. \A y \in Summaries :
          c.todo[1] \in {"copy", "clear", "push", "zero"} \X {y} => Held(c.todo, 1, y)
    BY <1>2 DEF InPlace
  <2> QED
    BY <2>1, <2>2, <2>3
<1>4. step \in {"print", "zero"} /\ c.call \in {"serialize", "reset"} =>
        Held(c.todo, 1, Registry)
  BY <1>1, <1>2 DEF TodoOK, InRegistry
<1> QED
  BY <1>1, <1>3, <1>4 DEF Owns

(* No mutex changes hands where a thread does a step of its own.           *)
LEMMA OwnStep ==
  ASSUME Typed, Owned, mutex' = mutex, NEW t \in Threads, NEW step, Goes(t, step),
         step \notin {"lock", "unlock"}, \A u \in Threads \ {t} : Stays(u)
  PROVE  Owned'
<1> SUFFICES ASSUME NEW u \in Threads, NEW x \in Mutexes
             PROVE  mutex[x] = u <=> Owns(thread'[u], x)
  BY DEF Owned
<1>1. CASE u = t
  <2> DEFINE s == thread[t].todo
  <2>1. /\ TodoOK(thread[t].call, s) /\ s # << >> /\ Head(s) = <<step, On(t)>>
        /\ thread'[t].todo = Tail(s) /\ thread'[t].call = thread[t].call
    BY DEF Goes, ThreadOK
  <2>2. Owns(thread[t], x) <=> Owns(thread'[t], x)
    <3> HIDE DEF s
    <3>1. Head(s) \notin {<<"lock", x>>, <<"unlock", x>>}
      BY <2>1
    <3>2. Held(s, 1, x) <=> Held(Tail(s), 1, x)
      BY <2>1, <3>1, HeldStep
    <3> QED
      BY <2>1, <3>2 DEF Owns, s
  <2> QED
    BY <1>1, <2>2 DEF Owned
<1>2. CASE u # t
  <2>1. Stays(u)
    BY <1>2
  <2> QED
    BY <2>1 DEF Stays, Owned, Owns, Busy
<1> QED
  BY <1>1, <1>2

LEMMA OwnedByStep ==
  ASSUME Typed, Owned, NEW t \in Threads, Step(t)
  PROVE  Owned'
<1>1. \A u \in Threads \ {t} : Stays(u)
  BY StepThreads
<1> DEFINE y == On(t)
<1>2. \A u \in Threads \ {t} : \A x \in Mutexes : Owns(thread'[u], x) <=> Owns(thread[u], x)
  BY <1>1 DEF Stays, Owns, Busy
<1>3. mutex \in [Mutexes -> Threads \cup {NoThread}] /\ NoThread \notin Threads
  BY PrometheusAssumption DEF Typed
<1>4. ASSUME NEW step, Goes(t, step), step \in {"lock", "unlock"}, y \in Mutexes,
             mutex' = [mutex EXCEPT ![y] = IF step = "lock" THEN t ELSE NoThread],
             step = "lock" => mutex[y] = NoThread
      PROVE  Owned'
  <2>1. TodoOK(thread[t].call, thread[t].todo) /\ Head(thread[t].todo) = <<step, y>>
        /\ thread[t].todo # << >> /\ thread'[t].todo = Tail(thread[t].todo)
        /\ thread'[t].call = thread[t].call /\ thread[t].call # "idle"
    BY <1>4 DEF Goes, ThreadOK, Busy
  <2> HIDE DEF y
  <2>2. ASSUME NEW x \in Mutexes
        PROVE  /\ x = y => \/ step = "lock" /\ ~Owns(thread[t], y) /\ Owns(thread'[t], y)
                           \/ step = "unlock" /\ Owns(thread[t], y) /\ ~Owns(thread'[t], y)
               /\ x # y => (Owns(thread'[t], x) <=> Owns(thread[t], x))
    <3> DEFINE s == thread[t].todo
    <3>1. TodoOK(thread[t].call, s) /\ s # << >> /\ Head(s) = <<step, y>>
      BY <2>1
    <3> HIDE DEF s
    <3>2. /\ Head(s) = <<"lock", x>> => ~Held(s, 1, x) /\ Held(Tail(s), 1, x)
          /\ Head(s) = <<"unlock", x>> => Held(s, 1, x) /\ ~Held(Tail(s), 1, x)
          /\ Head(s) \notin {<<"lock", x>>, <<"unlock", x>>} =>
               (Held(s, 1, x) <=> Held(Tail(s), 1, x))
      BY <3>1, HeldStep
    <3>3. /\ Owns(thread[t], x) <=> Held(s, 1, x)
          /\ Owns(thread'[t], x) <=> Held(Tail(s), 1, x)
      BY <2>1 DEF Owns, s
    <3>4. CASE x # y
      BY <3>1, <3>2, <3>3, <3>4
    <3>5. CASE x = y
      BY <1>4, <3>1, <3>2, <3>3, <3>5
    <3> QED
      BY <3>4, <3>5
  <2>3. /\ mutex'[y] = IF step = "lock" THEN t ELSE NoThread
        /\ \A x \in Mutexes : x # y => mutex'[x] = mutex[x]
    BY <1>3, <1>4
  <2>4. ASSUME NEW u \in Threads, NEW x \in Mutexes
        PROVE  mutex'[x] = u <=> Owns(thread'[u], x)
    <3>1. mutex[x] = u <=> Owns(thread[u], x)
      BY DEF Owned
    <3>2. CASE x # y
      BY <1>2, <2>2, <2>3, <3>1, <3>2
    <3>3. CASE x = y /\ u # t
      <4>1. mutex[y] # u
        <5>1. CASE step = "lock"
          BY <1>3, <1>4, <5>1
        <5>2. CASE step = "unlock"
          <6>1. mutex[y] = t
            BY <2>2, <3>3, <5>2 DEF Owned
          <6> QED
            BY <3>3, <6>1
        <5> QED
          BY <1>4, <5>1, <5>2
      <4> QED
        BY <1>2, <1>3, <2>3, <3>1, <3>3, <4>1
    <3>4. CASE x = y /\ u = t
      BY <1>3, <1>4, <2>2, <2>3, <3>4
    <3> QED
      BY <3>2, <3>3, <3>4
  <2> QED
    BY <2>4 DEF Owned
<1>5. CASE Lock(t)
  <2>1. Goes(t, "lock") /\ y \in Mutexes
    BY <1>5, LockMoves
  <2> QED
    BY <1>4, <1>5, <2>1 DEF Lock
<1>6. CASE Unlock(t)
  <2>1. First(t, "unlock") /\ Goto(t, thread[t]) /\ mutex' = [mutex EXCEPT ![y] = NoThread]
    BY <1>6 DEF Unlock
  <2>2. Goes(t, "unlock") /\ <<"unlock", y>> \in AllSteps
    BY <2>1, PlainMoves, FirstFacts
  <2>3. y \in Mutexes
    BY <2>2 DEF AllSteps
  <2> QED
    BY <1>4, <2>1, <2>2, <2>3
<1>7. CASE Return(t)
  <2>1. mutex' = mutex /\ thread[t].todo = << >> /\ thread'[t] = Idle
    BY <1>7, ReturnMoves DEF Return
  <2>2. \A x \in Mutexes : ~Owns(thread[t], x) /\ ~Owns(thread'[t], x)
    <3>1. 1 .. Len(<< >>) = {}
      OBVIOUS
    <3> QED
      BY <2>1, <3>1 DEF Owns, Held, Idle
  <2> QED
    BY <1>2, <2>1, <2>2 DEF Owned
<1>8. CASE Copy(t)
  BY <1>1, <1>8, CopyMoves, OwnStep DEF Copy
<1>9. CASE PrintLine(t)
  BY <1>1, <1>9, PrintMoves, OwnStep DEF PrintLine
<1>10. CASE Zero(t)
  BY <1>1, <1>10, ZeroMoves, OwnStep DEF Zero
<1>11. CASE Count(t)
  BY <1>1, <1>11, CountMoves, OwnStep DEF Count
<1>12. CASE Clear(t)
  BY <1>1, <1>12, PlainMoves, OwnStep DEF Clear
<1>13. CASE Push(t)
  BY <1>1, <1>13, PlainMoves, OwnStep DEF Push
<1> QED
  BY <1>5, <1>6, <1>7, <1>8, <1>9, <1>10, <1>11, <1>12, <1>13 DEF Step

(* The updates of counters and gauges and what changes nothing.            *)
Beside == \/ \E c \in Counters : UpdateCounter(c)
          \/ \E g \in Gauges : UpdateGauge(g)
          \/ UNCHANGED vars

LEMMA BesideMoves ==
  ASSUME Typed, Beside
  PROVE  /\ UNCHANGED <<mutex, window, rigid>> /\ \A u \in Threads : Stays(u)
         /\ \A s \in Summaries : value'[s] = value[s]
         /\ \A u \in Threads : u \notin Resets => SameHistory(u)
<1>1. ASSUME NEW c \in Counters, NEW amount \in Amounts, Inc(c, amount), ~Less(amount, 0)
      PROVE  /\ UNCHANGED <<mutex, window, rigid>>
             /\ value' = [value EXCEPT ![c] = Plus(@, amount)]
             /\ \A u \in Threads : Stays(u)
             /\ \A u \in Threads : u \notin Resets => SameHistory(u)
  <2>1. /\ UNCHANGED <<mutex, window, rigid>> /\ thread' = Added(c, amount)
        /\ value' = [value EXCEPT ![c] = Plus(@, amount)]
    BY <1>1 DEF Inc, Update
  <2>2. c \in Totals /\ amount \in Number
    BY PrometheusAssumption DEF Totals
  <2> QED
    BY <2>1, <2>2, AddMoves DEF Notes
<1>2. ASSUME thread' = thread
      PROVE  \A u \in Threads : Stays(u) /\ SameHistory(u)
  BY <1>2 DEF Typed, Stays, SameHistory, Busy, Resets
<1>3. ASSUME NEW m \in Counters \cup Gauges, NEW v, value' = [value EXCEPT ![m] = v]
      PROVE  \A s \in Summaries : value'[s] = value[s]
  BY <1>3, PrometheusAssumption DEF Totals, Typed, All
<1>4. CASE UNCHANGED vars
  <2>1. UNCHANGED <<mutex, window, program, order, value, thread>>
    BY <1>4 DEF vars
  <2> QED
    BY <1>2, <2>1 DEF rigid
<1>5. CASE \E c \in Counters : UpdateCounter(c)
  BY <1>1, <1>3, <1>4, <1>5 DEF UpdateCounter, Inc
<1>6. ASSUME NEW g \in Gauges, UpdateGauge(g)
      PROVE  /\ UNCHANGED <<mutex, window, rigid, thread>>
             /\ \E v : value' = [value EXCEPT ![g] = v]
  BY <1>6 DEF UpdateGauge, Set, Use, EndUse, Update
<1> QED
  BY <1>2, <1>3, <1>4, <1>5, <1>6 DEF Beside

LEMMA OwnedStep ==
  ASSUME Typed, Owned, [Next]_vars
  PROVE  Owned'
<1>1. ASSUME NEW t \in Threads, Operation(t)
      PROVE  Owned'
  <2>1. Calls(t)
    BY <1>1, OperationThreads
  <2>2. ASSUME NEW u \in Threads, NEW x \in Mutexes
        PROVE  Owns(thread'[u], x) <=> Owns(thread[u], x)
    <3>1. CASE u = t
      BY <2>1, <3>1 DEF Calls, Whole, Owns, Idle
    <3>2. CASE u # t
      BY <2>1, <3>2 DEF Calls, Others, Stays, Owns, Busy
    <3> QED
      BY <3>1, <3>2
  <2> QED
    BY <2>1, <2>2 DEF Calls, Owned
<1>2. ASSUME NEW t \in Threads, Step(t)
      PROVE  Owned'
  BY <1>2, OwnedByStep
<1>3. ASSUME Beside
      PROVE  Owned'
  BY <1>3, BesideMoves DEF Stays, Owned, Owns, Busy
<1> QED
  BY <1>1, <1>2, <1>3 DEF Next, Beside, Finished

LEMMA InitOwned == Init => Owned
BY PrometheusAssumption DEF Init, Owned, Owns, Idle, Typed

Inv == Typed /\ Owned

LEMMA InvHolds == Spec => []Inv
<1>1. Init => Inv
  BY InitTyped, InitOwned DEF Inv
<1>2. Inv /\ [Next]_vars => Inv'
  BY TypedStep, OwnedStep DEF Inv
<1> QED
  BY <1>1, <1>2, PTL DEF Spec

(* The type invariant, which says as well that the owner of every mutex is *)
(* on its way to unlocking it: no path of a call leaves one locked         *)
(* (registry.cpp:68, 84, metric_family.hpp:178, summary.cpp:46, 63, 88).   *)
THEOREM TypeCorrect == Spec => []TypeOK
<1>1. Inv => TypeOK
  <2> SUFFICES ASSUME Inv PROVE TypeOK
    OBVIOUS
  <2> DEFINE Steps == {"lock", "unlock", "copy", "print", "zero", "clear", "push", "count"}
  <2>1. Typed /\ Owned
    BY DEF Inv
  <2>2. ASSUME NEW x \in Mutexes, mutex[x] # NoThread
        PROVE  mutex[x] \in Busy /\ <<"unlock", x>> \in Range(thread[mutex[x]].todo)
    <3> DEFINE t == mutex[x]
    <3>1. t \in Threads
      BY <2>1, <2>2 DEF Typed
    <3>2. Owns(thread[t], x)
      BY <2>1, <3>1 DEF Owned
    <3>3. t \in Busy /\ Held(thread[t].todo, 1, x)
      BY <3>1, <3>2 DEF Owns, Busy
    <3>4. thread[t].todo # << >>
      <4>1. 1 .. Len(<< >>) = {}
        OBVIOUS
      <4> QED
        BY <3>3, <4>1 DEF Held
    <3>5. TodoOK(thread[t].call, thread[t].todo)
      BY <2>1, <3>3 DEF Typed, ThreadOK
    <3> QED
      BY <3>3, <3>4, <3>5, HeldStep
  <2>3. ASSUME NEW t \in Busy
        PROVE  thread[t].todo \in Seq(Steps \X (Mutexes \cup All))
    <3>1. thread[t].todo \in Seq(AllSteps)
      <4>1. thread[t] \in BusyStates
        BY <2>1 DEF Typed, ThreadOK
      <4> QED
        BY <4>1 DEF BusyStates, ScrapeStates, ResetStates, ObserveStates
    <3>2. AllSteps \subseteq Steps \X (Mutexes \cup All)
      BY DEF AllSteps, Mutexes
    <3> HIDE DEF Steps
    <3> QED
      BY ONLY <3>1, <3>2, SeqMonotonic
  <2> QED
    BY <2>1, <2>2, <2>3 DEF TypeOK, Typed
<1> QED
  BY <1>1, InvHolds, PTL

-----------------------------------------------------------------------------
(* Gauges.                                                                 *)

(* Uses are counted by numbers.                                            *)
UsesTyped == open \in [Gauges -> Int] /\ \A g \in Gauges : value[g] \in Number

GaugeInv == UsesTyped /\ GaugeFollowsUses

(* What an action that sets gauge g to v makes of them.                    *)
LEMMA SetFollows ==
  ASSUME GaugeInv, NEW g \in Gauges, NEW v \in Number, Skew(g, v),
         value' = [value EXCEPT ![g] = v], open' = open, DOMAIN value = All
  PROVE  GaugeInv'
  <1>1. value'[g] = v /\ \A h \in Gauges \ {g} : value'[h] = value[h]
    BY DEF All
  <1>2. UsesTyped'
    BY <1>1 DEF GaugeInv, UsesTyped
  <1>3. ASSUME NEW h \in Gauges PROVE value'[h] = open'[h] <=> h \notin skewed'
    BY <1>1 DEF Skew, GaugeInv, GaugeFollowsUses
  <1> QED
    BY <1>2, <1>3 DEF GaugeInv, GaugeFollowsUses

(* A use that begins or ends moves the gauge as far as it moves their      *)
(* number, and leaves one that shows no number as it is.                   *)
LEMMA MoveFollows ==
  ASSUME GaugeInv, NEW g \in Gauges, NEW d \in Int, skewed' = skewed,
         value' = [value EXCEPT ![g] = Plus(value[g], d)],
         open' = [open EXCEPT ![g] = open[g] + d], DOMAIN value = All
  PROVE  GaugeInv'
  <1>1. /\ value'[g] = Plus(value[g], d) /\ open'[g] = open[g] + d
        /\ \A h \in Gauges \ {g} : value'[h] = value[h] /\ open'[h] = open[h]
    BY DEF All, GaugeInv, UsesTyped
  <1>2. /\ value[g] \in Number /\ open[g] \in Int
        /\ Plus(value[g], d) \in Number
        /\ Plus(value[g], d) = open[g] + d <=> value[g] = open[g]
    BY PrometheusAssumption DEF GaugeInv, UsesTyped, Number, Plus
  <1>3. open' \in [Gauges -> Int]
    BY <1>2 DEF GaugeInv, UsesTyped
  <1>4. UsesTyped'
    BY <1>1, <1>2, <1>3 DEF GaugeInv, UsesTyped
  <1>5. ASSUME NEW h \in Gauges PROVE value'[h] = open'[h] <=> h \notin skewed'
    BY <1>1, <1>2 DEF GaugeInv, GaugeFollowsUses
  <1> QED
    BY <1>4, <1>5 DEF GaugeInv, GaugeFollowsUses

LEMMA OthersFollow ==
  ASSUME GaugeInv, UNCHANGED <<open, skewed>>,
         \A g \in Gauges : value'[g] = value[g]
  PROVE  GaugeInv'
  BY DEF GaugeInv, UsesTyped, GaugeFollowsUses

LEMMA GaugeStep ==
  ASSUME Typed, GaugeInv, [Next]_vars
  PROVE  GaugeInv'
  <1>1. DOMAIN value = All /\ 0 \in Number
    BY DEF Typed, Number
  <1>2. ASSUME NEW t \in Threads, Quiet(t) PROVE GaugeInv'
    <2>1. UNCHANGED <<value, open, skewed>>
      BY <1>2 DEF Quiet, Operation, Serialize, Reset, FamilyReset, MetricReset, Observe, Call,
         Lock, Unlock, Copy, PrintLine, Clear, Push, Return
    <2> QED
      BY <2>1, OthersFollow
  <1>3. ASSUME NEW t \in Threads, Zero(t) PROVE GaugeInv'
    <2>1. /\ value' = [value EXCEPT ![On(t)] = 0] /\ open' = open
          /\ IF On(t) \in Gauges THEN Skew(On(t), value'[On(t)]) ELSE skewed' = skewed
      BY <1>3 DEF Zero, Zeroed
    <2>2. CASE On(t) \in Gauges
      <3>1. value'[On(t)] = 0
        BY <1>1, <2>1, <2>2 DEF All
      <3> QED
        BY <1>1, <2>1, <2>2, <3>1, SetFollows
    <2>3. CASE On(t) \notin Gauges
      <3>1. \A g \in Gauges : value'[g] = value[g]
        BY <1>1, <2>1, <2>3 DEF All
      <3> QED
        BY <2>1, <2>3, <3>1, OthersFollow
    <2> QED
      BY <2>2, <2>3
  <1>4. ASSUME NEW t \in Threads, Count(t) PROVE GaugeInv'
    <2>1. /\ value' = [value EXCEPT ![On(t)] = Plus(value[On(t)], 1)]
          /\ UNCHANGED <<open, skewed>>
      BY <1>4 DEF Count
    <2>2. On(t) \notin Gauges
      BY <1>4, CountMoves, PrometheusAssumption DEF Totals
    <2>3. \A g \in Gauges : value'[g] = value[g]
      BY <1>1, <2>1, <2>2 DEF All
    <2> QED
      BY <2>1, <2>3, OthersFollow
  <1>5. ASSUME NEW c \in Counters, UpdateCounter(c) PROVE GaugeInv'
    <2>1. PICK amount \in Amounts : Inc(c, amount)
      BY <1>5 DEF UpdateCounter
    <2>2. UNCHANGED <<open, skewed>> /\ \A g \in Gauges : g # c => value'[g] = value[g]
      BY <1>1, <2>1 DEF Inc, vars, All
    <2>3. c \notin Gauges
      BY PrometheusAssumption DEF Totals
    <2> QED
      BY <2>2, <2>3, OthersFollow
  <1>6. ASSUME NEW g \in Gauges, UpdateGauge(g) PROVE GaugeInv'
    <2>1. ASSUME NEW v \in Amounts, Set(g, v) PROVE GaugeInv'
      BY <1>1, <2>1, PrometheusAssumption, SetFollows DEF Set
    <2>2. CASE Use(g)
      <3> DEFINE d == 1
      <3>1. /\ value' = [value EXCEPT ![g] = Plus(value[g], d)] /\ skewed' = skewed
            /\ open' = [open EXCEPT ![g] = open[g] + 1]
        BY <2>2 DEF Use
      <3>2. open[g] \in Int /\ d \in Int
        BY DEF GaugeInv, UsesTyped
      <3>3. open' = [open EXCEPT ![g] = open[g] + d]
        BY <3>1, <3>2
      <3> HIDE DEF d
      <3> QED
        BY <1>1, <3>1, <3>2, <3>3, MoveFollows
    <2>3. CASE EndUse(g)
      <3> DEFINE d == -1
      <3>1. /\ value' = [value EXCEPT ![g] = Plus(value[g], d)] /\ skewed' = skewed
            /\ open' = [open EXCEPT ![g] = open[g] - 1]
        BY <2>3 DEF EndUse
      <3>2. open[g] \in Int /\ d \in Int
        BY DEF GaugeInv, UsesTyped
      <3>3. open' = [open EXCEPT ![g] = open[g] + d]
        BY <3>1, <3>2
      <3> HIDE DEF d
      <3> QED
        BY <1>1, <3>1, <3>2, <3>3, MoveFollows
    <2> QED
      BY <1>6, <2>1, <2>2, <2>3 DEF UpdateGauge
  <1>7. CASE UNCHANGED vars \/ Finished
    <2>1. UNCHANGED <<value, open, skewed>>
      BY <1>7 DEF Finished, vars
    <2> QED
      BY <2>1, OthersFollow
  <1> QED
    BY <1>2, <1>3, <1>4, <1>5, <1>6, <1>7 DEF Next, Step, Quiet

(* A gauge in step with its uses stays so until a reset, or a set to what  *)
(* is not their number, falls between, and no race of increments, decre-   *)
(* ments and resets brings any other difference about (gauge.cpp:31, 46).  *)
THEOREM GaugesFollow == Spec => []GaugeFollowsUses
  <1>1. Init => GaugeInv
    <2> SUFFICES ASSUME Init PROVE GaugeInv
      OBVIOUS
    <2>1. \A g \in Gauges : open[g] = 0 /\ value[g] = 0 /\ g \notin skewed
      BY DEF Init, All
    <2>2. UsesTyped
      BY <2>1 DEF Init, UsesTyped, Number
    <2> QED
      BY <2>1, <2>2 DEF GaugeInv, GaugeFollowsUses
  <1>2. Inv /\ GaugeInv /\ [Next]_vars => GaugeInv'
    BY GaugeStep DEF Inv
  <1>3. GaugeInv => GaugeFollowsUses
    BY DEF GaugeInv
  <1> QED
    BY <1>1, <1>2, <1>3, InvHolds, PTL DEF Spec

-----------------------------------------------------------------------------
(* Resets.                                                                 *)

(* What thread u, in a reset, was to zero and has no more to: it shows no  *)
(* more than what was added since the call.                                *)
Forgets(u) ==
  /\ \A m \in Totals : ~Less(thread[u].since[m], 0)
  /\ \A m \in thread[u].covers :
       <<"zero", m>> \notin Range(thread[u].todo) => Rises(value[m], thread[u].since[m])

ForgetInv == \A u \in Resets : Forgets(u)

LEMMA AddedRises ==
  ASSUME NEW a \in Number, NEW b \in Number, NEW v \in Number, ~Less(v, 0)
  PROVE  /\ Rises(a, b) => Rises(Plus(a, v), Plus(b, v))
         /\ ~Less(b, 0) => ~Less(Plus(b, v), 0)
BY PrometheusAssumption DEF Number, Less, Rises, Plus

LEMMA ResetTyped ==
  ASSUME Typed, NEW u \in Resets
  PROVE  /\ u \in Busy /\ thread[u] \in ResetStates /\ ThreadOK(thread[u])
         /\ thread[u].covers \subseteq Totals /\ thread[u].since \in [Totals -> Number]
<1>1. u \in Busy
  BY DEF Resets, Busy
<1>2. thread[u] \in BusyStates \cup {Idle} /\ ThreadOK(thread[u])
  BY <1>1 DEF Typed, Busy
<1>3. thread[u] \in ResetStates
  BY <1>2, StateByCall DEF Resets
<1> QED
  BY <1>1, <1>2, <1>3 DEF ResetStates

(* Zeroing undoes nothing.                                                 *)
LEMMA ForgetsKept ==
  ASSUME Typed, NEW u \in Resets, Forgets(u), SameHistory(u),
         \A m \in Totals : value'[m] = value[m] \/ value'[m] = 0,
         \A m \in Totals :
           <<"zero", m>> \in Range(thread[u].todo) =>
             <<"zero", m>> \in Range(thread'[u].todo) \/ value'[m] = 0
  PROVE  Forgets(u)'
<1>1. thread[u].covers \subseteq Totals /\ thread[u].since \in [Totals -> Number]
  BY ResetTyped
<1>2. thread'[u].covers = thread[u].covers /\ thread'[u].since = thread[u].since
  BY DEF SameHistory
<1>3. ASSUME NEW m \in Totals, value'[m] = 0
      PROVE  Rises(value'[m], thread[u].since[m])
  BY <1>1, <1>3, PrometheusAssumption DEF Forgets, Less, Rises, Number
<1>4. ASSUME NEW m \in thread[u].covers, <<"zero", m>> \notin Range(thread'[u].todo)
      PROVE  Rises(value'[m], thread[u].since[m])
  BY <1>1, <1>3, <1>4 DEF Forgets
<1> QED
  BY <1>2, <1>4 DEF Forgets

(* A step that zeroes nothing is not one of those a reset has to do.       *)
LEMMA GoesOn ==
  ASSUME NEW t, NEW step, Goes(t, step)
  PROVE  Range(thread[t].todo) = {<<step, On(t)>>} \cup Range(thread'[t].todo)
BY FirstOfTodo DEF Goes, ThreadOK

LEMMA ForgetsByStep ==
  ASSUME Typed, ForgetInv, NEW t \in Threads, NEW step, step # "zero",
         Goes(t, step), t \in Resets => SameHistory(t), Others(t), value' = value
  PROVE  ForgetInv'
<1> SUFFICES ASSUME NEW u \in Threads, u \in Resets'
             PROVE  Forgets(u)'
  BY DEF ForgetInv, Resets
<1>1. u \in Resets /\ SameHistory(u)
  BY DEF Resets, Goes, Others, Stays
<1>2. \A m : <<"zero", m>> \in Range(thread[u].todo) => <<"zero", m>> \in Range(thread'[u].todo)
  <2>1. CASE u = t
    BY <2>1, GoesOn
  <2>2. CASE u # t
    BY <1>1, <2>2, ResetTyped DEF Others, Stays
  <2> QED
    BY <2>1, <2>2
<1> QED
  BY <1>1, <1>2, ForgetsKept DEF ForgetInv

(* What is added to a metric is noted by every reset.                      *)
LEMMA ForgetsAdded ==
  ASSUME Typed, NEW u \in Resets, Forgets(u), NEW m \in Totals, NEW v \in Number,
         ~Less(v, 0), Notes(u, m, v), value' = [value EXCEPT ![m] = Plus(value[m], v)]
  PROVE  Forgets(u)'
<1>1. /\ thread[u].covers \subseteq Totals /\ thread[u].since \in [Totals -> Number]
      /\ u \in Busy
  BY ResetTyped
<1>2. /\ thread'[u].covers = thread[u].covers /\ thread'[u].todo = thread[u].todo
      /\ thread'[u].since = [thread[u].since EXCEPT ![m] = Plus(thread[u].since[m], v)]
  BY <1>1 DEF Notes, Stays
<1>3. \A k \in Totals : value[k] \in Number
  BY DEF Typed, All
<1>4. DOMAIN value = All /\ Totals \subseteq All
  BY DEF Typed, All
<1>5. ASSUME NEW k \in Totals
      PROVE  /\ thread'[u].since[k] =
                  IF k = m THEN Plus(thread[u].since[k], v) ELSE thread[u].since[k]
             /\ value'[k] = IF k = m THEN Plus(value[k], v) ELSE value[k]
  BY <1>1, <1>2, <1>4
<1>6. ASSUME NEW k \in Totals
      PROVE  /\ ~Less(thread'[u].since[k], 0)
             /\ Rises(value[k], thread[u].since[k]) => Rises(value'[k], thread'[u].since[k])
  <2>1. thread[u].since[k] \in Number /\ value[k] \in Number /\ ~Less(thread[u].since[k], 0)
    BY <1>1, <1>3 DEF Forgets
  <2> QED
    BY <1>5, <2>1, AddedRises
<1> QED
  BY <1>1, <1>2, <1>6 DEF Forgets

LEMMA ForgetStep ==
  ASSUME Typed, ForgetInv, [Next]_vars
  PROVE  ForgetInv'
<1>0. DOMAIN value = All /\ Totals \subseteq All
  BY DEF Typed, All
<1>1. ASSUME NEW t \in Threads, Serialize(t) \/ (\E s \in Summaries : Observe(t, s))
      PROVE  ForgetInv'
  <2>1. Calls(t) /\ thread'[t].call \notin {"reset", "family_reset", "metric_reset"}
    <3>1. CASE Serialize(t)
      <4>1. Calls(t) /\ thread'[t].call = "serialize"
        BY <3>1, SerializeMoves
      <4> QED
        BY <4>1
    <3>2. ASSUME NEW s \in Summaries, Observe(t, s)
          PROVE  Calls(t) /\ thread'[t].call = "observe"
      <4>1. Calls(t) /\ thread'[t] = [call |-> "observe", todo |-> ObserveProgram(s)]
        BY <3>2, ObserveMoves
      <4>2. \A p : [call |-> "observe", todo |-> p].call = "observe"
        OBVIOUS
      <4> QED
        BY <4>1, <4>2
    <3> QED
      BY <1>1, <3>1, <3>2
  <2>2. ASSUME NEW u \in Threads, u \in Resets'
        PROVE  Forgets(u)'
    <3>1. u # t
      BY <2>1, <2>2 DEF Resets
    <3>2. u \in Resets /\ SameHistory(u) /\ Stays(u) /\ value' = value
      BY <2>1, <2>2, <3>1 DEF Calls, Others, Stays, Resets
    <3>3. thread'[u].todo = thread[u].todo
      BY <3>2, ResetTyped DEF Stays
    <3> QED
      BY <3>2, <3>3, ForgetsKept DEF ForgetInv
  <2> QED
    BY <2>2 DEF ForgetInv, Resets
<1>2. ASSUME NEW t \in Threads, Reset(t) \/ OwnReset(t)
      PROVE  ForgetInv'
  <2>1. /\ Calls(t) /\ \A m \in thread'[t].covers : <<"zero", m>> \in Range(thread'[t].todo)
        /\ \A m \in Totals : thread'[t].since[m] = 0
    BY <1>2, ResetMoves
  <2>2. ASSUME NEW u \in Threads, u \in Resets'
        PROVE  Forgets(u)'
    <3>1. CASE u = t
      BY <2>1, <3>1 DEF Forgets, Less
    <3>2. CASE u # t
      <4>1. u \in Resets /\ SameHistory(u) /\ Stays(u) /\ value' = value
        BY <2>1, <2>2, <3>2 DEF Calls, Others, Stays, Resets
      <4>2. thread'[u].todo = thread[u].todo
        BY <4>1, ResetTyped DEF Stays
      <4> QED
        BY <4>1, <4>2, ForgetsKept DEF ForgetInv
    <3> QED
      BY <3>1, <3>2
  <2> QED
    BY <2>2 DEF ForgetInv, Resets
<1>3. ASSUME NEW t \in Threads, Lock(t)
      PROVE  ForgetInv'
  BY <1>3, LockMoves, ForgetsByStep DEF Lock
<1>4. ASSUME NEW t \in Threads, Unlock(t) \/ Clear(t) \/ Push(t)
      PROVE  ForgetInv'
  <2>1. PICK step : First(t, step) /\ Goto(t, thread[t]) /\ step # "zero" /\ value' = value
    BY <1>4 DEF Unlock, Clear, Push
  <2> QED
    BY <2>1, PlainMoves, ForgetsByStep
<1>5. ASSUME NEW t \in Threads, Copy(t)
      PROVE  ForgetInv'
  BY <1>5, CopyMoves, ForgetsByStep DEF Copy, Scrapes, Resets
<1>6. ASSUME NEW t \in Threads, PrintLine(t)
      PROVE  ForgetInv'
  BY <1>6, PrintMoves, ForgetsByStep DEF PrintLine, Scrapes, Resets
<1>7. ASSUME NEW t \in Threads, Zero(t)
      PROVE  ForgetInv'
  <2>1. /\ Goes(t, "zero") /\ t \in Resets /\ SameHistory(t)
        /\ \A u \in Threads \ {t} : Stays(u) /\ (u \in Resets => SameHistory(u))
    BY <1>7, ZeroMoves
  <2>2. \A m \in Totals : value'[m] = IF m = On(t) THEN 0 ELSE value[m]
    BY <1>0, <1>7 DEF Zero, Zeroed
  <2>3. ASSUME NEW u \in Threads, u \in Resets'
        PROVE  Forgets(u)'
    <3>1. u \in Resets /\ SameHistory(u)
      BY <2>1, <2>3 DEF Resets, Stays
    <3>2. \A m : <<"zero", m>> \in Range(thread[u].todo) =>
                   <<"zero", m>> \in Range(thread'[u].todo) \/ m = On(t)
      <4>1. CASE u = t
        BY <2>1, <4>1, GoesOn
      <4>2. CASE u # t
        BY <2>1, <3>1, <4>2, ResetTyped DEF Stays
      <4> QED
        BY <4>1, <4>2
    <3> QED
      BY <2>2, <3>1, <3>2, ForgetsKept DEF ForgetInv
  <2> QED
    BY <2>3 DEF ForgetInv, Resets
<1>8. ASSUME NEW t \in Threads, Count(t)
      PROVE  ForgetInv'
  <2>1. /\ Goes(t, "count") /\ On(t) \in Totals /\ thread[t].call = "observe"
        /\ \A u \in Threads \ {t} : Notes(u, On(t), 1)
    BY <1>8, CountMoves DEF Totals
  <2>2. value' = [value EXCEPT ![On(t)] = Plus(value[On(t)], 1)]
    BY <1>8 DEF Count
  <2>3. 1 \in Number /\ ~Less(1, 0)
    BY DEF Number, Less
  <2>4. ASSUME NEW u \in Threads, u \in Resets'
        PROVE  Forgets(u)'
    <3>1. u # t
      BY <2>1, <2>4 DEF Resets, Goes
    <3>2. u \in Resets /\ Notes(u, On(t), 1)
      BY <2>1, <2>4, <3>1 DEF Resets, Notes, Stays
    <3> QED
      BY <2>1, <2>2, <2>3, <3>2, ForgetsAdded DEF ForgetInv
  <2> QED
    BY <2>4 DEF ForgetInv, Resets
<1>9. ASSUME NEW t \in Threads, Return(t)
      PROVE  ForgetInv'
  <2>1. Others(t) /\ thread'[t] = Idle /\ value' = value
    BY <1>9, ReturnMoves DEF Return
  <2>2. ASSUME NEW u \in Threads, u \in Resets'
        PROVE  Forgets(u)'
    <3>1. u # t
      BY <2>1, <2>2 DEF Resets, Idle
    <3>2. u \in Resets /\ SameHistory(u) /\ Stays(u)
      BY <2>1, <2>2, <3>1 DEF Others, Stays, Resets
    <3>3. thread'[u].todo = thread[u].todo
      BY <3>2, ResetTyped DEF Stays
    <3> QED
      BY <2>1, <3>2, <3>3, ForgetsKept DEF ForgetInv
  <2> QED
    BY <2>2 DEF ForgetInv, Resets
<1>10. ASSUME NEW c \in Counters, UpdateCounter(c)
       PROVE  ForgetInv'
  <2>1. PICK amount \in Amounts : Inc(c, amount)
    BY <1>10 DEF UpdateCounter
  <2>2. amount \in Number /\ c \in Totals
    BY PrometheusAssumption DEF Totals
  <2>3. CASE Less(amount, 0)
    <3>1. thread' = thread /\ value' = value
      BY <2>1, <2>3 DEF Inc, vars
    <3> QED
      BY <3>1 DEF ForgetInv, Forgets, Resets
  <2>4. CASE ~Less(amount, 0)
    <3>1. thread' = Added(c, amount) /\ value' = [value EXCEPT ![c] = Plus(value[c], amount)]
      BY <2>1, <2>4 DEF Inc
    <3>2. \A u \in Threads : Notes(u, c, amount)
      BY <2>2, <3>1, AddMoves
    <3>3. ASSUME NEW u \in Threads, u \in Resets'
          PROVE  Forgets(u)'
      <4>1. u \in Resets
        BY <3>2, <3>3 DEF Notes, Stays, Resets
      <4> QED
        BY <2>2, <2>4, <3>1, <3>2, <4>1, ForgetsAdded DEF ForgetInv
    <3> QED
      BY <3>3 DEF ForgetInv, Resets
  <2> QED
    BY <2>3, <2>4
<1>11. ASSUME NEW g \in Gauges, UpdateGauge(g)
       PROVE  ForgetInv'
  <2>1. thread' = thread /\ \E v : value' = [value EXCEPT ![g] = v]
    BY <1>11 DEF UpdateGauge, Set, Use, EndUse
  <2>2. \A m \in Totals : value'[m] = value[m]
    BY <1>0, <2>1, PrometheusAssumption
  <2>3. ASSUME NEW u \in Resets
        PROVE  Forgets(u)'
    BY <2>1, <2>2, <2>3, ResetTyped DEF ForgetInv, Forgets
  <2> QED
    BY <2>1, <2>3 DEF ForgetInv, Resets
<1>12. ASSUME UNCHANGED vars \/ Finished
       PROVE  ForgetInv'
  <2>1. thread' = thread /\ value' = value
    BY <1>12 DEF Finished, vars
  <2> QED
    BY <2>1 DEF ForgetInv, Forgets, Resets
<1> QED
  BY <1>1, <1>2, <1>3, <1>4, <1>5, <1>6, <1>7, <1>8, <1>9, <1>10, <1>11, <1>12
     DEF Next, Operation, OwnReset, Step

(* A reset that has returned has forgotten all there was when it was       *)
(* called, whatever was added and whoever else reset or scraped meanwhile  *)
(* (registry.cpp:82, metric_family.hpp:176).                               *)
THEOREM ResetsForget == Spec => []ResetForgets
<1>1. Init => ForgetInv
  BY DEF Init, ForgetInv, Resets, Idle
<1>2. Inv /\ ForgetInv /\ [Next]_vars => ForgetInv'
  BY ForgetStep DEF Inv
<1>3. ForgetInv => ResetForgets
  <2>1. Range(<< >>) = {}
    BY DEF Range
  <2> QED
    BY <2>1 DEF ForgetInv, Forgets, ResetForgets
<1> QED
  BY <1>1, <1>2, <1>3, InvHolds, PTL DEF Spec

-----------------------------------------------------------------------------
(* Scrapes.                                                                *)

(* What scrape t has printed since it locked the registry is no less than  *)
(* it was then, and what it has to print still is neither.                 *)
Untorn(t) ==
  /\ <<"lock", Registry>> \in Range(thread[t].todo) => DOMAIN thread[t].lines = {}
  /\ \A m \in DOMAIN thread[t].lines \ thread[t].reset :
       Rises(thread[t].base[m], thread[t].lines[m])
  /\ Owns(thread[t], Registry) =>
       \A m \in Totals \ thread[t].reset :
         Unprinted(t, m) => Rises(thread[t].base[m], value[m])

UntornInv == \A t \in Scrapes : Untorn(t)

LEMMA ScrapeTyped ==
  ASSUME Typed, NEW t \in Scrapes
  PROVE  /\ t \in Busy /\ thread[t] \in ScrapeStates /\ ThreadOK(thread[t])
         /\ thread[t].base \in [Totals -> Number] /\ thread[t].reset \subseteq Totals
         /\ thread[t].lines \in Partial(Totals, Number)
         /\ DOMAIN thread[t].lines \subseteq Totals
         /\ thread[t].copied \in Partial(Totals, Nat)
         /\ thread[t].late \in Partial(Totals, Nat)
<1>1. t \in Busy
  BY DEF Scrapes, Busy
<1>2. thread[t] \in BusyStates \cup {Idle} /\ ThreadOK(thread[t])
  BY <1>1 DEF Typed, Busy
<1>3. thread[t] \in ScrapeStates
  BY <1>2, StateByCall DEF Scrapes
<1> QED
  BY <1>1, <1>2, <1>3 DEF ScrapeStates, Partial

LEMMA RisesTwice ==
  ASSUME NEW a \in Number, NEW b \in Number, NEW c \in Number, Rises(a, b), Rises(b, c)
  PROVE  Rises(a, c)
BY PrometheusAssumption DEF Number, Rises

(* What counts up does so but where it is zeroed.                          *)
TotalsRise == \A m \in Totals : Rises(value[m], value'[m])

LEMMA WriteTotals ==
  ASSUME Typed, NEW m, NEW v, value' = [value EXCEPT ![m] = v],
         m \in Totals => Rises(value[m], v)
  PROVE  TotalsRise
<1>1. value \in [All -> Number] /\ Totals \subseteq All
  BY DEF Typed, All
<1>2. ASSUME NEW k \in Totals PROVE Rises(value[k], value'[k])
  <2>1. value[k] \in Number /\ k \in All
    BY <1>1
  <2>2. CASE k = m
    BY <1>1, <2>1, <2>2
  <2>3. CASE k # m
    BY <1>1, <2>1, <2>3, SameRises
  <2> QED
    BY <2>2, <2>3
<1> QED
  BY <1>2 DEF TotalsRise

LEMMA KeptTotals ==
  ASSUME Typed, value' = value
  PROVE  TotalsRise
<1>1. \A m \in Totals : value[m] \in Number
  BY DEF Typed, All
<1> QED
  BY <1>1, SameRises DEF TotalsRise

LEMMA BesideRises ==
  ASSUME Typed, Beside
  PROVE  TotalsRise
<1>1. ASSUME NEW c \in Counters, NEW amount \in Amounts, Inc(c, amount)
      PROVE  TotalsRise
  <2>1. CASE Less(amount, 0)
    BY <1>1, <2>1, KeptTotals DEF Inc, vars
  <2>2. CASE ~Less(amount, 0)
    <3>1. value' = [value EXCEPT ![c] = Plus(value[c], amount)]
      BY <1>1, <2>2 DEF Inc
    <3>2. value[c] \in Number /\ amount \in Number
      BY PrometheusAssumption DEF Typed, All, Totals
    <3>3. Rises(value[c], Plus(value[c], amount))
      BY <2>2, <3>2, PlusRises
    <3> QED
      BY <3>1, <3>3, WriteTotals
  <2> QED
    BY <2>1, <2>2
<1>2. ASSUME NEW g \in Gauges, UpdateGauge(g)
      PROVE  TotalsRise
  <2>1. \E v : value' = [value EXCEPT ![g] = v]
    BY <1>2 DEF UpdateGauge, Set, Use, EndUse
  <2>2. g \notin Totals
    BY PrometheusAssumption
  <2> QED
    BY <2>1, <2>2, WriteTotals
<1>3. CASE UNCHANGED vars
  BY <1>3, KeptTotals DEF vars
<1> QED
  BY <1>1, <1>2, <1>3 DEF Beside, UpdateCounter

LEMMA CountRises ==
  ASSUME Typed, NEW t \in Threads, Count(t)
  PROVE  TotalsRise
<1>1. value' = [value EXCEPT ![On(t)] = Plus(value[On(t)], 1)] /\ On(t) \in Summaries
  BY CountMoves DEF Count
<1>2. value[On(t)] \in Number /\ 1 \in Number /\ ~Less(1, 0)
  BY <1>1 DEF Typed, All, Totals, Number, Less
<1> QED
  BY <1>1, <1>2, PlusRises, WriteTotals

(* A scrape that stays where it is.                                        *)
LEMMA UntornKept ==
  ASSUME Typed, NEW t \in Scrapes, Untorn(t), Stays(t), SameHistory(t),
         TotalsRise, \A m \in Totals : value'[m] \in Number
  PROVE  Untorn(t)'
<1>1. /\ thread'[t].call = "serialize" /\ thread'[t].todo = thread[t].todo
      /\ thread'[t].base = thread[t].base /\ thread'[t].lines = thread[t].lines
      /\ thread'[t].reset = thread[t].reset
  BY ScrapeTyped DEF Stays, SameHistory, Scrapes
<1>2. ASSUME NEW m \in Totals, Rises(thread[t].base[m], value[m])
      PROVE  Rises(thread[t].base[m], value'[m])
  <2>1. thread[t].base[m] \in Number /\ value[m] \in Number /\ value'[m] \in Number
    BY ScrapeTyped DEF Typed, All
  <2> QED
    BY <1>2, <2>1, RisesTwice DEF TotalsRise
<1>3. Owns(thread'[t], Registry) <=> Owns(thread[t], Registry)
  BY <1>1 DEF Owns, Scrapes
<1>4. \A m : Unprinted(t, m)' <=> Unprinted(t, m)
  BY <1>1 DEF Unprinted
<1> QED
  BY <1>1, <1>2, <1>3, <1>4 DEF Untorn

LEMMA UntornOthers ==
  ASSUME Typed, Typed', UntornInv, NEW u \in Threads, TotalsRise,
         \A t \in Threads \ {u} : Stays(t) /\ (t \in Scrapes => SameHistory(t)),
         u \in Scrapes' => Untorn(u)'
  PROVE  UntornInv'
<1>1. \A m \in Totals : value'[m] \in Number
  BY DEF Typed, All
<1> SUFFICES ASSUME NEW t \in Threads, t \in Scrapes'
             PROVE  Untorn(t)'
  BY DEF UntornInv, Scrapes
<1>2. CASE t = u
  BY <1>2
<1>3. CASE t # u
  <2>1. t \in Scrapes /\ Stays(t) /\ SameHistory(t)
    BY <1>3 DEF Stays, Scrapes
  <2> QED
    BY <1>1, <2>1, UntornKept DEF UntornInv
<1> QED
  BY <1>2, <1>3

(* A scrape that goes on.  It locks the registry at most once and once it  *)
(* has begun no more.                                                      *)
LEMMA ScrapeGoes ==
  ASSUME Typed, NEW t \in Scrapes, NEW step, Goes(t, step)
  PROVE  /\ Range(thread[t].todo) = {<<step, On(t)>>} \cup Range(thread'[t].todo)
         /\ <<"lock", Registry>> \notin Range(thread'[t].todo)
         /\ \A m : Unprinted(t, m)' => Unprinted(t, m)
         /\ <<step, On(t)>> # <<"lock", Registry>> /\ Owns(thread'[t], Registry) =>
              Owns(thread[t], Registry)
         /\ step = "print" => Owns(thread[t], Registry) /\ Unprinted(t, On(t))
<1> DEFINE s == thread[t].todo
           rest == thread'[t].todo
<1>1. /\ TodoOK(thread[t].call, s) /\ s # << >> /\ Head(s) = <<step, On(t)>>
      /\ rest = Tail(s) /\ thread[t].call = "serialize" /\ thread'[t].call = "serialize"
  BY DEF Goes, ThreadOK, Scrapes
<1>2. Range(s) = {<<step, On(t)>>} \cup Range(rest)
  BY GoesOn
<1>3. <<"lock", Registry>> \notin Range(rest)
  BY <1>1, RestOfTodo
<1>4. Registry \in Mutexes
  BY DEF Mutexes
<1>5. \A m : Unprinted(t, m)' => Unprinted(t, m)
  BY <1>2 DEF Unprinted
<1>6. step = "print" => Owns(thread[t], Registry)
  BY <1>1, HeldFirst DEF Goes
<1>7. step = "print" => Unprinted(t, On(t))
  BY <1>2 DEF Unprinted
<1>8. ASSUME <<step, On(t)>> # <<"lock", Registry>>, Owns(thread'[t], Registry)
      PROVE  Owns(thread[t], Registry)
  <2>1. Held(rest, 1, Registry)
    BY <1>8 DEF Owns
  <2> HIDE DEF s, rest
  <2>2. /\ Head(s) = <<"unlock", Registry>> =>
             Held(s, 1, Registry) /\ ~Held(Tail(s), 1, Registry)
        /\ Head(s) \notin {<<"lock", Registry>>, <<"unlock", Registry>>} =>
             (Held(s, 1, Registry) <=> Held(Tail(s), 1, Registry))
    BY <1>1, <1>4, HeldStep
  <2>3. Held(s, 1, Registry)
    BY <1>1, <1>8, <2>1, <2>2
  <2> QED
    BY <1>1, <2>3 DEF Owns, s
<1> QED
  BY <1>2, <1>3, <1>5, <1>6, <1>7, <1>8

LEMMA UntornGoes ==
  ASSUME Typed, NEW t \in Scrapes, Untorn(t), NEW step, Goes(t, step), SameHistory(t),
         <<step, On(t)>> # <<"lock", Registry>>, value' = value
  PROVE  Untorn(t)'
<1>1. /\ thread'[t].base = thread[t].base /\ thread'[t].lines = thread[t].lines
      /\ thread'[t].reset = thread[t].reset
  BY DEF SameHistory, Scrapes
<1>2. /\ <<"lock", Registry>> \notin Range(thread'[t].todo)
      /\ \A m : Unprinted(t, m)' => Unprinted(t, m)
      /\ Owns(thread'[t], Registry) => Owns(thread[t], Registry)
  BY ScrapeGoes
<1> QED
  BY <1>1, <1>2 DEF Untorn

LEMMA UntornLock ==
  ASSUME Typed, NEW t \in Scrapes, Untorn(t), Lock(t), On(t) = Registry
  PROVE  Untorn(t)'
<1>1. /\ Goes(t, "lock") /\ thread'[t].lines = thread[t].lines
      /\ thread'[t].base = Restrict(value, Totals) /\ thread'[t].reset = {}
      /\ value' = value
  <2>1. t \in Threads
    BY DEF Scrapes
  <2> QED
    BY <2>1, LockMoves DEF Lock
<1>2. DOMAIN thread'[t].lines = {}
  BY <1>1, ScrapeGoes DEF Untorn
<1>3. ASSUME NEW m \in Totals PROVE Rises(thread'[t].base[m], value'[m])
  <2>1. value[m] \in Number /\ thread'[t].base[m] = value[m]
    BY <1>1 DEF Typed, All, Restrict
  <2> QED
    BY <1>1, <2>1, SameRises
<1> QED
  BY <1>2, <1>3 DEF Untorn

LEMMA UntornPrint ==
  ASSUME Typed, NEW t \in Scrapes, Untorn(t), PrintLine(t)
  PROVE  Untorn(t)'
<1> DEFINE n == On(t)
<1>1. /\ Goes(t, "print") /\ n \in All
      /\ thread'[t].base = thread[t].base /\ thread'[t].reset = thread[t].reset
      /\ IF n \in Gauges THEN thread'[t].lines = thread[t].lines
           ELSE thread'[t].lines = With(thread[t].lines, n, value[n])
      /\ value' = value
  <2>1. t \in Threads
    BY DEF Scrapes
  <2> QED
    BY <2>1, PrintMoves DEF PrintLine
<1>2. /\ <<"lock", Registry>> \notin Range(thread'[t].todo)
      /\ \A m : Unprinted(t, m)' => Unprinted(t, m)
      /\ Owns(thread'[t], Registry) => Owns(thread[t], Registry)
      /\ Owns(thread[t], Registry) /\ Unprinted(t, n)
  BY <1>1, ScrapeGoes
<1> HIDE DEF n
<1>3. ASSUME NEW m \in DOMAIN thread'[t].lines \ thread'[t].reset
      PROVE  Rises(thread'[t].base[m], thread'[t].lines[m])
  <2>1. CASE n \in Gauges
    BY <1>1, <1>3, <2>1 DEF Untorn
  <2>2. CASE n \notin Gauges
    <3>1. n \in Totals /\ value[n] \in Number
      BY <1>1, <2>2 DEF All, Typed
    <3>2. thread[t].lines \in Partial(Totals, Number)
      BY ScrapeTyped
    <3> DEFINE f == thread[t].lines
               v == value[n]
               w == With(f, n, v)
    <3>4. thread'[t].lines = w
      BY <1>1, <2>2
    <3>7. f \in Partial(Totals, Number) /\ v \in Number
      BY <3>1, <3>2
    <3> HIDE DEF f, v
    <3>8. /\ DOMAIN w = DOMAIN f \cup {n} /\ w[n] = v
          /\ \A y \in DOMAIN f \ {n} : w[y] = f[y]
      BY <3>1, <3>7, WithFacts
    <3> HIDE DEF w
    <3>3. /\ DOMAIN w = DOMAIN thread[t].lines \cup {n} /\ w[n] = value[n]
          /\ \A y \in DOMAIN thread[t].lines \ {n} : w[y] = thread[t].lines[y]
      BY <3>8 DEF f, v
    <3>5. CASE m = n
      BY <1>1, <1>2, <1>3, <3>1, <3>3, <3>4, <3>5 DEF Untorn
    <3>6. CASE m # n
      BY <1>1, <1>3, <3>3, <3>4, <3>6 DEF Untorn
    <3> QED
      BY <3>5, <3>6
  <2> QED
    BY <2>1, <2>2
<1> QED
  BY <1>1, <1>2, <1>3 DEF Untorn

(* A zeroing is noted by the scrape it matters to or the registry is       *)
(* locked against that scrape.                                             *)
LEMMA UntornZero ==
  ASSUME Typed, Owned, UntornInv, NEW u \in Threads, Zero(u)
  PROVE  UntornInv'
<1> DEFINE n == On(u)
<1>1. /\ Goes(u, "zero") /\ u \in Resets
      /\ \A t \in Threads \ {u} :
           /\ Stays(t)
           /\ t \in Scrapes =>
                /\ thread'[t].base = thread[t].base /\ thread'[t].lines = thread[t].lines
                /\ thread'[t].reset =
                     IF u \in OwnResets /\ n \in Totals /\ Unprinted(t, n)
                       THEN thread[t].reset \cup {n} ELSE thread[t].reset
  BY ZeroMoves
<1>2. \A m \in Totals : m # n => value'[m] = value[m]
  BY DEF Zero, Typed, All
<1>3. ASSUME NEW t \in Threads, t \in Scrapes'
      PROVE  Untorn(t)'
  <2>1. t # u
    BY <1>1, <1>3 DEF Scrapes, Resets, Goes
  <2>2. t \in Scrapes /\ Stays(t) /\ Untorn(t)
    BY <1>1, <1>3, <2>1 DEF Scrapes, Stays, UntornInv
  <2>3. /\ thread'[t].todo = thread[t].todo /\ thread'[t].call = thread[t].call
        /\ DOMAIN thread[t].lines \subseteq Totals
    BY <2>2, ScrapeTyped DEF Stays
  <2>4. /\ thread'[t].base = thread[t].base /\ thread'[t].lines = thread[t].lines
        /\ thread[t].reset \subseteq thread'[t].reset
    BY <1>1, <2>1, <2>2
  <2>5. /\ Owns(thread'[t], Registry) <=> Owns(thread[t], Registry)
        /\ \A m : Unprinted(t, m)' <=> Unprinted(t, m)
    BY <2>3 DEF Owns, Unprinted
  <2>6. ASSUME Owns(thread[t], Registry), n \in Totals, Unprinted(t, n)
        PROVE  n \in thread'[t].reset
    <3>1. CASE thread[u].call = "reset"
      <4>1. Owns(thread[u], Registry)
        BY <1>1, <3>1, HeldFirst DEF Goes
      <4>2. Registry \in Mutexes
        BY DEF Mutexes
      <4> QED
        BY <2>1, <2>6, <4>1, <4>2 DEF Owned
    <3>2. CASE u \in OwnResets
      BY <1>1, <2>1, <2>2, <2>6, <3>2
    <3> QED
      BY <1>1, <3>1, <3>2 DEF Resets, OwnResets
  <2>7. ASSUME Owns(thread[t], Registry), NEW m \in Totals \ thread'[t].reset, Unprinted(t, m)
        PROVE  Rises(thread[t].base[m], value'[m])
    <3>1. m # n
      BY <2>6, <2>7
    <3> QED
      BY <1>2, <2>2, <2>4, <2>7, <3>1 DEF Untorn
  <2> QED
    BY <2>2, <2>3, <2>4, <2>5, <2>7 DEF Untorn
<1> QED
  BY <1>3 DEF UntornInv, Scrapes

(* Only serialize() begins a scrape.                                       *)
LEMMA NotScrape ==
  ASSUME Typed, NEW t \in Threads, thread'[t].call = "serialize"
  PROVE  /\ ~Reset(t)
         /\ \A f \in Families : ~FamilyReset(t, f)
         /\ \A m \in All : ~MetricReset(t, m)
         /\ \A s \in Summaries : ~Observe(t, s)
<1>1. ~(Reset(t) \/ OwnReset(t))
  BY ResetMoves
<1>2. ASSUME NEW s \in Summaries, Observe(t, s)
      PROVE  FALSE
  <2>1. thread'[t] = [call |-> "observe", todo |-> ObserveProgram(s)]
    BY <1>2, ObserveMoves
  <2>2. \A p : [call |-> "observe", todo |-> p].call = "observe"
    OBVIOUS
  <2> QED
    BY <2>1, <2>2
<1> QED
  BY <1>1, <1>2 DEF OwnReset

LEMMA UntornStep ==
  ASSUME Typed, Typed', Owned, UntornInv, [Next]_vars
  PROVE  UntornInv'
<1>1. ASSUME NEW t \in Threads, Operation(t)
      PROVE  UntornInv'
  <2>1. Calls(t)
    BY <1>1, OperationThreads
  <2>2. TotalsRise
    BY <2>1, KeptTotals DEF Calls
  <2>3. ASSUME t \in Scrapes' PROVE Untorn(t)'
    <3>1. Serialize(t)
      BY <1>1, <2>3, NotScrape DEF Operation, Scrapes
    <3>2. DOMAIN thread'[t].lines = {} /\ Whole(thread'[t].todo)
      BY <3>1, SerializeMoves DEF Calls
    <3>3. ~Owns(thread'[t], Registry)
      BY <3>2 DEF Whole, Owns, Mutexes
    <3> QED
      BY <3>2, <3>3 DEF Untorn
  <2> QED
    BY <2>1, <2>2, <2>3, UntornOthers DEF Calls, Others
<1>2. ASSUME NEW t \in Threads, NEW step, Goes(t, step), Others(t), SameHistory(t),
             <<step, On(t)>> # <<"lock", Registry>> \/ t \notin Scrapes, value' = value
      PROVE  UntornInv'
  <2>1. t \in Scrapes' => t \in Scrapes
    BY <1>2 DEF Goes, Scrapes
  <2> QED
    BY <1>2, <2>1, KeptTotals, UntornGoes, UntornOthers DEF Others, UntornInv
<1>3. ASSUME NEW t \in Threads, Lock(t)
      PROVE  UntornInv'
  <2>1. Goes(t, "lock") /\ Others(t) /\ value' = value
    BY <1>3, LockMoves DEF Lock
  <2>2. t \in Scrapes' => t \in Scrapes
    BY <2>1 DEF Goes, Scrapes
  <2>3. ASSUME t \in Scrapes PROVE Untorn(t)'
    <3>1. CASE On(t) = Registry
      BY <1>3, <2>3, <3>1, UntornLock DEF UntornInv
    <3>2. CASE On(t) # Registry
      <4>1. SameHistory(t)
        BY <1>3, <2>3, <3>2, LockMoves DEF SameHistory, Scrapes, Resets
      <4> QED
        BY <2>1, <2>3, <3>2, <4>1, UntornGoes DEF UntornInv
    <3> QED
      BY <3>1, <3>2
  <2> QED
    BY <2>1, <2>2, <2>3, KeptTotals, UntornOthers DEF Others
<1>4. ASSUME NEW t \in Threads, Unlock(t) \/ Clear(t) \/ Push(t)
      PROVE  UntornInv'
  <2>1. PICK step : First(t, step) /\ Goto(t, thread[t]) /\ step # "lock" /\ value' = value
    BY <1>4 DEF Unlock, Clear, Push
  <2>2. Goes(t, step) /\ Others(t) /\ SameHistory(t)
    BY <2>1, PlainMoves
  <2> QED
    BY <1>2, <2>1, <2>2
<1>5. ASSUME NEW t \in Threads, Copy(t)
      PROVE  UntornInv'
  <2>1. /\ Goes(t, "copy") /\ Others(t) /\ value' = value /\ t \in Scrapes
        /\ thread'[t].base = thread[t].base /\ thread'[t].lines = thread[t].lines
        /\ thread'[t].reset = thread[t].reset
    BY <1>5, CopyMoves DEF Copy
  <2>2. /\ <<"lock", Registry>> \notin Range(thread'[t].todo)
        /\ \A m : Unprinted(t, m)' => Unprinted(t, m)
        /\ Owns(thread'[t], Registry) => Owns(thread[t], Registry)
    BY <2>1, ScrapeGoes
  <2>3. Untorn(t)'
    BY <2>1, <2>2 DEF Untorn, UntornInv
  <2> QED
    BY <2>1, <2>3, KeptTotals, UntornOthers DEF Others
<1>6. ASSUME NEW t \in Threads, PrintLine(t)
      PROVE  UntornInv'
  <2>1. Others(t) /\ value' = value /\ t \in Scrapes
    BY <1>6, PrintMoves DEF PrintLine
  <2>2. Untorn(t)'
    BY <1>6, <2>1, UntornPrint DEF UntornInv
  <2> QED
    BY <2>1, <2>2, KeptTotals, UntornOthers DEF Others
<1>7. ASSUME NEW t \in Threads, Zero(t)
      PROVE  UntornInv'
  BY <1>7, UntornZero
<1>8. ASSUME NEW t \in Threads, Count(t)
      PROVE  UntornInv'
  <2>1. /\ Goes(t, "count") /\ thread[t].call = "observe"
        /\ \A u \in Threads \ {t} : Notes(u, On(t), 1)
    BY <1>8, CountMoves
  <2>2. t \notin Scrapes'
    BY <2>1 DEF Goes, Scrapes
  <2>3. \A u \in Threads \ {t} : Stays(u) /\ (u \in Scrapes => SameHistory(u))
    BY <2>1 DEF Notes, Scrapes, Resets
  <2> QED
    BY <1>8, <2>2, <2>3, CountRises, UntornOthers
<1>9. ASSUME NEW t \in Threads, Return(t)
      PROVE  UntornInv'
  <2>1. Others(t) /\ thread'[t] = Idle /\ value' = value
    BY <1>9, ReturnMoves DEF Return
  <2>2. t \notin Scrapes'
    BY <2>1 DEF Scrapes, Idle
  <2> QED
    BY <2>1, <2>2, KeptTotals, UntornOthers DEF Others
<1>10. ASSUME Beside
       PROVE  UntornInv'
  <2>1. /\ \A u \in Threads : Stays(u) /\ (u \in Scrapes => SameHistory(u))
    BY <1>10, BesideMoves DEF Scrapes, Resets
  <2>2. \A m \in Totals : value'[m] \in Number
    BY DEF Typed, All
  <2>3. ASSUME NEW u \in Threads, u \in Scrapes' PROVE Untorn(u)'
    <3>1. u \in Scrapes
      BY <2>1, <2>3 DEF Stays, Scrapes
    <3> QED
      BY <1>10, <2>1, <2>2, <3>1, BesideRises, UntornKept DEF UntornInv
  <2> QED
    BY <2>3 DEF UntornInv, Scrapes
<1> QED
  BY <1>1, <1>3, <1>4, <1>5, <1>6, <1>7, <1>8, <1>9, <1>10
     DEF Next, Step, Beside, Finished

(* No scrape shows a reset of the registry half done, for any number of    *)
(* threads and families and every order the families are visited in        *)
(* (registry.cpp:68, 84).                                                  *)
THEOREM ScrapesNotTorn == Spec => []ScrapeNotTorn
<1>1. Init => UntornInv
  BY DEF Init, UntornInv, Scrapes, Idle
<1>2. Inv /\ Inv' /\ UntornInv /\ [Next]_vars => UntornInv'
  BY UntornStep DEF Inv
<1>3. UntornInv => ScrapeNotTorn
  BY DEF UntornInv, Untorn, ScrapeNotTorn
<1> QED
  BY <1>1, <1>2, <1>3, InvHolds, PTL DEF Spec

-----------------------------------------------------------------------------
(* Observations on their way.                                              *)

(* What observe() has to do still, from its call on.                       *)
RestsOf(s) ==
  LET p1 == <<"lock", s>>  p2 == <<"push", s>>  p3 == <<"unlock", s>>  p4 == <<"count", s>>
  IN  {<<p1, p2, p3, p4>>, <<p2, p3, p4>>, <<p3, p4>>, <<p4>>, << >>}

Late(todo, s) == todo \in {Do("unlock", s) \o Do("count", s), Do("count", s)}

ObserverInv ==
  \A t \in Busy : thread[t].call = "observe" => \E s \in Summaries : thread[t].todo \in RestsOf(s)

LEMMA TwoSteps ==
  ASSUME NEW a, NEW b
  PROVE  <<a>> \o <<b>> = <<a, b>>
<1> DEFINE S == {a, b}
           two == <<a, b>>
           sa == <<a>>
           sb == <<b>>
           c == sa \o sb
<1>1. two \in Seq(S) /\ Len(two) = 2 /\ two[1] = a /\ two[2] = b
  OBVIOUS
<1>2. /\ sa \in Seq(S) /\ sb \in Seq(S) /\ Len(sa) = 1 /\ Len(sb) = 1
      /\ sa[1] = a /\ sb[1] = b
  OBVIOUS
<1> HIDE DEF S, two, sa, sb
<1>3. c \in Seq(S) /\ Len(c) = 2 /\ c[1] = a /\ c[2] = b
  BY <1>2, ConcatProperties
<1> HIDE DEF c
<1>4. \A i \in 1 .. 2 : c[i] = two[i]
  BY <1>1, <1>3
<1>5. c = two
  BY <1>1, <1>3, <1>4, SeqEqual
<1> QED
  BY <1>5 DEF c, sa, sb, two

LEMMA LateSpelt ==
  ASSUME NEW s, NEW todo
  PROVE  Late(todo, s) <=> todo \in {<< <<"unlock", s>>, <<"count", s>> >>, << <<"count", s>> >>}
<1>1. << <<"unlock", s>> >> \o << <<"count", s>> >> = << <<"unlock", s>>, <<"count", s>> >>
  BY TwoSteps
<1> QED
  BY <1>1 DEF Late, Do

LEMMA ObserveTail ==
  ASSUME NEW s, NEW todo \in RestsOf(s), todo # << >>, NEW r
  PROVE  /\ Tail(todo) \in RestsOf(s)
         /\ Head(todo) = <<"push", r>> => ~Late(todo, r) /\ Late(Tail(todo), r)
         /\ Head(todo) = <<"count", r>> => Late(todo, r) /\ ~Late(Tail(todo), r)
         /\ Head(todo) \notin {<<"push", r>>, <<"count", r>>} =>
              (Late(todo, r) <=> Late(Tail(todo), r))
<1> DEFINE p1 == <<"lock", s>>
           p2 == <<"push", s>>
           p3 == <<"unlock", s>>
           p4 == <<"count", s>>
           q2 == <<"push", r>>
           q3 == <<"unlock", r>>
           q4 == <<"count", r>>
<1>1. /\ p1 \notin {q2, q3, q4} /\ p2 \notin {q3, q4} /\ p3 \notin {q2, q4}
      /\ p4 \notin {q2, q3} /\ (p2 = q2 <=> s = r) /\ (p3 = q3 <=> s = r) /\ (p4 = q4 <=> s = r)
  OBVIOUS
<1>2. \A x : Late(x, r) <=> x = <<q3, q4>> \/ x = <<q4>>
  BY LateSpelt
<1>3. /\ todo = <<p1, p2, p3, p4>> \/ todo = <<p2, p3, p4>> \/ todo = <<p3, p4>> \/ todo = <<p4>>
      /\ \A x : x \in {<<p1, p2, p3, p4>>, <<p2, p3, p4>>, <<p3, p4>>, <<p4>>, << >>}
                  => x \in RestsOf(s)
  BY DEF RestsOf
<1> HIDE DEF p1, p2, p3, p4, q2, q3, q4
<1>4. CASE todo = <<p1, p2, p3, p4>>
  <2>1. Head(todo) = p1 /\ Tail(todo) = <<p2, p3, p4>>
    BY <1>4
  <2>2. ~Late(todo, r) /\ ~Late(Tail(todo), r)
    BY <1>2, <1>4, <2>1
  <2> QED
    BY <1>1, <1>3, <2>1, <2>2 DEF q2, q4
<1>5. CASE todo = <<p2, p3, p4>>
  <2>1. Head(todo) = p2 /\ Tail(todo) = <<p3, p4>>
    BY <1>5
  <2>2. ~Late(todo, r) /\ (Late(Tail(todo), r) <=> s = r)
    BY <1>1, <1>2, <1>5, <2>1
  <2> QED
    BY <1>1, <1>3, <2>1, <2>2 DEF q2, q4
<1>6. CASE todo = <<p3, p4>>
  <2>1. Head(todo) = p3 /\ Tail(todo) = <<p4>>
    BY <1>6
  <2>2. (Late(todo, r) <=> s = r) /\ (Late(Tail(todo), r) <=> s = r)
    BY <1>1, <1>2, <1>6, <2>1
  <2> QED
    BY <1>1, <1>3, <2>1, <2>2 DEF q2, q4
<1>7. CASE todo = <<p4>>
  <2>1. Head(todo) = p4 /\ Tail(todo) = << >>
    BY <1>7
  <2>2. (Late(todo, r) <=> s = r) /\ ~Late(Tail(todo), r)
    BY <1>1, <1>2, <1>7, <2>1
  <2> QED
    BY <1>1, <1>3, <2>1, <2>2 DEF q2, q4
<1> QED
  BY <1>3, <1>4, <1>5, <1>6, <1>7

(* How many observations of s are in its window and not counted yet.       *)
Pending(s) == Cardinality(Uncounted(s))

LEMMA UncountedIs ==
  ASSUME NEW s
  PROVE  Uncounted(s) = {u \in Busy : thread[u].call = "observe" /\ Late(thread[u].todo, s)}
BY DEF Uncounted, Late

(* One thread that begins or ends being among them.                        *)
LEMMA PendingMoves ==
  ASSUME NEW t \in Threads, \A u \in Threads \ {t} : Stays(u), NEW s
  PROVE  /\ Pending(s) \in Nat /\ Pending(s)' \in Nat
         /\ t \notin Uncounted(s) /\ t \in Uncounted(s)' => Pending(s)' = Pending(s) + 1
         /\ t \in Uncounted(s) /\ t \notin Uncounted(s)' => Pending(s)' = Pending(s) - 1
         /\ (t \in Uncounted(s) <=> t \in Uncounted(s)') => Pending(s)' = Pending(s)
<1> DEFINE U == Uncounted(s)
           V == Uncounted(s)'
<1>1. IsFiniteSet(Threads) /\ U \subseteq Threads /\ V \subseteq Threads
  BY PrometheusAssumption DEF Uncounted, Busy
<1>2. \A u \in Threads \ {t} : u \in U <=> u \in V
  BY DEF Stays, Uncounted, Busy
<1>3. Pending(s) = Cardinality(U) /\ Pending(s)' = Cardinality(V)
  BY DEF Pending
<1> HIDE DEF U, V
<1>4. IsFiniteSet(U) /\ IsFiniteSet(V)
  BY <1>1, FS_Subset
<1>5. Cardinality(U) \in Nat /\ Cardinality(V) \in Nat
  BY <1>4, FS_CardinalityType
<1>6. ASSUME t \notin U, t \in V PROVE Cardinality(V) = Cardinality(U) + 1
  <2>1. V = U \cup {t}
    BY <1>1, <1>2, <1>6
  <2> QED
    BY <1>4, <1>6, <2>1, FS_AddElement
<1>7. ASSUME t \in U, t \notin V PROVE Cardinality(V) = Cardinality(U) - 1
  <2>1. V = U \ {t}
    BY <1>1, <1>2, <1>7
  <2> QED
    BY <1>4, <1>7, <2>1, FS_RemoveElement
<1>8. ASSUME t \in U <=> t \in V PROVE Cardinality(V) = Cardinality(U)
  <2>1. V = U
    BY <1>1, <1>2, <1>8
  <2> QED
    BY <2>1
<1> QED
  BY <1>3, <1>5, <1>6, <1>7, <1>8 DEF U, V

(* A step and the observations on their way.                               *)
LEMMA PendingGoes ==
  ASSUME Typed, ObserverInv, NEW t \in Threads, NEW step, Goes(t, step),
         \A u \in Threads \ {t} : Stays(u)
  PROVE  /\ ObserverInv'
         /\ \A s \in Summaries :
              /\ Pending(s) \in Nat /\ Pending(s)' \in Nat
              /\ <<step, On(t)>> = <<"push", s>> => Pending(s)' = Pending(s) + 1
              /\ <<step, On(t)>> = <<"count", s>> => Pending(s)' = Pending(s) - 1
              /\ <<step, On(t)>> \notin {<<"push", s>>, <<"count", s>>} =>
                   Pending(s)' = Pending(s)
<1> DEFINE todo == thread[t].todo
           rest == thread'[t].todo
<1>1. /\ t \in Busy /\ todo # << >> /\ Head(todo) = <<step, On(t)>> /\ rest = Tail(todo)
      /\ thread'[t].call = thread[t].call /\ t \in Busy'
  BY DEF Goes, Busy
<1>2. thread[t].call = "observe" => \E r \in Summaries : todo \in RestsOf(r)
  BY <1>1 DEF ObserverInv
<1>3. thread[t].call = "observe" => \E r \in Summaries : rest \in RestsOf(r)
  <2> SUFFICES ASSUME thread[t].call = "observe"
               PROVE  \E r \in Summaries : rest \in RestsOf(r)
    OBVIOUS
  <2>1. PICK r \in Summaries : todo \in RestsOf(r)
    BY <1>2
  <2> HIDE DEF todo, rest
  <2>2. Tail(todo) \in RestsOf(r)
    BY <1>1, <2>1, ObserveTail
  <2> QED
    BY <1>1, <2>2
<1>4. ObserverInv'
  <2>1. ASSUME NEW u \in Threads \ {t}, u \in Busy', thread'[u].call = "observe"
        PROVE  \E s \in Summaries : thread'[u].todo \in RestsOf(s)
    <3>1. u \in Busy /\ thread'[u].todo = thread[u].todo /\ thread[u].call = "observe"
      BY <2>1 DEF Stays, Busy
    <3> QED
      BY <3>1 DEF ObserverInv
  <2> QED
    BY <1>1, <1>3, <2>1 DEF ObserverInv, Busy
<1>5. ASSUME NEW s \in Summaries
      PROVE  /\ <<step, On(t)>> = <<"push", s>> => t \notin Uncounted(s) /\ t \in Uncounted(s)'
             /\ <<step, On(t)>> = <<"count", s>> => t \in Uncounted(s) /\ t \notin Uncounted(s)'
             /\ <<step, On(t)>> \notin {<<"push", s>>, <<"count", s>>} =>
                  (t \in Uncounted(s) <=> t \in Uncounted(s)')
  <2>1. /\ t \in Uncounted(s) <=> thread[t].call = "observe" /\ Late(todo, s)
        /\ t \in Uncounted(s)' <=> thread[t].call = "observe" /\ Late(rest, s)
    BY <1>1 DEF Uncounted, Late
  <2>2. step \in {"push", "count"} => thread[t].call = "observe"
    BY NamesFacts DEF Goes
  <2>3. CASE thread[t].call = "observe"
    <3>1. PICK r \in Summaries : todo \in RestsOf(r)
      BY <1>2, <2>3
    <3> HIDE DEF todo, rest
    <3>2. /\ Head(todo) = <<"push", s>> => ~Late(todo, s) /\ Late(Tail(todo), s)
          /\ Head(todo) = <<"count", s>> => Late(todo, s) /\ ~Late(Tail(todo), s)
          /\ Head(todo) \notin {<<"push", s>>, <<"count", s>>} =>
               (Late(todo, s) <=> Late(Tail(todo), s))
      BY <1>1, <3>1, ObserveTail
    <3> QED
      BY <1>1, <2>1, <2>3, <3>2
  <2>4. CASE thread[t].call # "observe"
    BY <2>1, <2>2, <2>4
  <2> QED
    BY <2>3, <2>4
<1> QED
  BY <1>4, <1>5, PendingMoves

(* Nothing is on its way where a call begins or ends.                      *)
LEMMA PendingKept ==
  ASSUME Typed, ObserverInv, NEW t \in Threads, \A u \in Threads \ {t} : Stays(u),
         \A s \in Summaries : t \notin Uncounted(s) /\ t \notin Uncounted(s)',
         t \in Busy' /\ thread'[t].call = "observe" =>
           \E s \in Summaries : thread'[t].todo \in RestsOf(s)
  PROVE  /\ ObserverInv'
         /\ \A s \in Summaries : Pending(s) \in Nat /\ Pending(s)' = Pending(s)
<1>1. ASSUME NEW u \in Threads, u \in Busy', thread'[u].call = "observe"
      PROVE  \E s \in Summaries : thread'[u].todo \in RestsOf(s)
  <2>1. CASE u = t
    BY <1>1, <2>1
  <2>2. CASE u # t
    <3>1. u \in Busy /\ thread'[u].todo = thread[u].todo /\ thread[u].call = "observe"
      BY <1>1, <2>2 DEF Stays, Busy
    <3> QED
      BY <3>1 DEF ObserverInv
  <2> QED
    BY <2>1, <2>2
<1>2. ObserverInv'
  BY <1>1 DEF ObserverInv, Busy
<1> QED
  BY <1>2, PendingMoves

(* Where no thread moves, none of them begins or ends.                     *)
LEMMA PendingSame ==
  ASSUME Typed, ObserverInv, \A u \in Threads : Stays(u)
  PROVE  /\ ObserverInv'
         /\ \A s \in Summaries : Pending(s) \in Nat /\ Pending(s)' = Pending(s)
<1>1. \A s : Uncounted(s)' = Uncounted(s)
  BY DEF Stays, Uncounted, Busy
<1>2. ObserverInv'
  BY DEF ObserverInv, Stays, Busy
<1> QED
  BY <1>1, <1>2, UncountedFinite DEF Pending

-----------------------------------------------------------------------------
(* Windows.                                                                *)

(* Where the count of a summary is about to be zeroed its window is empty. *)
ClearedInv ==
  \A t \in Busy : \A s \in Summaries :
    thread[t].todo # << >> /\ Head(thread[t].todo) = <<"zero", s>> => window[s] = 0

LEMMA ZeroAfterClear ==
  ASSUME NEW call, NEW todo, TodoOK(call, todo), todo # << >>, Tail(todo) # << >>,
         NEW s \in Summaries, Head(Tail(todo)) = <<"zero", s>>
  PROVE  Head(todo) = <<"clear", s>>
<1> DEFINE n == Len(todo)
           rest == Tail(todo)
<1>1. todo \in Seq(Kinds(NamesOf[call], Mutexes)) /\ Disciplined(todo)
  BY DEF TodoOK
<1>2. /\ rest \in Seq(Kinds(NamesOf[call], Mutexes)) /\ Len(rest) = n - 1 /\ n \in Nat
      /\ \A i \in 1 .. n - 1 : rest[i] = todo[i + 1]
  BY <1>1, RestOfProgram
<1>3. Head(todo) = todo[1]
  BY <1>1
<1>4. Head(rest) = rest[1] /\ 1 \in 1 .. n - 1
  <2>1. Len(rest) # 0
    BY <1>2, EmptySeq
  <2> QED
    BY <1>2, <2>1
<1>5. todo[2] = <<"zero", s>> /\ 2 \in 1 .. n
  BY <1>2, <1>4
<1>6. InPlace(todo, 2)
  BY <1>1, <1>5 DEF Disciplined
<1>7. todo[2] = <<"zero", s>> /\ 2 > 1 => todo[2 - 1] = <<"clear", s>>
  BY ONLY <1>6, s \in Summaries DEF InPlace
<1> QED
  BY <1>3, <1>5, <1>7

LEMMA ClearedStays ==
  ASSUME Typed, ClearedInv, NEW t \in Threads,
         \A u \in Threads \ {t} : Stays(u),
         \A u \in Busy \ {t} : \A s \in Summaries :
           thread[u].todo # << >> /\ Head(thread[u].todo) = <<"zero", s>> =>
             window'[s] \in {0, window[s]},
         \A s \in Summaries :
           t \in Busy' /\ thread'[t].todo # << >> /\ Head(thread'[t].todo) = <<"zero", s>> =>
             window'[s] = 0
  PROVE  ClearedInv'
<1> SUFFICES ASSUME NEW u \in Threads, u \in Busy', NEW s \in Summaries,
                    thread'[u].todo # << >>, Head(thread'[u].todo) = <<"zero", s>>
             PROVE  window'[s] = 0
  BY DEF ClearedInv, Busy
<1>1. CASE u = t
  BY <1>1
<1>2. CASE u # t
  <2>1. u \in Busy /\ thread'[u].todo = thread[u].todo
    BY <1>2 DEF Stays, Busy
  <2>2. window[s] = 0
    BY <2>1 DEF ClearedInv
  <2> QED
    BY <1>2, <2>1, <2>2
<1> QED
  BY <1>1, <1>2

LEMMA ClearedGoes ==
  ASSUME NEW t \in Threads, NEW step, Goes(t, step), NEW s \in Summaries,
         thread'[t].todo # << >>, Head(thread'[t].todo) = <<"zero", s>>
  PROVE  step = "clear" /\ On(t) = s
<1>1. /\ TodoOK(thread[t].call, thread[t].todo) /\ thread[t].todo # << >>
      /\ thread'[t].todo = Tail(thread[t].todo) /\ Head(thread[t].todo) = <<step, On(t)>>
  BY DEF Goes, ThreadOK
<1>2. Head(thread[t].todo) = <<"clear", s>>
  BY <1>1, ZeroAfterClear
<1> QED
  BY <1>1, <1>2

LEMMA ClearedStep ==
  ASSUME Typed, Owned, ClearedInv, [Next]_vars
  PROVE  ClearedInv'
<1>1. ASSUME NEW t \in Threads, Operation(t)
      PROVE  ClearedInv'
  <2>1. Calls(t) /\ window' = window
    BY <1>1, OperationThreads DEF Calls
  <2>2. ASSUME NEW s \in Summaries, thread'[t].todo # << >>,
               Head(thread'[t].todo) = <<"zero", s>>
        PROVE  FALSE
    <3> DEFINE todo == thread'[t].todo
    <3>1. TodoOK(thread'[t].call, todo) /\ Whole(todo)
      BY <2>1 DEF Calls, ThreadOK
    <3>2. todo # << >> /\ Head(todo) = <<"zero", s>>
      BY <2>2
    <3> HIDE DEF todo
    <3>3. Head(todo) = todo[1] /\ 1 \in 1 .. Len(todo)
      BY <3>1, <3>2, FirstOfTodo
    <3> QED
      BY <3>1, <3>2, <3>3 DEF Whole
  <2> QED
    BY <2>1, <2>2, ClearedStays DEF Calls, Others
<1>2. ASSUME NEW t \in Threads, NEW step, Goes(t, step), step # "clear", window' = window,
             \A u \in Threads \ {t} : Stays(u)
      PROVE  ClearedInv'
  BY <1>2, ClearedGoes, ClearedStays
<1>3. ASSUME NEW t \in Threads, Clear(t)
      PROVE  ClearedInv'
  <2>1. /\ Goes(t, "clear") /\ Others(t) /\ window' = [window EXCEPT ![On(t)] = 0]
        /\ <<"clear", On(t)>> \in AllSteps
    BY <1>3, PlainMoves, FirstFacts DEF Clear
  <2>2. window \in [Summaries -> Nat]
    BY DEF Typed
  <2>3. \A s \in Summaries : window'[s] = IF s = On(t) THEN 0 ELSE window[s]
    BY <2>1, <2>2
  <2>4. \A s \in Summaries :
          thread'[t].todo # << >> /\ Head(thread'[t].todo) = <<"zero", s>> => window'[s] = 0
    BY <2>1, <2>3, ClearedGoes
  <2> QED
    BY <2>1, <2>3, <2>4, ClearedStays DEF Others
<1>4. ASSUME NEW t \in Threads, Push(t)
      PROVE  ClearedInv'
  <2>1. /\ Goes(t, "push") /\ Others(t) /\ <<"push", On(t)>> \in AllSteps
        /\ window' = [window EXCEPT ![On(t)] = window[On(t)] + 1]
    BY <1>4, PlainMoves, FirstFacts DEF Push
  <2>2. On(t) \in Summaries
    BY <2>1 DEF AllSteps
  <2>3. Owns(thread[t], On(t))
    BY <2>1, <2>2, HeldFirst DEF Goes
  <2>4. ASSUME NEW u \in Busy \ {t}, NEW s \in Summaries,
               thread[u].todo # << >>, Head(thread[u].todo) = <<"zero", s>>
        PROVE  window'[s] = window[s]
    <3>1. Owns(thread[u], s)
      BY <2>4, HeldFirst DEF Typed
    <3>2. s # On(t)
      BY <2>2, <2>3, <3>1 DEF Owned, Busy, Mutexes
    <3> QED
      BY <2>1, <3>2 DEF Typed
  <2>5. ASSUME NEW s \in Summaries, thread'[t].todo # << >>,
               Head(thread'[t].todo) = <<"zero", s>>
        PROVE  FALSE
    BY <2>1, <2>5, ClearedGoes
  <2> QED
    BY <2>1, <2>4, <2>5, ClearedStays DEF Others
<1>5. ASSUME NEW t \in Threads, Lock(t) PROVE ClearedInv'
  BY <1>2, <1>5, LockMoves DEF Lock, Others
<1>6. ASSUME NEW t \in Threads, Unlock(t) PROVE ClearedInv'
  BY <1>2, <1>6, PlainMoves DEF Unlock, Others
<1>7. ASSUME NEW t \in Threads, Copy(t) PROVE ClearedInv'
  BY <1>2, <1>7, CopyMoves DEF Copy, Others
<1>8. ASSUME NEW t \in Threads, PrintLine(t) PROVE ClearedInv'
  BY <1>2, <1>8, PrintMoves DEF PrintLine, Others
<1>9. ASSUME NEW t \in Threads, Zero(t) PROVE ClearedInv'
  BY <1>2, <1>9, ZeroMoves DEF Zero
<1>10. ASSUME NEW t \in Threads, Count(t) PROVE ClearedInv'
  BY <1>2, <1>10, CountMoves DEF Count, Notes
<1>11. ASSUME NEW t \in Threads, Return(t)
       PROVE  ClearedInv'
  <2>1. Others(t) /\ thread'[t] = Idle /\ window' = window
    BY <1>11, ReturnMoves DEF Return
  <2>2. t \notin Busy'
    BY <2>1 DEF Busy, Idle
  <2> QED
    BY <2>1, <2>2, ClearedStays DEF Others
<1>12. ASSUME Beside
       PROVE  ClearedInv'
  <2>1. window' = window /\ \A u \in Threads : Stays(u)
    BY <1>12, BesideMoves
  <2> QED
    BY <2>1 DEF ClearedInv, Stays, Busy
<1> QED
  BY <1>1, <1>3, <1>4, <1>5, <1>6, <1>7, <1>8, <1>9, <1>10, <1>11, <1>12
     DEF Next, Step, Beside, Finished

(* Every observation in a window is counted or on its way to be.           *)
Room(s) == value[s] + Pending(s)

WindowInv == \A s \in Summaries : value[s] \in Nat /\ window[s] <= Room(s)

(* A step leaves as much, or zeroes the count.                             *)
RoomUp(s) == Room(s) \in Nat /\ Room(s)' \in Nat /\ Room(s) <= Room(s)'

RoomLeft == ObserverInv' /\ WindowInv' /\ \A s \in Summaries : RoomUp(s)

LEMMA RoomStays ==
  ASSUME Typed, WindowInv, UNCHANGED window, ObserverInv',
         \A s \in Summaries : value'[s] = value[s],
         \A s \in Summaries : Pending(s) \in Nat /\ Pending(s)' = Pending(s)
  PROVE  RoomLeft
<1>1. ASSUME NEW s \in Summaries
      PROVE  /\ Room(s) \in Nat /\ Room(s)' = Room(s)
             /\ value'[s] \in Nat /\ window'[s] <= Room(s)'
  BY DEF WindowInv, Room
<1>2. WindowInv'
  BY <1>1 DEF WindowInv
<1>3. ASSUME NEW s \in Summaries
      PROVE  Room(s) \in Nat /\ Room(s)' \in Nat /\ Room(s) <= Room(s)'
  BY <1>1
<1> QED
  BY <1>2, <1>3 DEF RoomLeft, RoomUp

LEMMA RoomByStep ==
  ASSUME Typed, ObserverInv, ClearedInv, WindowInv, NEW t \in Threads, Step(t)
  PROVE  /\ ObserverInv' /\ WindowInv'
         /\ \A s \in Summaries : RoomUp(s) \/ (Zero(t) /\ On(t) = s)
<1>1. \A u \in Threads \ {t} : Stays(u)
  BY StepThreads
<1>2. window \in [Summaries -> Nat] /\ value \in [All -> Number] /\ Summaries \subseteq All
  BY DEF Typed, All, Totals
<1>3. ASSUME NEW step, Goes(t, step), step \notin {"push", "count"}, window' = window,
             value' = value
      PROVE  RoomLeft
  <2>1. /\ ObserverInv'
        /\ \A s \in Summaries : Pending(s) \in Nat /\ Pending(s)' = Pending(s)
    BY <1>1, <1>3, PendingGoes
  <2> QED
    BY <1>3, <2>1, RoomStays
<1>4. CASE Push(t)
  <2>1. Goes(t, "push") /\ window' = [window EXCEPT ![On(t)] = window[On(t)] + 1]
        /\ value' = value
    BY <1>4, PlainMoves DEF Push
  <2>2. /\ ObserverInv'
        /\ \A s \in Summaries :
             /\ Pending(s) \in Nat
             /\ Pending(s)' = IF s = On(t) THEN Pending(s) + 1 ELSE Pending(s)
    BY <1>1, <2>1, PendingGoes
  <2>3. ASSUME NEW s \in Summaries
        PROVE  /\ Room(s) \in Nat /\ Room(s)' \in Nat /\ Room(s) <= Room(s)'
               /\ value'[s] \in Nat /\ window'[s] <= Room(s)'
    <3>1. /\ value[s] \in Nat /\ window[s] \in Nat /\ window[s] <= value[s] + Pending(s)
          /\ window'[s] = IF s = On(t) THEN window[s] + 1 ELSE window[s]
      BY <1>2, <2>1 DEF WindowInv, Room
    <3> QED
      BY <2>1, <2>2, <3>1 DEF Room
  <2> QED
    BY <2>2, <2>3 DEF RoomUp, WindowInv
<1>5. CASE Count(t)
  <2>1. Goes(t, "count") /\ value' = [value EXCEPT ![On(t)] = Plus(value[On(t)], 1)]
        /\ window' = window
    BY <1>5, CountMoves DEF Count
  <2>2. /\ ObserverInv'
        /\ \A s \in Summaries :
             /\ Pending(s) \in Nat /\ Pending(s)' \in Nat
             /\ Pending(s)' = IF s = On(t) THEN Pending(s) - 1 ELSE Pending(s)
    BY <1>1, <2>1, PendingGoes
  <2>3. ASSUME NEW s \in Summaries
        PROVE  /\ Room(s) \in Nat /\ Room(s)' \in Nat /\ Room(s) <= Room(s)'
               /\ value'[s] \in Nat /\ window'[s] <= Room(s)'
    <3>1. /\ value[s] \in Nat /\ window[s] \in Nat /\ window[s] <= value[s] + Pending(s)
      BY <1>2 DEF WindowInv, Room
    <3>2. Plus(value[s], 1) = value[s] + 1
      BY <3>1, PrometheusAssumption DEF Plus
    <3>3. value'[s] = IF s = On(t) THEN value[s] + 1 ELSE value[s]
      BY <1>2, <2>1, <3>2
    <3> QED
      BY <2>1, <2>2, <3>1, <3>3 DEF Room
  <2> QED
    BY <2>2, <2>3 DEF RoomUp, WindowInv
<1>6. CASE Clear(t)
  <2>1. Goes(t, "clear") /\ window' = [window EXCEPT ![On(t)] = 0] /\ value' = value
    BY <1>6, PlainMoves DEF Clear
  <2>2. /\ ObserverInv'
        /\ \A s \in Summaries : Pending(s) \in Nat /\ Pending(s)' = Pending(s)
    BY <1>1, <2>1, PendingGoes
  <2>3. ASSUME NEW s \in Summaries
        PROVE  /\ Room(s) \in Nat /\ Room(s)' \in Nat /\ Room(s) <= Room(s)'
               /\ value'[s] \in Nat /\ window'[s] <= Room(s)'
    <3>1. /\ value[s] \in Nat /\ window[s] \in Nat /\ window[s] <= value[s] + Pending(s)
          /\ window'[s] = IF s = On(t) THEN 0 ELSE window[s]
      BY <1>2, <2>1 DEF WindowInv, Room
    <3> QED
      BY <2>1, <2>2, <3>1 DEF Room
  <2> QED
    BY <2>2, <2>3 DEF RoomUp, WindowInv
<1>7. CASE Zero(t)
  <2>1. Goes(t, "zero") /\ value' = [value EXCEPT ![On(t)] = 0] /\ window' = window
    BY <1>7, ZeroMoves DEF Zero, Zeroed
  <2>2. /\ ObserverInv'
        /\ \A s \in Summaries : Pending(s) \in Nat /\ Pending(s)' = Pending(s)
    BY <1>1, <2>1, PendingGoes
  <2>3. ASSUME NEW s \in Summaries
        PROVE  /\ Room(s) \in Nat /\ Room(s)' \in Nat
               /\ Room(s) <= Room(s)' \/ On(t) = s
               /\ value'[s] \in Nat /\ window'[s] <= Room(s)'
    <3>1. /\ value[s] \in Nat /\ window[s] \in Nat /\ window[s] <= value[s] + Pending(s)
          /\ value'[s] = IF s = On(t) THEN 0 ELSE value[s]
      BY <1>2, <2>1 DEF WindowInv, Room
    <3>2. s = On(t) => window[s] = 0
      BY <2>1 DEF Goes, ClearedInv
    <3> QED
      BY <2>1, <2>2, <3>1, <3>2 DEF Room
  <2>5. WindowInv'
    BY <2>3 DEF WindowInv
  <2> QED
    BY <1>7, <2>2, <2>3, <2>5 DEF RoomUp
<1>8. CASE Lock(t)
  BY <1>3, <1>8, LockMoves DEF Lock, RoomLeft
<1>9. CASE Unlock(t)
  BY <1>3, <1>9, PlainMoves DEF Unlock, RoomLeft
<1>10. CASE Copy(t)
  BY <1>3, <1>10, CopyMoves DEF Copy, RoomLeft
<1>11. CASE PrintLine(t)
  BY <1>3, <1>11, PrintMoves DEF PrintLine, RoomLeft
<1>12. CASE Return(t)
  <2>1. /\ thread[t].todo = << >> /\ thread'[t] = Idle /\ window' = window /\ value' = value
    BY <1>12, ReturnMoves DEF Return
  <2>2. \A s \in Summaries : t \notin Uncounted(s)
    <3>1. \A s \in Summaries : ~Late(<< >>, s)
      BY LateSpelt
    <3> QED
      BY <2>1, <3>1 DEF Uncounted, Late
  <2>3. t \notin Busy'
    BY <2>1 DEF Busy, Idle
  <2>4. \A s \in Summaries : t \notin Uncounted(s)'
    BY <2>3 DEF Uncounted
  <2>5. /\ ObserverInv'
        /\ \A s \in Summaries : Pending(s) \in Nat /\ Pending(s)' = Pending(s)
    BY <1>1, <2>2, <2>3, <2>4, PendingKept
  <2> QED
    BY <2>1, <2>5, RoomStays DEF RoomLeft
<1> QED
  BY <1>4, <1>5, <1>6, <1>7, <1>8, <1>9, <1>10, <1>11, <1>12 DEF Step

LEMMA RoomByCall ==
  ASSUME Typed, ObserverInv, WindowInv, NEW t \in Threads, Operation(t)
  PROVE  RoomLeft
<1>1. /\ Calls(t) /\ t \notin Busy /\ window' = window /\ value' = value
      /\ \A u \in Threads \ {t} : Stays(u)
  BY OperationThreads DEF Calls, Others
<1>2. \A s \in Summaries : t \notin Uncounted(s)
  BY <1>1 DEF Uncounted
<1>3. ASSUME thread'[t].call = "observe"
      PROVE  \E s \in Summaries : thread'[t].todo = ObserveProgram(s)
  <2>1. ~Serialize(t)
    BY <1>3, SerializeMoves
  <2>2. ~Reset(t) /\ ~OwnReset(t)
    BY <1>3, ResetMoves
  <2>3. PICK s \in Summaries : Observe(t, s)
    BY <2>1, <2>2 DEF Operation, OwnReset
  <2>4. thread'[t] = [call |-> "observe", todo |-> ObserveProgram(s)]
    BY <2>3, ObserveMoves
  <2> QED
    BY <2>4
<1>4. ASSUME thread'[t].call = "observe"
      PROVE  /\ \E s \in Summaries : thread'[t].todo \in RestsOf(s)
             /\ \A r \in Summaries : ~Late(thread'[t].todo, r)
  <2>1. PICK s \in Summaries : thread'[t].todo = ObserveProgram(s)
    BY <1>3, <1>4
  <2> DEFINE p1 == <<"lock", s>>
             p2 == <<"push", s>>
             p3 == <<"unlock", s>>
             p4 == <<"count", s>>
  <2>2. thread'[t].todo = <<p1, p2, p3, p4>>
    BY <2>1, Spelt
  <2>3. thread'[t].todo \in RestsOf(s)
    BY <2>2 DEF RestsOf
  <2>4. ASSUME NEW r \in Summaries PROVE ~Late(thread'[t].todo, r)
    <3> HIDE DEF p1, p2, p3, p4
    <3> DEFINE q3 == <<"unlock", r>>
               q4 == <<"count", r>>
    <3>1. Late(thread'[t].todo, r) => thread'[t].todo = <<q3, q4>> \/ thread'[t].todo = <<q4>>
      BY LateSpelt
    <3> HIDE DEF q3, q4
    <3> QED
      BY <2>2, <3>1
  <2> QED
    BY <2>3, <2>4
<1>5. \A s \in Summaries : t \notin Uncounted(s)'
  BY <1>4 DEF Uncounted, Late
<1>6. /\ ObserverInv'
      /\ \A s \in Summaries : Pending(s) \in Nat /\ Pending(s)' = Pending(s)
  BY <1>1, <1>2, <1>4, <1>5, PendingKept
<1> QED
  BY <1>1, <1>6, RoomStays

LEMMA RoomBeside ==
  ASSUME Typed, ObserverInv, WindowInv, Beside
  PROVE  RoomLeft
<1>1. /\ window' = window /\ (\A u \in Threads : Stays(u))
      /\ \A s \in Summaries : value'[s] = value[s]
  BY BesideMoves
<1>2. /\ ObserverInv'
      /\ \A s \in Summaries : Pending(s) \in Nat /\ Pending(s)' = Pending(s)
  BY <1>1, PendingSame
<1> QED
  BY <1>1, <1>2, RoomStays

-----------------------------------------------------------------------------
(* The lines of a summary.                                                 *)

(* The window scrape t has copied of a summary is covered: by what the     *)
(* summary counts and the observations on their way, until the count is    *)
(* printed, and from then on by what was printed.                          *)
Agrees(t) ==
  /\ DOMAIN thread[t].late = DOMAIN thread[t].lines
  /\ DOMAIN thread[t].copied \subseteq Summaries
  /\ <<"lock", Registry>> \in Range(thread[t].todo) =>
       DOMAIN thread[t].lines = {} /\ DOMAIN thread[t].copied = {}
  /\ \A s \in DOMAIN thread[t].copied \ thread[t].reset :
       /\ Unprinted(t, s) => thread[t].copied[s] <= Room(s)
       /\ ~Unprinted(t, s) /\ s \in DOMAIN thread[t].lines =>
            thread[t].copied[s] <= thread[t].lines[s] + thread[t].late[s]

AgreeInv == \A t \in Scrapes : Agrees(t)

(* A scrape that has something to print and has begun has the registry.    *)
LEMMA UnprintedOwns ==
  ASSUME Typed, NEW t \in Scrapes, NEW m, Unprinted(t, m),
         <<"lock", Registry>> \notin Range(thread[t].todo)
  PROVE  Owns(thread[t], Registry)
<1> DEFINE todo == thread[t].todo
           n == Len(todo)
<1>1. TodoOK("serialize", todo) /\ thread[t].call = "serialize"
  BY ScrapeTyped DEF ThreadOK, Scrapes
<1>2. <<"print", m>> \in Range(todo) /\ <<"lock", Registry>> \notin Range(todo)
  BY DEF Unprinted
<1> HIDE DEF todo
<1>3. todo \in Seq(Kinds(NamesOf["serialize"], Mutexes)) /\ InRegistry(todo)
  BY <1>1 DEF TodoOK
<1>4. n \in Nat /\ DOMAIN todo = 1 .. n
  BY <1>3
<1>5. PICK i \in 1 .. n : todo[i] = <<"print", m>>
  BY <1>2, <1>4 DEF Range
<1>6. Held(todo, i, Registry)
  BY <1>3, <1>5 DEF InRegistry
<1>7. PICK j \in i .. n : todo[j] = <<"unlock", Registry>>
  BY <1>6 DEF Held
<1>8. j \in 1 .. n /\ \A k \in 1 .. j - 1 : k \in 1 .. n
  BY <1>4, <1>5, <1>7
<1>9. \A k \in 1 .. j - 1 : todo[k] # <<"lock", Registry>>
  BY <1>2, <1>4, <1>8 DEF Range
<1>10. Held(todo, 1, Registry)
  BY <1>7, <1>8, <1>9 DEF Held, n
<1> QED
  BY <1>1, <1>10 DEF Owns, todo

LEMMA CopiedTyped ==
  ASSUME Typed, NEW t \in Scrapes, NEW s \in DOMAIN thread[t].copied
  PROVE  thread[t].copied[s] \in Nat
BY ScrapeTyped DEF Partial

(* A scrape that stays where it is.                                        *)
LEMMA AgreesKept ==
  ASSUME Typed, NEW t \in Scrapes, Agrees(t), Stays(t), SameHistory(t),
         \A s \in Summaries : Room(s) \in Nat /\ Room(s)' \in Nat /\ Room(s) <= Room(s)'
  PROVE  Agrees(t)'
<1>1. /\ thread'[t].todo = thread[t].todo
      /\ thread'[t].lines = thread[t].lines /\ thread'[t].copied = thread[t].copied
      /\ thread'[t].late = thread[t].late /\ thread'[t].reset = thread[t].reset
  BY ScrapeTyped DEF Stays, SameHistory, Scrapes
<1>2. \A m : Unprinted(t, m)' <=> Unprinted(t, m)
  BY <1>1 DEF Unprinted
<1>3. ASSUME NEW s \in DOMAIN thread[t].copied, thread[t].copied[s] <= Room(s)
      PROVE  thread[t].copied[s] <= Room(s)'
  <2>1. thread[t].copied[s] \in Nat /\ s \in Summaries
    BY CopiedTyped DEF Agrees
  <2> QED
    BY <1>3, <2>1
<1> QED
  BY <1>1, <1>2, <1>3 DEF Agrees

(* One that goes on, and neither copies a window nor prints a line.        *)
LEMMA AgreesGoes ==
  ASSUME Typed, NEW t \in Scrapes, Agrees(t), NEW step, Goes(t, step), SameHistory(t),
         step # "print",
         \A s \in Summaries : Room(s) \in Nat /\ Room(s)' \in Nat /\ Room(s) <= Room(s)'
  PROVE  Agrees(t)'
<1>1. /\ thread'[t].lines = thread[t].lines /\ thread'[t].copied = thread[t].copied
      /\ thread'[t].late = thread[t].late /\ thread'[t].reset = thread[t].reset
  BY DEF SameHistory, Scrapes
<1>2. /\ Range(thread[t].todo) = {<<step, On(t)>>} \cup Range(thread'[t].todo)
      /\ <<"lock", Registry>> \notin Range(thread'[t].todo)
  BY ScrapeGoes
<1>3. \A m : Unprinted(t, m)' <=> Unprinted(t, m)
  BY <1>2 DEF Unprinted
<1>4. ASSUME NEW s \in DOMAIN thread[t].copied, thread[t].copied[s] <= Room(s)
      PROVE  thread[t].copied[s] <= Room(s)'
  <2>1. thread[t].copied[s] \in Nat /\ s \in Summaries
    BY CopiedTyped DEF Agrees
  <2> QED
    BY <1>4, <2>1
<1> QED
  BY <1>1, <1>2, <1>3, <1>4 DEF Agrees

LEMMA AgreesLock ==
  ASSUME Typed, NEW t \in Scrapes, Agrees(t), Lock(t), On(t) = Registry
  PROVE  Agrees(t)'
<1>1. t \in Threads
  BY DEF Scrapes
<1>2. /\ Goes(t, "lock") /\ thread'[t].lines = thread[t].lines
      /\ thread'[t].copied = thread[t].copied /\ thread'[t].late = thread[t].late
  BY <1>1, LockMoves
<1>3. <<"lock", Registry>> \in Range(thread[t].todo)
  BY <1>2, ScrapeGoes
<1>4. DOMAIN thread'[t].lines = {} /\ DOMAIN thread'[t].copied = {}
  BY <1>2, <1>3 DEF Agrees
<1>5. DOMAIN thread'[t].late = {}
  BY <1>2, <1>3 DEF Agrees
<1> QED
  BY <1>4, <1>5 DEF Agrees

(* A window copied has its count printed after it.                         *)
LEMMA CopyUnprinted ==
  ASSUME Typed, NEW t \in Scrapes, Goes(t, "copy"), NEW x \in Summaries, On(t) = x
  PROVE  Unprinted(t, x)'
<1> DEFINE todo == thread[t].todo
           n == Len(todo)
<1>1. /\ TodoOK(thread[t].call, todo) /\ todo # << >> /\ Head(todo) = <<"copy", x>>
      /\ thread'[t].todo = Tail(todo)
  BY DEF Goes, ThreadOK
<1>2. todo \in Seq(Kinds(NamesOf[thread[t].call], Mutexes))
  BY <1>1 DEF TodoOK
<1> HIDE DEF todo
<1>3. Head(todo) = todo[1] /\ InPlace(todo, 1)
  BY <1>1, FirstOfTodo
<1>4. PICK j \in 1 + 1 .. n : todo[j] = <<"print", x>>
  BY <1>1, <1>3 DEF InPlace
<1>5. DOMAIN todo = 1 .. n /\ n \in Nat
  BY <1>2
<1>6. <<"print", x>> \in Range(todo)
  BY <1>4, <1>5 DEF Range
<1>7. Range(todo) = {<<"copy", x>>} \cup Range(Tail(todo))
  BY <1>1, FirstOfTodo
<1> QED
  BY <1>1, <1>6, <1>7 DEF Unprinted

LEMMA AgreesCopy ==
  ASSUME Typed, WindowInv, NEW t \in Scrapes, Agrees(t), Copy(t), NEW x, x = On(t),
         \A s \in Summaries : Room(s)' = Room(s)
  PROVE  Agrees(t)'
<1> DEFINE f == thread[t].copied
           v == window[x]
           w == With(f, x, v)
<1>1. /\ Goes(t, "copy") /\ x \in Summaries
      /\ thread'[t].lines = thread[t].lines /\ thread'[t].copied = w
      /\ thread'[t].late = thread[t].late /\ thread'[t].reset = thread[t].reset
  <2>1. t \in Threads
    BY DEF Scrapes
  <2> QED
    BY <2>1, CopyMoves
<1>2. /\ Range(thread[t].todo) = {<<"copy", x>>} \cup Range(thread'[t].todo)
      /\ <<"lock", Registry>> \notin Range(thread'[t].todo)
  BY <1>1, ScrapeGoes
<1>3. /\ \A m : Unprinted(t, m)' <=> Unprinted(t, m)
      /\ Unprinted(t, x)'
  BY <1>1, <1>2, CopyUnprinted DEF Unprinted
<1>4. /\ f \in Partial(Totals, Nat) /\ x \in Totals /\ v \in Nat /\ v <= Room(x)
      /\ DOMAIN f \subseteq Summaries /\ DOMAIN thread[t].late = DOMAIN thread[t].lines
  BY <1>1, ScrapeTyped DEF Typed, WindowInv, Totals, Agrees
<1>5. \A s \in DOMAIN f \ thread[t].reset :
        /\ Unprinted(t, s) => f[s] <= Room(s)
        /\ ~Unprinted(t, s) /\ s \in DOMAIN thread[t].lines =>
             f[s] <= thread[t].lines[s] + thread[t].late[s]
  BY DEF Agrees
<1> HIDE DEF f, v
<1>6. /\ DOMAIN w = DOMAIN f \cup {x} /\ w[x] = v
      /\ \A y \in DOMAIN f \ {x} : w[y] = f[y]
  BY <1>4, WithFacts
<1> HIDE DEF w
<1>7. ASSUME NEW s \in DOMAIN w \ thread[t].reset
      PROVE  /\ Unprinted(t, s)' => w[s] <= Room(s)'
             /\ ~Unprinted(t, s)' /\ s \in DOMAIN thread[t].lines =>
                  w[s] <= thread[t].lines[s] + thread[t].late[s]
  <2>1. CASE s = x
    BY <1>1, <1>3, <1>4, <1>6, <2>1
  <2>2. CASE s # x
    <3>1. s \in Summaries /\ s \in DOMAIN f /\ w[s] = f[s]
      BY <1>4, <1>6, <1>7, <2>2
    <3> QED
      BY <1>3, <1>5, <1>7, <3>1
  <2> QED
    BY <2>1, <2>2
<1>8. DOMAIN w \subseteq Summaries
  BY <1>1, <1>4, <1>6
<1> QED
  BY <1>1, <1>2, <1>4, <1>7, <1>8 DEF Agrees

LEMMA AgreesPrint ==
  ASSUME Typed, NEW t \in Scrapes, Agrees(t), PrintLine(t), NEW x, x = On(t),
         \A s \in Summaries : Room(s)' = Room(s)
  PROVE  Agrees(t)'
<1> DEFINE f == thread[t].lines
           g == thread[t].late
           v == value[x]
           p == Cardinality(Uncounted(x))
           wf == With(f, x, v)
           wg == With(g, x, p)
<1>1. /\ Goes(t, "print") /\ x \in All
      /\ thread'[t].copied = thread[t].copied /\ thread'[t].reset = thread[t].reset
      /\ IF x \in Gauges THEN thread'[t].lines = f /\ thread'[t].late = g
           ELSE thread'[t].lines = wf /\ thread'[t].late = wg
  <2>1. t \in Threads
    BY DEF Scrapes
  <2> QED
    BY <2>1, PrintMoves
<1>2. /\ Range(thread[t].todo) = {<<"print", x>>} \cup Range(thread'[t].todo)
      /\ <<"lock", Registry>> \notin Range(thread'[t].todo)
  BY <1>1, ScrapeGoes
<1>3. /\ \A m : m # x => (Unprinted(t, m)' <=> Unprinted(t, m))
      /\ Unprinted(t, x)
  BY <1>2 DEF Unprinted
<1>4. DOMAIN g = DOMAIN f /\ DOMAIN thread[t].copied \subseteq Summaries
  BY DEF Agrees
<1>5. \A s \in DOMAIN thread[t].copied \ thread[t].reset :
        /\ Unprinted(t, s) => thread[t].copied[s] <= Room(s)
        /\ ~Unprinted(t, s) /\ s \in DOMAIN f => thread[t].copied[s] <= f[s] + g[s]
  BY DEF Agrees
<1>6. CASE x \in Gauges
  <2>1. x \notin Summaries
    BY <1>6, PrometheusAssumption DEF Totals
  <2>2. \A s \in Summaries : Unprinted(t, s)' <=> Unprinted(t, s)
    BY <1>3, <2>1
  <2> QED
    BY <1>1, <1>2, <1>4, <1>5, <1>6, <2>2 DEF Agrees
<1>7. CASE x \notin Gauges
  <2>1. /\ f \in Partial(Totals, Number) /\ g \in Partial(Totals, Nat)
        /\ x \in Totals /\ v \in Number /\ p \in Nat
    BY <1>1, <1>7, ScrapeTyped, UncountedFinite DEF Typed, All
  <2>2. x \in Summaries => Room(x) = v + p
    BY DEF Room, Pending
  <2>3. thread'[t].lines = wf /\ thread'[t].late = wg
    BY <1>1, <1>7
  <2> HIDE DEF f, g, v, p
  <2>4. /\ DOMAIN wf = DOMAIN f \cup {x} /\ wf[x] = v
        /\ \A y \in DOMAIN f \ {x} : wf[y] = f[y]
    BY DEF With
  <2>5. /\ DOMAIN wg = DOMAIN g \cup {x} /\ wg[x] = p
        /\ \A y \in DOMAIN g \ {x} : wg[y] = g[y]
    BY DEF With
  <2> HIDE DEF wf, wg
  <2>6. ASSUME NEW s \in DOMAIN thread[t].copied \ thread[t].reset
        PROVE  /\ Unprinted(t, s)' => thread[t].copied[s] <= Room(s)'
               /\ ~Unprinted(t, s)' /\ s \in DOMAIN wf => thread[t].copied[s] <= wf[s] + wg[s]
    <3>1. s \in Summaries
      BY <1>4
    <3>2. CASE s = x
      BY <1>3, <1>5, <2>2, <2>4, <2>5, <3>1, <3>2
    <3>3. CASE s # x
      BY <1>3, <1>4, <1>5, <2>4, <2>5, <3>1, <3>3
    <3> QED
      BY <3>2, <3>3
  <2> QED
    BY <1>1, <1>2, <1>4, <2>3, <2>4, <2>5, <2>6 DEF Agrees
<1> QED
  BY <1>6, <1>7

LEMMA AgreesOthers ==
  ASSUME Typed, AgreeInv, NEW u \in Threads,
         \A s \in Summaries : RoomUp(s),
         \A t \in Threads \ {u} : Stays(t) /\ (t \in Scrapes => SameHistory(t)),
         u \in Scrapes' => Agrees(u)'
  PROVE  AgreeInv'
<1> SUFFICES ASSUME NEW t \in Threads, t \in Scrapes'
             PROVE  Agrees(t)'
  BY DEF AgreeInv, Scrapes
<1>1. CASE t = u
  BY <1>1
<1>2. CASE t # u
  <2>1. t \in Scrapes /\ Stays(t) /\ SameHistory(t)
    BY <1>2 DEF Stays, Scrapes
  <2> QED
    BY <2>1, AgreesKept DEF AgreeInv, RoomUp
<1> QED
  BY <1>1, <1>2

(* A zeroing is noted by the scrape it matters to or the registry is       *)
(* locked against that scrape.                                             *)
LEMMA AgreesZero ==
  ASSUME Typed, Owned, AgreeInv, NEW u \in Threads, Zero(u),
         \A s \in Summaries : RoomUp(s) \/ On(u) = s
  PROVE  AgreeInv'
<1> DEFINE n == On(u)
<1>1. /\ Goes(u, "zero") /\ u \in Resets
      /\ \A t \in Threads \ {u} :
           /\ Stays(t)
           /\ t \in Scrapes =>
                /\ thread'[t].lines = thread[t].lines /\ thread'[t].copied = thread[t].copied
                /\ thread'[t].late = thread[t].late
                /\ thread'[t].reset =
                     IF u \in OwnResets /\ n \in Totals /\ Unprinted(t, n)
                       THEN thread[t].reset \cup {n} ELSE thread[t].reset
  BY ZeroMoves
<1>2. ASSUME NEW t \in Threads, t \in Scrapes'
      PROVE  Agrees(t)'
  <2>1. t # u
    BY <1>1, <1>2 DEF Scrapes, Resets, Goes
  <2>2. t \in Scrapes /\ Stays(t) /\ Agrees(t)
    BY <1>1, <1>2, <2>1 DEF Scrapes, Stays, AgreeInv
  <2>3. thread'[t].todo = thread[t].todo
    BY <2>2, ScrapeTyped DEF Stays
  <2>4. /\ thread'[t].lines = thread[t].lines /\ thread'[t].copied = thread[t].copied
        /\ thread'[t].late = thread[t].late /\ thread[t].reset \subseteq thread'[t].reset
    BY <1>1, <2>1, <2>2
  <2>5. \A m : Unprinted(t, m)' <=> Unprinted(t, m)
    BY <2>3 DEF Unprinted
  <2>6. ASSUME n \in DOMAIN thread[t].copied, Unprinted(t, n)
        PROVE  n \in thread'[t].reset
    <3>1. n \in Summaries /\ n \in Totals
      BY <2>2, <2>6 DEF Agrees, Totals
    <3>2. <<"lock", Registry>> \notin Range(thread[t].todo)
      BY <2>2, <2>6 DEF Agrees
    <3>3. Owns(thread[t], Registry)
      BY <2>2, <2>6, <3>2, UnprintedOwns
    <3>4. CASE thread[u].call = "reset"
      <4>1. Owns(thread[u], Registry)
        BY <1>1, <3>4, HeldFirst DEF Goes
      <4>2. Registry \in Mutexes
        BY DEF Mutexes
      <4> QED
        BY <2>1, <3>3, <4>1, <4>2 DEF Owned
    <3>5. CASE u \in OwnResets
      BY <1>1, <2>1, <2>2, <2>6, <3>1, <3>5
    <3> QED
      BY <1>1, <3>4, <3>5 DEF Resets, OwnResets
  <2>7. ASSUME NEW s \in DOMAIN thread[t].copied \ thread'[t].reset
        PROVE  /\ Unprinted(t, s) => thread[t].copied[s] <= Room(s)'
               /\ ~Unprinted(t, s) /\ s \in DOMAIN thread[t].lines =>
                    thread[t].copied[s] <= thread[t].lines[s] + thread[t].late[s]
    <3>1. /\ Unprinted(t, s) => thread[t].copied[s] <= Room(s)
          /\ ~Unprinted(t, s) /\ s \in DOMAIN thread[t].lines =>
               thread[t].copied[s] <= thread[t].lines[s] + thread[t].late[s]
      BY <2>2, <2>4, <2>7 DEF Agrees
    <3>2. thread[t].copied[s] \in Nat /\ s \in Summaries
      BY <2>2, <2>7, CopiedTyped DEF Agrees
    <3>3. ASSUME Unprinted(t, s) PROVE thread[t].copied[s] <= Room(s)'
      <4>1. s # n
        BY <2>6, <2>7, <3>3
      <4>2. Room(s) \in Nat /\ Room(s)' \in Nat /\ Room(s) <= Room(s)'
        BY <3>2, <4>1 DEF RoomUp
      <4> QED
        BY <3>1, <3>2, <3>3, <4>2
    <3> QED
      BY <3>1, <3>3
  <2> QED
    BY <2>2, <2>3, <2>4, <2>5, <2>7 DEF Agrees
<1> QED
  BY <1>2 DEF AgreeInv, Scrapes

LEMMA RoomSame ==
  ASSUME Typed, ObserverInv, NEW t \in Threads, NEW step, Goes(t, step),
         step \notin {"push", "count"}, Others(t), value' = value
  PROVE  \A s \in Summaries : Room(s)' = Room(s)
<1>1. \A s \in Summaries : Pending(s)' = Pending(s)
  BY PendingGoes DEF Others
<1>2. ASSUME NEW s \in Summaries PROVE Room(s)' = Room(s)
  BY <1>1 DEF Room
<1> QED
  BY <1>2

(* What the proof of SummaryLinesAgree rests on beside Typed and Owned.    *)
LinesInv == ObserverInv /\ ClearedInv /\ WindowInv /\ AgreeInv

LEMMA AgreesByStep ==
  ASSUME Typed, Owned, LinesInv, NEW t \in Threads, Step(t)
  PROVE  AgreeInv'
<1>1. \A s \in Summaries : RoomUp(s) \/ (Zero(t) /\ On(t) = s)
  BY RoomByStep DEF LinesInv
<1>2. AgreeInv /\ ObserverInv /\ WindowInv
  BY DEF LinesInv
<1>3. ASSUME NEW step, First(t, step), step # "zero"
      PROVE  \A s \in Summaries : RoomUp(s)
  BY <1>1, <1>3 DEF Zero, First
<1>4. ASSUME NEW step, First(t, step), Goes(t, step), step \notin {"zero", "print"},
             Others(t), t \in Scrapes => SameHistory(t)
      PROVE  AgreeInv'
  <2>1. \A s \in Summaries : RoomUp(s)
    BY <1>3, <1>4
  <2>2. ASSUME t \in Scrapes' PROVE Agrees(t)'
    <3>1. t \in Scrapes /\ SameHistory(t) /\ Agrees(t)
      BY <1>2, <1>4, <2>2 DEF Goes, Scrapes, AgreeInv
    <3> QED
      BY <1>4, <2>1, <3>1, AgreesGoes DEF RoomUp
  <2> QED
    BY <1>2, <1>4, <2>1, <2>2, AgreesOthers DEF Others
<1>5. CASE Lock(t)
  <2>1. First(t, "lock") /\ Goes(t, "lock") /\ Others(t)
    BY <1>5, LockMoves DEF Lock
  <2>2. CASE t \in Scrapes /\ On(t) = Registry
    <3>1. Agrees(t)'
      BY <1>2, <1>5, <2>2, AgreesLock DEF AgreeInv
    <3> QED
      BY <1>2, <1>3, <2>1, <3>1, AgreesOthers DEF Others
  <2>3. CASE ~(t \in Scrapes /\ On(t) = Registry)
    <3>1. t \in Scrapes => SameHistory(t)
      BY <1>5, <2>3, LockMoves DEF SameHistory, Scrapes, Resets
    <3> QED
      BY <1>4, <2>1, <3>1
  <2> QED
    BY <2>2, <2>3
<1>6. CASE Unlock(t) \/ Clear(t) \/ Push(t)
  <2>1. PICK step : First(t, step) /\ Goto(t, thread[t]) /\ step \notin {"zero", "print"}
    BY <1>6 DEF Unlock, Clear, Push
  <2>2. Goes(t, step) /\ Others(t) /\ SameHistory(t)
    BY <2>1, PlainMoves
  <2> QED
    BY <1>4, <2>1, <2>2
<1>7. CASE Copy(t)
  <2>1. /\ First(t, "copy") /\ Goes(t, "copy") /\ Others(t) /\ t \in Scrapes
        /\ value' = value
    BY <1>7, CopyMoves DEF Copy
  <2>2. \A s \in Summaries : Room(s)' = Room(s)
    BY <1>2, <2>1, RoomSame
  <2>3. Agrees(t)'
    BY <1>2, <1>7, <2>1, <2>2, AgreesCopy DEF AgreeInv
  <2> QED
    BY <1>2, <1>3, <2>1, <2>3, AgreesOthers DEF Others
<1>8. CASE PrintLine(t)
  <2>1. /\ First(t, "print") /\ Goes(t, "print") /\ Others(t) /\ t \in Scrapes
        /\ value' = value
    BY <1>8, PrintMoves DEF PrintLine
  <2>2. \A s \in Summaries : Room(s)' = Room(s)
    BY <1>2, <2>1, RoomSame
  <2>3. Agrees(t)'
    BY <1>2, <1>8, <2>1, <2>2, AgreesPrint DEF AgreeInv
  <2> QED
    BY <1>2, <1>3, <2>1, <2>3, AgreesOthers DEF Others
<1>9. CASE Zero(t)
  BY <1>1, <1>2, <1>9, AgreesZero
<1>10. CASE Count(t)
  <2>1. /\ First(t, "count") /\ Goes(t, "count") /\ thread[t].call = "observe"
        /\ \A u \in Threads \ {t} : Notes(u, On(t), 1)
    BY <1>10, CountMoves DEF Count
  <2>2. t \notin Scrapes'
    BY <2>1 DEF Goes, Scrapes
  <2>3. \A u \in Threads \ {t} : Stays(u) /\ (u \in Scrapes => SameHistory(u))
    BY <2>1 DEF Notes, Scrapes, Resets
  <2> QED
    BY <1>2, <1>3, <2>1, <2>2, <2>3, AgreesOthers
<1>11. CASE Return(t)
  <2>1. Others(t) /\ thread'[t] = Idle /\ thread[t].todo = << >>
    BY <1>11, ReturnMoves
  <2>2. t \notin Scrapes'
    BY <2>1 DEF Scrapes, Idle
  <2>3. \A s \in Summaries : RoomUp(s)
    BY <1>1, <2>1 DEF Zero, First
  <2> QED
    BY <1>2, <2>1, <2>2, <2>3, AgreesOthers DEF Others
<1> QED
  BY <1>5, <1>6, <1>7, <1>8, <1>9, <1>10, <1>11 DEF Step

LEMMA AgreesByCall ==
  ASSUME Typed, LinesInv, NEW t \in Threads, Operation(t)
  PROVE  AgreeInv'
<1>1. Calls(t) /\ AgreeInv /\ \A s \in Summaries : RoomUp(s)
  BY OperationThreads, RoomByCall DEF LinesInv, RoomLeft
<1>2. ASSUME t \in Scrapes' PROVE Agrees(t)'
  <2>1. Serialize(t)
    BY <1>2, NotScrape DEF Operation, Scrapes
  <2>2. /\ DOMAIN thread'[t].lines = {} /\ DOMAIN thread'[t].copied = {}
        /\ DOMAIN thread'[t].late = {}
    BY <2>1, SerializeMoves
  <2> QED
    BY <2>2 DEF Agrees
<1> QED
  BY <1>1, <1>2, AgreesOthers DEF Calls, Others

LEMMA AgreesBeside ==
  ASSUME Typed, LinesInv, Beside
  PROVE  AgreeInv'
<1>1. /\ AgreeInv /\ \A s \in Summaries : RoomUp(s)
      /\ \A u \in Threads : Stays(u) /\ (u \in Scrapes => SameHistory(u))
  BY RoomBeside, BesideMoves DEF LinesInv, RoomLeft, Scrapes, Resets
<1>2. ASSUME NEW t \in Threads, t \in Scrapes'
      PROVE  Agrees(t)'
  <2>1. t \in Scrapes
    BY <1>1, <1>2 DEF Stays, Scrapes
  <2> QED
    BY <1>1, <2>1, AgreesKept DEF AgreeInv, RoomUp
<1> QED
  BY <1>2 DEF AgreeInv, Scrapes

LEMMA LinesStep ==
  ASSUME Typed, Owned, LinesInv, [Next]_vars
  PROVE  LinesInv'
<1>1. ClearedInv'
  BY ClearedStep DEF LinesInv
<1>2. ASSUME NEW t \in Threads, Operation(t)
      PROVE  ObserverInv' /\ WindowInv' /\ AgreeInv'
  BY <1>2, RoomByCall, AgreesByCall DEF LinesInv, RoomLeft
<1>3. ASSUME NEW t \in Threads, Step(t)
      PROVE  ObserverInv' /\ WindowInv' /\ AgreeInv'
  BY <1>3, RoomByStep, AgreesByStep DEF LinesInv
<1>4. ASSUME Beside
      PROVE  ObserverInv' /\ WindowInv' /\ AgreeInv'
  BY <1>4, RoomBeside, AgreesBeside DEF LinesInv, RoomLeft
<1> QED
  BY <1>1, <1>2, <1>3, <1>4 DEF LinesInv, Next, Beside, Finished

LEMMA InitLines == Init => LinesInv
<1> SUFFICES ASSUME Init PROVE LinesInv
  OBVIOUS
<1>1. Busy = {} /\ Scrapes = {}
  BY DEF Init, Busy, Scrapes, Idle
<1>2. ASSUME NEW s \in Summaries
      PROVE  value[s] = 0 /\ window[s] = 0 /\ Pending(s) = 0
  <2>1. Uncounted(s) = {}
    BY <1>1 DEF Uncounted
  <2> QED
    BY <2>1, FS_EmptySet DEF Init, All, Totals, Pending
<1>3. WindowInv
  BY <1>2 DEF WindowInv, Room
<1> QED
  BY <1>1, <1>3 DEF LinesInv, ObserverInv, ClearedInv, AgreeInv

(* The count a scrape prints of a summary covers the window it took the    *)
(* quantiles from, but for observations on their way, for any number of    *)
(* threads that observe, reset and scrape (metric_serializer.cpp:84,       *)
(* summary.cpp:48, 55, 64, 90).                                            *)
THEOREM SummariesAgree == Spec => []SummaryLinesAgree
<1>1. Init => LinesInv
  BY InitLines
<1>2. Inv /\ LinesInv /\ [Next]_vars => LinesInv'
  BY LinesStep DEF Inv
<1>3. LinesInv => SummaryLinesAgree
  BY DEF LinesInv, AgreeInv, Agrees, SummaryLinesAgree
<1> QED
  BY <1>1, <1>2, <1>3, InvHolds, PTL DEF Spec

=============================================================================
