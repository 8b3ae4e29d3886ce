---------------------------- MODULE BasicLemmas ----------------------------
(***************************************************************************)
(* Facts about numbers, sequences and finite sets that the proofs about    *)
(* the components share, and about the sorting of module Quantile.         *)
(***************************************************************************)
EXTENDS Quantile, FiniteSetTheorems, SequenceTheorems, WellFoundedInduction, TLAPS

(* Every set of naturals that is not empty has a least element.  A proof   *)
(* by induction is one that the least counterexample is none: the          *)
(* provers cannot instantiate a theorem over a predicate.                  *)
LEMMA NatMinimum ==
  ASSUME NEW T \in SUBSET Nat, T # {}
  PROVE  \E m \in T : \A k \in T : m <= k
<1> DEFINE R == {ss \in Nat \X Nat : ss[1] < ss[2]}
<1>1. IsWellFoundedOn(R, Nat)
  BY NatLessThanWellFounded DEF OpToRel
<1>2. \A k, m \in Nat : <<k, m>> \in R <=> k < m
  OBVIOUS
<1> HIDE DEF R
<1>3. PICK m \in T : \A k \in T : ~ (<<k, m>> \in R)
  BY <1>1, WFMin
<1>4. ASSUME NEW k \in T PROVE m <= k
  <2>1. k \in Nat /\ m \in Nat /\ ~ (<<k, m>> \in R)
    BY <1>3
  <2> QED
    BY <1>2, <2>1
<1> QED
  BY <1>4

(* A function on 1 .. n is a sequence, and appending to it extends it.     *)
LEMMA AppendExtends ==
  ASSUME NEW S, NEW n \in Nat, NEW f \in [1 .. n -> S], NEW e \in S
  PROVE  Append(f, e) = [i \in 1 .. n + 1 |-> IF i = n + 1 THEN e ELSE f[i]]
<1>1. f \in Seq(S) /\ Len(f) = n
  OBVIOUS
<1> DEFINE g == Append(f, e)
<1>2. /\ g \in Seq(S) /\ Len(g) = n + 1
      /\ \A i \in 1 .. n : g[i] = f[i]
      /\ g[n + 1] = e
  BY <1>1, AppendProperties
<1>3. g \in [1 .. Len(g) -> S]
  BY <1>2, LenProperties
<1> HIDE DEF g
<1>4. g \in [1 .. n + 1 -> S]
  BY <1>2, <1>3
<1>5. g = [i \in 1 .. n + 1 |-> IF i = n + 1 THEN e ELSE f[i]]
  BY <1>2, <1>4
<1> QED
  BY <1>5 DEF g

(* The numbers from 1 to n are n.                                          *)
LEMMA UpToNumber ==
  ASSUME NEW n \in Nat
  PROVE  IsFiniteSet(1 .. n) /\ Cardinality(1 .. n) = n
<1>1. 1 \in Int /\ n \in Int
  OBVIOUS
<1>2. IsFiniteSet(1 .. n) /\ Cardinality(1 .. n) = IF 1 > n THEN 0 ELSE n - 1 + 1
  BY ONLY <1>1, FS_Interval
<1>3. (IF 1 > n THEN 0 ELSE n - 1 + 1) = n
  OBVIOUS
<1> QED
  BY <1>2, <1>3

(* f[T] is the sum of the weights w of the elements of T, for any subset T *)
(* of S.  A sum over a changing set of threads is stated with some such f: *)
(* adding an element adds its weight, and no induction is needed.          *)
Sums(f, S, w) ==
  /\ f \in [SUBSET S -> Int]
  /\ f[{}] = 0
  /\ \A T \in SUBSET S : \A t \in S \ T : f[T \cup {t}] = f[T] + w[t]

(* When a weight is replaced, the sums without it stay.                    *)
LEMMA WeightReplaced ==
  ASSUME NEW S, NEW w \in [S -> Int], NEW f, Sums(f, S, w),
         NEW t \in S, NEW u \in [S -> Int], \A s \in S \ {t} : u[s] = w[s]
  PROVE  \E g : Sums(g, S, u) /\ \A T \in SUBSET (S \ {t}) : g[T] = f[T]
<1>1. /\ f \in [SUBSET S -> Int] /\ f[{}] = 0
      /\ \A T \in SUBSET S : \A s \in S \ T : f[T \cup {s}] = f[T] + w[s]
  BY DEF Sums
<1> DEFINE g == [T \in SUBSET S |-> IF t \in T THEN f[T] - w[t] + u[t] ELSE f[T]]
<1>2. \A T \in SUBSET S : f[T] \in Int
  BY <1>1
<1>3. /\ g \in [SUBSET S -> Int] /\ g[{}] = 0
      /\ \A T \in SUBSET S : t \in T => g[T] = f[T] - w[t] + u[t]
      /\ \A T \in SUBSET S : t \notin T => g[T] = f[T]
  <2>1. {} \in SUBSET S /\ w[t] \in Int /\ u[t] \in Int
    OBVIOUS
  <2> QED
    BY <1>1, <1>2, <2>1
<1> HIDE DEF g
<1>4. ASSUME NEW T \in SUBSET S, NEW s \in S \ T
      PROVE  g[T \cup {s}] = g[T] + u[s]
  <2>1. /\ T \cup {s} \in SUBSET S /\ f[T] \in Int /\ w[t] \in Int /\ u[t] \in Int
        /\ w[s] \in Int /\ f[T \cup {s}] = f[T] + w[s]
    BY <1>1, <1>2
  <2>2. CASE s = t
    <3>1. g[T \cup {s}] = f[T \cup {s}] - w[t] + u[t] /\ g[T] = f[T]
      BY <1>3, <2>1, <2>2
    <3> QED
      BY <2>1, <2>2, <3>1
  <2>3. CASE s # t /\ t \in T
    <3>1. /\ g[T \cup {s}] = f[T \cup {s}] - w[t] + u[t]
          /\ g[T] = f[T] - w[t] + u[t] /\ u[s] = w[s]
      BY <1>3, <2>1, <2>3
    <3> QED
      BY <2>1, <2>3, <3>1
  <2>4. CASE s # t /\ t \notin T
    <3>1. g[T \cup {s}] = f[T \cup {s}] /\ g[T] = f[T] /\ u[s] = w[s]
      BY <1>3, <2>1, <2>4
    <3> QED
      BY <2>1, <2>4, <3>1
  <2> QED
    BY <2>2, <2>3, <2>4
<1> QED
  BY <1>3, <1>4 DEF Sums

-----------------------------------------------------------------------------
(* Flattening a sequence of sequences.                                     *)

(* The prefixes of ss, flattened.                                          *)
Flattens(g, ss, n) ==
  /\ DOMAIN g = 1 .. n
  /\ \A i \in 1 .. n : g[i] = IF i = 1 THEN ss[i] ELSE g[i - 1] \o ss[i]

LEMMA FlattensExists ==
  ASSUME NEW ss, NEW n \in Nat
  PROVE  \E g : Flattens(g, ss, n)
<1> DEFINE Bad == {m \in Nat : ~ \E g : Flattens(g, ss, m)}
<1>1. SUFFICES ASSUME Bad # {} PROVE FALSE
  OBVIOUS
<1>2. PICK m \in Bad : \A k \in Bad : m <= k
  <2>1. Bad \in SUBSET Nat
    OBVIOUS
  <2> QED
    BY <1>1, <2>1, NatMinimum
<1>3. m \in Nat /\ ~ \E g : Flattens(g, ss, m)
  OBVIOUS
<1>4. m # 0
  <2>1. Flattens([i \in 1 .. 0 |-> 0], ss, 0)
    BY DEF Flattens
  <2> QED
    BY <1>3, <2>1
<1>5. PICK g : Flattens(g, ss, m - 1)
  <2>1. m - 1 \in Nat /\ ~(m <= m - 1)
    BY <1>3, <1>4
  <2> QED
    BY <1>2, <2>1
<1> DEFINE last == IF m = 1 THEN ss[m] ELSE g[m - 1] \o ss[m]
           h == [i \in 1 .. m |-> IF i = m THEN last ELSE g[i]]
<1> HIDE DEF last
<1>6. DOMAIN h = 1 .. m /\ h[m] = last /\ \A i \in 1 .. m - 1 : h[i] = g[i]
  BY <1>3, <1>4
<1> HIDE DEF h
<1>7. ASSUME NEW i \in 1 .. m
      PROVE  h[i] = IF i = 1 THEN ss[i] ELSE h[i - 1] \o ss[i]
  <2>1. i # 1 => i - 1 \in 1 .. m - 1 /\ h[i - 1] = g[i - 1]
    BY <1>3, <1>6
  <2>2. CASE i = m
    BY <1>6, <2>1, <2>2 DEF last
  <2>3. CASE i # m
    <3>1. i \in 1 .. m - 1
      BY <1>3, <2>3
    <3> QED
      BY <1>5, <1>6, <2>1, <3>1 DEF Flattens
  <2> QED
    BY <2>2, <2>3
<1>8. Flattens(h, ss, m)
  BY <1>6, <1>7 DEF Flattens
<1> QED
  BY <1>3, <1>8

(* As FlattenSeq of the community modules goes about it.                   *)
Flattening(ss) ==
  LET flatten[i \in 1 .. Len(ss)] ==
        IF i = 1 THEN ss[i] ELSE flatten[i - 1] \o ss[i]
  IN  flatten

(* What FlattenSeq of the community modules comes to.                      *)
Flattened(ss) == IF Len(ss) = 0 THEN ss ELSE Flattening(ss)[Len(ss)]

(* It flattens, step by step.                                              *)
LEMMA FlatteningFlattens ==
  ASSUME NEW ss, Len(ss) \in Nat
  PROVE  Flattens(Flattening(ss), ss, Len(ss))
<1> DEFINE n == Len(ss)
           Is(f) == f = [i \in 1 .. n |-> IF i = 1 THEN ss[i] ELSE f[i - 1] \o ss[i]]
           F == CHOOSE f : Is(f)
<1>1. PICK g : Flattens(g, ss, n)
  BY FlattensExists
<1> DEFINE r == [i \in 1 .. n |-> g[i]]
<1>2. \A i \in 1 .. n : g[i] = IF i = 1 THEN ss[i] ELSE r[i - 1] \o ss[i]
  <2> SUFFICES ASSUME NEW i \in 1 .. n
               PROVE  g[i] = IF i = 1 THEN ss[i] ELSE r[i - 1] \o ss[i]
    OBVIOUS
  <2>1. g[i] = IF i = 1 THEN ss[i] ELSE g[i - 1] \o ss[i]
    BY <1>1 DEF Flattens
  <2>2. i # 1 => r[i - 1] = g[i - 1]
    OBVIOUS
  <2> QED
    BY <2>1, <2>2
<1>3. Is(r)
  <2> HIDE DEF n
  <2> QED
    BY <1>2
<1>4. Is(F)
  BY <1>3
<1>5. Flattening(ss) = F
  BY DEF Flattening
<1> HIDE DEF F, n
<1>6. Flattens(F, ss, n)
  BY <1>4 DEF Flattens
<1> QED
  BY <1>5, <1>6 DEF n

-----------------------------------------------------------------------------
(* Sorting, and the bounds and positions of module Quantile.                *)

(* How many entries there are below or up to a value.                      *)
LEMMA Counts ==
  ASSUME NEW s \in Seq(Int), NEW v \in Int
  PROVE  /\ IsFiniteSet(Below(s, v)) /\ IsFiniteSet(UpTo(s, v))
         /\ Cardinality(Below(s, v)) \in Nat /\ Cardinality(UpTo(s, v)) \in Nat
         /\ Cardinality(UpTo(s, v)) <= Len(s)
<1>1. Len(s) \in Nat
  OBVIOUS
<1>2. IsFiniteSet(1 .. Len(s)) /\ Cardinality(1 .. Len(s)) = Len(s)
  BY <1>1, UpToNumber
<1>3. Below(s, v) \subseteq 1 .. Len(s) /\ UpTo(s, v) \subseteq 1 .. Len(s)
  BY DEF Below, UpTo
<1>4. IsFiniteSet(Below(s, v)) /\ IsFiniteSet(UpTo(s, v))
  BY <1>2, <1>3, FS_Subset
<1>5. Cardinality(UpTo(s, v)) <= Cardinality(1 .. Len(s))
  BY <1>2, <1>3, FS_Subset
<1> QED
  BY <1>2, <1>4, <1>5, FS_CardinalityType

(* An entry that is appended counts if it is up to the value.              *)
LEMMA AppendCounts ==
  ASSUME NEW s \in Seq(Int), NEW e \in Int, NEW v \in Int
  PROVE  Cardinality(UpTo(Append(s, e), v)) =
           Cardinality(UpTo(s, v)) + IF e <= v THEN 1 ELSE 0
<1> DEFINE t == Append(s, e)
<1>1. /\ Len(s) \in Nat /\ Len(t) = Len(s) + 1
      /\ \A i \in 1 .. Len(s) : t[i] = s[i]
      /\ t[Len(s) + 1] = e
  BY AppendProperties
<1>2. IsFiniteSet(UpTo(s, v)) /\ Cardinality(UpTo(s, v)) \in Nat
  BY Counts
<1> HIDE DEF t
<1>3. Len(s) + 1 \notin UpTo(s, v)
  BY <1>1 DEF UpTo
<1>4. CASE e <= v
  <2>1. UpTo(t, v) = UpTo(s, v) \cup {Len(s) + 1}
    BY <1>1, <1>4 DEF UpTo
  <2> QED
    BY <1>2, <1>3, <1>4, <2>1, FS_AddElement DEF t
<1>5. CASE ~(e <= v)
  <2>1. UpTo(t, v) = UpTo(s, v)
    BY <1>1, <1>5 DEF UpTo
  <2> QED
    BY <1>2, <1>5, <2>1 DEF t
<1> QED
  BY <1>4, <1>5

(* More entries are up to a greater value, if it is an entry.              *)
LEMMA UpToGrows ==
  ASSUME NEW s \in Seq(Int), NEW i \in 1 .. Len(s), NEW j \in 1 .. Len(s), s[i] < s[j]
  PROVE  Cardinality(UpTo(s, s[i])) < Cardinality(UpTo(s, s[j]))
<1>1. s[i] \in Int /\ s[j] \in Int /\ \A k \in 1 .. Len(s) : s[k] \in Int
  OBVIOUS
<1>2. UpTo(s, s[i]) \subseteq UpTo(s, s[j])
  BY <1>1 DEF UpTo
<1>3. j \in UpTo(s, s[j]) /\ j \notin UpTo(s, s[i])
  BY <1>1 DEF UpTo
<1>4. UpTo(s, s[i]) # UpTo(s, s[j])
  BY <1>3
<1>5. IsFiniteSet(UpTo(s, s[j]))
  BY <1>1, Counts
<1>6. Cardinality(UpTo(s, s[i])) \in Nat /\ Cardinality(UpTo(s, s[j])) \in Nat
  BY <1>1, Counts
<1>7. /\ Cardinality(UpTo(s, s[i])) <= Cardinality(UpTo(s, s[j]))
      /\ Cardinality(UpTo(s, s[i])) # Cardinality(UpTo(s, s[j]))
  BY <1>2, <1>4, <1>5, FS_Subset
<1> QED
  BY <1>6, <1>7

(* Among some entries of a sequence one is the greatest.                   *)
LEMMA Greatest ==
  ASSUME NEW s \in Seq(Int), NEW I \in SUBSET (1 .. Len(s)), I # {}
  PROVE  \E i \in I : \A j \in I : s[j] <= s[i]
<1>1. \A i \in 1 .. Len(s) :
        /\ s[i] \in Int
        /\ Cardinality(UpTo(s, s[i])) \in Nat
        /\ Cardinality(UpTo(s, s[i])) <= Len(s)
  <2>1. SUFFICES ASSUME NEW i \in 1 .. Len(s)
                 PROVE  /\ s[i] \in Int
                        /\ Cardinality(UpTo(s, s[i])) \in Nat
                        /\ Cardinality(UpTo(s, s[i])) <= Len(s)
    OBVIOUS
  <2>2. s[i] \in Int
    OBVIOUS
  <2> QED
    BY <2>2, Counts
<1> DEFINE gap(i) == Len(s) - Cardinality(UpTo(s, s[i]))
           Gaps == {gap(i) : i \in I}
<1>2. Gaps \in SUBSET Nat /\ Gaps # {}
  <2>1. ASSUME NEW i \in I PROVE gap(i) \in Nat
    <3> DEFINE n == Len(s)
               c == Cardinality(UpTo(s, s[i]))
    <3>1. n \in Nat /\ c \in Nat /\ c <= n
      BY <1>1
    <3> HIDE DEF n, c
    <3>2. n - c \in Nat
      BY <3>1
    <3> QED
      BY <3>2 DEF n, c
  <2> HIDE DEF gap
  <2> QED
    BY <2>1
<1>3. PICK m \in Gaps : \A n \in Gaps : m <= n
  BY <1>2, NatMinimum
<1>4. PICK i \in I : m = gap(i)
  BY <1>3
<1>5. ASSUME NEW j \in I PROVE s[j] <= s[i]
  <2>1. SUFFICES ASSUME s[i] < s[j] PROVE FALSE
    BY <1>1
  <2>2. Cardinality(UpTo(s, s[i])) < Cardinality(UpTo(s, s[j]))
    BY <2>1, UpToGrows
  <2>3. gap(i) <= gap(j)
    BY <1>3, <1>4
  <2> QED
    BY <1>1, <2>2, <2>3
<1> QED
  BY <1>5

(* Every position of the sorted sequence has its entry.                    *)
LEMMA EntryOfPosition ==
  ASSUME NEW s \in Seq(Int), NEW k \in 1 .. Len(s)
  PROVE  \E v \in {s[i] : i \in 1 .. Len(s)} :
           Cardinality(Below(s, v)) < k /\ k <= Cardinality(UpTo(s, v))
<1>1. \A i \in 1 .. Len(s) :
        /\ s[i] \in Int
        /\ Cardinality(UpTo(s, s[i])) \in Nat
        /\ Cardinality(Below(s, s[i])) \in Nat
        /\ IsFiniteSet(UpTo(s, s[i]))
  <2>1. SUFFICES ASSUME NEW i \in 1 .. Len(s)
                 PROVE  /\ s[i] \in Int
                        /\ Cardinality(UpTo(s, s[i])) \in Nat
                        /\ Cardinality(Below(s, s[i])) \in Nat
                        /\ IsFiniteSet(UpTo(s, s[i]))
    OBVIOUS
  <2>2. s[i] \in Int
    OBVIOUS
  <2> QED
    BY <2>2, Counts
<1>2. Len(s) \in Nat /\ k \in Nat /\ k <= Len(s) /\ k >= 1
  OBVIOUS
<1> DEFINE Enough == {i \in 1 .. Len(s) : k <= Cardinality(UpTo(s, s[i]))}
           Numbers == {Cardinality(UpTo(s, s[i])) : i \in Enough}
<1>3. Enough # {}
  <2>1. PICK i \in 1 .. Len(s) : \A j \in 1 .. Len(s) : s[j] <= s[i]
    BY <1>2, Greatest
  <2>2. UpTo(s, s[i]) = 1 .. Len(s)
    BY <2>1 DEF UpTo
  <2>3. Cardinality(UpTo(s, s[i])) = Len(s)
    BY <1>2, <2>2, UpToNumber
  <2> QED
    BY <1>2, <2>3
<1>4. PICK i \in Enough : \A j \in Enough :
        Cardinality(UpTo(s, s[i])) <= Cardinality(UpTo(s, s[j]))
  <2>1. Numbers \in SUBSET Nat /\ Numbers # {}
    BY <1>1, <1>3
  <2>2. PICK m \in Numbers : \A n \in Numbers : m <= n
    BY <2>1, NatMinimum
  <2> QED
    BY <2>2
<1>5. Cardinality(Below(s, s[i])) < k
  <2>1. SUFFICES ASSUME k <= Cardinality(Below(s, s[i])) PROVE FALSE
    BY <1>1, <1>2
  <2>2. Below(s, s[i]) \subseteq 1 .. Len(s) /\ Below(s, s[i]) # {}
    <3>1. Below(s, s[i]) = {} => Cardinality(Below(s, s[i])) = 0
      BY FS_EmptySet
    <3> QED
      BY <1>2, <2>1, <3>1 DEF Below
  <2>3. PICK j \in Below(s, s[i]) : \A h \in Below(s, s[i]) : s[h] <= s[j]
    BY <2>2, Greatest
  <2>4. j \in 1 .. Len(s) /\ s[j] < s[i]
    BY <2>3 DEF Below
  <2>5. Below(s, s[i]) \subseteq UpTo(s, s[j])
    BY <2>3 DEF Below, UpTo
  <2>6. Cardinality(Below(s, s[i])) <= Cardinality(UpTo(s, s[j]))
    BY <1>1, <2>4, <2>5, FS_Subset
  <2>7. j \in Enough
    BY <1>1, <1>2, <2>1, <2>4, <2>6
  <2>8. Cardinality(UpTo(s, s[j])) < Cardinality(UpTo(s, s[i]))
    BY <2>4, UpToGrows
  <2> QED
    BY <1>1, <1>4, <2>4, <2>7, <2>8
<1> QED
  BY <1>4, <1>5

(* Sorting keeps the length, takes its entries from the sequence and puts  *)
(* them in order.                                                          *)
LEMMA SortedProperties ==
  ASSUME NEW s \in Seq(Int)
  PROVE  /\ Sorted(s) \in Seq(Int)
         /\ Len(Sorted(s)) = Len(s)
         /\ \A k \in 1 .. Len(s) : \E i \in 1 .. Len(s) : Sorted(s)[k] = s[i]
         /\ \A k, l \in 1 .. Len(s) : k <= l => Sorted(s)[k] <= Sorted(s)[l]
<1> DEFINE Entries == {s[i] : i \in 1 .. Len(s)}
           Fits(k, v) == Cardinality(Below(s, v)) < k /\ k <= Cardinality(UpTo(s, v))
           t == Sorted(s)
<1>1. t = [k \in 1 .. Len(s) |-> CHOOSE v \in Entries : Fits(k, v)]
  BY DEF Sorted
<1>2. \A k \in 1 .. Len(s) : \E v \in Entries : Fits(k, v)
  BY EntryOfPosition
<1>3. Entries \subseteq Int /\ Len(s) \in Nat
  OBVIOUS
<1> HIDE DEF Entries, Fits, t
<1>4. \A k \in 1 .. Len(s) : t[k] \in Entries /\ Fits(k, t[k])
  BY <1>1, <1>2
<1>5. t \in [1 .. Len(s) -> Int]
  BY <1>1, <1>3, <1>4
<1>6. t \in Seq(Int) /\ Len(t) = Len(s)
  BY <1>3, <1>5
<1>7. ASSUME NEW k \in 1 .. Len(s), NEW l \in 1 .. Len(s), k <= l
      PROVE  t[k] <= t[l]
  <2>1. t[k] \in Int /\ t[l] \in Int
    BY <1>5
  <2>2. SUFFICES ASSUME t[l] < t[k] PROVE FALSE
    BY <2>1
  <2>3. UpTo(s, t[l]) \subseteq Below(s, t[k])
    BY <2>1, <2>2 DEF UpTo, Below
  <2>4. /\ IsFiniteSet(Below(s, t[k]))
        /\ Cardinality(Below(s, t[k])) \in Nat
        /\ Cardinality(UpTo(s, t[l])) \in Nat
    BY <2>1, Counts
  <2>5. Cardinality(UpTo(s, t[l])) <= Cardinality(Below(s, t[k]))
    BY <2>3, <2>4, FS_Subset
  <2>6. l <= Cardinality(UpTo(s, t[l])) /\ Cardinality(Below(s, t[k])) < k
    BY <1>4 DEF Fits
  <2> QED
    BY <1>7, <2>4, <2>5, <2>6
<1>8. \A k \in 1 .. Len(s) : \E i \in 1 .. Len(s) : t[k] = s[i]
  BY <1>4 DEF Entries
<1> QED
  BY <1>6, <1>7, <1>8 DEF t

(* The bounds of a histogram ascend and end with +Inf.                     *)
LEMMA ConstructedProperties ==
  ASSUME NEW infinity \in Int,
         NEW given \in Seq({b \in Int : b <= infinity})
  PROVE  LET bounds == Constructed(given, infinity)
         IN  /\ bounds \in Seq(Int) /\ Len(bounds) >= 1
             /\ \A i, j \in 1 .. Len(bounds) : i <= j => bounds[i] <= bounds[j]
             /\ bounds[Len(bounds)] = infinity
<1> DEFINE s == Sorted(given)
<1>1. given \in Seq(Int) /\ \A i \in 1 .. Len(given) : given[i] <= infinity
  <2>1. {b \in Int : b <= infinity} \subseteq Int
    OBVIOUS
  <2>2. given \in Seq(Int)
    BY <2>1, SeqMonotonic
  <2>3. \A i \in 1 .. Len(given) : given[i] \in {b \in Int : b <= infinity}
    OBVIOUS
  <2> QED
    BY <2>2, <2>3
<1>2. /\ s \in Seq(Int) /\ Len(s) = Len(given)
      /\ \A k \in 1 .. Len(s) : \E i \in 1 .. Len(given) : s[k] = given[i]
      /\ \A k, l \in 1 .. Len(s) : k <= l => s[k] <= s[l]
  BY <1>1, SortedProperties
<1>3. Constructed(given, infinity) =
        IF s = << >> \/ s[Len(s)] # infinity THEN Append(s, infinity) ELSE s
  BY DEF Constructed
<1> HIDE DEF s
<1>4. \A k \in 1 .. Len(s) : s[k] <= infinity
  BY <1>1, <1>2
<1>5. CASE s = << >> \/ s[Len(s)] # infinity
  <2> DEFINE bounds == Append(s, infinity)
  <2>1. /\ bounds \in Seq(Int) /\ Len(bounds) = Len(s) + 1 /\ Len(s) \in Nat
        /\ \A i \in 1 .. Len(s) : bounds[i] = s[i]
        /\ bounds[Len(s) + 1] = infinity
    BY <1>2, AppendProperties
  <2> HIDE DEF bounds
  <2>2. ASSUME NEW i \in 1 .. Len(bounds), NEW j \in 1 .. Len(bounds), i <= j
        PROVE  bounds[i] <= bounds[j]
    <3>1. CASE j \in 1 .. Len(s)
      <4>1. i \in 1 .. Len(s)
        BY <2>1, <2>2, <3>1
      <4> QED
        BY <1>2, <2>1, <2>2, <3>1, <4>1
    <3>2. CASE j = Len(s) + 1
      <4>1. bounds[i] <= infinity
        <5>1. CASE i \in 1 .. Len(s)
          BY <1>4, <2>1, <5>1
        <5>2. CASE i = Len(s) + 1
          BY <2>1, <5>2
        <5> QED
          BY <2>1, <5>1, <5>2
      <4> QED
        BY <2>1, <3>2, <4>1
    <3> QED
      BY <2>1, <3>1, <3>2
  <2>3. Constructed(given, infinity) = bounds
    BY <1>3, <1>5 DEF bounds
  <2> QED
    BY <2>1, <2>2, <2>3
<1>6. CASE ~(s = << >> \/ s[Len(s)] # infinity)
  <2>1. Constructed(given, infinity) = s
    BY <1>3, <1>6
  <2>2. Len(s) >= 1
    BY <1>2, <1>6, EmptySeq
  <2> QED
    BY <1>2, <1>6, <2>1, <2>2
<1> QED
  BY <1>5, <1>6

(* A greater quantile selects no lower position, and every position is one *)
(* of the sorted observations.                                             *)
LEMMA IndexesAscend ==
  ASSUME NEW q \in Nat, NEW r \in Nat, q <= r, NEW n \in Nat, n >= 1,
         NEW i \in QuantileIndexes(q, n), NEW j \in QuantileIndexes(r, n)
  PROVE  i \in 0 .. n - 1 /\ j \in 0 .. n - 1 /\ i <= j
<1> DEFINE m == n - 1
<1>1. m \in Nat
  OBVIOUS
<1>2. q * m \in Nat /\ r * m \in Nat /\ q * m <= r * m
  <2>1. \A a, b, c \in Nat : a * c \in Nat /\ (a <= b => a * c <= b * c)
    OBVIOUS
  <2> HIDE DEF m
  <2> QED
    BY <1>1, <2>1
<1> DEFINE a == q * m
           b == r * m
<1>3. i = Smaller(IF a < 0 THEN 0 ELSE a \div 100, m)
  BY <1>2 DEF QuantileIndexes
<1>4. j = Smaller(IF b < 0 THEN 0 ELSE b \div 100, m)
  BY <1>2 DEF QuantileIndexes
<1>5. a \in Nat /\ b \in Nat /\ a <= b
  BY <1>2
<1> HIDE DEF a, b, m
<1>6. /\ a \div 100 \in Nat /\ b \div 100 \in Nat
      /\ a \div 100 <= b \div 100
  BY <1>5
<1>7. i = Smaller(a \div 100, m) /\ j = Smaller(b \div 100, m)
  BY <1>3, <1>4, <1>5
<1>8. i \in Nat /\ j \in Nat /\ i <= m /\ j <= m /\ i <= j
  BY <1>1, <1>6, <1>7 DEF Smaller
<1> QED
  BY <1>8 DEF m

(* Where the elements of w come from: the i-th is the q[i]-th of the       *)
(* p[i]-th of the first n sequences of ss, each once.                      *)
Places(p, q, w, ss, n) ==
  /\ p \in [1 .. Len(w) -> 1 .. n]
  /\ q \in [1 .. Len(w) -> Nat]
  /\ \A i \in 1 .. Len(w) : q[i] \in 1 .. Len(ss[p[i]]) /\ w[i] = ss[p[i]][q[i]]
  /\ \A i, j \in 1 .. Len(w) : p[i] = p[j] /\ q[i] = q[j] => i = j
  /\ \A k \in 1 .. n : \A l \in 1 .. Len(ss[k]) :
       \E i \in 1 .. Len(w) : p[i] = k /\ q[i] = l

LEMMA PlacesMore ==
  ASSUME NEW S, NEW n \in Nat, NEW ss, NEW w \in Seq(S), ss[n + 1] \in Seq(S),
         NEW p, NEW q, Places(p, q, w, ss, n)
  PROVE  \E p1, q1 : Places(p1, q1, w \o ss[n + 1], ss, n + 1)
<1> DEFINE m == n + 1
           v == ss[m]
           a == Len(w)
           b == Len(v)
           x == w \o v
           p1 == [i \in 1 .. a + b |-> IF i <= a THEN p[i] ELSE m]
           q1 == [i \in 1 .. a + b |-> IF i <= a THEN q[i] ELSE i - a]
<1>1. /\ a \in Nat /\ b \in Nat /\ Len(x) = a + b
      /\ \A i \in 1 .. a + b : x[i] = IF i <= a THEN w[i] ELSE v[i - a]
  BY ConcatProperties, LenProperties
<1>2. /\ m \in Nat /\ m \in 1 .. m /\ \A k \in 1 .. n : k \in 1 .. m /\ k # m
      /\ \A k \in 1 .. m : k \in 1 .. n \/ k = m
  OBVIOUS
<1>3. /\ p \in [1 .. a -> 1 .. n] /\ q \in [1 .. a -> Nat]
      /\ \A i \in 1 .. a : q[i] \in 1 .. Len(ss[p[i]]) /\ w[i] = ss[p[i]][q[i]]
      /\ \A i, j \in 1 .. a : p[i] = p[j] /\ q[i] = q[j] => i = j
      /\ \A k \in 1 .. n : \A l \in 1 .. Len(ss[k]) :
           \E i \in 1 .. a : p[i] = k /\ q[i] = l
  BY DEF Places
<1> HIDE DEF m, a, b, x
<1>4. ASSUME NEW i \in 1 .. a + b
      PROVE  \/ /\ i \in 1 .. a /\ p1[i] = p[i] /\ q1[i] = q[i] /\ x[i] = w[i]
                /\ p1[i] \in 1 .. n
             \/ /\ i \notin 1 .. a /\ p1[i] = m /\ q1[i] = i - a /\ x[i] = v[i - a]
                /\ i - a \in 1 .. b
  BY <1>1, <1>3
<1>5. \A i \in 1 .. a : i \in 1 .. a + b
  BY <1>1
<1>6. \A l \in 1 .. b : a + l \in 1 .. a + b /\ a + l \notin 1 .. a /\ (a + l) - a = l
  BY <1>1
<1>7. p1 \in [1 .. a + b -> 1 .. m] /\ q1 \in [1 .. a + b -> Nat]
  <2>1. ASSUME NEW i \in 1 .. a + b
        PROVE  /\ (IF i <= a THEN p[i] ELSE m) \in 1 .. m
               /\ (IF i <= a THEN q[i] ELSE i - a) \in Nat
    <3>1. CASE i \in 1 .. a
      <4>1. p[i] \in 1 .. n /\ q[i] \in Nat
        BY ONLY <1>3, <3>1
      <4>2. i <= a
        BY ONLY <1>1, <3>1
      <4>3. p[i] \in 1 .. m
        BY ONLY <1>2, <4>1
      <4> QED
        BY <4>1, <4>2, <4>3
    <3>2. CASE i \notin 1 .. a
      <4>1. ~(i <= a) /\ i - a \in Nat
        BY <1>1, <3>2
      <4> QED
        BY <1>2, <4>1
    <3> QED
      BY <3>1, <3>2
  <2> QED
    BY <2>1
<1> HIDE DEF p1, q1
<1>8. ASSUME NEW i \in 1 .. a + b
      PROVE  q1[i] \in 1 .. Len(ss[p1[i]]) /\ x[i] = ss[p1[i]][q1[i]]
  BY <1>3, <1>4 DEF b
<1>9. ASSUME NEW i \in 1 .. a + b, NEW j \in 1 .. a + b, p1[i] = p1[j], q1[i] = q1[j]
      PROVE  i = j
  <2>1. CASE i \in 1 .. a
    <3>1. p1[i] \in 1 .. n /\ p1[i] = p[i] /\ q1[i] = q[i]
      BY <1>4, <2>1
    <3>2. j \in 1 .. a /\ p1[j] = p[j] /\ q1[j] = q[j]
      BY <1>2, <1>4, <1>9, <3>1
    <3>3. p[i] = p[j] /\ q[i] = q[j]
      BY ONLY <1>9, <3>1, <3>2
    <3>4. \A k, l \in 1 .. a : p[k] = p[l] /\ q[k] = q[l] => k = l
      BY <1>3
    <3> QED
      BY ONLY <2>1, <3>2, <3>3, <3>4
  <2>2. CASE i \notin 1 .. a
    <3>1. p1[i] = m /\ q1[i] = i - a
      BY <1>4, <2>2
    <3>2. q1[j] = j - a
      BY <1>2, <1>4, <1>9, <3>1
    <3>3. i - a = j - a
      BY <1>9, <3>1, <3>2
    <3>4. i \in Int /\ j \in Int /\ a \in Int
      BY <1>1
    <3> QED
      BY ONLY <3>3, <3>4
  <2> QED
    BY <2>1, <2>2
<1>10. ASSUME NEW k \in 1 .. m, NEW l \in 1 .. Len(ss[k])
       PROVE  \E i \in 1 .. a + b : p1[i] = k /\ q1[i] = l
  <2>1. CASE k \in 1 .. n
    <3>1. PICK i \in 1 .. a : p[i] = k /\ q[i] = l
      BY <1>3, <2>1
    <3> QED
      BY <1>4, <1>5, <3>1
  <2>2. CASE k = m
    <3>1. l \in 1 .. b
      BY <2>2 DEF b
    <3> QED
      BY <1>4, <1>6, <2>2, <3>1
  <2> QED
    BY <1>2, <2>1, <2>2
<1>11. Places(p1, q1, x, ss, m)
  BY <1>1, <1>7, <1>8, <1>9, <1>10 DEF Places
<1> QED
  BY <1>11 DEF m, x

(* Every element of every sequence has its place in what is flattened.     *)
LEMMA FlattenedPlaces ==
  ASSUME NEW S, NEW ss \in Seq(Seq(S))
  PROVE  /\ Flattened(ss) \in Seq(S)
         /\ \E p, q : Places(p, q, Flattened(ss), ss, Len(ss))
<1> DEFINE n == Len(ss)
           Placed(w, k) == w \in Seq(S) /\ \E p, q : Places(p, q, w, ss, k)
<1>1. n \in Nat /\ \A k \in 1 .. n : ss[k] \in Seq(S)
  OBVIOUS
<1>2. Placed(<< >>, 0)
  <2> DEFINE f == [i \in 1 .. 0 |-> i]
  <2>1. << >> \in Seq(S) /\ Len(<< >>) = 0
    OBVIOUS
  <2>2. f \in [1 .. 0 -> 1 .. 0] /\ f \in [1 .. 0 -> Nat]
    OBVIOUS
  <2> HIDE DEF f
  <2>3. Places(f, f, << >>, ss, 0)
    BY <2>1, <2>2 DEF Places
  <2> QED
    BY <2>1, <2>3
<1>3. CASE n = 0
  <2>1. Flattened(ss) = << >>
    BY <1>3 DEF Flattened
  <2> QED
    BY <1>2, <1>3, <2>1
<1>4. CASE n # 0
  <2>1. PICK g : Flattens(g, ss, n) /\ Flattened(ss) = g[n]
    BY <1>1, <1>4, FlatteningFlattens DEF Flattened
  <2>2. \A i \in 1 .. n : g[i] = IF i = 1 THEN ss[i] ELSE g[i - 1] \o ss[i]
    BY <2>1 DEF Flattens
  <2> HIDE DEF n
  <2> DEFINE w(m) == IF m = 0 THEN << >> ELSE g[m]
             Bad == {m \in 0 .. n : ~Placed(w(m), m)}
  <2>3. SUFFICES ASSUME Bad # {} PROVE FALSE
    <3>1. n \in 0 .. n
      BY <1>1
    <3>2. Placed(g[n], n)
      BY <1>4, <2>3, <3>1
    <3> QED
      BY <2>1, <3>2 DEF n
  <2>4. PICK m \in Bad : \A k \in Bad : m <= k
    <3>1. Bad \in SUBSET Nat
      BY <1>1
    <3> QED
      BY <2>3, <3>1, NatMinimum
  <2>5. m # 0
    BY <1>2
  <2> DEFINE k == m - 1
  <2>6. k \in 0 .. n /\ ~(m <= k) /\ k \in Nat /\ k + 1 = m /\ m \in 1 .. n
    BY <1>1, <2>5
  <2> HIDE DEF k
  <2>7. Placed(w(k), k) /\ ss[m] \in Seq(S)
    BY <1>1, <2>4, <2>6
  <2>8. w(m) = w(k) \o ss[m]
    <3>1. CASE k = 0
      BY <2>2, <2>6, <2>7, <3>1, ConcatEmptySeq
    <3>2. CASE k # 0
      <4>1. m # 1 /\ m # 0 /\ k = m - 1
        BY <2>6, <3>2
      <4>2. g[m] = g[k] \o ss[m]
        BY <2>2, <2>6, <4>1
      <4> QED
        BY <3>2, <4>1, <4>2
    <3> QED
      BY <3>1, <3>2
  <2> HIDE DEF w
  <2>9. w(m) \in Seq(S)
    BY <2>7, <2>8, ConcatProperties
  <2>10. PICK p, q : Places(p, q, w(k), ss, k)
    BY <2>7
  <2>11. \E p1, q1 : Places(p1, q1, w(k) \o ss[k + 1], ss, k + 1)
    BY <2>6, <2>7, <2>10, PlacesMore
  <2> QED
    BY <2>6, <2>8, <2>9, <2>11
<1> QED
  BY <1>3, <1>4

=============================================================================
