---------------------------- MODULE SourcesProofs ----------------------------
(***************************************************************************)
(* Proofs about MODULE Sources: the editor shows the selected tab, every      *)
(* breakpoint has its source, no text is lost on the way between the two, and *)
(* the rows selected are the breakpoints deleted, for any number of sources,  *)
(* lines and edits.                                                          *)
(***************************************************************************)
EXTENDS Sources, SequenceTheorems, FiniteSetTheorems, TLAPS

\* A set that holds 0 and the successor of all it holds has every natural number: else
\* "plus 1" would map its members below one that is missing into themselves, one to one
\* but not onto.
LEMMA NaturalsAreReached ==
  ASSUME NEW Q, 0 \in Q, \A n \in Nat : n \in Q => n + 1 \in Q
  PROVE  Nat \subseteq Q
<1> SUFFICES ASSUME NEW n \in Nat, n \notin Q PROVE FALSE
  OBVIOUS
<1> DEFINE S == {x \in 0..n : x \in Q}
<1> DEFINE f == [x \in S |-> x + 1]
<1>1. IsFiniteSet(S)
  <2>1. IsFiniteSet(0..n)
    BY FS_Interval
  <2>2. S \in SUBSET (0..n)
    OBVIOUS
  <2> HIDE DEF S
  <2> QED  BY <2>1, <2>2, FS_Subset
<1>2. f \in [S -> S] /\ \A a, b \in S : f[a] = f[b] => a = b
  <2>1. \A x \in S : x + 1 \in S
    OBVIOUS
  <2> QED  BY <2>1
<1>3. f \in Injection(S, S)
  BY <1>2 DEF Injection, IsInjective
<1>4. f \in Surjection(S, S)
  <2> HIDE DEF f, S
  <2> QED  BY <1>1, <1>3, FS_Injection
<1>5. PICK x \in S : f[x] = 0
  <2>1. 0 \in S
    OBVIOUS
  <2> QED  BY <1>4, <2>1 DEF Surjection
<1> QED  BY <1>5

-----------------------------------------------------------------------------
(* Orders. *)

\* In a finite set with a strict total order R no two have the same number of others before
\* them, and every number less than that of all occurs.
LEMMA Ranked ==
  ASSUME NEW S, IsFiniteSet(S), NEW R,
         \A a \in S : <<a, a>> \notin R,
         \A a, b, c \in S : <<a, b>> \in R /\ <<b, c>> \in R => <<a, c>> \in R,
         \A a, b \in S : a = b \/ <<a, b>> \in R \/ <<b, a>> \in R
  PROVE  /\ Cardinality(S) \in Nat
         /\ \A a \in S : Cardinality({c \in S : <<c, a>> \in R}) \in 0..(Cardinality(S) - 1)
         /\ \A a, b \in S : <<a, b>> \in R =>
              Cardinality({c \in S : <<c, a>> \in R}) < Cardinality({c \in S : <<c, b>> \in R})
         /\ \A k \in 1..Cardinality(S) : \E a \in S : Cardinality({c \in S : <<c, a>> \in R}) = k - 1
<1> DEFINE Below(a) == {c \in S : <<c, a>> \in R}
<1> DEFINE n == Cardinality(S)
<1>1. n \in Nat
  BY FS_CardinalityType
<1>2. ASSUME NEW a \in S
      PROVE  IsFiniteSet(Below(a)) /\ Cardinality(Below(a)) \in Nat /\ Cardinality(Below(a)) < n
  <2>1. Below(a) \in SUBSET S /\ a \notin Below(a)
    OBVIOUS
  <2> HIDE DEF Below
  <2>2. IsFiniteSet(Below(a)) /\ Cardinality(Below(a)) <= n /\ (n = Cardinality(Below(a)) => S = Below(a))
    BY <2>1, FS_Subset
  <2>3. Cardinality(Below(a)) \in Nat
    BY <2>2, FS_CardinalityType
  <2>4. n # Cardinality(Below(a))
    BY <2>1, <2>2
  <2> HIDE DEF n
  <2> QED  BY <1>1, <2>2, <2>3, <2>4
<1>3. ASSUME NEW a \in S, NEW b \in S, <<a, b>> \in R
      PROVE  Cardinality(Below(a)) < Cardinality(Below(b))
  <2>1. Below(a) \in SUBSET Below(b)
    BY <1>3
  <2>2. a \in Below(b) /\ a \notin Below(a)
    BY <1>3
  <2> HIDE DEF Below
  <2>3. /\ Cardinality(Below(a)) <= Cardinality(Below(b))
        /\ Cardinality(Below(b)) = Cardinality(Below(a)) => Below(b) = Below(a)
    BY <1>2, <2>1, FS_Subset
  <2>4. Cardinality(Below(b)) # Cardinality(Below(a))
    BY <2>2, <2>3
  <2>5. Cardinality(Below(a)) \in Nat /\ Cardinality(Below(b)) \in Nat
    BY <1>2
  <2> QED  BY <2>3, <2>4, <2>5
<1> HIDE DEF Below, n
<1> DEFINE f == [a \in S |-> Cardinality(Below(a)) + 1]
<1>4. f \in [S -> 1..n]
  <2>1. \A a \in S : Cardinality(Below(a)) + 1 \in 1..n
    BY <1>1, <1>2
  <2> QED  BY <2>1
<1>5. ASSUME NEW a \in S, NEW b \in S, f[a] = f[b] PROVE a = b
  <2>1. Cardinality(Below(a)) \in Nat /\ Cardinality(Below(b)) \in Nat
    BY <1>2
  <2>2. Cardinality(Below(a)) = Cardinality(Below(b))
    BY <1>5, <2>1
  <2>3. <<a, b>> \notin R
    BY <1>3, <2>1, <2>2
  <2>4. <<b, a>> \notin R
    BY <1>3, <2>1, <2>2
  <2> QED  BY <2>3, <2>4
<1>6. f \in Injection(S, 1..n)
  <2> HIDE DEF f
  <2> QED  BY <1>4, <1>5 DEF Injection, IsInjective
<1>7. IsFiniteSet(1..n) /\ Cardinality(1..n) = n
  <2>1. IsFiniteSet(1..n) /\ Cardinality(1..n) = IF 1 > n THEN 0 ELSE n - 1 + 1
    BY <1>1, FS_Interval
  <2> QED  BY <1>1, <2>1
<1>8. f \in Surjection(S, 1..n)
  <2>1. Cardinality(S) = Cardinality(1..n)
    BY <1>7 DEF n
  <2> HIDE DEF f
  <2> QED  BY <1>6, <1>7, <2>1, FS_Injection
<1>9. ASSUME NEW k \in 1..n PROVE \E a \in S : Cardinality(Below(a)) = k - 1
  <2>1. PICK a \in S : f[a] = k
    BY <1>8 DEF Surjection
  <2>2. Cardinality(Below(a)) \in Nat /\ Cardinality(Below(a)) + 1 = k
    BY <1>2, <2>1
  <2> QED  BY <2>2
<1>10. \A a \in S : Cardinality(Below(a)) \in 0..(n - 1)
  BY <1>1, <1>2
<1> QED  BY <1>1, <1>3, <1>9, <1>10 DEF Below, n

\* Numbers can be put in ascending order, and then each is there once.
LEMMA AscendingNumbers ==
  ASSUME NEW S \in SUBSET Nat, IsFiniteSet(S)
  PROVE  /\ Cardinality(S) \in Nat /\ Ascending(S) \in [1..Cardinality(S) -> S]
         /\ \A k, l \in 1..Cardinality(S) : k < l => Ascending(S)[k] < Ascending(S)[l]
         /\ \A x \in S : \E k \in 1..Cardinality(S) : Ascending(S)[k] = x
<1> DEFINE R == {p \in S \X S : p[1] < p[2]}
<1> DEFINE n == Cardinality(S)
<1> DEFINE Rank(a) == Cardinality({c \in S : <<c, a>> \in R})
<1>1. \A a, b \in S : <<a, b>> \in R <=> a < b
  OBVIOUS
<1>2. /\ \A a \in S : <<a, a>> \notin R
      /\ \A a, b, c \in S : <<a, b>> \in R /\ <<b, c>> \in R => <<a, c>> \in R
      /\ \A a, b \in S : a = b \/ <<a, b>> \in R \/ <<b, a>> \in R
  <2> HIDE DEF R
  <2> QED  BY <1>1
<1> HIDE DEF R
<1>3. /\ n \in Nat
      /\ \A a, b \in S : <<a, b>> \in R => Rank(a) < Rank(b)
      /\ \A a \in S : Rank(a) \in 0..(n - 1)
      /\ \A k \in 1..n : \E a \in S : Rank(a) = k - 1
  <2>1. /\ Cardinality(S) \in Nat
        /\ \A a \in S : Cardinality({c \in S : <<c, a>> \in R}) \in 0..(Cardinality(S) - 1)
        /\ \A a, b \in S : <<a, b>> \in R =>
             Cardinality({c \in S : <<c, a>> \in R}) < Cardinality({c \in S : <<c, b>> \in R})
        /\ \A k \in 1..Cardinality(S) : \E a \in S : Cardinality({c \in S : <<c, a>> \in R}) = k - 1
    BY Zenon, <1>2, Ranked
  <2> QED  BY Zenon, <2>1
<1> HIDE DEF Rank
<1> DEFINE at == [k \in 1..n |-> CHOOSE a \in S : Rank(a) = k - 1]
<1>4. ASSUME NEW k \in 1..n PROVE at[k] \in S /\ Rank(at[k]) = k - 1
  BY <1>3
<1>5. at \in [1..n -> S]
  BY <1>4
<1> HIDE DEF at, n
<1>6. ASSUME NEW k \in 1..n, NEW l \in 1..n, k < l PROVE at[k] < at[l]
  <2>1. at[k] \in S /\ at[l] \in S /\ Rank(at[k]) = k - 1 /\ Rank(at[l]) = l - 1
    BY <1>4
  <2>4. at[k] \in Nat /\ at[l] \in Nat
    BY <2>1
  <2>2. CASE at[l] < at[k]
    <3>1. Rank(at[l]) < Rank(at[k])
      BY <1>1, <1>3, <2>1, <2>2
    <3> QED  BY <1>3, <1>6, <2>1, <3>1
  <2>3. CASE at[l] = at[k]
    BY <1>3, <1>6, <2>1, <2>3
  <2> QED  BY <2>2, <2>3, <2>4
<1> DEFINE A == Ascending(S)
<1>7. A \in [1..n -> S] /\ \A k, l \in 1..n : k < l => A[k] < A[l]
  BY <1>5, <1>6 DEF Ascending, n
<1> HIDE DEF A
<1>8. ASSUME NEW k \in 1..n, NEW l \in 1..n, A[k] = A[l] PROVE k = l
  <2>1. A[k] \in Nat /\ A[l] \in Nat
    BY <1>7
  <2>2. ~(k < l) /\ ~(l < k)
    BY <1>7, <1>8, <2>1
  <2> QED  BY <1>3, <2>2
<1>9. A \in Injection(1..n, S)
  BY <1>7, <1>8 DEF Injection, IsInjective
<1>10. Cardinality(1..n) = n
  <2>1. Cardinality(1..n) = IF 1 > n THEN 0 ELSE n - 1 + 1
    BY <1>3, FS_Interval
  <2> QED  BY <1>3, <2>1
<1>11. A \in Surjection(1..n, S)
  <2>1. Cardinality(1..n) = Cardinality(S)
    BY <1>10 DEF n
  <2> QED  BY <1>9, <2>1, FS_Injection
<1>12. \A x \in S : \E k \in 1..n : A[k] = x
  BY <1>11 DEF Surjection
<1> QED  BY <1>3, <1>7, <1>12 DEF A, n

\* The entries of a list that are in a set: each as often as it was there.
LEMMA ThoseOfList ==
  ASSUME NEW S, NEW list \in Seq(S), NEW set
  PROVE  /\ Those(list, set) \in Seq(S)
         /\ ToSet(Those(list, set)) = ToSet(list) \cap set
         /\ IsInjective(list) => IsInjective(Those(list, set))
<1> DEFINE F == {i \in DOMAIN list : list[i] \in set}
<1> DEFINE c == Cardinality(F)
<1>1. Len(list) \in Nat /\ F \in SUBSET (1..Len(list)) /\ DOMAIN list = 1..Len(list)
  OBVIOUS
<1>2. \A i \in F : i \in DOMAIN list /\ i \in Nat /\ list[i] \in S /\ list[i] \in set
  OBVIOUS
<1>3. \A i \in DOMAIN list : list[i] \in set => i \in F
  OBVIOUS
<1> HIDE DEF F
<1>4. F \in SUBSET Nat /\ IsFiniteSet(F)
  <2>1. IsFiniteSet(1..Len(list))
    BY <1>1, FS_Interval
  <2>2. IsFiniteSet(F)
    BY <1>1, <2>1, FS_Subset
  <2> QED  BY <1>2, <2>2
<1> DEFINE at == Ascending(F)
<1>5. /\ c \in Nat /\ at \in [1..c -> F]
      /\ \A k, l \in 1..c : k < l => at[k] < at[l]
      /\ \A x \in F : \E k \in 1..c : at[k] = x
  BY <1>4, AscendingNumbers
<1>6. Those(list, set) = [k \in DOMAIN at |-> list[at[k]]]
  BY DEF Those, F
<1> HIDE DEF at, c
<1> DEFINE those == Those(list, set)
<1>7. those = [k \in 1..c |-> list[at[k]]] /\ \A k \in 1..c : at[k] \in F
  BY <1>5, <1>6
<1> HIDE DEF those
<1>8. DOMAIN those = 1..c /\ \A k \in 1..c : those[k] = list[at[k]]
  BY <1>7
<1>9. those \in Seq(S)
  <2>1. \A k \in 1..c : list[at[k]] \in S
    BY <1>2, <1>7
  <2> QED  BY <1>5, <1>7, <2>1
<1>10. ToSet(those) = ToSet(list) \cap set
  <2>1. ASSUME NEW k \in 1..c PROVE those[k] \in ToSet(list) \cap set
    BY <1>2, <1>7, <1>8 DEF ToSet
  <2>2. ASSUME NEW i \in DOMAIN list, list[i] \in set PROVE list[i] \in ToSet(those)
    <3>1. PICK k \in 1..c : at[k] = i
      BY <1>3, <1>5, <2>2
    <3>2. list[i] = those[k] /\ k \in DOMAIN those
      BY <1>8, <3>1
    <3> QED  BY <3>2 DEF ToSet
  <2>3. \A x \in ToSet(those) : x \in ToSet(list) \cap set
    BY <1>8, <2>1 DEF ToSet
  <2>4. \A x \in ToSet(list) \cap set : x \in ToSet(those)
    BY <2>2 DEF ToSet
  <2> QED  BY <2>3, <2>4
<1>11. ASSUME IsInjective(list), NEW k \in 1..c, NEW l \in 1..c, those[k] = those[l]
       PROVE  k = l
  <2>1. at[k] = at[l]
    BY <1>2, <1>7, <1>8, <1>11 DEF IsInjective
  <2>2. at[k] \in Nat
    BY <1>2, <1>7
  <2>3. ~(k < l) /\ ~(l < k)
    BY <1>5, <2>1, <2>2
  <2> QED  BY <1>5, <2>3
<1>12. IsInjective(list) => IsInjective(those)
  BY <1>8, <1>11 DEF IsInjective
<1> QED  BY <1>9, <1>10, <1>12 DEF those

\* What RemoveAt() leaves.
LEMMA Removed ==
  ASSUME NEW S, NEW s \in Seq(S), NEW i \in 1..Len(s)
  PROVE  /\ RemoveAt(s, i) \in Seq(S) /\ Len(RemoveAt(s, i)) = Len(s) - 1
         /\ \A k \in 1..(Len(s) - 1) : RemoveAt(s, i)[k] = IF k < i THEN s[k] ELSE s[k + 1]
<1> DEFINE l == SubSeq(s, 1, i - 1)
<1> DEFINE r == SubSeq(s, i + 1, Len(s))
<1>0. Len(s) \in Nat /\ i \in Nat
  OBVIOUS
<1>1. l \in Seq(S) /\ Len(l) = i - 1 /\ \A k \in 1..(i - 1) : l[k] = s[k]
  OBVIOUS
<1>2. r \in Seq(S) /\ Len(r) = Len(s) - i /\ \A k \in 1..(Len(s) - i) : r[k] = s[i + k]
  <2>1. \A k \in (i + 1)..Len(s) : s[k] \in S
    OBVIOUS
  <2>2. /\ r \in Seq(S) /\ Len(r) = IF i + 1 <= Len(s) THEN Len(s) - (i + 1) + 1 ELSE 0
        /\ \A k \in 1..(Len(s) - (i + 1) + 1) : r[k] = s[i + 1 + k - 1]
    BY <1>0, <2>1, SubSeqProperties
  <2>3. Len(s) - (i + 1) + 1 = Len(s) - i
    BY <1>0
  <2>4. \A k \in 1..(Len(s) - i) : i + 1 + k - 1 = i + k
    BY <1>0
  <2> HIDE DEF r
  <2>5. Len(r) = Len(s) - i
    <3>1. Len(r) = IF i + 1 <= Len(s) THEN Len(s) - (i + 1) + 1 ELSE 0
      BY Zenon, <2>2
    <3>2. (IF i + 1 <= Len(s) THEN Len(s) - (i + 1) + 1 ELSE 0) = Len(s) - i
      BY <1>0
    <3> QED  BY <3>1, <3>2
  <2>6. ASSUME NEW k \in 1..(Len(s) - i) PROVE r[k] = s[i + k]
    <3>1. r[k] = s[i + 1 + k - 1]
      BY Zenon, <2>2, <2>3
    <3> QED  BY Zenon, <2>4, <3>1
  <2> QED  BY <2>2, <2>5, <2>6
<1> HIDE DEF l, r
<1> DEFINE all == l \o r
<1>3. /\ all \in Seq(S) /\ Len(all) = Len(l) + Len(r)
      /\ \A k \in 1..(Len(l) + Len(r)) : all[k] = IF k <= Len(l) THEN l[k] ELSE r[k - Len(l)]
  BY Zenon, <1>1, <1>2, ConcatProperties
<1>4. RemoveAt(s, i) = all
  BY DEF RemoveAt, all, l, r
<1> HIDE DEF all
<1>5. Len(l) + Len(r) = Len(s) - 1
  BY <1>0, <1>1, <1>2
<1>6. ASSUME NEW k \in 1..(Len(s) - 1) PROVE all[k] = IF k < i THEN s[k] ELSE s[k + 1]
  <2>1. CASE k < i
    <3>1. k \in 1..(i - 1) /\ k <= Len(l)
      BY <1>0, <1>1, <2>1
    <3> QED  BY <1>1, <1>3, <1>5, <2>1, <3>1
  <2>2. CASE ~(k < i)
    <3>1. k - (i - 1) \in 1..(Len(s) - i) /\ i + (k - (i - 1)) = k + 1 /\ ~(k <= Len(l))
      BY <1>0, <1>1, <2>2
    <3>2. all[k] = r[k - (i - 1)]
      BY <1>1, <1>3, <1>5, <3>1
    <3> QED  BY <1>2, <2>2, <3>1, <3>2
  <2> QED  BY <2>1, <2>2
<1> QED  BY <1>3, <1>4, <1>5, <1>6

\* What is left when one page goes: the others, still each once.
LEMMA PageTakenOut ==
  ASSUME NEW s \in Seq(Files), IsInjective(s), NEW i \in 1..Len(s)
  PROVE  /\ RemoveAt(s, i) \in Seq(Files) /\ IsInjective(RemoveAt(s, i))
         /\ Len(RemoveAt(s, i)) = Len(s) - 1
         /\ \A x \in ToSet(RemoveAt(s, i)) : x \in ToSet(s) /\ x # s[i]
<1> DEFINE r == RemoveAt(s, i)
<1>0. Len(s) \in Nat /\ i \in Nat
  OBVIOUS
<1>1. r \in Seq(Files) /\ Len(r) = Len(s) - 1
      /\ \A k \in 1..(Len(s) - 1) : r[k] = IF k < i THEN s[k] ELSE s[k + 1]
  BY Zenon, Removed
<1> HIDE DEF r
<1>2. DOMAIN r = 1..(Len(s) - 1) /\ DOMAIN s = 1..Len(s)
  BY <1>1
<1> DEFINE at(k) == IF k < i THEN k ELSE k + 1
<1>3. ASSUME NEW k \in 1..(Len(s) - 1)
      PROVE  at(k) \in DOMAIN s /\ at(k) # i /\ r[k] = s[at(k)]
  BY <1>0, <1>1, <1>2
<1>4. ASSUME NEW k \in 1..(Len(s) - 1), NEW l \in 1..(Len(s) - 1), r[k] = r[l]
      PROVE  k = l
  <2>1. at(k) = at(l)
    BY <1>3, <1>4 DEF IsInjective
  <2> QED  BY <1>0, <2>1
<1>5. IsInjective(r)
  BY <1>2, <1>4 DEF IsInjective
<1>6. ASSUME NEW x \in ToSet(r) PROVE x \in ToSet(s) /\ x # s[i]
  <2>1. PICK k \in 1..(Len(s) - 1) : x = r[k]
    BY <1>2 DEF ToSet
  <2>2. at(k) \in DOMAIN s /\ at(k) # i /\ x = s[at(k)] /\ i \in DOMAIN s
    BY <1>2, <1>3, <2>1
  <2> HIDE DEF at
  <2> QED  BY <2>2 DEF ToSet, IsInjective
<1> QED  BY <1>1, <1>5, <1>6 DEF r

-----------------------------------------------------------------------------
(* The breakpoint list. *)

Marked == Files \X Lines
\* How many breakpoints come before one.
Rank(set, a) == Cardinality({c \in set : Before(c, a)})

\* Before() is a strict total order.
LEMMA BeforeOrders ==
  ASSUME NEW set \in SUBSET Marked
  PROVE  /\ \A a \in set : ~Before(a, a)
         /\ \A a, b, c \in set : Before(a, b) /\ Before(b, c) => Before(a, c)
         /\ \A a, b \in set : a = b \/ Before(a, b) \/ Before(b, a)
<1>1. ASSUME NEW a \in set PROVE a = <<a[1], a[2]>> /\ a[1] \in Nat /\ a[2] \in Nat
  <2>1. Files \subseteq Nat /\ Lines \subseteq Nat
    <3>1. Cardinality(Files) \in Nat
      BY FilesAssumption, FS_CardinalityType
    <3>2. 1..Cardinality(Files) \subseteq Nat
      BY <3>1
    <3> QED  BY <3>2, FilesAssumption, LinesAssumption
  <2>2. a \in Files \X Lines
    BY DEF Marked
  <2>3. a = <<a[1], a[2]>> /\ a[1] \in Files /\ a[2] \in Lines
    BY <2>2
  <2> QED  BY <2>1, <2>3
<1> QED  BY <1>1 DEF Before

\* The breakpoints are finitely many, and the k-th row of their list has k - 1 before it.
LEMMA SortedRows ==
  ASSUME NEW set \in SUBSET Marked
  PROVE  /\ Cardinality(set) \in Nat /\ DOMAIN SortedBreakpoints(set) = 1..Cardinality(set)
         /\ \A k \in 1..Cardinality(set) :
              SortedBreakpoints(set)[k] \in set /\ Rank(set, SortedBreakpoints(set)[k]) = k - 1
         /\ \A a \in set : Rank(set, a) \in 0..(Cardinality(set) - 1)
         /\ \A a, b \in set : Before(a, b) => Rank(set, a) < Rank(set, b)
<1> DEFINE R == {p \in set \X set : Before(p[1], p[2])}
<1> DEFINE n == Cardinality(set)
<1>1. \A a, b \in set : <<a, b>> \in R <=> Before(a, b)
  OBVIOUS
<1> HIDE DEF R
<1>2. IsFiniteSet(set)
  <2>1. IsFiniteSet(Files \X Lines)
    BY FilesAssumption, LinesAssumption, FS_Product
  <2> QED  BY <2>1, FS_Subset DEF Marked
<1>3. /\ \A a \in set : <<a, a>> \notin R
      /\ \A a, b, c \in set : <<a, b>> \in R /\ <<b, c>> \in R => <<a, c>> \in R
      /\ \A a, b \in set : a = b \/ <<a, b>> \in R \/ <<b, a>> \in R
  BY <1>1, BeforeOrders
<1>4. /\ Cardinality(set) \in Nat
      /\ \A a \in set : Cardinality({c \in set : <<c, a>> \in R}) \in 0..(Cardinality(set) - 1)
      /\ \A a, b \in set : <<a, b>> \in R =>
           Cardinality({c \in set : <<c, a>> \in R}) < Cardinality({c \in set : <<c, b>> \in R})
      /\ \A k \in 1..Cardinality(set) : \E a \in set : Cardinality({c \in set : <<c, a>> \in R}) = k - 1
  BY Zenon, <1>2, <1>3, Ranked
<1>5. ASSUME NEW a \in set PROVE Cardinality({c \in set : <<c, a>> \in R}) = Rank(set, a)
  <2>1. {c \in set : <<c, a>> \in R} = {c \in set : Before(c, a)}
    BY <1>1
  <2> QED  BY Zenon, <2>1 DEF Rank
<1>6. ASSUME NEW k \in 1..n PROVE \E a \in set : Rank(set, a) = k - 1
  BY Zenon, <1>4, <1>5
<1>7. ASSUME NEW k \in 1..n
      PROVE  SortedBreakpoints(set)[k] \in set /\ Rank(set, SortedBreakpoints(set)[k]) = k - 1
  <2>1. SortedBreakpoints(set)[k] = CHOOSE a \in set : Rank(set, a) = k - 1
    BY Zenon DEF SortedBreakpoints, Rank
  <2> QED  BY Zenon, <1>6, <2>1
<1>8. DOMAIN SortedBreakpoints(set) = 1..n
  BY Zenon DEF SortedBreakpoints
<1>9. \A a \in set : Rank(set, a) \in 0..(Cardinality(set) - 1)
  BY Zenon, <1>4, <1>5
<1>10. \A a, b \in set : Before(a, b) => Rank(set, a) < Rank(set, b)
  BY Zenon, <1>1, <1>4, <1>5
<1> HIDE DEF n
<1> QED  BY <1>4, <1>7, <1>8, <1>9, <1>10 DEF n

\* Two breakpoints with as many before them are the same.
LEMMA SameRank ==
  ASSUME NEW set \in SUBSET Marked, NEW a \in set, NEW b \in set, Rank(set, a) = Rank(set, b)
  PROVE  a = b
<1>1. \A x \in set : Rank(set, x) \in Nat
  <2>1. Cardinality(set) \in Nat /\ \A x \in set : Rank(set, x) \in 0..(Cardinality(set) - 1)
    BY SortedRows
  <2> QED  BY <2>1
<1>2. \A x, y \in set : Before(x, y) => Rank(set, x) < Rank(set, y)
  BY SortedRows
<1>3. ~Before(a, b) /\ ~Before(b, a)
  BY <1>1, <1>2
<1> QED  BY <1>3, BeforeOrders

\* While only breakpoints below it have gone, a row is where it was.
LEMMA RowGoes ==
  ASSUME NEW all \in SUBSET Marked, NEW set \in SUBSET all, NEW i \in 1..Cardinality(all),
         \A a \in all \ set : Before(SortedBreakpoints(all)[i], a)
  PROVE  RowRemoved(set, i) = set \ {SortedBreakpoints(all)[i]}
<1> DEFINE b == SortedBreakpoints(all)[i]
<1>1. b \in all /\ Rank(all, b) = i - 1 /\ Cardinality(all) \in Nat
  BY SortedRows
<1>2. set \in SUBSET Marked
  OBVIOUS
<1> HIDE DEF b
<1>3. b \in set
  BY <1>1, BeforeOrders DEF b
<1>4. {c \in set : Before(c, b)} = {c \in all : Before(c, b)}
  <2>1. ASSUME NEW c \in all, Before(c, b), c \notin set PROVE FALSE
    <3>1. Before(b, c)
      BY <2>1 DEF b
    <3> QED  BY <1>1, <2>1, <3>1, BeforeOrders
  <2> QED  BY <2>1
<1>5. Rank(set, b) = i - 1
  BY Zenon, <1>1, <1>4 DEF Rank
<1>6. Rank(set, b) \in 0..(Cardinality(set) - 1) /\ Cardinality(set) \in Nat
  BY <1>2, <1>3, SortedRows
<1>7. i \in 1..Cardinality(set)
  BY <1>1, <1>5, <1>6
<1>8. SortedBreakpoints(set)[i] \in set /\ Rank(set, SortedBreakpoints(set)[i]) = i - 1
  BY <1>2, <1>7, SortedRows
<1>9. SortedBreakpoints(set)[i] = b
  BY <1>2, <1>3, <1>5, <1>8, SameRank
<1> QED  BY <1>7, <1>9 DEF RowRemoved, b

\* The breakpoints after the removals of any set of places, the last of them last.
Table(list, g, n) ==
  g = [s \in SUBSET (1..n) |-> IF s = {} THEN bps ELSE RowRemoved(g[s \ {Max(s)}], list[Max(s)])]

\* A fold over a list has a value after each number of entries.
LEMMA TableExists ==
  ASSUME NEW list
  PROVE  \A n \in Nat : \E g : Table(list, g, n)
<1> DEFINE Q == {n \in Nat : \E g : Table(list, g, n)}
<1>1. 0 \in Q
  <2> DEFINE g == [s \in SUBSET (1..0) |-> bps]
  <2>1. \A s \in SUBSET (1..0) : s = {}
    OBVIOUS
  <2>2. g = [s \in SUBSET (1..0) |-> IF s = {} THEN bps ELSE RowRemoved(g[s \ {Max(s)}], list[Max(s)])]
    BY <2>1, Zenon
  <2> QED  BY <2>2 DEF Table
<1>2. ASSUME NEW n \in Nat, n \in Q PROVE n + 1 \in Q
  <2>1. PICK g : Table(list, g, n)
    BY <1>2
  <2> DEFINE h == [s \in SUBSET (1..(n + 1)) |->
                     IF n + 1 \in s THEN RowRemoved(g[s \ {n + 1}], list[n + 1]) ELSE g[s]]
  <2>2. ASSUME NEW s \in SUBSET (1..(n + 1))
        PROVE  h[s] = IF s = {} THEN bps ELSE RowRemoved(h[s \ {Max(s)}], list[Max(s)])
    <3>1. CASE n + 1 \in s
      <4>1. Max(s) = n + 1
        <5>1. \A x \in s : n + 1 >= x /\ x \in Int
          OBVIOUS
        <5>2. \A x \in s : (\A y \in s : x >= y) => x = n + 1
          BY <3>1, <5>1
        <5>3. n + 1 \in s /\ \A y \in s : n + 1 >= y
          BY <3>1, <5>1
        <5> QED  BY <5>2, <5>3 DEF Max
      <4>2. s \ {n + 1} \in SUBSET (1..(n + 1)) /\ n + 1 \notin s \ {n + 1}
        OBVIOUS
      <4>3. h[s \ {n + 1}] = g[s \ {n + 1}]
        BY Zenon, <4>2
      <4>4. h[s] = RowRemoved(g[s \ {n + 1}], list[n + 1])
        BY Zenon, <3>1
      <4>5. s # {}
        BY <3>1
      <4> HIDE DEF h
      <4> QED  BY Zenon, <4>1, <4>3, <4>4, <4>5
    <3>2. CASE n + 1 \notin s
      <4>0. s \subseteq 1..n
        <5>1. \A x \in 1..(n + 1) : x # n + 1 => x \in 1..n
          OBVIOUS
        <5> QED  BY <3>2, <5>1
      <4>1. s \in SUBSET (1..n) /\ s \ {Max(s)} \in SUBSET (1..(n + 1)) /\ n + 1 \notin s \ {Max(s)}
        BY Zenon, <3>2, <4>0
      <4>2. h[s] = g[s] /\ h[s \ {Max(s)}] = g[s \ {Max(s)}]
        BY Zenon, <3>2, <4>1
      <4>3. g[s] = IF s = {} THEN bps ELSE RowRemoved(g[s \ {Max(s)}], list[Max(s)])
        BY Zenon, <2>1, <4>1 DEF Table
      <4> HIDE DEF h
      <4> QED  BY Zenon, <4>2, <4>3
    <3> QED  BY <3>1, <3>2
  <2>3. h = [s \in SUBSET (1..(n + 1)) |-> h[s]]
    BY Zenon
  <2> HIDE DEF h
  <2>4. h = [s \in SUBSET (1..(n + 1)) |->
               IF s = {} THEN bps ELSE RowRemoved(h[s \ {Max(s)}], list[Max(s)])]
    BY Zenon, <2>2, <2>3
  <2> QED  BY <2>4 DEF Table
<1> HIDE DEF Q
<1>3. Nat \subseteq Q
  BY <1>1, <1>2, NaturalsAreReached
<1> QED  BY <1>3 DEF Q

\* The breakpoints, removal by removal.
LEMMA RowsByRow ==
  ASSUME NEW list, NEW n \in Nat, DOMAIN list = 1..n
  PROVE  \E at : /\ at[0] = bps /\ at[n] = RowsRemoved(list)
                 /\ \A k \in 0..(n - 1) : at[k + 1] = RowRemoved(at[k], list[k + 1])
<1> DEFINE g == CHOOSE g : Table(list, g, n)
<1>1. Table(list, g, n)
  BY TableExists
<1>2. RowsRemoved(list) = g[1..n]
  <2>1. RowsRemoved(list) = (CHOOSE g1 : g1 = [s \in SUBSET DOMAIN list |->
                          IF s = {} THEN bps ELSE RowRemoved(g1[s \ {Max(s)}], list[Max(s)])])[DOMAIN list]
    BY Zenon DEF RowsRemoved, FoldLeft, MapThenFoldSet
  <2> QED  BY Zenon, <2>1 DEF Table
<1> HIDE DEF g
<1> DEFINE at == [k \in 0..n |-> g[1..k]]
<1>3. at[0] = bps
  <2>1. 1..0 = {} /\ {} \in SUBSET (1..n) /\ 0 \in 0..n
    OBVIOUS
  <2>2. g[{}] = bps
    BY Zenon, <1>1, <2>1 DEF Table
  <2> QED  BY Zenon, <2>1, <2>2
<1>4. ASSUME NEW k \in 0..(n - 1) PROVE at[k + 1] = RowRemoved(at[k], list[k + 1])
  <2>0. k \in 0..n /\ k + 1 \in 0..n /\ \A x \in 1..(k + 1) : x \in 1..n
    OBVIOUS
  <2>1. k \in 0..n /\ k + 1 \in 0..n /\ 1..(k + 1) \in SUBSET (1..n) /\ 1..(k + 1) # {}
    <3>1. k + 1 \in 1..(k + 1)
      OBVIOUS
    <3> QED  BY Zenon, <2>0, <3>1
  <2>2. Max(1..(k + 1)) = k + 1
    <3>1. \A x \in 1..(k + 1) : (\A y \in 1..(k + 1) : x >= y) => x = k + 1
      OBVIOUS
    <3>2. k + 1 \in 1..(k + 1) /\ \A y \in 1..(k + 1) : k + 1 >= y
      OBVIOUS
    <3> QED  BY <3>1, <3>2 DEF Max
  <2>3. (1..(k + 1)) \ {k + 1} = 1..k
    OBVIOUS
  <2>4. g[1..(k + 1)] = RowRemoved(g[(1..(k + 1)) \ {Max(1..(k + 1))}], list[Max(1..(k + 1))])
    BY Zenon, <1>1, <2>1 DEF Table
  <2> QED  BY Zenon, <2>1, <2>2, <2>3, <2>4
<1>5. at[n] = RowsRemoved(list)
  BY <1>2
<1> HIDE DEF at
<1> QED  BY <1>3, <1>4, <1>5

\* Back to front, the rows removed are those selected.
LEMMA SelectedRowsGo ==
  ASSUME bps \in SUBSET Marked, NEW selection \in SUBSET (1..Cardinality(bps))
  PROVE  RowsRemoved(Removal(selection)) = bps \ {SortedBreakpoints(bps)[i] : i \in selection}
<1> DEFINE A == Ascending(selection)
<1> DEFINE n == Cardinality(selection)
<1> DEFINE list == Removal(selection)
<1> DEFINE row == SortedBreakpoints(bps)
<1>1. /\ Cardinality(bps) \in Nat
      /\ \A i \in 1..Cardinality(bps) : row[i] \in bps /\ Rank(bps, row[i]) = i - 1
      /\ \A a, b \in bps : Before(a, b) => Rank(bps, a) < Rank(bps, b)
  BY SortedRows
<1>2. selection \in SUBSET Nat /\ IsFiniteSet(selection)
  <2>1. IsFiniteSet(1..Cardinality(bps))
    BY <1>1, FS_Interval
  <2>2. IsFiniteSet(selection)
    BY <2>1, FS_Subset
  <2>3. 1..Cardinality(bps) \subseteq Nat
    BY <1>1
  <2> QED  BY <2>2, <2>3
<1>3. /\ n \in Nat /\ A \in [1..n -> selection]
      /\ \A k, l \in 1..n : k < l => A[k] < A[l]
      /\ \A x \in selection : \E k \in 1..n : A[k] = x
  BY <1>2, AscendingNumbers
<1> HIDE DEF A, n
<1>4. Len(A) = n
  BY <1>3
<1>5. DOMAIN list = 1..n /\ \A k \in 1..n : list[k] = A[(n - k) + 1]
  <2>1. list = [i \in 1..n |-> A[(n - i) + 1]]
    BY Zenon, <1>4 DEF Removal, Reverse, A
  <2> HIDE DEF list
  <2> QED  BY <2>1
<1> HIDE DEF list
<1>6. ASSUME NEW k \in 1..n PROVE list[k] \in selection /\ list[k] \in 1..Cardinality(bps)
  <2>1. (n - k) + 1 \in 1..n
    BY <1>3
  <2> QED  BY <1>3, <1>5, <2>1
<1>7. ASSUME NEW k \in 1..n, NEW l \in 1..n, k < l PROVE list[l] < list[k]
  <2>1. (n - k) + 1 \in 1..n /\ (n - l) + 1 \in 1..n /\ (n - l) + 1 < (n - k) + 1
    BY <1>3, <1>7
  <2> QED  BY <1>3, <1>5, <2>1
<1>8. ASSUME NEW i \in selection PROVE \E k \in 1..n : list[k] = i
  <2>1. PICK k \in 1..n : A[k] = i
    BY <1>3
  <2>2. (n - k) + 1 \in 1..n /\ (n - ((n - k) + 1)) + 1 = k
    BY <1>3
  <2>3. list[(n - k) + 1] = A[k]
    BY <1>5, <2>2
  <2> QED  BY <2>1, <2>2, <2>3
<1> HIDE DEF row
<1> DEFINE Deleted(k) == {row[list[j]] : j \in 1..k}
<1>9. PICK at : /\ at[0] = bps /\ at[n] = RowsRemoved(list)
                /\ \A k \in 0..(n - 1) : at[k + 1] = RowRemoved(at[k], list[k + 1])
  BY <1>3, <1>5, RowsByRow
<1>10. ASSUME NEW k \in 0..(n - 1), at[k] = bps \ Deleted(k)
       PROVE  at[k + 1] = bps \ Deleted(k + 1)
  <2> DEFINE i == list[k + 1]
  <2>1. k + 1 \in 1..n /\ k \in Nat /\ i \in 1..Cardinality(bps)
    BY <1>3, <1>6
  <2> HIDE DEF i
  <2>2. ASSUME NEW a \in bps \ at[k] PROVE Before(row[i], a)
    <3>1. PICK j \in 1..k : a = row[list[j]]
      BY <1>10
    <3>2. j \in 1..n /\ j < k + 1
      BY <1>3
    <3>3. list[j] \in 1..Cardinality(bps) /\ i < list[j]
      BY <1>6, <1>7, <2>1, <3>2 DEF i
    <3>4. row[i] \in bps /\ a \in bps /\ Rank(bps, row[i]) = i - 1 /\ Rank(bps, a) = list[j] - 1
      BY <1>1, <2>1, <3>1, <3>3
    <3>5. row[i] # a /\ ~Before(a, row[i])
      BY <1>1, <2>1, <3>3, <3>4
    <3> QED  BY <3>4, <3>5, BeforeOrders
  <2>3. at[k] \in SUBSET bps
    BY <1>10
  <2>4. RowRemoved(at[k], i) = at[k] \ {row[i]}
    BY <2>1, <2>2, <2>3, RowGoes DEF row
  <2>5. at[k + 1] = at[k] \ {row[i]}
    BY <1>9, <2>4 DEF i
  <2>6. Deleted(k + 1) = Deleted(k) \cup {row[i]}
    <3>1. 1..(k + 1) = 1..k \cup {k + 1}
      BY <2>1
    <3>2. \A x : x \in Deleted(k + 1) <=> x \in Deleted(k) \/ x = row[list[k + 1]]
      BY Zenon, <3>1
    <3> QED  BY Zenon, <3>2 DEF i
  <2> QED  BY <1>10, <2>5, <2>6
<1> DEFINE Q == {k \in Nat : k <= n => at[k] = bps \ Deleted(k)}
<1>11. 0 \in Q
  BY <1>9
<1>12. \A k \in Nat : k \in Q => k + 1 \in Q
  <2> SUFFICES ASSUME NEW k \in Nat, k \in Q, k + 1 <= n PROVE at[k + 1] = bps \ Deleted(k + 1)
    OBVIOUS
  <2>1. k \in 0..(n - 1) /\ at[k] = bps \ Deleted(k)
    BY <1>3
  <2> HIDE DEF Deleted
  <2> QED  BY <1>10, <2>1
<1>13. n \in Q
  <2> HIDE DEF Q
  <2> QED  BY <1>3, <1>11, <1>12, NaturalsAreReached
<1>14. at[n] = bps \ Deleted(n)
  BY <1>3, <1>13
<1>15. Deleted(n) = {row[i] : i \in selection}
  <2>1. \A x \in Deleted(n) : \E i \in selection : x = row[i]
    BY <1>6
  <2>2. \A i \in selection : row[i] \in Deleted(n)
    BY <1>8
  <2> QED  BY <2>1, <2>2
<1> HIDE DEF Deleted
<1> QED  BY <1>9, <1>14, <1>15 DEF list, row

-----------------------------------------------------------------------------
(* The editor and the texts. *)

DocType == [text : Texts \ {Empty}, dirty : BOOLEAN, lock : BOOLEAN]
EditorType == [sfc : Files \cup {None}, text : Texts, save : Texts, base : Texts,
               dirty : BOOLEAN, lock : BOOLEAN, marks : SUBSET Lines]
Posts == {"Redraw", "ReloadStylCache", "OnReloadLuaFunctions"}

\* What OnlyEditsChangeTexts says of a step.
TextsStay ==
  \A f \in Sources : f \in Sources' /\ TextOf(f)' # TextOf(f) =>
    \/ editor.sfc = f /\ editor'.sfc = f /\ disk' = disk
    \/ tabs' = << >> /\ TextOf(f)' = disk[f]

Runs == over = ""

\* All that the invariant says while the client runs.
LEMMA Running ==
  ASSUME SourcesInv, Runs
  PROVE  /\ order \in Seq(Files) /\ IsInjective(order) /\ Sources \subseteq Files
         /\ docs \in [Files -> DocType] /\ disk \in [Files -> (Texts \ {Empty}) \cup {Gone}]
         /\ tabs \in Seq(Files) /\ IsInjective(tabs) /\ selected \in 0..Len(tabs)
         /\ editor \in EditorType /\ bps \in SUBSET Marked /\ later \subseteq Posts /\ started \in BOOLEAN
         /\ ToSet(tabs) \subseteq Sources
         /\ editor.sfc = IF selected = 0 THEN None ELSE tabs[selected]
         /\ editor.sfc # None => editor.sfc \in ToSet(tabs)
         /\ "OnReloadLuaFunctions" \in later => editor.sfc # None
         /\ \A b \in bps : b[1] \in Sources \/ disk[b[1]] = Gone
         /\ editor.sfc = None => editor.text = Empty
         /\ listed = order /\ rows \in {<< >>, SortedBreakpoints(bps)}
<1>1. TypeOK /\ EditorShowsSelectedTab /\ BreakpointsHaveSources
      /\ (editor.sfc = None => editor.text = Empty)
      /\ listed = order /\ rows \in {<< >>, SortedBreakpoints(bps)}
  BY DEF SourcesInv, Runs
<1>2. /\ order \in Seq(Files) /\ IsInjective(order)
      /\ docs \in [Files -> DocType] /\ disk \in [Files -> (Texts \ {Empty}) \cup {Gone}]
      /\ tabs \in Seq(Files) /\ IsInjective(tabs) /\ selected \in 0..Len(tabs)
      /\ editor \in EditorType /\ bps \in SUBSET Marked /\ later \subseteq Posts /\ started \in BOOLEAN
  BY <1>1 DEF TypeOK, DocType, EditorType, Posts, Marked
<1>7. order \in Seq(Files) /\ tabs \in Seq(Files) /\ selected \in 0..Len(tabs)
  BY Zenon, <1>2
<1>3. Sources \subseteq Files
  <2>1. \A i \in DOMAIN order : order[i] \in Files
    BY <1>7
  <2> QED  BY Zenon, <2>1 DEF Sources, ToSet
<1>4. /\ ToSet(tabs) \subseteq Sources
      /\ editor.sfc = IF selected = 0 THEN None ELSE tabs[selected]
      /\ "OnReloadLuaFunctions" \in later => editor.sfc # None
  BY <1>1 DEF EditorShowsSelectedTab, Runs
<1>5. editor.sfc # None => editor.sfc \in ToSet(tabs)
  <2>1. Len(tabs) \in Nat /\ DOMAIN tabs = 1..Len(tabs)
    BY <1>7
  <2>2. selected # 0 => selected \in DOMAIN tabs
    BY <1>7, <2>1
  <2> QED  BY <1>4, <2>2 DEF ToSet
<1>6. \A b \in bps : b[1] \in Sources \/ disk[b[1]] = Gone
  BY <1>1 DEF BreakpointsHaveSources, Runs
<1> QED  BY <1>1, <1>2, <1>3, <1>4, <1>5, <1>6

\* Types of the pieces, put together.
LEMMA Stays ==
  ASSUME order' \in Seq(Files), IsInjective(order'),
         docs' \in [Files -> DocType], disk' \in [Files -> (Texts \ {Empty}) \cup {Gone}],
         tabs' \in Seq(Files), IsInjective(tabs'), selected' \in 0..Len(tabs'),
         editor' \in EditorType, bps' \in SUBSET Marked, later' \subseteq Posts, started' \in BOOLEAN,
         over' \in Ends,
         ToSet(tabs') \subseteq Sources',
         editor'.sfc = IF selected' = 0 THEN None ELSE tabs'[selected'],
         "OnReloadLuaFunctions" \in later' => editor'.sfc # None,
         \A b \in bps' : b[1] \in Sources' \/ disk'[b[1]] = Gone,
         editor'.sfc = None => editor'.text = Empty,
         listed' = order', rows' \in {<< >>, SortedBreakpoints(bps')}
  PROVE  SourcesInv'
<1>1. TypeOK'
  BY DEF TypeOK, DocType, EditorType, Posts, Marked
<1>2. EditorShowsSelectedTab'
  BY DEF EditorShowsSelectedTab
<1>3. BreakpointsHaveSources'
  BY DEF BreakpointsHaveSources
<1>4. SortedBreakpoints(bps)' = SortedBreakpoints(bps')
  BY DEF SortedBreakpoints
<1> QED  BY <1>1, <1>2, <1>3, <1>4 DEF SourcesInv

\* A file has a number that is not that of no source; no text of a file is Empty.
LEMMA Numbers ==
  /\ None \notin Files
  /\ \A t \in Texts : LinesOf(t) \in Texts \ {Empty} /\ LinesOf(LinesOf(t)) = LinesOf(t)
  /\ \A t \in Texts \ {Empty} : LinesOf(t) = t
  /\ Empty \in Texts /\ 0 \in Texts \ {Empty} /\ Blank \in Texts \ {Empty} /\ Gone \notin Texts
<1>1. Cardinality(Files) \in Nat
  BY FilesAssumption, FS_CardinalityType
<1>2. 0 \notin 1..Cardinality(Files)
  BY <1>1
<1>3. None \notin Files
  BY <1>2, FilesAssumption DEF None
<1> QED  BY <1>3, LinesAssumption DEF Texts, LinesOf, Empty, Blank, Gone

\* The breakpoints of a source are lines.
LEMMA MarksTyped ==
  ASSUME NEW set \in SUBSET Marked, NEW f
  PROVE  BreakpointsOf(f, set) \in SUBSET Lines
BY DEF BreakpointsOf, Marked

\* What is kept of the texts when the editor is about to show another source.
LEMMA KeptTexts ==
  ASSUME docs \in [Files -> DocType], editor \in EditorType
  PROVE  Kept \in [Files -> DocType] /\ \A g \in Files : LinesOf(Kept[g].text) = TextOf(g)
<1>1. CASE editor.sfc = None
  <2>1. Kept = docs
    BY <1>1 DEF Kept
  <2>2. \A g \in Files : g # editor.sfc
    BY <1>1, Numbers
  <2> QED  BY <2>1, <2>2 DEF TextOf
<1>2. CASE editor.sfc # None
  <2> DEFINE d == [docs EXCEPT ![editor.sfc].text = LinesOf(editor.text),
                               ![editor.sfc].dirty = Modified(editor)]
  <2>1. Kept = d
    BY <1>2 DEF Kept
  <2>2. editor.sfc \in Files /\ editor.text \in Texts
    BY <1>2 DEF EditorType
  <2>3. LinesOf(editor.text) \in Texts \ {Empty} /\ LinesOf(LinesOf(editor.text)) = LinesOf(editor.text)
    BY <2>2, Numbers
  <2>4. Modified(editor) \in BOOLEAN
    BY DEF Modified
  <2>5. d \in [Files -> DocType]
    BY <2>2, <2>3, <2>4 DEF DocType
  <2>6. ASSUME NEW g \in Files
        PROVE  d[g].text = IF g = editor.sfc THEN LinesOf(editor.text) ELSE docs[g].text
    BY <2>2 DEF DocType
  <2> HIDE DEF d
  <2>7. \A g \in Files : LinesOf(d[g].text) = TextOf(g)
    BY <2>3, <2>6 DEF TextOf
  <2> QED  BY <2>1, <2>5, <2>7
<1> QED  BY <1>1, <1>2

\* What the editor has when it shows another source.
LEMMA LoadedEditor ==
  ASSUME docs \in [Files -> DocType], editor \in EditorType, bps \in SUBSET Marked,
         NEW f \in Files \cup {None}
  PROVE  /\ Loaded(f) \in EditorType /\ Loaded(f).sfc = f
         /\ Loaded(f).text = IF f = None THEN Empty ELSE docs[f].text
<1>1. CASE f = None
  <2>1. Loaded(f) = [UnloadCurrentSFC EXCEPT !.lock = editor.lock]
    BY <1>1 DEF Loaded, AutoMuteStc
  <2> QED  BY <1>1, <2>1, Numbers DEF UnloadCurrentSFC, EditorType
<1>2. CASE f # None
  <2>1. Loaded(f) = [RestoreToEditor(f) EXCEPT !.lock = editor.lock]
    BY <1>2 DEF Loaded, AutoMuteStc
  <2>2. docs[f] \in DocType /\ BreakpointsOf(f, bps) \in SUBSET Lines /\ f \in Files
    BY <1>2, MarksTyped
  <2> QED  BY <1>2, <2>1, <2>2 DEF RestoreToEditor, DocType, EditorType
<1> QED  BY <1>1, <1>2

\* No text is lost between the editor and the sources.
LEMMA SwitchedTexts ==
  ASSUME docs \in [Files -> DocType], editor \in EditorType, bps \in SUBSET Marked,
         NEW f \in Files \cup {None}, f # editor.sfc, NEW g \in Files,
         editor' = Loaded(f), docs'[g].text = Kept[g].text
  PROVE  TextOf(g)' = TextOf(g)
<1>1. editor'.sfc = f /\ (f # None => editor'.text = docs[f].text)
  BY LoadedEditor
<1>2. LinesOf(docs'[g].text) = TextOf(g)
  BY KeptTexts
<1>3. CASE g = f
  <2>1. TextOf(g)' = LinesOf(docs[g].text)
    BY <1>1, <1>3, Numbers DEF TextOf, LinesOf, Blank, Empty
  <2> QED  BY <1>3, <2>1 DEF TextOf
<1>4. CASE g # f
  <2>1. TextOf(g)' = LinesOf(docs'[g].text)
    BY <1>1, <1>4 DEF TextOf, LinesOf, Blank, Empty
  <2> QED  BY <1>2, <2>1
<1> QED  BY <1>3, <1>4

\* The source of another page comes into the editor.
LEMMA EditorSet ==
  ASSUME docs \in [Files -> DocType], editor \in EditorType, bps \in SUBSET Marked,
         later \subseteq Posts, NEW f \in Files \cup {None},
         "OnReloadLuaFunctions" \in later => editor.sfc # None,
         editor.sfc = None => editor.text = Empty,
         SetEditSFC(f)
  PROVE  /\ docs' \in [Files -> DocType] /\ editor' \in EditorType /\ editor'.sfc = f
         /\ later' \subseteq Posts /\ ("OnReloadLuaFunctions" \in later' => editor'.sfc # None)
         /\ (editor'.sfc = None => editor'.text = Empty)
         /\ \A g \in Files : TextOf(g)' = TextOf(g)
<1>1. CASE f = editor.sfc
  <2>1. UNCHANGED <<docs, editor, later>>
    BY <1>1 DEF SetEditSFC
  <2> QED  BY <1>1, <2>1 DEF TextOf, LinesOf, Blank, Empty
<1>2. CASE f # editor.sfc
  <2>1. docs' = Kept /\ editor' = Loaded(f) /\ later' = LaterWith(f)
    BY <1>2 DEF SetEditSFC
  <2>2. later' \subseteq Posts /\ "OnReloadLuaFunctions" \notin later'
    BY <2>1 DEF LaterWith, Posts
  <2>3. docs' \in [Files -> DocType]
    BY <2>1, KeptTexts
  <2>4. editor' \in EditorType /\ editor'.sfc = f /\ (f = None => editor'.text = Empty)
    BY <2>1, LoadedEditor
  <2>5. \A g \in Files : TextOf(g)' = TextOf(g)
    BY <1>2, <2>1, SwitchedTexts
  <2> QED  BY <2>2, <2>3, <2>4, <2>5
<1> QED  BY <1>1, <1>2

-----------------------------------------------------------------------------
(* Pages. *)

\* What a new source or page adds.
LEMMA Appended ==
  ASSUME NEW s \in Seq(Files), IsInjective(s), NEW f \in Files, f \notin ToSet(s)
  PROVE  /\ Append(s, f) \in Seq(Files) /\ IsInjective(Append(s, f))
         /\ ToSet(Append(s, f)) = ToSet(s) \cup {f}
<1> DEFINE n == Len(s)
<1> DEFINE a == Append(s, f)
<1>1. n \in Nat /\ DOMAIN s = 1..n /\ \A i \in 1..n : s[i] \in ToSet(s)
  BY DEF ToSet
<1> DEFINE m == n + 1
<1>2. /\ a \in Seq(Files) /\ DOMAIN a = 1..m
      /\ \A i \in 1..n : a[i] = s[i]
      /\ a[m] = f
  BY AppendProperties
<1> HIDE DEF a, n
<1>3. m \in Nat /\ \A i \in 1..m : i \in 1..n \/ i = m
  BY <1>1
<1>7. \A i \in 1..n : i \in 1..m
  BY <1>1
<1>8. m \in 1..m
  BY <1>1
<1> HIDE DEF m
<1>4. ASSUME NEW i \in 1..m, NEW j \in 1..m, a[i] = a[j] PROVE i = j
  <2>1. ASSUME i \in 1..n, j \in 1..n PROVE i = j
    BY <1>1, <1>2, <1>4, <2>1 DEF IsInjective
  <2>2. ASSUME NEW k \in 1..n PROVE a[k] # f
    BY <1>1, <1>2, <2>2
  <2> QED  BY Zenon, <1>2, <1>3, <1>4, <2>1, <2>2
<1>5. IsInjective(a)
  BY <1>2, <1>4 DEF IsInjective
<1>6. ToSet(a) = ToSet(s) \cup {f}
  <2>1. \A x \in ToSet(a) : x \in ToSet(s) \/ x = f
    BY Zenon, <1>1, <1>2, <1>3 DEF ToSet
  <2>2. \A x \in ToSet(s) : x \in ToSet(a)
    BY Zenon, <1>1, <1>2, <1>7 DEF ToSet
  <2>3. f \in ToSet(a)
    BY Zenon, <1>2, <1>8 DEF ToSet
  <2> QED  BY <2>1, <2>2, <2>3
<1> QED  BY <1>2, <1>5, <1>6 DEF a

\* A source gets a page unless it has one.
LEMMA PageAdded ==
  ASSUME tabs \in Seq(Files), IsInjective(tabs), NEW f \in Files
  PROVE  /\ AddPage(f) \in Seq(Files) /\ IsInjective(AddPage(f))
         /\ ToSet(AddPage(f)) = ToSet(tabs) \cup {f}
         /\ \E i \in DOMAIN AddPage(f) : AddPage(f)[i] = f
<1>1. CASE f \in ToSet(tabs)
  <2>1. AddPage(f) = tabs
    BY <1>1 DEF AddPage
  <2> QED  BY <1>1, <2>1 DEF ToSet
<1>2. CASE f \notin ToSet(tabs)
  <2>1. AddPage(f) = Append(tabs, f)
    BY <1>2 DEF AddPage
  <2>2. /\ Append(tabs, f) \in Seq(Files) /\ IsInjective(Append(tabs, f))
        /\ ToSet(Append(tabs, f)) = ToSet(tabs) \cup {f}
    BY <1>2, Appended
  <2>3. \E i \in DOMAIN Append(tabs, f) : Append(tabs, f)[i] = f
    BY Zenon, <2>2 DEF ToSet
  <2> QED  BY Zenon, <2>1, <2>2, <2>3
<1> QED  BY <1>1, <1>2

\* Whatever page comes to the front, the editor shows its source.
LEMMA PageKeeps ==
  ASSUME SourcesInv, Runs,
         tabs' \in Seq(Files), IsInjective(tabs'), selected' \in 0..Len(tabs'), ToSet(tabs') \subseteq Sources,
         NotifyPageChanged, UNCHANGED <<order, disk, bps, listed, rows, started>>, over' \in Ends
  PROVE  SourcesInv' /\ TextsStay
<1> DEFINE f == IF selected' = 0 THEN None ELSE tabs'[selected']
<1>1. f \in Files \cup {None}
  <2>1. selected' # 0 => selected' \in DOMAIN tabs'
    OBVIOUS
  <2>2. selected' # 0 => tabs'[selected'] \in Files
    BY <2>1
  <2> QED  BY <2>2
<1>2. SetEditSFC(f)
  BY Zenon DEF NotifyPageChanged
<1> HIDE DEF f
<1>3. /\ docs \in [Files -> DocType] /\ editor \in EditorType /\ bps \in SUBSET Marked /\ later \subseteq Posts
      /\ ("OnReloadLuaFunctions" \in later => editor.sfc # None)
      /\ (editor.sfc = None => editor.text = Empty)
  BY Running
<1>4. /\ docs' \in [Files -> DocType] /\ editor' \in EditorType /\ editor'.sfc = f
      /\ later' \subseteq Posts /\ ("OnReloadLuaFunctions" \in later' => editor'.sfc # None)
      /\ (editor'.sfc = None => editor'.text = Empty)
      /\ \A g \in Files : TextOf(g)' = TextOf(g)
  BY Zenon, <1>1, <1>2, <1>3, EditorSet
<1>5. /\ order \in Seq(Files) /\ IsInjective(order) /\ Sources \subseteq Files
      /\ disk \in [Files -> (Texts \ {Empty}) \cup {Gone}] /\ bps \in SUBSET Marked /\ started \in BOOLEAN
      /\ \A b \in bps : b[1] \in Sources \/ disk[b[1]] = Gone
      /\ listed = order /\ rows \in {<< >>, SortedBreakpoints(bps)}
  BY Running
<1>6. Sources' = Sources /\ order' = order /\ disk' = disk /\ bps' = bps /\ listed' = listed
      /\ rows' = rows /\ started' = started
  BY DEF Sources, ToSet
<1>7. SourcesInv'
  <2>1. editor'.sfc = IF selected' = 0 THEN None ELSE tabs'[selected']
    BY <1>4 DEF f
  <2>2. order' \in Seq(Files) /\ IsInjective(order') /\ disk' \in [Files -> (Texts \ {Empty}) \cup {Gone}]
        /\ bps' \in SUBSET Marked /\ started' \in BOOLEAN
    BY Zenon, <1>5, <1>6
  <2>3. \A b \in bps' : b[1] \in Sources' \/ disk'[b[1]] = Gone
    BY Zenon, <1>5, <1>6
  <2>4. listed' = order' /\ rows' \in {<< >>, SortedBreakpoints(bps')} /\ ToSet(tabs') \subseteq Sources'
    BY Zenon, <1>5, <1>6
  <2> QED  BY Zenon, <1>4, <2>1, <2>2, <2>3, <2>4, Stays
<1>8. TextsStay
  BY Zenon, <1>4, <1>5 DEF TextsStay
<1> QED  BY <1>7, <1>8

\* The end of the process leaves no source, page or breakpoint.
LEMMA AbortKeeps ==
  ASSUME SourcesInv, NEW how \in Ends, Abort(how)
  PROVE  SourcesInv' /\ TextsStay
<1>1. /\ over' = how /\ order' = << >> /\ tabs' = << >> /\ selected' = 0 /\ bps' = {}
      /\ docs' = [f \in Files |-> NoSFC]
      /\ editor' = [UnloadCurrentSFC EXCEPT !.dirty = FALSE, !.lock = FALSE]
      /\ listed' = << >> /\ rows' = << >> /\ later' = {} /\ started' = FALSE /\ disk' = disk
  BY DEF Abort
<1>2. editor \in EditorType /\ disk \in [Files -> (Texts \ {Empty}) \cup {Gone}]
  BY DEF SourcesInv, TypeOK, EditorType
<1>3. editor' \in EditorType /\ editor'.sfc = None /\ editor'.text = Empty
  BY <1>1, <1>2, Numbers DEF UnloadCurrentSFC, EditorType
<1>4. docs' \in [Files -> DocType]
  BY <1>1, Numbers DEF NoSFC, DocType
<1>5. << >> \in Seq(Files) /\ IsInjective(<< >>) /\ ToSet(<< >>) = {} /\ 0 \in 0..Len(<< >>)
  BY DEF IsInjective, ToSet
<1>6. Sources' = {}
  BY Zenon, <1>1, <1>5 DEF Sources
<1>7. SourcesInv'
  <2>1. order' \in Seq(Files) /\ IsInjective(order') /\ tabs' \in Seq(Files) /\ IsInjective(tabs')
        /\ selected' \in 0..Len(tabs') /\ ToSet(tabs') \subseteq Sources'
    BY Zenon, <1>1, <1>5, <1>6
  <2>2. disk' \in [Files -> (Texts \ {Empty}) \cup {Gone}] /\ bps' \in SUBSET Marked /\ later' \subseteq Posts
        /\ started' \in BOOLEAN /\ over' \in Ends
    BY <1>1, <1>2
  <2>3. /\ editor'.sfc = IF selected' = 0 THEN None ELSE tabs'[selected']
        /\ "OnReloadLuaFunctions" \in later' => editor'.sfc # None
        /\ \A b \in bps' : b[1] \in Sources' \/ disk'[b[1]] = Gone
        /\ listed' = order' /\ rows' \in {<< >>, SortedBreakpoints(bps')}
    BY <1>1, <1>3
  <2> QED  BY Zenon, <1>3, <1>4, <2>1, <2>2, <2>3, Stays
<1>8. TextsStay
  BY <1>6 DEF TextsStay
<1> QED  BY <1>7, <1>8

\* What the lists show when all is drawn again.
LEMMA Refreshed ==
  ASSUME BroadcastProjectRefresh
  PROVE  listed' = order' /\ rows' \in {<< >>, SortedBreakpoints(bps')} /\ over' \in Ends
BY DEF BroadcastProjectRefresh, Redraw, Ends

\* A file dropped on the window is a source more.
LEMMA DropKeeps ==
  ASSUME SourcesInv, NEW f \in Files, OnDroppedFiles(f)
  PROVE  SourcesInv' /\ TextsStay
<1>1. Runs /\ disk[f] # Gone /\ UNCHANGED <<disk, tabs, selected, editor, bps, later, started>>
      /\ BroadcastProjectRefresh
      /\ IF f \in Sources THEN UNCHANGED <<order, docs>> ELSE NewSFC(f)
  BY DEF OnDroppedFiles, UserEvent, Runs, HasDoppleganger
<1>2. /\ order \in Seq(Files) /\ IsInjective(order) /\ Sources \subseteq Files
      /\ docs \in [Files -> DocType] /\ disk \in [Files -> (Texts \ {Empty}) \cup {Gone}]
      /\ tabs \in Seq(Files) /\ IsInjective(tabs) /\ selected \in 0..Len(tabs)
      /\ editor \in EditorType /\ bps \in SUBSET Marked /\ later \subseteq Posts /\ started \in BOOLEAN
      /\ ToSet(tabs) \subseteq Sources
      /\ editor.sfc = IF selected = 0 THEN None ELSE tabs[selected]
      /\ "OnReloadLuaFunctions" \in later => editor.sfc # None
      /\ \A b \in bps : b[1] \in Sources \/ disk[b[1]] = Gone
      /\ editor.sfc = None => editor.text = Empty
  BY Zenon, <1>1, Running
<1>3. /\ order' \in Seq(Files) /\ IsInjective(order') /\ Sources \subseteq Sources'
      /\ docs' \in [Files -> DocType] /\ \A g \in Sources : docs'[g] = docs[g]
  <2>1. CASE f \in Sources
    <3>1. order' = order /\ docs' = docs
      BY <1>1, <2>1
    <3> QED  BY Zenon, <1>2, <3>1 DEF Sources
  <2>2. CASE f \notin Sources
    <3>1. order' = Append(order, f) /\ docs' = [docs EXCEPT ![f] = Fresh(f)]
      BY <1>1, <2>2 DEF NewSFC
    <3>2. /\ Append(order, f) \in Seq(Files) /\ IsInjective(Append(order, f))
          /\ ToSet(Append(order, f)) = ToSet(order) \cup {f}
      BY Zenon, <1>2, <2>2, Appended DEF Sources
    <3>3. Sources \subseteq Sources'
      BY Zenon, <3>1, <3>2 DEF Sources
    <3>4. Fresh(f) \in DocType
      <4>1. disk[f] \in Texts \ {Empty}
        BY <1>1, <1>2
      <4> QED  BY <4>1 DEF Fresh, Load, DocType
    <3>5. docs' \in [Files -> DocType] /\ \A g \in Sources : docs'[g] = docs[g]
      BY <1>2, <2>2, <3>1, <3>4
    <3> QED  BY Zenon, <3>1, <3>2, <3>3, <3>5
  <2> QED  BY <2>1, <2>2
<1>4. /\ disk' = disk /\ tabs' = tabs /\ selected' = selected /\ editor' = editor /\ bps' = bps
      /\ later' = later /\ started' = started
  BY <1>1
<1>5. SourcesInv'
  <2>1. listed' = order' /\ rows' \in {<< >>, SortedBreakpoints(bps')} /\ over' \in Ends
    BY <1>1, Refreshed
  <2>2. ToSet(tabs') \subseteq Sources' /\ \A b \in bps' : b[1] \in Sources' \/ disk'[b[1]] = Gone
    BY <1>2, <1>3, <1>4
  <2>3. /\ tabs' \in Seq(Files) /\ IsInjective(tabs') /\ selected' \in 0..Len(tabs')
        /\ editor' \in EditorType /\ bps' \in SUBSET Marked /\ later' \subseteq Posts /\ started' \in BOOLEAN
        /\ disk' \in [Files -> (Texts \ {Empty}) \cup {Gone}]
        /\ editor'.sfc = IF selected' = 0 THEN None ELSE tabs'[selected']
        /\ "OnReloadLuaFunctions" \in later' => editor'.sfc # None
        /\ editor'.sfc = None => editor'.text = Empty
    BY Zenon, <1>2, <1>4
  <2> QED  BY Zenon, <1>3, <2>1, <2>2, <2>3, Stays
<1>6. TextsStay
  <2>1. \A g \in Sources : TextOf(g)' = TextOf(g)
    BY Zenon, <1>3, <1>4 DEF TextOf, LinesOf, Blank, Empty
  <2> QED  BY Zenon, <2>1 DEF TextsStay
<1> QED  BY <1>5, <1>6

\* A source comes to the front, with a page of its own.
LEMMA ShowKeeps ==
  ASSUME SourcesInv, NEW f \in Sources, ShowNotebookPage(f)
  PROVE  SourcesInv' /\ TextsStay
<1>1. /\ Runs /\ tabs' = AddPage(f) /\ NotifyPageChanged
      /\ selected' = CHOOSE i \in DOMAIN tabs' : tabs'[i] = f
      /\ UNCHANGED <<order, disk, bps, listed, rows, started>>
  BY DEF ShowNotebookPage, ShowSFC, UserEvent, Runs
<1>2. over' \in Ends
  BY DEF ShowNotebookPage, Ends
<1>3. tabs \in Seq(Files) /\ IsInjective(tabs) /\ ToSet(tabs) \subseteq Sources /\ Sources \subseteq Files
  BY Zenon, <1>1, Running
<1>4. /\ AddPage(f) \in Seq(Files) /\ IsInjective(AddPage(f))
      /\ ToSet(AddPage(f)) = ToSet(tabs) \cup {f}
      /\ \E i \in DOMAIN AddPage(f) : AddPage(f)[i] = f
  BY Zenon, <1>3, PageAdded
<1>5. tabs' \in Seq(Files) /\ IsInjective(tabs') /\ ToSet(tabs') \subseteq Sources
  BY Zenon, <1>1, <1>3, <1>4
<1>6. selected' \in DOMAIN tabs'
  BY Zenon, <1>1, <1>4
<1>7. selected' \in 0..Len(tabs')
  <2>1. DOMAIN tabs' = 1..Len(tabs') /\ Len(tabs') \in Nat
    BY <1>5
  <2> QED  BY <1>6, <2>1
<1> QED  BY Zenon, <1>1, <1>2, <1>5, <1>7, PageKeeps

\* So do a double click in the project list and in the breakpoint list.
LEMMA ActivatedKeeps ==
  ASSUME SourcesInv, NEW row \in DOMAIN listed, OnItemActivated(row)
  PROVE  SourcesInv' /\ TextsStay
<1>1. ShowNotebookPage(order[row])
  BY DEF OnItemActivated, GetNthSFC
<1>2. listed = order
  <2>1. Runs
    BY <1>1 DEF ShowNotebookPage, UserEvent, Runs
  <2> QED  BY Zenon, <2>1, Running
<1>3. order[row] \in Sources
  BY Zenon, <1>2 DEF Sources, ToSet
<1> QED  BY <1>1, <1>3, ShowKeeps

LocationOf(row) == GetSFC(rows[row][1])
\* A breakpoint whose source is not there ends the client.
LEMMA LocationKeeps ==
  ASSUME SourcesInv, NEW row, OnShowLocation(row)
  PROVE  SourcesInv' /\ TextsStay
<1> DEFINE f == LocationOf(row)
<1>1. IF f = None THEN UserEvent /\ Abort("assert(sfc)") ELSE ShowNotebookPage(f)
  BY DEF OnShowLocation, LocationOf
<1>2. f # None => f \in Sources
  BY DEF GetSFC, LocationOf
<1> HIDE DEF f
<1>3. "assert(sfc)" \in Ends
  BY DEF Ends
<1>4. CASE f = None
  BY <1>1, <1>3, <1>4, AbortKeeps
<1>5. CASE f # None
  BY <1>1, <1>2, <1>5, ShowKeeps
<1> QED  BY <1>4, <1>5

\* The page selected once another has gone is one of those left, or there is none.
LEMMA NextSelected ==
  ASSUME tabs \in Seq(Files), IsInjective(tabs), selected \in 0..Len(tabs), NEW i \in DOMAIN tabs
  PROVE  /\ RemoveAt(tabs, i) \in Seq(Files) /\ IsInjective(RemoveAt(tabs, i))
         /\ \A x \in ToSet(RemoveAt(tabs, i)) : x \in ToSet(tabs) /\ x # tabs[i]
         /\ SelectedWithout(i) \in 0..Len(RemoveAt(tabs, i))
<1>1. i \in 1..Len(tabs) /\ Len(tabs) \in Nat
  OBVIOUS
<1>2. /\ RemoveAt(tabs, i) \in Seq(Files) /\ IsInjective(RemoveAt(tabs, i))
      /\ Len(RemoveAt(tabs, i)) = Len(tabs) - 1
      /\ \A x \in ToSet(RemoveAt(tabs, i)) : x \in ToSet(tabs) /\ x # tabs[i]
  BY Zenon, <1>1, PageTakenOut
<1>3. SelectedWithout(i) \in 0..(Len(tabs) - 1)
  BY <1>1 DEF SelectedWithout
<1> QED  BY Zenon, <1>2, <1>3

\* A tab is selected or closed.
LEMMA ClickKeeps ==
  ASSUME SourcesInv, NEW i \in DOMAIN tabs, ClickTab(i)
  PROVE  SourcesInv' /\ TextsStay
<1>1. /\ Runs /\ NotifyPageChanged /\ UNCHANGED <<order, disk, bps, listed, rows, started>> /\ over' = over
      /\ (selected' = i /\ tabs' = tabs) \/ (tabs' = RemoveAt(tabs, i) /\ selected' = SelectedWithout(i))
  BY DEF ClickTab, UserEvent, Runs
<1>2. tabs \in Seq(Files) /\ IsInjective(tabs) /\ selected \in 0..Len(tabs) /\ ToSet(tabs) \subseteq Sources
  BY Zenon, <1>1, Running
<1>3. over' \in Ends
  BY <1>1 DEF Runs, Ends
<1>4. /\ RemoveAt(tabs, i) \in Seq(Files) /\ IsInjective(RemoveAt(tabs, i))
      /\ \A x \in ToSet(RemoveAt(tabs, i)) : x \in ToSet(tabs) /\ x # tabs[i]
      /\ SelectedWithout(i) \in 0..Len(RemoveAt(tabs, i))
  BY Zenon, <1>2, NextSelected
<1>5. i \in 0..Len(tabs)
  <2>1. i \in 1..Len(tabs) /\ Len(tabs) \in Nat
    BY <1>2
  <2> QED  BY <2>1
<1>6. tabs' \in Seq(Files) /\ IsInjective(tabs') /\ selected' \in 0..Len(tabs')
  BY Zenon, <1>1, <1>2, <1>4, <1>5
<1>7. ToSet(tabs') \subseteq Sources
  BY Zenon, <1>1, <1>2, <1>4
<1> QED  BY Zenon, <1>1, <1>3, <1>6, <1>7, PageKeeps

\* Any of the tabs are closed.
LEMMA HideKeeps ==
  ASSUME SourcesInv, HideAllSFCs
  PROVE  SourcesInv' /\ TextsStay
<1>1. CASE Abort("erased iterator")
  BY <1>1, AbortKeeps DEF Ends
<1>2. ASSUME NEW closed, tabs' = Those(tabs, Files \ closed),
             \/ tabs' = << >> /\ selected' = 0
             \/ selected' \in DOMAIN tabs',
             NotifyPageChanged, UNCHANGED <<order, disk, bps, listed, rows, started>>, over' = over, Runs
      PROVE  SourcesInv' /\ TextsStay
  <2>1. tabs \in Seq(Files) /\ IsInjective(tabs) /\ ToSet(tabs) \subseteq Sources
    BY Zenon, <1>2, Running
  <2>2. tabs' \in Seq(Files) /\ IsInjective(tabs') /\ ToSet(tabs') = ToSet(tabs) \cap (Files \ closed)
    BY Zenon, <1>2, <2>1, ThoseOfList
  <2>3. ToSet(tabs') \subseteq Sources
    BY <2>1, <2>2
  <2>4. selected' \in 0..Len(tabs')
    <3>1. DOMAIN tabs' = 1..Len(tabs') /\ Len(tabs') \in Nat
      BY <2>2
    <3> QED  BY <1>2, <3>1
  <2>5. over' \in Ends
    BY <1>2 DEF Runs, Ends
  <2> QED  BY Zenon, <1>2, <2>2, <2>3, <2>4, <2>5, PageKeeps
<1> QED  BY <1>1, <1>2 DEF HideAllSFCs, UserEvent, Runs

-----------------------------------------------------------------------------
(* Sources deleted and loaded. *)

\* With a source go its page, its text and its breakpoints; the editor shows what is
\* selected now.
LEMMA DeletedKeeps ==
  ASSUME SourcesInv, Runs, NEW f \in Sources, NEW next \in Files \cup {None}, next # f,
         tabs' \in Seq(Files), IsInjective(tabs'), selected' \in 0..Len(tabs'),
         \A x \in ToSet(tabs') : x \in Sources /\ x # f,
         next = IF selected' = 0 THEN None ELSE tabs'[selected'],
         docs' = [(IF next = editor.sfc THEN docs ELSE Kept) EXCEPT ![f] = NoSFC],
         editor' = IF next = editor.sfc THEN editor ELSE Loaded(next),
         later' = {"Redraw"} \cup IF next = editor.sfc THEN later ELSE LaterWith(next),
         DeleteSFC(f), UNCHANGED <<disk, started>>, BroadcastProjectRefresh
  PROVE  SourcesInv' /\ TextsStay
<1>1. /\ order \in Seq(Files) /\ IsInjective(order) /\ Sources \subseteq Files
      /\ docs \in [Files -> DocType] /\ disk \in [Files -> (Texts \ {Empty}) \cup {Gone}]
      /\ editor \in EditorType /\ bps \in SUBSET Marked /\ later \subseteq Posts /\ started \in BOOLEAN
      /\ "OnReloadLuaFunctions" \in later => editor.sfc # None
      /\ \A b \in bps : b[1] \in Sources \/ disk[b[1]] = Gone
      /\ editor.sfc = None => editor.text = Empty
  BY Zenon, Running
<1>2. f \in Files
  BY <1>1
<1>3. order' = Those(order, Files \ {f}) /\ bps' = {b \in bps : b[1] # f}
  BY DEF DeleteSFC, BreakpointsWithout
<1>4. order' \in Seq(Files) /\ IsInjective(order') /\ ToSet(order') = ToSet(order) \cap (Files \ {f})
  BY Zenon, <1>1, <1>3, ThoseOfList
<1>5. \A x : x \in Sources' <=> x \in Sources /\ x # f
  <2>1. Sources' = Sources \cap (Files \ {f})
    BY Zenon, <1>4 DEF Sources
  <2> QED  BY <1>1, <2>1
<1>6. Kept \in [Files -> DocType]
  BY <1>1, KeptTexts
<1> DEFINE d == IF next = editor.sfc THEN docs ELSE Kept
<1>7. d \in [Files -> DocType]
  BY Zenon, <1>1, <1>6
<1>8. docs' = [d EXCEPT ![f] = NoSFC]
  BY Zenon
<1>9. NoSFC \in DocType
  BY Numbers DEF NoSFC, DocType
<1> HIDE DEF d
<1>10. docs' \in [Files -> DocType] /\ \A g \in Files : g # f => docs'[g] = d[g]
  BY <1>2, <1>7, <1>8, <1>9
<1>11. /\ Loaded(next) \in EditorType /\ Loaded(next).sfc = next
       /\ Loaded(next).text = IF next = None THEN Empty ELSE docs[next].text
  BY Zenon, <1>1, LoadedEditor
<1>12. editor' \in EditorType /\ editor'.sfc = next /\ (editor'.sfc = None => editor'.text = Empty)
  BY Zenon, <1>1, <1>11
<1>13. later' \subseteq Posts /\ ("OnReloadLuaFunctions" \in later' => editor'.sfc # None)
  <2>1. CASE next = editor.sfc
    <3>1. later' = {"Redraw"} \cup later
      BY Zenon, <2>1
    <3> QED  BY <1>1, <1>12, <2>1, <3>1 DEF Posts
  <2>2. CASE next # editor.sfc
    <3>1. later' = {"Redraw"} \cup LaterWith(next)
      BY Zenon, <2>2
    <3> QED  BY <1>1, <3>1 DEF Posts, LaterWith
  <2> QED  BY <2>1, <2>2
<1>14. SourcesInv'
  <2>1. listed' = order' /\ rows' \in {<< >>, SortedBreakpoints(bps')} /\ over' \in Ends
    BY Refreshed
  <2>2. disk' = disk /\ started' = started
    OBVIOUS
  <2>3. disk' \in [Files -> (Texts \ {Empty}) \cup {Gone}] /\ started' \in BOOLEAN
    BY Zenon, <1>1, <2>2
  <2>4. bps' \in SUBSET Marked /\ \A b \in bps' : b[1] \in Sources' \/ disk'[b[1]] = Gone
    BY <1>1, <1>3, <1>5, <2>2
  <2>5. ToSet(tabs') \subseteq Sources'
    BY Zenon, <1>5
  <2>6. editor'.sfc = IF selected' = 0 THEN None ELSE tabs'[selected']
    BY Zenon, <1>12
  <2> QED  BY Zenon, <1>4, <1>10, <1>12, <1>13, <2>1, <2>3, <2>4, <2>5, <2>6, Stays
<1>15. ASSUME NEW g \in Sources, g \in Sources' PROVE TextOf(g)' = TextOf(g)
  <2>1. g \in Files /\ g # f
    BY <1>1, <1>5, <1>15
  <2>2. docs'[g] = d[g]
    BY <1>10, <2>1
  <2>3. CASE next = editor.sfc
    <3>1. editor' = editor /\ docs'[g].text = docs[g].text
      BY Zenon, <2>2, <2>3 DEF d
    <3>2. TextOf(g)' = LinesOf(IF editor'.sfc = g THEN editor'.text ELSE docs'[g].text)
      BY DEF TextOf, LinesOf, Blank, Empty
    <3> QED  BY Zenon, <3>1, <3>2 DEF TextOf
  <2>4. CASE next # editor.sfc
    <3>1. editor' = Loaded(next) /\ docs'[g].text = Kept[g].text
      BY Zenon, <2>2, <2>4 DEF d
    <3> QED  BY Zenon, <1>1, <2>1, <2>4, <3>1, SwitchedTexts
  <2> QED  BY <2>3, <2>4
<1>16. TextsStay
  BY Zenon, <1>15 DEF TextsStay
<1> QED  BY <1>14, <1>16

\* A source deleted, whether it has a page, which may be selected, or none.
LEMMA DestroyKeeps ==
  ASSUME SourcesInv, Runs, NEW f \in Sources, DestroySFC(f)
  PROVE  SourcesInv' /\ TextsStay
<1> DEFINE shown == f \in ToSet(tabs)
<1> DEFINE i == CHOOSE j \in DOMAIN tabs : tabs[j] = f
<1> DEFINE next == IF shown THEN SourceWithout(i) ELSE editor.sfc
<1>1. /\ tabs' = IF shown THEN RemoveAt(tabs, i) ELSE tabs
      /\ selected' = IF shown THEN SelectedWithout(i) ELSE selected
      /\ docs' = [(IF next = editor.sfc THEN docs ELSE Kept) EXCEPT ![f] = NoSFC]
      /\ editor' = IF next = editor.sfc THEN editor ELSE Loaded(next)
      /\ later' = {"Redraw"} \cup IF next = editor.sfc THEN later ELSE LaterWith(next)
      /\ DeleteSFC(f) /\ UNCHANGED <<disk, started>> /\ BroadcastProjectRefresh
  BY Zenon DEF DestroySFC
<1>2. /\ tabs \in Seq(Files) /\ IsInjective(tabs) /\ selected \in 0..Len(tabs)
      /\ ToSet(tabs) \subseteq Sources /\ Sources \subseteq Files /\ editor \in EditorType
      /\ editor.sfc = IF selected = 0 THEN None ELSE tabs[selected]
      /\ (editor.sfc # None => editor.sfc \in ToSet(tabs))
  BY Zenon, Running
<1>3. f \in Files /\ f # None
  BY <1>2, Numbers
<1>4. CASE shown
  <2>1. i \in DOMAIN tabs /\ tabs[i] = f
    BY Zenon, <1>4 DEF ToSet
  <2> HIDE DEF i
  <2>2. /\ RemoveAt(tabs, i) \in Seq(Files) /\ IsInjective(RemoveAt(tabs, i))
        /\ \A x \in ToSet(RemoveAt(tabs, i)) : x \in ToSet(tabs) /\ x # f
        /\ SelectedWithout(i) \in 0..Len(RemoveAt(tabs, i))
    BY Zenon, <1>2, <2>1, NextSelected
  <2>3. tabs' = RemoveAt(tabs, i) /\ selected' = SelectedWithout(i) /\ next = SourceWithout(i)
    BY Zenon, <1>1, <1>4
  <2> HIDE DEF next
  <2>4. tabs' \in Seq(Files) /\ IsInjective(tabs') /\ selected' \in 0..Len(tabs')
    BY Zenon, <2>2, <2>3
  <2>5. \A x \in ToSet(tabs') : x \in Sources /\ x # f
    BY Zenon, <1>2, <2>2, <2>3
  <2>6. next = IF selected' = 0 THEN None ELSE tabs'[selected']
    BY Zenon, <2>3 DEF SourceWithout
  <2>7. selected' # 0 => selected' \in DOMAIN tabs'
    <3>1. DOMAIN tabs' = 1..Len(tabs') /\ Len(tabs') \in Nat
      BY <2>4
    <3> QED  BY <2>4, <3>1
  <2>8. next \in Files \cup {None} /\ next # f
    <3>1. CASE selected' = 0
      BY <1>3, <2>6, <3>1
    <3>2. CASE selected' # 0
      <4>1. next = tabs'[selected'] /\ selected' \in DOMAIN tabs'
        BY Zenon, <2>6, <2>7, <3>2
      <4>2. next \in ToSet(tabs')
        BY Zenon, <4>1 DEF ToSet
      <4> QED  BY <1>2, <2>5, <4>2
    <3> QED  BY <3>1, <3>2
  <2> QED  BY Zenon, <1>1, <2>4, <2>5, <2>6, <2>8, DeletedKeeps
<1>5. CASE ~shown
  <2>1. tabs' = tabs /\ selected' = selected /\ next = editor.sfc
    BY Zenon, <1>1, <1>5
  <2> HIDE DEF i
  <2>2. next \in Files \cup {None} /\ next # f
    <3>1. editor.sfc \in Files \cup {None}
      BY <1>2 DEF EditorType
    <3>2. editor.sfc # f
      BY <1>2, <1>3, <1>5
    <3> QED  BY Zenon, <2>1, <3>1, <3>2
  <2> HIDE DEF next
  <2>3. tabs' \in Seq(Files) /\ IsInjective(tabs') /\ selected' \in 0..Len(tabs')
    BY Zenon, <1>2, <2>1
  <2>4. \A x \in ToSet(tabs') : x \in Sources /\ x # f
    BY Zenon, <1>2, <1>5, <2>1
  <2>5. next = IF selected' = 0 THEN None ELSE tabs'[selected']
    BY Zenon, <1>2, <2>1
  <2> QED  BY Zenon, <1>1, <2>2, <2>3, <2>4, <2>5, DeletedKeeps
<1> QED  BY <1>4, <1>5

\* The delete key in the project list.
LEMMA KeyKeeps ==
  ASSUME SourcesInv, NEW row \in DOMAIN listed, OnKeyDown(row)
  PROVE  SourcesInv' /\ TextsStay
<1>1. Runs /\ (DestroySFC(order[row]) \/ Abort("assert(it)"))
  BY DEF OnKeyDown, UserEvent, Runs, GetNthSFC
<1>2. order[row] \in Sources
  <2>1. listed = order
    BY Zenon, <1>1, Running
  <2> QED  BY Zenon, <2>1 DEF Sources, ToSet
<1>3. CASE Abort("assert(it)")
  BY <1>3, AbortKeeps DEF Ends
<1> QED  BY <1>1, <1>2, <1>3, DestroyKeeps

\* All pages gone and the sources of another project in, with its breakpoints.
LEMMA ReplacedKeeps ==
  ASSUME SourcesInv, Runs, DestroyAllSFCs, order' \in Seq(Files), IsInjective(order'),
         bps' \in SUBSET Marked, \A b \in bps' : b[1] \in Sources' \/ disk[b[1]] = Gone,
         docs' \in [Files -> DocType], \A g \in Sources' : docs'[g].text = disk[g] /\ disk[g] # Gone,
         UNCHANGED <<disk, started>>, BroadcastProjectRefresh
  PROVE  SourcesInv' /\ TextsStay
<1>1. /\ docs \in [Files -> DocType] /\ disk \in [Files -> (Texts \ {Empty}) \cup {Gone}]
      /\ editor \in EditorType /\ bps \in SUBSET Marked /\ later \subseteq Posts /\ started \in BOOLEAN
      /\ Sources \subseteq Files
  BY Zenon, Running
<1>2. /\ tabs' = << >> /\ selected' = 0 /\ editor' = Loaded(None)
      /\ later' \subseteq LaterWith(None) \cup {"ReloadStylCache"}
  BY DEF DestroyAllSFCs
<1>3. Loaded(None) \in EditorType /\ Loaded(None).sfc = None /\ Loaded(None).text = Empty
  BY <1>1, LoadedEditor
<1>4. later' \subseteq Posts /\ "OnReloadLuaFunctions" \notin later'
  BY <1>1, <1>2 DEF LaterWith, Posts
<1>5. << >> \in Seq(Files) /\ IsInjective(<< >>) /\ ToSet(<< >>) = {} /\ 0 \in 0..Len(<< >>)
  BY DEF IsInjective, ToSet
<1>6. tabs' \in Seq(Files) /\ IsInjective(tabs') /\ selected' \in 0..Len(tabs') /\ ToSet(tabs') \subseteq Sources'
  <2>1. ToSet(tabs') = {}
    BY Zenon, <1>2, <1>5
  <2> QED  BY Zenon, <1>2, <1>5, <2>1
<1>7. editor' \in EditorType /\ editor'.sfc = None /\ editor'.text = Empty
  BY Zenon, <1>2, <1>3
<1>8. SourcesInv'
  <2>1. listed' = order' /\ rows' \in {<< >>, SortedBreakpoints(bps')} /\ over' \in Ends
    BY Refreshed
  <2>2. disk' = disk /\ started' = started
    OBVIOUS
  <2>3. /\ disk' \in [Files -> (Texts \ {Empty}) \cup {Gone}] /\ started' \in BOOLEAN
        /\ \A b \in bps' : b[1] \in Sources' \/ disk'[b[1]] = Gone
    BY Zenon, <1>1, <2>2
  <2>4. editor'.sfc = IF selected' = 0 THEN None ELSE tabs'[selected']
    BY Zenon, <1>2, <1>7
  <2> QED  BY Zenon, <1>4, <1>6, <1>7, <2>1, <2>3, <2>4, Stays
<1>9. ASSUME NEW g \in Sources, g \in Sources' PROVE TextOf(g)' = disk[g]
  <2>1. g \in Files /\ g # None
    BY <1>1, Numbers
  <2>2. docs'[g].text = disk[g] /\ disk[g] \in Texts \ {Empty}
    BY <1>1, <1>9, <2>1
  <2>3. TextOf(g)' = LinesOf(docs'[g].text)
    BY <1>7, <2>1 DEF TextOf, LinesOf, Blank, Empty
  <2> QED  BY <2>2, <2>3, Numbers
<1>10. TextsStay
  BY Zenon, <1>2, <1>9 DEF TextsStay
<1> QED  BY <1>8, <1>10

\* The project is reset.
LEMMA ResetKeeps ==
  ASSUME SourcesInv, ResetProject
  PROVE  SourcesInv' /\ TextsStay
<1>1. CASE DestroyAllSFCsFails
  BY <1>1, AbortKeeps DEF DestroyAllSFCsFails, Ends
<1>2. CASE /\ Runs /\ DestroyAllSFCs /\ order' = << >> /\ bps' = {}
           /\ docs' = [f \in Files |-> NoSFC]
           /\ UNCHANGED <<disk, started>> /\ BroadcastProjectRefresh
  <2>1. docs' \in [Files -> DocType]
    BY <1>2, Numbers DEF NoSFC, DocType
  <2>2. << >> \in Seq(Files) /\ IsInjective(<< >>) /\ ToSet(<< >>) = {}
    BY DEF IsInjective, ToSet
  <2>3. order' \in Seq(Files) /\ IsInjective(order') /\ Sources' = {}
    BY Zenon, <1>2, <2>2 DEF Sources
  <2>4. /\ bps' \in SUBSET Marked /\ \A b \in bps' : b[1] \in Sources' \/ disk[b[1]] = Gone
        /\ \A g \in Sources' : docs'[g].text = disk[g] /\ disk[g] # Gone
    BY <1>2, <2>3
  <2> QED  BY Zenon, <1>2, <2>1, <2>3, <2>4, ReplacedKeeps
<1> QED  BY <1>1, <1>2 DEF ResetProject, UserEvent, Runs

\* A project is loaded, but for the sources whose files are gone.
LEMMA LoadKeeps ==
  ASSUME SourcesInv, NEW files \in SUBSET Files, NEW loaded \in SUBSET (Files \X Lines),
         LoadProject(files, loaded)
  PROVE  SourcesInv' /\ TextsStay
<1> DEFINE present == {f \in files : disk[f] # Gone}
<1>1. /\ Runs /\ DestroyAllSFCs
      /\ \A b \in loaded : b[1] \in files \/ disk[b[1]] = Gone
      /\ docs' = [f \in Files |-> IF f \in present THEN Fresh(f) ELSE NoSFC]
      /\ bps' = loaded /\ UNCHANGED <<disk, started>>
      /\ order' = Ascending(present) /\ BroadcastProjectRefresh
  BY Zenon DEF LoadProject, UserEvent, Runs, SetLoadedBreakpoints, LoadProjectDone
<1>2. \A f \in present : f \in Files /\ disk[f] # Gone
  OBVIOUS
<1>3. \A f \in files : f \in present \/ disk[f] = Gone
  OBVIOUS
<1> HIDE DEF present
<1>4. present \in SUBSET Nat /\ IsFiniteSet(present)
  <2>1. Files \subseteq Nat
    <3>1. Cardinality(Files) \in Nat
      BY FilesAssumption, FS_CardinalityType
    <3>2. 1..Cardinality(Files) \subseteq Nat
      BY <3>1
    <3> QED  BY <3>2, FilesAssumption
  <2>2. present \in SUBSET Files
    BY <1>2
  <2>3. IsFiniteSet(present)
    BY <2>2, FilesAssumption, FS_Subset
  <2> QED  BY <2>1, <2>2, <2>3
<1> DEFINE c == Cardinality(present)
<1>5. /\ c \in Nat /\ Ascending(present) \in [1..c -> present]
      /\ \A k, l \in 1..c : k < l => Ascending(present)[k] < Ascending(present)[l]
      /\ \A x \in present : \E k \in 1..c : Ascending(present)[k] = x
  BY Zenon, <1>4, AscendingNumbers
<1> HIDE DEF c
<1>6. order' \in [1..c -> present] /\ (\A k, l \in 1..c : k < l => order'[k] < order'[l])
      /\ \A x \in present : \E k \in 1..c : order'[k] = x
  BY Zenon, <1>1, <1>5
<1>7. order' \in Seq(Files)
  BY <1>2, <1>5, <1>6
<1>8. IsInjective(order')
  <2>1. ASSUME NEW k \in 1..c, NEW l \in 1..c, order'[k] = order'[l] PROVE k = l
    <3>1. order'[k] \in Nat
      BY <1>4, <1>6
    <3>2. ~(k < l) /\ ~(l < k)
      BY <1>6, <2>1, <3>1
    <3> QED  BY <1>5, <3>2
  <2>2. DOMAIN order' = 1..c
    BY <1>6
  <2> QED  BY Zenon, <2>1, <2>2 DEF IsInjective
<1>9. Sources' = present
  <2>1. Sources' = {order'[k] : k \in 1..c}
    BY <1>6 DEF Sources, ToSet
  <2> QED  BY <1>6, <2>1
<1>10. disk \in [Files -> (Texts \ {Empty}) \cup {Gone}]
  BY Zenon, <1>1, Running
<1>11. ASSUME NEW f \in Files
       PROVE  docs'[f] \in DocType /\ (f \in present => docs'[f].text = disk[f])
  <2>1. CASE f \in present
    <3>1. docs'[f] = Fresh(f) /\ disk[f] \in Texts \ {Empty}
      BY <1>1, <1>2, <1>10, <2>1
    <3> QED  BY <3>1 DEF Fresh, Load, DocType
  <2>2. CASE f \notin present
    <3>1. docs'[f] = NoSFC
      BY <1>1, <2>2
    <3> QED  BY <2>2, <3>1, Numbers DEF NoSFC, DocType
  <2> QED  BY <2>1, <2>2
<1>12. docs' \in [Files -> DocType]
  <2>1. docs' = [f \in Files |-> docs'[f]]
    BY Zenon, <1>1
  <2> QED  BY <1>11, <2>1
<1>13. \A g \in Sources' : docs'[g].text = disk[g] /\ disk[g] # Gone
  BY Zenon, <1>2, <1>9, <1>11
<1>14. bps' \in SUBSET Marked /\ \A b \in bps' : b[1] \in Sources' \/ disk[b[1]] = Gone
  BY Zenon, <1>1, <1>3, <1>9 DEF Marked
<1> QED  BY Zenon, <1>1, <1>7, <1>8, <1>12, <1>13, <1>14, ReplacedKeeps

-----------------------------------------------------------------------------
(* The editor, the breakpoints and the session. *)

\* Where sources and pages stay as they are.
LEMMA QuietKeeps ==
  ASSUME SourcesInv, Runs, UNCHANGED <<order, tabs, selected>>,
         docs' \in [Files -> DocType], disk' \in [Files -> (Texts \ {Empty}) \cup {Gone}],
         editor' \in EditorType, editor'.sfc = editor.sfc, editor'.sfc = None => editor'.text = Empty,
         later' \subseteq Posts, "OnReloadLuaFunctions" \in later' => editor'.sfc # None,
         started' \in BOOLEAN, over' \in Ends,
         bps' \in SUBSET Marked, \A b \in bps' : b[1] \in Sources \/ disk'[b[1]] = Gone,
         listed' = order', rows' \in {<< >>, SortedBreakpoints(bps')}
  PROVE  SourcesInv'
<1>1. /\ order \in Seq(Files) /\ IsInjective(order)
      /\ tabs \in Seq(Files) /\ IsInjective(tabs) /\ selected \in 0..Len(tabs)
      /\ ToSet(tabs) \subseteq Sources
      /\ editor.sfc = IF selected = 0 THEN None ELSE tabs[selected]
  BY Zenon, Running
<1>2. order' = order /\ tabs' = tabs /\ selected' = selected
  OBVIOUS
<1>3. Sources' = Sources
  BY Zenon, <1>2 DEF Sources
<1>4. /\ order' \in Seq(Files) /\ IsInjective(order')
      /\ tabs' \in Seq(Files) /\ IsInjective(tabs') /\ selected' \in 0..Len(tabs')
      /\ ToSet(tabs') \subseteq Sources'
  BY Zenon, <1>1, <1>2, <1>3
<1>5. editor'.sfc = IF selected' = 0 THEN None ELSE tabs'[selected']
  BY Zenon, <1>1, <1>2
<1>6. \A b \in bps' : b[1] \in Sources' \/ disk'[b[1]] = Gone
  BY Zenon, <1>3
<1> QED  BY Zenon, <1>4, <1>5, <1>6, Stays

\* Where the texts kept and edited stay as they are.
LEMMA SameTexts ==
  ASSUME SourcesInv, Runs, editor'.sfc = editor.sfc, editor'.text = editor.text,
         \A g \in Files : g = editor.sfc \/ LinesOf(docs'[g].text) = LinesOf(docs[g].text)
  PROVE  TextsStay
<1>1. Sources \subseteq Files
  BY Zenon, Running
<1>2. ASSUME NEW g \in Files PROVE TextOf(g)' = TextOf(g)
  <2>1. TextOf(g)' = LinesOf(IF editor'.sfc = g THEN editor'.text ELSE docs'[g].text)
    BY DEF TextOf, LinesOf, Blank, Empty
  <2> QED  BY Zenon, <2>1 DEF TextOf
<1> QED  BY Zenon, <1>1, <1>2 DEF TextsStay

\* Another program deletes a file.
LEMMA GoneKeeps ==
  ASSUME SourcesInv, NEW f \in Files, FileGone(f)
  PROVE  SourcesInv' /\ TextsStay
<1>1. /\ Runs /\ disk' = [disk EXCEPT ![f] = Gone]
      /\ UNCHANGED <<order, docs, tabs, selected, editor, bps, listed, rows, later, started, over>>
  BY DEF FileGone, Runs
<1>2. /\ docs \in [Files -> DocType] /\ disk \in [Files -> (Texts \ {Empty}) \cup {Gone}]
      /\ editor \in EditorType /\ bps \in SUBSET Marked /\ later \subseteq Posts /\ started \in BOOLEAN
      /\ "OnReloadLuaFunctions" \in later => editor.sfc # None
      /\ \A b \in bps : b[1] \in Sources \/ disk[b[1]] = Gone
      /\ editor.sfc = None => editor.text = Empty
      /\ listed = order /\ rows \in {<< >>, SortedBreakpoints(bps)}
  BY Zenon, <1>1, Running
<1>3. disk' \in [Files -> (Texts \ {Empty}) \cup {Gone}]
  BY <1>1, <1>2
<1>4. \A b \in bps : b[1] \in Files
  BY <1>2 DEF Marked
<1>5. \A b \in bps : b[1] \in Sources \/ disk'[b[1]] = Gone
  BY <1>1, <1>2, <1>4
<1>6. /\ docs' = docs /\ editor' = editor /\ bps' = bps /\ later' = later /\ started' = started
      /\ over' = over /\ order' = order /\ listed' = listed /\ rows' = rows
  BY <1>1
<1>7. over' \in Ends
  BY <1>1, <1>6 DEF Runs, Ends
<1>8. SourcesInv'
  <2>1. UNCHANGED <<order, tabs, selected>>
    BY Zenon, <1>1
  <2>2. /\ docs' \in [Files -> DocType] /\ editor' \in EditorType /\ editor'.sfc = editor.sfc
        /\ editor'.sfc = None => editor'.text = Empty
        /\ later' \subseteq Posts /\ ("OnReloadLuaFunctions" \in later' => editor'.sfc # None)
        /\ started' \in BOOLEAN /\ bps' \in SUBSET Marked
        /\ \A b \in bps' : b[1] \in Sources \/ disk'[b[1]] = Gone
        /\ listed' = order' /\ rows' \in {<< >>, SortedBreakpoints(bps')}
    BY Zenon, <1>2, <1>5, <1>6
  <2> QED  BY Zenon, <1>1, <1>3, <1>7, <2>1, <2>2, QuietKeeps
<1>9. TextsStay
  BY Zenon, <1>1, <1>6, SameTexts
<1> QED  BY <1>8, <1>9

\* A text changed in the editor.
LEMMA ModifiedKeeps ==
  ASSUME SourcesInv, Runs, editor.sfc # None, NEW text \in Texts, TextModified(text)
  PROVE  SourcesInv' /\ TextsStay
<1> DEFINE ed == [editor EXCEPT !.text = text]
<1> DEFINE f == editor.sfc
<1>1. /\ editor' = [ed EXCEPT !.dirty = Modified(ed)]
      /\ later' = later \cup {"ReloadStylCache"}
      /\ UNCHANGED <<order, disk, tabs, selected, bps, started>>
      /\ IF Modified(ed) # editor.dirty THEN OnEditorDirtyChanged(f, Modified(ed))
         ELSE UNCHANGED <<docs, listed, rows, over>>
  BY Zenon DEF TextModified
<1>2. /\ docs \in [Files -> DocType] /\ disk \in [Files -> (Texts \ {Empty}) \cup {Gone}]
      /\ editor \in EditorType /\ bps \in SUBSET Marked /\ later \subseteq Posts /\ started \in BOOLEAN
      /\ \A b \in bps : b[1] \in Sources \/ disk[b[1]] = Gone
      /\ listed = order /\ rows \in {<< >>, SortedBreakpoints(bps)} /\ Sources \subseteq Files
  BY Zenon, Running
<1>3. ed \in EditorType /\ ed.sfc = f
  BY <1>2 DEF EditorType
<1>4. Modified(ed) \in BOOLEAN
  BY DEF Modified
<1> HIDE DEF ed
<1>5. editor' \in EditorType /\ editor'.sfc = editor.sfc
  BY <1>1, <1>3, <1>4 DEF EditorType
<1>6. f \in Files
  BY <1>2 DEF EditorType
<1>7. /\ docs' \in [Files -> DocType] /\ \A g \in Files : docs'[g].text = docs[g].text
      /\ listed' = order' /\ rows' \in {<< >>, SortedBreakpoints(bps')} /\ over' \in Ends
  <2>1. CASE Modified(ed) # editor.dirty
    <3>1. docs' = [docs EXCEPT ![f].dirty = Modified(ed)] /\ BroadcastProjectRefresh
      BY Zenon, <1>1, <2>1 DEF OnEditorDirtyChanged, SetDirty, UpdateEditorTitles
    <3>2. docs' \in [Files -> DocType] /\ \A g \in Files : docs'[g].text = docs[g].text
      BY <1>2, <1>4, <1>6, <3>1 DEF DocType
    <3> QED  BY Zenon, <3>1, <3>2, Refreshed
  <2>2. CASE ~(Modified(ed) # editor.dirty)
    <3>1. docs' = docs /\ listed' = listed /\ rows' = rows /\ over' = over /\ order' = order /\ bps' = bps
      BY <1>1, <2>2
    <3>2. over \in Ends
      BY DEF Runs, Ends
    <3> QED  BY Zenon, <1>2, <3>1, <3>2
  <2> QED  BY <2>1, <2>2
<1>8. later' \subseteq Posts
  BY <1>1, <1>2 DEF Posts
<1>9. disk' = disk /\ bps' = bps /\ started' = started
  BY <1>1
<1>10. SourcesInv'
  <2>1. UNCHANGED <<order, tabs, selected>>
    BY Zenon, <1>1
  <2>2. /\ disk' \in [Files -> (Texts \ {Empty}) \cup {Gone}] /\ started' \in BOOLEAN /\ bps' \in SUBSET Marked
        /\ \A b \in bps' : b[1] \in Sources \/ disk'[b[1]] = Gone
    BY Zenon, <1>2, <1>9
  <2> QED  BY Zenon, <1>5, <1>7, <1>8, <2>1, <2>2, QuietKeeps
<1>11. ASSUME NEW g \in Sources, TextOf(g)' # TextOf(g) PROVE f = g
  <2>1. SUFFICES ASSUME f # g PROVE FALSE
    OBVIOUS
  <2>2. g \in Files /\ docs'[g].text = docs[g].text
    BY <1>2, <1>7
  <2>3. TextOf(g)' = LinesOf(IF editor'.sfc = g THEN editor'.text ELSE docs'[g].text)
    BY DEF TextOf, LinesOf, Blank, Empty
  <2>4. TextOf(g) = LinesOf(docs[g].text)
    BY <2>1 DEF TextOf
  <2>5. TextOf(g)' = LinesOf(docs'[g].text)
    BY Zenon, <1>5, <2>1, <2>3
  <2> QED  BY Zenon, <1>11, <2>2, <2>4, <2>5
<1>12. TextsStay
  BY Zenon, <1>5, <1>9, <1>11 DEF TextsStay
<1> QED  BY <1>10, <1>12

\* A key typed, the text cleared, or all undone.
LEMMA EditKeeps ==
  ASSUME SourcesInv, EditText
  PROVE  SourcesInv' /\ TextsStay
<1>1. Runs /\ editor.sfc \in Edited
  BY DEF EditText, UserEvent, Runs
<1>2. editor.sfc # None
  <2>1. Edited \subseteq Files
    BY FilesAssumption
  <2> QED  BY <1>1, <2>1, Numbers
<1>3. editor.text \in Texts /\ editor.base \in Texts
  <2>1. editor \in EditorType
    BY Zenon, <1>1, Running
  <2> QED  BY <2>1 DEF EditorType
<1>4. PICK text \in Texts : TextModified(text)
  <2>1. CASE editor.text < MaxText /\ editor.text # Empty /\ TextModified(editor.text + 1)
    <3>1. editor.text + 1 \in Texts
      BY <1>3, <2>1, LinesAssumption DEF Texts, Empty, Blank
    <3> QED  BY <2>1, <3>1
  <2>2. CASE TextModified(Blank) \/ TextModified(Empty) \/ TextModified(editor.base)
    BY <1>3, <2>2, Numbers
  <2> QED  BY Zenon, <2>1, <2>2 DEF EditText
<1> QED  BY Zenon, <1>1, <1>2, <1>4, ModifiedKeeps

\* A save of the source shown.
LEMMA SaveKeeps ==
  ASSUME SourcesInv, OnSaveFileMenu
  PROVE  SourcesInv' /\ TextsStay
<1> DEFINE f == editor.sfc
<1>1. CASE Abort("assert(FileExists)") \/ Abort("assert(IsWritableFile)")
  BY <1>1, AbortKeeps DEF Ends
<1>2. CASE Runs /\ f # None /\ disk[f] # Gone /\ SaveToDisk(f)
  <2>1. /\ docs \in [Files -> DocType] /\ disk \in [Files -> (Texts \ {Empty}) \cup {Gone}]
        /\ editor \in EditorType /\ bps \in SUBSET Marked /\ later \subseteq Posts /\ started \in BOOLEAN
        /\ "OnReloadLuaFunctions" \in later => editor.sfc # None
        /\ \A b \in bps : b[1] \in Sources \/ disk[b[1]] = Gone
        /\ editor.sfc \in ToSet(tabs) /\ ToSet(tabs) \subseteq Sources
        /\ listed = order /\ rows \in {<< >>, SortedBreakpoints(bps)}
    BY Zenon, <1>2, Running
  <2>2. f \in Files /\ f \in Sources /\ editor.text \in Texts
    BY <1>2, <2>1 DEF EditorType
  <2>3. Kept \in [Files -> DocType] /\ \A g \in Files : LinesOf(Kept[g].text) = TextOf(g)
    BY Zenon, <2>1, KeptTexts
  <2>4. ASSUME NEW g \in Files, g # f PROVE TextOf(g) = LinesOf(docs[g].text)
    BY <2>4 DEF TextOf
  <2>5. \A g \in Files : g = editor.sfc \/ LinesOf(Kept[g].text) = LinesOf(docs[g].text)
    BY Zenon, <2>3, <2>4
  <2>6. CASE docs' = Kept /\ UNCHANGED <<order, disk, tabs, selected, editor, bps, listed, rows, later, started, over>>
    <3>1. /\ docs' = Kept /\ disk' = disk /\ editor' = editor /\ bps' = bps /\ later' = later
          /\ started' = started /\ over' = over /\ order' = order /\ listed' = listed /\ rows' = rows
      BY <2>6
    <3>2. over' \in Ends
      BY <1>2, <3>1 DEF Runs, Ends
    <3>3. UNCHANGED <<order, tabs, selected>>
      BY Zenon, <2>6
    <3>4. /\ docs' \in [Files -> DocType] /\ editor' \in EditorType /\ editor'.sfc = editor.sfc
          /\ editor'.text = editor.text /\ editor'.sfc # None
          /\ later' \subseteq Posts /\ ("OnReloadLuaFunctions" \in later' => editor'.sfc # None)
          /\ started' \in BOOLEAN /\ bps' \in SUBSET Marked
          /\ disk' \in [Files -> (Texts \ {Empty}) \cup {Gone}]
          /\ \A b \in bps' : b[1] \in Sources \/ disk'[b[1]] = Gone
          /\ listed' = order' /\ rows' \in {<< >>, SortedBreakpoints(bps')}
      BY Zenon, <1>2, <2>1, <2>3, <3>1
    <3>5. SourcesInv'
      BY Zenon, <1>2, <3>2, <3>3, <3>4, QuietKeeps
    <3>6. TextsStay
      BY Zenon, <1>2, <2>5, <3>1, SameTexts
    <3> QED  BY <3>5, <3>6
  <2>7. CASE /\ disk' = [disk EXCEPT ![f] = LinesOf(editor.text)]
             /\ docs' = [Kept EXCEPT ![f].dirty = FALSE]
             /\ SetEditorClean
             /\ UNCHANGED <<order, tabs, selected, bps, later, started>>
             /\ BroadcastProjectRefresh
    <3>1. disk' \in [Files -> (Texts \ {Empty}) \cup {Gone}]
      <4>1. LinesOf(editor.text) \in Texts \ {Empty}
        BY <2>2, Numbers
      <4> QED  BY <2>1, <2>2, <2>7, <4>1
    <3>2. docs' \in [Files -> DocType] /\ \A g \in Files : docs'[g].text = Kept[g].text
      BY <2>2, <2>3, <2>7 DEF DocType
    <3>3. editor' \in EditorType /\ editor'.sfc = editor.sfc /\ editor'.text = editor.text
      BY <2>1, <2>7 DEF SetEditorClean, EditorType
    <3>4. listed' = order' /\ rows' \in {<< >>, SortedBreakpoints(bps')} /\ over' \in Ends
      BY Zenon, <2>7, Refreshed
    <3>5. bps' = bps /\ later' = later /\ started' = started
      BY <2>7
    <3>6. bps' \in SUBSET Marked /\ \A b \in bps' : b[1] \in Sources \/ disk'[b[1]] = Gone
      <4>1. ASSUME NEW b \in bps, b[1] \notin Sources PROVE disk'[b[1]] = Gone
        <5>1. b[1] \in Files /\ b[1] # f
          BY <2>1, <2>2, <4>1 DEF Marked
        <5> QED  BY <2>1, <2>7, <4>1, <5>1
      <4> QED  BY Zenon, <2>1, <3>5, <4>1
    <3>7. /\ later' \subseteq Posts /\ ("OnReloadLuaFunctions" \in later' => editor'.sfc # None)
          /\ started' \in BOOLEAN /\ editor'.sfc # None
      BY Zenon, <1>2, <2>1, <3>3, <3>5
    <3>8. UNCHANGED <<order, tabs, selected>>
      BY Zenon, <2>7
    <3>9. SourcesInv'
      BY Zenon, <1>2, <3>1, <3>2, <3>3, <3>4, <3>6, <3>7, <3>8, QuietKeeps
    <3>10. TextsStay
      BY Zenon, <1>2, <2>5, <3>2, <3>3, SameTexts
    <3> QED  BY <3>9, <3>10
  <2> QED  BY Zenon, <1>2, <2>6, <2>7 DEF SaveToDisk
<1> QED  BY Zenon, <1>1, <1>2 DEF OnSaveFileMenu, UserEvent, Runs

\* What was put off: the scans for functions and the drawing of the project list.
LEMMA LaterKeeps ==
  ASSUME SourcesInv, ReloadStylCache \/ OnReloadLuaFunctions \/ RedrawProjectList
  PROVE  SourcesInv' /\ TextsStay
<1>1. CASE Abort("assert(end_pos)") \/ Abort("null source")
  BY <1>1, AbortKeeps DEF Ends
<1>2. ASSUME Runs, UNCHANGED <<order, docs, disk, tabs, selected, editor, bps, rows, started>>,
             later' \subseteq Posts, "OnReloadLuaFunctions" \in later' => editor.sfc # None,
             listed' = order', over' \in Ends
      PROVE  SourcesInv' /\ TextsStay
  <2>1. /\ docs \in [Files -> DocType] /\ disk \in [Files -> (Texts \ {Empty}) \cup {Gone}]
        /\ editor \in EditorType /\ bps \in SUBSET Marked /\ started \in BOOLEAN
        /\ \A b \in bps : b[1] \in Sources \/ disk[b[1]] = Gone
        /\ editor.sfc = None => editor.text = Empty
        /\ rows \in {<< >>, SortedBreakpoints(bps)}
    BY Zenon, <1>2, Running
  <2>2. /\ docs' = docs /\ disk' = disk /\ editor' = editor /\ bps' = bps /\ started' = started
        /\ rows' = rows
    BY <1>2
  <2>3. UNCHANGED <<order, tabs, selected>>
    BY Zenon, <1>2
  <2>4. /\ docs' \in [Files -> DocType] /\ disk' \in [Files -> (Texts \ {Empty}) \cup {Gone}]
        /\ editor' \in EditorType /\ editor'.sfc = editor.sfc /\ bps' \in SUBSET Marked
        /\ started' \in BOOLEAN /\ (editor'.sfc = None => editor'.text = Empty)
        /\ ("OnReloadLuaFunctions" \in later' => editor'.sfc # None)
        /\ \A b \in bps' : b[1] \in Sources \/ disk'[b[1]] = Gone
        /\ rows' \in {<< >>, SortedBreakpoints(bps')}
    BY Zenon, <1>2, <2>1, <2>2
  <2>5. SourcesInv'
    BY Zenon, <1>2, <2>3, <2>4, QuietKeeps
  <2>6. TextsStay
    BY Zenon, <1>2, <2>2, SameTexts
  <2> QED  BY <2>5, <2>6
<1> USE DEF Runs
<1>3. Runs /\ "" \in Ends
  BY DEF ReloadStylCache, OnReloadLuaFunctions, RedrawProjectList, UserEvent, Ends
<1>4. /\ later \subseteq Posts /\ ("OnReloadLuaFunctions" \in later => editor.sfc # None)
      /\ (editor.sfc = None => editor.text = Empty) /\ listed = order
  BY Zenon, <1>3, Running
<1> HIDE DEF Runs
<1>5. CASE /\ ReloadStylCache /\ editor.text # Empty
  <2>1. /\ later' = (later \ {"ReloadStylCache"}) \cup {"OnReloadLuaFunctions"}
        /\ UNCHANGED <<order, docs, disk, tabs, selected, editor, bps, listed, rows, started, over>>
    BY Zenon, <1>5 DEF ReloadStylCache
  <2>2. later' \subseteq Posts /\ ("OnReloadLuaFunctions" \in later' => editor.sfc # None)
    BY <1>4, <1>5, <2>1 DEF Posts
  <2>3. listed' = order' /\ over' \in Ends
    BY Zenon, <1>3, <1>4, <2>1 DEF Runs
  <2>4. UNCHANGED <<order, docs, disk, tabs, selected, editor, bps, rows, started>>
    BY Zenon, <2>1
  <2> QED  BY Zenon, <1>2, <1>3, <2>2, <2>3, <2>4
<1>6. CASE OnReloadLuaFunctions /\ editor.sfc # None
  <2>1. /\ later' = later \ {"OnReloadLuaFunctions"}
        /\ UNCHANGED <<order, docs, disk, tabs, selected, editor, bps, listed, rows, started, over>>
    BY Zenon, <1>6 DEF OnReloadLuaFunctions
  <2>2. later' \subseteq Posts /\ ("OnReloadLuaFunctions" \in later' => editor.sfc # None)
    BY <1>4, <1>6, <2>1
  <2>3. listed' = order' /\ over' \in Ends
    BY Zenon, <1>3, <1>4, <2>1 DEF Runs
  <2>4. UNCHANGED <<order, docs, disk, tabs, selected, editor, bps, rows, started>>
    BY Zenon, <2>1
  <2> QED  BY Zenon, <1>2, <1>3, <2>2, <2>3, <2>4
<1>7. CASE RedrawProjectList
  <2>1. /\ later' = later \ {"Redraw"} /\ Redraw
        /\ UNCHANGED <<order, docs, disk, tabs, selected, editor, bps, rows, started>>
    BY <1>7 DEF RedrawProjectList
  <2>2. later' \subseteq Posts /\ ("OnReloadLuaFunctions" \in later' => editor.sfc # None)
    BY <1>4, <2>1
  <2>3. listed' = order' /\ over' \in Ends
    BY <2>1 DEF Redraw, Ends
  <2> QED  BY Zenon, <1>2, <1>3, <2>1, <2>2, <2>3
<1>8. CASE ReloadStylCache /\ editor.text = Empty
  BY Zenon, <1>1, <1>8 DEF ReloadStylCache
<1>9. CASE OnReloadLuaFunctions /\ editor.sfc = None
  BY Zenon, <1>1, <1>9 DEF OnReloadLuaFunctions
<1> QED  BY Zenon, <1>5, <1>6, <1>7, <1>8, <1>9

\* Breakpoints set and removed, and drawn in the lists and in the editor.
LEMMA BreakpointsKeep ==
  ASSUME SourcesInv, Runs, NEW f, bps' \in SUBSET Marked,
         \A b \in bps' : b \in bps \/ b[1] \in Sources,
         UNCHANGED <<order, docs, disk, tabs, selected, later, started>>,
         BroadcastProjectRefresh, OnRefreshSfcBreakpoints(f)
  PROVE  SourcesInv' /\ TextsStay
<1>1. /\ docs \in [Files -> DocType] /\ disk \in [Files -> (Texts \ {Empty}) \cup {Gone}]
      /\ editor \in EditorType /\ later \subseteq Posts /\ started \in BOOLEAN
      /\ "OnReloadLuaFunctions" \in later => editor.sfc # None
      /\ \A b \in bps : b[1] \in Sources \/ disk[b[1]] = Gone
      /\ editor.sfc = None => editor.text = Empty
  BY Zenon, Running
<1>2. docs' = docs /\ disk' = disk /\ later' = later /\ started' = started
  OBVIOUS
<1>3. editor' \in EditorType /\ editor'.sfc = editor.sfc /\ editor'.text = editor.text
  <2>1. BreakpointsOf(f, bps') \in SUBSET Lines
    BY Zenon, MarksTyped
  <2>2. editor' = [editor EXCEPT !.marks = BreakpointsOf(f, bps')]
    BY DEF OnRefreshSfcBreakpoints
  <2> QED  BY <1>1, <2>1, <2>2 DEF EditorType
<1>4. listed' = order' /\ rows' \in {<< >>, SortedBreakpoints(bps')} /\ over' \in Ends
  BY Zenon, Refreshed
<1>5. UNCHANGED <<order, tabs, selected>>
  OBVIOUS
<1>6. /\ docs' \in [Files -> DocType] /\ disk' \in [Files -> (Texts \ {Empty}) \cup {Gone}]
      /\ started' \in BOOLEAN /\ (editor'.sfc = None => editor'.text = Empty)
      /\ later' \subseteq Posts /\ ("OnReloadLuaFunctions" \in later' => editor'.sfc # None)
      /\ \A b \in bps' : b[1] \in Sources \/ disk'[b[1]] = Gone
  BY Zenon, <1>1, <1>2, <1>3
<1>7. SourcesInv'
  BY Zenon, <1>3, <1>4, <1>5, <1>6, QuietKeeps
<1>8. TextsStay
  BY Zenon, <1>2, <1>3, SameTexts
<1> QED  BY <1>7, <1>8

\* A click in the margin.
LEMMA MarginKeeps ==
  ASSUME SourcesInv, NEW line \in Lines, OnClickedBreakpoint(line)
  PROVE  SourcesInv' /\ TextsStay
<1> DEFINE f == editor.sfc
<1> DEFINE b == <<f, line>>
<1>1. /\ Runs /\ f # None /\ UNCHANGED <<order, docs, disk, tabs, selected, later, started>>
      /\ bps' = (IF HasBreakpoint_LL(f, line) THEN bps \ {b} ELSE bps \cup {b})
      /\ BroadcastProjectRefresh /\ OnRefreshSfcBreakpoints(f)
  BY Zenon DEF OnClickedBreakpoint, ToggleBreakpoint, UserEvent, Runs
<1>2. bps \in SUBSET Marked /\ f \in Sources /\ Sources \subseteq Files
  <2>1. /\ bps \in SUBSET Marked /\ f \in ToSet(tabs) /\ ToSet(tabs) \subseteq Sources
        /\ Sources \subseteq Files
    BY Zenon, <1>1, Running
  <2> QED  BY <2>1
<1>3. bps' \subseteq bps \cup {b}
  BY <1>1
<1>4. b \in Marked /\ b[1] \in Sources
  BY <1>2 DEF Marked
<1> HIDE DEF b
<1>5. bps' \in SUBSET Marked /\ \A c \in bps' : c \in bps \/ c[1] \in Sources
  BY Zenon, <1>2, <1>3, <1>4
<1> QED  BY Zenon, <1>1, <1>5, BreakpointsKeep

\* The breakpoints of the selected rows are removed, and no other.
LEMMA SelectedGo ==
  ASSUME SourcesInv, Runs, NEW selection \in SUBSET DOMAIN rows, selection # {},
         bps' = RowsRemoved(Removal(selection))
  PROVE  bps' = bps \ {rows[i] : i \in selection}
<1>1. bps \in SUBSET Marked /\ rows \in {<< >>, SortedBreakpoints(bps)}
  BY Zenon, Running
<1>2. rows = SortedBreakpoints(bps)
  <2>1. DOMAIN << >> = {}
    OBVIOUS
  <2> QED  BY <1>1, <2>1
<1>3. DOMAIN rows = 1..Cardinality(bps)
  BY Zenon, <1>1, <1>2, SortedRows
<1>4. selection \in SUBSET (1..Cardinality(bps))
  BY Zenon, <1>3
<1>5. RowsRemoved(Removal(selection)) = bps \ {SortedBreakpoints(bps)[i] : i \in selection}
  BY Zenon, <1>1, <1>4, SelectedRowsGo
<1>6. {rows[i] : i \in selection} = {SortedBreakpoints(bps)[i] : i \in selection}
  BY Zenon, <1>2
<1> QED  BY Zenon, <1>5, <1>6

\* The selected rows of the breakpoint list are deleted.
LEMMA SelectedKeeps ==
  ASSUME SourcesInv, NEW selection \in SUBSET DOMAIN rows, DeleteSelectedBreakpoints(selection)
  PROVE  SourcesInv' /\ TextsStay
<1>1. CASE Abort("assert(count)")
  BY <1>1, AbortKeeps DEF Ends
<1>2. ASSUME Runs, selection # {}, bps' = RowsRemoved(Removal(selection)), NEW f,
             UNCHANGED <<order, docs, disk, tabs, selected, later, started>>,
             BroadcastProjectRefresh, OnRefreshSfcBreakpoints(f)
      PROVE  SourcesInv' /\ TextsStay
  <2>1. bps \in SUBSET Marked
    BY Zenon, <1>2, Running
  <2>2. bps' = bps \ {rows[i] : i \in selection}
    BY Zenon, <1>2, SelectedGo
  <2>3. bps' \in SUBSET Marked /\ \A b \in bps' : b \in bps \/ b[1] \in Sources
    BY Zenon, <2>1, <2>2
  <2> QED  BY Zenon, <1>2, <2>3, BreakpointsKeep
<1> QED  BY Zenon, <1>1, <1>2 DEF DeleteSelectedBreakpoints, UserEvent, Runs

\* The session starts, goes on and ends; the breakpoint list comes to the front.
LEMMA SessionKeeps ==
  ASSUME SourcesInv, OnToolStartRun \/ LevelChanges \/ SessionEnded \/ BreakpointsPaneShown
  PROVE  SourcesInv' /\ TextsStay
<1>1. /\ Runs /\ UNCHANGED <<order, disk, tabs, selected, editor, bps, listed, later, over>>
      /\ rows' \in {rows, << >>, SortedBreakpoints(bps)} /\ started' \in {started, TRUE, FALSE}
      /\ docs' = docs \/ \E flag \in BOOLEAN : SetAllSFCEditLockFlag(flag)
  BY DEF OnToolStartRun, LevelChanges, SessionEnded, BreakpointsPaneShown, UserEvent, Runs
<1>2. /\ docs \in [Files -> DocType] /\ disk \in [Files -> (Texts \ {Empty}) \cup {Gone}]
      /\ editor \in EditorType /\ bps \in SUBSET Marked /\ later \subseteq Posts /\ started \in BOOLEAN
      /\ "OnReloadLuaFunctions" \in later => editor.sfc # None
      /\ \A b \in bps : b[1] \in Sources \/ disk[b[1]] = Gone
      /\ editor.sfc = None => editor.text = Empty
      /\ listed = order /\ rows \in {<< >>, SortedBreakpoints(bps)}
  BY Zenon, <1>1, Running
<1>3. docs' \in [Files -> DocType] /\ \A g \in Files : docs'[g].text = docs[g].text
  <2>1. CASE docs' = docs
    BY <1>2, <2>1
  <2>2. ASSUME NEW flag \in BOOLEAN, SetAllSFCEditLockFlag(flag)
        PROVE  docs' \in [Files -> DocType] /\ \A g \in Files : docs'[g].text = docs[g].text
    <3>1. docs' = [f \in Files |-> IF f \in Sources THEN [docs[f] EXCEPT !.lock = flag] ELSE docs[f]]
      BY <2>2 DEF SetAllSFCEditLockFlag
    <3>2. ASSUME NEW g \in Files
          PROVE  /\ [docs[g] EXCEPT !.lock = flag] \in DocType /\ docs[g] \in DocType
                 /\ [docs[g] EXCEPT !.lock = flag].text = docs[g].text
      BY <1>2 DEF DocType
    <3> HIDE DEF DocType
    <3> QED  BY <3>1, <3>2
  <2> QED  BY Zenon, <1>1, <2>1, <2>2
<1>4. /\ disk' = disk /\ editor' = editor /\ bps' = bps /\ later' = later /\ over' = over
      /\ listed' = listed /\ order' = order
  BY <1>1
<1>5. over' \in Ends
  BY <1>1, <1>4 DEF Runs, Ends
<1>6. UNCHANGED <<order, tabs, selected>>
  BY Zenon, <1>1
<1>7. rows' \in {<< >>, SortedBreakpoints(bps')} /\ started' \in BOOLEAN
  <2>1. rows' \in {<< >>, SortedBreakpoints(bps)}
    BY <1>1, <1>2
  <2>2. started' \in BOOLEAN
    BY <1>1, <1>2
  <2> QED  BY Zenon, <1>4, <2>1, <2>2
<1>8. /\ disk' \in [Files -> (Texts \ {Empty}) \cup {Gone}] /\ editor' \in EditorType
      /\ editor'.sfc = editor.sfc /\ (editor'.sfc = None => editor'.text = Empty)
      /\ later' \subseteq Posts /\ ("OnReloadLuaFunctions" \in later' => editor'.sfc # None)
      /\ bps' \in SUBSET Marked /\ \A b \in bps' : b[1] \in Sources \/ disk'[b[1]] = Gone
      /\ listed' = order'
  BY Zenon, <1>2, <1>4
<1>9. SourcesInv'
  BY Zenon, <1>1, <1>3, <1>5, <1>6, <1>7, <1>8, QuietKeeps
<1>10. TextsStay
  BY Zenon, <1>1, <1>3, <1>4, SameTexts
<1> QED  BY <1>9, <1>10

-----------------------------------------------------------------------------
(* The theorems. *)

\* The client starts without a source, a page or a breakpoint.
LEMMA InitSources == Init => SourcesInv
<1> SUFFICES ASSUME Init PROVE SourcesInv
  OBVIOUS
<1>1. /\ order = << >> /\ tabs = << >> /\ selected = 0 /\ bps = {}
      /\ disk = [f \in Files |-> 0] /\ docs = [f \in Files |-> NoSFC]
      /\ editor \in [sfc : {None}, text : {Empty}, save : {Empty}, base : {Empty},
                     dirty : BOOLEAN, lock : {FALSE}, marks : {{}}]
      /\ listed = << >> /\ rows = << >> /\ later = {} /\ started = FALSE /\ over = ""
  BY DEF Init
<1>2. << >> \in Seq(Files) /\ IsInjective(<< >>) /\ ToSet(<< >>) = {} /\ 0 \in 0..Len(<< >>)
  BY DEF IsInjective, ToSet
<1>3. editor \in EditorType /\ editor.sfc = None /\ editor.text = Empty
  BY <1>1, Numbers DEF EditorType
<1>4. docs \in [Files -> DocType] /\ disk \in [Files -> (Texts \ {Empty}) \cup {Gone}]
  BY <1>1, Numbers DEF NoSFC, DocType
<1>5. TypeOK
  <2>1. /\ order \in Seq(Files) /\ IsInjective(order) /\ tabs \in Seq(Files) /\ IsInjective(tabs)
        /\ selected \in 0..Len(tabs)
    BY Zenon, <1>1, <1>2
  <2>2. bps \in SUBSET Marked /\ later \subseteq Posts /\ started \in BOOLEAN
    BY <1>1
  <2>3. over \in Ends
    BY Zenon, <1>1 DEF Ends
  <2> QED  BY Zenon, <1>3, <1>4, <2>1, <2>2, <2>3 DEF TypeOK, EditorType, DocType, Marked, Posts
<1>6. EditorShowsSelectedTab
  <2>1. ToSet(tabs) \subseteq Sources /\ "OnReloadLuaFunctions" \notin later
    BY Zenon, <1>1, <1>2
  <2> QED  BY Zenon, <1>1, <1>3, <2>1 DEF EditorShowsSelectedTab
<1>7. BreakpointsHaveSources
  BY Zenon, <1>1 DEF BreakpointsHaveSources
<1> QED  BY Zenon, <1>1, <1>3, <1>5, <1>6, <1>7 DEF SourcesInv

\* Nothing changes.
LEMMA StillSources ==
  ASSUME SourcesInv, UNCHANGED vars
  PROVE  SourcesInv' /\ TextsStay
<1>1. /\ order' = order /\ docs' = docs /\ disk' = disk /\ tabs' = tabs /\ selected' = selected
      /\ editor' = editor /\ bps' = bps /\ listed' = listed /\ rows' = rows /\ later' = later
      /\ started' = started /\ over' = over
  BY DEF vars
<1>2. Sources' = Sources
  BY Zenon, <1>1 DEF Sources
<1>3. TypeOK'
  BY Zenon, <1>1 DEF SourcesInv, TypeOK
<1>4. EditorShowsSelectedTab' /\ BreakpointsHaveSources'
  BY Zenon, <1>1, <1>2 DEF SourcesInv, EditorShowsSelectedTab, BreakpointsHaveSources
<1>5. SortedBreakpoints(bps)' = SortedBreakpoints(bps)
  <2>1. SortedBreakpoints(bps)' = SortedBreakpoints(bps')
    BY DEF SortedBreakpoints
  <2> QED  BY Zenon, <1>1, <2>1
<1>6. SourcesInv'
  BY Zenon, <1>1, <1>3, <1>4, <1>5 DEF SourcesInv
<1>7. ASSUME NEW g PROVE TextOf(g)' = TextOf(g)
  <2>1. TextOf(g)' = LinesOf(IF editor'.sfc = g THEN editor'.text ELSE docs'[g].text)
    BY DEF TextOf, LinesOf, Blank, Empty
  <2> QED  BY Zenon, <1>1, <2>1 DEF TextOf
<1>8. TextsStay
  BY Zenon, <1>7 DEF TextsStay
<1> QED  BY <1>6, <1>8

\* Every step keeps the invariant and the texts.
LEMMA NextSources ==
  ASSUME SourcesInv, [Next]_vars
  PROVE  SourcesInv' /\ TextsStay
<1>1. ASSUME NEW f \in Files, OnDroppedFiles(f) \/ FileGone(f) PROVE SourcesInv' /\ TextsStay
  BY Zenon, <1>1, DropKeeps, GoneKeeps
<1>2. ASSUME NEW files \in SUBSET Files, NEW loaded \in SUBSET (Files \X Lines), LoadProject(files, loaded)
      PROVE  SourcesInv' /\ TextsStay
  BY Zenon, <1>2, LoadKeeps
<1>3. CASE HideAllSFCs \/ ResetProject \/ RedrawProjectList
  BY Zenon, <1>3, HideKeeps, ResetKeeps, LaterKeeps
<1>4. ASSUME NEW i \in DOMAIN tabs, ClickTab(i) PROVE SourcesInv' /\ TextsStay
  BY Zenon, <1>4, ClickKeeps
<1>5. ASSUME NEW row \in DOMAIN listed, OnItemActivated(row) \/ OnKeyDown(row)
      PROVE  SourcesInv' /\ TextsStay
  BY Zenon, <1>5, ActivatedKeeps, KeyKeeps
<1>6. ASSUME NEW row \in DOMAIN rows, OnShowLocation(row) PROVE SourcesInv' /\ TextsStay
  BY Zenon, <1>6, LocationKeeps
<1>7. CASE EditText \/ OnSaveFileMenu \/ ReloadStylCache \/ OnReloadLuaFunctions
  BY Zenon, <1>7, EditKeeps, SaveKeeps, LaterKeeps
<1>8. ASSUME NEW line \in Lines, OnClickedBreakpoint(line) PROVE SourcesInv' /\ TextsStay
  BY Zenon, <1>8, MarginKeeps
<1>9. ASSUME NEW selection \in SUBSET DOMAIN rows, DeleteSelectedBreakpoints(selection)
      PROVE  SourcesInv' /\ TextsStay
  BY Zenon, <1>9, SelectedKeeps
<1>10. CASE OnToolStartRun \/ LevelChanges \/ SessionEnded \/ BreakpointsPaneShown
  BY Zenon, <1>10, SessionKeeps
<1>11. CASE Over \/ UNCHANGED vars
  BY Zenon, <1>11, StillSources DEF Over
<1> QED  BY Zenon, <1>1, <1>2, <1>3, <1>4, <1>5, <1>6, <1>7, <1>8, <1>9, <1>10, <1>11 DEF Next

\* For every number of sources, lines and edits the invariant holds: the types, the editor
\* and its page, the breakpoints and their sources, the lists and what they show.
THEOREM SourcesInvariant == Spec => []SourcesInv
<1>1. SourcesInv /\ [Next]_vars => SourcesInv'
  BY NextSources
<1> QED  BY <1>1, InitSources, PTL DEF Spec

\* The one editor shows the source of the selected page, whatever is opened, closed, hidden,
\* deleted or reset.
THEOREM EditorFollowsTabs == Spec => []EditorShowsSelectedTab
<1>1. SourcesInv => EditorShowsSelectedTab
  BY DEF SourcesInv
<1> QED  BY <1>1, SourcesInvariant, PTL

\* No breakpoint outlives its source, but those loaded for a file that is gone.
THEOREM NoStrayBreakpoints == Spec => []BreakpointsHaveSources
<1>1. SourcesInv => BreakpointsHaveSources
  BY DEF SourcesInv
<1> QED  BY <1>1, SourcesInvariant, PTL

\* No step but an edit, or a load from its file, changes the text of a source.
THEOREM TextsAreKept == Spec => OnlyEditsChangeTexts
<1>1. SourcesInv /\ [Next]_vars =>
        [\A f \in Sources : f \in Sources' /\ TextOf(f)' # TextOf(f) =>
           \/ editor.sfc = f /\ editor'.sfc = f /\ disk' = disk
           \/ tabs' = << >> /\ TextOf(f)' = disk[f]]_vars
  BY Zenon, NextSources DEF TextsStay
<1> QED  BY <1>1, SourcesInvariant, PTL DEF Spec, OnlyEditsChangeTexts

\* The breakpoints removed with a selection of rows are those of the rows, although the list
\* is sorted and drawn anew after each.
THEOREM SelectionIsDeleted == Spec => DeletesTheSelected
<1>1. ASSUME SourcesInv, NEW selection \in SUBSET DOMAIN rows, DeleteSelectedBreakpoints(selection),
             over' = ""
      PROVE  bps' = bps \ {rows[i] : i \in selection}
  <2>1. ~Abort("assert(count)")
    BY <1>1 DEF Abort
  <2> QED  BY Zenon, <1>1, <2>1, SelectedGo DEF DeleteSelectedBreakpoints, UserEvent, Runs
<1>2. SourcesInv /\ [Next]_vars =>
        [bps' # bps /\ over' = "" => \A selection \in SUBSET DOMAIN rows :
           DeleteSelectedBreakpoints(selection) => bps' = bps \ {rows[i] : i \in selection}]_vars
  BY Zenon, <1>1
<1> QED  BY <1>2, SourcesInvariant, PTL DEF Spec, DeletesTheSelected
=============================================================================
