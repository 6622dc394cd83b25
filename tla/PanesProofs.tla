----------------------------- MODULE PanesProofs -----------------------------
(***************************************************************************)
(* Proofs about MODULE Panes: no pane is in two books, a hidden book comes   *)
(* back and a changed layout is saved, for any number of panes.               *)
(***************************************************************************)
EXTENDS Panes, SequenceTheorems, FiniteSetTheorems, TLAPS

\* A set that holds 0 and the successor of all it holds has every natural number: else
\* "plus 1" would map its members below one that is missing into themselves, one to one
\* but not onto.
LEMMA NaturalsAreReached ==
  ASSUME NEW Q, 0 \in Q, \A n \in Nat : n \in Q => n + 1 \in Q
  PROVE  Nat \subseteq Q
<1> SUFFICES ASSUME NEW n \in Nat, n \notin Q PROVE FALSE
  OBVIOUS
<1> DEFINE S == {x \in 0..n : x \in Q}
<1> DEFINE f == [x \in S |-> x + 1]
<1>1. IsFiniteSet(S)
  <2>1. IsFiniteSet(0..n)
    BY FS_Interval
  <2>2. S \in SUBSET (0..n)
    OBVIOUS
  <2> HIDE DEF S
  <2> QED  BY <2>1, <2>2, FS_Subset
<1>2. f \in [S -> S] /\ \A a, b \in S : f[a] = f[b] => a = b
  <2>1. \A x \in S : x + 1 \in S
    OBVIOUS
  <2> QED  BY <2>1
<1>3. f \in Injection(S, S)
  BY <1>2 DEF Injection, IsInjective
<1>4. f \in Surjection(S, S)
  <2> HIDE DEF f, S
  <2> QED  BY <1>1, <1>3, FS_Injection
<1>5. PICK x \in S : f[x] = 0
  <2>1. 0 \in S
    OBVIOUS
  <2> QED  BY <1>4, <2>1 DEF Surjection
<1> QED  BY <1>5

-----------------------------------------------------------------------------
(* Lists. *)

\* What InsertAt() gives.
LEMMA Inserted ==
  ASSUME NEW S, NEW s \in Seq(S), NEW i \in 1..(Len(s) + 1), NEW e \in S
  PROVE  /\ InsertAt(s, i, e) \in Seq(S) /\ Len(InsertAt(s, i, e)) = Len(s) + 1
         /\ \A k \in 1..(Len(s) + 1) :
              InsertAt(s, i, e)[k] = IF k < i THEN s[k] ELSE IF k = i THEN e ELSE s[k - 1]
<1> DEFINE l == SubSeq(s, 1, i - 1)
<1> DEFINE r == SubSeq(s, i, Len(s))
<1>0. Len(s) \in Nat /\ i \in Nat
  OBVIOUS
<1>1. l \in Seq(S) /\ Len(l) = i - 1 /\ \A k \in 1..(i - 1) : l[k] = s[k]
  OBVIOUS
<1>2. r \in Seq(S) /\ Len(r) = Len(s) - i + 1 /\ \A k \in 1..(Len(s) - i + 1) : r[k] = s[i + k - 1]
  OBVIOUS
<1>3. <<e>> \in Seq(S) /\ Len(<<e>>) = 1 /\ <<e>>[1] = e
  OBVIOUS
<1> HIDE DEF l, r
<1> DEFINE le == l \o <<e>>
<1>4. /\ le \in Seq(S) /\ Len(le) = i
      /\ \A k \in 1..i : le[k] = IF k < i THEN s[k] ELSE e
  <2>1. /\ le \in Seq(S) /\ Len(le) = Len(l) + Len(<<e>>)
        /\ \A k \in 1..(Len(l) + Len(<<e>>)) : le[k] = IF k <= Len(l) THEN l[k] ELSE <<e>>[k - Len(l)]
    BY Zenon, <1>1, <1>3, ConcatProperties
  <2>2. Len(l) + Len(<<e>>) = i
    BY <1>0, <1>1, <1>3
  <2> HIDE DEF le
  <2>3. ASSUME NEW k \in 1..i PROVE le[k] = IF k < i THEN s[k] ELSE e
    <3>1. CASE k < i
      <4>1. k \in 1..(i - 1) /\ k <= Len(l)
        BY <1>0, <1>1, <3>1
      <4> QED  BY <1>1, <2>1, <2>2, <3>1, <4>1
    <3>2. CASE k = i
      <4>1. ~(k <= Len(l)) /\ k - Len(l) = 1
        BY <1>0, <1>1, <3>2
      <4> QED  BY <1>3, <2>1, <2>2, <3>2, <4>1
    <3> QED  BY <1>0, <3>1, <3>2
  <2> QED  BY <2>1, <2>2, <2>3
<1> HIDE DEF le
<1> DEFINE all == le \o r
<1>5. /\ all \in Seq(S) /\ Len(all) = Len(le) + Len(r)
      /\ \A k \in 1..(Len(le) + Len(r)) : all[k] = IF k <= Len(le) THEN le[k] ELSE r[k - Len(le)]
  BY Zenon, <1>2, <1>4, ConcatProperties
<1>6. InsertAt(s, i, e) = all
  BY DEF InsertAt, all, le, l, r
<1> HIDE DEF all
<1>7. Len(le) + Len(r) = Len(s) + 1
  BY <1>0, <1>2, <1>4
<1>8. ASSUME NEW k \in 1..(Len(s) + 1)
      PROVE  all[k] = IF k < i THEN s[k] ELSE IF k = i THEN e ELSE s[k - 1]
  <2>1. CASE k <= i
    BY <1>0, <1>4, <1>5, <1>7, <2>1
  <2>2. CASE ~(k <= i)
    <3>1. k - i \in 1..(Len(s) - i + 1) /\ i + (k - i) - 1 = k - 1
      BY <1>0, <2>2
    <3>2. all[k] = r[k - i]
      BY <1>4, <1>5, <1>7, <2>2
    <3>3. r[k - i] = s[i + (k - i) - 1]
      BY <1>2, <3>1
    <3> QED  BY <1>0, <2>2, <3>1, <3>2, <3>3
  <2> QED  BY <2>1, <2>2
<1> QED  BY <1>5, <1>6, <1>7, <1>8

\* What RemoveAt() leaves.
LEMMA Removed ==
  ASSUME NEW S, NEW s \in Seq(S), NEW i \in 1..Len(s)
  PROVE  /\ RemoveAt(s, i) \in Seq(S) /\ Len(RemoveAt(s, i)) = Len(s) - 1
         /\ \A k \in 1..(Len(s) - 1) : RemoveAt(s, i)[k] = IF k < i THEN s[k] ELSE s[k + 1]
<1> DEFINE l == SubSeq(s, 1, i - 1)
<1> DEFINE r == SubSeq(s, i + 1, Len(s))
<1>0. Len(s) \in Nat /\ i \in Nat
  OBVIOUS
<1>1. l \in Seq(S) /\ Len(l) = i - 1 /\ \A k \in 1..(i - 1) : l[k] = s[k]
  OBVIOUS
<1>2. r \in Seq(S) /\ Len(r) = Len(s) - i /\ \A k \in 1..(Len(s) - i) : r[k] = s[i + k]
  <2>1. \A k \in (i + 1)..Len(s) : s[k] \in S
    OBVIOUS
  <2>2. /\ r \in Seq(S) /\ Len(r) = IF i + 1 <= Len(s) THEN Len(s) - (i + 1) + 1 ELSE 0
        /\ \A k \in 1..(Len(s) - (i + 1) + 1) : r[k] = s[i + 1 + k - 1]
    BY <1>0, <2>1, SubSeqProperties
  <2>3. Len(s) - (i + 1) + 1 = Len(s) - i
    BY <1>0
  <2>4. \A k \in 1..(Len(s) - i) : i + 1 + k - 1 = i + k
    BY <1>0
  <2> HIDE DEF r
  <2>5. Len(r) = Len(s) - i
    <3>1. Len(r) = IF i + 1 <= Len(s) THEN Len(s) - (i + 1) + 1 ELSE 0
      BY Zenon, <2>2
    <3>2. (IF i + 1 <= Len(s) THEN Len(s) - (i + 1) + 1 ELSE 0) = Len(s) - i
      BY <1>0
    <3> QED  BY <3>1, <3>2
  <2>6. ASSUME NEW k \in 1..(Len(s) - i) PROVE r[k] = s[i + k]
    <3>1. r[k] = s[i + 1 + k - 1]
      BY Zenon, <2>2, <2>3
    <3> QED  BY Zenon, <2>4, <3>1
  <2> QED  BY <2>2, <2>5, <2>6
<1> HIDE DEF l, r
<1> DEFINE all == l \o r
<1>3. /\ all \in Seq(S) /\ Len(all) = Len(l) + Len(r)
      /\ \A k \in 1..(Len(l) + Len(r)) : all[k] = IF k <= Len(l) THEN l[k] ELSE r[k - Len(l)]
  BY Zenon, <1>1, <1>2, ConcatProperties
<1>4. RemoveAt(s, i) = all
  BY DEF RemoveAt, all, l, r
<1> HIDE DEF all
<1>5. Len(l) + Len(r) = Len(s) - 1
  BY <1>0, <1>1, <1>2
<1>6. ASSUME NEW k \in 1..(Len(s) - 1) PROVE all[k] = IF k < i THEN s[k] ELSE s[k + 1]
  <2>1. CASE k < i
    <3>1. k \in 1..(i - 1) /\ k <= Len(l)
      BY <1>0, <1>1, <2>1
    <3> QED  BY <1>1, <1>3, <1>5, <2>1, <3>1
  <2>2. CASE ~(k < i)
    <3>1. k - (i - 1) \in 1..(Len(s) - i) /\ i + (k - (i - 1)) = k + 1 /\ ~(k <= Len(l))
      BY <1>0, <1>1, <2>2
    <3>2. all[k] = r[k - (i - 1)]
      BY <1>1, <1>3, <1>5, <3>1
    <3> QED  BY <1>2, <2>2, <3>1, <3>2
  <2> QED  BY <2>1, <2>2
<1> QED  BY <1>3, <1>4, <1>5, <1>6

-----------------------------------------------------------------------------
(* LoadUI(): the pages come out as they were listed. *)

\* A page added as a loop of LoadUI() does.
Put(at, entry) == AddPageToNotebook(at, entry[1], entry[2])
\* The books after the entries of any set of places, the last of them added last.
Table(list, g, n) ==
  g = [s \in SUBSET (1..n) |-> IF s = {} THEN NoPages ELSE Put(g[s \ {Max(s)}], list[Max(s)])]

\* A fold over a list has a value after each number of entries.
LEMMA TableExists ==
  ASSUME NEW list
  PROVE  \A n \in Nat : \E g : Table(list, g, n)
<1> DEFINE Q == {n \in Nat : \E g : Table(list, g, n)}
<1>1. 0 \in Q
  <2> DEFINE g == [s \in SUBSET (1..0) |-> NoPages]
  <2>1. \A s \in SUBSET (1..0) : s = {}
    OBVIOUS
  <2>2. g = [s \in SUBSET (1..0) |-> IF s = {} THEN NoPages ELSE Put(g[s \ {Max(s)}], list[Max(s)])]
    BY <2>1, Zenon
  <2> QED  BY <2>2 DEF Table
<1>2. ASSUME NEW n \in Nat, n \in Q PROVE n + 1 \in Q
  <2>1. PICK g : Table(list, g, n)
    BY <1>2
  <2> DEFINE h == [s \in SUBSET (1..(n + 1)) |->
                     IF n + 1 \in s THEN Put(g[s \ {n + 1}], list[n + 1]) ELSE g[s]]
  <2>2. ASSUME NEW s \in SUBSET (1..(n + 1))
        PROVE  h[s] = IF s = {} THEN NoPages ELSE Put(h[s \ {Max(s)}], list[Max(s)])
    <3>1. CASE n + 1 \in s
      <4>1. Max(s) = n + 1
        <5>1. \A x \in s : n + 1 >= x /\ x \in Int
          OBVIOUS
        <5>2. \A x \in s : (\A y \in s : x >= y) => x = n + 1
          BY <3>1, <5>1
        <5>3. n + 1 \in s /\ \A y \in s : n + 1 >= y
          BY <3>1, <5>1
        <5> QED  BY <5>2, <5>3 DEF Max
      <4>2. s \ {n + 1} \in SUBSET (1..(n + 1)) /\ n + 1 \notin s \ {n + 1}
        OBVIOUS
      <4>3. h[s \ {n + 1}] = g[s \ {n + 1}]
        BY Zenon, <4>2
      <4>4. h[s] = Put(g[s \ {n + 1}], list[n + 1])
        BY Zenon, <3>1
      <4>5. s # {}
        BY <3>1
      <4> HIDE DEF h
      <4> QED  BY Zenon, <4>1, <4>3, <4>4, <4>5
    <3>2. CASE n + 1 \notin s
      <4>0. s \subseteq 1..n
        <5>1. \A x \in 1..(n + 1) : x # n + 1 => x \in 1..n
          OBVIOUS
        <5> QED  BY <3>2, <5>1
      <4>1. s \in SUBSET (1..n) /\ s \ {Max(s)} \in SUBSET (1..(n + 1)) /\ n + 1 \notin s \ {Max(s)}
        BY Zenon, <3>2, <4>0
      <4>2. h[s] = g[s] /\ h[s \ {Max(s)}] = g[s \ {Max(s)}]
        BY Zenon, <3>2, <4>1
      <4>3. g[s] = IF s = {} THEN NoPages ELSE Put(g[s \ {Max(s)}], list[Max(s)])
        BY Zenon, <2>1, <4>1 DEF Table
      <4> HIDE DEF h
      <4> QED  BY Zenon, <4>2, <4>3
    <3> QED  BY <3>1, <3>2
  <2>3. h = [s \in SUBSET (1..(n + 1)) |-> h[s]]
    BY Zenon
  <2> HIDE DEF h
  <2>4. h = [s \in SUBSET (1..(n + 1)) |->
               IF s = {} THEN NoPages ELSE Put(h[s \ {Max(s)}], list[Max(s)])]
    BY Zenon, <2>2, <2>3
  <2> QED  BY <2>4 DEF Table
<1> HIDE DEF Q
<1>3. Nat \subseteq Q
  BY <1>1, <1>2, NaturalsAreReached
<1> QED  BY <1>3 DEF Q

\* The books, entry by entry.
LEMMA LoadedByEntry ==
  ASSUME NEW list, NEW n \in Nat, DOMAIN list = 1..n
  PROVE  \E at : /\ at[0] = NoPages /\ at[n] = Loaded(list)
                 /\ \A k \in 0..(n - 1) : at[k + 1] = Put(at[k], list[k + 1])
<1> DEFINE g == CHOOSE g : Table(list, g, n)
<1>1. Table(list, g, n)
  BY TableExists
<1>2. Loaded(list) = g[1..n]
  <2>1. Loaded(list) = (CHOOSE g1 : g1 = [s \in SUBSET DOMAIN list |->
                          IF s = {} THEN NoPages ELSE Put(g1[s \ {Max(s)}], list[Max(s)])])[DOMAIN list]
    BY Zenon DEF Loaded, FoldLeft, MapThenFoldSet, Put
  <2> QED  BY Zenon, <2>1 DEF Table
<1> HIDE DEF g
<1> DEFINE at == [k \in 0..n |-> g[1..k]]
<1>3. at[0] = NoPages
  <2>1. 1..0 = {} /\ {} \in SUBSET (1..n) /\ 0 \in 0..n
    OBVIOUS
  <2>2. g[{}] = NoPages
    BY Zenon, <1>1, <2>1 DEF Table
  <2> QED  BY Zenon, <2>1, <2>2
<1>4. ASSUME NEW k \in 0..(n - 1) PROVE at[k + 1] = Put(at[k], list[k + 1])
  <2>0. k \in 0..n /\ k + 1 \in 0..n /\ \A x \in 1..(k + 1) : x \in 1..n
    OBVIOUS
  <2>1. k \in 0..n /\ k + 1 \in 0..n /\ 1..(k + 1) \in SUBSET (1..n) /\ 1..(k + 1) # {}
    <3>1. k + 1 \in 1..(k + 1)
      OBVIOUS
    <3> QED  BY Zenon, <2>0, <3>1
  <2>2. Max(1..(k + 1)) = k + 1
    <3>1. \A x \in 1..(k + 1) : (\A y \in 1..(k + 1) : x >= y) => x = k + 1
      OBVIOUS
    <3>2. k + 1 \in 1..(k + 1) /\ \A y \in 1..(k + 1) : k + 1 >= y
      OBVIOUS
    <3> QED  BY <3>1, <3>2 DEF Max
  <2>3. (1..(k + 1)) \ {k + 1} = 1..k
    OBVIOUS
  <2>4. g[1..(k + 1)] = Put(g[(1..(k + 1)) \ {Max(1..(k + 1))}], list[Max(1..(k + 1))])
    BY Zenon, <1>1, <2>1 DEF Table
  <2> QED  BY Zenon, <2>1, <2>2, <2>3, <2>4
<1>5. at[n] = Loaded(list)
  BY <1>2
<1> HIDE DEF at
<1> QED  BY <1>3, <1>4, <1>5

\* A list of pages has the entries of each book in turn.
LEMMA ListEntries ==
  ASSUME NEW pages \in [Books -> Seq(Panes)]
  PROVE  LET t == Len(pages[Top])  l == Len(pages[BottomLeft])  r == Len(pages[BottomRight])
             list == PageList(pages)
         IN /\ list \in Seq(Panes \X Books) /\ Len(list) = t + l + r
            /\ \A i \in 1..t : list[i] = <<pages[Top][i], Top>>
            /\ \A i \in 1..l : list[t + i] = <<pages[BottomLeft][i], BottomLeft>>
            /\ \A i \in 1..r : list[t + l + i] = <<pages[BottomRight][i], BottomRight>>
<1> DEFINE E(b) == [i \in DOMAIN pages[b] |-> <<pages[b][i], b>>]
<1> DEFINE P == Panes \X Books
<1>1. ASSUME NEW b \in Books
      PROVE  /\ E(b) \in Seq(P) /\ Len(E(b)) = Len(pages[b]) /\ Len(pages[b]) \in Nat
             /\ \A i \in 1..Len(pages[b]) : E(b)[i] = <<pages[b][i], b>>
  <2>1. pages[b] \in Seq(Panes) /\ DOMAIN pages[b] = 1..Len(pages[b]) /\ Len(pages[b]) \in Nat
    OBVIOUS
  <2>2. \A i \in DOMAIN pages[b] : <<pages[b][i], b>> \in P
    BY <2>1
  <2>3. E(b) = [i \in 1..Len(pages[b]) |-> <<pages[b][i], b>>]
    BY Zenon, <2>1
  <2> HIDE DEF P
  <2> QED  BY <2>1, <2>2, <2>3
<1>2. Top \in Books /\ BottomLeft \in Books /\ BottomRight \in Books
  BY DEF Books
<1> DEFINE t == Len(pages[Top])
<1> DEFINE l == Len(pages[BottomLeft])
<1> DEFINE r == Len(pages[BottomRight])
<1> DEFINE et == E(Top)
<1> DEFINE el == E(BottomLeft)
<1> DEFINE er == E(BottomRight)
<1>3. /\ et \in Seq(P) /\ Len(et) = t /\ t \in Nat /\ \A i \in 1..t : et[i] = <<pages[Top][i], Top>>
      /\ el \in Seq(P) /\ Len(el) = l /\ l \in Nat
      /\ \A i \in 1..l : el[i] = <<pages[BottomLeft][i], BottomLeft>>
      /\ er \in Seq(P) /\ Len(er) = r /\ r \in Nat
      /\ \A i \in 1..r : er[i] = <<pages[BottomRight][i], BottomRight>>
  BY Zenon, <1>1, <1>2
<1> DEFINE some == et \o el
<1> DEFINE all == some \o er
<1>4. PageList(pages) = all
  BY Zenon DEF PageList
<1> HIDE DEF et, el, er, t, l, r, P, E
<1>5. /\ some \in Seq(P) /\ Len(some) = t + l
      /\ \A i \in 1..t : some[i] = et[i]
      /\ \A i \in 1..l : some[t + i] = el[i]
  <2>1. /\ some \in Seq(P) /\ Len(some) = Len(et) + Len(el)
        /\ \A i \in 1..(Len(et) + Len(el)) : some[i] = IF i <= Len(et) THEN et[i] ELSE el[i - Len(et)]
    BY Zenon, <1>3, ConcatProperties
  <2>2. /\ some \in Seq(P) /\ Len(some) = t + l
        /\ \A i \in 1..(t + l) : some[i] = IF i <= t THEN et[i] ELSE el[i - t]
    BY Zenon, <1>3, <2>1
  <2>3. \A i \in 1..t : i \in 1..(t + l) /\ i <= t
    BY <1>3
  <2> HIDE DEF some
  <2>5. ASSUME NEW i \in 1..t PROVE some[i] = et[i]
    BY Zenon, <2>2, <2>3
  <2>6. ASSUME NEW i \in 1..l PROVE some[t + i] = el[i]
    <3> DEFINE x == t + i
    <3>1. x \in 1..(t + l) /\ ~(x <= t) /\ x - t = i
      BY <1>3
    <3> HIDE DEF x
    <3>2. some[x] = el[x - t]
      BY Zenon, <2>2, <3>1
    <3> QED  BY Zenon, <3>1, <3>2 DEF x
  <2> QED  BY Zenon, <2>2, <2>5, <2>6
<1> HIDE DEF some
<1>6. /\ all \in Seq(P) /\ Len(all) = t + l + r
      /\ \A i \in 1..(t + l) : all[i] = some[i]
      /\ \A i \in 1..r : all[t + l + i] = er[i]
  <2>1. /\ all \in Seq(P) /\ Len(all) = Len(some) + Len(er)
        /\ \A i \in 1..(Len(some) + Len(er)) : all[i] = IF i <= Len(some) THEN some[i] ELSE er[i - Len(some)]
    <3>1. some \in Seq(P) /\ er \in Seq(P)
      BY <1>3, <1>5
    <3> QED  BY Zenon, <3>1, ConcatProperties
  <2>2. /\ all \in Seq(P) /\ Len(all) = t + l + r
        /\ \A i \in 1..(t + l + r) : all[i] = IF i <= t + l THEN some[i] ELSE er[i - (t + l)]
    BY Zenon, <1>3, <1>5, <2>1
  <2>3. \A i \in 1..(t + l) : i \in 1..(t + l + r) /\ i <= t + l
    BY <1>3
  <2> HIDE DEF all
  <2>5. ASSUME NEW i \in 1..(t + l) PROVE all[i] = some[i]
    BY Zenon, <2>2, <2>3
  <2>6. ASSUME NEW i \in 1..r PROVE all[t + l + i] = er[i]
    <3> DEFINE x == t + l + i
    <3>1. x \in 1..(t + l + r) /\ ~(x <= t + l) /\ x - (t + l) = i
      BY <1>3
    <3> HIDE DEF x
    <3>2. all[x] = er[x - (t + l)]
      BY Zenon, <2>2, <3>1
    <3> QED  BY Zenon, <3>1, <3>2 DEF x
  <2> QED  BY Zenon, <2>2, <2>5, <2>6
<1> HIDE DEF all
<1>7. (\A i \in 1..t : i \in 1..(t + l)) /\ (\A i \in 1..l : t + i \in 1..(t + l))
  BY <1>3
<1>8. /\ \A i \in 1..t : all[i] = <<pages[Top][i], Top>>
      /\ \A i \in 1..l : all[t + i] = <<pages[BottomLeft][i], BottomLeft>>
      /\ \A i \in 1..r : all[t + l + i] = <<pages[BottomRight][i], BottomRight>>
  <2>1. \A i \in 1..t : all[i] = <<pages[Top][i], Top>>
    BY Zenon, <1>3, <1>5, <1>6, <1>7
  <2>2. \A i \in 1..l : all[t + i] = <<pages[BottomLeft][i], BottomLeft>>
    BY Zenon, <1>3, <1>5, <1>6, <1>7
  <2>3. \A i \in 1..r : all[t + l + i] = <<pages[BottomRight][i], BottomRight>>
    BY Zenon, <1>3, <1>6
  <2> QED  BY <2>1, <2>2, <2>3
<1> QED  BY Zenon, <1>4, <1>6, <1>8 DEF t, l, r, P

\* So many pages of each book.
Part(pages, u) ==
  [books |-> [b \in Books |-> SubSeq(pages[b], 1, u[b])],
   front |-> [b \in Books |-> IF u[b] = 0 THEN 0 ELSE 1]]

\* The next page of a book, added at its back.
LEMMA PutNext ==
  ASSUME NEW pages \in [Books -> Seq(Panes)], NEW u \in [Books -> Nat],
         \A b \in Books : u[b] <= Len(pages[b]),
         NEW c \in Books, u[c] < Len(pages[c])
  PROVE  Put(Part(pages, u), <<pages[c][u[c] + 1], c>>) = Part(pages, [u EXCEPT ![c] = @ + 1])
<1> DEFINE n == u[c]
<1> DEFINE pane == pages[c][n + 1]
<1> DEFINE s == SubSeq(pages[c], 1, n)
<1> DEFINE s1 == SubSeq(pages[c], 1, n + 1)
<1> DEFINE at == Part(pages, u)
<1>0. n \in Nat /\ pages[c] \in Seq(Panes) /\ Len(pages[c]) \in Nat /\ n + 1 <= Len(pages[c]) /\ pane \in Panes
  OBVIOUS
<1>1. s \in Seq(Panes) /\ Len(s) = n /\ \A k \in 1..n : s[k] = pages[c][k]
  BY <1>0
<1>2. s1 \in Seq(Panes) /\ Len(s1) = n + 1 /\ \A k \in 1..(n + 1) : s1[k] = pages[c][k]
  BY <1>0
<1>3. at.books[c] = s /\ at.front[c] = IF n = 0 THEN 0 ELSE 1
  BY DEF Part
<1> HIDE DEF n, pane, s, s1
<1> DEFINE ins == InsertAt(s, n + 1, pane)
<1>4. ins = s1
  <2>1. n + 1 \in 1..(Len(s) + 1) /\ s \in Seq(Panes) /\ pane \in Panes
    BY <1>0, <1>1
  <2>2. /\ ins \in Seq(Panes) /\ Len(ins) = Len(s) + 1
        /\ \A k \in 1..(Len(s) + 1) : ins[k] = IF k < n + 1 THEN s[k] ELSE IF k = n + 1 THEN pane ELSE s[k - 1]
    <3> DEFINE m == n + 1
    <3>1. m \in 1..(Len(s) + 1) /\ s \in Seq(Panes) /\ pane \in Panes
      BY Zenon, <2>1
    <3> HIDE DEF m
    <3>2. InsertAt(s, m, pane) \in Seq(Panes) /\ Len(InsertAt(s, m, pane)) = Len(s) + 1
      BY <3>1, Inserted, SMT
    <3>3. ASSUME NEW k \in 1..(Len(s) + 1)
          PROVE  InsertAt(s, m, pane)[k] = IF k < m THEN s[k] ELSE IF k = m THEN pane ELSE s[k - 1]
      BY <3>1, Inserted, SMT
    <3> QED  BY Zenon, <3>2, <3>3 DEF m
  <2>3. ASSUME NEW k \in 1..(n + 1) PROVE ins[k] = s1[k]
    <3>1. CASE k < n + 1
      <4>1. k \in 1..n /\ k \in 1..(Len(s) + 1)
        BY <1>0, <1>1, <3>1
      <4> QED  BY Zenon, <1>1, <1>2, <2>2, <3>1, <4>1
    <3>2. CASE k = n + 1
      <4>1. k \in 1..(Len(s) + 1) /\ ~(k < n + 1)
        BY <1>0, <1>1, <3>2
      <4>2. ins[k] = pane
        BY Zenon, <2>2, <3>2, <4>1
      <4> QED  BY Zenon, <1>2, <3>2, <4>2 DEF pane
    <3> QED  BY <1>0, <3>1, <3>2
  <2>4. ins \in Seq(Panes) /\ Len(ins) = n + 1 /\ s1 \in Seq(Panes) /\ Len(s1) = n + 1
    BY Zenon, <1>1, <1>2, <2>2
  <2> HIDE DEF ins
  <2> QED  BY <1>0, <2>3, <2>4
<1> HIDE DEF ins
<1> DEFINE f == IF n = 0 THEN 0 ELSE 1
<1> DEFINE books1 == [at.books EXCEPT ![c] = s1]
<1> DEFINE front1 == [at.front EXCEPT ![c] = 1]
<1>5. Put(at, <<pane, c>>) = [books |-> books1, front |-> front1]
  <2>1. With(at, pane, c, Back) =
          [books |-> [at.books EXCEPT ![c] = InsertAt(@, Len(at.books[c]) + 1, pane)],
           front |-> [at.front EXCEPT ![c] =
             IF at.front[c] = 0 THEN 1 ELSE IF Len(at.books[c]) + 1 <= at.front[c] THEN at.front[c] + 1 ELSE at.front[c]]]
    BY Zenon DEF With
  <2>2. InsertAt(at.books[c], Len(at.books[c]) + 1, pane) = s1
    BY Zenon, <1>1, <1>3, <1>4 DEF ins
  <2>3. (IF at.front[c] = 0 THEN 1 ELSE IF Len(at.books[c]) + 1 <= at.front[c] THEN at.front[c] + 1 ELSE at.front[c]) = 1
    <3>1. Len(at.books[c]) = n
      BY Zenon, <1>1, <1>3
    <3> HIDE DEF at
    <3> QED  BY <1>0, <1>3, <3>1
  <2>4. Put(at, <<pane, c>>) = With(at, pane, c, Back)
    BY DEF Put, AddPageToNotebook
  <2> QED  BY Zenon, <2>1, <2>2, <2>3, <2>4
<1> DEFINE v == [u EXCEPT ![c] = @ + 1]
<1>6. v[c] = n + 1 /\ \A b \in Books : b # c => v[b] = u[b]
  BY DEF n
<1>7. books1 = [b \in Books |-> SubSeq(pages[b], 1, v[b])]
  <2>1. at.books = [b \in Books |-> SubSeq(pages[b], 1, u[b])]
    BY DEF Part
  <2> HIDE DEF v, at
  <2> QED  BY <1>6, <2>1 DEF s1
<1>8. front1 = [b \in Books |-> IF v[b] = 0 THEN 0 ELSE 1]
  <2>1. at.front = [b \in Books |-> IF u[b] = 0 THEN 0 ELSE 1]
    BY DEF Part
  <2>2. v[c] # 0
    BY <1>0, <1>6
  <2>3. \A b \in Books : b # c => v[b] = u[b]
    BY Zenon, <1>6
  <2> HIDE DEF v, at
  <2> QED  BY <2>1, <2>2, <2>3
<1>9. Part(pages, v) = [books |-> [b \in Books |-> SubSeq(pages[b], 1, v[b])],
                        front |-> [b \in Books |-> IF v[b] = 0 THEN 0 ELSE 1]]
  BY Zenon DEF Part
<1> HIDE DEF v, at
<1>10. Put(at, <<pane, c>>) = Part(pages, v)
  BY Zenon, <1>5, <1>7, <1>8, <1>9
<1> QED  BY Zenon, <1>10 DEF at, v, n, pane

\* What PageList() writes, Loaded() reads.
LEMMA LoadedPages ==
  ASSUME NEW pages \in [Books -> Seq(Panes)]
  PROVE  Loaded(PageList(pages)) =
           [books |-> pages, front |-> [b \in Books |-> IF pages[b] = << >> THEN 0 ELSE 1]]
<1> DEFINE t == Len(pages[Top])
<1> DEFINE l == Len(pages[BottomLeft])
<1> DEFINE r == Len(pages[BottomRight])
<1> DEFINE list == PageList(pages)
<1> DEFINE n == t + l + r
<1>1. \A b \in Books : b = Top \/ b = BottomLeft \/ b = BottomRight
  BY DEF Books
<1>2. /\ Top \in Books /\ BottomLeft \in Books /\ BottomRight \in Books
      /\ Top # BottomLeft /\ Top # BottomRight /\ BottomLeft # BottomRight
  BY DEF Books, Top, BottomLeft, BottomRight
<1>3. t \in Nat /\ l \in Nat /\ r \in Nat /\ n \in Nat
  BY <1>2
<1>4. /\ list \in Seq(Panes \X Books) /\ Len(list) = n
      /\ \A i \in 1..t : list[i] = <<pages[Top][i], Top>>
      /\ \A i \in 1..l : list[t + i] = <<pages[BottomLeft][i], BottomLeft>>
      /\ \A i \in 1..r : list[t + l + i] = <<pages[BottomRight][i], BottomRight>>
  BY Zenon, ListEntries
<1>5. DOMAIN list = 1..n
  <2> HIDE DEF list, n
  <2> QED  BY <1>4
<1> DEFINE u(k) == [b \in Books |->
       IF b = Top THEN IF k <= t THEN k ELSE t
       ELSE IF b = BottomLeft THEN IF k <= t THEN 0 ELSE IF k <= t + l THEN k - t ELSE l
       ELSE IF k <= t + l THEN 0 ELSE k - (t + l)]
<1> HIDE DEF t, l, r, list
<1>6. ASSUME NEW k \in 0..n
      PROVE  /\ u(k) \in [Books -> Nat]
             /\ u(k)[Top] = IF k <= t THEN k ELSE t
             /\ u(k)[BottomLeft] = IF k <= t THEN 0 ELSE IF k <= t + l THEN k - t ELSE l
             /\ u(k)[BottomRight] = IF k <= t + l THEN 0 ELSE k - (t + l)
             /\ \A b \in Books : u(k)[b] <= Len(pages[b])
  <2>1. /\ u(k)[Top] = IF k <= t THEN k ELSE t
        /\ u(k)[BottomLeft] = IF k <= t THEN 0 ELSE IF k <= t + l THEN k - t ELSE l
        /\ u(k)[BottomRight] = IF k <= t + l THEN 0 ELSE k - (t + l)
    BY <1>2
  <2> DEFINE v == u(k)
  <2>2. v = [b \in Books |-> v[b]]
    OBVIOUS
  <2> HIDE DEF v
  <2>3. v[Top] \in 0..t /\ v[BottomLeft] \in 0..l /\ v[BottomRight] \in 0..r
    BY <1>3, <2>1 DEF v
  <2>4. \A b \in Books : v[b] \in Nat /\ v[b] <= Len(pages[b])
    <3>1. v[Top] \in Nat /\ v[Top] <= t /\ v[BottomLeft] \in Nat /\ v[BottomLeft] <= l
          /\ v[BottomRight] \in Nat /\ v[BottomRight] <= r
      BY <1>3, <2>3
    <3> QED  BY Zenon, <1>1, <3>1 DEF t, l, r
  <2>5. v \in [Books -> Nat]
    BY Zenon, <2>2, <2>4
  <2> QED  BY Zenon, <2>1, <2>4, <2>5 DEF v
<1>7. PICK at : /\ at[0] = NoPages /\ at[n] = Loaded(list)
                /\ \A k \in 0..(n - 1) : at[k + 1] = Put(at[k], list[k + 1])
  <2> HIDE DEF n
  <2> QED  BY Zenon, <1>3, <1>5, LoadedByEntry
<1> HIDE DEF n, u
<1> DEFINE Q == {k \in Nat : k <= n => at[k] = Part(pages, u(k))}
<1>8. 0 \in Q
  <2>1. u(0)[Top] = 0 /\ u(0)[BottomLeft] = 0 /\ u(0)[BottomRight] = 0
    <3>1. 0 \in 0..n /\ 0 <= t /\ 0 <= t + l
      BY <1>3
    <3> QED  BY <1>6, <3>1
  <2>2. \A b \in Books : u(0)[b] = 0
    BY Zenon, <1>1, <2>1
  <2>3. \A b \in Books : SubSeq(pages[b], 1, 0) = << >>
    OBVIOUS
  <2>4. [b \in Books |-> SubSeq(pages[b], 1, u(0)[b])] = [b \in Books |-> << >>]
    BY Zenon, <2>2, <2>3
  <2>5. [b \in Books |-> IF u(0)[b] = 0 THEN 0 ELSE 1] = [b \in Books |-> 0]
    BY <2>2
  <2>6. Part(pages, u(0)) = NoPages
    BY Zenon, <2>4, <2>5 DEF Part, NoPages
  <2> QED  BY <1>7, <2>6
<1>9. ASSUME NEW k \in Nat, k \in Q PROVE k + 1 \in Q
  <2> SUFFICES ASSUME k + 1 <= n PROVE at[k + 1] = Part(pages, u(k + 1))
    OBVIOUS
  <2>1. k \in 0..(n - 1) /\ k \in 0..n /\ k + 1 \in 0..n /\ k <= n
    BY <1>3
  <2>2. at[k] = Part(pages, u(k))
    BY <1>9, <2>1
  <2>3. at[k + 1] = Put(at[k], list[k + 1])
    BY <1>7, <2>1
  <2> DEFINE v == u(k)
  <2> DEFINE m == k + 1
  <2> DEFINE w == u(m)
  <2>4. /\ v \in [Books -> Nat]
        /\ v[Top] = IF k <= t THEN k ELSE t
        /\ v[BottomLeft] = IF k <= t THEN 0 ELSE IF k <= t + l THEN k - t ELSE l
        /\ v[BottomRight] = IF k <= t + l THEN 0 ELSE k - (t + l)
        /\ \A b \in Books : v[b] <= Len(pages[b])
    BY Zenon, <1>6, <2>1
  <2>5. /\ w \in [Books -> Nat]
        /\ w[Top] = IF m <= t THEN m ELSE t
        /\ w[BottomLeft] = IF m <= t THEN 0 ELSE IF m <= t + l THEN m - t ELSE l
        /\ w[BottomRight] = IF m <= t + l THEN 0 ELSE m - (t + l)
    <3>1. m \in 0..n
      BY <2>1
    <3> HIDE DEF m
    <3> QED  BY Zenon, <1>6, <3>1
  <2>6. m = k + 1
    OBVIOUS
  <2> HIDE DEF m
  <2> HIDE DEF v, w, Q
  <2> SUFFICES \E c \in Books : /\ v[c] < Len(pages[c]) /\ list[k + 1] = <<pages[c][v[c] + 1], c>>
                                /\ w[c] = v[c] + 1 /\ \A b \in Books : b # c => w[b] = v[b]
    <3>1. PICK c \in Books : /\ v[c] < Len(pages[c]) /\ list[k + 1] = <<pages[c][v[c] + 1], c>>
                             /\ w[c] = v[c] + 1 /\ \A b \in Books : b # c => w[b] = v[b]
      OBVIOUS
    <3>2. Put(Part(pages, v), <<pages[c][v[c] + 1], c>>) = Part(pages, [v EXCEPT ![c] = @ + 1])
      BY Zenon, <2>4, <3>1, PutNext
    <3>3. w = [v EXCEPT ![c] = @ + 1]
      BY <2>4, <2>5, <3>1
    <3> QED  BY Zenon, <2>2, <2>3, <2>6, <3>1, <3>2, <3>3 DEF v, w
  <2>7. CASE k < t
    <3>1. v[Top] = k /\ v[BottomLeft] = 0 /\ v[BottomRight] = 0
      BY <1>3, <2>4, <2>7
    <3>2. w[Top] = k + 1 /\ w[BottomLeft] = 0 /\ w[BottomRight] = 0
      BY <1>3, <2>5, <2>6, <2>7
    <3>3. k + 1 \in 1..t /\ k < t
      BY <1>3, <2>7
    <3>4. list[k + 1] = <<pages[Top][k + 1], Top>>
      BY <1>4, <3>3
    <3>5. \A b \in Books : b # Top => w[b] = v[b]
      BY Zenon, <1>1, <3>1, <3>2
    <3> QED  BY <1>2, <3>1, <3>2, <3>3, <3>4, <3>5 DEF t
  <2>8. CASE t <= k /\ k < t + l
    <3>1. v[Top] = t /\ v[BottomLeft] = k - t /\ v[BottomRight] = 0
      BY <1>3, <2>4, <2>8
    <3>2. w[Top] = t /\ w[BottomLeft] = k + 1 - t /\ w[BottomRight] = 0
      BY <1>3, <2>5, <2>6, <2>8
    <3>3. k - t + 1 \in 1..l /\ k - t < l /\ t + (k - t + 1) = k + 1 /\ k + 1 - t = k - t + 1
      BY <1>3, <2>8
    <3>4. list[k + 1] = <<pages[BottomLeft][k - t + 1], BottomLeft>>
      <4>1. list[t + (k - t + 1)] = <<pages[BottomLeft][k - t + 1], BottomLeft>>
        BY <1>4, <3>3
      <4> QED  BY <3>3, <4>1
    <3>5. \A b \in Books : b # BottomLeft => w[b] = v[b]
      BY Zenon, <1>1, <3>1, <3>2
    <3>6. v[BottomLeft] < Len(pages[BottomLeft]) /\ w[BottomLeft] = v[BottomLeft] + 1
      BY <3>1, <3>2, <3>3 DEF l
    <3>7. list[k + 1] = <<pages[BottomLeft][v[BottomLeft] + 1], BottomLeft>>
      BY Zenon, <3>1, <3>4
    <3> QED  BY Zenon, <1>2, <3>5, <3>6, <3>7
  <2>9. CASE t + l <= k
    <3>1. v[Top] = t /\ v[BottomLeft] = l /\ v[BottomRight] = k - (t + l)
      BY <1>3, <2>4, <2>9
    <3>2. w[Top] = t /\ w[BottomLeft] = l /\ w[BottomRight] = k + 1 - (t + l)
      BY <1>3, <2>5, <2>6, <2>9
    <3> DEFINE j == k - (t + l)
    <3>3. j + 1 \in 1..r /\ j < r /\ t + l + (j + 1) = k + 1 /\ k + 1 - (t + l) = j + 1
      BY <1>3, <2>1, <2>9 DEF n
    <3>4. list[k + 1] = <<pages[BottomRight][j + 1], BottomRight>>
      <4> HIDE DEF j
      <4>1. list[t + l + (j + 1)] = <<pages[BottomRight][j + 1], BottomRight>>
        BY <1>4, <3>3
      <4> QED  BY <3>3, <4>1
    <3>5. \A b \in Books : b # BottomRight => w[b] = v[b]
      BY Zenon, <1>1, <3>1, <3>2
    <3>6. v[BottomRight] < Len(pages[BottomRight]) /\ w[BottomRight] = v[BottomRight] + 1
      BY <3>1, <3>2, <3>3 DEF r
    <3>7. list[k + 1] = <<pages[BottomRight][v[BottomRight] + 1], BottomRight>>
      BY Zenon, <3>1, <3>4
    <3> QED  BY Zenon, <1>2, <3>5, <3>6, <3>7
  <2> QED  BY <1>3, <2>7, <2>8, <2>9
<1>10. at[n] = Part(pages, u(n))
  <2> HIDE DEF Q
  <2>1. n \in Q
    <3>1. Nat \subseteq Q
      BY <1>8, <1>9, NaturalsAreReached
    <3> QED  BY <1>3, <3>1
  <2> QED  BY <1>3, <2>1 DEF Q
<1>11. Part(pages, u(n)) = [books |-> pages, front |-> [b \in Books |-> IF pages[b] = << >> THEN 0 ELSE 1]]
  <2>1. u(n)[Top] = t /\ u(n)[BottomLeft] = l /\ u(n)[BottomRight] = r
    <3>1. n \in 0..n /\ n = t + l + r
      BY <1>3 DEF n
    <3>2. /\ u(n)[Top] = IF n <= t THEN n ELSE t
          /\ u(n)[BottomLeft] = IF n <= t THEN 0 ELSE IF n <= t + l THEN n - t ELSE l
          /\ u(n)[BottomRight] = IF n <= t + l THEN 0 ELSE n - (t + l)
      BY Zenon, <1>6, <3>1
    <3> QED  BY <1>3, <3>1, <3>2
  <2>2. \A b \in Books : u(n)[b] = Len(pages[b])
    BY Zenon, <1>1, <2>1 DEF t, l, r
  <2>3. \A b \in Books : SubSeq(pages[b], 1, Len(pages[b])) = pages[b]
    BY SubSeqFull
  <2>4. [b \in Books |-> SubSeq(pages[b], 1, u(n)[b])] = pages
    <3>1. [b \in Books |-> SubSeq(pages[b], 1, u(n)[b])] = [b \in Books |-> pages[b]]
      BY Zenon, <2>2, <2>3
    <3> QED  BY <3>1
  <2>5. \A b \in Books : u(n)[b] = 0 <=> pages[b] = << >>
    BY <2>2
  <2>6. [b \in Books |-> IF u(n)[b] = 0 THEN 0 ELSE 1] = [b \in Books |-> IF pages[b] = << >> THEN 0 ELSE 1]
    BY <2>5
  <2> QED  BY Zenon, <2>4, <2>6 DEF Part
<1> QED  BY Zenon, <1>7, <1>10, <1>11 DEF list

-----------------------------------------------------------------------------
(* Pages added, taken out and selected. *)

\* A pane that no book has.
Free(at, pane) == \A b \in Books : \A i \in DOMAIN at.books[b] : at.books[b][i] # pane

\* A list of entries is that of no other layout.
LEMMA SavedPages ==
  ASSUME NEW pages \in Layouts
  PROVE  Loaded(PageList(pages)).books \in Layouts
         /\ PageList(pages) = PageList(Loaded(PageList(pages)).books)
<1>1. pages \in [Books -> Seq(Panes)]
  BY DEF Layouts
<1>2. Loaded(PageList(pages)).books = pages
  BY <1>1, LoadedPages
<1> QED  BY <1>2

\* What is loaded from the list of a layout.
LEMMA LoadedShows ==
  ASSUME NEW list, Loaded(list).books \in Layouts, list = PageList(Loaded(list).books)
  PROVE  Loaded(list) \in Shows /\ PageList(Loaded(list).books) = list
<1> DEFINE pages == Loaded(list).books
<1>1. pages \in Layouts /\ pages \in [Books -> Seq(Panes)]
  BY DEF Layouts
<1> DEFINE at == [books |-> pages, front |-> [b \in Books |-> IF pages[b] = << >> THEN 0 ELSE 1]]
<1>2. Loaded(PageList(pages)) = [books |-> pages, front |-> [b \in Books |-> IF pages[b] = << >> THEN 0 ELSE 1]]
  BY Zenon, <1>1, LoadedPages
<1>3. Loaded(list) = at
  BY Zenon, <1>2
<1> HIDE DEF pages
<1>4. at \in [books : Layouts, front : [Books -> Nat]]
  BY <1>1
<1>5. ASSUME NEW b \in Books, pages[b] # << >> PROVE 1 \in DOMAIN pages[b]
  BY <1>1, <1>5
<1>6. at \in Shows
  BY <1>4, <1>5 DEF Shows
<1> QED  BY Zenon, <1>3, <1>6 DEF pages

\* The first layout has all panes in the lower left book.
LEMMA FirstLayout ==
  \E pages \in Layouts : DefaultList = PageList(pages) /\ pages[Top] = << >> /\ pages[BottomRight] = << >>
<1> DEFINE all == [i \in 1..PANE_ID_MAX |-> i - 1]
<1> DEFINE pages == [b \in Books |-> IF b = BottomLeft THEN all ELSE << >>]
<1>1. /\ Top \in Books /\ BottomLeft \in Books /\ BottomRight \in Books
      /\ Top # BottomLeft /\ BottomRight # BottomLeft
  BY DEF Books, Top, BottomLeft, BottomRight
<1>2. all \in Seq(Panes) /\ Len(all) = PANE_ID_MAX
  BY PanesAssumption DEF Panes
<1>3. pages[Top] = << >> /\ pages[BottomRight] = << >> /\ pages[BottomLeft] = all
  BY <1>1
<1>4. \A b \in Books : b # BottomLeft => pages[b] = << >>
  OBVIOUS
<1>5. pages \in [Books -> Seq(Panes)]
  <2> HIDE DEF all
  <2> QED  BY <1>2
<1>6. \A i \in DOMAIN all, j \in DOMAIN all : all[i] = all[j] => i = j
  BY PanesAssumption
<1> HIDE DEF pages, all
<1>7. pages \in Layouts
  <2> SUFFICES ASSUME NEW b \in Books, NEW c \in Books, NEW i \in DOMAIN pages[b], NEW j \in DOMAIN pages[c],
                      pages[b][i] = pages[c][j]
               PROVE  b = c /\ i = j
    BY <1>5 DEF Layouts
  <2>1. DOMAIN << >> = {}
    OBVIOUS
  <2>2. b = BottomLeft /\ c = BottomLeft
    BY Zenon, <1>4, <2>1
  <2> QED  BY Zenon, <1>3, <1>6, <2>2
<1>8. DefaultList = PageList(pages)
  <2>1. /\ PageList(pages) \in Seq(Panes \X Books)
        /\ Len(PageList(pages)) = Len(pages[Top]) + Len(pages[BottomLeft]) + Len(pages[BottomRight])
        /\ \A i \in 1..Len(pages[BottomLeft]) :
             PageList(pages)[Len(pages[Top]) + i] = <<pages[BottomLeft][i], BottomLeft>>
    BY Zenon, <1>5, ListEntries
  <2>2. Len(pages[Top]) = 0 /\ Len(pages[BottomRight]) = 0 /\ Len(pages[BottomLeft]) = PANE_ID_MAX
    BY <1>2, <1>3
  <2> DEFINE list == PageList(pages)
  <2> HIDE DEF list
  <2>3. list \in Seq(Panes \X Books) /\ Len(list) = PANE_ID_MAX
    BY <2>1, <2>2, PanesAssumption DEF list
  <2>4. ASSUME NEW i \in 1..PANE_ID_MAX PROVE list[i] = <<i - 1, BottomLeft>>
    <3>1. PageList(pages)[Len(pages[Top]) + i] = <<pages[BottomLeft][i], BottomLeft>>
      BY Zenon, <2>1, <2>2
    <3>2. Len(pages[Top]) + i = i
      BY <2>2
    <3>3. all[i] = i - 1
      BY DEF all
    <3> QED  BY Zenon, <1>3, <3>1, <3>2, <3>3 DEF list
  <2>5. list = [i \in 1..PANE_ID_MAX |-> <<i - 1, BottomLeft>>]
    BY <2>3, <2>4, PanesAssumption
  <2> QED  BY Zenon, <2>5 DEF list, DefaultList
<1> QED  BY Zenon, <1>3, <1>7, <1>8

\* A pane taken out of its book leaves the others where they were, and another in front.
LEMMA WithoutShows ==
  ASSUME NEW at \in Shows, NEW pane \in Panes, ~Free(at, pane)
  PROVE  /\ Without(at, pane) \in Shows /\ Free(Without(at, pane), pane)
         /\ \A c \in Books : Len(Without(at, pane).books[c]) >= Len(at.books[c]) - 1
<1> DEFINE b == CHOOSE b \in Books : pane \in ToSet(at.books[b])
<1> DEFINE i == CHOOSE i \in DOMAIN at.books[b] : at.books[b][i] = pane
<1> DEFINE f == at.front[b]
<1> DEFINE s == at.books[b]
<1> DEFINE f1 == IF i < f \/ (i = f /\ i = Len(s)) THEN f - 1 ELSE f
<1> DEFINE books1 == [at.books EXCEPT ![b] = RemoveAt(@, i)]
<1> DEFINE front1 == [at.front EXCEPT ![b] = f1]
<1>1. Without(at, pane) = [books |-> books1, front |-> front1]
  BY Zenon DEF Without
<1>2. /\ at.books \in Layouts /\ at.books \in [Books -> Seq(Panes)] /\ at.front \in [Books -> Nat]
      /\ \A c \in Books : IF at.books[c] = << >> THEN at.front[c] = 0 ELSE at.front[c] \in DOMAIN at.books[c]
  BY DEF Shows, Layouts
<1>3. \A c, d \in Books : \A k \in DOMAIN at.books[c], l \in DOMAIN at.books[d] :
        at.books[c][k] = at.books[d][l] => c = d /\ k = l
  BY Zenon, <1>2 DEF Layouts
<1>4. b \in Books /\ pane \in ToSet(s)
  <2>1. \E c \in Books : pane \in ToSet(at.books[c])
    BY DEF Free, ToSet
  <2> QED  BY Zenon, <2>1
<1> HIDE DEF b
<1>5. i \in DOMAIN s /\ s[i] = pane
  <2>1. \E k \in DOMAIN s : s[k] = pane
    BY <1>4 DEF ToSet
  <2> QED  BY Zenon, <2>1
<1> HIDE DEF i
<1>6. s \in Seq(Panes) /\ Len(s) \in Nat /\ i \in 1..Len(s) /\ f \in 1..Len(s)
  BY <1>2, <1>4, <1>5
<1> DEFINE s1 == RemoveAt(s, i)
<1>7. books1 = [c \in Books |-> IF c = b THEN s1 ELSE at.books[c]]
      /\ front1 = [c \in Books |-> IF c = b THEN f1 ELSE at.front[c]]
  BY <1>2, <1>4
<1>8. /\ s1 \in Seq(Panes) /\ Len(s1) = Len(s) - 1 /\ DOMAIN s1 = 1..(Len(s) - 1)
      /\ \A k \in 1..(Len(s) - 1) : s1[k] = IF k < i THEN s[k] ELSE s[k + 1]
  <2> HIDE DEF s
  <2>1. s1 \in Seq(Panes) /\ Len(s1) = Len(s) - 1
    BY <1>6, Removed, SMT
  <2>2. ASSUME NEW k \in 1..(Len(s) - 1) PROVE s1[k] = IF k < i THEN s[k] ELSE s[k + 1]
    BY <1>6, Removed, SMT
  <2> HIDE DEF s1
  <2>3. DOMAIN s1 = 1..(Len(s) - 1)
    BY <2>1
  <2> QED  BY Zenon, <2>1, <2>2, <2>3
<1> HIDE DEF f1, books1, front1, s1
<1> DEFINE old(c, k) == IF c = b /\ ~(k < i) THEN k + 1 ELSE k
<1>9. ASSUME NEW c \in Books, NEW k \in DOMAIN books1[c]
      PROVE  /\ old(c, k) \in DOMAIN at.books[c] /\ books1[c][k] = at.books[c][old(c, k)]
             /\ k \in Nat /\ (c = b => old(c, k) # i)
  <2>1. CASE c = b
    <3>1. books1[c] = s1 /\ k \in 1..(Len(s) - 1)
      BY <1>7, <1>8, <2>1
    <3>2. old(c, k) \in 1..Len(s) /\ old(c, k) # i /\ k \in Nat
      BY <1>6, <2>1, <3>1
    <3>3. s1[k] = s[old(c, k)]
      BY <1>8, <2>1, <3>1
    <3> QED  BY <1>6, <2>1, <3>1, <3>2, <3>3
  <2>2. CASE c # b
    <3>1. books1[c] = at.books[c] /\ at.books[c] \in Seq(Panes)
      BY <1>2, <1>7, <2>2
    <3> QED  BY <2>2, <3>1
  <2> QED  BY <2>1, <2>2
<1>10. books1 \in Layouts
  <2>1. books1 \in [Books -> Seq(Panes)]
    BY <1>2, <1>7, <1>8
  <2>2. ASSUME NEW c \in Books, NEW d \in Books, NEW k \in DOMAIN books1[c], NEW l \in DOMAIN books1[d],
               books1[c][k] = books1[d][l]
        PROVE  c = d /\ k = l
    <3>1. c = d /\ old(c, k) = old(d, l)
      <4> DEFINE x == old(c, k)
      <4> DEFINE y == old(d, l)
      <4>1. x \in DOMAIN at.books[c] /\ books1[c][k] = at.books[c][x]
        BY Zenon, <1>9
      <4>2. y \in DOMAIN at.books[d] /\ books1[d][l] = at.books[d][y]
        BY Zenon, <1>9
      <4> HIDE DEF x, y
      <4>3. c = d /\ x = y
        <5>1. at.books[c][x] = at.books[d][y]
          BY Zenon, <2>2, <4>1, <4>2
        <5> QED  BY <1>3, <4>1, <4>2, <5>1
      <4> QED  BY Zenon, <4>3 DEF x, y
    <3>2. k \in Nat /\ l \in Nat /\ i \in Nat
      BY <1>6, <1>9
    <3> QED  BY <3>1, <3>2
  <2> QED  BY Zenon, <2>1, <2>2 DEF Layouts
<1>11. ASSUME NEW c \in Books
       PROVE  IF books1[c] = << >> THEN front1[c] = 0 ELSE front1[c] \in DOMAIN books1[c]
  <2>1. CASE c = b
    <3>1. books1[c] = s1 /\ front1[c] = f1
      BY <1>7, <2>1
    <3>2. f1 \in 0..(Len(s) - 1) /\ (f1 = 0 => Len(s) = 1)
      <4> HIDE DEF s, f
      <4> QED  BY <1>6 DEF f1
    <3>3. s1 = << >> <=> Len(s) = 1
      <4> HIDE DEF s
      <4>1. Len(s1) = Len(s) - 1 /\ s1 \in Seq(Panes) /\ Len(s) \in Nat
        BY Zenon, <1>6, <1>8
      <4>2. s1 = << >> <=> Len(s1) = 0
        BY Zenon, <4>1, EmptySeq
      <4> QED  BY <4>1, <4>2
    <3>4. Len(s) = 1 => f1 = 0
      BY <1>6, <3>2
    <3> QED  BY <1>8, <3>1, <3>2, <3>3, <3>4
  <2>2. CASE c # b
    BY <1>2, <1>7, <2>2
  <2> QED  BY <2>1, <2>2
<1>12. front1 \in [Books -> Nat]
  <2>1. f1 \in Nat
    BY <1>6 DEF f1
  <2> QED  BY <1>2, <1>7, <2>1
<1> DEFINE at1 == [books |-> books1, front |-> front1]
<1>13. at1 \in Shows
  <2>1. at1 \in [books : Layouts, front : [Books -> Nat]]
    BY <1>10, <1>12
  <2> QED  BY <1>11, <2>1 DEF Shows
<1>14. Free(at1, pane)
  <2>1. ASSUME NEW c \in Books, NEW k \in DOMAIN books1[c], books1[c][k] = pane PROVE FALSE
    <3>1. c = b /\ old(c, k) = i
      <4> DEFINE x == old(c, k)
      <4>1. x \in DOMAIN at.books[c] /\ books1[c][k] = at.books[c][x]
        BY Zenon, <1>9
      <4> HIDE DEF x
      <4>2. c = b /\ x = i
        <5>1. at.books[c][x] = at.books[b][i]
          BY Zenon, <1>5, <2>1, <4>1
        <5> QED  BY <1>3, <1>4, <1>5, <4>1, <5>1
      <4> QED  BY Zenon, <4>2 DEF x
    <3> QED  BY Zenon, <1>9, <3>1
  <2> QED  BY <2>1 DEF Free
<1>15. ASSUME NEW c \in Books PROVE Len(books1[c]) >= Len(at.books[c]) - 1
  <2>1. CASE c = b
    BY <1>6, <1>7, <1>8, <2>1
  <2>2. CASE c # b
    <3>1. books1[c] = at.books[c] /\ Len(at.books[c]) \in Nat
      BY <1>2, <1>7, <2>2
    <3> QED  BY <3>1
  <2> QED  BY <2>1, <2>2
<1> QED
  <2>1. at1.books = books1
    OBVIOUS
  <2> HIDE DEF at1
  <2> QED  BY Zenon, <1>1, <1>13, <1>14, <1>15, <2>1 DEF at1

\* A free pane is put in a book at any place, and is in front if it is alone.
LEMMA WithShows ==
  ASSUME NEW at \in Shows, NEW pane \in Panes, Free(at, pane), NEW b \in Books,
         NEW pos, pos = Back \/ pos \in 1..(Len(at.books[b]) + 1)
  PROVE  With(at, pane, b, pos) \in Shows
<1> DEFINE s == at.books[b]
<1> DEFINE f == at.front[b]
<1> DEFINE i == IF pos = Back THEN Len(s) + 1 ELSE pos
<1> DEFINE f1 == IF f = 0 THEN 1 ELSE IF i <= f THEN f + 1 ELSE f
<1> DEFINE books1 == [at.books EXCEPT ![b] = InsertAt(@, i, pane)]
<1> DEFINE front1 == [at.front EXCEPT ![b] = f1]
<1>1. With(at, pane, b, pos) = [books |-> books1, front |-> front1]
  BY Zenon DEF With
<1>2. /\ at.books \in Layouts /\ at.books \in [Books -> Seq(Panes)] /\ at.front \in [Books -> Nat]
      /\ \A c \in Books : IF at.books[c] = << >> THEN at.front[c] = 0 ELSE at.front[c] \in DOMAIN at.books[c]
  BY DEF Shows, Layouts
<1>3. \A c, d \in Books : \A k \in DOMAIN at.books[c], l \in DOMAIN at.books[d] :
        at.books[c][k] = at.books[d][l] => c = d /\ k = l
  BY Zenon, <1>2 DEF Layouts
<1>4. s \in Seq(Panes) /\ Len(s) \in Nat /\ i \in 1..(Len(s) + 1) /\ f \in 0..Len(s)
  <2>1. s \in Seq(Panes) /\ Len(s) \in Nat
    BY <1>2
  <2>2. f \in 0..Len(s)
    BY <1>2, <2>1
  <2>3. i \in 1..(Len(s) + 1)
    BY <2>1
  <2> QED  BY <2>1, <2>2, <2>3
<1> HIDE DEF i
<1> DEFINE s1 == InsertAt(s, i, pane)
<1>5. books1 = [c \in Books |-> IF c = b THEN s1 ELSE at.books[c]]
      /\ front1 = [c \in Books |-> IF c = b THEN f1 ELSE at.front[c]]
  BY <1>2
<1>6. /\ s1 \in Seq(Panes) /\ Len(s1) = Len(s) + 1 /\ DOMAIN s1 = 1..(Len(s) + 1)
      /\ \A k \in 1..(Len(s) + 1) : s1[k] = IF k < i THEN s[k] ELSE IF k = i THEN pane ELSE s[k - 1]
  <2> HIDE DEF s
  <2>1. s1 \in Seq(Panes) /\ Len(s1) = Len(s) + 1
    BY <1>4, Inserted, SMT
  <2>2. ASSUME NEW k \in 1..(Len(s) + 1)
        PROVE  s1[k] = IF k < i THEN s[k] ELSE IF k = i THEN pane ELSE s[k - 1]
    BY <1>4, Inserted, SMT
  <2> HIDE DEF s1
  <2>3. DOMAIN s1 = 1..(Len(s) + 1)
    BY <2>1
  <2> QED  BY Zenon, <2>1, <2>2, <2>3
<1> HIDE DEF f1, books1, front1, s1
<1> DEFINE old(c, k) == IF c = b /\ ~(k < i) THEN k - 1 ELSE k
<1>7. ASSUME NEW c \in Books, NEW k \in DOMAIN books1[c]
      PROVE  /\ k \in Nat
             /\ (c = b /\ k = i => books1[c][k] = pane)
             /\ (~(c = b /\ k = i) => /\ old(c, k) \in DOMAIN at.books[c]
                                      /\ books1[c][k] = at.books[c][old(c, k)])
  <2>1. CASE c = b
    <3>1. books1[c] = s1 /\ k \in 1..(Len(s) + 1)
      BY <1>5, <1>6, <2>1
    <3>2. k # i => old(c, k) \in 1..Len(s)
      BY <1>4, <2>1, <3>1
    <3>3. k = i => s1[k] = pane
      BY <1>4, <1>6, <3>1
    <3>4. k # i => s1[k] = s[old(c, k)]
      BY <1>4, <1>6, <2>1, <3>1
    <3> QED  BY <1>4, <2>1, <3>1, <3>2, <3>3, <3>4
  <2>2. CASE c # b
    <3>1. books1[c] = at.books[c] /\ at.books[c] \in Seq(Panes)
      BY <1>2, <1>5, <2>2
    <3> QED  BY <2>2, <3>1
  <2> QED  BY <2>1, <2>2
<1>8. books1 \in Layouts
  <2>1. books1 \in [Books -> Seq(Panes)]
    BY <1>2, <1>5, <1>6
  <2>2. ASSUME NEW c \in Books, NEW d \in Books, NEW k \in DOMAIN books1[c], NEW l \in DOMAIN books1[d],
               books1[c][k] = books1[d][l]
        PROVE  c = d /\ k = l
    <3> DEFINE new(e, m) == e = b /\ m = i
    <3>1. CASE new(c, k) /\ new(d, l)
      BY <3>1
    <3>2. CASE new(c, k) /\ ~new(d, l)
      <4>1. at.books[d][old(d, l)] = pane /\ old(d, l) \in DOMAIN at.books[d]
        <5> HIDE DEF old
        <5> QED  BY Zenon, <1>7, <2>2, <3>2
      <4> QED  BY Zenon, <4>1 DEF Free
    <3>3. CASE ~new(c, k) /\ new(d, l)
      <4>1. at.books[c][old(c, k)] = pane /\ old(c, k) \in DOMAIN at.books[c]
        <5> HIDE DEF old
        <5> QED  BY Zenon, <1>7, <2>2, <3>3
      <4> QED  BY Zenon, <4>1 DEF Free
    <3>4. CASE ~new(c, k) /\ ~new(d, l)
      <4>1. c = d /\ old(c, k) = old(d, l)
        <5> DEFINE x == old(c, k)
        <5> DEFINE y == old(d, l)
        <5>1. x \in DOMAIN at.books[c] /\ books1[c][k] = at.books[c][x]
          BY Zenon, <1>7, <3>4
        <5>2. y \in DOMAIN at.books[d] /\ books1[d][l] = at.books[d][y]
          BY Zenon, <1>7, <3>4
        <5> HIDE DEF x, y
        <5>3. c = d /\ x = y
          <6>1. at.books[c][x] = at.books[d][y]
            BY Zenon, <2>2, <5>1, <5>2
          <6> QED  BY <1>3, <5>1, <5>2, <6>1
        <5> QED  BY Zenon, <5>3 DEF x, y
      <4>2. k \in Nat /\ l \in Nat /\ i \in Nat
        BY <1>4, <1>7
      <4> QED  BY <3>4, <4>1, <4>2
    <3> QED  BY <3>1, <3>2, <3>3, <3>4
  <2> QED  BY Zenon, <2>1, <2>2 DEF Layouts
<1>9. ASSUME NEW c \in Books
      PROVE  IF books1[c] = << >> THEN front1[c] = 0 ELSE front1[c] \in DOMAIN books1[c]
  <2>1. CASE c = b
    <3>1. books1[c] = s1 /\ front1[c] = f1 /\ s1 # << >>
      BY <1>4, <1>5, <1>6, <2>1
    <3>2. f1 \in 1..(Len(s) + 1)
      BY <1>4 DEF f1
    <3> QED  BY <1>6, <3>1, <3>2
  <2>2. CASE c # b
    BY <1>2, <1>5, <2>2
  <2> QED  BY <2>1, <2>2
<1>10. front1 \in [Books -> Nat]
  <2>1. f1 \in Nat
    BY <1>4 DEF f1
  <2> QED  BY <1>2, <1>5, <2>1
<1>11. [books |-> books1, front |-> front1] \in Shows
  <2>1. [books |-> books1, front |-> front1] \in [books : Layouts, front : [Books -> Nat]]
    BY <1>8, <1>10
  <2> QED  BY <1>9, <2>1 DEF Shows
<1> QED  BY Zenon, <1>1, <1>11

\* Another page in front.
LEMMA SelectingShows ==
  ASSUME NEW at \in Shows, NEW pane
  PROVE  Selecting(at, pane) \in Shows /\ Selecting(at, pane).books = at.books
<1> DEFINE front1 == [b \in Books |->
      IF pane \in ToSet(at.books[b]) THEN CHOOSE i \in DOMAIN at.books[b] : at.books[b][i] = pane
      ELSE at.front[b]]
<1>1. /\ at \in [books : Layouts, front : [Books -> Nat]] /\ at.books \in [Books -> Seq(Panes)]
      /\ \A c \in Books : IF at.books[c] = << >> THEN at.front[c] = 0 ELSE at.front[c] \in DOMAIN at.books[c]
  BY DEF Shows, Layouts
<1>2. Selecting(at, pane) = [books |-> at.books, front |-> front1]
  <2>1. Selecting(at, pane) = [at EXCEPT !.front = front1]
    BY Zenon DEF Selecting
  <2> HIDE DEF front1
  <2> QED  BY <1>1, <2>1
<1>3. ASSUME NEW b \in Books
      PROVE  /\ front1[b] \in Nat
             /\ IF at.books[b] = << >> THEN front1[b] = 0 ELSE front1[b] \in DOMAIN at.books[b]
  <2>1. CASE pane \in ToSet(at.books[b])
    <3>1. \E i \in DOMAIN at.books[b] : at.books[b][i] = pane
      BY <2>1 DEF ToSet
    <3>2. front1[b] = CHOOSE i \in DOMAIN at.books[b] : at.books[b][i] = pane
      BY <2>1
    <3>3. front1[b] \in DOMAIN at.books[b]
      BY Zenon, <3>1, <3>2
    <3> HIDE DEF front1
    <3> QED  BY <1>1, <3>3
  <2>2. CASE pane \notin ToSet(at.books[b])
    BY <1>1, <2>2
  <2> QED  BY <2>1, <2>2
<1>4. front1 = [b \in Books |-> front1[b]]
  OBVIOUS
<1> HIDE DEF front1
<1>5. front1 \in [Books -> Nat]
  BY Zenon, <1>3, <1>4
<1>6. [books |-> at.books, front |-> front1] \in Shows
  BY <1>1, <1>3, <1>5 DEF Shows
<1> QED  BY <1>2, <1>6

-----------------------------------------------------------------------------
(* The actions. *)

\* A pane taken out, or left out.
LEMMA RemovedShows ==
  ASSUME Now \in Shows, NEW pane \in Panes
  PROVE  /\ RemovePageID(pane) \in Shows /\ Free(RemovePageID(pane), pane)
         /\ \A c \in Books : Len(RemovePageID(pane).books[c]) >= Len(books[c]) - 1
         /\ \A c \in Books : pane \notin ToSet(books[c]) => Len(RemovePageID(pane).books[c]) >= Len(books[c])
<1>1. Now.books = books /\ books \in [Books -> Seq(Panes)]
  BY DEF Now, Shows, Layouts
<1>2. Used(pane) <=> ~Free(Now, pane)
  BY <1>1 DEF Used, BookOf, Free, ToSet
<1>3. \A c \in Books : Len(books[c]) \in Nat
  BY <1>1
<1>4. CASE Used(pane)
  <2>1. RemovePageID(pane) = Without(Now, pane)
    BY <1>4 DEF RemovePageID
  <2>2. /\ Without(Now, pane) \in Shows /\ Free(Without(Now, pane), pane)
        /\ \A c \in Books : Len(Without(Now, pane).books[c]) >= Len(Now.books[c]) - 1
    BY Zenon, <1>2, <1>4, WithoutShows
  <2>3. ASSUME NEW c \in Books, pane \notin ToSet(books[c])
        PROVE  Len(Without(Now, pane).books[c]) >= Len(books[c])
    <3> DEFINE b == CHOOSE b \in Books : pane \in ToSet(books[b])
    <3>1. b # c
      <4>1. \E d \in Books : pane \in ToSet(books[d])
        BY <1>4 DEF Used, BookOf
      <4>2. pane \in ToSet(books[b])
        BY Zenon, <4>1
      <4> QED  BY Zenon, <2>3, <4>2
    <3>2. Without(Now, pane).books =
            [books EXCEPT ![b] = RemoveAt(@, CHOOSE i \in DOMAIN books[b] : books[b][i] = pane)]
      BY Zenon, <1>1 DEF Without
    <3> HIDE DEF b
    <3>3. Without(Now, pane).books[c] = books[c]
      BY <1>1, <3>1, <3>2
    <3> QED  BY <1>3, <3>3
  <2> QED  BY Zenon, <1>1, <2>1, <2>2, <2>3
<1>5. CASE ~Used(pane)
  <2>1. RemovePageID(pane) = Now
    BY <1>5 DEF RemovePageID
  <2>2. \A c \in Books : Len(books[c]) >= Len(books[c]) - 1 /\ Len(books[c]) >= Len(books[c])
    BY <1>3
  <2> QED  BY Zenon, <1>1, <1>2, <1>5, <2>1, <2>2
<1> QED  BY <1>4, <1>5

\* The books of a step.
LEMMA BecomeShows ==
  ASSUME NEW at \in Shows, Become(at)
  PROVE  Now' \in Shows /\ books' = at.books /\ books' \in Layouts
<1>1. at \in [books : Layouts, front : [Books -> Nat]]
  BY DEF Shows
<1>2. at = [books |-> books', front |-> front']
  BY <1>1 DEF Become
<1> QED  BY <1>1, <1>2 DEF Now

\* The widths are one for each splitter.
LEMMA SplitTypes ==
  ASSUME NEW s \in [Splitters -> BOOLEAN], NEW pages
  PROVE  /\ GetSplitterWidths(s, pages) \in [Splitters -> BOOLEAN]
         /\ RepositionPaneBooks(s, pages) \in [Splitters -> BOOLEAN]
         /\ \A b \in Splitters : pages[b] # << >> => GetSplitterWidths(s, pages)[b]
<1>1. GetSplitterWidths(s, pages) = [b \in Splitters |-> s[b] \/ pages[b] # << >>]
  BY Zenon DEF GetSplitterWidths
<1>2. RepositionPaneBooks(s, pages) = [b \in Splitters |-> pages[b] # << >> /\ ~s[b]]
  BY Zenon DEF RepositionPaneBooks
<1>3. GetSplitterWidths(s, pages) \in [Splitters -> BOOLEAN]
  BY Zenon, <1>1
<1>4. RepositionPaneBooks(s, pages) \in [Splitters -> BOOLEAN]
  BY Zenon, <1>2
<1>5. \A b \in Splitters : pages[b] # << >> => GetSplitterWidths(s, pages)[b]
  BY Zenon, <1>1
<1> QED  BY <1>3, <1>4, <1>5

\* "close".
LEMMA CloseKeeps ==
  ASSUME PanesInv, NEW b \in Books, NEW pane \in Panes, ClosePane(b, pane)
  PROVE  PanesInv' /\ SaveIsDue'
<1>1. /\ Become(RemovePageID(pane)) /\ split' = RepositionPaneBooks(GetSplitterWidths(split, books'), books')
      /\ due' = TRUE /\ UNCHANGED <<dragged, hatched, hit, saved, over>>
  BY DEF ClosePane, Update
<1>2. Now' \in Shows
  BY <1>1, RemovedShows, BecomeShows DEF PanesInv, TypeOK
<1>3. split' \in [Splitters -> BOOLEAN]
  BY <1>1, SplitTypes DEF PanesInv, TypeOK
<1>4. TypeOK'
  BY <1>1, <1>2, <1>3 DEF PanesInv, TypeOK
<1>5. HiddenBooksReturn' /\ SaveIsDue'
  BY <1>1 DEF HiddenBooksReturn, SaveIsDue
<1> QED  BY <1>4, <1>5 DEF PanesInv

\* "shift", which saves at once.
LEMMA ShiftKeeps ==
  ASSUME PanesInv, NEW b \in Books, NEW pane \in Panes, ShiftPaneBook(b, pane)
  PROVE  PanesInv' /\ SaveIsDue'
<1> DEFINE out == Without(Now, pane)
<1> DEFINE mid == RepositionPaneBooks(GetSplitterWidths(split, books'), books')
<1>1. /\ Become(AddPageToNotebook(out, pane, ShiftPane[b]))
      /\ split' = GetSplitterWidths(mid, books') /\ saved' = PageList(books')
      /\ UNCHANGED <<dragged, hatched, hit, due, over>> /\ pane \in ToSet(books[b])
  BY DEF ShiftPaneBook, SaveNow
<1>2. Now \in Shows /\ Now.books = books
  BY DEF PanesInv, TypeOK, Now
<1>3. ~Free(Now, pane)
  BY <1>1, <1>2 DEF Free, ToSet
<1>4. out \in Shows /\ Free(out, pane)
  BY Zenon, <1>2, <1>3, WithoutShows
<1>5. ShiftPane[b] \in Books
  BY DEF ShiftPane, Books
<1> HIDE DEF out
<1>6. AddPageToNotebook(out, pane, ShiftPane[b]) \in Shows
  BY Zenon, <1>4, <1>5, WithShows DEF AddPageToNotebook
<1>7. Now' \in Shows /\ books' \in Layouts
  BY Zenon, <1>1, <1>6, BecomeShows
<1>8. mid \in [Splitters -> BOOLEAN]
  BY SplitTypes DEF PanesInv, TypeOK
<1> HIDE DEF mid
<1>9. split' \in [Splitters -> BOOLEAN] /\ \A c \in Splitters : books'[c] # << >> => split'[c]
  BY Zenon, <1>1, <1>8, SplitTypes
<1>10. Loaded(saved').books \in Layouts /\ saved' = PageList(Loaded(saved').books)
  BY Zenon, <1>1, <1>7, SavedPages
<1>11. TypeOK'
  BY <1>1, <1>7, <1>9, <1>10 DEF PanesInv, TypeOK
<1>12. HiddenBooksReturn' /\ SaveIsDue'
  BY <1>1, <1>9 DEF HiddenBooksReturn, SaveIsDue
<1> QED  BY <1>11, <1>12 DEF PanesInv

\* "drag", until the mouse is released.
LEMMA StartKeeps ==
  ASSUME PanesInv, NEW b \in Books, NEW pane \in Panes, StartDrag(b, pane)
  PROVE  PanesInv' /\ SaveIsDue'
<1>1. /\ dragged' = pane /\ hit' = NoHit /\ split' = [c \in Splitters |-> TRUE]
      /\ hatched' = HighLightEmpty(books) /\ UNCHANGED <<books, front, saved, due, over>>
  BY DEF StartDrag
<1>2. pane # None
  BY PanesAssumption DEF Panes, None
<1>3. Now' = Now /\ hatched' \subseteq Splitters /\ split' \in [Splitters -> BOOLEAN]
  BY <1>1 DEF Now, HighLightEmpty
<1>4. TypeOK'
  BY <1>1, <1>3 DEF PanesInv, TypeOK
<1>5. HiddenBooksReturn' /\ SaveIsDue'
  BY <1>1, <1>2 DEF HiddenBooksReturn, SaveIsDue
<1> QED  BY <1>4, <1>5 DEF PanesInv

\* The mouse moved over the books, or away from them.
LEMMA MoveKeeps ==
  ASSUME PanesInv, MouseDragMove
  PROVE  PanesInv' /\ SaveIsDue'
<1> DEFINE out == RemovePageID(dragged)
<1> DEFINE at == IF hit' = NoHit THEN out
                 ELSE Selecting(With(out, dragged, hit'[1], hit'[2]), dragged)
<1>1. /\ dragged # None /\ hit' \in {NoHit} \cup UNION {{b} \X Places(b) : b \in Books}
      /\ Become(at) /\ hatched' = HighLightEmpty(books')
      /\ UNCHANGED <<split, dragged, saved, due, over>>
  BY Zenon DEF MouseDragMove, IsDraggingPane
<1>2. dragged \in Panes /\ Now \in Shows
  BY <1>1 DEF PanesInv, TypeOK
<1>3. /\ out \in Shows /\ Free(out, dragged)
      /\ \A c \in Books : Len(out.books[c]) >= Len(books[c]) - 1
      /\ \A c \in Books : dragged \notin ToSet(books[c]) => Len(out.books[c]) >= Len(books[c])
  BY Zenon, <1>2, RemovedShows
<1> HIDE DEF out
<1>4. /\ at \in Shows /\ hit' \in {NoHit} \cup (Books \X (Nat \cup {Back}))
  <2>1. CASE hit' = NoHit
    BY <1>3, <2>1
  <2>2. CASE hit' # NoHit
    <3>1. PICK b \in Books : hit' \in {b} \X Places(b)
      BY <1>1, <2>2
    <3> DEFINE pos == hit'[2]
    <3>2. hit'[1] = b /\ pos \in Places(b) /\ hit' = <<b, pos>>
      BY <3>1
    <3> HIDE DEF pos
    <3>3. books \in [Books -> Seq(Panes)] /\ out.books \in [Books -> Seq(Panes)]
      BY <1>2, <1>3 DEF Now, Shows, Layouts
    <3>4. Len(books[b]) \in Nat /\ Len(out.books[b]) \in Nat /\ DOMAIN books[b] = 1..Len(books[b])
      BY <3>3
    <3>5. pos = Back \/ pos \in DOMAIN books[b]
      BY <3>2 DEF Places
    <3>6. pos = Back \/ pos \in 1..(Len(out.books[b]) + 1)
      BY <1>3, <3>4, <3>5
    <3>7. With(out, dragged, b, pos) \in Shows
      BY Zenon, <1>2, <1>3, <3>6, WithShows
    <3>8. at = Selecting(With(out, dragged, b, pos), dragged)
      BY Zenon, <2>2, <3>2 DEF pos
    <3> HIDE DEF at
    <3>9. at \in Shows
      BY Zenon, <3>7, <3>8, SelectingShows
    <3>10. pos \in Nat \cup {Back}
      BY <3>4, <3>5
    <3> QED  BY <3>2, <3>9, <3>10
  <2> QED  BY <2>1, <2>2
<1> HIDE DEF at
<1>5. Now' \in Shows
  BY Zenon, <1>1, <1>4, BecomeShows
<1>6. hatched' \subseteq Splitters
  BY <1>1 DEF HighLightEmpty
<1>7. TypeOK'
  BY <1>1, <1>4, <1>5, <1>6 DEF PanesInv, TypeOK
<1>8. HiddenBooksReturn' /\ SaveIsDue'
  BY <1>1 DEF HiddenBooksReturn, SaveIsDue
<1> QED  BY <1>7, <1>8 DEF PanesInv

\* The end of a drag, and a pane raised.
LEMMA ReleaseKeeps ==
  ASSUME PanesInv, LeftMouseClick
  PROVE  PanesInv' /\ SaveIsDue'
<1>1. /\ dragged' = None /\ split' = RepositionPaneBooks(split, books) /\ hatched' = {} /\ due' = TRUE
      /\ UNCHANGED <<books, front, hit, saved, over>>
  BY DEF LeftMouseClick
<1>2. Now' = Now /\ split' \in [Splitters -> BOOLEAN]
  BY <1>1, SplitTypes DEF Now, PanesInv, TypeOK
<1>3. TypeOK'
  BY <1>1, <1>2 DEF PanesInv, TypeOK
<1>4. HiddenBooksReturn' /\ SaveIsDue'
  BY <1>1 DEF HiddenBooksReturn, SaveIsDue
<1> QED  BY <1>3, <1>4 DEF PanesInv

\* A pane in front is where it was.
LEMMA RaiseKeeps ==
  ASSUME PanesInv, NEW pane \in Panes, RaisePageID(pane)
  PROVE  PanesInv' /\ (SaveIsDue => SaveIsDue')
<1>1. /\ front' = Selecting(Now, pane).front
      /\ UNCHANGED <<books, split, dragged, hatched, hit, saved, due, over>>
  BY DEF RaisePageID
<1>2. Now' \in Shows
  <2>1. Now \in Shows /\ Now.books = books
    BY DEF PanesInv, TypeOK, Now
  <2>2. Selecting(Now, pane) \in Shows /\ Selecting(Now, pane).books = books
    BY Zenon, <2>1, SelectingShows
  <2> QED  BY Zenon, <1>1, <2>2, BecomeShows DEF Become
<1>3. TypeOK'
  BY <1>1, <1>2 DEF PanesInv, TypeOK
<1>4. HiddenBooksReturn' /\ (SaveIsDue => SaveIsDue')
  BY <1>1 DEF PanesInv, HiddenBooksReturn, SaveIsDue
<1> QED  BY <1>3, <1>4 DEF PanesInv

\* "Reset Notepanes": all panes in the book that cannot be hidden.
LEMMA ResetKeeps ==
  ASSUME PanesInv, ResetNotesPanes
  PROVE  PanesInv'
<1>1. /\ Become(Loaded(DefaultList)) /\ split' = RepositionPaneBooks(GetSplitterWidths(split, books'), books')
      /\ UNCHANGED <<dragged, hatched, hit, saved, due, over>>
  BY DEF ResetNotesPanes, Update
<1>2. PICK pages \in Layouts : DefaultList = PageList(pages) /\ pages[Top] = << >> /\ pages[BottomRight] = << >>
  BY FirstLayout
<1>3. pages \in [Books -> Seq(Panes)]
  BY DEF Layouts
<1>4. Loaded(DefaultList).books = pages
  BY <1>2, <1>3, LoadedPages
<1>5. Loaded(DefaultList) \in Shows
  BY Zenon, <1>2, <1>4, LoadedShows
<1>6. Now' \in Shows /\ books' = pages
  BY Zenon, <1>1, <1>4, <1>5, BecomeShows
<1>7. split' \in [Splitters -> BOOLEAN]
  BY <1>1, SplitTypes DEF PanesInv, TypeOK
<1>8. TypeOK'
  BY <1>1, <1>6, <1>7 DEF PanesInv, TypeOK
<1>9. HiddenBooksReturn'
  BY <1>2, <1>6 DEF HiddenBooksReturn, Splitters
<1> QED  BY <1>8, <1>9 DEF PanesInv

\* The timer, and what starts it.
LEMMA SaveKeeps ==
  ASSUME PanesInv, WindowMoved \/ SaveUI
  PROVE  PanesInv' /\ SaveIsDue'
<1>1. UNCHANGED <<books, front, dragged, hatched, hit, over>>
  BY DEF WindowMoved, SaveUI
<1>2. Now' = Now
  BY <1>1 DEF Now
<1>3. CASE WindowMoved \/ (SaveUI /\ IsDraggingPane)
  <2>1. UNCHANGED <<split, saved>> /\ due' \in BOOLEAN /\ (due' \/ dragged # None)
    BY <1>3 DEF WindowMoved, SaveUI, IsDraggingPane
  <2>2. TypeOK'
    BY <1>1, <1>2, <2>1 DEF PanesInv, TypeOK
  <2>3. HiddenBooksReturn' /\ SaveIsDue'
    BY <1>1, <2>1 DEF HiddenBooksReturn, SaveIsDue
  <2> QED  BY <2>2, <2>3 DEF PanesInv
<1>4. CASE SaveUI /\ ~IsDraggingPane
  <2>1. due' = FALSE /\ split' = GetSplitterWidths(split, books) /\ saved' = PageList(books)
    BY <1>4 DEF SaveUI
  <2>2. books \in Layouts
    BY DEF PanesInv, TypeOK, Now, Shows
  <2>3. split' \in [Splitters -> BOOLEAN] /\ \A c \in Splitters : books[c] # << >> => split'[c]
    BY Zenon, <2>1, SplitTypes DEF PanesInv, TypeOK
  <2>4. Loaded(saved').books \in Layouts /\ saved' = PageList(Loaded(saved').books)
    BY Zenon, <2>1, <2>2, SavedPages
  <2>5. TypeOK'
    BY <1>1, <1>2, <2>1, <2>3, <2>4 DEF PanesInv, TypeOK
  <2>6. HiddenBooksReturn' /\ SaveIsDue'
    BY <1>1, <2>1, <2>3 DEF HiddenBooksReturn, SaveIsDue
  <2> QED  BY <2>5, <2>6 DEF PanesInv
<1> QED  BY <1>3, <1>4

\* The next launch shows what was saved.
LEMMA RelaunchKeeps ==
  ASSUME PanesInv, Relaunch
  PROVE  PanesInv' /\ (SaveIsDue => SaveIsDue')
<1> DEFINE at == IF Output \in {e[1] : e \in ToSet(saved)} THEN Selecting(Loaded(saved), Output) ELSE Loaded(saved)
<1>1. CASE saved = << >>
  <2>1. /\ over' = "assert(!page_name.empty())"
        /\ UNCHANGED <<books, front, split, dragged, hatched, hit, saved, due>>
    BY <1>1 DEF Relaunch
  <2>2. Now' = Now
    BY <2>1 DEF Now
  <2>3. TypeOK'
    BY <2>1, <2>2 DEF PanesInv, TypeOK
  <2>4. HiddenBooksReturn' /\ (SaveIsDue => SaveIsDue')
    BY <2>1 DEF HiddenBooksReturn, SaveIsDue
  <2> QED  BY <2>3, <2>4 DEF PanesInv
<1>2. CASE saved # << >>
  <2>1. /\ Become(at) /\ split' = RepositionPaneBooks([b \in Splitters |-> FALSE], books')
        /\ dragged' = None /\ hatched' = {} /\ hit' = NoHit /\ due' = FALSE /\ UNCHANGED <<saved, over>>
    BY Zenon, <1>2 DEF Relaunch
  <2>2. Loaded(saved) \in Shows /\ PageList(Loaded(saved).books) = saved
    BY Zenon, LoadedShows DEF PanesInv, TypeOK
  <2>3. at \in Shows /\ at.books = Loaded(saved).books
    BY Zenon, <2>2, SelectingShows
  <2> HIDE DEF at
  <2>4. Now' \in Shows /\ books' = Loaded(saved).books
    BY Zenon, <2>1, <2>3, BecomeShows
  <2>5. split' = [b \in Splitters |-> books'[b] # << >> /\ ~[c \in Splitters |-> FALSE][b]]
    BY Zenon, <2>1 DEF RepositionPaneBooks
  <2>6. split' \in [Splitters -> BOOLEAN]
    BY Zenon, <2>5
  <2>7. \A b \in Splitters : books'[b] # << >> => split'[b]
    BY Zenon, <2>5
  <2>8. TypeOK'
    BY <2>1, <2>4, <2>6 DEF PanesInv, TypeOK
  <2>9. HiddenBooksReturn' /\ SaveIsDue'
    BY Zenon, <2>1, <2>2, <2>4, <2>7 DEF HiddenBooksReturn, SaveIsDue
  <2> QED  BY <2>8, <2>9 DEF PanesInv
<1> QED  BY <1>1, <1>2

-----------------------------------------------------------------------------
(* The theorems. *)

\* The first launch loads the default layout, in which no book is hidden.
LEMMA InitPanes == Init => PanesInv
<1> SUFFICES ASSUME Init PROVE PanesInv
  OBVIOUS
<1>1. /\ saved = DefaultList /\ books = Loaded(saved).books /\ front = Selecting(Loaded(saved), Output).front
      /\ split = [b \in Splitters |-> FALSE]
      /\ dragged = None /\ hatched = {} /\ hit = NoHit /\ due = FALSE /\ over = ""
  BY DEF Init
<1>2. PICK pages \in Layouts : DefaultList = PageList(pages) /\ pages[Top] = << >> /\ pages[BottomRight] = << >>
  BY FirstLayout
<1>3. pages \in [Books -> Seq(Panes)]
  BY DEF Layouts
<1>4. Loaded(saved).books = pages
  <2>1. Loaded(PageList(pages)).books = pages
    BY <1>3, LoadedPages
  <2> QED  BY Zenon, <1>1, <1>2, <2>1
<1>5. Loaded(saved) \in Shows
  BY Zenon, <1>1, <1>2, <1>4, LoadedShows
<1> DEFINE at == Selecting(Loaded(saved), Output)
<1>6. at \in Shows /\ at.books = Loaded(saved).books
  BY Zenon, <1>5, SelectingShows
<1>7. Now \in Shows
  <2> HIDE DEF at
  <2>1. at = [books |-> at.books, front |-> at.front]
    BY <1>6 DEF Shows
  <2>2. Now = at
    BY Zenon, <1>1, <1>6, <2>1 DEF Now, at
  <2> QED  BY Zenon, <1>6, <2>2
<1>8. TypeOK
  BY <1>1, <1>2, <1>4, <1>7 DEF TypeOK
<1>9. HiddenBooksReturn
  BY <1>1, <1>2, <1>4 DEF HiddenBooksReturn, Splitters
<1> QED  BY <1>8, <1>9 DEF PanesInv

\* Every step keeps it, and leaves a changed layout to be saved unless it is a reset.
LEMMA NextPanes ==
  PanesInv /\ [Next]_vars => PanesInv' /\ [SaveIsDue /\ ~SaveIsDue' => ResetNotesPanes]_vars
<1> SUFFICES ASSUME PanesInv, [Next]_vars
             PROVE  PanesInv' /\ (SaveIsDue /\ ~SaveIsDue' => ResetNotesPanes)
  OBVIOUS
<1>1. CASE \E b \in Books, pane \in Panes : ClosePane(b, pane) \/ ShiftPaneBook(b, pane) \/ StartDrag(b, pane)
  BY Zenon, <1>1, CloseKeeps, ShiftKeeps, StartKeeps
<1>2. CASE MouseDragMove
  BY Zenon, <1>2, MoveKeeps
<1>3. CASE LeftMouseClick
  BY Zenon, <1>3, ReleaseKeeps
<1>4. CASE \E pane \in Panes : RaisePageID(pane)
  BY Zenon, <1>4, RaiseKeeps
<1>5. CASE ResetNotesPanes
  BY Zenon, <1>5, ResetKeeps
<1>6. CASE WindowMoved \/ SaveUI
  BY Zenon, <1>6, SaveKeeps
<1>7. CASE Relaunch
  BY Zenon, <1>7, RelaunchKeeps
<1>8. CASE Over \/ UNCHANGED vars
  <2>1. UNCHANGED <<books, front, split, dragged, hatched, hit, saved, due, over>>
    BY <1>8 DEF Over, vars
  <2>2. Now' = Now
    BY <2>1 DEF Now
  <2>3. TypeOK'
    BY <2>1, <2>2 DEF PanesInv, TypeOK
  <2>4. HiddenBooksReturn' /\ (SaveIsDue => SaveIsDue')
    BY <2>1 DEF PanesInv, HiddenBooksReturn, SaveIsDue
  <2> QED  BY <2>3, <2>4 DEF PanesInv
<1> QED  BY Zenon, <1>1, <1>2, <1>3, <1>4, <1>5, <1>6, <1>7, <1>8 DEF Next

\* No pane is ever in two books or twice in one, nor in the file, whose next reader asserts
\* it; a book with pages has one of them in front, and the file lists a layout.
\* (AddPageID(), RemovePageFromBook(), OnMouseDragMove(), LoadUI())
THEOREM PanesTypes == Spec => []TypeOK
<1>1. PanesInv => TypeOK
  BY DEF PanesInv
<1>2. PanesInv /\ [Next]_vars => PanesInv'
  BY NextPanes
<1> QED  BY <1>1, <1>2, InitPanes, PTL DEF Spec

\* A book with pages is hidden only while a save is due or a drag is on, both of which
\* measure the splitters and bring it back. (RepositionPaneBooks(), GetSplitterWidths())
THEOREM BooksReturn == Spec => []HiddenBooksReturn
<1>1. PanesInv => HiddenBooksReturn
  BY DEF PanesInv
<1>2. PanesInv /\ [Next]_vars => PanesInv'
  BY NextPanes
<1> QED  BY <1>1, <1>2, InitPanes, PTL DEF Spec

\* No step but a reset leaves a layout that differs from the file with no save due: what
\* SaveUI() writes, LoadUI() reads back. (SaveUI(), LoadUI(), OnLeftMouseClick())
THEOREM ChangesAreSaved == Spec => LayoutIsSaved
<1>1. PanesInv /\ [Next]_vars => PanesInv'
  BY NextPanes
<1>2. PanesInv /\ [Next]_vars => [SaveIsDue /\ ~SaveIsDue' => ResetNotesPanes]_vars
  BY NextPanes
<1> QED  BY <1>1, <1>2, InitPanes, PTL DEF Spec, LayoutIsSaved

=============================================================================
